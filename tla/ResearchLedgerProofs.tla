------------------------ MODULE ResearchLedgerProofs ------------------------
(***************************************************************************)
(* The rules of the research ledger hold for any number of hypotheses,     *)
(* evidence items, conclusions and transitions.  The history of a          *)
(* hypothesis only grows at its end, so each rule about histories has to   *)
(* be checked for the last transition alone; a conclusion cannot recover   *)
(* because a revision number is the length of a history that only grows.   *)
(***************************************************************************)
EXTENDS ResearchLedger, TLAPS

(* What appending one transition does to a history. *)
LEMMA AppendFacts ==
    ASSUME NEW log \in Seq(Transitions), NEW t \in Transitions
    PROVE  /\ Append(log, t) \in Seq(Transitions)
           /\ Len(Append(log, t)) = Len(log) + 1
           /\ Append(log, t)[Len(log) + 1] = t
           /\ \A i \in 1 .. Len(log) : Append(log, t)[i] = log[i]
           /\ DOMAIN Append(log, t) = 1 .. (Len(log) + 1)
           /\ DOMAIN log = 1 .. Len(log)
  OBVIOUS

(* The three items that append do it like this: what they store is a       *)
(* spelling, and one with blanks only at a birth.                          *)
LEMMA TransitionsAppend ==
    ASSUME TypeOK, NEW h \in Hypotheses, NEW x \in Spellings,
           \/ \E s \in TransitionStatuses : Declare(h, s, x) \/ Transition(h, s, x)
           \/ Reopen(h, x)
    PROVE  \E s \in TransitionStatuses, y \in Spellings :
              /\ AppendTransition(h, s, y)
              /\ y.padded => status[h] = "undeclared"
              /\ status[h] = "rejected" /\ s = "active" =>
                    y.id # NoEvidence /\ y \notin cited_evidence(h)
              /\ y.id # NoEvidence => evidence[y.id] = "live"
  <1>0. /\ Stripped(x) \in Spellings /\ Stripped(x).id = x.id /\ ~Stripped(x).padded
    BY DEF Stripped, Spellings
  <1>1. ASSUME NEW s \in TransitionStatuses, Declare(h, s, x)
        PROVE  /\ AppendTransition(h, s, x) /\ status[h] = "undeclared"
               /\ x.id # NoEvidence => evidence[x.id] = "live"
    BY <1>1 DEF Declare, RequireEvidence
  <1>2. ASSUME NEW s \in TransitionStatuses, Transition(h, s, x)
        PROVE  /\ AppendTransition(h, s, Stripped(x)) /\ ~(status[h] = "rejected" /\ s = "active")
               /\ x.id # NoEvidence => evidence[x.id] = "live"
    BY <1>2 DEF Transition, RequireEvidence
  <1>3. CASE Reopen(h, x)
    <2>1. /\ AppendTransition(h, "active", Stripped(x)) /\ Stripped(x) \notin cited_evidence(h)
          /\ x.id # NoEvidence /\ evidence[x.id] = "live"
      BY <1>3 DEF Reopen, RequireEvidence
    <2> QED BY <1>0, <2>1 DEF TransitionStatuses
  <1> QED BY <1>0, <1>1, <1>2, <1>3

(* Every variable keeps its type. *)
LEMMA TypeStep == TypeOK /\ [Next]_ledgerVars => TypeOK'
  <1> SUFFICES ASSUME TypeOK, [Next]_ledgerVars PROVE TypeOK'
    OBVIOUS
  <1>1. ASSUME NEW e \in EvidenceIds,
               \/ RegisterEvidence(e) \/ RetractEvidence(e) \/ RestoreEvidence(e)
               \/ \E target \in EvidenceIds : CorrectEvidence(e, target)
        PROVE  TypeOK'
    BY <1>1 DEF RegisterEvidence, RetractEvidence, RestoreEvidence, CorrectEvidence, Retract,
                TypeOK
  <1>2. ASSUME NEW h \in Hypotheses, NEW x \in Spellings,
               \/ \E s \in TransitionStatuses : Declare(h, s, x) \/ Transition(h, s, x)
               \/ Reopen(h, x)
        PROVE  TypeOK'
    <2>1. PICK s \in TransitionStatuses, y \in Spellings : AppendTransition(h, s, y)
      BY <1>2, TransitionsAppend
    <2>2. [status |-> s, evidence |-> y] \in Transitions
      BY DEF Transitions
    <2>3. Append(transitions[h], [status |-> s, evidence |-> y]) \in Seq(Transitions)
      BY <2>2, AppendFacts DEF TypeOK
    <2>4. transitions' \in [Hypotheses -> Seq(Transitions)]
      BY <2>1, <2>3 DEF AppendTransition, TypeOK
    <2> QED BY <2>1, <2>4 DEF AppendTransition, TypeOK
  <1>3. ASSUME NEW c \in Conclusions, NEW P \in SUBSET Hypotheses, AddConclusion(c, P)
        PROVE  TypeOK'
    BY <1>3 DEF AddConclusion, TypeOK, Pins
  <1>4. CASE Clear
    BY <1>4 DEF Clear, TypeOK
  <1>5. CASE UNCHANGED ledgerVars
    BY <1>5 DEF ledgerVars, TypeOK
  <1> QED BY <1>1, <1>2, <1>3, <1>4, <1>5 DEF Next

(* The variables of the ledger take the values of the code.                *)
THEOREM LedgerTypeCorrect == Spec => []TypeOK
  <1>1. Init => TypeOK
    BY DEF Init, TypeOK
  <1> QED BY <1>1, TypeStep, PTL DEF Spec

-----------------------------------------------------------------------------
(* The rules about histories are inductive together: ReopenCitesNewEvidence *)
(* needs HistoryExplainsState, because the guard of a transition reads the  *)
(* status and the rule reads the last entry of the history.                 *)
LedgerInv ==
    /\ TypeOK
    /\ HistoryExplainsState
    /\ ReopenCitesNewEvidence
    /\ CitationsStayRegistered

LEMMA AppendInv ==
    ASSUME LedgerInv, TypeOK', NEW h \in Hypotheses, NEW y \in Spellings,
           NEW s \in TransitionStatuses, AppendTransition(h, s, y),
           y.padded => status[h] = "undeclared",
           status[h] = "rejected" /\ s = "active" =>
               y.id # NoEvidence /\ y \notin cited_evidence(h),
           y.id # NoEvidence => evidence[y.id] = "live"
    PROVE  LedgerInv'
  <1> DEFINE log == transitions[h]
             entry == [status |-> s, evidence |-> y]
  <1>1. log \in Seq(Transitions) /\ entry \in Transitions
    BY DEF LedgerInv, TypeOK, Transitions
  <1>2. /\ transitions'[h] = Append(log, entry)
        /\ \A g \in Hypotheses \ {h} : transitions'[g] = transitions[g]
        /\ status'[h] = s /\ revision'[h] = revision[h] + 1
        /\ \A g \in Hypotheses \ {h} : status'[g] = status[g] /\ revision'[g] = revision[g]
        /\ evidence' = evidence
    BY DEF AppendTransition, LedgerInv, TypeOK
  <1>3. /\ Len(transitions'[h]) = Len(log) + 1
        /\ transitions'[h][Len(log) + 1] = entry
        /\ \A i \in 1 .. Len(log) : transitions'[h][i] = log[i]
        /\ DOMAIN transitions'[h] = 1 .. (Len(log) + 1)
        /\ DOMAIN log = 1 .. Len(log)
        /\ Len(log) \in Nat
    BY <1>1, <1>2, AppendFacts
  <1>4. HistoryExplainsState'
    <2>0. revision[h] = Len(log) /\ Len(<<>>) = 0
      BY DEF LedgerInv, HistoryExplainsState
    <2>1. revision'[h] = Len(transitions'[h]) /\ transitions'[h] # <<>>
      BY <1>2, <1>3, <2>0
    <2>2. status'[h] = transitions'[h][Len(transitions'[h])].status
      BY <1>2, <1>3
    <2> QED BY <1>2, <2>1, <2>2 DEF LedgerInv, HistoryExplainsState
  <1>5. ReopenCitesNewEvidence'
    <2>1. ASSUME NEW i \in 2 .. (Len(log) + 1),
                 transitions'[h][i - 1].status = "rejected", transitions'[h][i].status = "active"
          PROVE  CitesNewEvidence(transitions'[h], i)
      <3>1. CASE i \in 2 .. Len(log)
        <4>1. log[i - 1].status = "rejected" /\ log[i].status = "active"
          BY SMTT(20), <1>3, <2>1, <3>1
        <4>2. CitesNewEvidence(log, i)
          BY <3>1, <4>1 DEF LedgerInv, ReopenCitesNewEvidence
        <4>3. /\ transitions'[h][i] = log[i]
              /\ \A k \in 1 .. (i - 1) : transitions'[h][k] = log[k]
          BY <1>3, <3>1
        <4> QED BY <4>2, <4>3 DEF CitesNewEvidence
      <3>2. CASE i = Len(log) + 1
        <4>1. log[Len(log)].status = "rejected" /\ s = "active" /\ Len(log) \in 1 .. Len(log)
          BY <1>3, <2>1, <3>2
        <4>2. status[h] = "rejected"
          BY <4>1, <1>3 DEF LedgerInv, HistoryExplainsState
        <4>3. y.id # NoEvidence /\ y \notin cited_evidence(h) /\ ~y.padded
          BY <4>1, <4>2
        <4>4. ASSUME NEW k \in 1 .. Len(log), log[k].evidence.id = y.id
              PROVE  k = 1 /\ log[k].evidence.padded
          <5>0. log[k] \in Transitions
            BY <1>1
          <5>1. log[k].evidence \in Spellings /\ k \in DOMAIN log
            BY <1>3, <5>0 DEF Transitions
          <5>2. log[k].evidence # EmptyText
            BY <4>3, <4>4 DEF EmptyText
          <5>3. log[k].evidence # y
            BY <4>3, <5>1, <5>2 DEF cited_evidence
          <5>4. log[k].evidence.padded
            BY <4>3, <4>4, <5>1, <5>3 DEF Spellings
          <5> QED BY <5>1, <5>4 DEF LedgerInv, CitationsStayRegistered
        <4>5. \A k \in 1 .. (i - 1) : transitions'[h][k] = log[k] /\ k \in 1 .. Len(log)
          BY <1>3, <3>2
        <4>6. transitions'[h][i].evidence = y
          BY <1>3, <3>2
        <4> QED BY <4>3, <4>4, <4>5, <4>6 DEF CitesNewEvidence
      <3> QED BY <1>3, <3>1, <3>2
    <2>2. \A i \in 2 .. Len(transitions'[h]) :
             transitions'[h][i - 1].status = "rejected" /\ transitions'[h][i].status = "active"
                 => CitesNewEvidence(transitions'[h], i)
      BY <1>3, <2>1
    <2>3. \A g \in Hypotheses \ {h} : \A i \in 2 .. Len(transitions'[g]) :
             transitions'[g][i - 1].status = "rejected" /\ transitions'[g][i].status = "active"
                 => CitesNewEvidence(transitions'[g], i)
      BY <1>2 DEF LedgerInv, ReopenCitesNewEvidence
    <2> QED BY <2>2, <2>3 DEF ReopenCitesNewEvidence, CitesNewEvidence
  <1>6. CitationsStayRegistered'
    <2>1. ASSUME NEW i \in DOMAIN transitions'[h]
          PROVE  /\ transitions'[h][i].evidence.id # NoEvidence
                       => evidence[transitions'[h][i].evidence.id] # "unknown"
                 /\ transitions'[h][i].evidence.padded => i = 1
      <3>1. CASE i \in 1 .. Len(log)
        BY <1>3, <3>1 DEF LedgerInv, CitationsStayRegistered
      <3>2. CASE i = Len(log) + 1
        <4>1. \A k \in 1 .. Len(log) : log[k] \in Transitions
          BY <1>1
        <4>2. Len(log) # 0 => log[Len(log)].status # "undeclared"
          BY <1>3, <4>1 DEF Transitions, TransitionStatuses
        <4>3. y.padded => log = <<>>
          BY <1>3, <4>2 DEF LedgerInv, HistoryExplainsState
        <4>4. y.padded => Len(log) = 0
          BY <4>3
        <4> QED BY <1>3, <3>2, <4>4
      <3> QED BY <1>3, <3>1, <3>2
    <2> QED BY SMTT(20), <1>2, <2>1 DEF LedgerInv, CitationsStayRegistered
  <1> QED BY <1>4, <1>5, <1>6 DEF LedgerInv

LEMMA LedgerStep == LedgerInv /\ [Next]_ledgerVars => LedgerInv'
  <1> SUFFICES ASSUME LedgerInv, [Next]_ledgerVars PROVE LedgerInv'
    OBVIOUS
  <1>0. TypeOK /\ TypeOK'
    BY TypeStep DEF LedgerInv
  <1>1. ASSUME NEW e \in EvidenceIds,
               \/ RegisterEvidence(e) \/ RetractEvidence(e) \/ RestoreEvidence(e)
               \/ \E target \in EvidenceIds : CorrectEvidence(e, target)
        PROVE  LedgerInv'
    <2>1. UNCHANGED <<status, revision, transitions>>
      BY <1>1 DEF RegisterEvidence, RetractEvidence, RestoreEvidence, CorrectEvidence
    <2>2. \A x \in EvidenceIds : evidence[x] # "unknown" => evidence'[x] # "unknown"
      BY <1>0, <1>1 DEF RegisterEvidence, RetractEvidence, RestoreEvidence, CorrectEvidence,
                        Retract, TypeOK
    <2>3. \A h \in Hypotheses : \A i \in DOMAIN transitions[h] :
             transitions[h][i].evidence.id \in EvidenceIds \cup {NoEvidence}
      <3>1. \A h \in Hypotheses : transitions[h] \in Seq(Transitions)
        BY <1>0 DEF TypeOK
      <3>2. \A h \in Hypotheses : \A i \in DOMAIN transitions[h] :
               transitions[h][i] \in Transitions
        BY <3>1
      <3> QED BY <3>2 DEF Transitions, Spellings
    <2>4. CitationsStayRegistered'
      BY <2>1, <2>2, <2>3 DEF LedgerInv, CitationsStayRegistered
    <2> QED BY <1>0, <2>1, <2>4 DEF LedgerInv, HistoryExplainsState, ReopenCitesNewEvidence, CitesNewEvidence
  <1>2. ASSUME NEW h \in Hypotheses, NEW x \in Spellings,
               \/ \E s \in TransitionStatuses : Declare(h, s, x) \/ Transition(h, s, x)
               \/ Reopen(h, x)
        PROVE  LedgerInv'
    BY <1>0, <1>2, TransitionsAppend, AppendInv
  <1>3. ASSUME NEW c \in Conclusions, NEW P \in SUBSET Hypotheses, AddConclusion(c, P)
        PROVE  LedgerInv'
    BY <1>0, <1>3 DEF AddConclusion, LedgerInv, HistoryExplainsState, ReopenCitesNewEvidence,
                      CitationsStayRegistered
  <1>4. CASE Clear
    BY <1>0, <1>4 DEF Clear, LedgerInv, HistoryExplainsState, ReopenCitesNewEvidence,
                      CitationsStayRegistered
  <1>5. CASE UNCHANGED ledgerVars
    BY <1>0, <1>5 DEF ledgerVars, LedgerInv, HistoryExplainsState, ReopenCitesNewEvidence,
                      CitationsStayRegistered
  <1> QED BY <1>1, <1>2, <1>3, <1>4, <1>5 DEF Next

LEMMA LedgerInvariant == Spec => []LedgerInv
  <1>1. Init => LedgerInv
    BY DEF Init, LedgerInv, TypeOK, HistoryExplainsState, ReopenCitesNewEvidence,
           CitationsStayRegistered
  <1> QED BY <1>1, LedgerStep, PTL DEF Spec

(* A revision number names one transition of a hypothesis for good.        *)
THEOREM HistoryExplained == Spec => []HistoryExplainsState
  BY LedgerInvariant, PTL DEF LedgerInv

(* A rejected hypothesis goes straight back to active only on evidence its *)
(* history does not cite, but for a birth that cited it with blanks.       *)
THEOREM ReopeningIsEarned == Spec => []ReopenCitesNewEvidence
  BY LedgerInvariant, PTL DEF LedgerInv

(* No retraction takes the basis of a recorded transition away, and every  *)
(* citation but that of a birth is the very id of the evidence.            *)
THEOREM CitationsAreKept == Spec => []CitationsStayRegistered
  BY LedgerInvariant, PTL DEF LedgerInv

-----------------------------------------------------------------------------
(* Validity needs one more fact: a pinned revision is one the premise has  *)
(* already had, so once the premise has moved on, its revision, which is   *)
(* the length of a growing history, never equals the pin again.            *)
PinsArePast ==
    \A c \in Conclusions : Recorded(c) =>
        \A h \in PremisesOf(c) : premises[c][h] \in Nat /\ premises[c][h] <= revision[h]

LEMMA PinsStep == LedgerInv /\ PinsArePast /\ [Next]_ledgerVars => PinsArePast'
  <1> SUFFICES ASSUME LedgerInv, PinsArePast, [Next]_ledgerVars PROVE PinsArePast'
    OBVIOUS
  <1>0. TypeOK
    BY DEF LedgerInv
  <1>1. ASSUME NEW e \in EvidenceIds,
               \/ RegisterEvidence(e) \/ RetractEvidence(e) \/ RestoreEvidence(e)
               \/ \E target \in EvidenceIds : CorrectEvidence(e, target)
        PROVE  premises' = premises /\ revision' = revision
    BY <1>1 DEF RegisterEvidence, RetractEvidence, RestoreEvidence, CorrectEvidence
  <1>2. ASSUME NEW h \in Hypotheses, NEW x \in Spellings,
               \/ \E s \in TransitionStatuses : Declare(h, s, x) \/ Transition(h, s, x)
               \/ Reopen(h, x)
        PROVE  PinsArePast'
    <2>1. PICK s \in TransitionStatuses, y \in Spellings : AppendTransition(h, s, y)
      BY <1>0, <1>2, TransitionsAppend
    <2>2. premises' = premises /\ \A g \in Hypotheses : revision[g] \in Nat /\ revision[g] <= revision'[g]
      BY <1>0, <2>1 DEF AppendTransition, TypeOK
    <2>3. \A g \in Hypotheses : revision'[g] \in Nat
      BY <1>0, <2>1 DEF AppendTransition, TypeOK
    <2> QED BY <2>2, <2>3 DEF PinsArePast, PremisesOf, Recorded
  <1>3. ASSUME NEW c \in Conclusions, NEW P \in SUBSET Hypotheses, AddConclusion(c, P)
        PROVE  PinsArePast'
    BY <1>0, <1>3 DEF AddConclusion, TypeOK, PinsArePast, PremisesOf, Recorded
  <1>4. CASE Clear
    BY <1>4 DEF Clear, PinsArePast, Recorded
  <1>5. CASE premises' = premises /\ revision' = revision
    BY <1>5 DEF PinsArePast, PremisesOf, Recorded
  <1> QED BY <1>1, <1>2, <1>3, <1>4, <1>5 DEF Next, ledgerVars

LEMMA ValidityStep ==
    ASSUME LedgerInv, PinsArePast, [Next]_ledgerVars, NEW c \in Conclusions,
           Recorded(c), premises'[c] = premises[c],
           ~Valid(c) \/ \E h \in PremisesOf(c) : transitions'[h] # transitions[h]
    PROVE  ~Valid(c)'
  <1>0. TypeOK /\ HistoryExplainsState /\ HistoryExplainsState'
    BY LedgerStep DEF LedgerInv
  <1>1. CASE Clear
    BY <1>1 DEF Clear, Recorded
  <1>2. Recorded(c)' /\ PremisesOf(c)' = PremisesOf(c)
    BY DEF Recorded, PremisesOf
  <1>3. ASSUME UNCHANGED <<status, revision, transitions>>
        PROVE  ~Valid(c)'
    BY <1>2, <1>3 DEF Valid, stale_premises, PremisesOf
  <1>4. ASSUME NEW h \in Hypotheses, NEW x \in Spellings,
               NEW s \in TransitionStatuses, AppendTransition(h, s, x)
        PROVE  ~Valid(c)'
    <2>1. /\ revision'[h] = revision[h] + 1
          /\ \A g \in Hypotheses \ {h} :
                revision'[g] = revision[g] /\ status'[g] = status[g]
                    /\ transitions'[g] = transitions[g]
      BY <1>0, <1>4 DEF AppendTransition, TypeOK
    <2>2. CASE h \in PremisesOf(c)
      <3>1. premises[c][h] \in Nat /\ premises[c][h] <= revision[h] /\ revision[h] \in Nat
        BY <1>0, <2>2 DEF PinsArePast, TypeOK
      <3>2. revision'[h] # premises'[c][h]
        BY <2>1, <3>1
      <3> QED BY <1>2, <2>2, <3>2 DEF Valid, stale_premises
    <2>3. CASE h \notin PremisesOf(c)
      <3>1. ~Valid(c)
        BY <2>1, <2>3 DEF PremisesOf
      <3>2. PICK g \in PremisesOf(c) : g \in stale_premises(c)
        BY <3>1 DEF Valid, stale_premises
      <3>3. g \in Hypotheses \ {h}
        BY <2>3, <3>2 DEF PremisesOf
      <3>4. g \in stale_premises(c)'
        BY <1>2, <2>1, <3>2, <3>3 DEF stale_premises
      <3> QED BY <3>4 DEF Valid
    <2> QED BY <2>2, <2>3
  <1>5. CASE \E a \in Conclusions, P \in SUBSET Hypotheses : AddConclusion(a, P)
    BY <1>3, <1>5 DEF AddConclusion
  <1>6. CASE \E e \in EvidenceIds :
               \/ RegisterEvidence(e) \/ RetractEvidence(e) \/ RestoreEvidence(e)
               \/ \E target \in EvidenceIds : CorrectEvidence(e, target)
    BY <1>3, <1>6 DEF RegisterEvidence, RetractEvidence, RestoreEvidence, CorrectEvidence
  <1>7. CASE UNCHANGED ledgerVars
    BY <1>3, <1>7 DEF ledgerVars
  <1>8. CASE \E h \in Hypotheses, x \in Spellings :
               \/ \E s \in TransitionStatuses : Declare(h, s, x) \/ Transition(h, s, x)
               \/ Reopen(h, x)
    BY <1>0, <1>4, <1>8, TransitionsAppend
  <1> QED BY <1>1, <1>5, <1>6, <1>7, <1>8 DEF Next

(* A conclusion whose premise moved stays invalid until it is recorded     *)
(* again, whatever happens to its premises.                                *)
THEOREM ConclusionsStayInvalid == Spec => InvalidStaysInvalid
  <1>1. Init => LedgerInv /\ PinsArePast
    BY DEF Init, LedgerInv, TypeOK, HistoryExplainsState, ReopenCitesNewEvidence,
           CitationsStayRegistered, PinsArePast, Recorded
  <1>2. LedgerInv /\ PinsArePast /\ [Next]_ledgerVars => (LedgerInv /\ PinsArePast)'
    BY LedgerStep, PinsStep
  <1>3. LedgerInv /\ PinsArePast /\ [Next]_ledgerVars
           => [\A c \in Conclusions :
                  Recorded(c) /\ premises'[c] = premises[c]
                      /\ (~Valid(c) \/ \E h \in PremisesOf(c) : transitions'[h] # transitions[h])
                      => ~Valid(c)']_ledgerVars
    BY ValidityStep
  <1> QED BY <1>1, <1>2, <1>3, PTL DEF Spec, InvalidStaysInvalid
=============================================================================
