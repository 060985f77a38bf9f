--------------------------- MODULE ResearchLedger ---------------------------
(***************************************************************************)
(* ResearchLedger (ledger.py): what a run currently holds true.  The model *)
(* corrects it through batches of items; a batch runs its evidence items,  *)
(* then its hypothesis items, then its conclusion items, without an await, *)
(* and an item that breaks a rule is refused and skipped.  So every batch  *)
(* is a sequence of the single items below, and a refused one is no step.  *)
(*                                                                         *)
(* Wording (statements, summaries, sources, notes, the goal) is left out:  *)
(* no rule of the ledger depends on it.  The spelling of a cited id is     *)
(* kept: the model may write blanks around it, and the code strips them in *)
(* some places and not in others.                                          *)
(***************************************************************************)
EXTENDS Naturals, Sequences, FiniteSets

CONSTANTS
    EvidenceIds,
    Hypotheses,
    Conclusions,
    NoEvidence,         \* an empty evidence id
    NoConclusion,       \* a conclusion that was never recorded
    NotPremise,         \* the pin of a hypothesis a conclusion does not rest on
    MaxTransitions      \* bound: transitions of all hypotheses together

ASSUME NoEvidenceAssumption == NoEvidence \notin EvidenceIds
ASSUME NotPremiseAssumption == NotPremise \notin Nat
ASSUME MaxTransitionsAssumption == MaxTransitions \in Nat

TransitionStatuses == {"active", "rejected", "confirmed"}

VARIABLES
    evidence,       \* "unknown", "live" or "retracted"
    status,         \* Hypothesis.status, "undeclared" before it exists
    revision,       \* Hypothesis.revision, 0 before it exists
    transitions,    \* Hypothesis.transitions, oldest first
    premises        \* Conclusion.premises: the revision each premise is pinned to

ledgerVars == <<evidence, status, revision, transitions, premises>>

(* A citation as the model spells it; padded: with blanks around the id.   *)
Spellings == [id : EvidenceIds \cup {NoEvidence}, padded : BOOLEAN]
Stripped(x) == [x EXCEPT !.padded = FALSE]
EmptyText == [id |-> NoEvidence, padded |-> FALSE]

Transitions == [status : TransitionStatuses, evidence : Spellings]
Pins == [Hypotheses -> Nat \cup {NotPremise}]

TypeOK ==
    /\ evidence \in [EvidenceIds -> {"unknown", "live", "retracted"}]
    /\ status \in [Hypotheses -> TransitionStatuses \cup {"undeclared"}]
    /\ revision \in [Hypotheses -> Nat]
    /\ transitions \in [Hypotheses -> Seq(Transitions)]
    /\ premises \in [Conclusions -> Pins \cup {NoConclusion}]

Init ==
    /\ evidence = [e \in EvidenceIds |-> "unknown"]
    /\ status = [h \in Hypotheses |-> "undeclared"]
    /\ revision = [h \in Hypotheses |-> 0]
    /\ transitions = [h \in Hypotheses |-> <<>>]
    /\ premises = [c \in Conclusions |-> NoConclusion]

-----------------------------------------------------------------------------
(* Evidence items.                                                         *)

(* add_evidence with retracted = None: an ordinary registration keeps the  *)
(* flag of an item that is already there.                                  *)
RegisterEvidence(e) ==
    /\ evidence[e] = "unknown"
    /\ evidence' = [evidence EXCEPT ![e] = "live"]
    /\ UNCHANGED <<status, revision, transitions, premises>>

RetractDeletes(e) == [evidence EXCEPT ![e] = "unknown"]

Retract(e) == [evidence EXCEPT ![e] = "retracted"]

(* retracted = True, refused for an id that is new. *)
RetractEvidence(e) ==
    /\ evidence[e] # "unknown"
    /\ evidence' = Retract(e)
    /\ UNCHANGED <<status, revision, transitions, premises>>

(* retracted = False puts an item back. *)
RestoreEvidence(e) ==
    /\ evidence' = [evidence EXCEPT ![e] = "live"]
    /\ UNCHANGED <<status, revision, transitions, premises>>

(* retracts = target: e registers the correction and target is retracted.  *)
CorrectEvidence(e, target) ==
    /\ e # target
    /\ evidence[e] # "retracted"
    /\ evidence' = [x \in EvidenceIds |->
                       IF x = e THEN "live"
                       ELSE IF x = target /\ evidence[x] # "unknown" THEN Retract(target)[x]
                       ELSE evidence[x]]
    /\ UNCHANGED <<status, revision, transitions, premises>>

-----------------------------------------------------------------------------
(* Hypothesis items.                                                       *)

Room ==
    Cardinality({p \in Hypotheses \X (1 .. MaxTransitions) : p[2] <= revision[p[1]]})
        < MaxTransitions

CitedNothing(h) == {}

cited_evidence(h) ==
    {transitions[h][i].evidence : i \in DOMAIN transitions[h]} \ {EmptyText}

(* _require_evidence does not raise; it looks the id up without its blanks. *)
RequireEvidence(x, optional) ==
    IF x.id = NoEvidence THEN optional ELSE evidence[x.id] = "live"

AppendWithoutRevision(h, s, x) ==
    /\ status' = [status EXCEPT ![h] = s]
    /\ transitions' = [transitions EXCEPT ![h] = Append(@, [status |-> s, evidence |-> x])]
    /\ UNCHANGED <<revision, evidence, premises>>

AppendTransition(h, s, x) ==
    /\ status' = [status EXCEPT ![h] = s]
    /\ revision' = [revision EXCEPT ![h] = @ + 1]
    /\ transitions' = [transitions EXCEPT ![h] = Append(@, [status |-> s, evidence |-> x])]
    /\ UNCHANGED <<evidence, premises>>

(* declare_hypothesis of a new id: born in any status.  The citation is    *)
(* checked without its blanks and stored with them.                        *)
Declare(h, s, x) ==
    /\ status[h] = "undeclared"
    /\ Room
    /\ RequireEvidence(x, TRUE)
    /\ AppendTransition(h, s, x)

(* declare_hypothesis of a known id with another status. *)
Transition(h, s, x) ==
    /\ status[h] \notin {"undeclared", s}
    /\ Room
    /\ ~(status[h] = "rejected" /\ s = "active")
    /\ RequireEvidence(x, s = "active")
    /\ AppendTransition(h, s, Stripped(x))

(* reopen_hypothesis, whatever the status is. *)
Reopen(h, x) ==
    /\ status[h] # "undeclared"
    /\ Room
    /\ RequireEvidence(x, FALSE)
    /\ Stripped(x) \notin cited_evidence(h)
    /\ AppendTransition(h, "active", Stripped(x))

-----------------------------------------------------------------------------
(* Conclusion items.                                                       *)

(* add_conclusion: an unknown premise is pinned to revision 0. *)
AddConclusion(c, P) ==
    /\ premises' = [premises EXCEPT ![c] =
                       [h \in Hypotheses |-> IF h \in P THEN revision[h] ELSE NotPremise]]
    /\ UNCHANGED <<evidence, status, revision, transitions>>

PremisesOf(c) == {h \in Hypotheses : premises[c][h] # NotPremise}

StaleIfRejected(c) == {h \in PremisesOf(c) : status[h] \in {"undeclared", "rejected"}}

stale_premises(c) ==
    {h \in PremisesOf(c) :
        \/ status[h] \in {"undeclared", "rejected"}
        \/ revision[h] # premises[c][h]}

Recorded(c) == premises[c] # NoConclusion

(* conclusion_is_valid *)
Valid(c) == Recorded(c) /\ stale_premises(c) = {}

(* clear(), between two runs of a channel. *)
Clear ==
    /\ evidence' = [e \in EvidenceIds |-> "unknown"]
    /\ status' = [h \in Hypotheses |-> "undeclared"]
    /\ revision' = [h \in Hypotheses |-> 0]
    /\ transitions' = [h \in Hypotheses |-> <<>>]
    /\ premises' = [c \in Conclusions |-> NoConclusion]

-----------------------------------------------------------------------------
Next ==
    \/ Clear
    \/ \E e \in EvidenceIds :
          \/ RegisterEvidence(e)
          \/ RetractEvidence(e)
          \/ RestoreEvidence(e)
          \/ \E target \in EvidenceIds : CorrectEvidence(e, target)
    \/ \E h \in Hypotheses, x \in Spellings :
          \/ \E s \in TransitionStatuses : Declare(h, s, x) \/ Transition(h, s, x)
          \/ Reopen(h, x)
    \/ \E c \in Conclusions, P \in SUBSET Hypotheses : AddConclusion(c, P)

Spec == Init /\ [][Next]_ledgerVars

-----------------------------------------------------------------------------
(* Correctness.                                                            *)

(* A hypothesis is what its history says: the transitions that the state   *)
(* block shows, cited evidence and the markers h=status@vN agree, so a     *)
(* revision number names one transition and is never used for another.     *)
HistoryExplainsState ==
    \A h \in Hypotheses :
        /\ revision[h] = Len(transitions[h])
        /\ IF transitions[h] = <<>> THEN status[h] = "undeclared"
           ELSE status[h] = transitions[h][Len(transitions[h])].status

(* The i-th citation of a history is new to it.  The code compares what it *)
(* stored: a citation that the birth wrote with blanks is not recognised.  *)
CitesNewEvidence(log, i) ==
    /\ log[i].evidence.id # NoEvidence
    /\ \A k \in 1 .. (i - 1) :
          log[k].evidence.id = log[i].evidence.id => k = 1 /\ log[k].evidence.padded

(* Whoever re-declares, confirms and refutes in between: the transition    *)
(* that takes a rejected hypothesis straight back to active cites evidence *)
(* that no earlier transition of that hypothesis cites, but for a birth    *)
(* that cited it with blanks (declare_hypothesis stores what it was given, *)
(* every later transition a stripped id).                                  *)
ReopenCitesNewEvidence ==
    \A h \in Hypotheses : \A i \in 2 .. Len(transitions[h]) :
        transitions[h][i - 1].status = "rejected" /\ transitions[h][i].status = "active"
            => CitesNewEvidence(transitions[h], i)

(* Retracting evidence never leaves a transition citing something the      *)
(* ledger no longer knows.  Only the citation of a birth may keep blanks,  *)
(* so that its id names the evidence after stripping them alone.           *)
CitationsStayRegistered ==
    \A h \in Hypotheses : \A i \in DOMAIN transitions[h] :
        /\ transitions[h][i].evidence.id # NoEvidence
              => evidence[transitions[h][i].evidence.id] # "unknown"
        /\ transitions[h][i].evidence.padded => i = 1

(* Once a conclusion is invalid, only recording it again makes it valid:   *)
(* no sequence of rejections, reopenings and confirmations of its premises *)
(* brings it back; and any transition of a premise makes it invalid.       *)
InvalidStaysInvalid ==
    [][\A c \in Conclusions :
          Recorded(c) /\ premises'[c] = premises[c]
              /\ (~Valid(c) \/ \E h \in PremisesOf(c) : transitions'[h] # transitions[h])
              => ~Valid(c)']_ledgerVars

(* ledger.py: "A rejected hypothesis never returns to active through an    *)
(* ordinary update."  Between a rejection and an activity stands a         *)
(* transition to active that cites new evidence.                           *)
RejectedNeedsReopen ==
    \A h \in Hypotheses : \A i, j \in DOMAIN transitions[h] :
        i < j /\ transitions[h][i].status = "rejected" /\ transitions[h][j].status = "active"
            => \E k \in i + 1 .. j :
                  transitions[h][k].status = "active" /\ CitesNewEvidence(transitions[h], k)

(* ledger.py: "It needs an explicit reopen that cites evidence no earlier  *)
(* transition of that hypothesis already cited."                           *)
ReopenNeverRepeatsEvidence ==
    \A h \in Hypotheses : \A i \in 2 .. Len(transitions[h]) :
        transitions[h][i - 1].status = "rejected" /\ transitions[h][i].status = "active"
            => \A k \in 1 .. (i - 1) :
                  transitions[h][k].evidence.id # transitions[h][i].evidence.id
=============================================================================
