--------------------------- MODULE AgentLoopProofs ---------------------------
(***************************************************************************)
(* Proofs about SteeringMailbox and AgentLoop, for every set of messages   *)
(* and every bound.                                                        *)
(*                                                                         *)
(* The mailbox is proved on its own: MailboxInv is inductive.  Every step  *)
(* of the loop is a step of the mailbox or leaves it alone, so the loop    *)
(* inherits what the mailbox promises (LoopImplementsMailbox).  The loop   *)
(* adds what holds at each of its places: PlaceInv.                        *)
(***************************************************************************)
EXTENDS AgentLoop, FiniteSetTheorems, TLAPS

MailboxInv == MailboxTypeOK /\ ReceiptsAreTrue

(* A message that is offered changes its own fate, from unsent.            *)
LEMMA ReceiveChangesOne ==
    ASSUME MailboxTypeOK, NEW m \in Messages, NEW f \in Fates, Receive(m, f)
    PROVE  /\ MailboxTypeOK'
           /\ fate[m] = "unsent" /\ fate'[m] = f
           /\ \A n \in Messages \ {m} : fate'[n] = fate[n]
           /\ isOpen' = isOpen
BY DEF Receive, MailboxTypeOK

(* A hand-over or a close settles what waits and touches no other fate.    *)
LEMMA SettleEmpties ==
    ASSUME MailboxTypeOK, NEW s \in Settled, Settle(s)
    PROVE  /\ fate' \in [Messages -> Fates]
           /\ Pending' = {}
           /\ \A n \in Messages : fate[n] # "queued" => fate'[n] = fate[n]
           /\ \A n \in Pending : fate'[n] = s
BY DEF Settle, Settled, Fates, MailboxTypeOK, Pending

LEMMA PendingIsFinite == IsFiniteSet(Pending)
BY MessagesAssumption, FS_Subset DEF Pending

(* A message that is not accepted leaves the queue as it was.              *)
LEMMA NotQueuedKeepsReceipts ==
    ASSUME MailboxInv, NEW m \in Messages, NEW f \in Fates \ {"queued"}, Receive(m, f),
           f = "coalesced" => Pending \cap Twins(m) # {}
    PROVE  MailboxInv'
<1>1. /\ MailboxTypeOK'
      /\ fate[m] = "unsent" /\ fate'[m] = f
      /\ \A n \in Messages \ {m} : fate'[n] = fate[n]
      /\ isOpen' = isOpen
  BY ReceiveChangesOne DEF MailboxInv
<1>2. Pending' = Pending
  BY <1>1 DEF Pending
<1>3. ASSUME NEW c \in Messages, fate'[c] = "coalesced"
      PROVE  \E n \in Twins(c) : fate'[n] \in {"queued"} \cup Settled
  <2>1. CASE c = m
    <3>1. PICK n \in Pending : n \in Twins(m)
      BY <2>1, <1>1, <1>3
    <3>2. n \in Messages /\ n # m /\ fate'[n] = "queued"
      BY <3>1, <1>1 DEF Pending
    <3> QED BY <2>1, <3>1, <3>2
  <2>2. CASE c # m
    <3>1. fate[c] = "coalesced"
      BY <2>2, <1>1, <1>3
    <3>2. PICK n \in Twins(c) : fate[n] \in {"queued"} \cup Settled
      BY <3>1 DEF MailboxInv, ReceiptsAreTrue
    <3>3. n \in Messages /\ n # m
      BY <3>2, <1>1 DEF Twins, Settled
    <3> QED BY <3>2, <3>3, <1>1
  <2> QED BY <2>1, <2>2
<1> QED BY <1>1, <1>2, <1>3 DEF MailboxInv, ReceiptsAreTrue, Twins

(* An accepted message takes a free place and has no twin waiting.         *)
LEMMA AcceptKeepsReceipts ==
    ASSUME MailboxInv, NEW m \in Messages, Accept(m)
    PROVE  MailboxInv'
<1>1. /\ MailboxTypeOK'
      /\ fate[m] = "unsent" /\ fate'[m] = "queued"
      /\ \A n \in Messages \ {m} : fate'[n] = fate[n]
      /\ isOpen' = isOpen
  BY ReceiveChangesOne DEF MailboxInv, Accept, Fates
<1>2. Pending' = Pending \cup {m} /\ m \notin Pending
  BY <1>1 DEF Pending
<1>3. Cardinality(Pending') <= MaxDepth
  <2>1. Cardinality(Pending') = Cardinality(Pending) + 1
    BY <1>2, PendingIsFinite, FS_AddElement
  <2>2. Cardinality(Pending) \in Nat /\ Cardinality(Pending) < MaxDepth
    BY PendingIsFinite, FS_CardinalityType DEF Accept
  <2> QED BY <2>1, <2>2, MaxDepthAssumption
<1>4. \A n \in Pending : Says[n] # Says[m]
  BY DEF Accept, Twins, Pending
<1>5. \A p, q \in Pending' : Says[p] = Says[q] => p = q
  BY <1>2, <1>4 DEF MailboxInv, ReceiptsAreTrue
<1>6. ASSUME NEW c \in Messages, fate'[c] = "coalesced"
      PROVE  \E n \in Twins(c) : fate'[n] \in {"queued"} \cup Settled
  <2>1. fate[c] = "coalesced"
    BY <1>1, <1>6
  <2>2. PICK n \in Twins(c) : fate[n] \in {"queued"} \cup Settled
    BY <2>1 DEF MailboxInv, ReceiptsAreTrue
  <2>3. n \in Messages /\ n # m
    BY <2>2, <1>1 DEF Twins, Settled
  <2> QED BY <2>2, <2>3, <1>1
<1>7. isOpen'
  BY <1>1 DEF Accept
<1> QED BY <1>1, <1>3, <1>5, <1>6, <1>7 DEF MailboxInv, ReceiptsAreTrue, Twins

(* A hand-over and a close empty the queue and settle who was in it.       *)
LEMMA SettleKeepsReceipts ==
    ASSUME MailboxInv, NEW s \in Settled, Settle(s), isOpen' \in BOOLEAN, closedReason' \in Reasons
    PROVE  MailboxInv'
<1>1. /\ fate' \in [Messages -> Fates]
      /\ Pending' = {}
      /\ \A n \in Messages : fate[n] # "queued" => fate'[n] = fate[n]
      /\ \A n \in Pending : fate'[n] = s
  BY SettleEmpties DEF MailboxInv
<1>2. Cardinality(Pending') <= MaxDepth
  BY <1>1, FS_EmptySet, MaxDepthAssumption
<1>3. ASSUME NEW c \in Messages, fate'[c] = "coalesced"
      PROVE  \E n \in Twins(c) : fate'[n] \in {"queued"} \cup Settled
  <2>1. fate[c] = "coalesced"
    BY <1>1, <1>3 DEF Pending, Settled
  <2>2. PICK n \in Twins(c) : fate[n] \in {"queued"} \cup Settled
    BY <2>1 DEF MailboxInv, ReceiptsAreTrue
  <2>3. n \in Messages
    BY <2>2 DEF Twins
  <2>4. fate'[n] \in Settled
    BY <2>2, <2>3, <1>1 DEF Pending
  <2> QED BY <2>2, <2>4
<1> QED BY <1>1, <1>2, <1>3 DEF MailboxInv, MailboxTypeOK, ReceiptsAreTrue, Twins

LEMMA MailboxInitInv == MailboxInit => MailboxInv
<1> SUFFICES ASSUME MailboxInit PROVE MailboxInv
  OBVIOUS
<1>1. MailboxTypeOK /\ Pending = {}
  BY DEF MailboxInit, MailboxTypeOK, Reasons, Fates, Pending
<1>2. Cardinality(Pending) <= MaxDepth
  BY <1>1, FS_EmptySet, MaxDepthAssumption
<1> QED BY <1>1, <1>2 DEF MailboxInv, ReceiptsAreTrue, MailboxInit

LEMMA MailboxStepInv == MailboxInv /\ [MailboxNext]_mailboxVars => MailboxInv'
<1> SUFFICES ASSUME MailboxInv, [MailboxNext]_mailboxVars PROVE MailboxInv'
  OBVIOUS
<1>1. ASSUME NEW m \in Messages, Refuse(m) PROVE MailboxInv'
  <2>1. closedReason \in Fates \ {"queued", "coalesced"}
    BY DEF MailboxInv, MailboxTypeOK, Reasons, Fates
  <2> QED BY <1>1, <2>1, NotQueuedKeepsReceipts DEF Refuse
<1>2. ASSUME NEW m \in Messages, Coalesce(m) PROVE MailboxInv'
  <2>1. "coalesced" \in Fates \ {"queued"}
    BY DEF Fates
  <2> QED BY <1>2, <2>1, NotQueuedKeepsReceipts DEF Coalesce
<1>3. ASSUME NEW m \in Messages, Overflow(m) PROVE MailboxInv'
  <2>1. "queue_full" \in Fates \ {"queued", "coalesced"}
    BY DEF Fates
  <2> QED BY <1>3, <2>1, NotQueuedKeepsReceipts DEF Overflow
<1>4. ASSUME NEW m \in Messages, Accept(m) PROVE MailboxInv'
  BY <1>4, AcceptKeepsReceipts
<1>5. CASE Open
  <2>1. fate' = fate /\ isOpen' = TRUE /\ closedReason' = closedReason
    BY <1>5 DEF Open
  <2>2. Pending' = Pending
    BY <2>1 DEF Pending
  <2> QED BY <2>1, <2>2 DEF MailboxInv, MailboxTypeOK, ReceiptsAreTrue, Twins
<1>6. CASE Drain
  BY <1>6, SettleKeepsReceipts DEF Drain, Settled, MailboxInv, MailboxTypeOK
<1>7. CASE Close
  BY <1>7, SettleKeepsReceipts DEF Close, Settled, Reasons
<1>8. CASE UNCHANGED mailboxVars
  <2>1. fate' = fate /\ isOpen' = isOpen /\ closedReason' = closedReason
    BY <1>8 DEF mailboxVars
  <2>2. Pending' = Pending
    BY <2>1 DEF Pending
  <2> QED BY <2>1, <2>2 DEF MailboxInv, MailboxTypeOK, ReceiptsAreTrue, Twins
<1> QED BY <1>1, <1>2, <1>3, <1>4, <1>5, <1>6, <1>7, <1>8 DEF MailboxNext, Offer

(* For every mailbox on its own: the receipts it gives stay true.          *)
THEOREM MailboxKeepsReceipts == MailboxSpec => []ReceiptsAreTrue
<1>1. MailboxInv => ReceiptsAreTrue
  BY DEF MailboxInv
<1> QED BY <1>1, MailboxInitInv, MailboxStepInv, PTL DEF MailboxSpec
-----------------------------------------------------------------------------
(* The loop as a user of the mailbox.                                      *)

LEMMA LoopStepIsMailboxStep == [LoopNext]_loopVars => [MailboxNext]_mailboxVars
<1> SUFFICES ASSUME [LoopNext]_loopVars PROVE [MailboxNext]_mailboxVars
  OBVIOUS
<1> USE DEF MailboxNext
<1>1. CASE Begin \/ Greet \/ DirectAnswers
  BY <1>1 DEF Begin, Greet, DirectAnswers, OpenLoop
<1>2. CASE DirectReplies \/ DirectReports \/ Announces
  BY <1>2 DEF DirectReplies, DirectReports, Announces, Release
<1>3. CASE Head
  BY <1>3 DEF Head, TakeIn
<1>4. CASE Prepare \/ ModelAnswers \/ Card \/ TextCard
  BY <1>4 DEF Prepare, ModelAnswers, Card, TextCard, StageFails
<1>5. CASE ToolCard \/ Tools
  BY <1>5 DEF ToolCard, Tools, StageFails, Collect
<1>6. CASE Report \/ ReportSend \/ Rolling
  BY <1>6 DEF Report, ReportSend, Rolling, StageFails
<1>7. CASE CloseSteering \/ ChooseReport \/ Synthesis
  BY <1>7 DEF CloseSteering, ChooseReport, Synthesis
<1>8. CASE Deliver \/ LoopFails \/ ReleaseFailed \/ TaskCancelled
  BY <1>8 DEF Deliver, LoopFails, ReleaseFailed, TaskCancelled, Release
<1>9. CASE Stop \/ (\E m \in Messages : Instruct(m))
  BY <1>9 DEF Stop, Instruct
<1>10. CASE UNCHANGED loopVars
  BY <1>10 DEF loopVars
<1> QED BY <1>1, <1>2, <1>3, <1>4, <1>5, <1>6, <1>7, <1>8, <1>9, <1>10 DEF LoopNext, Handler

(* The loop uses its mailbox as the mailbox is specified.                  *)
THEOREM LoopImplementsMailbox == LoopSpec => MailboxSpec
<1>1. LoopInit => MailboxInit
  BY DEF LoopInit
<1> QED BY <1>1, LoopStepIsMailboxStep, PTL DEF LoopSpec, MailboxSpec

(* What the senders of instructions are told stays true through every run. *)
THEOREM LoopKeepsReceipts == LoopSpec => []ReceiptsAreTrue
BY LoopImplementsMailbox, MailboxKeepsReceipts

-----------------------------------------------------------------------------
(* What holds at each place of the loop.                                   *)

Before == {"begin", "direct", "directReply", "greeting", "announce", "head"}
Ending == {"settled", "failing"} \cup Closing

(* A thought counts to the bound only where the loop is about to end.      *)
ThoughtsInBound == at \in Before \cup (InLoop \ {"textCard"}) => thoughts < MaxThoughts

(* The loop is entered without an outcome and left with one.               *)
OutcomeAtPlace ==
    /\ at \in Before \cup InLoop => outcome = None
    /\ at \in Ending => outcome # None
    /\ at = "directReport" => outcome \in {"stopped", "failed"}

(* Nothing is delivered or recorded before the end, but for the event of   *)
(* a failure.                                                              *)
RecordsAtPlace ==
    /\ at \notin Over => ~delivered
    /\ at \notin Over \cup {"failing"} => logged = None
    /\ at = "failing" => logged = "failed"

(* What the model was shown, or would have been, was handed over.          *)
HandedOver == \A m \in fresh \cup lost : fate[m] = "applied"
ClosedWhenReleased == at \in {"released", "aborted"} => ~isOpen

StopComesLater == at = "begin" => ~cancelled

PlaceInv ==
    /\ LoopTypeOK
    /\ ThoughtsInBound
    /\ OutcomeAtPlace
    /\ RecordsAtPlace
    /\ EndRecordsAgree
    /\ StopComesLater

SteeringInv == HandedOver /\ ClosedWhenReleased
LoopInv == MailboxInv /\ PlaceInv

LEMMA PendingIsSent == Pending \subseteq Messages
BY DEF Pending

LEMMA FlushKeepsType ==
    ASSUME LoopTypeOK, NEW g \in Nat, NEW f \in SUBSET Messages, Flush(g, f)
    PROVE  groups' \in Nat /\ fresh' \subseteq Messages /\ lost' \subseteq Messages
BY DEF LoopTypeOK, Flush

LEMMA CollectFacts ==
    ASSUME LoopTypeOK, step <= MaxLoops, outcome = None, Collect
    PROVE  /\ think' \in BOOLEAN
           /\ groups' \in Nat /\ fresh' \subseteq Messages /\ lost' \subseteq Messages
           /\ \/ at' \in {"report", "rolling"} /\ UNCHANGED control
              \/ /\ at' = "settled"
                 /\ outcome' \in {"failed", "exhausted"}
                 /\ UNCHANGED <<cancelled, directFailed>>
<1>1. /\ think' \in BOOLEAN
      /\ \/ at' \in {"report", "rolling"} /\ UNCHANGED control
         \/ /\ at' = "settled"
            /\ outcome' \in {"failed", "exhausted"}
            /\ UNCHANGED <<cancelled, directFailed>>
  BY DEF Collect, EndLoop
<1>2. groups + 1 \in Nat /\ fresh \cup Pending \in SUBSET Messages
  BY PendingIsSent DEF LoopTypeOK
<1>3. \/ groups' = groups + 1 /\ fresh' = fresh \cup Pending /\ UNCHANGED lost
      \/ Flush(groups + 1, fresh \cup Pending)
  BY DEF Collect
<1>4. groups' \in Nat /\ fresh' \subseteq Messages /\ lost' \subseteq Messages
  BY <1>2, <1>3, FlushKeepsType DEF LoopTypeOK
<1> QED BY <1>1, <1>4

LEMMA LoopInitInv == LoopInit => LoopInv
<1> SUFFICES ASSUME LoopInit PROVE LoopInv
  OBVIOUS
<1>1. MailboxInv
  BY MailboxInitInv DEF LoopInit
<1>2. LoopTypeOK
  <2>1. MailboxTypeOK /\ at \in Places /\ at \notin InLoop
    BY <1>1 DEF LoopInit, MailboxInv, Places, InLoop
  <2>2. step \in 1..(MaxLoops + 1)
    BY LoopBoundsAssumption DEF LoopInit
  <2>3. thoughts \in 0..MaxThoughts
    BY LoopBoundsAssumption DEF LoopInit
  <2> QED BY <2>1, <2>2, <2>3 DEF LoopInit, LoopTypeOK
<1>3. ThoughtsInBound /\ OutcomeAtPlace /\ RecordsAtPlace /\ EndRecordsAgree /\ StopComesLater
  BY LoopBoundsAssumption
     DEF LoopInit, ThoughtsInBound, OutcomeAtPlace, RecordsAtPlace, EndRecordsAgree,
         StopComesLater, Ending, Closing, Over
<1> QED BY <1>1, <1>2, <1>3 DEF LoopInv, PlaceInv

LEMMA LoopStepInv == LoopInv /\ [LoopNext]_loopVars => LoopInv'
<1> SUFFICES ASSUME LoopInv, [LoopNext]_loopVars PROVE LoopInv'
  OBVIOUS
<1>1. MailboxInv'
  BY LoopStepIsMailboxStep, MailboxStepInv DEF LoopInv
<1>2. MailboxTypeOK' /\ LoopTypeOK
  BY <1>1 DEF MailboxInv, LoopInv, PlaceInv
<1> SUFFICES PlaceInv'
  BY <1>1 DEF LoopInv
<1> USE <1>2, NoneAssumption, LoopBoundsAssumption
    DEF LoopInv, PlaceInv, LoopTypeOK, ThoughtsInBound, OutcomeAtPlace, RecordsAtPlace,
        EndRecordsAgree, StopComesLater, Before, Ending, InLoop, Closing, Over, Greeted,
        Awaits, Places, Outcomes, CompletedDetails, Statuses, Reason
<1>3. CASE Begin
  BY <1>3 DEF Begin, OpenLoop, control, ending
<1>4. CASE Greet
  BY <1>4 DEF Greet, OpenLoop, control, ending, context
<1>5. CASE DirectAnswers
  BY <1>5 DEF DirectAnswers, OpenLoop, ending, context
<1>6. CASE DirectReplies
  BY <1>6 DEF DirectReplies, Release, Event, context
<1>7. CASE DirectReports
  BY <1>7 DEF DirectReports, Release, Event, context, control
<1>8. CASE Announces
  BY <1>8 DEF Announces, Release, Event, context, control, ending
<1>9. CASE Head
  BY <1>9, PendingIsSent DEF Head, PastEnd, EndLoop, TakeIn, control, ending
<1>10. CASE Prepare
  BY <1>10 DEF Prepare, StageFails, EndLoop, Compact, Rebase, context, control, ending
<1>11. CASE ModelAnswers
  BY <1>11 DEF ModelAnswers, StageFails, EndLoop, Flush, context, control, ending
<1>12. CASE Card
  <2>1. /\ at = "card" /\ outcome = None /\ thoughts < MaxThoughts
        /\ UNCHANGED <<step, context, ending>>
    BY <1>12 DEF Card
  <2>2. CASE /\ at' = "settled" /\ outcome' \in Outcomes
             /\ UNCHANGED <<cancelled, directFailed, think, thoughts>>
    BY <2>1, <2>2 DEF context, ending
  <2>3. CASE at' = "toolCard" /\ think' = FALSE /\ thoughts' = 0 /\ UNCHANGED control
    <3>1. thoughts' \in 0..MaxThoughts /\ thoughts' < MaxThoughts
      BY <2>3
    <3>2. LoopTypeOK'
      BY <2>1, <2>3, <3>1 DEF context, control, ending
    <3> QED BY <2>1, <2>3, <3>1, <3>2 DEF context, control, ending
  <2>4. CASE /\ step < MaxLoops /\ at' = "textCard" /\ think' = FALSE
             /\ thoughts' \in {0, thoughts + 1} /\ UNCHANGED control
    <3>1. thoughts' \in 0..MaxThoughts
      BY <2>1, <2>4
    <3>2. LoopTypeOK'
      BY <2>1, <2>4, <3>1 DEF context, control, ending
    <3> QED BY <2>1, <2>4, <3>2 DEF context, control, ending
  <2> QED BY <1>12, <2>1, <2>2, <2>3, <2>4 DEF Card, Decide, EndLoop
<1>13. CASE TextCard
  BY <1>13 DEF TextCard, EndLoop, context, control, ending
<1>14. CASE ToolCard
  BY <1>14, CollectFacts DEF ToolCard, StageFails, EndLoop, context, control, ending
<1>15. CASE Tools
  BY <1>15, CollectFacts DEF Tools, StageFails, EndLoop, context, control, ending
<1>16. CASE Report
  BY <1>16 DEF Report, StageFails, EndLoop, context, control, ending
<1>17. CASE ReportSend
  BY <1>17 DEF ReportSend, NextStep, Flush, EndLoop, context, control, ending
<1>18. CASE Rolling
  BY <1>18 DEF Rolling, NextStep, StageFails, EndLoop, context, control, ending
<1>19. CASE CloseSteering
  BY <1>19 DEF CloseSteering, context, control, ending
<1>20. CASE ChooseReport
  BY <1>20 DEF ChooseReport, context, control, ending
<1>21. CASE Synthesis
  BY <1>21 DEF Synthesis, context, control, ending
<1>22. CASE Deliver
  BY <1>22 DEF Deliver, Release, Event, context, control
<1>23. CASE LoopFails
  BY <1>23 DEF LoopFails, EventOfFailure, context
<1>24. CASE ReleaseFailed
  BY <1>24 DEF ReleaseFailed, Release, Event, context, control
<1>25. CASE TaskCancelled
  BY <1>25 DEF TaskCancelled, Release, Event, StatusOr, context, control
<1>26. CASE Stop
  BY <1>26 DEF Stop, context, ending
<1>27. CASE \E m \in Messages : Instruct(m)
  BY <1>27 DEF Instruct, context, control, ending
<1>28. CASE UNCHANGED loopVars
  BY <1>28 DEF loopVars, context, control, ending
<1> QED
  BY <1>3, <1>4, <1>5, <1>6, <1>7, <1>8, <1>9, <1>10, <1>11, <1>12, <1>13, <1>14, <1>15,
     <1>16, <1>17, <1>18, <1>19, <1>20, <1>21, <1>22, <1>23, <1>24, <1>25, <1>26, <1>27, <1>28
     DEF LoopNext, Handler

LEMMA LoopInvHolds == LoopSpec => []LoopInv
BY LoopInitInv, LoopStepInv, PTL DEF LoopSpec

(* Every part of the execution keeps its type; no step starts past the     *)
(* bound on steps, and no thought is counted past the bound on thoughts.   *)
THEOREM LoopTypeCorrect == LoopSpec => []LoopTypeOK
<1>1. LoopInv => LoopTypeOK
  BY DEF LoopInv, PlaceInv
<1> QED BY <1>1, LoopInvHolds, PTL

(* However a run ends, its event and the status of its records agree, and  *)
(* no event calls completed what nobody received.                          *)
THEOREM EndsAreRecordedAlike == LoopSpec => []EndRecordsAgree
<1>1. LoopInv => EndRecordsAgree
  BY DEF LoopInv, PlaceInv
<1> QED BY <1>1, LoopInvHolds, PTL
-----------------------------------------------------------------------------
(* Instructions.                                                           *)

(* An instruction that was handed over stays so.                           *)
LEMMA AppliedStays ==
    ASSUME MailboxInv, [MailboxNext]_mailboxVars, NEW m \in Messages, fate[m] = "applied"
    PROVE  fate'[m] = "applied"
<1>1. CASE \E n \in Messages : Offer(n)
  <2>1. PICK n \in Messages : Offer(n)
    BY <1>1
  <2>2. PICK f : Receive(n, f)
    BY <2>1 DEF Offer, Refuse, Coalesce, Overflow, Accept
  <2>3. n # m
    BY <2>2 DEF Receive
  <2> QED BY <2>2, <2>3 DEF Receive, MailboxInv, MailboxTypeOK
<1>2. CASE Drain \/ Close
  BY <1>2 DEF Drain, Close, Settle
<1>3. CASE Open \/ UNCHANGED mailboxVars
  BY <1>3 DEF Open, mailboxVars
<1> QED BY <1>1, <1>2, <1>3 DEF MailboxNext

(* Only a hand-over brings new instructions into the context.              *)
LEMMA ContextGrows ==
    ASSUME [LoopNext]_loopVars
    PROVE  \/ fresh' \cup lost' \subseteq fresh \cup lost
           \/ Drain /\ fresh' \cup lost' \subseteq fresh \cup lost \cup Pending
<1> USE DEF context
<1>1. CASE Begin \/ Greet \/ DirectAnswers \/ DirectReplies \/ DirectReports \/ Announces
  BY <1>1 DEF Begin, Greet, DirectAnswers, DirectReplies, DirectReports, Announces
<1>2. CASE Head
  BY <1>2 DEF Head, TakeIn
<1>3. CASE Prepare
  BY <1>3 DEF Prepare, StageFails, Compact, Rebase
<1>4. CASE ModelAnswers
  BY <1>4 DEF ModelAnswers, StageFails, Flush
<1>5. CASE Card \/ TextCard \/ Report
  BY <1>5 DEF Card, TextCard, Report, StageFails
<1>6. CASE ToolCard \/ Tools
  BY <1>6 DEF ToolCard, Tools, StageFails, Collect, Flush
<1>7. CASE ReportSend \/ Rolling
  BY <1>7 DEF ReportSend, Rolling, StageFails, Flush
<1>8. CASE CloseSteering \/ ChooseReport \/ Synthesis \/ Deliver \/ LoopFails \/ ReleaseFailed
  BY <1>8 DEF CloseSteering, ChooseReport, Synthesis, Deliver, LoopFails, ReleaseFailed
<1>9. CASE TaskCancelled \/ Stop \/ (\E m \in Messages : Instruct(m))
  BY <1>9 DEF TaskCancelled, Stop, Instruct
<1>10. CASE UNCHANGED loopVars
  BY <1>10 DEF loopVars
<1> QED
  BY <1>1, <1>2, <1>3, <1>4, <1>5, <1>6, <1>7, <1>8, <1>9, <1>10 DEF LoopNext, Handler

(* Whoever releases a run closes its mailbox, and nothing follows.         *)
LEMMA ReleaseCloses ==
    ASSUME [LoopNext]_loopVars, ClosedWhenReleased
    PROVE  ClosedWhenReleased'
<1> USE DEF ClosedWhenReleased
<1>1. CASE Begin \/ Greet \/ DirectAnswers
  BY <1>1 DEF Begin, Greet, DirectAnswers, OpenLoop
<1>2. CASE DirectReplies \/ DirectReports \/ Announces
  BY <1>2 DEF DirectReplies, DirectReports, Announces, Release, Close
<1>3. CASE Head \/ Prepare \/ ModelAnswers
  BY <1>3 DEF Head, Prepare, ModelAnswers, StageFails, EndLoop
<1>4. CASE Card \/ TextCard \/ Report
  BY <1>4 DEF Card, Decide, TextCard, Report, StageFails, EndLoop
<1>5. CASE ToolCard \/ Tools
  BY <1>5 DEF ToolCard, Tools, StageFails, Collect, EndLoop
<1>6. CASE ReportSend \/ Rolling
  BY <1>6 DEF ReportSend, Rolling, StageFails, EndLoop
<1>7. CASE CloseSteering \/ ChooseReport \/ Synthesis \/ LoopFails
  BY <1>7 DEF CloseSteering, ChooseReport, Synthesis, LoopFails
<1>8. CASE Deliver \/ ReleaseFailed \/ TaskCancelled
  BY <1>8 DEF Deliver, ReleaseFailed, TaskCancelled, Release, Close
<1>9. CASE Stop
  BY <1>9 DEF Stop, mailboxVars
<1>10. CASE \E m \in Messages : Instruct(m)
  <2>1. isOpen' = isOpen /\ at' = at
    BY <1>10 DEF Instruct, Offer, Refuse, Coalesce, Overflow, Accept, Receive
  <2> QED BY <2>1
<1>11. CASE UNCHANGED loopVars
  BY <1>11 DEF loopVars, mailboxVars
<1> QED
  BY <1>1, <1>2, <1>3, <1>4, <1>5, <1>6, <1>7, <1>8, <1>9, <1>10, <1>11 DEF LoopNext, Handler

LEMMA SteeringInitInv == LoopInit => SteeringInv
BY DEF LoopInit, SteeringInv, HandedOver, ClosedWhenReleased

LEMMA SteeringStepInv == LoopInv /\ SteeringInv /\ [LoopNext]_loopVars => SteeringInv'
<1> SUFFICES ASSUME LoopInv, SteeringInv, [LoopNext]_loopVars PROVE SteeringInv'
  OBVIOUS
<1>1. ClosedWhenReleased'
  BY ReleaseCloses DEF SteeringInv
<1>2. ASSUME NEW m \in fresh' \cup lost' PROVE fate'[m] = "applied"
  <2>1. fresh \cup lost \subseteq Messages
    BY DEF LoopInv, PlaceInv, LoopTypeOK
  <2>2. CASE m \in fresh \cup lost
    <3>1. m \in Messages /\ fate[m] = "applied"
      BY <2>1, <2>2 DEF SteeringInv, HandedOver
    <3> QED BY <3>1, AppliedStays, LoopStepIsMailboxStep DEF LoopInv
  <2>3. CASE m \notin fresh \cup lost
    <3>1. Drain /\ m \in Pending
      BY <1>2, <2>3, ContextGrows
    <3>2. Settle("applied") /\ MailboxTypeOK
      BY <3>1 DEF Drain, LoopInv, MailboxInv
    <3> QED BY <3>1, <3>2 DEF Settle, Pending
  <2> QED BY <2>2, <2>3
<1> QED BY <1>1, <1>2 DEF SteeringInv, HandedOver

(* A released run owes no instruction an answer, and one it announced as   *)
(* cancelled never reached its model.                                      *)
THEOREM ReleaseSettlesAll == LoopSpec => []SettledAtRelease
<1>1. LoopSpec => []SteeringInv
  BY LoopInvHolds, SteeringInitInv, SteeringStepInv, PTL DEF LoopSpec
<1>2. LoopInv /\ SteeringInv => SettledAtRelease
  BY DEF LoopInv, MailboxInv, ReceiptsAreTrue, SteeringInv, HandedOver, ClosedWhenReleased,
         SettledAtRelease
<1> QED BY <1>1, <1>2, LoopInvHolds, PTL

-----------------------------------------------------------------------------
(* !stop.                                                                  *)

(* What a step of a cancelled run may do.                                  *)
LEMMA CancelledStep ==
    ASSUME LoopInv, [LoopNext]_loopVars, cancelled, at # "directReply"
    PROVE  /\ at' \in Stages => at' = at
           /\ outcome = None => outcome' \notin CompletedDetails
<1> USE NoneAssumption
    DEF Stages, LoopInv, PlaceInv, OutcomeAtPlace, StopComesLater, Ending, Closing,
        CompletedDetails, Outcomes, Before, InLoop
<1>1. CASE Begin \/ Greet
  BY <1>1 DEF Begin, Greet, OpenLoop, control
<1>2. CASE DirectAnswers \/ DirectReplies \/ DirectReports \/ Announces
  BY <1>2 DEF DirectAnswers, DirectReplies, DirectReports, Announces, Release, control
<1>3. CASE Head \/ Prepare \/ ModelAnswers
  BY <1>3 DEF Head, Prepare, ModelAnswers, StageFails, EndLoop
<1>4. CASE Card \/ TextCard \/ Report
  BY <1>4 DEF Card, MayDecide, TextCard, Report, StageFails, EndLoop
<1>5. CASE ToolCard \/ Tools
  BY <1>5 DEF ToolCard, Tools, StageFails, EndLoop
<1>6. CASE ReportSend \/ Rolling
  BY <1>6 DEF ReportSend, Rolling, StageFails, EndLoop
<1>7. CASE CloseSteering \/ ChooseReport \/ Synthesis \/ Deliver
  BY <1>7 DEF CloseSteering, ChooseReport, Synthesis, Deliver, Release, control
<1>8. CASE LoopFails \/ ReleaseFailed \/ TaskCancelled
  BY <1>8 DEF LoopFails, ReleaseFailed, TaskCancelled, Release, control
<1>9. CASE Stop \/ (\E m \in Messages : Instruct(m)) \/ UNCHANGED loopVars
  BY <1>9 DEF Stop, Instruct, loopVars, control
<1> QED
  BY <1>1, <1>2, <1>3, <1>4, <1>5, <1>6, <1>7, <1>8, <1>9 DEF LoopNext, Handler

(* Once !stop was accepted, no further stage starts and the loop does not  *)
(* end as completed, whatever arrives with it.                             *)
THEOREM StopWinsEveryRace == LoopSpec => StopWins
<1>1. LoopInv /\ [LoopNext]_loopVars
         => [cancelled /\ at # "directReply"
                => /\ at' \in Stages => at' = at
                   /\ outcome = None => outcome' \notin CompletedDetails]_loopVars
  BY CancelledStep
<1> QED BY <1>1, LoopInvHolds, PTL DEF LoopSpec, StopWins

-----------------------------------------------------------------------------
(* The end.                                                                *)

Closer == UNCHANGED <<at, step>> \/ (Distance' \in Nat /\ Distance' < Distance)

LEMMA DistanceFacts ==
    ASSUME NEW s \in 1..(MaxLoops + 1)
    PROVE  /\ \A p \in InLoop \cup {"head"} :
                 /\ DistanceFrom(p, s) = 6 + 11 * (MaxLoops + 1 - s) + PlacesLeft(p)
                 /\ PlacesLeft(p) \in 1..10
           /\ \A p \in Over : DistanceFrom(p, s) = 0
           /\ \A p \in {"failing", "directReply", "directReport"} : DistanceFrom(p, s) = 1
           /\ DistanceFrom("deliver", s) = 2
           /\ DistanceFrom("synthesis", s) = 3
           /\ DistanceFrom("closing", s) = 4
           /\ DistanceFrom("settled", s) = 5
           /\ DistanceFrom("announce", s) = 11 * MaxLoops + 17
           /\ \A p \in {"direct", "greeting"} : DistanceFrom(p, s) = 11 * MaxLoops + 18
           /\ DistanceFrom("begin", s) = 11 * MaxLoops + 19
<1> USE LoopBoundsAssumption DEF Over, InLoop
<1>1. ASSUME NEW p \in InLoop \cup {"head"}
      PROVE  /\ DistanceFrom(p, s) = 6 + 11 * (MaxLoops + 1 - s) + PlacesLeft(p)
             /\ PlacesLeft(p) \in 1..10
  <2>1. PlacesLeft(p) \in 1..10
    BY <1>1 DEF PlacesLeft
  <2>2. DistanceFrom(p, s) = 6 + 11 * (MaxLoops + 1 - s) + PlacesLeft(p)
    BY <1>1 DEF DistanceFrom
  <2> QED BY <2>1, <2>2
<1>2. ASSUME NEW p \in Over PROVE DistanceFrom(p, s) = 0
  BY <1>2 DEF DistanceFrom
<1>3. ASSUME NEW p \in {"failing", "directReply", "directReport"} PROVE DistanceFrom(p, s) = 1
  BY <1>3 DEF DistanceFrom
<1>4. /\ DistanceFrom("deliver", s) = 2
      /\ DistanceFrom("synthesis", s) = 3
      /\ DistanceFrom("closing", s) = 4
      /\ DistanceFrom("settled", s) = 5
  BY DEF DistanceFrom
<1>5. /\ DistanceFrom("announce", s) = 11 * MaxLoops + 17
      /\ DistanceFrom("begin", s) = 11 * MaxLoops + 19
  BY DEF DistanceFrom
<1>6. ASSUME NEW p \in {"direct", "greeting"} PROVE DistanceFrom(p, s) = 11 * MaxLoops + 18
  BY <1>6 DEF DistanceFrom
<1> QED BY <1>1, <1>2, <1>3, <1>4, <1>5, <1>6

(* Inside a step the places come in one order; the next step is further.   *)
LEMMA LoopDistances ==
    ASSUME NEW s \in 1..(MaxLoops + 1), NEW p \in InLoop \cup {"head"},
           NEW t \in 1..(MaxLoops + 1), NEW q \in InLoop \cup {"head"}
    PROVE  /\ DistanceFrom(p, s) \in 7..(11 * MaxLoops + 16)
           /\ PlacesLeft(q) < PlacesLeft(p) => DistanceFrom(q, s) < DistanceFrom(p, s)
           /\ t > s => DistanceFrom(q, t) < DistanceFrom(p, s)
<1>1. /\ DistanceFrom(p, s) = 6 + 11 * (MaxLoops + 1 - s) + PlacesLeft(p)
      /\ DistanceFrom(q, s) = 6 + 11 * (MaxLoops + 1 - s) + PlacesLeft(q)
      /\ DistanceFrom(q, t) = 6 + 11 * (MaxLoops + 1 - t) + PlacesLeft(q)
      /\ PlacesLeft(p) \in 1..10 /\ PlacesLeft(q) \in 1..10
  BY DistanceFacts
<1> QED BY <1>1, LoopBoundsAssumption

LEMMA PlaceOrder ==
    /\ PlacesLeft("head") = 10 /\ PlacesLeft("prepare") = 9 /\ PlacesLeft("model") = 8
    /\ PlacesLeft("retry") = 7 /\ PlacesLeft("card") = 6
    /\ PlacesLeft("textCard") = 5 /\ PlacesLeft("toolCard") = 5 /\ PlacesLeft("tools") = 4
    /\ PlacesLeft("report") = 3 /\ PlacesLeft("reportSend") = 2 /\ PlacesLeft("rolling") = 1
BY DEF PlacesLeft

(* How a step may move the handler.                                        *)
Leaves == at \in InLoop \cup {"head"} /\ at' \in {"settled", "failing"} \cup Over
GoesDown ==
    /\ at \in InLoop \cup {"head"} /\ at' \in InLoop \cup {"head"}
    /\ step' = step
    /\ PlacesLeft(at') < PlacesLeft(at)
GoesOn ==
    /\ at \in InLoop \cup {"head"} /\ at' \in InLoop \cup {"head"}
    /\ step' > step

LEMMA MovesAreCloser ==
    ASSUME LoopTypeOK, LoopTypeOK', Leaves \/ GoesDown \/ GoesOn
    PROVE  Closer
<1>1. step \in 1..(MaxLoops + 1) /\ step' \in 1..(MaxLoops + 1)
  BY DEF LoopTypeOK
<1>2. Distance = DistanceFrom(at, step) /\ Distance' = DistanceFrom(at', step')
  BY DEF Distance
<1>3. CASE Leaves
  <2>1. DistanceFrom(at', step') \in {0, 1, 5}
    BY <1>1, <1>3, DistanceFacts DEF Leaves
  <2>2. DistanceFrom(at, step) \in 7..(11 * MaxLoops + 16)
    BY <1>1, <1>3, LoopDistances DEF Leaves
  <2> QED BY <1>2, <2>1, <2>2, LoopBoundsAssumption DEF Closer
<1>4. CASE GoesDown \/ GoesOn
  <2>1. /\ DistanceFrom(at', step') < DistanceFrom(at, step)
        /\ DistanceFrom(at', step') \in 7..(11 * MaxLoops + 16)
    BY <1>1, <1>4, LoopDistances DEF GoesDown, GoesOn
  <2> QED BY <1>2, <2>1, LoopBoundsAssumption DEF Closer
<1> QED BY <1>3, <1>4

LEMMA LoopStepIsCloser ==
    ASSUME LoopInv, [LoopNext]_loopVars
    PROVE  Closer
<1> DEFINE D(p, s) == DistanceFrom(p, s)
<1>0. /\ LoopTypeOK /\ LoopTypeOK'
      /\ step \in 1..(MaxLoops + 1) /\ step' \in 1..(MaxLoops + 1)
      /\ Distance = D(at, step) /\ Distance' = D(at', step')
  BY LoopStepInv DEF LoopInv, PlaceInv, LoopTypeOK, Distance
<1>1. CASE Begin \/ Greet \/ DirectAnswers
  <2>1. \/ at = "begin" /\ at' \in {"direct", "greeting", "announce"}
        \/ at \in {"direct", "greeting"} /\ at' \in {"directReport", "directReply", "announce"}
    BY <1>1 DEF Begin, Greet, DirectAnswers, OpenLoop
  <2> QED BY <1>0, <2>1, DistanceFacts, LoopBoundsAssumption DEF Closer
<1>2. CASE DirectReplies \/ DirectReports
  <2>1. at \in {"directReply", "directReport"} /\ at' \in Over
    BY <1>2 DEF DirectReplies, DirectReports, Release, Over
  <2>2. D(at, step) = 1 /\ D(at', step') = 0
    BY <1>0, <2>1, DistanceFacts
  <2> QED BY <1>0, <2>2 DEF Closer
<1>3. CASE Announces
  <2>1. at = "announce" /\ at' \in {"head"} \cup Over
    BY <1>3 DEF Announces, Release, Over
  <2>2. D(at, step) = 11 * MaxLoops + 17
    BY <1>0, <2>1, DistanceFacts
  <2>3. D(at', step') \in 0..(11 * MaxLoops + 16)
    BY <1>0, <2>1, DistanceFacts, LoopDistances, LoopBoundsAssumption
  <2> QED BY <1>0, <2>2, <2>3, LoopBoundsAssumption DEF Closer
<1>4. CASE Head \/ Prepare \/ ModelAnswers
  <2>1. Leaves \/ GoesDown
    BY <1>4, PlaceOrder
       DEF Head, Prepare, ModelAnswers, StageFails, EndLoop, Leaves, GoesDown, InLoop
  <2> QED BY <1>0, <2>1, MovesAreCloser
<1>5. CASE Card \/ TextCard
  <2>1. Leaves \/ GoesDown
    BY <1>5, PlaceOrder DEF Card, Decide, TextCard, EndLoop, Leaves, GoesDown, InLoop
  <2> QED BY <1>0, <2>1, MovesAreCloser
<1>6. CASE ToolCard \/ Tools
  <2>1. Leaves \/ GoesDown
    BY <1>6, PlaceOrder
       DEF ToolCard, Tools, StageFails, Collect, EndLoop, Leaves, GoesDown, InLoop
  <2> QED BY <1>0, <2>1, MovesAreCloser
<1>7. CASE Report
  <2>1. Leaves \/ GoesDown
    BY <1>7, PlaceOrder DEF Report, StageFails, EndLoop, Leaves, GoesDown, InLoop
  <2> QED BY <1>0, <2>1, MovesAreCloser
<1>8. CASE ReportSend \/ Rolling
  <2>1. Leaves \/ GoesDown \/ GoesOn
    BY <1>0, <1>8, PlaceOrder
       DEF ReportSend, Rolling, NextStep, StageFails, EndLoop, Leaves, GoesDown, GoesOn, InLoop
  <2> QED BY <1>0, <2>1, MovesAreCloser
<1>9. CASE CloseSteering \/ ChooseReport \/ Synthesis \/ Deliver \/ ReleaseFailed
  <2>1. \/ at = "settled" /\ at' = "closing"
        \/ at = "closing" /\ at' \in {"synthesis", "deliver"}
        \/ at = "synthesis" /\ at' = "deliver"
        \/ at \in {"deliver", "failing"} /\ at' \in Over
    BY <1>9 DEF CloseSteering, ChooseReport, Synthesis, Deliver, ReleaseFailed, Release, Over
  <2> QED BY <1>0, <2>1, DistanceFacts DEF Closer
<1>10. CASE LoopFails
  <2>1. at \in InLoop \cup Closing /\ at' = "failing"
    BY <1>10 DEF LoopFails
  <2>2. CASE at \in InLoop
    BY <1>0, <2>1, <2>2, MovesAreCloser DEF Leaves
  <2>3. CASE at \in Closing
    BY <1>0, <2>1, <2>3, DistanceFacts DEF Closing, Closer
  <2> QED BY <2>1, <2>2, <2>3
<1>11. CASE TaskCancelled
  <2>1. at \in Awaits /\ at' \in Over
    BY <1>11 DEF TaskCancelled, Release, Awaits, Over
  <2>2. CASE at \in InLoop
    BY <1>0, <2>1, <2>2, MovesAreCloser DEF Leaves
  <2>3. CASE at \in Closing \cup Greeted \cup {"greeting", "failing"}
    <3>1. D(at, step) \in {1, 2, 3, 4, 11 * MaxLoops + 17, 11 * MaxLoops + 18}
      BY <1>0, <2>3, DistanceFacts DEF Closing, Greeted
    <3>2. D(at', step') = 0
      BY <1>0, <2>1, DistanceFacts
    <3> QED BY <1>0, <3>1, <3>2, LoopBoundsAssumption DEF Closer
  <2> QED BY <2>1, <2>2, <2>3 DEF Awaits
<1>12. CASE Stop \/ (\E m \in Messages : Instruct(m)) \/ UNCHANGED loopVars
  BY <1>12 DEF Stop, Instruct, loopVars, Closer
<1> QED
  BY <1>1, <1>2, <1>3, <1>4, <1>5, <1>6, <1>7, <1>8, <1>9, <1>10, <1>11, <1>12
     DEF LoopNext, Handler

(* An execution ends within eleven steps of the handler for each step of   *)
(* its budget, and a few more: no model, tool or user can make it go round *)
(* in one step.                                                            *)
THEOREM ExecutionIsBounded == LoopSpec => EndComesCloser
<1>1. LoopInv /\ [LoopNext]_loopVars
         => [UNCHANGED <<at, step>> \/ (Distance' \in Nat /\ Distance' < Distance)]_loopVars
  BY LoopStepIsCloser DEF Closer
<1> QED BY <1>1, LoopInvHolds, PTL DEF LoopSpec, EndComesCloser
=============================================================================
