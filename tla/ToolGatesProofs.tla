--------------------------- MODULE ToolGatesProofs ---------------------------
(***************************************************************************)
(* Proofs about ToolGates, for any files, any menu of calls, any limits    *)
(* and any bound on the steps.                                             *)
(***************************************************************************)
EXTENDS ToolGates, FiniteSetTheorems, TLAPS

(* The inductive invariant, in the parts the proofs below need.            *)

(* A response is worked on within the loop, the calls that passed were     *)
(* judged, and the budget counts them.                                     *)
WorkInv ==
    /\ phase # "model" => step <= MaxStep
    /\ phase = "model" => passed = {}
    /\ phase \in {"model", "gate"} => result = NotRun
    /\ phase = "gate" => /\ passed \subseteq 1 .. pos
                         /\ total + Cardinality(passed) <= Budget

BaseInv == GatesTypeOK /\ WorkInv

-----------------------------------------------------------------------------
(* Facts about the helpers.                                                *)

LEMMA Bounds ==
    /\ MaxStep \in Nat \ {0} /\ FailLimit \in Nat \ {0} /\ StaleSteps \in Nat \ {0}
    /\ DebtFailures \in Nat \ {0} /\ BlockSteps \in Nat \ {0}
    /\ Budget \in Nat /\ MaxBatch \in Nat \ {0}
  BY LimitsAssumption, BudgetAssumption, BatchAssumption

(* One more attempt is a tally of one more, or the first of its signature. *)
LEMMA TallyType ==
    ASSUME NEW t \in Tallies, NEW c \in Menu
    PROVE  /\ Tally(t, c) \in Tallies
           /\ Tally(t, c).signature = Signature(c)
           /\ Tally(t, c).count = IF t.signature = Signature(c) THEN t.count + 1 ELSE 1
  BY DEF Tally, Tallies, Signatures

LEMMA NoFailureType == NoFailure \in Tallies
  BY DEF NoFailure, Tallies

(* The calls of a response are calls of the menu.                          *)
LEMMA BatchCalls ==
    ASSUME GatesTypeOK, NEW i \in 1 .. Len(batch)
    PROVE  /\ batch[i] \in Menu /\ batch[i] \in Calls
           /\ i \in Positions
           /\ Signature(batch[i]) \in Signatures
<1>1. batch \in Seq(Menu) /\ Len(batch) <= MaxBatch /\ MaxBatch \in Nat
  BY Bounds DEF GatesTypeOK
<1>2. batch[i] \in Menu /\ i \in Positions
  BY <1>1 DEF Positions
<1> QED
  BY <1>2, MenuAssumption DEF Signatures

LEMMA PassedIsFinite ==
    ASSUME GatesTypeOK
    PROVE  IsFiniteSet(passed) /\ Cardinality(passed) \in Nat
<1>1. IsFiniteSet(1 .. Len(batch))
  BY FS_Interval DEF GatesTypeOK
<1> QED
  BY <1>1, FS_Subset, FS_CardinalityType DEF GatesTypeOK

-----------------------------------------------------------------------------
(* The parts of a response keep the base.                                  *)

LEMMA InitBase == Init => BaseInv
<1> SUFFICES ASSUME Init PROVE BaseInv
  OBVIOUS
<1>1. batch \in Seq(Menu) /\ Len(batch) = 0
  BY DEF Init
<1>2. result \in [Positions -> {"none", "ok"} \cup Fails]
  BY DEF Init, NotRun
<1>3. saved \in [known : SUBSET Signatures, recorded : 0 .. MaxStep]
  BY Bounds DEF Init
<1>4. /\ guarded \in BOOLEAN /\ revised \in BOOLEAN /\ fresh \in BOOLEAN
      /\ debt \in BOOLEAN /\ excused \in BOOLEAN /\ thinking \in BOOLEAN
  BY DEF Init
<1>5. GatesTypeOK
  BY <1>1, <1>2, <1>3, <1>4, Bounds, NoFailureType DEF Init, GatesTypeOK, Deltas
<1>6. WorkInv
  BY <1>1, Bounds DEF Init, WorkInv
<1> QED
  BY <1>5, <1>6 DEF BaseInv

LEMMA ProposeBase ==
    ASSUME BaseInv, Propose
    PROVE  BaseInv'
<1>1. PICK n \in Positions : batch' \in [1 .. n -> Menu]
  BY DEF Propose
<1>2. batch' \in Seq(Menu) /\ Len(batch') = n /\ n <= MaxBatch
  BY <1>1, Bounds DEF Positions
<1>3. result' \in [Positions -> {"none", "ok"} \cup Fails]
  BY DEF Propose, NotRun
<1>4. Cardinality({}) = 0
  BY FS_EmptySet
<1>5. /\ guarded' \in BOOLEAN /\ revised' \in BOOLEAN /\ fresh' \in BOOLEAN
      /\ thinking' \in BOOLEAN
  BY DEF Propose
<1>6. GatesTypeOK'
  BY <1>2, <1>3, <1>5, Bounds DEF BaseInv, GatesTypeOK, Propose, recordVars, fileVars
<1>7. WorkInv'
  BY <1>4, Bounds DEF BaseInv, GatesTypeOK, WorkInv, Propose
<1> QED
  BY <1>6, <1>7 DEF BaseInv

LEMMA NoCallsBase ==
    ASSUME BaseInv, NoCalls
    PROVE  BaseInv'
<1>1. step' \in 1 .. MaxStep + 1 /\ step' = step + 1
  BY Bounds DEF NoCalls, BaseInv, GatesTypeOK
<1>2. streak' \in 0 .. step'
  BY <1>1, Bounds DEF NoCalls, BaseInv, GatesTypeOK, recordVars
<1> QED
  BY <1>1, <1>2, Bounds
     DEF BaseInv, GatesTypeOK, WorkInv, NoCalls, batchVars, recordVars, fileVars, NotRun

LEMMA RefuseBase ==
    ASSUME BaseInv, NEW i \in Positions, RefuseByGuard(i) \/ Refuse(i)
    PROVE  BaseInv'
<1>1. Judge(i) /\ guarded' \in BOOLEAN /\ UNCHANGED <<passed, projected>>
  BY DEF RefuseByGuard, Refuse, BaseInv, GatesTypeOK
<1>2. pos' \in 0 .. Len(batch') /\ (passed \subseteq 1 .. pos => passed' \subseteq 1 .. pos')
  BY <1>1, Bounds DEF Judge, BaseInv, GatesTypeOK
<1> QED
  BY <1>1, <1>2, Bounds DEF BaseInv, GatesTypeOK, WorkInv, Judge, countVars,
                            recordVars, fileVars

LEMMA PassBase ==
    ASSUME BaseInv, NEW i \in Positions, Pass(i)
    PROVE  BaseInv'
<1>1. i = pos + 1 /\ i \in 1 .. Len(batch) /\ passed' = passed \cup {i} /\ phase = "gate"
  BY Bounds DEF Pass, Judge, BaseInv, GatesTypeOK, Positions
<1>2. Cardinality(passed') = Cardinality(passed) + 1 /\ Cardinality(passed) \in Nat
  <2>1. i \notin passed
    BY <1>1, Bounds DEF BaseInv, WorkInv, GatesTypeOK
  <2> QED
    BY <1>1, <2>1, PassedIsFinite, FS_AddElement DEF BaseInv
<1>3. total + Cardinality(passed') <= Budget
  BY <1>2, Bounds DEF Pass, OutOfBudget, BaseInv, GatesTypeOK
<1>4. projected' \in Tallies
  BY <1>1, BatchCalls, TallyType DEF Pass, BaseInv, GatesTypeOK
<1> QED
  BY <1>1, <1>3, <1>4, Bounds DEF BaseInv, GatesTypeOK, WorkInv, Pass, Judge, countVars,
                                  recordVars, fileVars

LEMMA DispatchBase ==
    ASSUME BaseInv, Dispatch
    PROVE  BaseInv'
  BY Bounds, PassedIsFinite, NoFailureType
     DEF BaseInv, GatesTypeOK, WorkInv, Dispatch, recordVars, fileVars

LEMMA RunBase ==
    ASSUME BaseInv, NEW i \in Positions, RunCall(i)
    PROVE  BaseInv'
<1>1. ASSUME NEW tool, Running(i, tool), present' \subseteq Paths, unseen' \subseteq Paths,
             delta' \in Deltas, revised' \in BOOLEAN, fresh' \in BOOLEAN,
             \E r \in {"ok"} \cup Fails : Ends(i, r)
      PROVE  BaseInv'
  BY <1>1, Bounds DEF BaseInv, GatesTypeOK, WorkInv, Running, Ends, countVars
<1>2. CASE RunRead(i)
  BY <1>1, <1>2 DEF RunRead, Fails, fileVars, BaseInv, GatesTypeOK
<1>3. CASE RunWrite(i)
  <2>1. batch[i] \in Calls /\ batch[i].tool = "write"
    BY <1>3, BatchCalls DEF RunWrite, Running, BaseInv, GatesTypeOK
  <2>2. batch[i].path \in Paths
    BY <2>1 DEF Calls
  <2> QED
    BY <1>1, <1>3, <2>2 DEF RunWrite, Fails, fileVars, BaseInv, GatesTypeOK
<1>4. CASE RunRule(i)
  BY <1>1, <1>4, FilesAssumption DEF RunRule, Fails, fileVars, BaseInv, GatesTypeOK
<1>5. CASE RunBash(i)
  BY <1>1, <1>5 DEF RunBash, Fails, fileVars, BaseInv, GatesTypeOK
<1>6. CASE RunRecord(i)
  BY <1>1, <1>6 DEF RunRecord, Fails, fileVars, BaseInv, GatesTypeOK, Deltas
<1>7. CASE RunThink(i)
  BY <1>1, <1>7 DEF RunThink, Fails, fileVars, BaseInv, GatesTypeOK
<1> QED
  BY <1>2, <1>3, <1>4, <1>5, <1>6, <1>7 DEF RunCall

LEMMA CompleteBase ==
    ASSUME BaseInv, Complete
    PROVE  BaseInv'
  BY Bounds DEF BaseInv, GatesTypeOK, WorkInv, Complete, countVars, recordVars, fileVars

(* What a record_state books is a step and a count within their bounds.    *)
LEMMA RecordType ==
    ASSUME BaseInv, phase = "book", NEW c, BookRecord(c)
    PROVE  recorded' \in 0 .. MaxStep /\ repeats' \in 0 .. 2
  BY Bounds DEF BookRecord, OpensGate, BaseInv, GatesTypeOK, WorkInv

LEMMA BookBase ==
    ASSUME BaseInv, NEW i \in Positions, BookRefused(i) \/ BookFailure(i) \/ BookSuccess(i)
    PROVE  BaseInv'
<1>1. Book(i) /\ i \in 1 .. Len(batch)
  BY Bounds DEF BookRefused, BookFailure, BookSuccess, Book, BaseInv, GatesTypeOK,
                Positions
<1>2. recorded' \in 0 .. MaxStep /\ repeats' \in 0 .. 2
  BY RecordType DEF BookRefused, BookFailure, BookSuccess, Book, BaseInv, GatesTypeOK
<1>3. batch[i] \in Menu /\ Signature(batch[i]) \in Signatures
  BY <1>1, BatchCalls DEF BaseInv
<1>4. last' \in Tallies
  BY <1>3, TallyType, NoFailureType
     DEF BookRefused, BookFailure, BookSuccess, BaseInv, GatesTypeOK
<1>5. failures' \in Nat /\ known' \subseteq Signatures
  BY <1>3 DEF BookRefused, BookFailure, BookSuccess, BaseInv, GatesTypeOK
<1> QED
  BY <1>1, <1>2, <1>4, <1>5, Bounds DEF Book, BaseInv, GatesTypeOK, WorkInv, fileVars

LEMMA EndStepBase ==
    ASSUME BaseInv, EndStep
    PROVE  BaseInv'
<1>1. /\ streak \in 0 .. step /\ step \in Nat
      /\ debt \in BOOLEAN /\ excused \in BOOLEAN
  BY Bounds DEF BaseInv, GatesTypeOK
<1>2. Streak \in 0 .. step + 1
  BY <1>1 DEF Streak
<1>3. Debt \in BOOLEAN /\ Excused \in BOOLEAN /\ Asked \in BOOLEAN
  BY <1>1, Zenon DEF Debt, Excused, Asked
<1>4. /\ Streak \in 0 .. step + 1
      /\ Debt \in BOOLEAN /\ Excused \in BOOLEAN /\ Asked \in BOOLEAN
  BY <1>2, <1>3
<1>5. /\ step' = step + 1 /\ streak' \in 0 .. step'
      /\ thinking' \in BOOLEAN /\ debt' \in BOOLEAN /\ excused' \in BOOLEAN
  BY <1>4, Bounds DEF EndStep, BaseInv, GatesTypeOK
<1>6. batch' = <<>> /\ batch' \in Seq(Menu) /\ Len(batch') = 0 /\ pos' = 0 /\ passed' = {}
  BY DEF EndStep
<1>7. result' = NotRun /\ result' \in [Positions -> {"none", "ok"} \cup Fails]
  BY DEF EndStep, NotRun
<1>8. step' \in 1 .. MaxStep + 1
  BY <1>5, Bounds DEF BaseInv, GatesTypeOK, WorkInv, EndStep
<1>9. /\ saved' \in [known : SUBSET Signatures, recorded : 0 .. MaxStep]
      /\ recorded' \in 0 .. MaxStep
  BY DEF BaseInv, GatesTypeOK, EndStep, recordVars
<1>10. guarded' \in BOOLEAN /\ revised' \in BOOLEAN /\ fresh' \in BOOLEAN
  BY DEF EndStep
<1>11. /\ phase' = "model" /\ projected' = NoFailure
      /\ UNCHANGED <<last, failures, repeats, total, delta, present, unseen, known>>
  BY DEF EndStep, recordVars, fileVars
<1>12. GatesTypeOK'
  BY <1>5, <1>6, <1>7, <1>8, <1>9, <1>10, <1>11, Bounds, NoFailureType DEF BaseInv,
                                                                           GatesTypeOK
<1>13. WorkInv'
  BY <1>6, <1>7 DEF WorkInv, EndStep, NotRun
<1> QED
  BY <1>12, <1>13 DEF BaseInv

LEMMA CheckpointBase ==
    ASSUME BaseInv, Checkpoint
    PROVE  BaseInv'
<1>1. /\ delta' \in Deltas /\ present' \subseteq Paths /\ unseen' \subseteq Paths
      /\ phase' = "model" /\ phase = "model"
  BY FilesAssumption DEF Checkpoint, fileVars, BaseInv, GatesTypeOK
<1> QED
  BY <1>1 DEF Checkpoint, BaseInv, GatesTypeOK, WorkInv, batchVars, countVars

LEMMA RestartBase ==
    ASSUME BaseInv, Restart
    PROVE  BaseInv'
<1>1. unseen' \subseteq Paths
  <2>1. ASSUME NEW i \in passed, batch[i].tool = "write"
        PROVE  batch[i].path \in Paths
    <3>1. batch[i] \in Calls
      BY BatchCalls DEF BaseInv, GatesTypeOK
    <3> QED
      BY <2>1, <3>1 DEF Calls
  <2> QED
    BY <2>1 DEF Restart, BaseInv, GatesTypeOK
<1>2. result' = NotRun /\ result' \in [Positions -> {"none", "ok"} \cup Fails]
  BY DEF Restart, NotRun
<1>3. batch' = <<>> /\ batch' \in Seq(Menu) /\ Len(batch') = 0
  BY DEF Restart
<1>4. /\ guarded' \in BOOLEAN /\ revised' \in BOOLEAN /\ fresh' \in BOOLEAN
      /\ debt' \in BOOLEAN /\ excused' \in BOOLEAN /\ thinking' \in BOOLEAN
  BY DEF Restart
<1>5. known' \subseteq Signatures /\ recorded' \in 0 .. MaxStep
  BY DEF BaseInv, GatesTypeOK, Restart
<1>6. step' \in 1 .. MaxStep + 1
  BY Bounds DEF BaseInv, GatesTypeOK, WorkInv, Restart
<1>7. GatesTypeOK'
  BY <1>1, <1>2, <1>3, <1>4, <1>5, <1>6, Bounds, NoFailureType
     DEF BaseInv, GatesTypeOK, Restart, Deltas
<1>8. WorkInv'
  BY <1>2, <1>3 DEF WorkInv, Restart, NotRun
<1> QED
  BY <1>7, <1>8 DEF BaseInv

LEMMA StutterBase ==
    ASSUME BaseInv, UNCHANGED vars
    PROVE  BaseInv'
  BY DEF BaseInv, GatesTypeOK, WorkInv, vars, batchVars, countVars, recordVars, fileVars

LEMMA BaseStep == BaseInv /\ [Next]_vars => BaseInv'
  BY ProposeBase, NoCallsBase, RefuseBase, PassBase, DispatchBase, RunBase, CompleteBase,
     BookBase, EndStepBase, CheckpointBase, RestartBase, StutterBase DEF Next

(* Every variable of the gates keeps its type; in particular the run never *)
(* dispatches more calls than its budget (on_message).                     *)
THEOREM GatesTypeCorrect == Spec => []GatesTypeOK
<1>1. BaseInv => GatesTypeOK
  BY DEF BaseInv
<1> QED
  BY InitBase, BaseStep, <1>1, PTL DEF Spec

-----------------------------------------------------------------------------
(* The breaker: the debt of a think.                                       *)

(* Failures in a row leave a debt or are excused; a think never fails; and *)
(* under a debt only thinks and forced calls pass.                         *)
DebtInv ==
    /\ phase # "book" \/ passed = {} => (failures >= DebtFailures => debt \/ excused)
    /\ \A i \in passed : batch[i].tool = "think" => result[i] \notin Fails
    /\ phase \in {"gate", "run"} /\ debt =>
           \A i \in passed : batch[i].force \/ batch[i].tool = "think"

LEMMA DebtInit == Init => DebtInv
  BY Bounds DEF Init, DebtInv

LEMMA DebtBeforeRun ==
    ASSUME BaseInv, DebtInv,
           \/ Propose \/ NoCalls \/ Dispatch \/ Complete
           \/ \E i \in Positions : RefuseByGuard(i) \/ Refuse(i)
    PROVE  DebtInv'
<1>1. CASE Propose
  BY <1>1, Bounds DEF BaseInv, GatesTypeOK, WorkInv, DebtInv, Propose
<1>2. CASE NoCalls
  BY <1>2 DEF BaseInv, WorkInv, DebtInv, NoCalls, batchVars
<1>3. CASE Dispatch
  BY <1>3 DEF DebtInv, Dispatch
<1>4. CASE Complete
  BY <1>4 DEF DebtInv, Complete, countVars
<1>5. ASSUME NEW i \in Positions, RefuseByGuard(i) \/ Refuse(i)
      PROVE  DebtInv'
  BY <1>5 DEF DebtInv, RefuseByGuard, Refuse, Judge, countVars
<1> QED
  BY <1>1, <1>2, <1>3, <1>4, <1>5

LEMMA DebtPass ==
    ASSUME BaseInv, DebtInv, NEW i \in Positions, Pass(i)
    PROVE  DebtInv'
<1>1. debt => batch[i].force \/ batch[i].tool = "think"
  BY DEF Pass, ThinkRequired
<1>2. result[i] = "none"
  BY DEF BaseInv, WorkInv, Pass, Judge, NotRun
<1> QED
  BY <1>1, <1>2 DEF DebtInv, Pass, Judge, countVars, Fails

LEMMA DebtRun ==
    ASSUME BaseInv, DebtInv, NEW i \in Positions, RunCall(i)
    PROVE  DebtInv'
<1>1. /\ i \in passed /\ phase = "run" /\ phase' = "run"
      /\ UNCHANGED <<batch, pos, passed, failures, debt, excused>>
      /\ \E r : result' = [result EXCEPT ![i] = r]
                /\ (r \in Fails => batch[i].tool # "think")
  BY DEF RunCall, RunRead, RunWrite, RunRule, RunBash, RunRecord, RunThink, Running,
         Ends, Fails,
         countVars
<1> QED
  BY <1>1 DEF DebtInv, BaseInv, GatesTypeOK

LEMMA DebtBook ==
    ASSUME BaseInv, DebtInv, NEW i \in Positions,
           BookRefused(i) \/ BookFailure(i) \/ BookSuccess(i)
    PROVE  DebtInv'
<1>1. /\ phase = "book" /\ phase' = "book"
      /\ UNCHANGED <<batch, passed, result, debt, excused>>
      /\ i \in passed \/ UNCHANGED failures
  BY DEF BookRefused, BookFailure, BookSuccess, Book
<1> QED
  BY <1>1 DEF DebtInv

LEMMA DebtEndStep ==
    ASSUME BaseInv, DebtInv, EndStep
    PROVE  DebtInv'
<1>1. /\ phase' = "model" /\ passed' = {} /\ failures' = failures
      /\ debt' = Debt /\ excused' = Excused
  BY DEF EndStep
<1>2. failures >= DebtFailures => Debt \/ Excused
  BY DEF DebtInv, Debt, Excused
<1> QED
  BY <1>1, <1>2 DEF DebtInv

LEMMA DebtStep == BaseInv /\ DebtInv /\ [Next]_vars => DebtInv'
<1> SUFFICES ASSUME BaseInv, DebtInv, [Next]_vars PROVE DebtInv'
  OBVIOUS
<1>1. CASE Restart
  BY <1>1, Bounds DEF Restart, DebtInv
<1>2. CASE Checkpoint \/ UNCHANGED vars
  BY <1>2 DEF Checkpoint, vars, batchVars, countVars, DebtInv
<1> QED
  BY <1>1, <1>2, DebtBeforeRun, DebtPass, DebtRun, DebtBook, DebtEndStep DEF Next

(* After THINK_DEBT_FAILURES failures in a row nothing is dispatched but a *)
(* think and what is forced, unless the last of them ran beside a think.   *)
THEOREM BreakerSafety == Spec => []BreakerHolds
<1>1. Init => BaseInv /\ DebtInv
  BY InitBase, DebtInit
<1>2. BaseInv /\ DebtInv /\ [Next]_vars => (BaseInv /\ DebtInv)'
  BY BaseStep, DebtStep
<1>3. BaseInv /\ DebtInv => BreakerHolds
  BY DEF DebtInv, BreakerHolds
<1> QED
  BY <1>1, <1>2, <1>3, PTL DEF Spec

-----------------------------------------------------------------------------
(* The gate that asks for a record_state.                                  *)

(* After a record_state that was answered without progress in this batch,  *)
(* the delta is one of this batch.                                         *)
DeltaInv ==
    ~fresh => \A i \in passed :
        batch[i].tool = "record" /\ result[i] = "ok" => delta \in {"repeat", "empty"}

LEMMA DeltaInit == Init => DeltaInv
  BY DEF Init, DeltaInv

LEMMA DeltaRun ==
    ASSUME BaseInv, DeltaInv, NEW i \in Positions, RunCall(i)
    PROVE  DeltaInv'
<1>1. i \in passed /\ UNCHANGED <<batch, passed>>
  BY DEF RunCall, RunRead, RunWrite, RunRule, RunBash, RunRecord, RunThink, Running
<1>2. CASE RunRecord(i)
  <2>2. PICK r \in {"ok", "failed"} : result' = [result EXCEPT ![i] = r]
    BY <1>2 DEF RunRecord, Ends
  <2>3. CASE Ends(i, "failed") /\ UNCHANGED <<delta, fresh>>
    BY <1>1, <2>3 DEF Ends, DeltaInv, BaseInv, GatesTypeOK
  <2>4. CASE /\ delta' \in Deltas \ {"none"}
             /\ fresh' = (fresh \/ delta' = "progress")
    <3>1. ~fresh' => delta' \in {"repeat", "empty"}
      BY <2>4 DEF Deltas
    <3> QED
      BY <3>1 DEF DeltaInv
  <2> QED
    BY <1>2, <2>3, <2>4 DEF RunRecord
<1>3. CASE ~RunRecord(i)
  <2>1. /\ batch[i].tool # "record" /\ UNCHANGED <<delta, fresh>>
        /\ \E r : result' = [result EXCEPT ![i] = r]
    BY <1>3 DEF RunCall, RunRead, RunWrite, RunRule, RunBash, RunThink, Running, Ends
  <2> QED
    BY <1>1, <2>1 DEF DeltaInv, BaseInv, GatesTypeOK
<1> QED
  BY <1>2, <1>3

LEMMA DeltaStep == BaseInv /\ DeltaInv /\ [Next]_vars => DeltaInv'
<1> SUFFICES ASSUME BaseInv, DeltaInv, [Next]_vars PROVE DeltaInv'
  OBVIOUS
<1>1. CASE Propose \/ EndStep \/ Restart
  BY <1>1 DEF Propose, EndStep, Restart, DeltaInv
<1>2. CASE Checkpoint
  BY <1>2 DEF Checkpoint, batchVars, DeltaInv, BaseInv, WorkInv
<1>3. CASE NoCalls \/ Dispatch \/ Complete \/ UNCHANGED vars
  BY <1>3 DEF NoCalls, Dispatch, Complete, vars, batchVars, recordVars, DeltaInv
<1>4. ASSUME NEW i \in Positions, RefuseByGuard(i) \/ Refuse(i)
      PROVE  DeltaInv'
  BY <1>4 DEF RefuseByGuard, Refuse, Judge, recordVars, DeltaInv
<1>5. ASSUME NEW i \in Positions, Pass(i)
      PROVE  DeltaInv'
  BY <1>5 DEF Pass, Judge, recordVars, DeltaInv, BaseInv, WorkInv, NotRun
<1>6. ASSUME NEW i \in Positions, BookRefused(i) \/ BookFailure(i) \/ BookSuccess(i)
      PROVE  DeltaInv'
  BY <1>6 DEF BookRefused, BookFailure, BookSuccess, BookRecord, Book, DeltaInv
<1> QED
  BY <1>1, <1>2, <1>3, <1>4, <1>5, <1>6, DeltaRun DEF Next

(* Within a run, only a booked record_state moves the step of the last     *)
(* record.                                                                 *)
Records(i) ==
    batch[i].tool = "record" /\ BookRecord(batch[i]) /\ result[i] \in Fails \cup {"ok"}

LEMMA RecordMoves ==
    ASSUME BaseInv, [Next]_vars, phase' = "book", recorded' # recorded
    PROVE  \E i \in passed : Records(i)
<1>1. CASE Restart
  BY <1>1 DEF Restart
<1>2. CASE \/ Propose \/ NoCalls \/ Dispatch \/ Complete \/ EndStep \/ Checkpoint
           \/ UNCHANGED vars
  BY <1>2 DEF Propose, NoCalls, Dispatch, Complete, EndStep, Checkpoint, recordVars, vars
<1>3. ASSUME NEW i \in Positions, RefuseByGuard(i) \/ Refuse(i) \/ Pass(i) \/ RunCall(i)
      PROVE  FALSE
  BY <1>3 DEF RefuseByGuard, Refuse, Pass, Judge, recordVars, RunCall, RunRead, RunWrite,
                    RunRule, RunBash, RunRecord, RunThink, Running
<1>4. ASSUME NEW i \in Positions, BookRefused(i) \/ BookFailure(i) \/ BookSuccess(i)
      PROVE  i \in passed /\ Records(i)
  BY <1>4 DEF BookRefused, BookFailure, BookSuccess, Records
<1> QED
  BY <1>1, <1>2, <1>3, <1>4 DEF Next

LEMMA GateMoves ==
    ASSUME BaseInv, DeltaInv, [Next]_vars, phase' = "book", recorded' # recorded
    PROVE  \/ fresh \/ repeats = 2
           \/ \E i \in passed : batch[i].tool = "record"
                                /\ (batch[i].noChange \/ result[i] \in Fails)
<1>1. PICK i \in passed : Records(i)
  BY RecordMoves
<1>2. OpensGate(batch[i])
  BY <1>1 DEF Records, BookRecord
<1>3. CASE ~fresh /\ result[i] = "ok"
  BY <1>1, <1>2, <1>3 DEF Records, DeltaInv, OpensGate
<1> QED
  BY <1>1, <1>3 DEF Records

(* Within a run, the gate that asks for a record_state opens for progress, *)
(* an explicit no_change, the third repetition or a failed record_state only.          *)
THEOREM GateSafety == Spec => GateOpensForProgress
<1>1. Init => BaseInv /\ DeltaInv
  BY InitBase, DeltaInit
<1>2. BaseInv /\ DeltaInv /\ [Next]_vars => (BaseInv /\ DeltaInv)'
  BY BaseStep, DeltaStep
<1>3. BaseInv /\ DeltaInv /\ [Next]_vars =>
        [phase' = "book" /\ recorded' # recorded =>
            \/ fresh \/ repeats = 2
            \/ \E i \in passed : batch[i].tool = "record"
                                 /\ (batch[i].noChange \/ result[i] \in Fails)]_vars
  BY GateMoves
<1> QED
  BY <1>1, <1>2, <1>3, PTL DEF Spec, GateOpensForProgress

-----------------------------------------------------------------------------
(* The memory of calls that are known to fail.                             *)

(* A write of p that was done, and a whole read of p that found nothing.   *)
Written(i, p) ==
    i \in passed /\ batch[i].tool = "write" /\ result[i] = "ok" /\ batch[i].path = p
Missed(k, p) ==
    k \in passed /\ result[k] = "absent" /\ Signature(batch[k]) = WholeRead(p)
Unbooked(i) == phase = "book" => i > pos

(* A file that is there, though a whole read of it is known to fail, was   *)
(* written by a call whose result is still to be booked.                   *)
KnownOf(p) ==
    /\ WholeRead(p) \in known => \E i \in passed : Written(i, p) /\ Unbooked(i)
    /\ WholeRead(p) \in saved.known => \E i \in passed : Written(i, p)
    /\ \A k \in passed : Missed(k, p) /\ Unbooked(k)
                            => \E i \in passed : Written(i, p) /\ i > k
KnownInv == \A p \in Paths : p \in present /\ p \notin unseen => KnownOf(p)

LEMMA KnownInit == Init => KnownInv
  BY DEF Init, KnownInv, KnownOf, Missed

LEMMA WholeReadIsOf ==
    ASSUME NEW c \in Calls, NEW p, Signature(c) = WholeRead(p)
    PROVE  c.tool = "read" /\ c.path = p
<1>1. DOMAIN c = {"tool", "path", "part", "noChange", "force"}
  BY DEF Calls
<1>2. Signature(c).tool = c.tool /\ Signature(c).path = c.path
  BY <1>1 DEF Signature, Calls
<1> QED
  BY <1>2 DEF WholeRead

LEMMA PassedCalls ==
    ASSUME BaseInv
    PROVE  \A i \in passed : /\ batch[i] \in Calls /\ i \in Positions /\ i \in Nat
                             /\ i <= Len(batch) /\ Len(batch) \in Nat
  BY BatchCalls DEF BaseInv, GatesTypeOK

LEMMA KnownQuiet ==
    ASSUME BaseInv, KnownInv,
           \/ Propose \/ NoCalls \/ Dispatch \/ UNCHANGED vars
           \/ \E i \in Positions : RefuseByGuard(i) \/ Refuse(i)
    PROVE  KnownInv'
<1>1. /\ UNCHANGED <<known, saved, present, unseen>> /\ phase # "book" /\ phase' # "book"
      /\ \/ UNCHANGED <<batch, passed, result>>
         \/ passed = {} /\ passed' = {}
      \/ UNCHANGED vars
  BY DEF Propose, NoCalls, Dispatch, RefuseByGuard, Refuse, Judge, BaseInv, WorkInv,
         batchVars,
         fileVars
<1>2. CASE UNCHANGED vars
  BY <1>2 DEF vars, batchVars, fileVars, KnownInv, KnownOf, Written, Missed, Unbooked
<1>3. CASE ~UNCHANGED vars
  BY <1>1, <1>3 DEF KnownInv, KnownOf, Written, Missed, Unbooked
<1> QED
  BY <1>2, <1>3

(* A checkpoint creates the findings at most, which it notes as unseen.    *)
LEMMA KnownCheckpoint ==
    ASSUME BaseInv, KnownInv, Checkpoint
    PROVE  KnownInv'
<1>1. /\ UNCHANGED <<known, saved, phase, batch, pos, passed, result>>
      /\ \A p : p \in present' /\ p \notin unseen' => p \in present /\ p \notin unseen
  BY DEF Checkpoint, batchVars, fileVars
<1> QED
  BY <1>1 DEF KnownInv, KnownOf, Written, Missed, Unbooked

LEMMA KnownPass ==
    ASSUME BaseInv, KnownInv, NEW i \in Positions, Pass(i)
    PROVE  KnownInv'
<1>1. /\ UNCHANGED <<known, saved, present, unseen, result, batch, phase>> /\ phase = "gate"
      /\ result = NotRun /\ passed \subseteq Positions /\ passed' = passed \cup {i}
  BY PassedCalls DEF Pass, Judge, fileVars, BaseInv, WorkInv
<1>2. \A k \in Positions : result[k] = "none"
  BY <1>1 DEF NotRun
<1> QED
  BY <1>1, <1>2 DEF KnownInv, KnownOf, Written, Missed, Unbooked

LEMMA KnownComplete ==
    ASSUME BaseInv, KnownInv, Complete
    PROVE  KnownInv'
<1>1. \A k \in passed : k \in Nat /\ k > 0
  BY DEF BaseInv, GatesTypeOK
<1> QED
  BY <1>1 DEF Complete, fileVars, KnownInv, KnownOf, Written, Missed, Unbooked

(* What a call that runs leaves of the files and of the other results.     *)
LEMMA KnownRun ==
    ASSUME BaseInv, KnownInv, NEW i \in Positions, RunCall(i)
    PROVE  KnownInv'
<1>1. /\ UNCHANGED <<known, saved, batch, passed>> /\ phase = "run" /\ phase' = "run"
      /\ i \in passed /\ result[i] = "none" /\ unseen \subseteq unseen'
  BY DEF RunCall, RunRead, RunWrite, RunRule, RunBash, RunRecord, RunThink, Running,
         fileVars
<1>2. PICK r : result' = [result EXCEPT ![i] = r]
  BY DEF RunCall, RunRead, RunWrite, RunRule, RunBash, RunRecord, RunThink, Ends
<1>3. \A k \in passed : /\ k # i => result'[k] = result[k]
                        /\ result'[i] = r
                        /\ batch[k] \in Calls /\ k \in Nat
  BY <1>1, <1>2, PassedCalls DEF BaseInv, GatesTypeOK
<1>4. \A p : /\ \A k \in passed : Written(k, p) => Written(k, p)'
             /\ \A k \in passed : Missed(k, p)' /\ k # i => Missed(k, p)
  BY <1>1, <1>3 DEF Written, Missed
<1>5. ASSUME NEW p \in Paths, p \in present, p \notin unseen, ~Missed(i, p)'
      PROVE  KnownOf(p)'
  BY <1>1, <1>3, <1>4, <1>5 DEF KnownInv, KnownOf, Unbooked
<1>6. CASE RunRead(i)
  <2>1. ASSUME NEW p \in Paths, p \in present, Missed(i, p)'
        PROVE  FALSE
    <3>1. batch[i].path = p
      BY <1>1, <1>3, <2>1, WholeReadIsOf DEF Missed
    <3>2. r # "absent"
      BY <1>1, <1>2, <1>3, <1>6, <2>1, <3>1 DEF RunRead, Ends
    <3> QED
      BY <1>1, <1>3, <2>1, <3>2 DEF Missed
  <2> QED
    BY <1>5, <1>6, <2>1 DEF KnownInv, RunRead, fileVars
<1>7. CASE RunWrite(i)
  <2>1. \A p : ~Missed(i, p)'
    BY <1>1, <1>3, <1>7, WholeReadIsOf DEF Missed, RunWrite, Running
  <2>2. CASE UNCHANGED fileVars
    BY <1>5, <2>1, <2>2 DEF KnownInv, fileVars
  <2>3. CASE /\ Ends(i, "ok") /\ present' = present \cup {batch[i].path}
             /\ \A k \in passed : k > i /\ result[k] = "absent" => batch[k].path # batch[i].path
                                  \/ batch[i].path \in unseen'
    <3>1. Written(i, batch[i].path)'
      BY <1>1, <1>3, <1>7, <2>3 DEF Written, RunWrite, Running, Ends, BaseInv, GatesTypeOK
    <3>2. ASSUME batch[i].path \notin unseen', NEW k \in passed, Missed(k, batch[i].path)'
          PROVE  i > k
      <4>1. k # i /\ result[k] = "absent" /\ batch[k].path = batch[i].path
        BY <1>1, <1>3, <1>4, <2>1, <3>2, WholeReadIsOf DEF Missed
      <4> QED
        BY <1>1, <1>3, <2>3, <3>2, <4>1
    <3>3. batch[i].path \notin unseen' => KnownOf(batch[i].path)'
      BY <1>1, <3>1, <3>2 DEF KnownOf, Unbooked
    <3> QED
      BY <1>1, <1>5, <2>1, <2>3, <3>3 DEF KnownInv
  <2> QED
    BY <1>7, <2>2, <2>3 DEF RunWrite
<1>8. CASE RunRule(i) \/ RunBash(i)
  <2>1. \A p : ~Missed(i, p)'
    BY <1>1, <1>3, <1>8, WholeReadIsOf DEF Missed, RunRule, RunBash, Running
  <2>2. \A p : p \in present' /\ p \notin unseen' => p \in present /\ p \notin unseen
    BY <1>8 DEF RunRule, RunBash, fileVars
  <2> QED
    BY <1>5, <2>1, <2>2 DEF KnownInv
<1>9. CASE RunRecord(i) \/ RunThink(i)
  <2>1. \A p : ~Missed(i, p)'
    BY <1>1, <1>3, <1>9, WholeReadIsOf DEF Missed, RunRecord, RunThink, Running
  <2> QED
    BY <1>5, <1>9, <2>1 DEF KnownInv, RunRecord, RunThink, fileVars
<1> QED
  BY <1>6, <1>7, <1>8, <1>9 DEF RunCall

LEMMA KnownBook ==
    ASSUME BaseInv, KnownInv, NEW i \in Positions,
           BookRefused(i) \/ BookFailure(i) \/ BookSuccess(i)
    PROVE  KnownInv'
<1>1. /\ UNCHANGED <<saved, present, unseen, batch, passed, result>>
      /\ phase = "book" /\ phase' = "book" /\ i = pos + 1 /\ pos' = i /\ pos \in Nat
  BY DEF BookRefused, BookFailure, BookSuccess, Book, fileVars, BaseInv, GatesTypeOK
<1>2. \A k \in passed : k \in Nat /\ (k > pos' => k > pos) /\ (k > pos => k > pos' \/ k = i)
  BY <1>1 DEF BaseInv, GatesTypeOK
<1>3. ASSUME NEW p \in Paths, p \in present, p \notin unseen
      PROVE  KnownOf(p)'
  <2>1. KnownOf(p)
    BY <1>3 DEF KnownInv
  <2>2. /\ \A k : Written(k, p)' <=> Written(k, p)
        /\ \A k : Missed(k, p)' <=> Missed(k, p)
    BY <1>1 DEF Written, Missed
  <2>3. WholeRead(p) \in known' => \E k \in passed : Written(k, p) /\ k > pos'
    <3>1. CASE BookRefused(i)
      BY <1>1, <1>2, <2>1, <3>1 DEF BookRefused, KnownOf, Unbooked
    <3>2. CASE BookFailure(i)
      <4>1. ~Written(i, p)
        BY <3>2 DEF BookFailure, Written, Fails
      <4>2. CASE WholeRead(p) \in known
        BY <1>1, <1>2, <2>1, <4>1, <4>2 DEF KnownOf, Unbooked
      <4>3. CASE WholeRead(p) \notin known /\ WholeRead(p) \in known'
        <5>1. Missed(i, p) /\ i > pos /\ i \in passed
          BY <1>1, <3>2, <4>3 DEF BookFailure, Missed
        <5> QED
          BY <1>1, <2>1, <5>1 DEF KnownOf, Unbooked
      <4> QED
        BY <4>2, <4>3
    <3>3. CASE BookSuccess(i)
      <4>1. Written(i, p) => WholeRead(p) \notin known'
        BY <3>3 DEF BookSuccess, Written
      <4>2. known' \subseteq known
        BY <3>3 DEF BookSuccess
      <4> QED
        BY <1>1, <1>2, <2>1, <4>1, <4>2 DEF KnownOf, Unbooked
    <3> QED
      BY <3>1, <3>2, <3>3
  <2> QED
    BY <1>1, <1>2, <2>1, <2>2, <2>3 DEF KnownOf, Unbooked
<1> QED
  BY <1>1, <1>3 DEF KnownInv

LEMMA KnownEndStep ==
    ASSUME BaseInv, KnownInv, EndStep
    PROVE  KnownInv'
<1>1. /\ phase = "book" /\ pos = Len(batch) /\ passed' = {} /\ saved'.known = known
      /\ UNCHANGED <<known, present, unseen>>
  BY DEF EndStep, fileVars
<1>2. \A i \in passed : ~Unbooked(i)
  BY <1>1, PassedCalls DEF Unbooked
<1> QED
  BY <1>1, <1>2 DEF KnownInv, KnownOf

LEMMA KnownRestart ==
    ASSUME BaseInv, KnownInv, Restart
    PROVE  KnownInv'
<1>1. /\ known' = saved.known /\ passed' = {} /\ UNCHANGED <<saved, present>>
      /\ unseen \subseteq unseen'
  BY DEF Restart
<1>2. \A p : p \notin unseen' => \A i \in passed : ~Written(i, p)
  BY DEF Restart, Written
<1> QED
  BY <1>1, <1>2 DEF KnownInv, KnownOf

LEMMA KnownStep == BaseInv /\ KnownInv /\ [Next]_vars => KnownInv'
  BY KnownQuiet, KnownCheckpoint, KnownPass, KnownComplete, KnownRun, KnownBook,
     KnownEndStep, KnownRestart
     DEF Next

(* A whole read refused as a known failure is of a file that is not there, *)
(* but for the exceptions the property names.                              *)
THEOREM KnownBadSafety == Spec => []KnownBadIsAbsent
<1>1. Init => BaseInv /\ KnownInv
  BY InitBase, KnownInit
<1>2. BaseInv /\ KnownInv /\ [Next]_vars => (BaseInv /\ KnownInv)'
  BY BaseStep, KnownStep
<1>3. BaseInv /\ KnownInv => KnownBadIsAbsent
  BY DEF BaseInv, WorkInv, KnownInv, KnownOf, KnownBadIsAbsent
<1> QED
  BY <1>1, <1>2, <1>3, PTL DEF Spec

-----------------------------------------------------------------------------
(* The way out of the gates.                                               *)

ThinkCall == [tool |-> "think", path |-> None, part |-> FALSE, noChange |-> FALSE,
              force |-> FALSE]
RecordCall(b) == [tool |-> "record", path |-> None, part |-> FALSE, noChange |-> b,
                  force |-> FALSE]
ForcedShell == [tool |-> "bash", path |-> None, part |-> FALSE, noChange |-> FALSE,
                force |-> TRUE]
ForcedRead(p) == [tool |-> "read", path |-> p, part |-> FALSE, noChange |-> FALSE,
                  force |-> TRUE]

(* A think never fails, so it is never at the failure limit.               *)
ThinkFailed(t) == t.count > 0 /\ t.signature = Signature(ThinkCall)
TallyInv ==
    /\ ~ThinkFailed(last)
    /\ phase = "gate" /\ pos = 0 => projected = last

LEMMA SignatureTool ==
    ASSUME NEW c \in Calls
    PROVE  Signature(c).tool = c.tool /\ Signature(c).noChange = c.noChange
  BY DEF Signature, Calls

LEMMA TallyInit == Init => TallyInv
  BY DEF Init, TallyInv, ThinkFailed, NoFailure

LEMMA TallyStep == BaseInv /\ DebtInv /\ TallyInv /\ [Next]_vars => TallyInv'
<1> SUFFICES ASSUME BaseInv, DebtInv, TallyInv, [Next]_vars PROVE TallyInv'
  OBVIOUS
<1>1. ThinkCall \in Calls /\ Signature(ThinkCall).tool = "think"
  BY SignatureTool DEF Calls, ThinkCall
<1>2. CASE UNCHANGED last /\ ~(phase' = "gate" /\ pos' = 0 /\ ~(phase = "gate" /\ pos = 0
                                 /\ UNCHANGED projected))
  BY <1>2 DEF TallyInv, ThinkFailed
<1>3. CASE Propose
  BY <1>3 DEF Propose, TallyInv, ThinkFailed
<1>4. CASE NoCalls \/ Dispatch \/ Complete \/ EndStep \/ Checkpoint \/ UNCHANGED vars
  BY <1>2, <1>4 DEF NoCalls, Dispatch, Complete, EndStep, Checkpoint, vars, batchVars,
                    countVars
<1>5. CASE Restart
  BY <1>5 DEF Restart, TallyInv, ThinkFailed, NoFailure
<1>6. ASSUME NEW i \in Positions, RefuseByGuard(i) \/ Refuse(i) \/ Pass(i)
      PROVE  TallyInv'
  <2>1. pos' # 0 /\ UNCHANGED last
    BY <1>6 DEF RefuseByGuard, Refuse, Pass, Judge, countVars, BaseInv, GatesTypeOK
  <2> QED
    BY <1>2, <2>1
<1>7. ASSUME NEW i \in Positions, RunCall(i)
      PROVE  TallyInv'
  <2>1. phase' = "run" /\ UNCHANGED last
    BY <1>7 DEF RunCall, RunRead, RunWrite, RunRule, RunBash, RunRecord, RunThink,
                Running, countVars
  <2> QED
    BY <1>2, <2>1
<1>8. ASSUME NEW i \in Positions, BookRefused(i) \/ BookFailure(i) \/ BookSuccess(i)
      PROVE  TallyInv'
  <2>1. phase' = "book"
    BY <1>8 DEF BookRefused, BookFailure, BookSuccess, Book
  <2>2. CASE BookRefused(i)
    BY <1>2, <2>1, <2>2 DEF BookRefused
  <2>3. CASE BookSuccess(i)
    BY <2>1, <2>3 DEF BookSuccess, TallyInv, ThinkFailed, NoFailure
  <2>4. CASE BookFailure(i)
    <3>1. batch[i] \in Menu /\ batch[i] \in Calls /\ batch[i].tool # "think"
      BY <2>4, BatchCalls DEF BookFailure, DebtInv, BaseInv, GatesTypeOK
    <3>2. Signature(batch[i]) # Signature(ThinkCall)
      BY <1>1, <3>1, SignatureTool
    <3>3. last'.signature = Signature(batch[i])
      BY <2>4, <3>1, TallyType DEF BookFailure, BaseInv, GatesTypeOK
    <3> QED
      BY <2>1, <3>2, <3>3 DEF TallyInv, ThinkFailed
  <2> QED
    BY <1>8, <2>2, <2>3, <2>4
<1> QED
  BY <1>3, <1>4, <1>5, <1>6, <1>7, <1>8 DEF Next

LEMMA SomeCallIsOpen ==
    ASSUME Menu = Calls, Paths # {}, BaseInv, TallyInv, phase = "gate", pos = 0
    PROVE  \E c \in Menu : Open(c) /\ (c.force => debt /\ step >= recorded + StaleSteps)
<1>1. projected.count \in Nat
  BY DEF BaseInv, GatesTypeOK, Tallies
<1>2. CASE debt /\ step >= recorded + StaleSteps
  <2>1. PICK p \in Paths : TRUE
    OBVIOUS
  <2>2. ForcedShell \in Menu /\ ForcedRead(p) \in Menu
    BY DEF Calls, ForcedShell, ForcedRead
  <2>3. Signature(ForcedShell) # Signature(ForcedRead(p))
    BY <2>2, SignatureTool DEF ForcedShell, ForcedRead
  <2>4. ~AtFailureLimit(ForcedShell) \/ ~AtFailureLimit(ForcedRead(p))
    BY <2>3 DEF AtFailureLimit
  <2>5. ForcedShell.force = TRUE /\ ForcedRead(p).force = TRUE
    BY DEF ForcedShell, ForcedRead
  <2> QED
    BY <1>2, <2>2, <2>4, <2>5 DEF Open, KnownBad, RecordStale, ThinkRequired
<1>3. CASE ~debt /\ step >= recorded + StaleSteps
  <2>1. RecordCall(TRUE) \in Menu /\ RecordCall(FALSE) \in Menu
    BY DEF Calls, RecordCall
  <2>2. Signature(RecordCall(TRUE)) # Signature(RecordCall(FALSE))
    BY <2>1, SignatureTool DEF RecordCall
  <2>3. PICK b \in BOOLEAN : ~AtFailureLimit(RecordCall(b)) /\ RecordCall(b) \in Menu
    BY <2>1, <2>2 DEF AtFailureLimit
  <2>4. RecordCall(b).tool = "record" /\ RecordCall(b).force = FALSE
    BY DEF RecordCall
  <2> QED
    BY <1>3, <2>3, <2>4 DEF Open, KnownBad, Guarded, RecordStale, ThinkRequired
<1>4. CASE ~(step >= recorded + StaleSteps)
  <2>1. ThinkCall \in Menu /\ ThinkCall.tool = "think" /\ ThinkCall.force = FALSE
    BY DEF Calls, ThinkCall
  <2>2. ~AtFailureLimit(ThinkCall)
    BY <1>1, Bounds DEF AtFailureLimit, TallyInv, ThinkFailed
  <2> QED
    BY <1>4, <2>1, <2>2 DEF Open, KnownBad, Guarded, RecordStale, ThinkRequired
<1> QED
  BY <1>2, <1>3, <1>4

(* A model that may make any call is never shut out while the budget       *)
(* lasts, and needs force only where both gates are shut.                  *)
THEOREM WayOutSafety ==
    ASSUME Menu = Calls, Paths # {}
    PROVE  Spec => []WayOut
<1>1. Init => BaseInv /\ DebtInv /\ TallyInv
  BY InitBase, DebtInit, TallyInit
<1>2. BaseInv /\ DebtInv /\ TallyInv /\ [Next]_vars => (BaseInv /\ DebtInv /\ TallyInv)'
  BY BaseStep, DebtStep, TallyStep
<1>3. BaseInv /\ TallyInv => WayOut
  BY SomeCallIsOpen DEF WayOut
<1> QED
  BY <1>1, <1>2, <1>3, PTL DEF Spec

-----------------------------------------------------------------------------
(* The limit on a call that fails again and again.                         *)

(* f is how the tally of failures would go if every call that passed, of   *)
(* the first n of a response, failed.                                      *)
Projects(f, n, calls, some) ==
    /\ f \in [0 .. n -> Tallies]
    /\ \A k \in 1 .. n :
          IF k \in some
          THEN f[k] = Tally(f[k - 1], calls[k]) /\ f[k].count <= FailLimit
          ELSE f[k] = f[k - 1]

(* The tally t is zero, or of the same call as u and not ahead of it.      *)
Behind(t, u) == t.count > 0 => t.signature = u.signature /\ t.count <= u.count

LimitInv ==
    /\ last.count <= FailLimit
    /\ phase = "gate" => \E f : /\ Projects(f, pos, batch, passed)
                               /\ f[0] = last /\ f[pos] = projected
    /\ phase = "run" => \E f : Projects(f, Len(batch), batch, passed) /\ f[0] = last
    /\ phase = "book" => \E f : Projects(f, Len(batch), batch, passed) /\ Behind(last, f[pos])

LEMMA LimitInit == Init => LimitInv
  BY Bounds DEF Init, LimitInv, NoFailure

LEMMA LimitPropose ==
    ASSUME BaseInv, LimitInv, Propose
    PROVE  LimitInv'
<1> DEFINE f == [k \in 0 .. 0 |-> last]
<1>1. phase' = "gate" /\ pos' = 0 /\ last' = last /\ projected' = last /\ passed' = {}
  BY DEF Propose
<1>2. Projects(f, 0, batch', passed') /\ f[0] = last
  BY <1>1 DEF Projects, BaseInv, GatesTypeOK
<1> QED
  BY <1>1, <1>2 DEF LimitInv

(* A judged call extends the projection by one.                            *)
LEMMA LimitJudge ==
    ASSUME BaseInv, LimitInv, NEW i \in Positions, RefuseByGuard(i) \/ Refuse(i) \/ Pass(i)
    PROVE  LimitInv'
<1>1. /\ phase = "gate" /\ phase' = "gate" /\ i = pos + 1 /\ pos' = i /\ pos \in Nat
      /\ last' = last /\ batch' = batch /\ passed \subseteq 1 .. pos
      /\ i \in 1 .. Len(batch) /\ projected' \in Tallies
  <2>1. BaseInv'
    BY RefuseBase, PassBase
  <2>2. projected' \in Tallies
    BY <2>1 DEF BaseInv, GatesTypeOK
  <2>3. pos \in Nat /\ passed \subseteq 1 .. pos
    BY DEF RefuseByGuard, Refuse, Pass, Judge, BaseInv, GatesTypeOK, WorkInv
  <2>4. /\ phase = "gate" /\ phase' = "gate" /\ i = pos + 1 /\ pos' = i
        /\ last' = last /\ batch' = batch /\ pos < Len(batch)
    BY DEF RefuseByGuard, Refuse, Pass, Judge, countVars
  <2>5. Len(batch) \in Nat
    BY DEF BaseInv, GatesTypeOK
  <2> QED
    BY <2>2, <2>3, <2>4, <2>5
<1>2. PICK f : Projects(f, pos, batch, passed) /\ f[0] = last /\ f[pos] = projected
  BY <1>1 DEF LimitInv
<1> DEFINE g == [k \in 0 .. i |-> IF k = i THEN projected' ELSE f[k]]
<1>3. IF i \in passed'
      THEN projected' = Tally(projected, batch[i]) /\ projected'.count <= FailLimit
      ELSE projected' = projected
  <2>1. CASE RefuseByGuard(i) \/ Refuse(i)
    BY <1>1, <2>1 DEF RefuseByGuard, Refuse
  <2>2. CASE Pass(i)
    <3>1. batch[i] \in Menu /\ projected \in Tallies /\ projected.count \in Nat
      BY <1>1, BatchCalls DEF BaseInv, GatesTypeOK, Tallies
    <3>2. i \in passed' /\ projected' = Tally(projected, batch[i])
      BY <2>2 DEF Pass
    <3>3. projected.signature = Signature(batch[i]) => projected.count < FailLimit
      BY <2>2, <3>1, Bounds DEF Pass, AtFailureLimit
    <3> QED
      BY <3>1, <3>2, <3>3, TallyType, Bounds
  <2> QED
    BY <2>1, <2>2
<1>4. \A k \in 1 .. pos : k \in passed' <=> k \in passed
  BY <1>1 DEF RefuseByGuard, Refuse, Pass
<1>5. g \in [0 .. i -> Tallies]
  BY <1>1, <1>2 DEF Projects
<1>6. ASSUME NEW k \in 1 .. i
      PROVE  IF k \in passed'
             THEN g[k] = Tally(g[k - 1], batch[k]) /\ g[k].count <= FailLimit
             ELSE g[k] = g[k - 1]
  <2>1. CASE k = i
    <3>1. k \in 0 .. i /\ k - 1 \in 0 .. i /\ k - 1 # i /\ k - 1 = pos
      BY <1>1, <2>1
    <3>2. g[k] = projected' /\ g[k - 1] = projected
      BY <1>2, <2>1, <3>1
    <3> QED
      BY <1>3, <2>1, <3>2
  <2>2. CASE k # i
    <3>1. k \in 1 .. pos /\ k \in 0 .. i /\ k - 1 \in 0 .. i /\ k - 1 # i
      BY <1>1, <2>2
    <3>2. g[k] = f[k] /\ g[k - 1] = f[k - 1]
      BY <2>2, <3>1
    <3> QED
      BY <1>2, <1>4, <3>1, <3>2 DEF Projects
  <2> QED
    BY <2>1, <2>2
<1>7. Projects(g, i, batch', passed')
  BY <1>1, <1>5, <1>6 DEF Projects
<1>8. g[0] = last /\ g[i] = projected'
  BY <1>1, <1>2
<1> QED
  BY <1>1, <1>7, <1>8 DEF LimitInv

LEMMA LimitBook ==
    ASSUME BaseInv, LimitInv, NEW i \in Positions,
           BookRefused(i) \/ BookFailure(i) \/ BookSuccess(i)
    PROVE  LimitInv'
<1>1. /\ phase = "book" /\ phase' = "book" /\ i = pos + 1 /\ pos' = i /\ pos \in Nat
      /\ UNCHANGED <<batch, passed>> /\ i \in 1 .. Len(batch) /\ i - 1 = pos
  BY DEF BookRefused, BookFailure, BookSuccess, Book, BaseInv, GatesTypeOK
<1>2. PICK f : Projects(f, Len(batch), batch, passed) /\ Behind(last, f[pos])
  BY <1>1 DEF LimitInv
<1>3. /\ f[pos] \in Tallies /\ last \in Tallies /\ batch[i] \in Menu
      /\ IF i \in passed THEN f[i] = Tally(f[pos], batch[i]) /\ f[i].count <= FailLimit
                         ELSE f[i] = f[pos]
  BY <1>1, <1>2, BatchCalls DEF Projects, BaseInv, GatesTypeOK
<1>4. f[pos].count \in Nat /\ last.count \in Nat
  BY <1>3 DEF Tallies
<1>5. last'.count <= FailLimit /\ Behind(last', f[i])
  <2>1. CASE BookRefused(i)
    BY <1>2, <1>3, <2>1 DEF BookRefused, LimitInv
  <2>2. CASE BookSuccess(i)
    BY <2>2, Bounds DEF BookSuccess, NoFailure, Behind
  <2>3. CASE BookFailure(i)
    <3>1. last' = Tally(last, batch[i]) /\ f[i] = Tally(f[pos], batch[i])
          /\ f[i].count <= FailLimit
      BY <1>3, <2>3 DEF BookFailure
    <3>2. /\ last'.signature = Signature(batch[i]) /\ f[i].signature = Signature(batch[i])
          /\ last'.count = IF last.signature = Signature(batch[i]) THEN last.count + 1 ELSE 1
          /\ f[i].count = IF f[pos].signature = Signature(batch[i]) THEN f[pos].count + 1 ELSE 1
      BY <1>3, <3>1, TallyType
    <3>3. last'.count <= f[i].count
      BY <1>2, <1>4, <3>2 DEF Behind
    <3> QED
      BY <1>4, <3>1, <3>2, <3>3, Bounds DEF Behind
  <2> QED
    BY <2>1, <2>2, <2>3
<1>6. Projects(f, Len(batch'), batch', passed')
  BY <1>1, <1>2 DEF Projects
<1> QED
  BY <1>1, <1>5, <1>6 DEF LimitInv

LEMMA LimitStep == BaseInv /\ LimitInv /\ [Next]_vars => LimitInv'
<1> SUFFICES ASSUME BaseInv, LimitInv, [Next]_vars PROVE LimitInv'
  OBVIOUS
<1>1. CASE NoCalls \/ EndStep
  BY <1>1 DEF NoCalls, EndStep, LimitInv
<1>2. CASE Checkpoint
  BY <1>2 DEF Checkpoint, countVars, LimitInv
<1>3. CASE Restart
  BY <1>3, Bounds DEF Restart, LimitInv, NoFailure
<1>4. CASE UNCHANGED vars
  BY <1>4 DEF vars, batchVars, countVars, LimitInv, Projects
<1>5. CASE Dispatch
  BY <1>5 DEF Dispatch, LimitInv, Projects
<1>6. CASE Complete
  <2>1. last.count \in Nat
    BY DEF BaseInv, GatesTypeOK, Tallies
  <2>2. PICK f : Projects(f, Len(batch), batch, passed) /\ f[0] = last
    BY <1>6 DEF Complete, LimitInv
  <2>3. /\ phase' = "book" /\ pos' = 0 /\ last' = last /\ batch' = batch /\ passed' = passed
    BY <1>6 DEF Complete, countVars
  <2>4. Behind(last, f[0])
    BY <2>1, <2>2 DEF Behind
  <2> QED
    BY <2>2, <2>3, <2>4 DEF LimitInv
<1>7. ASSUME NEW i \in Positions, RunCall(i)
      PROVE  LimitInv'
  <2>1. phase = "run" /\ phase' = "run" /\ UNCHANGED <<batch, passed, last>>
    BY <1>7 DEF RunCall, RunRead, RunWrite, RunRule, RunBash, RunRecord, RunThink,
                Running, countVars
  <2> QED
    BY <2>1 DEF LimitInv, Projects
<1> QED
  BY <1>1, <1>2, <1>3, <1>4, <1>5, <1>6, <1>7, LimitPropose, LimitJudge,
     LimitBook DEF Next

(* A call that fails is not tried more often in a row than the limit says, *)
(* over any number of responses and whatever each of them repeats.         *)
THEOREM FailureLimitSafety == Spec => []FailuresAreBounded
<1>1. Init => BaseInv /\ LimitInv
  BY InitBase, LimitInit
<1>2. BaseInv /\ LimitInv /\ [Next]_vars => (BaseInv /\ LimitInv)'
  BY BaseStep, LimitStep
<1>3. BaseInv /\ LimitInv => FailuresAreBounded
  BY DEF LimitInv, FailuresAreBounded
<1> QED
  BY <1>1, <1>2, <1>3, PTL DEF Spec
=============================================================================
