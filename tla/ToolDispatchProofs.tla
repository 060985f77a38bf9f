-------------------------- MODULE ToolDispatchProofs --------------------------
(***************************************************************************)
(* Proofs about ToolDispatch, for any number of call ids, actions, steps,  *)
(* any window and any lag of the summary.                                  *)
(***************************************************************************)
EXTENDS ToolDispatch, TLAPS

(* The inductive invariant, in the parts the proofs below need.            *)

(* A step is worked on only within the bound of the loop. *)
CursorInBound == phase \in {"announced", "tools", "collected"} => run.next <= MaxStep

(* Ids that were executed are on disk, and those of the batch are new.     *)
IdsInv ==
    /\ run.announced = saved.announced
    /\ executed \subseteq saved.announced
    /\ phase = "down" => run = saved
    /\ phase = "announced" => /\ Ids(batch) \cap executed = {}
                              /\ Ids(batch) \subseteq saved.announced
                              /\ batch # {} => saved = run

Covers(record, s) == record.gap # NoGap /\ record.gap <= s

(* What is lost is behind the gap of the record on disk, and of the one in *)
(* memory but for the calls that are running.                              *)
LossInv ==
    /\ \A p \in history : p[1] \in executed
    /\ LostGroupsAreCovered
    /\ \A p \in Lost : \/ Covers(run, p[2])
                       \/ phase = "tools" /\ p[1] \in Ids(batch)
    /\ phase = "tools" => \A p \in history : p[1] \in Ids(batch) => p[2] = run.next

SummaryIsBehind(record) ==
    record.through < record.next /\ (record.gap # NoGap => record.through < record.gap)

CoverInv == "asked" \notin goneBack => SummaryIsBehind(run) /\ SummaryIsBehind(saved)

(* The last execution of an action is remembered or out of the window.     *)
Remembers(record, last) ==
    \A a \in Guarded :
        /\ record.seen[a] <= record.next
        /\ last[a] # 0 => record.seen[a] >= last[a] \/ last[a] + Window < record.next

SeenInv ==
    goneBack = {}
        => /\ Remembers(run, done) /\ Remembers(saved, done)
           /\ phase = "tools" => \A call \in batch : call.action \in Guarded =>
                  saved.seen[call.action] = run.next /\ saved.next = run.next

BaseInv == TypeOK /\ CursorInBound /\ IdsInv
DispatchInv == BaseInv /\ LossInv /\ CoverInv /\ SeenInv

-----------------------------------------------------------------------------
(* Facts about the helpers.                                                *)

(* procedural_source never covers more than what lies before its start or  *)
(* up to its end.                                                          *)
LEMMA SourceBound ==
    ASSUME NEW start \in Nat \ {0}, NEW end \in Nat, NEW whole, NEW steps,
           NEW t \in SourceThrough(start, end, whole, steps)
    PROVE  t \in Nat /\ (t <= start - 1 \/ t <= end)
  BY DEF SourceThrough

(* Stamping and filtering keep fingerprints in their type.                 *)
LEMMA SeenTypes ==
    ASSUME NEW seen \in [Guarded -> 0 .. MaxStep], NEW s \in 1 .. MaxStep, NEW calls
    PROVE  /\ Stamp(seen, calls, s) \in [Guarded -> 0 .. MaxStep]
           /\ InWindow(seen, s) \in [Guarded -> 0 .. MaxStep]
  BY MaxStepAssumption DEF Stamp, InWindow, Never

(* The record that is saved before the calls run is a record.              *)
LEMMA ReservedType ==
    ASSUME NEW record \in Records, record.next <= MaxStep, NEW calls
    PROVE  Reserved(record, calls) \in Records
<1>1. Stamp(record.seen, calls, record.next) \in [Guarded -> 0 .. MaxStep]
  BY SeenTypes DEF Records
<1>2. Earliest(record.gap, record.next) \in 0 .. MaxStep
  BY MaxStepAssumption DEF Records, Earliest, Least, NoGap
<1> QED
  BY <1>1, <1>2 DEF Reserved, Records

(* The last step a rollover may summarise lies before its step and its gap.*)
LEMMA CeilingBound ==
    ASSUME TypeOK, NEW s \in 0 .. MaxStep
    PROVE  /\ Ceiling(s) \in 0 .. MaxStep
           /\ Ceiling(s) < s \/ Ceiling(s) = 0
           /\ run.gap # NoGap => Ceiling(s) < run.gap
  BY MaxStepAssumption, LagAssumption DEF TypeOK, Records, Ceiling, Least, NoGap

(* What a rollover leaves in the summary.                                  *)
LEMMA RolloverBound ==
    ASSUME TypeOK, NEW s \in 0 .. MaxStep,
           NEW t \in SourceThrough(run.through + 1, Ceiling(s), file = "whole", groups)
    PROVE  t \in 0 .. MaxStep /\ (t <= run.through \/ t <= Ceiling(s))
<1>1. run.through \in 0 .. MaxStep /\ groups \in SUBSET Nat
  BY MaxStepAssumption DEF TypeOK, Records, Steps
<1>2. Ceiling(s) \in 0 .. MaxStep
  BY CeilingBound
<1>3. t \in Nat /\ (t <= (run.through + 1) - 1 \/ t <= Ceiling(s))
  BY <1>1, <1>2, SourceBound, MaxStepAssumption
<1> QED
  BY <1>1, <1>2, <1>3, MaxStepAssumption

(* What the rebuilt record of a resumed run covers, and where it goes on.  *)
LEMMA RebuiltBound ==
    ASSUME TypeOK, NEW last \in 0 .. MaxStep, IsLastTrusted(last),
           NEW t \in RebuiltThrough(last)
    PROVE  /\ t \in 0 .. MaxStep
           /\ t <= saved.through \/ t <= last
           /\ saved.gap # NoGap => last < saved.gap
           /\ Rebuilt(last, t) \in Records
<1>1. saved \in Records /\ saved.gap \in 0 .. MaxStep /\ saved.next \in 1 .. MaxStep + 1
      /\ saved.through \in 0 .. MaxStep /\ groups \in SUBSET Nat
  BY MaxStepAssumption DEF TypeOK, Records, Steps
<1>2. saved.gap # NoGap => last < saved.gap
  BY <1>1 DEF IsLastTrusted, TrustedSteps, NoGap
<1>3. t \in 0 .. MaxStep /\ (t <= saved.through \/ t <= last)
  <2>1. CASE last = 0
    BY <2>1, <1>1 DEF RebuiltThrough
  <2>2. CASE last # 0
    <3>1. PICK u \in SourceThrough(1, last, file = "whole", groups) :
              t = Greatest(u, saved.through)
      BY <2>2 DEF RebuiltThrough
    <3>2. u \in Nat /\ u <= last
      BY <1>1, SourceBound, MaxStepAssumption
    <3> QED
      BY <3>1, <3>2, <1>1, MaxStepAssumption DEF Greatest
  <2> QED
    BY <2>1, <2>2
<1>4. Rebuilt(last, t) \in Records
  <2> DEFINE past == Greatest(saved.next, last + 1)
             next == IF saved.gap = NoGap THEN past ELSE Least(past, saved.gap)
  <2>1. past \in 1 .. MaxStep + 1
    BY <1>1, MaxStepAssumption DEF Greatest
  <2>2. next \in 1 .. MaxStep + 1
    BY <1>1, <2>1, MaxStepAssumption DEF Least, NoGap
  <2>3. Rebuilt(last, t) = [saved EXCEPT !.next = next, !.through = t]
    BY DEF Rebuilt
  <2> QED
    BY <1>1, <1>3, <2>2, <2>3 DEF Records
<1> QED
  BY <1>2, <1>3, <1>4

-----------------------------------------------------------------------------
(* Types.                                                                  *)

LEMMA TypeStep ==
    ASSUME TypeOK, CursorInBound, [Next]_vars
    PROVE  TypeOK' /\ CursorInBound'
<1> USE MaxStepAssumption
<1>a. /\ run \in Records /\ saved \in Records
      /\ run.next \in 1 .. MaxStep + 1 /\ run.seen \in [Guarded -> 0 .. MaxStep]
      /\ run.gap \in 0 .. MaxStep /\ saved.next \in 1 .. MaxStep + 1
      /\ saved.seen \in [Guarded -> 0 .. MaxStep] /\ saved.gap \in 0 .. MaxStep
  BY DEF TypeOK, Records
<1>1. ASSUME NEW calls \in SUBSET Calls, NEW accepted \in SUBSET calls,
             Announce(calls, accepted)
      PROVE  TypeOK' /\ CursorInBound'
  <2>1. Ids(calls) \subseteq CallIds
    BY DEF Ids, Calls
  <2>2. run' \in Records /\ saved' \in Records
    BY <1>1, <1>a, <2>1 DEF Announce, Records
  <2> QED
    BY <1>1, <2>2 DEF Announce, TypeOK, CursorInBound, trajectoryVars, historyVars
<1>2. ASSUME NEW calls \in SUBSET batch, Dispatch(calls)
      PROVE  TypeOK' /\ CursorInBound'
  <2>1. run.next \in 1 .. MaxStep
    BY <1>2, <1>a DEF Dispatch, CursorInBound
  <2>2. run' \in Records /\ run'.next = run.next
    BY <1>2, <1>a, <2>1, SeenTypes DEF Dispatch, Records
  <2>3. saved' \in Records
    <3>1. Reserved(run', calls) \in Records
      BY <2>1, <2>2, ReservedType
    <3> QED
      BY <1>2, <1>a, <3>1 DEF Dispatch
  <2>4. executed' \subseteq CallIds /\ history' \subseteq CallIds \X Steps
    BY <1>2, <2>1 DEF Dispatch, TypeOK, Ids, At, Calls, Steps
  <2> QED
    BY <1>2, <2>1, <2>2, <2>3, <2>4 DEF Dispatch, TypeOK, CursorInBound, trajectoryVars
<1>3. ASSUME NEW good \in SUBSET batch, Collect(good)
      PROVE  TypeOK' /\ CursorInBound'
  <2>1. run.next \in 1 .. MaxStep
    BY <1>3, <1>a DEF Collect, CursorInBound
  <2>2. Stamp(run.seen, good, run.next) \in [Guarded -> 0 .. MaxStep]
        /\ Stamp(done, good, run.next) \in [Guarded -> 0 .. MaxStep]
    BY <1>a, <2>1, SeenTypes DEF TypeOK
  <2>3. Earliest(run.gap, run.next) \in 0 .. MaxStep
    BY <1>a, <2>1 DEF Earliest, Least, NoGap
  <2>4. run' \in Records /\ run'.next = run.next /\ done' \in [Guarded -> 0 .. MaxStep]
    BY <1>3, <1>a, <2>2, <2>3 DEF Collect, CollectResults, Records
  <2>5. At(batch, run.next) \subseteq CallIds \X Steps
    BY <2>1 DEF TypeOK, At, Calls, Steps
  <2>6. file' \in {"missing", "whole", "torn"} /\ groups' \subseteq Steps
        /\ logged' \subseteq CallIds \X Steps
    BY <1>3, <2>1, <2>5 DEF Collect, Appended, NotAppended, TypeOK, Steps
  <2> QED
    BY <1>3, <2>1, <2>4, <2>6 DEF Collect, TypeOK, CursorInBound
<1>4. CASE Commit
  <2>1. run' \in Records
    BY <1>4, <1>a DEF Commit, CursorInBound, Records
  <2> QED
    BY <1>4, <2>1 DEF Commit, TypeOK, CursorInBound, trajectoryVars, historyVars
<1>5. CASE TextStep
  <2>1. run' \in Records
    BY <1>5, <1>a DEF TextStep, Records
  <2> QED
    BY <1>5, <2>1 DEF TextStep, TypeOK, CursorInBound, trajectoryVars, historyVars
<1>6. CASE Snapshot
  BY <1>6 DEF Snapshot, TypeOK, CursorInBound, trajectoryVars, historyVars
<1>7. ASSUME NEW s \in 0 .. MaxStep, Rollover(s)
      PROVE  TypeOK' /\ CursorInBound'
  <2>1. run' \in Records
    BY <1>7, <1>a, RolloverBound DEF Rollover, Records
  <2> QED
    BY <1>7, <2>1 DEF Rollover, TypeOK, CursorInBound, trajectoryVars, historyVars
<1>8. CASE End
  <2>1. done' \in [Guarded -> 0 .. MaxStep]
    BY <1>8, <1>a, SeenTypes DEF End, TypeOK, CursorInBound
  <2> QED
    BY <1>8, <2>1 DEF End, TypeOK, CursorInBound, trajectoryVars
<1>9. CASE Restart
  <2>1. saved' \in Records
    BY <1>9, <1>a, RebuiltBound DEF Restart
  <2> QED
    BY <1>9, <2>1 DEF Restart, TypeOK, CursorInBound, trajectoryVars
<1>10. ASSUME NEW n \in Steps, Rewind(n)
       PROVE  TypeOK' /\ CursorInBound'
  <2>1. groups' \subseteq Steps /\ logged' \subseteq CallIds \X Steps
        /\ history' \subseteq CallIds \X Steps
    BY <1>10 DEF Rewind, CutTrajectory, TypeOK, Before
  <2>2. PICK t \in SourceThrough(1, n, TRUE, groups') \cup ({saved.through} \cap {0}) :
            saved' = RewoundTo(n, t)
    BY <1>10 DEF Rewind
  <2>3. t \in 0 .. MaxStep
    <3>1. CASE t \in SourceThrough(1, n, TRUE, groups')
      <4>1. n \in Nat /\ n <= MaxStep
        BY DEF Steps
      <4>2. t \in Nat /\ (t <= 1 - 1 \/ t <= n)
        BY <3>1, <4>1 DEF SourceThrough
      <4> QED
        BY <4>1, <4>2
    <3>2. CASE t \in {saved.through} \cap {0}
      BY <3>2
    <3> QED
      BY <3>1, <3>2
  <2>4. [a \in Guarded |-> IF saved.seen[a] <= n THEN saved.seen[a] ELSE Never]
            \in [Guarded -> 0 .. MaxStep]
    BY <1>a DEF Never
  <2>5. n + 1 \in 1 .. MaxStep + 1
        /\ (IF saved.gap <= n THEN saved.gap ELSE NoGap) \in 0 .. MaxStep
    BY <1>a DEF Steps, NoGap
  <2>6. saved' \in Records
    BY <2>2, <2>3, <2>4, <2>5, <1>a DEF RewoundTo, Records
  <2> QED
    BY <1>10, <2>1, <2>6 DEF Rewind, CutTrajectory, TypeOK, CursorInBound
<1>11. ASSUME NEW n \in Steps, RewindHalf(n)
       PROVE  TypeOK' /\ CursorInBound'
  BY <1>11 DEF RewindHalf, CutTrajectory, TypeOK, CursorInBound, Before
<1>12. CASE UNCHANGED vars
  BY <1>12 DEF vars, loopVars, trajectoryVars, historyVars, TypeOK, CursorInBound
<1> QED
  BY <1>1, <1>2, <1>3, <1>4, <1>5, <1>6, <1>7, <1>8, <1>9, <1>10, <1>11, <1>12 DEF Next

(* Every part of the loop's state keeps its type: the cursor stays within  *)
(* the loop's bound, the gap and the summary within the steps.             *)
THEOREM DispatchTypeCorrect == Spec => [](TypeOK /\ CursorInBound)
<1>1. Init => TypeOK /\ CursorInBound
  BY MaxStepAssumption DEF Init, TypeOK, CursorInBound, FirstRecord, Records, NoGap, Never
<1>2. TypeOK /\ CursorInBound /\ [Next]_vars => (TypeOK /\ CursorInBound)'
  BY TypeStep
<1> QED
  BY <1>1, <1>2, PTL DEF Spec

-----------------------------------------------------------------------------
(* Call ids.                                                               *)

LEMMA IdsStep ==
    ASSUME BaseInv, [Next]_vars
    PROVE  IdsInv' /\ (Dispatching => Ids(batch') \cap executed = {})
<1> USE DEF BaseInv, IdsInv, Dispatching
<1>a. run \in Records /\ saved \in Records
  BY DEF TypeOK
<1>1. ASSUME NEW calls \in SUBSET Calls, NEW accepted \in SUBSET calls,
             Announce(calls, accepted)
      PROVE  IdsInv' /\ (Dispatching => Ids(batch') \cap executed = {})
  <2>1. phase = "model" /\ phase' = "announced" /\ batch' = accepted /\ executed' = executed
    BY <1>1 DEF Announce, historyVars
  <2>2. run'.announced = run.announced \cup Ids(calls) /\ run' \in Records
    <3>1. Ids(calls) \subseteq CallIds
      BY DEF Ids, Calls
    <3> QED
      BY <1>1, <1>a, <3>1 DEF Announce, Records
  <2>3. saved'.announced = run'.announced
    BY <1>1, <2>2 DEF Announce
  <2>4. Ids(accepted) \subseteq Ids(calls) /\ Ids(accepted) \cap run.announced = {}
    BY <1>1 DEF Announce, Accepted, Ids
  <2>5. accepted # {} => saved' = run'
    <3> SUFFICES ASSUME accepted # {} PROVE saved' = run'
      OBVIOUS
    <3>1. PICK call \in accepted : TRUE
      OBVIOUS
    <3>2. call.id \in Ids(accepted)
      BY DEF Ids
    <3>3. call.id \in run'.announced /\ call.id \notin run.announced
      BY <2>2, <2>4, <3>2
    <3>4. run' # run
      BY <3>3
    <3> QED
      BY <1>1, <3>4 DEF Announce
  <2> QED
    BY <2>1, <2>2, <2>3, <2>4, <2>5
<1>2. ASSUME NEW calls \in SUBSET batch, Dispatch(calls)
      PROVE  IdsInv' /\ (Dispatching => Ids(batch') \cap executed = {})
  <2>1. Ids(calls) \subseteq Ids(batch)
    BY DEF Ids
  <2>2. run'.announced = run.announced
    BY <1>2, <1>a DEF Dispatch, Records
  <2>3. saved'.announced = saved.announced
    <3>1. Reserved(run', calls).announced = run'.announced
      <4>1. run' = [run EXCEPT !.seen = InWindow(run.seen, run.next)]
        BY <1>2 DEF Dispatch
      <4> QED
        BY <4>1, <1>a DEF Reserved, Records
    <3> QED
      BY <1>2, <2>2, <3>1 DEF Dispatch
  <2> QED
    BY <1>2, <2>1, <2>2, <2>3 DEF Dispatch
<1>3. ASSUME NEW good \in SUBSET batch, Collect(good)
      PROVE  IdsInv' /\ (Dispatching => Ids(batch') \cap executed = {})
  BY <1>3, <1>a DEF Collect, CollectResults, Records
<1>4. CASE Commit
  BY <1>4, <1>a DEF Commit, historyVars, Records
<1>5. CASE TextStep
  BY <1>5, <1>a DEF TextStep, historyVars, Records
<1>6. CASE Snapshot
  BY <1>6 DEF Snapshot, historyVars
<1>7. ASSUME NEW s \in 0 .. MaxStep, Rollover(s)
      PROVE  IdsInv' /\ (Dispatching => Ids(batch') \cap executed = {})
  BY <1>7, <1>a DEF Rollover, historyVars, Records
<1>8. CASE End
  BY <1>8 DEF End
<1>9. CASE Restart
  <2>1. saved'.announced = saved.announced
    BY <1>9, <1>a DEF Restart, Rebuilt, Records
  <2> QED
    BY <1>9, <2>1 DEF Restart
<1>10. ASSUME NEW n \in Steps, Rewind(n)
       PROVE  IdsInv' /\ (Dispatching => Ids(batch') \cap executed = {})
  <2>1. saved'.announced = saved.announced
    BY <1>10, <1>a DEF Rewind, RewoundTo, Records
  <2> QED
    BY <1>10, <2>1 DEF Rewind, CutTrajectory
<1>11. ASSUME NEW n \in Steps, RewindHalf(n)
       PROVE  IdsInv' /\ (Dispatching => Ids(batch') \cap executed = {})
  BY <1>11 DEF RewindHalf, CutTrajectory
<1>12. CASE UNCHANGED vars
  BY <1>12 DEF vars, loopVars, historyVars
<1> QED
  BY <1>1, <1>2, <1>3, <1>4, <1>5, <1>6, <1>7, <1>8, <1>9, <1>10, <1>11, <1>12 DEF Next

LEMMA BaseCorrect == Spec => []BaseInv
<1>1. Init => BaseInv
  BY MaxStepAssumption
     DEF Init, BaseInv, TypeOK, CursorInBound, IdsInv, FirstRecord, Records, NoGap, Never
<1>2. BaseInv /\ [Next]_vars => BaseInv'
  BY TypeStep, IdsStep DEF BaseInv
<1> QED
  BY <1>1, <1>2, PTL DEF Spec

(* A call id is handed to a tool at most once: an id is on disk as         *)
(* announced before its call runs, and an announced id is never accepted   *)
(* again, by this process or by a later one.                               *)
THEOREM CallsRunOnce == Spec => RunsOnce
<1>1. BaseInv /\ [Next]_vars => [Dispatching => Ids(batch') \cap executed = {}]_vars
  BY IdsStep
<1> QED
  BY <1>1, BaseCorrect, PTL DEF Spec, RunsOnce

-----------------------------------------------------------------------------
(* Reservations, gaps and summaries.                                       *)

LEMMA EarliestCovers ==
    ASSUME NEW gap \in Nat, NEW s \in Nat \ {0}
    PROVE  /\ Earliest(gap, s) \in {gap, s} \ {NoGap}
           /\ Earliest(gap, s) <= s
           /\ gap # NoGap => Earliest(gap, s) <= gap
  BY DEF Earliest, Least, NoGap

LEMMA AtFacts ==
    ASSUME NEW calls, NEW s, NEW p \in At(calls, s)
    PROVE  p[1] \in Ids(calls) /\ p[2] = s
  BY DEF At, Ids

LEMMA AtMembers ==
    ASSUME NEW calls, NEW s, NEW p \in CallIds \X Steps, p[1] \in Ids(calls), p[2] = s
    PROVE  p \in At(calls, s)
<1>1. PICK call \in calls : p[1] = call.id
  BY DEF Ids
<1>2. p = <<p[1], p[2]>>
  OBVIOUS
<1> QED
  BY <1>1, <1>2 DEF At

(* The record that is on disk while the calls run.                         *)
LEMMA DispatchReserves ==
    ASSUME BaseInv, NEW calls \in SUBSET batch, Dispatch(calls)
    PROVE  /\ run' = [run EXCEPT !.seen = InWindow(run.seen, run.next)] /\ run' \in Records
           /\ run.next \in 1 .. MaxStep /\ run'.next = run.next
           /\ run'.gap = run.gap /\ run'.through = run.through
           /\ calls = {} => saved' = saved
           /\ calls # {} => /\ saved = run
                            /\ saved' \in {saved, Reserved(run', calls)}
                            /\ saved'.next = run.next
                            /\ saved'.through = run.through
                            /\ saved'.gap = Earliest(run.gap, run.next)
<1> USE DEF BaseInv
<1>1. run \in Records /\ run.next \in 1 .. MaxStep
  BY MaxStepAssumption DEF TypeOK, CursorInBound, Dispatch, Records
<1>2. run' = [run EXCEPT !.seen = InWindow(run.seen, run.next)]
  BY DEF Dispatch
<1>3. run' \in Records
  BY <1>1, <1>2, SeenTypes DEF Records
<1>4. run'.next = run.next /\ run'.gap = run.gap /\ run'.through = run.through
  BY <1>1, <1>2 DEF Records
<1>5. calls = {} => saved' = saved
  BY DEF Dispatch, Reserved
<1>6. ASSUME calls # {}
      PROVE  /\ saved = run /\ saved' \in {saved, Reserved(run', calls)}
             /\ saved'.next = run.next /\ saved'.through = run.through
             /\ saved'.gap = Earliest(run.gap, run.next)
  <2>1. saved = run
    BY <1>6 DEF IdsInv, Dispatch
  <2>2. Reserved(run', calls) = [run' EXCEPT !.seen = Stamp(run'.seen, calls, run'.next),
                                             !.gap = Earliest(run'.gap, run'.next)]
    BY <1>6 DEF Reserved
  <2>3. /\ Reserved(run', calls).next = run.next
        /\ Reserved(run', calls).through = run.through
        /\ Reserved(run', calls).gap = Earliest(run.gap, run.next)
    BY <2>2, <1>3, <1>4 DEF Records
  <2>4. CASE Reserved(run', calls) = run'
    BY <2>1, <2>3, <2>4, <1>4 DEF Dispatch
  <2>5. CASE Reserved(run', calls) # run'
    BY <2>1, <2>3, <2>5 DEF Dispatch
  <2> QED
    BY <2>1, <2>4, <2>5
<1> QED
  BY <1>1, <1>2, <1>3, <1>4, <1>5, <1>6

LEMMA LossStep ==
    ASSUME BaseInv, BaseInv', LossInv, [Next]_vars
    PROVE  LossInv'
<1>a. /\ run \in Records /\ saved \in Records /\ run.gap \in Nat /\ saved.gap \in Nat
      /\ run.next \in Nat \ {0} /\ history \subseteq CallIds \X Steps
      /\ executed \subseteq saved.announced
  BY MaxStepAssumption DEF BaseInv, TypeOK, Records, IdsInv
<1> USE DEF LossInv, LostGroupsAreCovered, Lost, Covers
<1>1. ASSUME NEW calls \in SUBSET Calls, NEW accepted \in SUBSET calls,
             Announce(calls, accepted)
      PROVE  LossInv'
  <2>1. run'.gap = run.gap /\ phase = "model" /\ phase' = "announced"
    BY <1>1, <1>a DEF Announce, Records
  <2>2. saved' \in {saved, run'}
    BY <1>1 DEF Announce
  <2> QED
    BY <1>1, <2>1, <2>2 DEF Announce, trajectoryVars, historyVars
<1>2. ASSUME NEW calls \in SUBSET batch, Dispatch(calls)
      PROVE  LossInv'
  <2>1. /\ run'.gap = run.gap
        /\ calls = {} => saved' = saved
        /\ calls # {} => saved'.gap = Earliest(run.gap, run.next)
    BY <1>2, DispatchReserves
  <2>2. /\ phase = "announced" /\ phase' = "tools" /\ batch' = calls /\ logged' = logged
        /\ executed' = executed \cup Ids(calls)
        /\ history' = history \cup At(calls, run.next)
    BY <1>2 DEF Dispatch, trajectoryVars
  <2>3. run'.next = run.next
    BY <1>2, DispatchReserves
  <2>4. \A p \in history : p[1] \notin Ids(calls)
    <3>1. Ids(calls) \subseteq Ids(batch) /\ Ids(batch) \cap executed = {}
      BY <2>2 DEF Ids, BaseInv, IdsInv
    <3> QED
      BY <3>1
  <2>5. \A p \in At(calls, run.next) : p[1] \in Ids(calls) /\ p[2] = run.next /\ calls # {}
    BY AtFacts DEF At
  <2>6. \A p \in history' : p[1] \in executed'
    BY <2>2, <2>5
  <2>7. \A p \in Lost' : saved'.gap # NoGap /\ saved'.gap <= p[2]
    <3> SUFFICES ASSUME NEW p \in Lost' PROVE saved'.gap # NoGap /\ saved'.gap <= p[2]
      OBVIOUS
    <3>1. CASE p \in At(calls, run.next)
      BY <3>1, <2>1, <2>5, <1>a, EarliestCovers
    <3>2. CASE p \in Lost
      <4>1. run.gap # NoGap /\ run.gap <= p[2] /\ saved.gap # NoGap /\ saved.gap <= p[2]
        BY <3>2, <2>2
      <4>2. p[2] \in Nat
        BY <3>2, <1>a DEF Steps
      <4> QED
        BY <4>1, <4>2, <2>1, <1>a, EarliestCovers
    <3> QED
      BY <3>1, <3>2, <2>2
  <2>8. \A p \in Lost' : Covers(run', p[2]) \/ p[1] \in Ids(batch')
    BY <2>1, <2>2, <2>5
  <2>9. \A p \in history' : p[1] \in Ids(batch') => p[2] = run'.next
    BY <2>2, <2>3, <2>4, <2>5
  <2> QED
    BY <2>2, <2>6, <2>7, <2>8, <2>9
<1>3. ASSUME NEW good \in SUBSET batch, Collect(good)
      PROVE  LossInv'
  <2>1. /\ phase = "tools" /\ phase' = "collected" /\ batch' = batch /\ saved' = saved
        /\ executed' = executed /\ history' = history /\ logged \subseteq logged'
    BY <1>3 DEF Collect, Appended, NotAppended
  <2>2. \A p \in Lost' : p \in Lost
    BY <2>1
  <2>3. \A p \in Lost' : Covers(run', p[2])
    <3> SUFFICES ASSUME NEW p \in Lost' PROVE Covers(run', p[2])
      OBVIOUS
    <3>1. p \in history /\ p \notin logged' /\ p \in CallIds \X Steps /\ p[2] \in Nat
      BY <2>1, <1>a DEF Steps
    <3>2. CASE Appended /\ CollectResults(good, run.gap)
      <4>1. p[1] \notin Ids(batch)
        <5> SUFFICES ASSUME p[1] \in Ids(batch) PROVE FALSE
          OBVIOUS
        <5>1. p[2] = run.next
          BY <2>1, <3>1
        <5> QED
          BY <3>1, <3>2, <5>1, AtMembers DEF Appended
      <4>2. run'.gap = run.gap
        BY <3>2, <1>a DEF CollectResults, Records
      <4> QED
        BY <2>2, <4>1, <4>2
    <3>3. CASE CollectResults(good, Earliest(run.gap, run.next))
      <4>1. run'.gap = Earliest(run.gap, run.next)
        BY <3>3, <1>a DEF CollectResults, Records
      <4>2. Covers(run, p[2]) \/ p[2] = run.next
        BY <2>1, <2>2, <3>1
      <4> QED
        BY <3>1, <4>1, <4>2, <1>a, EarliestCovers
    <3> QED
      BY <1>3, <3>2, <3>3 DEF Collect
  <2> QED
    BY <2>1, <2>2, <2>3
<1>4. CASE Commit
  <2>1. run'.gap = run.gap
    BY <1>4, <1>a DEF Commit, Records
  <2> QED
    BY <1>4, <2>1 DEF Commit, trajectoryVars, historyVars
<1>5. CASE TextStep
  <2>1. run'.gap = run.gap
    BY <1>5, <1>a DEF TextStep, Records
  <2> QED
    BY <1>5, <2>1 DEF TextStep, trajectoryVars, historyVars
<1>6. CASE Snapshot
  BY <1>6 DEF Snapshot, trajectoryVars, historyVars
<1>7. ASSUME NEW s \in 0 .. MaxStep, Rollover(s)
      PROVE  LossInv'
  <2>1. run'.gap = run.gap
    BY <1>7, <1>a DEF Rollover, Records
  <2> QED
    BY <1>7, <2>1 DEF Rollover, trajectoryVars, historyVars
<1>8. CASE End
  BY <1>8 DEF End, trajectoryVars
<1>9. CASE Restart
  <2>1. saved'.gap = saved.gap
    BY <1>9, <1>a DEF Restart, Rebuilt, Records
  <2> QED
    BY <1>9, <2>1 DEF Restart, trajectoryVars
<1>10. ASSUME NEW n \in Steps, Rewind(n)
       PROVE  LossInv'
  <2>1. saved'.gap = IF saved.gap <= n THEN saved.gap ELSE NoGap
    BY <1>10, <1>a DEF Rewind, RewoundTo, Records
  <2>2. \A p \in Lost' : p \in Lost /\ p[2] <= n /\ p[2] \in Nat
    BY <1>10, <1>a DEF Rewind, CutTrajectory, Before, Steps
  <2>3. n \in Nat
    BY DEF Steps
  <2>4. \A p \in Lost' : Covers(saved', p[2])
    BY <2>1, <2>2, <2>3, <1>a
  <2> QED
    BY <1>10, <2>2, <2>4 DEF Rewind, CutTrajectory, Before
<1>11. ASSUME NEW n \in Steps, RewindHalf(n)
       PROVE  LossInv'
  BY <1>11 DEF RewindHalf, CutTrajectory, Before
<1>12. CASE UNCHANGED vars
  BY <1>12 DEF vars, loopVars, trajectoryVars, historyVars
<1> QED
  BY <1>1, <1>2, <1>3, <1>4, <1>5, <1>6, <1>7, <1>8, <1>9, <1>10, <1>11, <1>12 DEF Next

LEMMA CoverStep ==
    ASSUME BaseInv, BaseInv', LossInv, CoverInv, [Next]_vars
    PROVE  CoverInv'
<1> SUFFICES ASSUME "asked" \notin goneBack'
             PROVE  SummaryIsBehind(run') /\ SummaryIsBehind(saved')
  BY DEF CoverInv, SummaryIsBehind
<1>a. /\ run \in Records /\ saved \in Records
      /\ run.gap \in Nat /\ run.next \in Nat \ {0} /\ run.through \in Nat
      /\ saved.gap \in Nat /\ saved.next \in Nat \ {0} /\ saved.through \in Nat
  BY MaxStepAssumption DEF BaseInv, TypeOK, Records
<1>b. "asked" \notin goneBack
  BY DEF Next, Announce, Dispatch, Collect, Commit, TextStep, Snapshot, Rollover, End,
         Restart, Rewind, RewindHalf, vars, historyVars
<1>c. SummaryIsBehind(run) /\ SummaryIsBehind(saved)
  BY <1>b DEF CoverInv
<1> USE DEF SummaryIsBehind
<1>1. ASSUME NEW calls \in SUBSET Calls, NEW accepted \in SUBSET calls,
             Announce(calls, accepted)
      PROVE  SummaryIsBehind(run') /\ SummaryIsBehind(saved')
  <2>1. run'.gap = run.gap /\ run'.next = run.next /\ run'.through = run.through
    BY <1>1, <1>a DEF Announce, Records
  <2> QED
    BY <1>1, <1>c, <2>1 DEF Announce
<1>2. ASSUME NEW calls \in SUBSET batch, Dispatch(calls)
      PROVE  SummaryIsBehind(run') /\ SummaryIsBehind(saved')
  <2>1. SummaryIsBehind(run')
    BY <1>2, <1>c, DispatchReserves
  <2>2. CASE calls = {}
    BY <1>2, <1>c, <2>2, DispatchReserves
  <2>3. CASE calls # {}
    <3>1. saved'.next = run.next /\ saved'.through = run.through
          /\ saved'.gap = Earliest(run.gap, run.next)
      BY <1>2, <2>3, DispatchReserves
    <3> QED
      BY <2>1, <1>a, <1>c, <3>1, EarliestCovers
  <2> QED
    BY <2>1, <2>2, <2>3
<1>3. ASSUME NEW good \in SUBSET batch, Collect(good)
      PROVE  SummaryIsBehind(run') /\ SummaryIsBehind(saved')
  <2>1. PICK gap \in {run.gap, Earliest(run.gap, run.next)} : CollectResults(good, gap)
    BY <1>3 DEF Collect
  <2>2. run'.gap = gap /\ run'.next = run.next /\ run'.through = run.through
    BY <2>1, <1>a DEF CollectResults, Records
  <2>3. Earliest(run.gap, run.next) \in {run.gap, run.next}
    BY <1>a, EarliestCovers
  <2> QED
    BY <1>3, <1>c, <2>2, <2>3 DEF Collect
<1>4. CASE Commit
  <2>1. run'.gap = run.gap /\ run'.next = run.next + 1 /\ run'.through = run.through
    BY <1>4, <1>a DEF Commit, Records
  <2> QED
    BY <1>4, <1>a, <1>c, <2>1 DEF Commit
<1>5. CASE TextStep
  <2>1. run'.gap = run.gap /\ run'.next = run.next + 1 /\ run'.through = run.through
    BY <1>5, <1>a DEF TextStep, Records
  <2> QED
    BY <1>5, <1>a, <1>c, <2>1 DEF TextStep
<1>6. CASE Snapshot
  BY <1>6, <1>c DEF Snapshot
<1>7. ASSUME NEW s \in 0 .. MaxStep, Rollover(s)
      PROVE  SummaryIsBehind(run') /\ SummaryIsBehind(saved')
  <2>1. PICK t \in SourceThrough(run.through + 1, Ceiling(s), file = "whole", groups) :
            run' = [run EXCEPT !.through = t]
    BY <1>7 DEF Rollover
  <2>2. run'.gap = run.gap /\ run'.next = run.next /\ run'.through = t
    BY <2>1, <1>a DEF Records
  <2>3. t \in Nat /\ (t <= run.through \/ t <= Ceiling(s))
    BY RolloverBound, MaxStepAssumption DEF BaseInv
  <2>4. /\ Ceiling(s) \in Nat
        /\ Ceiling(s) < s \/ Ceiling(s) = 0
        /\ run.gap # NoGap => Ceiling(s) < run.gap
    BY CeilingBound, MaxStepAssumption DEF BaseInv
  <2>5. s \in Nat /\ s <= run.next
    BY <1>7, <1>a, MaxStepAssumption DEF Rollover
  <2>6. SummaryIsBehind(run')
    BY <1>a, <1>c, <2>2, <2>3, <2>4, <2>5
  <2> QED
    BY <1>7, <1>c, <2>6 DEF Rollover
<1>8. CASE End
  BY <1>8, <1>c DEF End
<1>9. CASE Restart
  <2>1. CASE saved' = saved
    BY <1>9, <1>c, <2>1 DEF Restart
  <2>2. CASE saved' # saved
    <3>1. PICK last \in 0 .. MaxStep : /\ IsLastTrusted(last)
                                       /\ \E t \in RebuiltThrough(last) :
                                              saved' = Rebuilt(last, t)
      BY <1>9, <2>2 DEF Restart
    <3>2. PICK t \in RebuiltThrough(last) : saved' = Rebuilt(last, t)
      BY <3>1
    <3>3. /\ t \in Nat /\ last \in Nat
          /\ t <= saved.through \/ t <= last
          /\ saved.gap # NoGap => last < saved.gap
      BY <3>1, RebuiltBound, MaxStepAssumption DEF BaseInv
    <3> DEFINE past == Greatest(saved.next, last + 1)
    <3>4. past \in Nat /\ saved.next <= past /\ last + 1 <= past
      BY <1>a, <3>3 DEF Greatest
    <3>5. /\ saved'.through = t /\ saved'.gap = saved.gap
          /\ saved'.next = IF saved.gap = NoGap THEN past ELSE Least(past, saved.gap)
      BY <3>2, <1>a DEF Rebuilt, Records
    <3> HIDE DEF past
    <3>6. SummaryIsBehind(saved')
      BY <1>a, <1>c, <3>3, <3>4, <3>5 DEF Least
    <3> QED
      BY <1>9, <3>6 DEF Restart
  <2> QED
    BY <2>1, <2>2
<1>10. ASSUME NEW n \in Steps, Rewind(n)
       PROVE  FALSE
  BY <1>10 DEF Rewind
<1>11. ASSUME NEW n \in Steps, RewindHalf(n)
       PROVE  SummaryIsBehind(run') /\ SummaryIsBehind(saved')
  BY <1>11, <1>c DEF RewindHalf
<1>12. CASE UNCHANGED vars
  BY <1>12, <1>c DEF vars, loopVars
<1> QED
  BY <1>1, <1>2, <1>3, <1>4, <1>5, <1>6, <1>7, <1>8, <1>9, <1>10, <1>11, <1>12 DEF Next

-----------------------------------------------------------------------------
(* Fingerprints.                                                           *)

LEMMA RemembersLater ==
    ASSUME NEW r \in Records, NEW q \in Records, NEW last \in [Guarded -> 0 .. MaxStep],
           Remembers(r, last), q.seen = r.seen, q.next >= r.next
    PROVE  Remembers(q, last)
  BY MaxStepAssumption, WindowAssumption DEF Remembers, Records

LEMMA RemembersInWindow ==
    ASSUME NEW r \in Records, NEW q \in Records, NEW last \in [Guarded -> 0 .. MaxStep],
           Remembers(r, last), q.seen = InWindow(r.seen, r.next), q.next = r.next
    PROVE  Remembers(q, last)
<1>1. ASSUME NEW a \in Guarded
      PROVE  /\ r.seen[a] \in Nat /\ r.next \in Nat /\ last[a] \in Nat
             /\ q.seen[a] = r.seen[a] \/ (q.seen[a] = 0 /\ r.next - r.seen[a] > Window)
             /\ r.seen[a] <= r.next
             /\ last[a] # 0 => r.seen[a] >= last[a] \/ last[a] + Window < r.next
  BY MaxStepAssumption, WindowAssumption DEF Remembers, Records, InWindow, Never
<1> QED
  BY <1>1, WindowAssumption DEF Remembers

LEMMA RemembersStamped ==
    ASSUME NEW r \in Records, NEW q \in Records, NEW last \in [Guarded -> 0 .. MaxStep],
           NEW calls, Remembers(r, last), q.next = r.next,
           q.seen = Stamp(r.seen, calls, r.next)
    PROVE  Remembers(q, last) /\ Remembers(q, Stamp(last, calls, r.next))
<1>1. ASSUME NEW a \in Guarded
      PROVE  /\ r.seen[a] \in Nat /\ r.next \in Nat /\ last[a] \in Nat
             /\ \/ /\ q.seen[a] = r.seen[a]
                   /\ Stamp(last, calls, r.next)[a] = last[a]
                \/ /\ q.seen[a] = r.next
                   /\ Stamp(last, calls, r.next)[a] = r.next
             /\ r.seen[a] <= r.next
             /\ last[a] # 0 => r.seen[a] >= last[a] \/ last[a] + Window < r.next
  BY MaxStepAssumption, WindowAssumption DEF Remembers, Records, Stamp
<1> QED
  BY <1>1, WindowAssumption DEF Remembers

LEMMA RemembersReserved ==
    ASSUME NEW r \in Records, NEW last \in [Guarded -> 0 .. MaxStep], NEW calls,
           Remembers(r, last),
           \A call \in calls : call.action \in Guarded => r.seen[call.action] = r.next
    PROVE  Remembers(r, Stamp(last, calls, r.next))
<1>1. ASSUME NEW a \in Guarded
      PROVE  /\ r.seen[a] \in Nat /\ r.next \in Nat /\ last[a] \in Nat
             /\ \/ Stamp(last, calls, r.next)[a] = last[a]
                \/ (Stamp(last, calls, r.next)[a] = r.next /\ r.seen[a] = r.next)
             /\ r.seen[a] <= r.next
             /\ last[a] # 0 => r.seen[a] >= last[a] \/ last[a] + Window < r.next
  BY MaxStepAssumption, WindowAssumption DEF Remembers, Records, Stamp
<1> QED
  BY <1>1, WindowAssumption DEF Remembers

LEMMA SeenStep ==
    ASSUME BaseInv, BaseInv', SeenInv, [Next]_vars
    PROVE  SeenInv'
<1> DEFINE Reserve(calls) == \A call \in calls : call.action \in Guarded =>
                                 saved'.seen[call.action] = run'.next /\ saved'.next = run'.next
<1> SUFFICES ASSUME goneBack' = {}
             PROVE  /\ Remembers(run', done') /\ Remembers(saved', done')
                    /\ phase' = "tools" => Reserve(batch')
  BY DEF SeenInv, Remembers
<1>a. /\ run \in Records /\ saved \in Records /\ run' \in Records /\ saved' \in Records
      /\ done \in [Guarded -> 0 .. MaxStep] /\ done' \in [Guarded -> 0 .. MaxStep]
      /\ run.next \in Nat \ {0} /\ saved.next \in Nat \ {0}
      /\ run.seen \in [Guarded -> Nat]
  BY MaxStepAssumption DEF BaseInv, TypeOK, Records
<1>b. goneBack = {}
  BY DEF Next, Announce, Dispatch, Collect, Commit, TextStep, Snapshot, Rollover, End,
         Restart, Rewind, RewindHalf, vars, historyVars
<1>c. /\ Remembers(run, done) /\ Remembers(saved, done)
      /\ phase = "tools" => \A call \in batch : call.action \in Guarded =>
             saved.seen[call.action] = run.next /\ saved.next = run.next
  BY <1>b DEF SeenInv
<1> HIDE DEF Reserve
<1>1. ASSUME NEW calls \in SUBSET Calls, NEW accepted \in SUBSET calls,
             Announce(calls, accepted)
      PROVE  Remembers(run', done') /\ Remembers(saved', done') /\ phase' # "tools"
  <2>1. run'.seen = run.seen /\ run'.next = run.next /\ done' = done
    BY <1>1, <1>a DEF Announce, Records, historyVars
  <2>2. Remembers(run', done')
    BY <1>a, <1>c, <2>1, RemembersLater
  <2> QED
    BY <1>1, <1>c, <2>1, <2>2 DEF Announce
<1>2. ASSUME NEW calls \in SUBSET batch, Dispatch(calls)
      PROVE  Remembers(run', done') /\ Remembers(saved', done') /\ Reserve(batch')
  <2>1. done' = done /\ batch' = calls
    BY <1>2 DEF Dispatch
  <2>2. /\ run'.seen = InWindow(run.seen, run.next) /\ run'.next = run.next
    BY <1>2, <1>a, DispatchReserves DEF Records
  <2>3. Remembers(run', done')
    BY <1>a, <1>c, <2>1, <2>2, RemembersInWindow
  <2>4. CASE calls = {}
    BY <1>2, <1>c, <2>1, <2>3, <2>4, DispatchReserves DEF Reserve
  <2>5. CASE calls # {}
    <3>1. saved = run /\ saved' \in {saved, Reserved(run', calls)} /\ saved'.next = run.next
      BY <1>2, <2>5, DispatchReserves
    <3>2. Reserved(run', calls).seen = Stamp(run'.seen, calls, run'.next)
      BY <1>a, <2>5 DEF Reserved, Records
    <3>3. CASE saved' = Reserved(run', calls)
      <4>1. Remembers(saved', done')
        BY <1>a, <2>1, <2>2, <2>3, <3>1, <3>2, <3>3, RemembersStamped
      <4>2. Reserve(batch')
        BY <2>1, <2>2, <3>1, <3>2, <3>3 DEF Reserve, Stamp
      <4> QED
        BY <2>3, <4>1, <4>2
    <3>4. CASE saved' # Reserved(run', calls)
      <4>1. Reserved(run', calls) = run' /\ saved' = run
        BY <1>2, <3>1, <3>4 DEF Dispatch
      <4>2. \A call \in calls : call.action \in Guarded => run'.seen[call.action] = run.next
        BY <2>2, <3>2, <4>1 DEF Stamp
      <4>3. \A call \in calls : call.action \in Guarded => run.seen[call.action] = run.next
        BY <1>a, <2>2, <4>2 DEF InWindow, Never
      <4> QED
        BY <1>c, <2>1, <2>2, <2>3, <4>1, <4>3 DEF Reserve
    <3> QED
      BY <3>3, <3>4
  <2> QED
    BY <2>4, <2>5
<1>3. ASSUME NEW good \in SUBSET batch, Collect(good)
      PROVE  Remembers(run', done') /\ Remembers(saved', done') /\ phase' # "tools"
  <2>1. PICK gap : CollectResults(good, gap)
    BY <1>3 DEF Collect
  <2>2. /\ run'.seen = Stamp(run.seen, good, run.next) /\ run'.next = run.next
        /\ done' = Stamp(done, good, run.next)
    BY <2>1, <1>a DEF CollectResults, Records
  <2>3. Remembers(run', done')
    BY <1>a, <1>c, <2>2, RemembersStamped
  <2>4. saved' = saved /\ phase = "tools" /\ phase' = "collected"
    BY <1>3 DEF Collect
  <2>5. Remembers(saved', done')
    <3>1. CASE \E call \in good : call.action \in Guarded
      <4>1. saved.next = run.next
        BY <3>1, <2>4, <1>c
      <4>2. \A call \in good : call.action \in Guarded => saved.seen[call.action] = saved.next
        BY <2>4, <4>1, <1>c
      <4> QED
        BY <1>a, <1>c, <2>2, <2>4, <4>1, <4>2, RemembersReserved
    <3>2. CASE ~ \E call \in good : call.action \in Guarded
      <4>1. \A a \in Guarded : done'[a] = done[a]
        BY <3>2, <2>2 DEF Stamp
      <4> QED
        BY <1>c, <2>4, <4>1 DEF Remembers
    <3> QED
      BY <3>1, <3>2
  <2> QED
    BY <2>3, <2>4, <2>5
<1>4. CASE Commit
  <2>1. run'.seen = run.seen /\ run'.next >= run.next /\ done' = done /\ saved' = run'
    BY <1>4, <1>a DEF Commit, Records, historyVars
  <2>2. Remembers(run', done')
    BY <1>a, <1>c, <2>1, RemembersLater
  <2> QED
    BY <1>4, <2>1, <2>2 DEF Commit
<1>5. CASE TextStep
  <2>1. run'.seen = run.seen /\ run'.next >= run.next /\ done' = done
    BY <1>5, <1>a DEF TextStep, Records, historyVars
  <2>2. Remembers(run', done')
    BY <1>a, <1>c, <2>1, RemembersLater
  <2> QED
    BY <1>5, <1>c, <2>1, <2>2 DEF TextStep
<1>6. CASE Snapshot
  BY <1>6, <1>c DEF Snapshot, historyVars
<1>7. ASSUME NEW s \in 0 .. MaxStep, Rollover(s)
      PROVE  Remembers(run', done') /\ Remembers(saved', done') /\ phase' # "tools"
  <2>1. run'.seen = run.seen /\ run'.next >= run.next /\ done' = done
    BY <1>7, <1>a DEF Rollover, Records, historyVars
  <2>2. Remembers(run', done')
    BY <1>a, <1>c, <2>1, RemembersLater
  <2> QED
    BY <1>7, <1>c, <2>1, <2>2 DEF Rollover
<1>8. CASE End
  <2>1. run' = saved /\ saved' = saved /\ phase' = "down"
    BY <1>8 DEF End
  <2>2. CASE phase # "tools" \/ ~ \E call \in batch : call.action \in Guarded
    <3>1. \A a \in Guarded : done'[a] = done[a]
      BY <1>8, <2>2 DEF End, Stamp
    <3> QED
      BY <1>c, <2>1, <3>1 DEF Remembers
  <2>3. CASE phase = "tools" /\ \E call \in batch : call.action \in Guarded
    <3>1. done' = Stamp(done, batch, saved.next)
      BY <1>8, <1>c, <2>3 DEF End
    <3>2. \A call \in batch : call.action \in Guarded => saved.seen[call.action] = saved.next
      BY <1>c, <2>3
    <3> QED
      BY <1>a, <1>c, <2>1, <3>1, <3>2, RemembersReserved
  <2> QED
    BY <2>2, <2>3
<1>9. CASE Restart
  <2>1. saved'.seen = saved.seen
    BY <1>9, <1>a DEF Restart, Rebuilt, Records
  <2>2. saved'.next >= saved.next
    BY <1>9, <1>a DEF Restart, Records
  <2>3. Remembers(saved', done')
    BY <1>9, <1>a, <1>c, <2>1, <2>2, RemembersLater DEF Restart
  <2> QED
    BY <1>9, <2>3 DEF Restart
<1>10. ASSUME NEW n \in Steps, Rewind(n)
       PROVE  FALSE
  BY <1>10 DEF Rewind
<1>11. ASSUME NEW n \in Steps, RewindHalf(n)
       PROVE  Remembers(run', done') /\ Remembers(saved', done') /\ phase' # "tools"
  BY <1>11, <1>c DEF RewindHalf, CutTrajectory
<1>12. CASE UNCHANGED vars
  BY <1>12, <1>c DEF vars, loopVars, historyVars, Reserve
<1> QED
  BY <1>1, <1>2, <1>3, <1>4, <1>5, <1>6, <1>7, <1>8, <1>9, <1>10, <1>11, <1>12 DEF Next

-----------------------------------------------------------------------------
(* The inductive invariant and what follows from it.                       *)

LEMMA DispatchCorrect == Spec => []DispatchInv
<1>1. Init => BaseInv
  BY MaxStepAssumption
     DEF Init, BaseInv, TypeOK, CursorInBound, IdsInv, FirstRecord, Records, NoGap, Never
<1>2. Init => LossInv /\ CoverInv /\ SeenInv
  BY DEF Init, LossInv, CoverInv, SeenInv, LostGroupsAreCovered, Lost, SummaryIsBehind,
         Remembers, FirstRecord, NoGap, Never
<1>3. DispatchInv /\ [Next]_vars => DispatchInv'
  <2>1. BaseInv /\ [Next]_vars => BaseInv'
    BY TypeStep, IdsStep DEF BaseInv
  <2> QED
    BY <2>1, LossStep, CoverStep, SeenStep DEF DispatchInv
<1> QED
  BY <1>1, <1>2, <1>3, PTL DEF Spec, DispatchInv

(* At every instant a crash may come, every executed call that the         *)
(* trajectory does not show lies at or behind the gap of the record on     *)
(* disk: the reservation is written before the calls run.                  *)
THEOREM LossIsCovered == Spec => []LostGroupsAreCovered
  BY DispatchCorrect, PTL DEF DispatchInv, LossInv

(* No summary covers a step whose executed calls the trajectory lost,      *)
(* unless the user rewound the run.                                        *)
THEOREM SummariesAreHonest == Spec => []CoverageIsHonest
<1>1. DispatchInv => CoverageIsHonest
  <2> SUFFICES ASSUME DispatchInv, "asked" \notin goneBack, NEW p \in Lost
               PROVE  saved.through < p[2] /\ run.through < p[2]
    BY DEF CoverageIsHonest
  <2>1. /\ SummaryIsBehind(run) /\ SummaryIsBehind(saved)
        /\ saved.gap # NoGap /\ saved.gap <= p[2]
        /\ Covers(run, p[2]) \/ p[2] = run.next
    BY DEF DispatchInv, LossInv, CoverInv, LostGroupsAreCovered, Lost
  <2>2. /\ p[2] \in Nat /\ run.gap \in Nat /\ saved.gap \in Nat
        /\ run.next \in Nat /\ run.through \in Nat /\ saved.through \in Nat
    BY MaxStepAssumption DEF DispatchInv, BaseInv, TypeOK, Records, Lost, Steps
  <2> QED
    BY <2>1, <2>2 DEF SummaryIsBehind, Covers
<1> QED
  BY <1>1, DispatchCorrect, PTL

(* A guarded action that succeeded, or was running when the run died, is   *)
(* not repeated within the window under a fresh id while the cursor only   *)
(* moves on: its fingerprint is in every record a run can resume from.     *)
THEOREM GuardedActionsRunOnce == Spec => GuardedRunsOnce
<1>1. DispatchInv /\ [Next]_vars =>
          [Dispatching /\ goneBack = {} => \A call \in batch' : ~RepeatsFreshId(call)]_vars
  <2> SUFFICES ASSUME DispatchInv, [Next]_vars, Dispatching, goneBack = {},
                      NEW call \in batch', RepeatsFreshId(call)
               PROVE  FALSE
    OBVIOUS
  <2>1. PICK calls \in SUBSET batch : Dispatch(calls)
    BY DEF Dispatching, Next, Announce, Collect, Commit, TextStep, Snapshot, Rollover,
           End, Restart, Rewind, RewindHalf, CutTrajectory, vars, loopVars
  <2>2. call \in calls /\ ~Repeats(call, InWindow(run.seen, run.next))
    BY <2>1 DEF Dispatch
  <2> DEFINE a == call.action
  <2>3. a \in Guarded /\ ~call.force /\ done[a] # 0 /\ run.next <= done[a] + Window
    BY DEF RepeatsFreshId
  <2>4. run.seen[a] \in Nat /\ done[a] \in Nat /\ run.next \in Nat
    BY <2>3, MaxStepAssumption DEF DispatchInv, BaseInv, TypeOK, Records
  <2>5. run.seen[a] <= run.next /\ run.seen[a] >= done[a]
    BY <2>3, <2>4, WindowAssumption DEF DispatchInv, SeenInv, Remembers
  <2>6. InWindow(run.seen, run.next)[a] = run.seen[a]
    BY <2>3, <2>4, <2>5, WindowAssumption DEF InWindow
  <2> QED
    BY <2>2, <2>3, <2>4, <2>5, <2>6 DEF Repeats, Never
<1> QED
  BY <1>1, DispatchCorrect, PTL DEF Spec, GuardedRunsOnce
=============================================================================
