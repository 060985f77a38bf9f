--------------------------- MODULE ToolBatchProofs ---------------------------
(***************************************************************************)
(* Proofs about ToolBatch, for any finite set of calls, any contents of    *)
(* the canonical file, any batches and any limit on its rules.             *)
(***************************************************************************)
EXTENDS ToolBatch, SequenceTheorems, TLAPS

(* The parts of the inductive invariant.                                   *)

(* A stage under way has cancelled each task no oftener than it has asked  *)
(* for, and what is on its way counts.                                     *)
CancelInv == \A j \in Jobs :
    /\ stage = "running" => cancels[j] = 0 /\ ~pending[j]
    /\ stage = "cancelling" => cancels[j] <= IF pending[j] THEN 0 ELSE 1
    /\ stage = "reaping" => cancels[j] <= IF pending[j] THEN 1 ELSE 2

BaseInv == BatchTypeOK /\ CancelInv

(* A task has a worker from the moment it collects until it is over; what  *)
(* it leaves behind was sent SIGTERM, and it leaves that only when two     *)
(* cancellations have reached it.                                          *)
TaskInv == \A j \in Jobs :
    /\ task[j] \in Stretch \cup {"new", "lock"} => worker[j] = "none"
    /\ task[j] \in {"collect", "unwind", "killing"} => worker[j] # "none"
    /\ task[j] = "again" => retried[j]
    /\ task[j] = "unwind" => cancels[j] >= 1
    /\ task[j] = "killing" => why[j] \in {"late", "cancelled"}
    /\ task[j] = "killing" /\ why[j] = "cancelled" => cancels[j] >= 1
    /\ task[j] \in {"killing", "done"} => signalled[j] \/ ~Live(j)
    /\ task[j] = "done" /\ cancels[j] < 2 => ~Live(j)
    /\ task[j] # "done" => outcome[j] = None

(* A worker and its shell: what its place says of the processes and of     *)
(* the answer.                                                             *)
ShellInv == \A j \in Jobs :
    /\ signalled[j] => worker[j] \in {"giveup", "wait", "clear", "stuck", "gone", "crashed"}
    /\ worker[j] \in {"none", "ready", "compared"} => leader[j] = "none" /\ rest[j] = "none"
    /\ worker[j] \in {"none", "ready", "compared", "forked", "monitor", "sweep"}
         => reply[j] = None
    /\ worker[j] \in {"giveup", "wait"} => reply[j] # "success"
    /\ worker[j] \in {"sweep", "clear", "answer", "answered"} => leader[j] # "runs"
    /\ worker[j] \in {"clear", "answer", "answered"} /\ reply[j] = "success" /\ rest[j] = "runs"
         => "rest" \in args[j].deaf

(* A sequence without doubles, and the members of one.                     *)
Unique(s) == \A i, h \in DOMAIN s : s[i] = s[h] => i = h
In(j, s) == \E i \in DOMAIN s : s[i] = j

(* The canonical lock: a line without doubles of tasks that wait or write, *)
(* headed by the one that writes, itself or by its worker.                 *)
Holds(j) == \/ task[j] \in {"compare", "replace"}
            \/ args[j].tool = "write" /\ task[j] \in {"collect", "unwind", "killing"}
LineInv ==
    /\ Unique(line)
    /\ \A j \in Jobs : In(j, line) => task[j] \notin {"new", "done", "again"}
    /\ \A j \in Jobs : task[j] = "lock" => In(j, line)
    /\ \A j \in Jobs : Holds(j) => line # <<>> /\ line[1] = j

(* What the call goes by: the file's content, or what it was when a shell  *)
(* first wrote after the call had compared.                                *)
Seen(j) == IF under[j] = None THEN file ELSE under[j]

(* A write that has not come to its point has had no effect, and its       *)
(* answer tells the effect; once compared, it goes by the revision that it *)
(* expected or has read.                                                   *)
EffectInv == \A j \in Jobs :
    /\ worker[j] = "compared" => args[j].tool = "write" /\ Seen(j) = args[j].expected
    /\ worker[j] \in {"forked", "monitor", "giveup", "wait", "sweep", "clear", "stuck"}
         => args[j].tool = "bash"
    /\ args[j].tool = "write" =>
         /\ worker[j] \in {"none", "ready", "compared"} => effect[j] = "none"
         /\ worker[j] \in {"none", "ready"} => under[j] = None
         /\ reply[j] = "success" => effect[j] = "took"
         /\ reply[j] = "conflict" => effect[j] = "declined"
    /\ task[j] \in Stretch => args[j].tool = "rule"
    /\ args[j].tool = "rule" =>
         /\ worker[j] = "none"
         /\ task[j] # "done" => effect[j] = "none"
         /\ task[j] \in {"new", "lock", "again", "compare"} => under[j] = None
         /\ task[j] \in {"lock", "compare", "replace"} => snapshot[j] \in Contents
         /\ task[j] = "replace" => Seen(j) = snapshot[j]
    /\ args[j].tool = "none" => task[j] = "done"

(* A read that answers success has the content.                            *)
GotInv == \A j \in Jobs :
    /\ args[j].tool = "read" /\ reply[j] = "success" => got[j] # None
    /\ args[j].tool = "rule" => reply[j] = None

-----------------------------------------------------------------------------
(* Facts about what the batch asks for and about the line.                 *)

LEMMA NoneIsNoOutcome ==
    "success" # None /\ "conflict" # None /\ "unchanged" # None
  BY NoneAssumption DEF Outcomes, Replies

LEMMA NoneIsNoContent == \A text \in Contents : text # None
  BY NoneAssumption

LEMMA Arguments ==
    ASSUME args \in {b[1] : b \in Batches}, NEW j \in Jobs
    PROVE  /\ args[j] \in Requests
           /\ args[j].tool \in Tools /\ args[j].expected \in Contents
           /\ args[j].new \in Contents /\ args[j].deaf \in SUBSET {"leader", "rest"}
           /\ args[j].tool = "rule" => args[j].rule \in Rules
<1>1. PICK b \in Batches : args = b[1]
  OBVIOUS
<1>2. b[1] \in [Jobs -> Requests]
  BY BatchesAssumption
<1>3. args[j] \in Requests
  BY <1>1, <1>2
<1>4. args[j].tool = "rule" => args[j].rule \in Rules
  BY <1>1, RuleAssumption
<1> QED
  BY <1>3, <1>4 DEF Requests

LEMMA MergedType ==
    ASSUME args \in {b[1] : b \in Batches}, NEW text \in Contents,
           NEW j \in Jobs, args[j].tool = "rule"
    PROVE  Merged(j, text) \in Contents
  BY Arguments DEF Merged, Contents

LEMMA WithoutType ==
    ASSUME line \in Seq(Jobs), NEW j
    PROVE  Without(j) \in Seq(Jobs)
<1>1. CASE ~ \E i \in DOMAIN line : line[i] = j
  BY <1>1 DEF Without
<1>2. CASE \E i \in DOMAIN line : line[i] = j
  <2>1. Place(j) \in DOMAIN line
    BY <1>2 DEF Place
  <2>2. Place(j) \in 1 .. Len(line)
    BY <2>1
  <2>3. SubSeq(line, 1, Place(j) - 1) \in Seq(Jobs)
    BY <2>2, SubSeqProperties
  <2>4. SubSeq(line, Place(j) + 1, Len(line)) \in Seq(Jobs)
    BY <2>2, SubSeqProperties
  <2> QED
    BY <1>2, <2>3, <2>4, ConcatProperties DEF Without
<1> QED
  BY <1>1, <1>2

(* The steps of record_playbook, and what all of them share.               *)
RuleSteps(k) == RuleRead(k) \/ RuleCompare(k) \/ RuleReplace(k) \/ RuleFails(k)

LEMMA RuleReach ==
    ASSUME NEW k \in Jobs, RuleSteps(k)
    PROVE  /\ args[k].tool = "rule" /\ task[k] \in Stretch \cup {"new", "lock"}
           /\ UNCHANGED <<args, worker, reply, leader, rest, signalled, under>>
           /\ UNCHANGED <<why, pending, cancels, stage>>
           /\ \/ /\ UNCHANGED retried
                 /\ \/ \E o \in {"success", "full", "conflict", "error"} : Return(k, o)
                    \/ \E s \in {"lock", "compare", "replace"} : Goto(k, s)
              \/ Goto(k, "again") /\ retried' = [retried EXCEPT ![k] = TRUE]
  BY DEF RuleSteps, RuleRead, RuleCompare, RuleReplace, RuleFails, RefuseRule, MyTurn, At, Within,
         Stretch, UnchangedShell, shellVars, workerVars

(* One that has its turn, or goes on in it, heads the line.                *)
LEMMA TurnHeads ==
    ASSUME BatchTypeOK, LineInv, NEW k \in Jobs, MyTurn(k) \/ Within(k, "replace")
    PROVE  line # <<>> /\ Head(line) = k /\ task[k] \in {"lock", "compare", "replace"}
<1>1. CASE At(k, "lock") /\ Head(line) = k
  BY <1>1 DEF At, LineInv, In
<1>2. CASE Within(k, "compare") \/ Within(k, "replace")
  <2>1. line # <<>> /\ line[1] = k
    BY <1>2 DEF Within, LineInv, Holds
  <2> QED
    BY <1>2, <2>1, HeadTailProperties DEF Within, BatchTypeOK
<1> QED
  BY <1>1, <1>2 DEF MyTurn

-----------------------------------------------------------------------------
(* Types and the count of cancellations.                                   *)

LEMMA InitBase == Init => BaseInv
<1> SUFFICES ASSUME Init PROVE BaseInv
  OBVIOUS
<1>1. PICK b \in Batches : args = b[1] /\ file = b[2]
  BY DEF Init, WorkerInit
<1>2. args \in {bb[1] : bb \in Batches} /\ file \in Contents
  BY <1>1, BatchesAssumption
<1>3. WorkerTypeOK
  BY <1>2 DEF Init, WorkerInit, WorkerTypeOK, WorkerStates, ProcessStates
<1>4. BatchTypeOK
  BY <1>3 DEF Init, BatchTypeOK, TaskStates, Stretch, Stages
<1>5. CancelInv
  BY DEF Init, CancelInv
<1> QED
  BY <1>4, <1>5 DEF BaseInv

(* The worker and the shell of one call take a step.                       *)
LEMMA WorkerType ==
    ASSUME WorkerTypeOK, NEW k \in Jobs, WorkerSteps(k) \/ Crash(k)
    PROVE  WorkerTypeOK'
<1> USE DEF WorkerTypeOK, Step, Conclude, shellVars, Ended, WorkerStates, Replies, ProcessStates
<1>1. CASE Read(k)
  BY <1>1 DEF Read
<1>2. CASE Compare(k)
  BY <1>2 DEF Compare
<1>3. CASE Replace(k)
  BY <1>3, Arguments DEF Replace
<1>4. CASE Fail(k) \/ Search(k) \/ Overrun(k)
  BY <1>4 DEF Fail, Search, Overrun
<1>5. CASE Fork(k) \/ Register(k) \/ LeaderLeft(k) \/ Clear(k) \/ Answer(k)
  BY <1>5 DEF Fork, Register, LeaderLeft, Clear, Answer
<1>6. CASE TermGroup(k) \/ KillGroup(k) \/ Sweep(k)
  BY <1>6 DEF TermGroup, KillGroup, Sweep, TermShell, KillShell, Hit
<1>7. CASE Crash(k)
  BY <1>7 DEF Crash
<1> QED
  BY <1>1, <1>2, <1>3, <1>4, <1>5, <1>6, <1>7 DEF WorkerSteps

LEMMA ShellType ==
    ASSUME WorkerTypeOK, NEW k \in Jobs, ShellSteps(k, Writing)
    PROVE  WorkerTypeOK'
  BY ScribblesAssumption
     DEF WorkerTypeOK, ShellSteps, LeaderExits, Background, RestExits, Scribble,
         shellVars, ProcessStates

LEMMA ProcessBase ==
    ASSUME BaseInv, NEW k \in Jobs, ProcessSteps(k)
    PROVE  BaseInv'
<1>1. WorkerTypeOK'
  BY WorkerType, ShellType DEF ProcessSteps, BaseInv, BatchTypeOK
<1>2. UNCHANGED batchVars
  BY DEF ProcessSteps
<1>3. BatchTypeOK'
  BY <1>1, <1>2 DEF BaseInv, BatchTypeOK, batchVars, taskVars
<1>4. CancelInv'
  BY <1>2 DEF BaseInv, CancelInv, batchVars, taskVars
<1> QED
  BY <1>3, <1>4 DEF BaseInv

(* The stage takes a step.                                                 *)
LEMMA StageBase ==
    ASSUME BaseInv, StageSteps
    PROVE  BaseInv'
<1>1. UNCHANGED <<workerVars, taskVars>> /\ stage' \in Stages
  BY DEF StageSteps, Results, Interrupt, ReapTasks, Reaped, BotDies, Stages
<1>2. pending' \in [Jobs -> BOOLEAN]
  BY DEF StageSteps, Results, Interrupt, ReapTasks, Reaped, BotDies, CancelUndone,
         BaseInv, BatchTypeOK
<1>3. WorkerTypeOK'
  BY <1>1 DEF BaseInv, BatchTypeOK, WorkerTypeOK, workerVars
<1>4. BatchTypeOK'
  BY <1>1, <1>2, <1>3 DEF BaseInv, BatchTypeOK, taskVars
<1>5. CancelInv'
  BY <1>1 DEF StageSteps, Results, Interrupt, ReapTasks, Reaped, BotDies, CancelUndone,
              LoopRuns, BaseInv, BatchTypeOK, CancelInv, taskVars
<1> QED
  BY <1>4, <1>5 DEF BaseInv

(* What a task's step leaves alone, but for the cancellation itself.       *)
Calm == UNCHANGED <<pending, cancels, stage>>

LEMMA CalmSteps ==
    ASSUME NEW k \in Jobs, TaskSteps(k), ~Cancelled(k)
    PROVE  Calm
  BY DEF TaskSteps, StartLocal, StartWorker, StartWrite, WriteTurn, RuleRead,
         RuleCompare, RuleReplace, RuleFails, Collect, GiveUp, Escalate, Killed, Unwind, Calm,
         batchVars, taskVars

(* The worker and the file under a step of a task.                         *)
LEMMA TaskWorkerType ==
    ASSUME BatchTypeOK, EffectInv, NEW k \in Jobs, TaskSteps(k)
    PROVE  WorkerTypeOK'
<1> USE DEF BatchTypeOK, WorkerTypeOK
<1>1. CASE StartLocal(k) \/ Collect(k) \/ Killed(k)
  BY <1>1 DEF StartLocal, Collect, Killed, workerVars
<1>2. CASE StartWorker(k) \/ StartWrite(k) \/ WriteTurn(k) \/ GiveUp(k) \/ Escalate(k)
  BY <1>2 DEF StartWorker, StartWrite, WriteTurn, GiveUp, Escalate, Spawn, Step, SendTerm,
              Terminate, Kill, UnchangedData, shellVars, WorkerStates, Ended
<1>3. CASE RuleSteps(k)
  <2>1. UNCHANGED <<args, worker, reply, leader, rest, signalled, under>>
    BY <1>3, RuleReach
  <2>2. CASE RuleReplace(k)
    <3>1. args[k].tool = "rule" /\ snapshot[k] \in Contents
      BY <2>2 DEF RuleReplace, Within, EffectInv
    <3>2. Merged(k, snapshot[k]) \in Contents
      BY <3>1, MergedType
    <3> QED
      BY <2>1, <2>2, <3>2 DEF RuleReplace
  <2>3. CASE ~RuleReplace(k)
    <3>1. UNCHANGED <<file, got>> /\ (\/ UNCHANGED effect
                                     \/ effect' = [effect EXCEPT ![k] = "declined"])
      BY <1>3, <2>3 DEF RuleSteps, RuleRead, RuleCompare, RuleFails, RefuseRule, workerVars
    <3> QED
      BY <2>1, <3>1
  <2> QED
    BY <2>2, <2>3
<1>4. CASE Unwind(k) \/ Cancelled(k)
  BY <1>4 DEF Unwind, Cancelled, KillOrLeave, SendTerm, Terminate, UnchangedData, shellVars,
              workerVars, WorkerStates, Ended
<1> QED
  BY <1>1, <1>2, <1>3, <1>4 DEF TaskSteps, RuleSteps

LEMMA LineType ==
    ASSUME BatchTypeOK, LineInv, NEW k \in Jobs, TaskSteps(k)
    PROVE  line' \in Seq(Jobs)
<1> USE DEF BatchTypeOK
<1>1. Without(k) \in Seq(Jobs)
  BY WithoutType
<1>2. Append(line, k) \in Seq(Jobs)
  BY AppendProperties
<1>3. ASSUME line # <<>> PROVE Tail(line) \in Seq(Jobs)
  BY <1>3, HeadTailProperties
<1>4. CASE StartLocal(k) \/ StartWorker(k) \/ StartWrite(k) \/ WriteTurn(k) \/ GiveUp(k)
           \/ Escalate(k)
  BY <1>2, <1>4 DEF StartLocal, StartWorker, StartWrite, WriteTurn, GiveUp, Escalate,
       batchVars, taskVars
<1>5. CASE Collect(k) \/ Killed(k) \/ Unwind(k) \/ Cancelled(k)
  BY <1>1, <1>5 DEF Collect, Killed, Unwind, Cancelled, KillOrLeave
<1>6. CASE RuleRead(k)
  BY <1>2, <1>6 DEF RuleRead
<1>7. CASE RuleCompare(k) \/ RuleReplace(k) \/ RuleFails(k)
  <2>1. UNCHANGED line \/ ((MyTurn(k) \/ Within(k, "replace")) /\ line' = Tail(line))
    BY <1>7 DEF RuleCompare, RuleReplace, RuleFails
  <2> QED
    BY <1>3, <2>1, TurnHeads
<1> QED
  BY <1>4, <1>5, <1>6, <1>7 DEF TaskSteps

(* The rest of the task's own state.                                       *)
LEMMA TaskType ==
    ASSUME BatchTypeOK, NEW k \in Jobs, TaskSteps(k)
    PROVE  /\ task' \in [Jobs -> TaskStates]
           /\ outcome' \in [Jobs -> Outcomes \cup {None}]
           /\ why' \in [Jobs -> {"late", "cancelled", None}]
           /\ snapshot' \in [Jobs -> {None} \cup Contents]
           /\ retried' \in [Jobs -> BOOLEAN]
<1> USE DEF BatchTypeOK, WorkerTypeOK, Goto, Return, TaskStates, Stretch, Outcomes, Replies
<1>1. CASE StartLocal(k) \/ StartWorker(k) \/ StartWrite(k) \/ WriteTurn(k)
  BY <1>1 DEF StartLocal, StartWorker, StartWrite, WriteTurn
<1>2. CASE GiveUp(k) \/ Escalate(k) \/ Killed(k)
  <2>1. CASE GiveUp(k)
    BY <2>1 DEF GiveUp, SendTerm
  <2>2. CASE Escalate(k)
    BY <2>2 DEF Escalate, batchVars, taskVars
  <2>3. CASE Killed(k)
    BY <2>3 DEF Killed, At
  <2> QED BY <1>2, <2>1, <2>2, <2>3
<1>3. CASE RuleSteps(k)
  <2>1. /\ task' \in [Jobs -> TaskStates]
        /\ outcome' \in [Jobs -> Outcomes \cup {None}]
        /\ why' = why
    <3>1. why' = why
      BY <1>3, RuleReach
    <3>2. CASE \E o \in {"success", "full", "conflict", "error"} : Return(k, o)
      BY <3>1, <3>2
    <3>3. CASE \E s \in {"lock", "compare", "replace", "again"} : Goto(k, s)
      BY <3>1, <3>3
    <3> QED
      BY <1>3, <3>2, <3>3, RuleReach
  <2>2. snapshot' = snapshot \/ snapshot' = [snapshot EXCEPT ![k] = file]
    BY <1>3 DEF RuleSteps, RuleRead, RuleCompare, RuleReplace, RuleFails
  <2>3. retried' \in [Jobs -> BOOLEAN]
    BY <1>3 DEF RuleSteps, RuleRead, RuleCompare, RuleReplace, RuleFails
  <2> QED
    BY <2>1, <2>2, <2>3
<1>4. CASE Collect(k)
  BY <1>4 DEF Collect, Cached
<1>5. CASE Unwind(k) \/ Cancelled(k)
  BY <1>5 DEF Unwind, Cancelled, KillOrLeave, SendTerm
<1> QED
  BY <1>1, <1>2, <1>3, <1>4, <1>5 DEF TaskSteps, RuleSteps

LEMMA CacheType ==
    ASSUME BatchTypeOK, EffectInv, NEW k \in Jobs, TaskSteps(k)
    PROVE  cache' \in {None} \cup Contents
<1> USE DEF BatchTypeOK, WorkerTypeOK
<1>1. CASE RuleReplace(k)
  <2>1. args[k].tool = "rule" /\ snapshot[k] \in Contents
    BY <1>1 DEF RuleReplace, Within, EffectInv
  <2>2. Merged(k, snapshot[k]) \in Contents
    BY <2>1, MergedType
  <2> QED
    BY <1>1, <2>2 DEF RuleReplace, Remember
<1>2. CASE Collect(k)
  <2>1. args[k].new \in Contents /\ got[k] \in {None} \cup Contents
    BY Arguments
  <2> QED
    BY <1>2, <2>1 DEF Collect, Cached, Remember
<1>3. CASE ~(RuleReplace(k) \/ Collect(k))
  BY <1>3 DEF TaskSteps, StartLocal, StartWorker, StartWrite, WriteTurn, RuleRead, RuleCompare,
              RuleFails, GiveUp, Escalate, Killed,
              Unwind, Cancelled, batchVars, taskVars
<1> QED
  BY <1>1, <1>2, <1>3

LEMMA TaskBase ==
    ASSUME BaseInv, LineInv, EffectInv, NEW k \in Jobs, TaskSteps(k)
    PROVE  BaseInv'
<1>1. /\ pending' \in [Jobs -> BOOLEAN] /\ stage' \in Stages
      /\ cancels' \in [Jobs -> 0 .. 2]
      /\ CancelInv'
  <2>1. CASE Cancelled(k)
    <3>1. pending' \in [Jobs -> BOOLEAN]
      BY <2>1 DEF Cancelled, BaseInv, BatchTypeOK
    <3>2. LoopRuns /\ stage' = stage /\ pending[k] /\ pending'[k] = FALSE
      BY <2>1 DEF Cancelled, BaseInv, BatchTypeOK
    <3>3. cancels[k] \in 0 .. 1 /\ cancels' = [cancels EXCEPT ![k] = cancels[k] + 1]
      BY <2>1, <3>2 DEF Cancelled, LoopRuns, BaseInv, BatchTypeOK, CancelInv
    <3>4. cancels' \in [Jobs -> 0 .. 2]
      BY <3>3 DEF BaseInv, BatchTypeOK
    <3>5. \A j \in Jobs : j # k => cancels'[j] = cancels[j] /\ pending'[j] = pending[j]
      BY <2>1 DEF Cancelled, BaseInv, BatchTypeOK
    <3>6. CancelInv'
      BY <3>2, <3>3, <3>5 DEF LoopRuns, BaseInv, BatchTypeOK, CancelInv
    <3> QED
      BY <3>1, <3>2, <3>4, <3>6 DEF BaseInv, BatchTypeOK
  <2>2. CASE ~Cancelled(k)
    BY <2>2, CalmSteps DEF Calm, BaseInv, BatchTypeOK, CancelInv
  <2> QED
    BY <2>1, <2>2
<1>2. WorkerTypeOK' /\ line' \in Seq(Jobs)
  BY TaskWorkerType, LineType DEF BaseInv
<1>3. BatchTypeOK'
  BY <1>1, <1>2, TaskType, CacheType DEF BaseInv, BatchTypeOK
<1> QED
  BY <1>1, <1>3 DEF BaseInv

LEMMA StutterBase ==
    ASSUME BaseInv, UNCHANGED vars
    PROVE  BaseInv'
  BY DEF BaseInv, BatchTypeOK, WorkerTypeOK, CancelInv, vars, workerVars, batchVars, taskVars

-----------------------------------------------------------------------------
(* Tasks and the workers they leave behind.                                *)

(* A step of a worker is one of a worker that lives, and it stays one that *)
(* was started.                                                            *)
LEMMA WorkerMoves ==
    ASSUME BatchTypeOK, NEW k \in Jobs, WorkerSteps(k) \/ Crash(k)
    PROVE  /\ Live(k)
           /\ \A j \in Jobs : j # k => worker'[j] = worker[j]
           /\ worker'[k] # "none"
           /\ UNCHANGED <<args, signalled>>
  BY DEF WorkerSteps, Read, Compare, Replace, Fail, Search, Fork, Register, Overrun, LeaderLeft,
         TermGroup, KillGroup, Sweep, Clear, Answer, Crash, Step, Conclude, Live, Ended,
         BatchTypeOK, WorkerTypeOK

LEMMA InitTasks == Init => TaskInv
  BY DEF Init, WorkerInit, TaskInv, Stretch, Live

LEMMA ProcessTasks ==
    ASSUME BaseInv, TaskInv, NEW k \in Jobs, ProcessSteps(k)
    PROVE  TaskInv'
<1>1. UNCHANGED <<task, outcome, why, cancels, retried>>
  BY DEF ProcessSteps, batchVars, taskVars
<1>2. CASE WorkerSteps(k) \/ Crash(k)
  BY <1>1, <1>2, WorkerMoves DEF BaseInv, TaskInv, Live
<1>3. CASE ShellSteps(k, Writing)
  BY <1>1, <1>3 DEF ShellSteps, LeaderExits, Background, RestExits, Scribble, TaskInv, Live
<1> QED
  BY <1>2, <1>3 DEF ProcessSteps

LEMMA TaskTasks ==
    ASSUME BaseInv, TaskInv, NEW k \in Jobs, TaskSteps(k)
    PROVE  TaskInv'
<1> USE DEF BaseInv, BatchTypeOK, WorkerTypeOK, TaskInv, Goto, Return, Live, At, Ended,
            Stretch
<1>1. CASE StartLocal(k)
  BY <1>1 DEF StartLocal, workerVars
<1>2. CASE StartWorker(k) \/ StartWrite(k) \/ WriteTurn(k)
  BY <1>2 DEF StartWorker, StartWrite, WriteTurn, Spawn, Step
<1>3. CASE RuleSteps(k)
  BY <1>3, RuleReach
<1>4. CASE Collect(k)
  BY <1>4 DEF Collect, Cached, workerVars
<1>5. CASE Killed(k)
  BY <1>5 DEF Killed, workerVars
<1>6. CASE GiveUp(k) \/ Unwind(k)
  BY <1>6 DEF GiveUp, Unwind, KillOrLeave, SendTerm, Terminate, workerVars
<1>7. CASE Escalate(k)
  BY <1>7 DEF Escalate, Kill, batchVars, taskVars
<1>8. CASE Cancelled(k)
  <2>1. cancels[k] \in Nat /\ cancels'[k] = cancels[k] + 1
        /\ \A j \in Jobs : j # k => cancels'[j] = cancels[j]
    BY <1>8 DEF Cancelled
  <2>2. /\ UNCHANGED <<worker, signalled, why, retried>>
        /\ Return(k, "cancelled")
        /\ \/ task[k] \in {"new", "lock"} \/ (task[k] = "killing" /\ why[k] = "cancelled")
           \/ task[k] = "unwind" /\ worker[k] \in Ended
        => TaskInv'
    BY <2>1
  <2>3. UNCHANGED <<worker, signalled, why, retried>> /\ Goto(k, "unwind")
        /\ (task[k] = "collect" \/ (task[k] = "killing" /\ why[k] = "late")) => TaskInv'
    BY <2>1
  <2>4. task[k] = "unwind" /\ SendTerm(k, "cancelled") /\ UNCHANGED retried => TaskInv'
    BY <2>1 DEF SendTerm, Terminate
  <2> QED
    BY <1>8, <2>2, <2>3, <2>4 DEF Cancelled, KillOrLeave, workerVars
<1> QED
  BY <1>1, <1>2, <1>3, <1>4, <1>5, <1>6, <1>7, <1>8 DEF TaskSteps, RuleSteps

(* What a step of the stage and a stutter leave alone.                     *)
LEMMA QuietSteps ==
    ASSUME StageSteps \/ UNCHANGED vars
    PROVE  UNCHANGED <<workerVars, taskVars>>
  BY DEF StageSteps, Results, Interrupt, ReapTasks, Reaped, BotDies, vars, batchVars

LEMMA QuietTasks ==
    ASSUME TaskInv, UNCHANGED <<workerVars, taskVars>>
    PROVE  TaskInv'
  BY DEF TaskInv, Live, workerVars, taskVars

-----------------------------------------------------------------------------
(* Workers and their shells.                                               *)

LEMMA InitShells == Init => ShellInv
  BY DEF Init, WorkerInit, ShellInv

LEMMA WorkerShells ==
    ASSUME BaseInv, ShellInv, NEW k \in Jobs, WorkerSteps(k) \/ Crash(k)
    PROVE  ShellInv'
<1> USE DEF BaseInv, BatchTypeOK, WorkerTypeOK, ShellInv, Step, Conclude, shellVars
<1>1. CASE Read(k) \/ Compare(k) \/ Replace(k) \/ Fail(k) \/ Search(k)
  BY <1>1 DEF Read, Compare, Replace, Fail, Search
<1>2. CASE Fork(k) \/ Register(k)
  BY <1>2 DEF Fork, Register
<1>3. CASE Overrun(k) \/ LeaderLeft(k)
  BY <1>3 DEF Overrun, LeaderLeft
<1>4. CASE TermGroup(k)
  BY <1>4 DEF TermGroup, TermShell, Hit
<1>5. CASE KillGroup(k)
  BY <1>5 DEF KillGroup, KillShell, Hit
<1>6. CASE Sweep(k)
  BY <1>6 DEF Sweep, TermShell, Hit
<1>7. CASE Clear(k) \/ Answer(k) \/ Crash(k)
  BY <1>7 DEF Clear, Answer, Crash
<1> QED
  BY <1>1, <1>2, <1>3, <1>4, <1>5, <1>6, <1>7 DEF WorkerSteps

LEMMA ShellShells ==
    ASSUME BaseInv, ShellInv, NEW k \in Jobs, ShellSteps(k, Writing)
    PROVE  ShellInv'
<1> USE DEF BaseInv, BatchTypeOK, WorkerTypeOK, ShellInv, shellVars
<1>1. CASE LeaderExits(k)
  BY <1>1 DEF LeaderExits
<1>2. CASE Background(k)
  BY <1>2 DEF Background
<1>3. CASE RestExits(k)
  BY <1>3 DEF RestExits
<1>4. CASE Scribble(k, Writing)
  BY <1>4 DEF Scribble
<1> QED
  BY <1>1, <1>2, <1>3, <1>4 DEF ShellSteps

(* A task starts, signals or kills its worker, or leaves it alone; its     *)
(* answer and its shell it never touches.                                  *)
LEMMA TaskReach ==
    ASSUME NEW k \in Jobs, TaskSteps(k)
    PROVE  /\ UNCHANGED <<args, reply, leader, rest, under>>
           /\ \/ Spawn(k) \/ Terminate(k) \/ Kill(k)
              \/ UNCHANGED <<worker, signalled>>
  BY DEF TaskSteps, StartLocal, StartWorker, StartWrite, WriteTurn, RuleRead,
         RuleCompare, RuleReplace, RuleFails, Collect, GiveUp, Escalate, Killed, Unwind,
         Cancelled, KillOrLeave, SendTerm, UnchangedData, UnchangedShell, shellVars, workerVars

LEMMA TaskShells ==
    ASSUME BaseInv, ShellInv, NEW k \in Jobs, TaskSteps(k)
    PROVE  ShellInv'
<1> USE DEF BaseInv, BatchTypeOK, WorkerTypeOK, ShellInv
<1>1. UNCHANGED <<args, reply, leader, rest>>
  BY TaskReach
<1>2. CASE Spawn(k)
  BY <1>1, <1>2 DEF Spawn, Step
<1>3. CASE Terminate(k)
  <2>1. /\ signalled'[k] /\ \A j \in Jobs : j # k => signalled'[j] = signalled[j]
        /\ worker'[k] \in {"giveup", "stuck", "gone"}
        /\ \A j \in Jobs : j # k => worker'[j] = worker[j]
    BY <1>3 DEF Terminate
  <2>2. worker'[k] = "giveup" => reply[k] # "success"
    BY <1>3, <2>1, NoneIsNoOutcome DEF Terminate
  <2> QED
    BY <1>1, <2>1, <2>2
<1>4. CASE Kill(k)
  BY <1>1, <1>4 DEF Kill
<1>5. CASE UNCHANGED <<worker, signalled>>
  BY <1>1, <1>5
<1> QED
  BY <1>2, <1>3, <1>4, <1>5, TaskReach

LEMMA QuietShells ==
    ASSUME ShellInv, UNCHANGED workerVars
    PROVE  ShellInv'
  BY DEF ShellInv, workerVars

-----------------------------------------------------------------------------
(* The line at the canonical lock.                                         *)

LEMMA WithoutProperties ==
    ASSUME line \in Seq(Jobs), Unique(line), NEW k
    PROVE  /\ Unique(Without(k))
           /\ \A j : In(j, Without(k)) <=> j # k /\ In(j, line)
           /\ line # <<>> /\ line[1] # k => Without(k) # <<>> /\ Without(k)[1] = line[1]
<1>1. CASE ~ \E i \in DOMAIN line : line[i] = k
  BY <1>1 DEF Without, In
<1>2. CASE \E i \in DOMAIN line : line[i] = k
  <2> DEFINE p == Place(k)
             n == Len(line)
             before == SubSeq(line, 1, p - 1)
             after == SubSeq(line, p + 1, n)
  <2>1. n \in Nat /\ p \in 1 .. n /\ line[p] = k /\ DOMAIN line = 1 .. n
    BY <1>2 DEF Place
  <2>2. /\ before \in Seq(Jobs) /\ Len(before) = p - 1
        /\ \A i \in 1 .. p - 1 : before[i] = line[i]
    BY <2>1, SubSeqProperties
  <2>3. /\ after \in Seq(Jobs) /\ Len(after) = n - p
        /\ \A i \in 1 .. n - p : after[i] = line[p + i]
    <3>1. p + 1 \in Int /\ n \in Int /\ \A i \in p + 1 .. n : line[i] \in Jobs
      BY <2>1
    <3>2. /\ after \in Seq(Jobs)
          /\ Len(after) = IF p + 1 <= n THEN n - (p + 1) + 1 ELSE 0
          /\ \A i \in 1 .. n - (p + 1) + 1 : after[i] = line[p + 1 + i - 1]
      BY <3>1, SubSeqProperties
    <3> QED
      BY <2>1, <3>2
  <2>4. Without(k) = before \o after
    BY <1>2 DEF Without
  <2> HIDE DEF p, n, before, after
  <2>5. /\ Without(k) \in Seq(Jobs) /\ Len(Without(k)) = n - 1
        /\ DOMAIN Without(k) = 1 .. n - 1
        /\ \A i \in 1 .. n - 1 : Without(k)[i] = IF i < p THEN line[i] ELSE line[i + 1]
    BY <2>1, <2>2, <2>3, <2>4, ConcatProperties
  <2> DEFINE old(i) == IF i < p THEN i ELSE i + 1
  <2>51. \A i \in 1 .. n - 1 : /\ old(i) \in 1 .. n /\ old(i) # p
                             /\ Without(k)[i] = line[old(i)]
    BY <2>1, <2>5
  <2>52. \A i, h \in 1 .. n - 1 : old(i) = old(h) => i = h
    BY <2>1
  <2>53. \A i, h \in 1 .. n : line[i] = line[h] => i = h
    BY <2>1 DEF Unique
  <2> HIDE DEF old
  <2>6. Unique(Without(k))
    <3>1. ASSUME NEW i \in 1 .. n - 1, NEW h \in 1 .. n - 1, Without(k)[i] = Without(k)[h]
          PROVE  i = h
      <4>1. line[old(i)] = line[old(h)] /\ old(i) \in 1 .. n /\ old(h) \in 1 .. n
        BY <2>51, <3>1
      <4>2. old(i) = old(h)
        BY <2>53, <4>1
      <4> QED
        BY <2>52, <4>2
    <3> QED
      BY <2>5, <3>1 DEF Unique
  <2>7. ASSUME NEW j PROVE In(j, Without(k)) <=> j # k /\ In(j, line)
    <3>1. ASSUME In(j, Without(k)) PROVE j # k /\ In(j, line)
      <4>1. PICK i \in 1 .. n - 1 : Without(k)[i] = j
        BY <2>5, <3>1 DEF In
      <4>2. old(i) \in 1 .. n /\ old(i) # p /\ line[old(i)] = j
        BY <2>51, <4>1
      <4>3. line[old(i)] # line[p]
        BY <2>1, <2>53, <4>2
      <4> QED
        BY <2>1, <4>2, <4>3 DEF In
    <3>2. ASSUME j # k, In(j, line) PROVE In(j, Without(k))
      <4>1. PICK i \in 1 .. n : line[i] = j
        BY <2>1, <3>2 DEF In
      <4>2. CASE i < p
        BY <2>1, <2>5, <4>1, <4>2 DEF In
      <4>3. CASE i > p
        <5>1. i - 1 \in 1 .. n - 1 /\ ~(i - 1 < p) /\ i - 1 + 1 = i
          BY <2>1, <4>1, <4>3
        <5> QED
          BY <2>5, <4>1, <5>1 DEF In
      <4> QED
        BY <2>1, <3>2, <4>1, <4>2, <4>3
    <3> QED
      BY <3>1, <3>2
  <2>8. line # <<>> /\ line[1] # k => Without(k) # <<>> /\ Without(k)[1] = line[1]
    <3>1. ASSUME line[1] # k PROVE 1 < p /\ 1 \in 1 .. n - 1
      BY <2>1, <3>1
    <3> QED
      BY <2>1, <2>5, <3>1
  <2> QED
    BY <2>6, <2>7, <2>8
<1> QED
  BY <1>1, <1>2

LEMMA AppendProperty ==
    ASSUME NEW s \in Seq(Jobs), Unique(s), NEW k \in Jobs, ~In(k, s)
    PROVE  /\ Unique(Append(s, k))
           /\ \A j : In(j, Append(s, k)) <=> j = k \/ In(j, s)
           /\ Append(s, k) # <<>>
           /\ Append(s, k)[1] = IF s = <<>> THEN k ELSE s[1]
  BY AppendProperties DEF Unique, In

LEMMA TailProperty ==
    ASSUME line \in Seq(Jobs), Unique(line), line # <<>>, NEW k \in Jobs, Head(line) = k
    PROVE  /\ line[1] = k
           /\ Tail(line) \in Seq(Jobs)
           /\ Unique(Tail(line))
           /\ \A j : In(j, Tail(line)) <=> j # k /\ In(j, line)
<1>1. /\ line[1] = k /\ Tail(line) \in Seq(Jobs) /\ Len(Tail(line)) = Len(line) - 1
      /\ Len(line) \in Nat \ {0}
      /\ \A i \in 1 .. Len(line) - 1 : Tail(line)[i] = line[i + 1]
  BY HeadTailProperties, EmptySeq
<1>2. DOMAIN Tail(line) = 1 .. Len(line) - 1 /\ DOMAIN line = 1 .. Len(line)
  BY <1>1
<1>3. Unique(Tail(line))
  BY <1>1, <1>2 DEF Unique
<1>4. ASSUME NEW j PROVE In(j, Tail(line)) <=> j # k /\ In(j, line)
  <2>1. ASSUME In(j, Tail(line)) PROVE j # k /\ In(j, line)
    BY <1>1, <1>2, <2>1 DEF In, Unique
  <2>2. ASSUME j # k, In(j, line) PROVE In(j, Tail(line))
    <3>1. PICK i \in 1 .. Len(line) : line[i] = j
      BY <1>2, <2>2 DEF In
    <3>2. i - 1 \in 1 .. Len(line) - 1 /\ i - 1 + 1 = i
      BY <1>1, <2>2, <3>1
    <3> QED
      BY <1>1, <1>2, <3>1, <3>2 DEF In
  <2> QED
    BY <2>1, <2>2
<1> QED
  BY <1>1, <1>3, <1>4

LEMMA InitLine == Init => LineInv
  BY DEF Init, LineInv, Holds, Unique, In

(* A task ends and is gone from the line.                                  *)
LEMMA LineLeft ==
    ASSUME BaseInv, LineInv, NEW k \in Jobs, NEW o, Return(k, o), line' = Without(k), args' = args
    PROVE  LineInv'
<1>1. /\ Unique(line')
      /\ \A j : In(j, line') <=> j # k /\ In(j, line)
      /\ line # <<>> /\ line[1] # k => line' # <<>> /\ line'[1] = line[1]
  BY WithoutProperties DEF BaseInv, BatchTypeOK, LineInv
<1>2. task'[k] = "done" /\ \A j \in Jobs : j # k => task'[j] = task[j]
  BY DEF Return, BaseInv, BatchTypeOK
<1> QED
  BY <1>1, <1>2 DEF LineInv, Holds

(* A task goes on and the line stays.                                      *)
LEMMA LineKept ==
    ASSUME BaseInv, LineInv, NEW k \in Jobs, line' = line, args' = args,
           \A j \in Jobs : j # k => task'[j] = task[j],
           task'[k] # "lock",
           task'[k] \in {"new", "done", "again"} => ~In(k, line),
           Holds(k)' => line # <<>> /\ line[1] = k
    PROVE  LineInv'
  BY DEF LineInv, Holds

(* A task joins a line that it is not part of.                             *)
LEMMA LineJoined ==
    ASSUME BaseInv, LineInv, NEW k \in Jobs, task[k] \in {"new", "again"},
           line' = Append(line, k), args' = args,
           \A j \in Jobs : j # k => task'[j] = task[j],
           task'[k] \in {"lock", "collect", "compare"},
           Holds(k)' => line = <<>>
    PROVE  LineInv'
<1>1. ~In(k, line) /\ line \in Seq(Jobs)
  BY DEF BaseInv, BatchTypeOK, LineInv
<1>2. /\ Unique(line')
      /\ \A j : In(j, line') <=> j = k \/ In(j, line)
      /\ line' # <<>>
      /\ line'[1] = IF line = <<>> THEN k ELSE line[1]
  BY <1>1, AppendProperty DEF LineInv
<1> QED
  BY <1>2 DEF LineInv, Holds

(* The head of the line leaves it.                                         *)
LEMMA LineDropped ==
    ASSUME BaseInv, LineInv, NEW k \in Jobs, line # <<>>, Head(line) = k,
           args' = args, line' = Tail(line),
           \A j \in Jobs : j # k => task'[j] = task[j],
           task'[k] \in {"done", "again"}
    PROVE  LineInv'
<1>1. /\ line[1] = k /\ Tail(line) \in Seq(Jobs) /\ Unique(Tail(line))
      /\ \A j : In(j, Tail(line)) <=> j # k /\ In(j, line)
  BY TailProperty DEF BaseInv, BatchTypeOK, LineInv
<1>2. \A j \in Jobs : Holds(j) => j = k
  BY <1>1 DEF LineInv
<1>3. \A j \in Jobs : ~Holds(j)'
  BY <1>2 DEF Holds
<1> QED
  BY <1>1, <1>3 DEF LineInv

LEMMA TaskLine ==
    ASSUME BaseInv, LineInv, NEW k \in Jobs, TaskSteps(k)
    PROVE  LineInv'
<1> USE DEF BaseInv, BatchTypeOK, WorkerTypeOK
<1>1. args' = args
  BY TaskReach
<1>2. CASE StartLocal(k) \/ StartWorker(k)
  BY <1>1, <1>2, LineKept DEF StartLocal, StartWorker, At, Goto, Return, LineInv, Holds
<1>3. CASE StartWrite(k)
  BY <1>1, <1>3, LineJoined DEF StartWrite, At, Goto, Holds
<1>4. CASE WriteTurn(k)
  <2>1. line # <<>>
    BY <1>4 DEF WriteTurn, At, LineInv, In
  <2>2. line[1] = k
    BY <1>4, <2>1, TailProperty DEF WriteTurn, LineInv
  <2> QED
    BY <1>1, <1>4, <2>1, <2>2, LineKept DEF WriteTurn, Goto, Holds
<1>5. CASE RuleRead(k)
  <2>1. task[k] \in {"new", "again"}
    BY <1>5 DEF RuleRead, At, Within
  <2>2. CASE task' = [task EXCEPT ![k] = "done"] /\ line' = line
    BY <1>1, <2>1, <2>2, LineKept DEF LineInv, Holds
  <2>3. CASE /\ line' = Append(line, k)
             /\ task' = [task EXCEPT ![k] = IF line = <<>> THEN "compare" ELSE "lock"]
    <3>1. args[k].tool = "rule"
      BY <1>5 DEF RuleRead
    <3> QED
      BY <1>1, <2>1, <2>3, <3>1, LineJoined DEF Holds
  <2> QED
    BY <1>5, <2>2, <2>3 DEF RuleRead, RefuseRule, Return, Goto
<1>6. CASE RuleCompare(k) \/ RuleReplace(k) \/ RuleFails(k)
  <2>1. CASE /\ MyTurn(k) \/ Within(k, "replace")
             /\ line' = Tail(line)
             /\ \E s \in {"done", "again"} : task' = [task EXCEPT ![k] = s]
    BY <1>1, <2>1, TurnHeads, LineDropped
  <2>2. CASE /\ MyTurn(k)
             /\ line' = line /\ task' = [task EXCEPT ![k] = "replace"]
    <3>1. line # <<>> /\ Head(line) = k
      BY <2>2, TurnHeads
    <3>2. line[1] = k
      BY <3>1, TailProperty DEF LineInv
    <3> QED
      BY <1>1, <2>2, <3>1, <3>2, LineKept
  <2>3. CASE /\ At(k, "new") \/ Within(k, "again")
             /\ line' = line /\ task' = [task EXCEPT ![k] = "done"]
    BY <1>1, <2>3, LineKept DEF At, Within, LineInv, Holds
  <2> QED
    BY <1>6, <2>1, <2>2, <2>3
       DEF RuleCompare, RuleReplace, RuleFails, RefuseRule, Return, Goto
<1>7. CASE Collect(k)
  <2>1. \E o : Return(k, o)
    BY <1>7 DEF Collect, Cached
  <2> QED
    BY <1>1, <1>7, <2>1, LineLeft DEF Collect
<1>8. CASE Killed(k)
  BY <1>1, <1>8, LineLeft DEF Killed
<1>9. CASE GiveUp(k) \/ Escalate(k)
  BY <1>1, <1>9, LineKept
     DEF GiveUp, Escalate, At, SendTerm, Goto, LineInv, Holds, batchVars, taskVars
<1>10. CASE Unwind(k) \/ Cancelled(k)
  <2>1. CASE Return(k, "cancelled") /\ line' = Without(k)
    BY <1>1, <2>1, LineLeft
  <2>2. CASE /\ \E t \in {"unwind", "killing"} : task' = [task EXCEPT ![k] = t]
             /\ task[k] \in {"collect", "unwind", "killing"}
             /\ line' = line
    BY <1>1, <2>2, LineKept DEF LineInv, Holds
  <2> QED
    BY <1>10, <2>1, <2>2 DEF Unwind, Cancelled, At, KillOrLeave, SendTerm, Goto
<1> QED
  BY <1>2, <1>3, <1>4, <1>5, <1>6, <1>7, <1>8, <1>9, <1>10 DEF TaskSteps

(* No other step touches the line or a task.                               *)
LEMMA QuietLine ==
    ASSUME LineInv, UNCHANGED <<line, task, args>>
    PROVE  LineInv'
  BY DEF LineInv, Holds, Unique, In

-----------------------------------------------------------------------------
(* What writes have done.                                                  *)

(* A call about to replace the file heads the line, so there is one.       *)
LEMMA WritingHolds ==
    ASSUME TaskInv, ShellInv, LineInv, EffectInv, BaseInv, NEW j \in Jobs, j \in Writing
    PROVE  /\ line # <<>> /\ line[1] = j
           /\ \/ task[j] = "replace" /\ args[j].tool = "rule" /\ worker[j] = "none"
              \/ worker[j] = "compared" /\ args[j].tool = "write"
<1>1. CASE worker[j] = "compared"
  <2>1. args[j].tool = "write" /\ ~signalled[j] /\ Live(j)
    BY <1>1 DEF EffectInv, ShellInv, Live, Ended
  <2>2. task[j] \in {"collect", "unwind"}
    BY <1>1, <2>1 DEF TaskInv, BaseInv, BatchTypeOK, TaskStates
  <2> QED
    BY <1>1, <2>1, <2>2 DEF LineInv, Holds
<1>2. CASE task[j] = "replace"
  BY <1>2 DEF TaskInv, EffectInv, LineInv, Holds, Stretch
<1> QED
  BY <1>1, <1>2 DEF Writing

LEMMA OneWriter ==
    ASSUME TaskInv, ShellInv, LineInv, EffectInv, BaseInv,
           NEW j \in Jobs, NEW k \in Jobs, j \in Writing, k \in Writing
    PROVE  j = k
  BY WritingHolds

LEMMA InitEffects == Init => EffectInv
  BY NoneIsNoOutcome DEF Init, WorkerInit, EffectInv, Stretch

LEMMA WorkerEffects ==
    ASSUME BaseInv, TaskInv, ShellInv, LineInv, EffectInv,
           NEW k \in Jobs, WorkerSteps(k) \/ Crash(k), UNCHANGED batchVars
    PROVE  EffectInv'
<1> USE DEF BaseInv, BatchTypeOK, WorkerTypeOK, EffectInv, Seen, Step, Conclude, shellVars
<1>1. UNCHANGED <<task, snapshot>>
  BY DEF batchVars, taskVars
<1>2. CASE Read(k)
  BY <1>1, <1>2 DEF Read
<1>3. CASE Compare(k)
  BY <1>1, <1>3 DEF Compare
<1>4. CASE Replace(k)
  <2>1. worker[k] = "compared" /\ args[k].tool = "write" /\ task[k] # "replace"
    BY <1>4 DEF Replace, Stretch
  <2>2. \A j \in Jobs : j # k => worker[j] # "compared" /\ task[j] # "replace"
    BY <2>1, OneWriter DEF Writing
  <2> QED
    BY <1>1, <1>4, <2>1, <2>2 DEF Replace
<1>5. CASE Fail(k)
  BY <1>1, <1>5 DEF Fail
<1>6. CASE Search(k)
  BY <1>1, <1>6 DEF Search
<1>7. CASE Fork(k) \/ Register(k)
  BY <1>1, <1>7 DEF Fork, Register
<1>8. CASE Overrun(k)
  BY <1>1, <1>8 DEF Overrun
<1>9. CASE LeaderLeft(k) \/ TermGroup(k) \/ KillGroup(k)
  BY <1>1, <1>9 DEF LeaderLeft, TermGroup, KillGroup
<1>10. CASE Sweep(k)
  BY <1>1, <1>10 DEF Sweep
<1>11. CASE Clear(k) \/ Answer(k) \/ Crash(k)
  BY <1>1, <1>11 DEF Clear, Answer, Crash, Live
<1> QED
  BY <1>2, <1>3, <1>4, <1>5, <1>6, <1>7, <1>8, <1>9, <1>10, <1>11 DEF WorkerSteps

(* A shell changes the file, but not what a call that has compared goes by.*)
LEMMA ShellEffects ==
    ASSUME BaseInv, TaskInv, ShellInv, LineInv, EffectInv,
           NEW k \in Jobs, ShellSteps(k, Writing), UNCHANGED batchVars
    PROVE  EffectInv'
<1> USE DEF BaseInv, BatchTypeOK, WorkerTypeOK, shellVars
<1>1. UNCHANGED <<task, snapshot>>
  BY DEF batchVars, taskVars
<1>2. CASE Scribble(k, Writing)
  <2>1. /\ UNCHANGED <<args, worker, reply, effect>>
        /\ \A j \in Jobs : under'[j] = IF j \in Writing /\ under[j] = None THEN file ELSE under[j]
    BY <1>2 DEF Scribble
  <2>2. \A j \in Writing : Seen(j)' = Seen(j)
    BY <2>1, NoneIsNoContent DEF Seen, Writing
  <2>3. \A j \in Jobs : j \notin Writing => under'[j] = under[j]
    BY <2>1
  <2> QED
    BY <1>1, <2>1, <2>2, <2>3, WritingHolds DEF EffectInv, Writing
<1>3. CASE ~Scribble(k, Writing)
  BY <1>1, <1>3 DEF EffectInv, Seen, ShellSteps, LeaderExits, Background, RestExits
<1> QED
  BY <1>2, <1>3

(* A step of record_playbook: what it compares, it goes by.                *)
LEMMA RuleEffects ==
    ASSUME BaseInv, TaskInv, ShellInv, LineInv, EffectInv, NEW k \in Jobs, RuleSteps(k)
    PROVE  EffectInv'
<1> USE DEF BaseInv, BatchTypeOK, WorkerTypeOK
<1>1. /\ args[k].tool = "rule" /\ task[k] \in Stretch \cup {"new", "lock"}
      /\ UNCHANGED <<args, worker, reply, under>>
  BY RuleReach
<1>2. /\ \A j \in Jobs : j # k => task'[j] = task[j]
      /\ \A j \in Jobs : j # k => effect'[j] = effect[j]
      /\ \A j \in Jobs : j # k => snapshot'[j] = snapshot[j]
  BY DEF RuleSteps, RuleRead, RuleCompare, RuleReplace, RuleFails, RefuseRule, Goto, Return,
         workerVars
<1>3. CASE RuleReplace(k)
  <2>1. task[k] = "replace" /\ task'[k] = "done"
    BY <1>3 DEF RuleReplace, Within, Return
  <2>2. \A j \in Jobs : j # k => worker[j] # "compared" /\ task[j] # "replace"
    BY <2>1, OneWriter DEF Writing
  <2>3. worker[k] = "none"
    BY <1>1 DEF EffectInv
  <2> QED
    BY <1>1, <1>2, <2>1, <2>2, <2>3 DEF EffectInv, Seen, Stretch
<1>4. CASE ~RuleReplace(k)
  <2>1. file' = file /\ \A j \in Jobs : Seen(j)' = Seen(j)
    BY <1>1, <1>4 DEF Seen, RuleSteps, RuleRead, RuleCompare, RuleFails, workerVars
  <2>2. CASE task'[k] = "done"
    BY <1>1, <1>2, <2>1, <2>2 DEF EffectInv, Stretch
  <2>3. CASE task'[k] # "done"
    <3>1. /\ task[k] # "done" /\ effect'[k] = effect[k]
          /\ \/ task'[k] \in {"lock", "compare"} /\ snapshot'[k] = file
                /\ task[k] \in {"new", "again"}
             \/ task'[k] = "replace" /\ task[k] \in {"lock", "compare"}
                /\ snapshot'[k] = snapshot[k] /\ file = snapshot[k]
             \/ task'[k] = "again" /\ task[k] \in {"lock", "compare"}
      BY <1>4, <2>3 DEF RuleSteps, RuleRead, RuleCompare, RuleFails, RefuseRule, Goto, Return,
                        MyTurn, At, Within
    <3> QED
      BY <1>1, <1>2, <2>1, <3>1 DEF EffectInv, Seen, Stretch
  <2> QED
    BY <2>2, <2>3
<1> QED
  BY <1>3, <1>4

LEMMA TaskEffects ==
    ASSUME BaseInv, TaskInv, ShellInv, LineInv, EffectInv, NEW k \in Jobs, TaskSteps(k)
    PROVE  EffectInv'
<1> USE DEF BaseInv, BatchTypeOK, WorkerTypeOK
<1>1. /\ UNCHANGED <<args, reply, under>>
      /\ Spawn(k) \/ Terminate(k) \/ Kill(k) \/ UNCHANGED worker
  BY TaskReach
<1>2. CASE RuleSteps(k)
  BY <1>2, RuleEffects
<1>3. CASE ~RuleSteps(k)
  <2> USE <1>3 DEF RuleSteps
  <2>1. UNCHANGED <<file, effect, snapshot>> /\ \A j \in Jobs : Seen(j)' = Seen(j)
    BY <1>1 DEF TaskSteps, StartLocal, StartWorker, StartWrite, WriteTurn, Collect, GiveUp,
           Escalate, Killed, Unwind, Cancelled, KillOrLeave, SendTerm, UnchangedData, workerVars,
           batchVars, taskVars, Seen
  <2>2. /\ task[k] # "done" /\ \A j \in Jobs : j # k => task'[j] = task[j]
        /\ \/ task'[k] \in {"collect", "unwind", "killing", "done"}
           \/ task'[k] = "lock" /\ args[k].tool = "write"
    BY DEF TaskSteps, StartLocal, StartWorker, StartWrite, WriteTurn, Collect, GiveUp,
           Escalate, Killed, Unwind, Cancelled, KillOrLeave, SendTerm, At, Goto, Return, Cached,
           batchVars, taskVars
  <2>3. args[k].tool = "rule" => UNCHANGED worker
    <3>1. CASE StartLocal(k) \/ StartWorker(k) \/ StartWrite(k) \/ WriteTurn(k)
      BY <3>1 DEF StartLocal, StartWorker, StartWrite, WriteTurn, workerVars
    <3>2. CASE Collect(k) \/ Killed(k)
      BY <3>2 DEF Collect, Killed, workerVars
    <3>3. CASE GiveUp(k) \/ Escalate(k) \/ Unwind(k) \/ Cancelled(k)
      <4>1. UNCHANGED worker \/ worker[k] # "none"
        BY <3>3 DEF GiveUp, Escalate, Unwind, Cancelled, KillOrLeave, Live, workerVars
      <4> QED
        BY <4>1 DEF EffectInv
    <3> QED
      BY <3>1, <3>2, <3>3 DEF TaskSteps
  <2>4. args[k].tool # "none"
    BY <2>2 DEF EffectInv
  <2>5. CASE Spawn(k)
    BY <1>1, <2>1, <2>2, <2>3, <2>4, <2>5 DEF EffectInv, Stretch, Spawn, Step
  <2>6. CASE Terminate(k)
    BY <1>1, <2>1, <2>2, <2>3, <2>4, <2>6 DEF EffectInv, Stretch, Terminate
  <2>7. CASE Kill(k)
    BY <1>1, <2>1, <2>2, <2>3, <2>4, <2>7 DEF EffectInv, Stretch, Kill
  <2>8. CASE UNCHANGED worker
    BY <1>1, <2>1, <2>2, <2>4, <2>8 DEF EffectInv, Stretch
  <2> QED
    BY <1>1, <2>5, <2>6, <2>7, <2>8
<1> QED
  BY <1>2, <1>3

LEMMA QuietEffects ==
    ASSUME EffectInv, UNCHANGED <<workerVars, taskVars>>
    PROVE  EffectInv'
  BY DEF EffectInv, Seen, workerVars, taskVars

-----------------------------------------------------------------------------
(* What a read was told, and what the cache knows.                         *)

LEMMA InitGot == Init => GotInv /\ CacheIsKnown
  BY NoneIsNoOutcome DEF Init, WorkerInit, GotInv, CacheIsKnown

LEMMA WorkerGot ==
    ASSUME BaseInv, ShellInv, EffectInv, GotInv, NEW k \in Jobs, WorkerSteps(k) \/ Crash(k)
    PROVE  GotInv'
<1> USE DEF BaseInv, BatchTypeOK, WorkerTypeOK, GotInv, Step, Conclude
<1>1. CASE Read(k)
  BY <1>1, NoneIsNoContent DEF Read, Contents
<1>2. CASE Compare(k) \/ Replace(k)
  BY <1>2 DEF Compare, Replace, EffectInv
<1>3. CASE Fail(k) \/ Search(k)
  <2>1. args[k].tool # "rule"
    BY <1>3 DEF Fail, Search, EffectInv
  <2> QED
    BY <1>3, <2>1 DEF Fail, Search
<1>4. CASE Fork(k) \/ Register(k) \/ LeaderLeft(k) \/ TermGroup(k) \/ KillGroup(k)
           \/ Clear(k) \/ Answer(k) \/ Crash(k)
  BY <1>4 DEF Fork, Register, LeaderLeft, TermGroup, KillGroup, Clear, Answer, Crash
<1>5. CASE Overrun(k) \/ Sweep(k)
  <2>1. args[k].tool = "bash"
    BY <1>5 DEF Overrun, Sweep, EffectInv
  <2> QED
    BY <1>5, <2>1 DEF Overrun, Sweep
<1> QED
  BY <1>1, <1>2, <1>3, <1>4, <1>5 DEF WorkerSteps

LEMMA ShellGot ==
    ASSUME GotInv, NEW k \in Jobs, ShellSteps(k, Writing)
    PROVE  GotInv'
  BY DEF GotInv, ShellSteps, LeaderExits, Background, RestExits, Scribble

(* Only record_playbook changes what its call was told, from its task.     *)
LEMMA TaskTold ==
    ASSUME BaseInv, NEW k \in Jobs, TaskSteps(k)
    PROVE  UNCHANGED got \/ RuleReplace(k)
  BY DEF TaskSteps, StartLocal, StartWorker, StartWrite, WriteTurn, RuleRead, RuleCompare,
         RuleFails, RefuseRule, Collect, GiveUp, Escalate, Killed, Unwind, Cancelled, KillOrLeave,
         SendTerm, UnchangedData, workerVars

LEMMA TaskGot ==
    ASSUME BaseInv, GotInv, NEW k \in Jobs, TaskSteps(k)
    PROVE  GotInv'
<1>1. UNCHANGED <<args, reply>>
  BY TaskReach
<1>2. CASE UNCHANGED got
  BY <1>1, <1>2 DEF GotInv
<1>3. CASE RuleReplace(k)
  BY <1>1, <1>3 DEF GotInv, RuleReplace, BaseInv, BatchTypeOK, WorkerTypeOK
<1> QED
  BY <1>2, <1>3, TaskTold

(* What was told stays told: a worker that still reads has a task that has *)
(* returned nothing.                                                       *)
LEMMA ToldStays ==
    ASSUME BaseInv, args' = args,
           \A j \in Jobs : outcome[j] = "success" => outcome'[j] = "success" /\ got'[j] = got[j]
    PROVE  ToldInFull \subseteq ToldInFull'
  BY DEF ToldInFull, Told

LEMMA ProcessCache ==
    ASSUME BaseInv, TaskInv, ShellInv, CacheIsKnown, NEW k \in Jobs, ProcessSteps(k)
    PROVE  CacheIsKnown'
<1> USE DEF BaseInv, BatchTypeOK, WorkerTypeOK
<1>1. UNCHANGED <<outcome, cache, args>>
  BY DEF ProcessSteps, batchVars, taskVars, WorkerSteps, Read, Compare, Replace, Fail, Search,
         Fork, Register, Overrun, LeaderLeft, TermGroup, KillGroup, Sweep, Clear, Answer, Crash,
         ShellSteps, LeaderExits, Background, RestExits, Scribble
<1>2. CASE Read(k)
  <2>1. worker[k] = "ready" /\ \A j \in Jobs : j # k => got'[j] = got[j]
    BY <1>2 DEF Read, Conclude, Step
  <2>2. task[k] # "done"
    BY <2>1 DEF TaskInv, ShellInv, Live, Ended
  <2>3. outcome[k] \notin {"success", "unchanged"}
    BY <2>2, NoneIsNoOutcome DEF TaskInv
  <2>4. ToldInFull \subseteq ToldInFull'
    BY <1>1, <2>1, <2>3, ToldStays
  <2> QED
    BY <1>1, <2>1, <2>3, <2>4 DEF CacheIsKnown
<1>3. CASE ~Read(k)
  <2>1. UNCHANGED got
    BY <1>3 DEF ProcessSteps, WorkerSteps, Compare, Replace, Fail, Search, Fork, Register,
         Overrun, LeaderLeft, TermGroup, KillGroup, Sweep, Clear, Answer, Crash,
         ShellSteps, LeaderExits, Background, RestExits, Scribble
  <2> QED
    BY <1>1, <2>1 DEF CacheIsKnown, ToldInFull, Told
<1> QED
  BY <1>2, <1>3

LEMMA QuietGot ==
    ASSUME UNCHANGED <<workerVars, taskVars>>
    PROVE  (GotInv => GotInv') /\ (CacheIsKnown => CacheIsKnown')
  BY DEF GotInv, CacheIsKnown, ToldInFull, Told, workerVars, taskVars

LEMMA TaskCache ==
    ASSUME BaseInv, TaskInv, GotInv, CacheIsKnown, NEW k \in Jobs, TaskSteps(k)
    PROVE  CacheIsKnown'
<1> USE DEF BaseInv, BatchTypeOK, WorkerTypeOK
<1>1. /\ args' = args
      /\ task[k] # "done"
      /\ \A j \in Jobs : j # k => outcome'[j] = outcome[j]
  <2>1. args' = args
    BY TaskReach
  <2>2. task[k] # "done"
    BY DEF TaskSteps, StartLocal, StartWorker, StartWrite, WriteTurn, RuleRead, RuleCompare,
           RuleReplace, RuleFails, MyTurn, Collect, GiveUp, Escalate, Killed, Unwind, Cancelled,
           At, Within
  <2>3. UNCHANGED outcome \/ \E o : Return(k, o)
    BY DEF TaskSteps, StartLocal, StartWorker, StartWrite, WriteTurn, RuleRead, RuleCompare,
           RuleReplace, RuleFails, RefuseRule, Collect, Cached, GiveUp, Escalate, Killed, Unwind,
           Cancelled, KillOrLeave, SendTerm, Goto, batchVars, taskVars
  <2> QED
    BY <2>1, <2>2, <2>3 DEF Return
<1>2. outcome[k] = None
  BY <1>1 DEF TaskInv
<1>3. (\A j \in Jobs : j # k => got'[j] = got[j]) => ToldInFull \subseteq ToldInFull'
  BY <1>1, <1>2, NoneIsNoOutcome, ToldStays
<1>4. CASE RuleReplace(k)
  <2>1. /\ got'[k] = Merged(k, snapshot[k]) /\ cache' = Merged(k, snapshot[k])
        /\ outcome'[k] = "success"
        /\ \A j \in Jobs : j # k => got'[j] = got[j]
    BY <1>4 DEF RuleReplace, Remember, Return
  <2>2. args[k].tool = "rule"
    BY <1>4 DEF RuleReplace
  <2>3. cache' \in ToldInFull'
    BY <1>1, <2>1, <2>2 DEF ToldInFull, Told
  <2> QED
    BY <1>1, <1>3, <2>1, <2>3 DEF CacheIsKnown
<1>5. CASE Collect(k)
  <2>1. UNCHANGED <<got, reply>>
    BY <1>5 DEF Collect, workerVars
  <2>2. CASE worker[k] # "answered" \/ reply[k] # "success" \/ args[k].tool \notin {"read", "write"}
    <3>1. UNCHANGED cache /\ outcome'[k] \in {reply[k], "error"}
      BY <1>5, <2>2 DEF Collect, Cached, Return
    <3>2. outcome'[k] # "unchanged"
      BY <3>1, NoneIsNoOutcome DEF Replies
    <3> QED
      BY <1>1, <1>3, <2>1, <3>1, <3>2 DEF CacheIsKnown
  <2>3. CASE worker[k] = "answered" /\ reply[k] = "success" /\ args[k].tool = "read"
    <3>1. /\ cache' = got[k] /\ got[k] # None
          /\ outcome'[k] = IF cache = got[k] THEN "unchanged" ELSE "success"
      BY <1>5, <2>3 DEF Collect, Cached, Return, Remember, GotInv
    <3>2. CASE cache = got[k]
      BY <1>1, <1>3, <2>1, <3>1, <3>2 DEF CacheIsKnown
    <3>3. CASE cache # got[k]
      <4>1. got[k] \in ToldInFull'
        BY <1>1, <2>1, <2>3, <3>1, <3>3 DEF ToldInFull, Told
      <4> QED
        BY <1>1, <1>3, <2>1, <3>1, <3>3, <4>1 DEF CacheIsKnown
    <3> QED
      BY <3>2, <3>3
  <2>4. CASE worker[k] = "answered" /\ reply[k] = "success" /\ args[k].tool = "write"
    <3>1. cache' = args[k].new /\ outcome'[k] = "success"
      BY <1>5, <2>4 DEF Collect, Cached, Return, Remember
    <3>2. args[k].new \in ToldInFull'
      BY <1>1, <2>4, <3>1 DEF ToldInFull, Told
    <3> QED
      BY <1>1, <1>3, <2>1, <3>1, <3>2 DEF CacheIsKnown
  <2> QED
    BY <2>2, <2>3, <2>4
<1>6. CASE UNCHANGED got /\ ~Collect(k) /\ ~RuleReplace(k)
  <2> DEFINE Ends == \/ UNCHANGED outcome
                     \/ \E o \in {"success", "full", "conflict", "error", "late", "cancelled",
                                 None} : Return(k, o)
  <2>1. UNCHANGED cache
    BY <1>6 DEF TaskSteps, StartLocal, StartWorker, StartWrite, WriteTurn, RuleRead, RuleCompare,
           RuleFails, GiveUp, Escalate, Killed, Unwind, Cancelled, batchVars, taskVars
  <2>2. Ends
    BY <1>6 DEF TaskSteps, StartLocal, StartWorker, StartWrite, WriteTurn, RuleRead, RuleCompare,
           RuleFails, RefuseRule, GiveUp, Escalate, Killed, Unwind, Cancelled, KillOrLeave,
           SendTerm, Goto, batchVars, taskVars
  <2>3. outcome'[k] # "unchanged"
    BY <1>2, <2>2, NoneIsNoOutcome DEF Return
  <2> QED
    BY <1>1, <1>3, <1>6, <2>1, <2>3 DEF CacheIsKnown
<1> QED
  BY <1>4, <1>5, <1>6, TaskTold

-----------------------------------------------------------------------------
(* The inductive invariant.                                                *)

IInv == BaseInv /\ TaskInv /\ ShellInv /\ LineInv /\ EffectInv /\ GotInv /\ CacheIsKnown

LEMMA InitInvariant == Init => IInv
  BY InitBase, InitTasks, InitShells, InitLine, InitEffects, InitGot DEF IInv

LEMMA NextInvariant == IInv /\ [Next]_vars => IInv'
<1> SUFFICES ASSUME IInv, [Next]_vars PROVE IInv'
  OBVIOUS
<1> USE DEF IInv
<1>1. CASE StageSteps \/ UNCHANGED vars
  <2>1. UNCHANGED <<workerVars, taskVars>>
    BY <1>1, QuietSteps
  <2>2. UNCHANGED <<line, task, args>>
    BY <2>1 DEF workerVars, taskVars
  <2>3. BaseInv'
    BY <1>1, StageBase, StutterBase
  <2>4. UNCHANGED workerVars
    BY <2>1
  <2> QED
    BY <2>1, <2>2, <2>3, <2>4, QuietTasks, QuietShells, QuietLine, QuietEffects, QuietGot
<1>2. ASSUME NEW k \in Jobs, TaskSteps(k) PROVE IInv'
  BY <1>2, TaskBase, TaskTasks, TaskShells, TaskLine, TaskEffects, TaskGot, TaskCache
<1>3. ASSUME NEW k \in Jobs, ProcessSteps(k) PROVE IInv'
  <2>1. BaseInv' /\ TaskInv' /\ CacheIsKnown'
    BY <1>3, ProcessBase, ProcessTasks, ProcessCache
  <2>2. UNCHANGED batchVars /\ UNCHANGED <<line, task>>
    BY <1>3 DEF ProcessSteps, batchVars, taskVars
  <2>3. CASE WorkerSteps(k) \/ Crash(k)
    <3>1. UNCHANGED args
      BY <2>3, WorkerMoves DEF BaseInv
    <3> QED
      BY <2>1, <2>2, <2>3, <3>1, WorkerShells, WorkerEffects, WorkerGot, QuietLine
  <2>4. CASE ShellSteps(k, Writing)
    <3>1. UNCHANGED args
      BY <2>4 DEF ShellSteps, LeaderExits, Background, RestExits, Scribble
    <3> QED
      BY <2>1, <2>2, <2>4, <3>1, ShellShells, ShellEffects, ShellGot, QuietLine
  <2> QED
    BY <1>3, <2>3, <2>4 DEF ProcessSteps
<1> QED
  BY <1>1, <1>2, <1>3 DEF Next

THEOREM BatchInvariant == Spec => []IInv
  BY InitInvariant, NextInvariant, PTL DEF Spec

(* Every variable of a batch, its workers and their shells keeps its type; *)
(* no task is reached by more than two cancellations.                      *)
THEOREM BatchTypeCorrect == Spec => []BatchTypeOK
<1>1. IInv => BatchTypeOK
  BY DEF IInv, BaseInv
<1> QED
  BY <1>1, BatchInvariant, PTL

(* A call whose task was cancelled at most once leaves no worker process   *)
(* behind (_kill_process_group waits for the end of what it kills).        *)
THEOREM ReapingSafety == Spec => []WorkersReaped
<1>1. IInv => WorkersReaped
  BY DEF IInv, TaskInv, WorkersReaped
<1> QED
  BY <1>1, BatchInvariant, PTL

(* A bash_exec that was answered leaves no shell, and after a success no   *)
(* background process that obeys SIGTERM (_kill_group in both its forms).  *)
THEOREM ShellSafety == Spec => []ShellsReaped
<1>1. IInv => ShellsReaped
  BY DEF IInv, ShellInv, ShellsReaped
<1> QED
  BY <1>1, BatchInvariant, PTL

(* "unchanged" is answered only for a content that the run was given in    *)
(* full or wrote itself (the read cache of RunWorkspace).                  *)
THEOREM CacheSafety == Spec => []CacheIsKnown
<1>1. IInv => CacheIsKnown
  BY DEF IInv
<1> QED
  BY <1>1, BatchInvariant, PTL

-----------------------------------------------------------------------------
(* The canonical file is a register with compare-and-swap.                 *)

LEMMA InitRegister == Init => Promise!Init
<1> SUFFICES ASSUME Init PROVE Promise!Init
  OBVIOUS
<1>1. PICK b \in Batches : file = b[2]
  BY DEF Init, WorkerInit
<1>2. file \in Contents
  BY <1>1, BatchesAssumption
<1> QED
  BY <1>2 DEF Init, WorkerInit, Promise!Init, Promise!Contents, Contents

(* A worker's compare is where its write is declined, and its replacement  *)
(* of the file where it takes effect; nothing else it does is visible.     *)
LEMMA WorkerRegister ==
    ASSUME IInv, NEW k \in Jobs, WorkerSteps(k) \/ Crash(k), UNCHANGED batchVars
    PROVE  [Promise!Next]_(Promise!vars)
<1> USE DEF IInv, BaseInv, BatchTypeOK, WorkerTypeOK
<1>1. UNCHANGED outcome
  BY DEF batchVars, taskVars
<1>2. CASE Compare(k)
  <2>1. CASE file = args[k].expected
    BY <1>1, <1>2, <2>1 DEF Compare, Promise!vars
  <2>2. CASE file # args[k].expected
    <3>1. /\ args[k].tool = "write" /\ worker[k] = "ready"
          /\ effect' = [effect EXCEPT ![k] = "declined"] /\ UNCHANGED <<args, file, under>>
      BY <1>2, <2>2 DEF Compare, Conclude, Step
    <3>2. effect[k] = "none"
      BY <3>1 DEF EffectInv
    <3>3. Promise!Decline(k)
      BY <1>1, <3>1, <3>2 DEF Promise!Decline, Promise!Writers, Promise!MayReply
    <3> QED
      BY <3>3 DEF Promise!Next
  <2> QED
    BY <2>1, <2>2
<1>3. CASE Replace(k)
  <2>1. /\ worker[k] = "compared" /\ file' = args[k].new
        /\ effect' = [effect EXCEPT ![k] = "took"] /\ UNCHANGED <<args, under>>
    BY <1>3 DEF Replace, Conclude, Step
  <2>2. args[k].tool = "write" /\ effect[k] = "none" /\ Promise!Seen(k) = args[k].expected
    BY <2>1 DEF EffectInv, Seen, Promise!Seen
  <2>3. Promise!Take(k)
    BY <1>1, <2>1, <2>2 DEF Promise!Take, Promise!Writers, Promise!MayReply
  <2> QED
    BY <2>3 DEF Promise!Next
<1>4. CASE ~Compare(k) /\ ~Replace(k)
  <2>1. UNCHANGED <<args, file, effect, under>>
    BY <1>4 DEF WorkerSteps, Read, Fail, Search, Fork, Register, Overrun, LeaderLeft,
           TermGroup, KillGroup, Sweep, Clear, Answer, Crash
  <2> QED
    BY <1>1, <2>1 DEF Promise!vars
<1> QED
  BY <1>2, <1>3, <1>4

(* A shell writes the file under the calls that have compared.             *)
LEMMA ShellRegister ==
    ASSUME IInv, NEW k \in Jobs, ShellSteps(k, Writing), UNCHANGED batchVars
    PROVE  [Promise!Next]_(Promise!vars)
<1> USE DEF IInv, BaseInv, BatchTypeOK, WorkerTypeOK
<1>1. UNCHANGED outcome
  BY DEF batchVars, taskVars
<1>2. CASE Scribble(k, Writing)
  <2>1. file' \in Promise!Contents
    BY <1>2, ScribblesAssumption DEF Scribble, Promise!Contents, Contents
  <2>2. Writing \subseteq {j \in Promise!Writers : effect[j] = "none"}
    <3>1. ASSUME NEW j \in Writing PROVE j \in Promise!Writers /\ effect[j] = "none"
      <4>1. j \in Jobs
        BY DEF Writing
      <4> QED
        BY <3>1, <4>1, WritingHolds DEF EffectInv, Promise!Writers
    <3> QED
      BY <3>1
  <2>3. /\ under' = [i \in Jobs |-> IF i \in Writing /\ under[i] = None THEN file ELSE under[i]]
        /\ UNCHANGED <<args, effect>>
    BY <1>2 DEF Scribble
  <2>4. Promise!Scribble
    BY <1>1, <2>1, <2>2, <2>3 DEF Promise!Scribble
  <2> QED
    BY <2>4 DEF Promise!Next
<1>3. CASE ~Scribble(k, Writing)
  BY <1>1, <1>3 DEF ShellSteps, LeaderExits, Background, RestExits, Promise!vars
<1> QED
  BY <1>2, <1>3

(* A task that returns answers truthfully.                                 *)
LEMMA TaskAnswers ==
    ASSUME IInv, NEW k \in Jobs, TaskSteps(k), ~RuleSteps(k)
    PROVE  /\ UNCHANGED <<args, file, effect, under>>
           /\ \/ UNCHANGED outcome
              \/ \E o \in Promise!Answers :
                   /\ outcome[k] = None /\ outcome' = [outcome EXCEPT ![k] = o]
                   /\ k \in Promise!Writers => Promise!Truthful(o, effect[k])
<1> USE DEF IInv, BaseInv, BatchTypeOK, WorkerTypeOK, RuleSteps, Promise!Answers,
            Promise!Writers, Promise!Truthful
<1>1. UNCHANGED <<args, file, effect, under>>
  <2>1. UNCHANGED <<args, under>>
    BY TaskReach
  <2>2. UNCHANGED <<file, effect>>
    BY DEF TaskSteps, StartLocal, StartWorker, StartWrite, WriteTurn, Collect, GiveUp,
           Escalate, Killed, Unwind, Cancelled, KillOrLeave, SendTerm, UnchangedData, workerVars
  <2> QED
    BY <2>1, <2>2
<1>2. CASE StartLocal(k)
  BY <1>1, <1>2 DEF StartLocal, At, Return, TaskInv
<1>3. CASE StartWorker(k) \/ StartWrite(k) \/ WriteTurn(k) \/ GiveUp(k) \/ Escalate(k)
  BY <1>1, <1>3 DEF StartWorker, StartWrite, WriteTurn, GiveUp, Escalate, SendTerm, Goto,
                    batchVars, taskVars
<1>4. CASE Collect(k)
  <2>1. worker[k] # "none" /\ outcome[k] = None
    BY <1>4 DEF Collect, At, TaskInv
  <2>2. args[k].tool # "rule"
    BY <2>1 DEF EffectInv
  <2>5. CASE outcome' = [outcome EXCEPT ![k] = "error"]
    BY <1>1, <2>1, <2>5
  <2>3. CASE args[k].tool = "write" /\ worker[k] = "answered"
    <3>1. outcome' = [outcome EXCEPT ![k] = reply[k]]
      BY <1>4, <2>3 DEF Collect, Cached, Return
    <3>2. CASE reply[k] = None
      BY <1>1, <2>1, <3>1, <3>2
    <3>3. CASE reply[k] # None
      <4>1. reply[k] \in Replies
        BY <3>3
      <4>2. /\ reply[k] = "success" => effect[k] = "took"
            /\ reply[k] = "conflict" => effect[k] = "declined"
            /\ reply[k] # "full"
        BY <2>3, <4>1 DEF EffectInv, Replies
      <4> QED
        BY <1>1, <2>1, <3>1, <4>1, <4>2 DEF Replies
    <3> QED
      BY <3>2, <3>3
  <2>4. CASE args[k].tool # "write" /\ worker[k] = "answered"
    <3>1. PICK o \in Replies \cup {None, "unchanged"} : outcome' = [outcome EXCEPT ![k] = o]
      BY <1>4 DEF Collect, Cached, Return, Replies
    <3>2. k \notin Promise!Writers
      BY <2>2, <2>4
    <3>3. o \in Promise!Answers \/ UNCHANGED outcome
      BY <2>1, <3>1 DEF Replies
    <3> QED
      BY <1>1, <2>1, <3>1, <3>2, <3>3
  <2> QED
    BY <1>4, <2>3, <2>4, <2>5 DEF Collect, Return
<1>5. CASE Killed(k)
  <2>1. why[k] \in {"late", "cancelled"} /\ outcome[k] = None
    BY <1>5 DEF Killed, At, TaskInv
  <2> QED
    BY <1>1, <1>5, <2>1 DEF Killed, Return
<1>6. CASE Unwind(k) \/ Cancelled(k)
  <2>1. outcome[k] = None
    BY <1>6 DEF Unwind, Cancelled, At, TaskInv
  <2>2. UNCHANGED outcome \/ outcome' = [outcome EXCEPT ![k] = "cancelled"]
    BY <1>6 DEF Unwind, Cancelled, KillOrLeave, SendTerm, Return, Goto
  <2> QED
    BY <1>1, <2>1, <2>2
<1> QED
  BY <1>2, <1>3, <1>4, <1>5, <1>6 DEF TaskSteps

(* A rule is declined where it is refused and takes effect where it        *)
(* replaces the file; its read and its compare are not visible.            *)
LEMMA RuleRegister ==
    ASSUME IInv, NEW k \in Jobs, RuleSteps(k)
    PROVE  [Promise!Next]_(Promise!vars)
<1> USE DEF IInv, BaseInv, BatchTypeOK, WorkerTypeOK
<1>1. args[k].tool = "rule" /\ task[k] # "done" /\ UNCHANGED <<args, under>>
  BY RuleReach DEF Stretch
<1>2. outcome[k] = None /\ effect[k] = "none" /\ k \in Promise!Writers
  BY <1>1 DEF TaskInv, EffectInv, Promise!Writers
<1>3. CASE RuleReplace(k)
  <2>1. Promise!Seen(k) = snapshot[k]
    BY <1>1, <1>3 DEF RuleReplace, Within, EffectInv, Seen, Promise!Seen
  <2>2. file' = Promise!With(Promise!Seen(k), args[k].rule)
    BY <1>3, <2>1 DEF RuleReplace, Merged, Promise!With
  <2>3. effect' = [effect EXCEPT ![k] = "took"] /\ outcome' = [outcome EXCEPT ![k] = "success"]
    BY <1>3 DEF RuleReplace, Return
  <2>4. Promise!Reply(k)
    BY <1>2, <2>3 DEF Promise!Reply, Promise!Answers, Promise!Truthful
  <2>5. Promise!Take(k)
    BY <1>1, <1>2, <2>2, <2>3, <2>4 DEF Promise!Take, Promise!MayReply
  <2> QED
    BY <2>5 DEF Promise!Next
<1>4. ASSUME NEW o \in {"full", "conflict"}, RefuseRule(k, o), UNCHANGED file
      PROVE  [Promise!Next]_(Promise!vars)
  <2>1. /\ effect' = [effect EXCEPT ![k] = "declined"]
        /\ outcome' = [outcome EXCEPT ![k] = o]
    BY <1>4 DEF RefuseRule, Return
  <2>2. Promise!Reply(k)
    BY <1>2, <2>1 DEF Promise!Reply, Promise!Answers, Promise!Truthful
  <2>3. Promise!Decline(k)
    BY <1>1, <1>2, <1>4, <2>1, <2>2 DEF Promise!Decline, Promise!MayReply
  <2> QED
    BY <2>3 DEF Promise!Next
<1>5. CASE RuleFails(k)
  <2>1. UNCHANGED <<file, effect>> /\ outcome' = [outcome EXCEPT ![k] = "error"]
    BY <1>5 DEF RuleFails, Return, workerVars
  <2>2. Promise!JustReply(k)
    BY <1>1, <1>2, <2>1 DEF Promise!JustReply, Promise!Reply, Promise!Answers, Promise!Truthful
  <2> QED
    BY <2>2 DEF Promise!Next
<1>6. CASE UNCHANGED <<file, effect, outcome>>
  BY <1>1, <1>6 DEF Promise!vars
<1> QED
  BY <1>3, <1>4, <1>5, <1>6 DEF RuleSteps, RuleRead, RuleCompare, Goto

LEMMA NextRegister == IInv /\ [Next]_vars => [Promise!Next]_(Promise!vars)
<1> SUFFICES ASSUME IInv, [Next]_vars PROVE [Promise!Next]_(Promise!vars)
  OBVIOUS
<1>1. CASE StageSteps \/ UNCHANGED vars
  BY <1>1, QuietSteps DEF workerVars, taskVars, Promise!vars
<1>2. ASSUME NEW k \in Jobs, TaskSteps(k) PROVE [Promise!Next]_(Promise!vars)
  <2>1. CASE RuleSteps(k)
    BY <2>1, RuleRegister
  <2>2. CASE ~RuleSteps(k)
    <3>1. CASE UNCHANGED outcome
      BY <1>2, <2>2, <3>1, TaskAnswers DEF Promise!vars
    <3>2. CASE ~ UNCHANGED outcome
      <4>1. Promise!JustReply(k)
        BY <1>2, <2>2, <3>2, TaskAnswers DEF Promise!JustReply, Promise!Reply
      <4> QED
        BY <4>1 DEF Promise!Next
    <3> QED
      BY <3>1, <3>2
  <2> QED
    BY <2>1, <2>2
<1>3. ASSUME NEW k \in Jobs, ProcessSteps(k) PROVE [Promise!Next]_(Promise!vars)
  BY <1>3, WorkerRegister, ShellRegister DEF ProcessSteps
<1> QED
  BY <1>1, <1>2, <1>3 DEF Next

(* Every write_file and record_playbook of a batch takes effect at one     *)
(* instant, or not at all, and its answer says which: the batch implements *)
(* the register (write_bytes under the lock of RunWorkspace).              *)
THEOREM BatchImplementsRegister == Spec => RegisterSpec
<1>1. Init => Promise!Init
  BY InitRegister
<1>2. IInv /\ [Next]_vars => [Promise!Next]_(Promise!vars)
  BY NextRegister
<1> QED
  BY <1>1, <1>2, BatchInvariant, PTL DEF Spec, RegisterSpec, Promise!Spec

-----------------------------------------------------------------------------
(* Every call and the stage only advance.                                  *)

LEMMA DistancesAreBounded ==
    ASSUME BatchTypeOK, NEW j \in Jobs
    PROVE  TaskLeft(j) \in 0 .. 9 /\ WorkerLeft(j) \in 0 .. 8 /\ StageLeft \in 0 .. 3
<1>1. TaskLeft(j) \in 0 .. 9
  BY DEF BatchTypeOK, TaskStates, Stretch, TaskLeft
<1>2. WorkerLeft(j) \in 0 .. 8
  BY DEF BatchTypeOK, WorkerTypeOK, WorkerStates, Ended, WorkerLeft
<1>3. StageLeft \in 0 .. 3
  BY DEF BatchTypeOK, Stages, StageLeft
<1> QED
  BY <1>1, <1>2, <1>3

LEMMA NextDistancesAreBounded ==
    ASSUME BatchTypeOK', NEW j \in Jobs
    PROVE  TaskLeft(j)' \in 0 .. 9 /\ WorkerLeft(j)' \in 0 .. 8
<1>1. TaskLeft(j)' \in 0 .. 9
  BY DEF BatchTypeOK, TaskStates, Stretch, TaskLeft
<1>2. WorkerLeft(j)' \in 0 .. 8
  BY DEF BatchTypeOK, WorkerTypeOK, WorkerStates, Ended, WorkerLeft
<1> QED
  BY <1>1, <1>2

(* A call whose task and worker are where they were is as far as it was.   *)
Stays(j) == /\ task'[j] = task[j] /\ why'[j] = why[j] /\ retried'[j] = retried[j]
            /\ worker'[j] = worker[j]

LEMMA StayingKeepsDistance ==
    ASSUME NEW j \in Jobs, Stays(j)
    PROVE  CallLeft(j)' = CallLeft(j)
  BY DEF Stays, CallLeft, TaskLeft, WorkerLeft

(* A step of a worker leads to a later place of it.                        *)
LEMMA WorkerAdvances ==
    ASSUME BatchTypeOK, BatchTypeOK', NEW k \in Jobs, WorkerSteps(k) \/ Crash(k),
           UNCHANGED batchVars
    PROVE  CallLeft(k)' < CallLeft(k)
<1>1. TaskLeft(k)' = TaskLeft(k)
  BY DEF TaskLeft, batchVars, taskVars
<1>2. \E from, to \in WorkerStates :
         /\ worker[k] = from /\ worker'[k] = to
         /\ \/ from = "ready" /\ to \in {"compared", "forked", "answer"}
            \/ from = "compared" /\ to = "answer"
            \/ from = "forked" /\ to = "monitor"
            \/ from = "monitor" /\ to \in {"giveup", "sweep"}
            \/ from = "giveup" /\ to \in {"wait", "clear"}
            \/ from \in {"wait", "sweep"} /\ to = "clear"
            \/ from = "clear" /\ to \in {"gone", "answer"}
            \/ from = "answer" /\ to = "answered"
            \/ from \notin Ended \cup {"none", "stuck"} /\ to = "crashed"
  BY DEF WorkerSteps, Read, Compare, Replace, Fail, Search, Fork, Register, Overrun, LeaderLeft,
         TermGroup, KillGroup, Sweep, Clear, Answer, Crash, Live, Step, Conclude, BatchTypeOK,
         WorkerTypeOK, WorkerStates, Ended
<1>3. WorkerLeft(k)' < WorkerLeft(k)
  BY <1>2 DEF WorkerLeft, WorkerStates, Ended
<1> QED
  BY <1>1, <1>3, DistancesAreBounded, NextDistancesAreBounded DEF CallLeft

(* A step of a task leads to a later place of it, or kills its worker.     *)
LEMMA TaskDescends ==
    ASSUME BatchTypeOK, TaskInv, NEW k \in Jobs, TaskSteps(k), ~Escalate(k)
    PROVE  TaskLeft(k)' < TaskLeft(k)
<1> USE DEF BatchTypeOK, Goto, Return, At, TaskLeft
<1>1. CASE StartLocal(k) \/ StartWorker(k) \/ StartWrite(k)
  BY <1>1 DEF StartLocal, StartWorker, StartWrite
<1>2. CASE WriteTurn(k)
  BY <1>2 DEF WriteTurn
<1>3. CASE RuleRead(k)
  <2>1. \/ task[k] = "new" /\ task'[k] \in {"lock", "compare", "done"}
        \/ task[k] = "again" /\ task'[k] \in {"lock", "compare", "done"}
    BY <1>3 DEF RuleRead, Within, RefuseRule
  <2>2. retried' = retried
    BY <1>3 DEF RuleRead
  <2>3. task[k] = "again" => retried[k]
    BY <1>3 DEF TaskInv
  <2> QED
    BY <2>1, <2>2, <2>3
<1>4. CASE RuleCompare(k) \/ RuleReplace(k) \/ RuleFails(k)
  <2>1. CASE task[k] \in {"lock", "compare"} /\ task'[k] = "replace"
    BY <2>1
  <2>2. CASE task[k] \in {"lock", "compare"} /\ ~retried[k] /\ task'[k] = "again"
    BY <2>2
  <2>3. CASE task[k] \in {"new", "lock", "compare", "again", "replace"} /\ task'[k] = "done"
    BY <2>3
  <2>4. task[k] \in {"new", "lock", "compare", "again", "replace"}
    BY <1>4 DEF RuleCompare, RuleReplace, RuleFails, MyTurn, Within
  <2> QED
    BY <1>4, <2>1, <2>2, <2>3, <2>4
       DEF RuleCompare, RuleReplace, RuleFails, MyTurn, Within, RefuseRule
<1>5. CASE Collect(k) \/ Killed(k)
  <2>1. task'[k] = "done" /\ task[k] # "done"
    BY <1>5 DEF Collect, Cached, Killed
  <2> QED
    BY <2>1 DEF TaskStates, Stretch
<1>6. CASE GiveUp(k)
  <2>1. task[k] = "collect" /\ task'[k] = "killing" /\ why'[k] = "late"
    BY <1>6 DEF GiveUp, SendTerm
  <2> QED
    BY <2>1
<1>7. CASE Unwind(k)
  <2>1. task[k] = "unwind"
        /\ (task'[k] = "done" \/ (task'[k] = "killing" /\ why'[k] = "cancelled"))
    BY <1>7 DEF Unwind, KillOrLeave, SendTerm
  <2> QED
    BY <2>1
<1>8. CASE Cancelled(k)
  <2>1. \/ task[k] \in {"new", "lock", "unwind"} /\ task'[k] = "done"
        \/ task[k] = "killing" /\ why[k] = "cancelled" /\ task'[k] = "done"
        \/ task[k] = "collect" /\ task'[k] = "unwind"
        \/ task[k] = "killing" /\ why[k] = "late" /\ task'[k] = "unwind"
        \/ task[k] = "unwind" /\ task'[k] = "killing" /\ why'[k] = "cancelled"
    BY <1>8 DEF Cancelled, KillOrLeave, SendTerm
  <2> QED
    BY <2>1
<1> QED
  BY <1>1, <1>2, <1>3, <1>4, <1>5, <1>6, <1>7, <1>8 DEF TaskSteps

LEMMA TaskAdvances ==
    ASSUME BatchTypeOK, BatchTypeOK', TaskInv, NEW k \in Jobs, TaskSteps(k)
    PROVE  CallLeft(k)' < CallLeft(k)
<1>1. CASE Escalate(k)
  <2>1. TaskLeft(k)' = TaskLeft(k)
    BY <1>1 DEF Escalate, TaskLeft, batchVars, taskVars
  <2>2. WorkerLeft(k)' < WorkerLeft(k)
    BY <1>1 DEF Escalate, Kill, Live, WorkerLeft, Ended, BatchTypeOK, WorkerTypeOK, WorkerStates
  <2> QED
    BY <2>1, <2>2, DistancesAreBounded, NextDistancesAreBounded DEF CallLeft
<1>2. CASE ~Escalate(k)
  BY <1>2, TaskDescends, DistancesAreBounded, NextDistancesAreBounded DEF CallLeft
<1> QED
  BY <1>1, <1>2

(* A task moves no other call.                                             *)
LEMMA OthersStay ==
    ASSUME BatchTypeOK, NEW k \in Jobs, TaskSteps(k), NEW j \in Jobs, j # k
    PROVE  Stays(j)
<1> USE DEF BatchTypeOK, WorkerTypeOK, Stays
<1>1. worker'[j] = worker[j]
  BY TaskReach DEF Spawn, Step, Terminate, Kill
<1>2. task'[j] = task[j]
  BY DEF TaskSteps, StartLocal, StartWorker, StartWrite, WriteTurn, RuleRead,
         RuleCompare, RuleReplace, RuleFails, Collect, GiveUp, Escalate, Killed, Unwind,
         Cancelled, KillOrLeave, SendTerm, RefuseRule, Cached, Goto, Return, batchVars, taskVars
<1>3. why'[j] = why[j] /\ retried'[j] = retried[j]
  BY DEF TaskSteps, StartLocal, StartWorker, StartWrite, WriteTurn, RuleRead,
         RuleCompare, RuleReplace, RuleFails, Collect, GiveUp, Escalate, Killed, Unwind,
         Cancelled, KillOrLeave, SendTerm, batchVars, taskVars
<1> QED
  BY <1>1, <1>2, <1>3

LEMMA StageAdvances ==
    ASSUME StageSteps
    PROVE  StageLeft' < StageLeft
  BY DEF StageSteps, Results, Interrupt, ReapTasks, Reaped, BotDies, LoopRuns, StageLeft

Advances ==
    /\ StageLeft' <= StageLeft
    /\ \A j \in Jobs : CallLeft(j)' <= CallLeft(j)
    /\ \/ StageLeft' < StageLeft
       \/ \E j \in Jobs : CallLeft(j)' < CallLeft(j)
       \/ UNCHANGED <<batchVars, worker, reply, got, signalled, effect>>

LEMMA NextAdvances == IInv /\ IInv' /\ [Next]_vars => [Advances]_vars
<1> SUFFICES ASSUME IInv, IInv', Next PROVE Advances
  OBVIOUS
<1>1. BatchTypeOK /\ BatchTypeOK'
  BY DEF IInv, BaseInv
<1>2. \A j \in Jobs : CallLeft(j) \in Nat
  BY <1>1, DistancesAreBounded DEF CallLeft
<1>3. StageLeft \in Nat
  BY <1>1 DEF BatchTypeOK, Stages, StageLeft
<1>4. CASE StageSteps
  <2>1. \A j \in Jobs : Stays(j)
    BY <1>4, QuietSteps DEF workerVars, taskVars, Stays
  <2>2. \A j \in Jobs : CallLeft(j)' = CallLeft(j)
    BY <2>1, StayingKeepsDistance
  <2>3. StageLeft' < StageLeft /\ StageLeft' \in Nat
    BY <1>1, <1>4, StageAdvances DEF BatchTypeOK, Stages, StageLeft
  <2> QED
    BY <1>2, <1>3, <2>2, <2>3 DEF Advances
<1>5. ASSUME NEW k \in Jobs, TaskSteps(k)
      PROVE  Advances
  <2>1. \A j \in Jobs : j # k => CallLeft(j)' = CallLeft(j)
    BY <1>1, <1>5, OthersStay, StayingKeepsDistance
  <2>2. CallLeft(k)' < CallLeft(k) /\ CallLeft(k)' \in Nat
    BY <1>1, <1>5, TaskAdvances, NextDistancesAreBounded DEF IInv, CallLeft
  <2>3. stage' = stage
    BY <1>5, CalmSteps DEF Calm, Cancelled
  <2>4. StageLeft' = StageLeft
    BY <2>3 DEF StageLeft
  <2> QED
    BY <1>2, <1>3, <2>1, <2>2, <2>4 DEF Advances
<1>6. ASSUME NEW k \in Jobs, ProcessSteps(k)
      PROVE  Advances
  <2>1. UNCHANGED batchVars
    BY <1>6 DEF ProcessSteps
  <2>2. StageLeft' = StageLeft
    BY <2>1 DEF StageLeft, batchVars
  <2>3. CASE WorkerSteps(k) \/ Crash(k)
    <3>1. \A j \in Jobs : j # k => Stays(j)
      BY <1>1, <2>1, <2>3, WorkerMoves DEF batchVars, taskVars, Stays
    <3>2. \A j \in Jobs : j # k => CallLeft(j)' = CallLeft(j)
      BY <3>1, StayingKeepsDistance
    <3>3. CallLeft(k)' < CallLeft(k) /\ CallLeft(k)' \in Nat
      BY <1>1, <2>1, <2>3, WorkerAdvances, NextDistancesAreBounded DEF CallLeft
    <3> QED
      BY <1>2, <1>3, <2>2, <3>2, <3>3 DEF Advances
  <2>4. CASE ShellSteps(k, Writing)
    <3>1. UNCHANGED <<worker, reply, got, signalled, effect>>
      BY <2>4 DEF ShellSteps, LeaderExits, Background, RestExits, Scribble, shellVars
    <3>2. \A j \in Jobs : Stays(j)
      BY <2>1, <3>1 DEF batchVars, taskVars, Stays
    <3>3. \A j \in Jobs : CallLeft(j)' = CallLeft(j)
      BY <3>2, StayingKeepsDistance
    <3> QED
      BY <1>2, <1>3, <2>1, <2>2, <3>1, <3>3 DEF Advances
  <2> QED
    BY <1>6, <2>3, <2>4 DEF ProcessSteps
<1> QED
  BY <1>4, <1>5, <1>6 DEF Next

(* Neither timeouts nor cancellations, signals, retries or turns at the    *)
(* lock send a call back (execute_tools_in_parallel, run_worker, _reap):   *)
(* a batch of any size takes a bounded number of steps that are not the    *)
(* shells'.                                                                *)
THEOREM BatchIsBounded == Spec => CallsOnlyAdvance
<1>1. IInv /\ IInv' /\ [Next]_vars => [Advances]_vars
  BY NextAdvances
<1> QED
  BY <1>1, BatchInvariant, PTL DEF Spec, CallsOnlyAdvance, Advances
=============================================================================
