------------------------------ MODULE ToolBatch ------------------------------
(***************************************************************************)
(* One batch of tool calls run in parallel (execute_tools_in_parallel in   *)
(* bot.py, with_deadline and _reap in deadlines.py, run_worker in          *)
(* tool_sandbox.py, the canonical lock and the read cache in               *)
(* run_workspace.py) with the worker processes it starts.                  *)
(*                                                                         *)
(* Each call is a task of the bot's event loop; an action is what a task   *)
(* does between two awaits, or less where another process can come in      *)
(* between: record_playbook reads, compares and replaces the file in three *)
(* steps, which no other task and no cancellation separates (Idle) but a   *)
(* shell of the batch may.  A cancellation is requested at one moment     *)
(* (pending) and reaches the task at its next step, in place of what the   *)
(* task waited for.  A stop and the stage's own deadline cancel the tasks  *)
(* twice: once through gather(), which is over as soon as the first of     *)
(* them is, and again when the batch reaps them.                           *)
(*                                                                         *)
(* Left out: the proxy of a search, the wait for a process to be created   *)
(* and what the tools that finish in their first step do (think,           *)
(* record_state, lookup_trajectory, finish_task).                          *)
(***************************************************************************)
EXTENDS ToolWorker

CONSTANT MaxRules       \* PLAYBOOK_MAX_CHARS, in rules

ASSUME MaxRulesAssumption == MaxRules \in Nat

VARIABLES
    task,       \* where each call's task is
    outcome,    \* what the call returned, None before
    why,        \* what it will return when its worker is dead
    pending,    \* a CancelledError is on its way to it
    cancels,    \* how many have reached it
    line,       \* the canonical lock: its holder and those who wait
    snapshot,   \* the revision that record_playbook has read
    retried,    \* it has met a conflict already
    stage,      \* where execute_tools_in_parallel is
    cache       \* _read_hashes of the file

taskVars == <<task, outcome, why, cancels, line, snapshot, retried, cache>>
batchVars == <<taskVars, pending, stage>>
vars == <<workerVars, batchVars>>

(* A task in a stretch is in the middle of a turn of the event loop.       *)
Stretch == {"again", "compare", "replace"}
TaskStates == Stretch \cup {"new", "lock", "collect", "unwind", "killing", "done"}
Outcomes == Replies \cup {"unchanged", "full", "cancelled"}
ASSUME NoneAssumption == None \notin Outcomes /\ \A text \in Contents : text # None

Stages == {"running", "cancelling", "reaping", "over", "dead"}

BatchTypeOK ==
    /\ WorkerTypeOK
    /\ task \in [Jobs -> TaskStates]
    /\ outcome \in [Jobs -> Outcomes \cup {None}]
    /\ why \in [Jobs -> {"late", "cancelled", None}]
    /\ pending \in [Jobs -> BOOLEAN]
    /\ cancels \in [Jobs -> 0 .. 2]
    /\ line \in Seq(Jobs)
    /\ snapshot \in [Jobs -> {None} \cup Contents]
    /\ retried \in [Jobs -> BOOLEAN]
    /\ stage \in Stages
    /\ cache \in {None} \cup Contents

Init ==
    /\ WorkerInit
    /\ task = [j \in Jobs |-> IF args[j].tool = "none" THEN "done" ELSE "new"]
    /\ outcome = [j \in Jobs |-> None]
    /\ why = [j \in Jobs |-> None]
    /\ pending = [j \in Jobs |-> FALSE]
    /\ cancels = [j \in Jobs |-> 0]
    /\ line = <<>>
    /\ snapshot = [j \in Jobs |-> None]
    /\ retried = [j \in Jobs |-> FALSE]
    /\ stage = "running"
    /\ cache = None

-----------------------------------------------------------------------------
(* The tasks.                                                              *)

LoopRuns == stage \in {"running", "cancelling", "reaping"}
Undone == {j \in Jobs : task[j] # "done"}

(* No task is in the middle of a turn.                                     *)
Idle == \A j \in Jobs : task[j] \notin Stretch

(* The task of j is in state s, the loop runs and nothing interrupts it;   *)
(* or it goes on in the turn that has brought it to s.                     *)
At(j, s) == LoopRuns /\ Idle /\ task[j] = s /\ ~pending[j]
Within(j, s) == LoopRuns /\ task[j] = s

Goto(j, s) == task' = [task EXCEPT ![j] = s] /\ UNCHANGED outcome
Return(j, o) ==
    /\ task' = [task EXCEPT ![j] = "done"]
    /\ outcome' = [outcome EXCEPT ![j] = o]
(* Its place in the line, if it has one, and the line when it has left.    *)
Place(j) == CHOOSE i \in DOMAIN line : line[i] = j
Without(j) ==
    IF \E i \in DOMAIN line : line[i] = j
    THEN SubSeq(line, 1, Place(j) - 1) \o SubSeq(line, Place(j) + 1, Len(line))
    ELSE line
Remember(text) == cache' = text

UnchangedData == UNCHANGED <<args, file, reply, got, shellVars, effect, under>>
UnchangedShell == UNCHANGED <<args, worker, reply, shellVars, signalled, under>>

(* read_file, bash_exec and web_search start their worker at once.         *)
StartWorker(j) ==
    /\ args[j].tool \in {"read", "slice", "bash", "search"}
    /\ At(j, "new")
    /\ Spawn(j) /\ Goto(j, "collect")
    /\ UnchangedData
    /\ UNCHANGED <<why, pending, cancels, line, snapshot, retried, stage, cache>>

StartLocal(j) ==
    /\ args[j].tool = "local"
    /\ At(j, "new")
    /\ Return(j, "success")
    /\ UNCHANGED <<workerVars, why, pending, cancels, line, snapshot, retried, stage, cache>>

StartWriteUnlocked(j) ==
    /\ args[j].tool = "write"
    /\ At(j, "new")
    /\ Spawn(j) /\ Goto(j, "collect")
    /\ UnchangedData
    /\ UNCHANGED <<why, pending, cancels, line, snapshot, retried, stage, cache>>

(* tool_write_file takes the lock of the canonical file before it starts   *)
(* the worker, and keeps it while the worker lives.                        *)
StartWrite(j) ==
    /\ args[j].tool = "write"
    /\ At(j, "new")
    /\ line' = Append(line, j)
    /\ IF line = <<>> THEN Spawn(j) /\ Goto(j, "collect")
                      ELSE Goto(j, "lock") /\ UNCHANGED <<worker, signalled>>
    /\ UnchangedData
    /\ UNCHANGED <<why, pending, cancels, snapshot, retried, stage, cache>>

WriteTurn(j) ==
    /\ args[j].tool = "write"
    /\ At(j, "lock") /\ Head(line) = j
    /\ Spawn(j) /\ Goto(j, "collect")
    /\ UnchangedData
    /\ UNCHANGED <<why, pending, cancels, line, snapshot, retried, stage, cache>>

(* _merge_playbook_rule                                                    *)
Merged(j, text) == (IF text = Absent THEN {} ELSE text) \cup {args[j].rule}

(* tool_record_playbook writes in the bot's own process.  It reads the     *)
(* file without the lock and refuses what would not fit; then it takes the *)
(* lock, at once where nobody stands there, and goes by what it has read.  *)
RefuseRule(j, o) == effect' = [effect EXCEPT ![j] = "declined"] /\ Return(j, o)

RuleRead(j) ==
    /\ args[j].tool = "rule"
    /\ At(j, "new") \/ Within(j, "again")
    /\ IF Cardinality(Merged(j, file)) > MaxRules
       THEN RefuseRule(j, "full") /\ UNCHANGED <<line, snapshot>>
       ELSE /\ snapshot' = [snapshot EXCEPT ![j] = file]
            /\ line' = Append(line, j)
            /\ Goto(j, IF line = <<>> THEN "compare" ELSE "lock")
            /\ UNCHANGED effect
    /\ UnchangedShell
    /\ UNCHANGED <<file, got, why, pending, cancels, retried, stage, cache>>

(* It holds the lock and compares: a revision that is no longer the file's *)
(* is read again once and then reported as a conflict.                     *)
MyTurn(j) == (At(j, "lock") /\ Head(line) = j) \/ Within(j, "compare")

RuleCompare(j) ==
    /\ args[j].tool = "rule"
    /\ MyTurn(j)
    /\ \/ /\ file = snapshot[j]
          /\ Goto(j, "replace")
          /\ UNCHANGED <<line, retried, effect>>
       \/ /\ file # snapshot[j] /\ ~retried[j]
          /\ retried' = [retried EXCEPT ![j] = TRUE]
          /\ Goto(j, "again") /\ line' = Tail(line)
          /\ UNCHANGED effect
       \/ /\ file # snapshot[j] /\ retried[j]
          /\ RefuseRule(j, "conflict") /\ line' = Tail(line)
          /\ UNCHANGED retried
    /\ UnchangedShell
    /\ UNCHANGED <<file, got, why, pending, cancels, snapshot, stage, cache>>

RuleReplace(j) ==
    /\ args[j].tool = "rule"
    /\ Within(j, "replace")
    /\ file' = Merged(j, snapshot[j])
    /\ effect' = [effect EXCEPT ![j] = "took"]
    /\ got' = [got EXCEPT ![j] = Merged(j, snapshot[j])]
    /\ Remember(Merged(j, snapshot[j]))
    /\ Return(j, "success") /\ line' = Tail(line)
    /\ UnchangedShell
    /\ UNCHANGED <<why, pending, cancels, snapshot, retried, stage>>

(* An exception on the way, which the tool catches: an answer of the       *)
(* reader that is no content, an OSError before the file is replaced.      *)
RuleFails(j) ==
    /\ args[j].tool = "rule"
    /\ \/ (At(j, "new") \/ Within(j, "again")) /\ UNCHANGED line
       \/ (MyTurn(j) \/ Within(j, "replace")) /\ line' = Tail(line)
    /\ Return(j, "error")
    /\ UNCHANGED <<workerVars, why, pending, cancels, snapshot, retried, stage, cache>>

CachedSlices(j) ==
    IF reply[j] # "success" \/ args[j].tool \notin {"read", "slice", "write"}
    THEN Return(j, reply[j]) /\ UNCHANGED cache
    ELSE LET text == IF args[j].tool = "write" THEN args[j].new ELSE got[j]
         IN /\ Return(j, IF args[j].tool # "write" /\ cache = text THEN "unchanged"
                                                                   ELSE "success")
            /\ Remember(text)

(* remember_worker_read: a whole read is remembered and answered           *)
(* "unchanged" when it was remembered already; remember_worker_write.      *)
Cached(j) ==
    IF reply[j] # "success" \/ args[j].tool \notin {"read", "write"}
    THEN Return(j, reply[j]) /\ UNCHANGED cache
    ELSE LET text == IF args[j].tool = "read" THEN got[j] ELSE args[j].new
         IN /\ Return(j, IF args[j].tool = "read" /\ cache = text THEN "unchanged"
                                                                  ELSE "success")
            /\ Remember(text)

(* The worker has exited: its answer is there, or is no answer.            *)
Collect(j) ==
    /\ At(j, "collect")
    /\ \/ worker[j] = "answered" /\ Cached(j)
       \/ worker[j] = "crashed" /\ Return(j, "error") /\ UNCHANGED cache
    /\ line' = Without(j)
    /\ UNCHANGED <<workerVars, why, pending, cancels, snapshot, retried, stage>>

(* _kill_process_group: SIGTERM, and SIGKILL half a second later.          *)
SendTerm(j, o) ==
    /\ Terminate(j)
    /\ Goto(j, "killing")
    /\ why' = [why EXCEPT ![j] = o]
    /\ UnchangedData

(* _collect_process gives up: the timeout, or too much output.             *)
GiveUp(j) ==
    /\ At(j, "collect") /\ Live(j)
    /\ SendTerm(j, "late")
    /\ UNCHANGED <<pending, cancels, line, snapshot, retried, stage, cache>>

EscalateAgain(j) ==
    /\ At(j, "killing") /\ Live(j)
    /\ Terminate(j)
    /\ UnchangedData
    /\ UNCHANGED batchVars

Escalate(j) ==
    /\ At(j, "killing") /\ Live(j)
    /\ Kill(j)
    /\ UnchangedData
    /\ UNCHANGED batchVars

KilledAtOnce(j) ==
    /\ At(j, "killing")
    /\ Return(j, why[j])
    /\ line' = Without(j)
    /\ UNCHANGED <<workerVars, why, pending, cancels, snapshot, retried, stage, cache>>

Killed(j) ==
    /\ At(j, "killing") /\ worker[j] \in Ended
    /\ Return(j, why[j])
    /\ line' = Without(j)
    /\ UNCHANGED <<workerVars, why, pending, cancels, snapshot, retried, stage, cache>>

-----------------------------------------------------------------------------
(* Cancellation of a task.                                                 *)

(* run_worker's handler of CancelledError.                                 *)
KillOrLeave(j) ==
    \/ /\ worker[j] \in Ended
       /\ Return(j, "cancelled") /\ line' = Without(j)
       /\ UNCHANGED <<workerVars, why>>
    \/ /\ Live(j)
       /\ SendTerm(j, "cancelled") /\ UNCHANGED line

Unwind(j) ==
    /\ At(j, "unwind")
    /\ KillOrLeave(j)
    /\ UNCHANGED <<pending, cancels, snapshot, retried, stage, cache>>

(* The CancelledError arrives: before the task ran or in the line it ends  *)
(* it; in _collect_process, and in its kill, the finally clause comes      *)
(* first, and one that arrives there adds nothing; in run_worker's own     *)
(* kill it ends that, and nobody waits for the worker any more.            *)
Cancelled(j) ==
    /\ LoopRuns /\ Idle /\ pending[j] /\ task[j] # "done"
    /\ pending' = [pending EXCEPT ![j] = FALSE]
    /\ cancels' = [cancels EXCEPT ![j] = @ + 1]
    /\ \/ /\ task[j] \in {"new", "lock"} \/ (task[j] = "killing" /\ why[j] = "cancelled")
          /\ Return(j, "cancelled") /\ line' = Without(j)
          /\ UNCHANGED <<workerVars, why>>
       \/ /\ task[j] = "collect" \/ (task[j] = "killing" /\ why[j] = "late")
          /\ Goto(j, "unwind")
          /\ UNCHANGED <<workerVars, why, line>>
       \/ /\ task[j] = "unwind"
          /\ KillOrLeave(j)
    /\ UNCHANGED <<snapshot, retried, stage, cache>>

-----------------------------------------------------------------------------
(* The stage: gather() under with_deadline().                              *)

CancelUndone == pending' = [j \in Jobs |-> pending[j] \/ j \in Undone]

Results ==
    /\ stage = "running" /\ Undone = {}
    /\ stage' = "over"
    /\ UNCHANGED <<workerVars, taskVars, pending>>

(* A stop, the stage's deadline or the caller's own cancellation: _reap    *)
(* cancels the gathering future, which cancels every child.                *)
Interrupt ==
    /\ stage = "running" /\ Idle
    /\ stage' = "cancelling"
    /\ CancelUndone
    /\ UNCHANGED <<workerVars, taskVars>>

ReapTasksAgain ==
    /\ stage \in {"cancelling", "reaping"} /\ Idle
    /\ Undone = {} \/ \E j \in Jobs : outcome[j] = "cancelled"
    /\ stage' = "reaping"
    /\ CancelUndone
    /\ UNCHANGED <<workerVars, taskVars>>

(* The future is over with the first child that ended by cancellation (or  *)
(* with all of them), and the batch's own _reap cancels the others again.  *)
ReapTasks ==
    /\ stage = "cancelling" /\ Idle
    /\ Undone = {} \/ \E j \in Jobs : outcome[j] = "cancelled"
    /\ stage' = "reaping"
    /\ CancelUndone
    /\ UNCHANGED <<workerVars, taskVars>>

Reaped ==
    /\ stage = "reaping" /\ Undone = {}
    /\ stage' = "over"
    /\ UNCHANGED <<workerVars, taskVars, pending>>

(* The bot's process dies; workers and shells do not notice.               *)
BotDies ==
    /\ LoopRuns
    /\ stage' = "dead"
    /\ UNCHANGED <<workerVars, taskVars, pending>>

StageSteps == Results \/ Interrupt \/ ReapTasks \/ Reaped \/ BotDies

TaskSteps(j) ==
    \/ StartLocal(j) \/ StartWorker(j) \/ StartWrite(j) \/ WriteTurn(j) \/ RuleRead(j)
    \/ RuleCompare(j) \/ RuleReplace(j) \/ RuleFails(j) \/ Collect(j) \/ GiveUp(j)
    \/ Escalate(j) \/ Killed(j) \/ Unwind(j) \/ Cancelled(j)

(* The calls that have compared and will replace the file with no look.    *)
Writing == {j \in Jobs : worker[j] = "compared" \/ task[j] = "replace"}

ProcessSteps(j) ==
    /\ WorkerSteps(j) \/ Crash(j) \/ ShellSteps(j, Writing)
    /\ UNCHANGED batchVars

Next == StageSteps \/ \E j \in Jobs : TaskSteps(j) \/ ProcessSteps(j)

Spec == Init /\ [][Next]_vars

(* The event loop runs its tasks and every timer fires; a worker that is   *)
(* not stuck goes on.  Nothing makes a shell exit, a worker crash or the   *)
(* bot die.                                                                *)
Fairness ==
    /\ WF_vars(Results) /\ WF_vars(ReapTasks) /\ WF_vars(Reaped)
    /\ \A j \in Jobs : WF_vars(TaskSteps(j))
    /\ \A j \in Jobs : WF_vars(WorkerSteps(j) /\ UNCHANGED batchVars)

FairSpec == Spec /\ Fairness

-----------------------------------------------------------------------------
(* Properties.                                                             *)

(* The file is a register with compare-and-swap for the calls of a batch:  *)
(* every write_file and record_playbook takes effect at one instant, or    *)
(* not at all, and its answer says which (workspace_io.write_bytes under   *)
(* the lock of RunWorkspace).  Only a shell that writes between a compare  *)
(* and its replace loses what it wrote, and to that call alone.            *)
Promise == INSTANCE RevisionFile WITH content <- file, answer <- outcome
RegisterSpec == Promise!Spec

(* The read cache answers "unchanged" only for a content that the run was  *)
(* given in full or wrote itself (remember_worker_read, read and write of  *)
(* RunWorkspace).                                                          *)
Told(j) == IF args[j].tool = "write" THEN args[j].new ELSE got[j]
ToldInFull ==
    {Told(j) : j \in {i \in Jobs : /\ args[i].tool \in {"read", "write", "rule"}
                                  /\ outcome[i] = "success"}}
CacheIsKnown ==
    /\ cache # None => cache \in ToldInFull
    /\ \A j \in Jobs : outcome[j] = "unchanged" => got[j] \in ToldInFull

(* A call whose task was cancelled at most once leaves no worker process   *)
(* behind, however it ended and whatever the worker was doing              *)
(* (_kill_process_group waits for the end of what it kills).               *)
WorkersReaped ==
    \A j \in Jobs : task[j] = "done" /\ cancels[j] < 2 => ~Live(j)

(* A bash_exec that was answered leaves no shell; after a success its      *)
(* background processes are gone too, unless they ignore SIGTERM           *)
(* (_kill_group in both of its forms).  Of one that was cancelled nothing  *)
(* can be said: a SIGTERM that meets the start of the shell ends the       *)
(* worker before it knows the group.                                       *)
ShellsReaped ==
    \A j \in Jobs : worker[j] = "answered" =>
        /\ leader[j] # "runs"
        /\ reply[j] = "success" /\ rest[j] = "runs" => "rest" \in args[j].deaf

(* The batch comes to an end, whatever the workers and the shells do, and  *)
(* in whichever order cancellations, timeouts and turns at the lock meet.  *)
StageEnds == stage = "running" ~> stage \in {"over", "dead"}

(* How far a call is from its end: the places its task may still go        *)
(* through, with those of its worker, and how far the stage is.            *)
TaskLeft(j) ==
    CASE task[j] = "new"                                -> 9
      [] task[j] \in {"lock", "compare"} /\ ~retried[j] -> 8
      [] task[j] = "again"                              -> 7
      [] task[j] \in {"lock", "compare"} /\ retried[j]  -> 6
      [] task[j] = "replace"                            -> 5
      [] task[j] = "collect"                            -> 4
      [] task[j] = "killing" /\ why[j] # "cancelled"    -> 3
      [] task[j] = "unwind"                             -> 2
      [] task[j] = "killing" /\ why[j] = "cancelled"    -> 1
      [] task[j] = "done"                               -> 0

WorkerLeft(j) ==
    CASE worker[j] = "ready"                  -> 8
      [] worker[j] \in {"compared", "forked"} -> 7
      [] worker[j] = "monitor"                -> 6
      [] worker[j] = "giveup"                 -> 5
      [] worker[j] \in {"wait", "sweep"}      -> 4
      [] worker[j] = "clear"                  -> 3
      [] worker[j] = "answer"                 -> 2
      [] worker[j] = "stuck"                  -> 1
      [] worker[j] \in Ended \cup {"none"}    -> 0

CallLeft(j) == 10 * TaskLeft(j) + WorkerLeft(j)

StageLeft ==
    CASE stage = "running" -> 3
      [] stage = "cancelling" -> 2
      [] stage = "reaping" -> 1
      [] stage \in {"over", "dead"} -> 0

(* No timeout, cancellation, SIGTERM, retry of a rule or turn at the lock  *)
(* sends a call or the stage back, in whatever order they meet, and every  *)
(* step but those of the shells brings one of them closer to its end.  So  *)
(* a batch of n calls takes at most 90 * n + 3 such steps, and an orphaned *)
(* worker at most 8.                                                       *)
CallsOnlyAdvance ==
    [][/\ StageLeft' <= StageLeft
       /\ \A j \in Jobs : CallLeft(j)' <= CallLeft(j)
       /\ \/ StageLeft' < StageLeft
          \/ \E j \in Jobs : CallLeft(j)' < CallLeft(j)
          \/ UNCHANGED <<batchVars, worker, reply, got, signalled, effect>>]_vars

(* A worker that lost its bot ends by its own limits, and its shell with   *)
(* it (the monitor loop of _bash), unless the worker itself dies of a      *)
(* limit or of an exception first.                                         *)
OrphansEnd ==
    \A j \in Jobs : stage = "dead" /\ Live(j) /\ ~signalled[j]
                      ~> ~Live(j) /\ (leader[j] # "runs" \/ worker[j] = "crashed")
=============================================================================
