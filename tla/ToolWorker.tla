----------------------------- MODULE ToolWorker -----------------------------
(***************************************************************************)
(* The worker processes of a batch of tool calls (tool_worker.py): each    *)
(* executes one request and prints one answer.  It runs as a process group *)
(* of its own; the shell of a bash_exec is started in yet another one, so  *)
(* that a signal to the worker's group does not reach the shell and it is  *)
(* the worker that has to end it, in its SIGTERM handler too.              *)
(*                                                                         *)
(* Time is left out: a wait with a limit ends at any moment.  The calls of *)
(* a batch share one canonical file.  A shell is its leader (bash -c) and  *)
(* the rest of its group, what it left in the background; each half may be *)
(* deaf: it ignores SIGTERM, or takes longer than _kill_group waits.       *)
(***************************************************************************)
EXTENDS Naturals, Sequences, FiniteSets

CONSTANTS
    Jobs,       \* the tool calls of the batch
    Rules,      \* what a file's content is made of
    Absent,     \* the revision "absent": there is no file
    None,
    Batches,    \* bound: what each call asks for, with what the file holds
    Scribbles   \* bound: what a shell may leave in the file

Contents == {Absent} \cup SUBSET Rules

(* A call: read_file (whole or a "slice"), write_file, record_playbook     *)
(* ("rule"), bash_exec, web_search, and the tools that need no worker and  *)
(* no file ("local").  A batch shorter than Jobs is filled with "none".    *)
Tools == {"read", "slice", "write", "rule", "bash", "search", "local", "none"}
Requests == [tool : Tools, expected : Contents, new : Contents, rule : Rules \cup {None},
             deaf : SUBSET {"leader", "rest"}]

ASSUME JobsAssumption == IsFiniteSet(Jobs)
ASSUME BatchesAssumption == Batches \subseteq [Jobs -> Requests] \X Contents
ASSUME RuleAssumption ==
    \A b \in Batches : \A j \in Jobs : b[1][j].tool = "rule" => b[1][j].rule \in Rules
ASSUME ScribblesAssumption == Scribbles \subseteq Contents

VARIABLES
    args,       \* what each call asks for
    file,       \* the canonical file
    worker,     \* where each worker process is
    reply,      \* the answer it has come to
    got,        \* the content a read returned or a rule left
    leader,     \* its shell: "none", "runs" or "gone"
    rest,       \* what the shell left in the background, likewise
    signalled,  \* it was sent SIGTERM
    effect,     \* history: whether a write "took" or was "declined"
    under       \* history: what a write under way saw before a shell wrote

workerVars == <<args, file, worker, reply, got, leader, rest, signalled, effect, under>>
shellVars == <<leader, rest>>

(* "answered" is the exit after printing, "gone" the end by a signal and   *)
(* "crashed" any other; in "stuck" the handler waits for the lock that its *)
(* own thread holds.                                                       *)
Ended == {"answered", "gone", "crashed"}
WorkerStates == Ended \cup {"none", "ready", "compared", "forked", "monitor", "giveup",
                            "wait", "sweep", "clear", "answer", "stuck"}
Replies == {"success", "conflict", "late", "limit", "error"}
ProcessStates == {"none", "runs", "gone"}

Live(j) == worker[j] \notin Ended \cup {"none"}

WorkerTypeOK ==
    /\ args \in {b[1] : b \in Batches}
    /\ file \in Contents
    /\ worker \in [Jobs -> WorkerStates]
    /\ reply \in [Jobs -> Replies \cup {None}]
    /\ got \in [Jobs -> {None} \cup Contents]
    /\ leader \in [Jobs -> ProcessStates]
    /\ rest \in [Jobs -> ProcessStates]
    /\ signalled \in [Jobs -> BOOLEAN]
    /\ effect \in [Jobs -> {"none", "took", "declined"}]
    /\ under \in [Jobs -> {None} \cup Contents]

WorkerInit ==
    /\ \E b \in Batches : args = b[1] /\ file = b[2]
    /\ worker = [j \in Jobs |-> "none"]
    /\ reply = [j \in Jobs |-> None]
    /\ got = [j \in Jobs |-> None]
    /\ leader = [j \in Jobs |-> "none"]
    /\ rest = [j \in Jobs |-> "none"]
    /\ signalled = [j \in Jobs |-> FALSE]
    /\ effect = [j \in Jobs |-> "none"]
    /\ under = [j \in Jobs |-> None]

-----------------------------------------------------------------------------
(* Signals to a process group.                                             *)

Hit(process, deaf) == IF process = "runs" /\ ~deaf THEN "gone" ELSE process

(* killpg(process.pid, SIGTERM), and SIGKILL                               *)
TermShell(j) ==
    /\ leader' = [leader EXCEPT ![j] = Hit(@, "leader" \in args[j].deaf)]
    /\ rest' = [rest EXCEPT ![j] = Hit(@, "rest" \in args[j].deaf)]
KillShell(j) ==
    /\ leader' = [leader EXCEPT ![j] = Hit(@, FALSE)]
    /\ rest' = [rest EXCEPT ![j] = Hit(@, FALSE)]

-----------------------------------------------------------------------------
(* The worker's own steps.                                                 *)

Step(j, from, to) == worker[j] = from /\ worker' = [worker EXCEPT ![j] = to]
Conclude(j, from, r) == Step(j, from, "answer") /\ reply' = [reply EXCEPT ![j] = r]

Read(j) ==
    /\ args[j].tool \in {"read", "slice"}
    /\ Conclude(j, "ready", IF file = Absent THEN "error" ELSE "success")
    /\ got' = [got EXCEPT ![j] = file]
    /\ UNCHANGED <<args, file, shellVars, signalled, effect, under>>

(* write_bytes: the revision of the file is compared ...                   *)
Compare(j) ==
    /\ args[j].tool = "write"
    /\ IF file = args[j].expected
       THEN /\ Step(j, "ready", "compared")
            /\ UNCHANGED <<reply, effect>>
       ELSE /\ Conclude(j, "ready", "conflict")
            /\ effect' = [effect EXCEPT ![j] = "declined"]
    /\ UNCHANGED <<args, file, got, shellVars, signalled, under>>

(* ... and the file is replaced later, with no look at it in between.      *)
Replace(j) ==
    /\ Conclude(j, "compared", "success")
    /\ file' = args[j].new
    /\ effect' = [effect EXCEPT ![j] = "took"]
    /\ UNCHANGED <<args, got, shellVars, signalled, under>>

(* An OSError, a limit that cannot be installed, a request that is not     *)
(* valid, a shell that cannot be started, a search that fails.             *)
Fail(j) ==
    /\ \/ Conclude(j, "ready", "error")
       \/ Conclude(j, "compared", "error")
    /\ UNCHANGED <<args, file, got, shellVars, signalled, effect, under>>

(* _web_search: an answer, its own timeout or a limit.                     *)
Search(j) ==
    /\ args[j].tool = "search"
    /\ \E r \in {"success", "late", "limit"} : Conclude(j, "ready", r)
    /\ UNCHANGED <<args, file, got, shellVars, signalled, effect, under>>

(* Popen; _active_process does not name the shell yet.                     *)
Fork(j) ==
    /\ args[j].tool = "bash"
    /\ Step(j, "ready", "forked")
    /\ leader' = [leader EXCEPT ![j] = "runs"]
    /\ UNCHANGED <<args, file, reply, got, rest, signalled, effect, under>>

Register(j) ==
    /\ Step(j, "forked", "monitor")
    /\ UNCHANGED <<args, file, reply, got, shellVars, signalled, effect, under>>

OverrunTimeless(j) ==
    /\ leader[j] = "runs" /\ rest[j] = "runs"
    /\ Step(j, "monitor", "giveup")
    /\ \E r \in {"late", "limit"} : reply' = [reply EXCEPT ![j] = r]
    /\ UNCHANGED <<args, file, got, shellVars, signalled, effect, under>>

(* The monitor loop ends for a reason: time, output, disk, memory, number  *)
(* of processes or threads ...                                             *)
Overrun(j) ==
    /\ leader[j] = "runs"
    /\ Step(j, "monitor", "giveup")
    /\ \E r \in {"late", "limit"} : reply' = [reply EXCEPT ![j] = r]
    /\ UNCHANGED <<args, file, got, shellVars, signalled, effect, under>>

(* ... or because the leader has exited.                                   *)
LeaderLeft(j) ==
    /\ leader[j] # "runs"
    /\ Step(j, "monitor", "sweep")
    /\ UNCHANGED <<args, file, reply, got, shellVars, signalled, effect, under>>

(* _kill_group(process), of the monitor or of the SIGTERM handler: nothing *)
(* when the leader has exited, otherwise SIGTERM to the shell's group ...  *)
TermGroup(j) ==
    /\ IF leader[j] = "runs"
       THEN Step(j, "giveup", "wait") /\ TermShell(j)
       ELSE Step(j, "giveup", "clear") /\ UNCHANGED shellVars
    /\ UNCHANGED <<args, file, reply, got, signalled, effect, under>>

(* ... and SIGKILL when the leader is still there after a while.           *)
KillGroup(j) ==
    /\ Step(j, "wait", "clear")
    /\ IF leader[j] = "runs" THEN KillShell(j) ELSE UNCHANGED shellVars
    /\ UNCHANGED <<args, file, reply, got, signalled, effect, under>>

SweepExited(j) ==
    /\ Step(j, "sweep", "clear")
    /\ UNCHANGED shellVars
    /\ \E r \in {"success", "limit"} : reply' = [reply EXCEPT ![j] = r]
    /\ UNCHANGED <<args, file, got, signalled, effect, under>>

(* _kill_group(process, include_exited=True): SIGTERM to what the leader   *)
(* left; its exit is already known, so there is no wait and no SIGKILL.    *)
Sweep(j) ==
    /\ Step(j, "sweep", "clear")
    /\ TermShell(j)
    /\ \E r \in {"success", "limit"} : reply' = [reply EXCEPT ![j] = r]
    /\ UNCHANGED <<args, file, got, signalled, effect, under>>

(* The finally clause of _bash; after the SIGTERM handler the SystemExit   *)
(* goes on.                                                                *)
Clear(j) ==
    /\ Step(j, "clear", IF signalled[j] THEN "gone" ELSE "answer")
    /\ UNCHANGED <<args, file, reply, got, shellVars, signalled, effect, under>>

(* main() prints the answer.                                               *)
Answer(j) ==
    /\ Step(j, "answer", "answered")
    /\ UNCHANGED <<args, file, reply, got, shellVars, signalled, effect, under>>

(* The worker dies of its own: by RLIMIT_CPU, which apply_limits sets for  *)
(* the worker and not only for its shell, or by an exception that neither  *)
(* _bash nor main() catches (a thread that cannot be started, a            *)
(* MemoryError).  It prints nothing and does not end its shell.            *)
Crash(j) ==
    /\ Live(j) /\ worker[j] # "stuck"
    /\ worker' = [worker EXCEPT ![j] = "crashed"]
    /\ UNCHANGED <<args, file, reply, got, shellVars, signalled, effect, under>>

WorkerSteps(j) ==
    \/ Read(j) \/ Compare(j) \/ Replace(j) \/ Fail(j) \/ Search(j) \/ Fork(j) \/ Register(j)
    \/ Overrun(j) \/ LeaderLeft(j) \/ TermGroup(j) \/ KillGroup(j) \/ Sweep(j) \/ Clear(j)
    \/ Answer(j)

-----------------------------------------------------------------------------
(* What is done to a worker.  Each leaves the file and the shell alone.    *)

Spawn(j) == Step(j, "none", "ready") /\ UNCHANGED signalled

(* SIGTERM to the worker's group.  The handler ends a shell that it knows  *)
(* and whose leader runs; then, or at once, the worker exits.  A shell     *)
(* between Popen and its registration stays behind, and a handler that     *)
(* meets its own thread holding _active_process_lock waits for ever.       *)
Terminate(j) ==
    /\ \/ /\ worker[j] \in {"ready", "compared", "forked", "sweep", "clear", "answer"}
          /\ worker' = [worker EXCEPT ![j] = "gone"]
       \/ /\ worker[j] \in {"forked", "clear", "stuck"}
          /\ worker' = [worker EXCEPT ![j] = "stuck"]
       \/ /\ worker[j] \in {"monitor", "giveup", "wait"}
          /\ worker' = [worker EXCEPT ![j] = "giveup"]
    /\ signalled' = [signalled EXCEPT ![j] = TRUE]

Kill(j) == worker' = [worker EXCEPT ![j] = "gone"] /\ UNCHANGED signalled

-----------------------------------------------------------------------------
(* The processes of a shell.                                               *)

LeaderExits(j) ==
    /\ leader[j] = "runs"
    /\ leader' = [leader EXCEPT ![j] = "gone"]
    /\ UNCHANGED <<args, file, worker, reply, got, rest, signalled, effect, under>>

Background(j) ==
    /\ leader[j] = "runs"
    /\ rest[j] = "none"
    /\ rest' = [rest EXCEPT ![j] = "runs"]
    /\ UNCHANGED <<args, file, worker, reply, got, leader, signalled, effect, under>>

RestExits(j) ==
    /\ rest[j] = "runs"
    /\ rest' = [rest EXCEPT ![j] = "gone"]
    /\ UNCHANGED <<args, file, worker, reply, got, leader, signalled, effect, under>>

(* A shell writes the file: no lock and no revision stop it, nor do the    *)
(* calls that have compared the revision and are about to replace the file *)
(* look again.                                                             *)
Scribble(j, writing) ==
    /\ "runs" \in {leader[j], rest[j]}
    /\ file' \in Scribbles
    /\ under' = [i \in Jobs |-> IF i \in writing /\ under[i] = None THEN file ELSE under[i]]
    /\ UNCHANGED <<args, worker, reply, got, shellVars, signalled, effect>>

ShellSteps(j, writing) ==
    LeaderExits(j) \/ Background(j) \/ RestExits(j) \/ Scribble(j, writing)
=============================================================================
