------------------------------ MODULE AgentLoop ------------------------------
(***************************************************************************)
(* One execution of a run (on_message in bot.py, from the lease to its     *)
(* release): the direct answer, the step loop with its model stages, tool  *)
(* batches, checkpoints and rollovers, and the closing phase with the      *)
(* report, the delivery and the records of how the run ended.              *)
(*                                                                         *)
(* The handler is a coroutine: users send instructions and !stop only      *)
(* while it awaits something.  `at` names the place where it stands; the   *)
(* places that are not in Awaits are passed without giving way.  A stage   *)
(* races its budget and the cancel token of the run, and the token wins.   *)
(*                                                                         *)
(* ToolDispatch models what a step saves and RunLifecycle what the records *)
(* mean for the next execution; here a save only succeeds or fails.        *)
(***************************************************************************)
EXTENDS SteeringMailbox

CONSTANTS
    MaxLoops,               \* MAX_AGENT_LOOPS
    MaxThoughts,            \* MAX_CONSECUTIVE_INTERNAL_THOUGHTS
    CheckpointInterval,     \* CHECKPOINT_INTERVAL
    ReportEvery,            \* REPORT_EVERY_CHECKPOINTS
    KeepRecent,             \* KEEP_RECENT_TOOL_GROUPS
    TailMessages,           \* SNAPSHOT_TAIL_MESSAGES
    None                    \* not settled, not logged, not ended

ASSUME LoopBoundsAssumption ==
    /\ MaxLoops \in Nat \ {0}
    /\ MaxThoughts \in Nat \ {0}
    /\ CheckpointInterval \in Nat \ {0}
    /\ ReportEvery \in Nat \ {0}
    /\ KeepRecent \in Nat \ {0}
    /\ TailMessages \in Nat \ {0}

VARIABLES
    at,             \* where on_message stands
    step,           \* iteration + 1
    cancelled,      \* token.cancelled
    outcome,        \* RunOutcome: the detail that settled it, or None
    directFailed,   \* direct_call_failed
    think,          \* pending_think_effort, then is_think_step
    thoughts,       \* consecutive_internal_thoughts
    groups,         \* complete tool groups in messages_payload
    fresh,          \* instructions in messages_payload no model answer has seen
    lost,           \* instructions that left messages_payload before one did
    delivered,      \* the final message reached the channel
    logged,         \* status of the run_end event, or None
    ended           \* status release_run wrote into run.json and state.json

context == <<groups, fresh, lost>>
ending == <<delivered, logged, ended>>
control == <<cancelled, outcome, directFailed>>
loopVars == <<mailboxVars, at, step, think, thoughts, control, context, ending>>

(* Stages race their budget and the token; the other awaits are Discord's. *)
Stages == {"direct", "model", "retry", "tools", "report", "rolling", "synthesis"}
InLoop == {"prepare", "model", "retry", "card", "textCard", "toolCard", "tools",
           "report", "reportSend", "rolling"}
Closing == {"closing", "synthesis", "deliver"}
Greeted == {"direct", "directReply", "directReport", "announce"}
Awaits == InLoop \cup Closing \cup Greeted \cup {"greeting", "failing"}
Over == {"released", "aborted", "abandoned"}
Places == Awaits \cup Over \cup {"begin", "head", "settled"}

CompletedDetails == {"finish_task", "direct_answer"}
Outcomes == CompletedDetails \cup {"stopped", "exhausted", "failed"}
Reason(o) == IF o \in CompletedDetails THEN "completed" ELSE o
Statuses == {"completed", "stopped", "exhausted", "failed", "interrupted"}

ASSUME NoneAssumption == None \notin Outcomes \cup Statuses

LoopTypeOK ==
    /\ MailboxTypeOK
    /\ at \in Places
    /\ step \in 1..(MaxLoops + 1)
    /\ at \in InLoop => step <= MaxLoops
    /\ cancelled \in BOOLEAN
    /\ outcome \in Outcomes \cup {None}
    /\ directFailed \in BOOLEAN
    /\ think \in BOOLEAN
    /\ thoughts \in 0..MaxThoughts
    /\ groups \in Nat
    /\ fresh \subseteq Messages
    /\ lost \subseteq Messages
    /\ delivered \in BOOLEAN
    /\ logged \in Statuses \cup {None}
    /\ ended \in Statuses \cup {None}

LoopInit ==
    /\ MailboxInit
    /\ at = "begin"
    /\ step = 1
    /\ cancelled = FALSE
    /\ outcome = None
    /\ directFailed = FALSE
    /\ think = FALSE
    /\ thoughts = 0
    /\ groups = 0
    /\ fresh = {}
    /\ lost = {}
    /\ delivered = FALSE
    /\ logged = None
    /\ ended = None

-----------------------------------------------------------------------------
(* Ending.                                                                 *)

(* outcome.settle(o) and break: the first detail counts. *)
EndLoop(o) ==
    /\ at' = "settled"
    /\ outcome' = IF outcome = None THEN o ELSE outcome
    /\ UNCHANGED <<cancelled, directFailed>>

ReleaseLeavesOpen(place, status, event) ==
    /\ UNCHANGED mailboxVars
    /\ at' = place
    /\ ended' = status
    /\ logged' = IF logged = None THEN event ELSE logged

(* log_run_end and release_run(status), with run_end saying `event` unless *)
(* it was logged before.                                                   *)
Release(place, status, event) ==
    /\ Close
    /\ at' = place
    /\ ended' = status
    /\ logged' = IF logged = None THEN event ELSE logged

(* What run_end says when nothing more precise was logged first. *)
Event == IF outcome = None THEN "failed" ELSE Reason(outcome)

(* release_run(outcome.reason or "interrupted") *)
StatusOr(default) == IF outcome = None THEN default ELSE Reason(outcome)

-----------------------------------------------------------------------------
(* Before the loop.                                                        *)

OpenLoop ==
    /\ at' = "announce"
    /\ Open

(* A short question, a restored run (whose tail holds some complete        *)
(* groups), and a new investigation.                                       *)
Begin ==
    /\ at = "begin"
    /\ \/ at' = "direct" /\ UNCHANGED <<mailboxVars, step, groups>>
       \/ /\ at' = "greeting"
          /\ step' \in 1..(MaxLoops + 1)
          /\ groups' \in 0..(TailMessages \div 2)
          /\ UNCHANGED mailboxVars
       \/ OpenLoop /\ UNCHANGED <<step, groups>>
    /\ UNCHANGED <<think, thoughts, control, fresh, lost, ending>>

Greet ==
    /\ at = "greeting"
    /\ OpenLoop
    /\ UNCHANGED <<step, think, thoughts, control, context, ending>>

(* A direct answer that is empty, cut off or failed falls back to the loop. *)
DirectAnswers ==
    /\ at = "direct"
    /\ \/ /\ at' = "directReport"
          /\ outcome' = IF cancelled THEN "stopped" ELSE "failed"
          /\ UNCHANGED <<mailboxVars, directFailed>>
       \/ ~cancelled /\ at' = "directReply" /\ UNCHANGED <<mailboxVars, outcome, directFailed>>
       \/ ~cancelled /\ OpenLoop /\ directFailed' = TRUE /\ UNCHANGED outcome
    /\ UNCHANGED <<step, think, thoughts, cancelled, context, ending>>

DirectReplies ==
    /\ at = "directReply"
    /\ \/ /\ outcome' = "direct_answer"
          /\ delivered' = TRUE
          /\ Release("released", "completed", "completed")
       \/ Release("released", "failed", Event) /\ UNCHANGED <<outcome, delivered>>
    /\ UNCHANGED <<step, think, thoughts, cancelled, directFailed, context>>

DirectReports ==
    /\ at = "directReport"
    /\ delivered' \in BOOLEAN
    /\ Release("released", Reason(outcome), Event)
    /\ UNCHANGED <<step, think, thoughts, control, context>>

(* The first snapshot and the status message; when that fails the run is   *)
(* released without a word on the instructions it accepted meanwhile.      *)
Announces ==
    /\ at = "announce"
    /\ \/ at' = "head" /\ UNCHANGED <<mailboxVars, ending>>
       \/ Release("released", "interrupted", Event) /\ UNCHANGED delivered
    /\ UNCHANGED <<step, think, thoughts, control, context>>

-----------------------------------------------------------------------------
(* One step.                                                               *)

(* apply_steering *)
TakeIn ==
    /\ Drain
    /\ fresh' = fresh \cup Pending

PastEndLate == step > MaxLoops + 1

(* The end of range(resume_from - 1, MAX_AGENT_LOOPS). *)
PastEnd == step > MaxLoops

Head ==
    /\ at = "head"
    /\ \/ PastEnd /\ EndLoop("exhausted") /\ UNCHANGED <<mailboxVars, fresh>>
       \/ /\ ~PastEnd /\ cancelled
          /\ EndLoop("stopped") /\ UNCHANGED <<mailboxVars, fresh>>
       \/ /\ ~PastEnd /\ ~cancelled
          /\ at' = "prepare" /\ TakeIn /\ UNCHANGED control
    /\ UNCHANGED <<step, think, thoughts, groups, lost, ending>>

(* A stage that ends without a result: the token beats its budget and its  *)
(* errors.                                                                 *)
StageFails ==
    /\ EndLoop(IF cancelled THEN "stopped" ELSE "failed")
    /\ UNCHANGED <<mailboxVars, context>>

(* split_recent_agent_context keeps nothing of a context with one group,   *)
(* so a flush drops the instructions that context still holds.             *)
Flush(g, f) ==
    /\ groups' = IF g > 1 THEN 1 ELSE 0
    /\ fresh' = IF g > 1 THEN f ELSE {}
    /\ lost' = IF g > 1 THEN lost ELSE lost \cup f

(* Rollover and trimming keep the newest groups and all that follows them. *)
Compact ==
    /\ groups' \in {groups} \cup 1..groups
    /\ UNCHANGED <<fresh, lost>>

(* _emergency_agent_context keeps the newest group and the newest of what  *)
(* follows it, or the last message.                                        *)
Rebase ==
    /\ groups' = IF groups > 0 THEN 1 ELSE 0
    /\ fresh' \in {f \in SUBSET fresh :
                      \/ f = fresh
                      \/ Cardinality(f) = IF groups > 0 THEN TailMessages ELSE 1}
    /\ lost' = lost \cup (fresh \ fresh')

Prepare ==
    /\ at = "prepare"
    /\ \/ StageFails
       \/ ~cancelled /\ at' = "model" /\ (Compact \/ Rebase) /\ UNCHANGED <<control, mailboxVars>>
    /\ UNCHANGED <<step, think, thoughts, ending>>

(* An answer, or one recovery: an emergency flush when the server is out   *)
(* of memory, the tool protocol as text when it rejects the calls.         *)
ModelAnswers ==
    /\ at \in {"model", "retry"}
    /\ \/ StageFails
       \/ /\ ~cancelled
          /\ \/ at' = "card" /\ fresh' = {} /\ UNCHANGED <<groups, lost>>
             \/ at = "model" /\ at' = "retry" /\ Flush(groups, fresh)
             \/ at = "model" /\ at' = "retry" /\ groups' = 0 /\ UNCHANGED <<fresh, lost>>
          /\ UNCHANGED <<control, mailboxVars>>
    /\ UNCHANGED <<step, think, thoughts, ending>>

MayDecideAlways == TRUE

(* raise_if_cancelled after the status card. *)
MayDecide == ~cancelled

(* What the model asked for: finish_task completes the run and drops its   *)
(* companions; text completes it on the first step only.                   *)
Decide ==
    \/ EndLoop("failed") /\ UNCHANGED <<think, thoughts>>
    \/ EndLoop("finish_task") /\ UNCHANGED <<think, thoughts>>
    \/ step = 1 /\ ~directFailed /\ EndLoop("direct_answer") /\ UNCHANGED <<think, thoughts>>
    \/ at' = "toolCard" /\ think' = FALSE /\ thoughts' = 0 /\ UNCHANGED control
    \/ step >= MaxLoops /\ EndLoop("exhausted") /\ UNCHANGED <<think, thoughts>>
    \/ /\ step < MaxLoops
       /\ at' = "textCard"
       /\ think' = FALSE
       /\ thoughts' = IF think THEN 0 ELSE thoughts + 1
       /\ UNCHANGED control

Card ==
    /\ at = "card"
    /\ \/ cancelled /\ EndLoop("stopped") /\ UNCHANGED <<think, thoughts>>
       \/ MayDecide /\ Decide
    /\ UNCHANGED <<mailboxVars, step, context, ending>>

TextCard ==
    /\ at = "textCard"
    /\ \/ thoughts >= MaxThoughts /\ EndLoop("exhausted")
       \/ thoughts < MaxThoughts /\ cancelled /\ EndLoop("stopped")
       \/ thoughts < MaxThoughts /\ ~cancelled /\ at' = "rolling" /\ UNCHANGED control
    /\ UNCHANGED <<mailboxVars, step, think, thoughts, context, ending>>

IsCheckpoint == step % CheckpointInterval = 0 /\ step < MaxLoops
IsReport == (step \div CheckpointInterval) % ReportEvery = 0

(* The group is complete: its results, then the instructions that came in  *)
(* while the tools ran, then the snapshot and what is due at this step.    *)
Collect ==
    /\ Drain
    /\ think' \in BOOLEAN
    /\ \/ EndLoop("failed") /\ groups' = groups + 1 /\ fresh' = fresh \cup Pending /\ UNCHANGED lost
       \/ /\ step >= MaxLoops
          /\ EndLoop("exhausted")
          /\ groups' = groups + 1 /\ fresh' = fresh \cup Pending /\ UNCHANGED lost
       \/ /\ step < MaxLoops
          /\ IF IsCheckpoint /\ ~IsReport
             THEN Flush(groups + 1, fresh \cup Pending)
             ELSE groups' = groups + 1 /\ fresh' = fresh \cup Pending /\ UNCHANGED lost
          /\ at' = IF IsCheckpoint /\ IsReport THEN "report" ELSE "rolling"
          /\ UNCHANGED control

(* A batch the guards refused as a whole is collected without running.     *)
ToolCard ==
    /\ at = "toolCard"
    /\ \/ StageFails /\ UNCHANGED think
       \/ ~cancelled /\ at' = "tools" /\ UNCHANGED <<mailboxVars, think, control, context>>
       \/ ~cancelled /\ Collect
    /\ UNCHANGED <<step, thoughts, ending>>

Tools ==
    /\ at = "tools"
    /\ \/ StageFails /\ UNCHANGED think
       \/ ~cancelled /\ Collect
    /\ UNCHANGED <<step, thoughts, ending>>

Report ==
    /\ at = "report"
    /\ \/ StageFails
       \/ /\ ~cancelled
          /\ at' \in {"reportSend", "rolling"}
          /\ UNCHANGED <<mailboxVars, control, context>>
    /\ UNCHANGED <<step, think, thoughts, ending>>

SameStep == step
NextStep == step + 1

(* A report that was sent ends in a flush and the next step, one that was  *)
(* not in a rollover.                                                      *)
ReportSend ==
    /\ at = "reportSend"
    /\ \E sent \in BOOLEAN :
          /\ IF sent THEN Flush(groups, fresh) ELSE UNCHANGED context
          /\ step' = IF sent /\ ~cancelled THEN NextStep ELSE step
          /\ \/ cancelled /\ EndLoop("stopped")
             \/ ~cancelled /\ at' = (IF sent THEN "head" ELSE "rolling") /\ UNCHANGED control
    /\ UNCHANGED <<mailboxVars, think, thoughts, ending>>

(* maybe_roll_context; the next iteration. *)
Rolling ==
    /\ at = "rolling"
    /\ \/ cancelled /\ StageFails /\ UNCHANGED step
       \/ /\ ~cancelled
          /\ at' = "head"
          /\ step' = NextStep
          /\ groups' \in {groups} \cup {g \in {KeepRecent} : g < groups}
          /\ UNCHANGED <<mailboxVars, control, fresh, lost>>
    /\ UNCHANGED <<think, thoughts, ending>>

-----------------------------------------------------------------------------
(* The closing phase.                                                      *)

(* close_steering: what is pending is cancelled before anything is awaited. *)
CloseSteering ==
    /\ at = "settled"
    /\ Close
    /\ at' = "closing"
    /\ UNCHANGED <<step, think, thoughts, control, context, ending>>

(* An exhausted run and one that finished without a report are summarised  *)
(* by the model; a stopped or failed one starts no further stage.          *)
ChooseReport ==
    /\ at = "closing"
    /\ \/ outcome \in {"exhausted", "finish_task"} /\ ~cancelled /\ at' = "synthesis"
       \/ (outcome # "exhausted" \/ cancelled) /\ at' = "deliver"
    /\ UNCHANGED <<mailboxVars, step, think, thoughts, control, context, ending>>

Synthesis ==
    /\ at = "synthesis"
    /\ at' = "deliver"
    /\ UNCHANGED <<mailboxVars, step, think, thoughts, control, context, ending>>

Deliver ==
    /\ at = "deliver"
    /\ delivered' = TRUE
    /\ Release("released", Reason(outcome), Event)
    /\ UNCHANGED <<step, think, thoughts, control, context>>

EventOfOutcome == Event
EventOfFailure == "failed"

(* The except clause around the loop; a delivery that fails ends here too. *)
LoopFails ==
    /\ at \in InLoop \cup Closing
    /\ Close
    /\ at' = "failing"
    /\ outcome' = IF outcome = None THEN "failed" ELSE outcome
    /\ logged' = EventOfFailure
    /\ UNCHANGED <<step, think, thoughts, cancelled, directFailed, context, delivered, ended>>

ReleaseFailed ==
    /\ at = "failing"
    /\ Release("released", Reason(outcome), Event)
    /\ UNCHANGED <<step, think, thoughts, control, context, delivered>>

(* asyncio cancels the task at one of its awaits (the bot shuts down): the *)
(* finally clauses release the run; a greeting has none.                   *)
TaskCancelled ==
    /\ \/ at = "greeting" /\ at' = "abandoned" /\ UNCHANGED <<mailboxVars, logged, ended>>
       \/ /\ at \in Awaits \ {"greeting"}
          /\ Release("aborted", StatusOr("interrupted"), Event)
    /\ UNCHANGED <<step, think, thoughts, control, context, delivered>>

-----------------------------------------------------------------------------
(* Users, and the whole.                                                   *)

Instruct(m) ==
    /\ at \in Awaits
    /\ Offer(m)
    /\ UNCHANGED <<at, step, think, thoughts, control, context, ending>>

(* !stop *)
Stop ==
    /\ at \in Awaits
    /\ ~cancelled
    /\ cancelled' = TRUE
    /\ UNCHANGED <<mailboxVars, at, step, think, thoughts, outcome, directFailed, context, ending>>

Handler ==
    \/ Begin \/ Greet \/ DirectAnswers \/ DirectReplies \/ DirectReports \/ Announces
    \/ Head \/ Prepare \/ ModelAnswers \/ Card \/ TextCard \/ ToolCard \/ Tools
    \/ Report \/ ReportSend \/ Rolling
    \/ CloseSteering \/ ChooseReport \/ Synthesis \/ Deliver \/ LoopFails \/ ReleaseFailed

LoopNext == Handler \/ TaskCancelled \/ Stop \/ \E m \in Messages : Instruct(m)
LoopSpec == LoopInit /\ [][LoopNext]_loopVars

(* Every await of the handler ends: stages have a budget and Discord calls *)
(* the timeouts of their HTTP client.                                      *)
FairLoopSpec == LoopSpec /\ WF_loopVars(Handler)

-----------------------------------------------------------------------------
(* Correctness.                                                            *)

(* Once !stop was accepted, no answer, timeout or error that arrives with  *)
(* it starts another stage, and the loop does not end as completed.        *)
StopWins ==
    [][cancelled /\ at # "directReply"
          => /\ at' \in Stages => at' = at
             /\ outcome = None => outcome' \notin CompletedDetails]_loopVars

(* However a run ends, its run_end event and the status its records carry  *)
(* agree, no event says "completed" of a report nobody received, and only  *)
(* an undelivered run may be called failed in one place and not the other. *)
EndRecordsAgree ==
    at = "released"
        => /\ logged = ended \/ (logged = "failed" /\ ~delivered)
           /\ logged = "completed" => delivered

(* A released run has settled every instruction it accepted, and what was  *)
(* cancelled never reached the model.                                      *)
SettledAtRelease ==
    at \in {"released", "aborted"}
        => /\ Pending = {}
           /\ \A m \in fresh \cup lost : fate[m] = "applied"

(* Every run ends, whatever its model answers: through the bound on steps  *)
(* and on thoughts without action.                                         *)
RunEnds == <>(at \in Over)

(* ... and it ends soon: whatever the model, the tools and the users do,   *)
(* each step of the handler brings the end closer, by a distance that      *)
(* starts at eleven places for each step of the budget and a few for the   *)
(* rest.  So no answer, error, retry, report or thought makes a run visit  *)
(* a place of the same step twice.                                         *)
PlacesLeft(p) ==
    CASE p = "head"       -> 10
      [] p = "prepare"    -> 9
      [] p = "model"      -> 8
      [] p = "retry"      -> 7
      [] p = "card"       -> 6
      [] p \in {"textCard", "toolCard"} -> 5
      [] p = "tools"      -> 4
      [] p = "report"     -> 3
      [] p = "reportSend" -> 2
      [] p = "rolling"    -> 1

DistanceFrom(p, s) ==
    CASE p \in Over -> 0
      [] p \in {"failing", "directReply", "directReport"} -> 1
      [] p = "deliver"   -> 2
      [] p = "synthesis" -> 3
      [] p = "closing"   -> 4
      [] p = "settled"   -> 5
      [] p \in InLoop \cup {"head"} -> 6 + 11 * (MaxLoops + 1 - s) + PlacesLeft(p)
      [] p = "announce"  -> 11 * MaxLoops + 17
      [] p \in {"direct", "greeting"} -> 11 * MaxLoops + 18
      [] p = "begin"     -> 11 * MaxLoops + 19

Distance == DistanceFrom(at, step)

EndComesCloser ==
    [][UNCHANGED <<at, step>> \/ (Distance' \in Nat /\ Distance' < Distance)]_loopVars

-----------------------------------------------------------------------------
(* What the bot tells its users and does not do.                           *)

(* The receipt of an accepted instruction says that it is reflected in the *)
(* next step and, if it cannot be, that its sender is told at the end.  An *)
(* instruction settled as applied is never reported as unapplied.          *)
AppliedReachesAStep ==
    at = "released" /\ delivered /\ Reason(outcome) \in {"completed", "exhausted"}
        => fresh \cup lost = {}
=============================================================================
