----------------------------- MODULE ToolDispatch -----------------------------
(***************************************************************************)
(* One run's tool calls against crashes (bot.py, trajectory.py): the agent *)
(* loop announces the calls of a model response, reserves them in          *)
(* state.json, runs them, appends their group to traj.jsonl and moves the  *)
(* cursor of state.json on.  Whatever dies in between, a resumed run must  *)
(* not repeat a side effect it cannot see and must not claim to remember a *)
(* step whose record was lost.                                             *)
(*                                                                         *)
(* The server may repeat an id, and so may the ids the bot makes up for    *)
(* calls without one: they count from the process start (call_stream_N)    *)
(* or name the step (call_xml_N_i).                                        *)
(*                                                                         *)
(* Tool results, prompts and the text of summaries are left out; of a      *)
(* tiered summary only the last step it covers (tier3_through) is kept.    *)
(* The gates that refuse a call for other reasons (budget, known bad       *)
(* calls, stale record, missing thought) may refuse any call.              *)
(***************************************************************************)
EXTENDS Naturals, FiniteSets

CONSTANTS
    CallIds,        \* ids of calls: the server's own, call_xml_..., call_stream_...
    Guarded,        \* actions of bash_exec, read_file, web_search (fingerprints)
    Unguarded,      \* actions of the other tools
    MaxBatch,       \* bound: calls of one response
    MaxStep,        \* MAX_AGENT_LOOPS
    Window,         \* TOOL_LOOP_GUARD_WINDOW
    Lag             \* the newest steps that Tier 3 leaves to Tiers 1 and 2

Actions == Guarded \cup Unguarded
Calls == [id : CallIds, action : Actions, force : BOOLEAN]
Steps == 1 .. MaxStep

ASSUME MaxStepAssumption == MaxStep \in Nat
ASSUME WindowAssumption == Window \in Nat
ASSUME LagAssumption == Lag \in Nat \ {0}

VARIABLES
    phase,      \* "down", "model", "announced", "tools" or "collected"
    batch,      \* the calls accepted ("announced") or running ("tools")
    run,        \* memory of the loop; equal to `saved` while down
    saved,      \* state.json
    file,       \* traj.jsonl: "missing", "whole" or "torn"
    groups,     \* traj.jsonl: the steps whose group is complete
    logged,     \* traj.jsonl: <<id, step>> of the calls recorded as executed
    executed,   \* history: ids that were ever handed to a tool
    history,    \* history: <<id, step>> executed and not rewound
    done,       \* history: last step an action succeeded or may have, or 0
    goneBack    \* history: how the cursor went back, "asked" or "unasked"

loopVars == <<phase, batch, run, saved>>
trajectoryVars == <<file, groups, logged>>
historyVars == <<executed, history, done, goneBack>>
vars == <<loopVars, trajectoryVars, historyVars>>

NoGap == 0      \* trajectory_gap_step is None
Never == 0      \* no fingerprint of the action

(* next_step, announced_call_ids, tool_fingerprints, trajectory_gap_step   *)
(* and the tier3_through of the summary                                    *)
Records ==
    [next : 1 .. MaxStep + 1, announced : SUBSET CallIds,
     seen : [Guarded -> 0 .. MaxStep], gap : 0 .. MaxStep, through : 0 .. MaxStep]

TypeOK ==
    /\ phase \in {"down", "model", "announced", "tools", "collected"}
    /\ batch \subseteq Calls
    /\ run \in Records
    /\ saved \in Records
    /\ file \in {"missing", "whole", "torn"}
    /\ groups \subseteq Steps
    /\ logged \subseteq CallIds \X Steps
    /\ executed \subseteq CallIds
    /\ history \subseteq CallIds \X Steps
    /\ done \in [Guarded -> 0 .. MaxStep]
    /\ goneBack \subseteq {"asked", "unasked"}

(* A fresh run after its "run_start" save. *)
FirstRecord ==
    [next |-> 1, announced |-> {}, seen |-> [a \in Guarded |-> Never],
     gap |-> NoGap, through |-> 0]

Init ==
    /\ phase = "model"
    /\ batch = {}
    /\ run = FirstRecord
    /\ saved = FirstRecord
    /\ file = "missing"
    /\ groups = {}
    /\ logged = {}
    /\ executed = {}
    /\ history = {}
    /\ done = [a \in Guarded |-> 0]
    /\ goneBack = {}

-----------------------------------------------------------------------------
(* Helpers.                                                                *)

Ids(calls) == {call.id : call \in calls}
At(calls, s) == {<<call.id, s>> : call \in calls}
Before(pairs, s) == {p \in pairs : p[2] <= s}

Least(m, n) == IF m <= n THEN m ELSE n
Greatest(m, n) == IF m >= n THEN m ELSE n
Earliest(gap, s) == IF gap = NoGap THEN s ELSE Least(gap, s)

(* The fingerprints of the calls replace those of the same actions. *)
Stamp(seen, calls, s) ==
    [a \in Guarded |-> IF \E call \in calls : call.action = a THEN s ELSE seen[a]]

InWindow(seen, s) ==
    [a \in Guarded |-> IF seen[a] <= s /\ s - seen[a] <= Window THEN seen[a] ELSE Never]

(* What procedural_source(start, end) may cover of a trajectory: it stops  *)
(* before a group that does not fit its budget.                            *)
SourceThrough(start, end, whole, steps) ==
    LET trusted == {e \in start .. end : whole \/ \E g \in steps : e <= g}
        stops == {g - 1 : g \in steps \cap trusted}
    IN  stops \cup {e \in trusted \cup {start - 1} : \A t \in trusted : t <= e}

-----------------------------------------------------------------------------
(* One step of the loop.                                                   *)

AcceptAll(calls) == calls

(* The identity check: of the calls with one id the first is accepted, if  *)
(* the id is new to the run.                                               *)
Accepted(calls) ==
    {call \in calls : call.id \notin run.announced}

(* The ids of a response are saved before any call is looked at.  A save   *)
(* that fails ends the run: that is End.                                   *)
Announce(calls, accepted) ==
    /\ phase = "model"
    /\ run.next <= MaxStep
    /\ calls # {}
    /\ accepted \subseteq Accepted(calls)
    /\ Ids(accepted) = Ids(Accepted(calls))
    /\ \A x, y \in accepted : x.id = y.id => x = y
    /\ phase' = "announced"
    /\ batch' = accepted
    /\ run' = [run EXCEPT !.announced = @ \cup Ids(calls)]
    /\ saved' = IF run' = run THEN saved ELSE run'
    /\ UNCHANGED <<trajectoryVars, historyVars>>

Repeats(call, seen) == call.action \in Guarded /\ ~call.force /\ seen[call.action] # Never

(* What is written before the calls run: they count as done and their step *)
(* as lost, until the results say otherwise.                               *)
ReserveFingerprintOnly(record, calls) ==
    [record EXCEPT !.seen = Stamp(@, calls, record.next)]

ReserveGapOnly(record, calls) ==
    IF calls = {} THEN record ELSE [record EXCEPT !.gap = Earliest(@, record.next)]

Reserved(record, calls) ==
    IF calls = {} THEN record
    ELSE [record EXCEPT !.seen = Stamp(@, calls, record.next),
                        !.gap = Earliest(@, record.next)]

(* The gates pass some calls; the reservation is saved if it changed       *)
(* anything (else End) and memory keeps the state before it.               *)
Dispatch(calls) ==
    /\ phase = "announced"
    /\ calls \subseteq batch
    /\ \A call \in calls : ~Repeats(call, InWindow(run.seen, run.next))
    /\ \A x, y \in calls : x.action = y.action /\ x.force = y.force => x = y
    /\ phase' = "tools"
    /\ batch' = calls
    /\ run' = [run EXCEPT !.seen = InWindow(@, run.next)]
    /\ saved' = IF Reserved(run', calls) = run' THEN saved ELSE Reserved(run', calls)
    /\ executed' = executed \cup Ids(calls)
    /\ history' = history \cup At(calls, run.next)
    /\ UNCHANGED <<trajectoryVars, done, goneBack>>

(* append_tool_group raises before it writes. *)
CanAppend == file # "torn" /\ \A g \in groups : g < run.next

Appended ==
    /\ CanAppend
    /\ file' = "whole"
    /\ groups' = groups \cup {run.next}
    /\ logged' = logged \cup At(batch, run.next)

(* It fails before it wrote anything, or in the middle of a line. *)
NotAppended ==
    /\ file' \in {file} \cup (IF file = "missing" THEN {"whole"} ELSE {})
                        \cup (IF CanAppend THEN {"torn"} ELSE {})
    /\ UNCHANGED <<groups, logged>>

CollectResults(good, gap) ==
    /\ run' = [run EXCEPT !.seen = Stamp(@, good, run.next), !.gap = gap]
    /\ done' = Stamp(done, good, run.next)

(* The results: `good` succeeded; the group is appended, or the step is a  *)
(* gap, also when the bytes are there but fsync failed.                    *)
Collect(good) ==
    /\ phase = "tools"
    /\ good \subseteq batch
    /\ \/ Appended /\ CollectResults(good, run.gap)
       \/ /\ Appended \/ NotAppended
          /\ CollectResults(good, Earliest(run.gap, run.next))
    /\ phase' = "collected"
    /\ UNCHANGED <<batch, saved, executed, history, goneBack>>

(* The "tool_group" save moves the cursor on (else End). *)
Commit ==
    /\ phase = "collected"
    /\ phase' = "model"
    /\ batch' = {}
    /\ run' = [run EXCEPT !.next = @ + 1]
    /\ saved' = run'
    /\ UNCHANGED <<trajectoryVars, historyVars>>

(* A response without tool calls moves the cursor in memory only. *)
TextStep ==
    /\ phase = "model"
    /\ run.next < MaxStep
    /\ run' = [run EXCEPT !.next = @ + 1]
    /\ UNCHANGED <<phase, batch, saved, trajectoryVars, historyVars>>

(* The saves of a flush, a report or a payload repair. *)
Snapshot ==
    /\ phase = "model"
    /\ run.next <= MaxStep
    /\ saved' = run
    /\ UNCHANGED <<phase, batch, run, trajectoryVars, historyVars>>

CeilingIgnoresGap(s) == IF s <= Lag THEN 0 ELSE s - Lag

(* The last step a rollover at step s may summarise. *)
Ceiling(s) ==
    LET end == IF s <= Lag THEN 0 ELSE s - Lag
    IN  IF run.gap = NoGap THEN end ELSE Least(end, run.gap - 1)

(* Before the model call of a step, or after the step before it. *)
Rollover(s) ==
    /\ phase = "model"
    /\ run.next <= MaxStep
    /\ s \in {run.next, run.next - 1}
    /\ \E t \in SourceThrough(run.through + 1, Ceiling(s), file = "whole", groups) :
          run' = [run EXCEPT !.through = t]
    /\ saved' \in {run', saved}
    /\ UNCHANGED <<phase, batch, trajectoryVars, historyVars>>

(* The run ends in any phase, by itself, by !stop, by a stage or a save    *)
(* that fails or with the process; calls that were running may have had    *)
(* their effect.                                                           *)
End ==
    /\ phase # "down"
    /\ phase' = "down"
    /\ batch' = {}
    /\ run' = saved
    /\ done' = IF phase = "tools" THEN Stamp(done, batch, run.next) ELSE done
    /\ UNCHANGED <<saved, trajectoryVars, executed, history, goneBack>>

-----------------------------------------------------------------------------
(* Resuming and rewinding.                                                 *)

(* rebuild_legacy_resume_state: only the groups before the gap are trusted.*)
TrustedSteps == {g \in groups : saved.gap = NoGap \/ g < saved.gap}

IsLastTrusted(last) ==
    /\ last \in TrustedSteps \cup {0}
    /\ \A g \in TrustedSteps : g <= last

(* The summary is made from the trusted groups again. *)
RebuiltThrough(last) ==
    IF last = 0 THEN {saved.through}
    ELSE {Greatest(t, saved.through) : t \in SourceThrough(1, last, file = "whole", groups)}

(* The cursor moves past the trusted groups, but not past the gap. *)
Rebuilt(last, t) ==
    LET past == Greatest(saved.next, last + 1)
    IN  [saved EXCEPT !.next = IF saved.gap = NoGap THEN past ELSE Least(past, saved.gap),
                      !.through = t]

(* The record is rebuilt and saved; when that save fails it is used as is. *)
Restart ==
    /\ phase = "down"
    /\ \/ \E last \in 0 .. MaxStep :
             /\ IsLastTrusted(last)
             /\ \E t \in RebuiltThrough(last) : saved' = Rebuilt(last, t)
       \/ saved' = saved
    /\ run' = saved'
    /\ phase' = "model"
    /\ goneBack' = goneBack \cup (IF saved'.next < saved.next THEN {"unasked"} ELSE {})
    /\ UNCHANGED <<batch, trajectoryVars, executed, history, done>>

(* !rewind to step n cuts the trajectory ... *)
CutTrajectory(n) ==
    /\ phase = "down"
    /\ file = "whole"
    /\ n \in 1 .. saved.next - 1
    /\ groups' = {g \in groups : g <= n}
    /\ logged' = Before(logged, n)
    /\ history' = Before(history, n)
    /\ UNCHANGED <<phase, batch, file, executed, done>>

RewoundTo(n, t) ==
    [saved EXCEPT !.next = n + 1,
                  !.seen = [a \in Guarded |-> IF @[a] <= n THEN @[a] ELSE Never],
                  !.gap = IF @ <= n THEN @ ELSE NoGap,
                  !.through = t]

(* ... and then the record, whose Tier 3 is made from what is left, unless *)
(* the summary is not tiered yet.                                          *)
Rewind(n) ==
    /\ CutTrajectory(n)
    /\ \E t \in SourceThrough(1, n, TRUE, groups') \cup ({saved.through} \cap {0}) :
          saved' = RewoundTo(n, t)
    /\ run' = saved'
    /\ goneBack' = goneBack \cup {"asked"}

(* It dies, or cannot save the record, in between. *)
RewindHalf(n) ==
    /\ CutTrajectory(n)
    /\ UNCHANGED <<run, saved, goneBack>>

-----------------------------------------------------------------------------
Next ==
    \/ \E calls \in SUBSET Calls :
          /\ Cardinality(calls) <= MaxBatch
          /\ \E accepted \in SUBSET calls : Announce(calls, accepted)
    \/ \E calls \in SUBSET batch : Dispatch(calls) \/ Collect(calls)
    \/ Commit \/ TextStep \/ Snapshot
    \/ \E s \in 0 .. MaxStep : Rollover(s)
    \/ End \/ Restart
    \/ \E n \in Steps : Rewind(n) \/ RewindHalf(n)

Spec == Init /\ [][Next]_vars

-----------------------------------------------------------------------------
(* Correctness.                                                            *)

Dispatching == phase = "announced" /\ phase' = "tools"

(* A call id is handed to a tool at most once, across any number of        *)
(* crashes, resumptions and rewinds, whatever ids the server repeats.      *)
RunsOnce == [][Dispatching => Ids(batch') \cap executed = {}]_vars

RepeatsFreshId(call) ==
    /\ call.action \in Guarded
    /\ ~call.force
    /\ done[call.action] # 0
    /\ run.next <= done[call.action] + Window

(* An action of a guarded tool that succeeded, or that was running when    *)
(* the run died, is not run again within the window under a fresh id       *)
(* unless the model forces it, for as long as the cursor only moves on.    *)
GuardedRunsOnce ==
    [][Dispatching /\ goneBack = {}
          => \A call \in batch' : ~RepeatsFreshId(call)]_vars

Lost == history \ logged

(* Every executed call that the trajectory does not show lies at or behind *)
(* the gap of the record on disk, at every instant a crash may come.       *)
LostGroupsAreCovered == \A p \in Lost : saved.gap # NoGap /\ saved.gap <= p[2]

(* No summary, in the prompt or on disk, covers a step whose executed      *)
(* calls are not in the trajectory, unless the user rewound the run.       *)
CoverageIsHonest ==
    "asked" \notin goneBack
        => \A p \in Lost : saved.through < p[2] /\ run.through < p[2]

-----------------------------------------------------------------------------
(* What the comments say and the code does not do.                         *)

(* bot.py: "The first missing group is a permanent Tier 3 ceiling; later   *)
(* valid groups cannot prove what this append lost."                       *)
GapIsPermanentCeiling == \A p \in Lost : saved.through < p[2]

(* bot.py: even when the result cannot be saved or the process dies, the   *)
(* stale record must prevent the fresh-id repetition of a guarded action.  *)
NoFreshIdRepeats ==
    [][Dispatching /\ "asked" \notin goneBack
          => \A call \in batch' : ~RepeatsFreshId(call)]_vars
=============================================================================
