------------------------------ MODULE ToolGates ------------------------------
(***************************************************************************)
(* The policy between the model's tool calls and their execution (bot.py): *)
(* the limit on failing calls, the guards against repetition, the memory   *)
(* of calls that are known to fail, the gate that asks for a record_state  *)
(* and the one that asks for a think.  The calls of one response are       *)
(* judged in order, those that pass run in parallel, and their results are *)
(* booked in order.                                                        *)
(*                                                                         *)
(* The loop guard, the observation guard and the artifact guard read the   *)
(* history of the run, of which nothing is kept here: they may refuse any  *)
(* call they apply to.  KNOWN_BAD_CALLS_MAX is never reached.  Calls whose *)
(* arguments or ids are refused are the matter of ToolDispatch.            *)
(***************************************************************************)
EXTENDS Naturals, Sequences, FiniteSets

CONSTANTS
    Paths,          \* files of the workspace
    Playbook,       \* playbook.md, which record_playbook writes
    Findings,       \* findings.md, which a checkpoint writes
    None,
    Menu,           \* bound: the calls that the model may make
    MaxBatch,       \* bound: calls of one response
    MaxStep,        \* MAX_AGENT_LOOPS
    FailLimit,      \* MAX_CONSECUTIVE_FAILED_TOOL_CALLS
    StaleSteps,     \* RECORD_STATE_STALE_STEPS
    DebtFailures,   \* THINK_DEBT_FAILURES
    BlockSteps,     \* GUARD_BLOCK_THINK_STEPS
    Interval,       \* REPORT_INTERVAL
    Budget          \* MAX_TOOL_EXECUTIONS_PER_RUN

(* A read may be of a part of the file; a record_state may say no_change;  *)
(* only the guarded tools know the argument force.                         *)
Calls ==
    [tool : {"read"}, path : Paths, part : BOOLEAN, noChange : {FALSE}, force : BOOLEAN]
    \cup [tool : {"bash"}, path : {None}, part : {FALSE}, noChange : {FALSE}, force : BOOLEAN]
    \cup [tool : {"write"}, path : Paths, part : {FALSE}, noChange : {FALSE}, force : {FALSE}]
    \cup [tool : {"rule"}, path : {Playbook}, part : {FALSE}, noChange : {FALSE},
          force : {FALSE}]
    \cup [tool : {"record"}, path : {None}, part : {FALSE}, noChange : BOOLEAN, force : {FALSE}]
    \cup [tool : {"think"}, path : {None}, part : {FALSE}, noChange : {FALSE}, force : {FALSE}]

ASSUME FilesAssumption == {Playbook, Findings} \subseteq Paths
ASSUME MenuAssumption == Menu \subseteq Calls
ASSUME LimitsAssumption ==
    {MaxStep, FailLimit, StaleSteps, DebtFailures, BlockSteps, Interval} \subseteq Nat \ {0}
ASSUME BudgetAssumption == Budget \in Nat
ASSUME BatchAssumption == MaxBatch \in Nat \ {0}

VARIABLES
    phase,      \* "model", "gate", "run" or "book"
    step,       \* iteration + 1
    batch,      \* the calls of the response
    pos,        \* how many of them are judged, or booked
    passed,     \* positions of the calls that may run (allowed_calls)
    guarded,    \* step_had_guard_block
    projected,  \* projected_failure_signature and _count
    result,     \* of each call: "none" yet, "ok", "failed" or "absent"
    last,       \* last_failed_signature and consecutive_failed_tool_calls
    failures,   \* consecutive_failed_any
    debt,       \* think_debt
    recorded,   \* last_record_step, ahead of the step after some resumptions
    repeats,    \* consecutive_duplicate_records
    delta,      \* ledger.last_delta
    revised,    \* ledger.revision changed during the batch
    streak,     \* consecutive_guard_block_steps
    thinking,   \* pending_think_effort is set
    known,      \* known_bad_calls: signatures
    total,      \* total_tools_executed
    present,     \* the files there are
    saved,      \* known_bad_calls and last_record_step in state.json
    fresh,      \* history: a record_state of the batch made progress
    unseen,     \* history: files whose creation the record of failures missed
    excused     \* history: the failures in a row ran beside a think

batchVars == <<batch, pos, passed, guarded, projected, result, revised, fresh>>
countVars == <<last, failures, debt, excused, repeats, streak, thinking, total>>
recordVars == <<recorded, delta>>
fileVars == <<present, unseen>>
vars == <<phase, step, batchVars, countVars, recordVars, fileVars, known, saved>>

Positions == 1 .. MaxBatch
Fails == {"failed", "absent"}
Deltas == {"none", "progress", "repeat", "empty"}

(* The identity of a call for the failure limit and for known_bad_calls.   *)
Signature(c) == [c EXCEPT !.force = FALSE]
WholeRead(p) == [tool |-> "read", path |-> p, part |-> FALSE, noChange |-> FALSE,
                 force |-> FALSE]
Signatures == {Signature(c) : c \in Menu}
Tallies == [signature : {None} \cup Signatures, count : Nat]
NoFailure == [signature |-> None, count |-> 0]

(* One more attempt of c.                                                  *)
Tally(t, c) ==
    IF t.signature = Signature(c)
    THEN [t EXCEPT !.count = @ + 1]
    ELSE [signature |-> Signature(c), count |-> 1]

GatesTypeOK ==
    /\ phase \in {"model", "gate", "run", "book"}
    /\ step \in 1 .. MaxStep + 1
    /\ batch \in Seq(Menu) /\ Len(batch) <= MaxBatch
    /\ pos \in 0 .. Len(batch)
    /\ passed \subseteq 1 .. Len(batch)
    /\ guarded \in BOOLEAN
    /\ projected \in Tallies
    /\ result \in [Positions -> {"none", "ok"} \cup Fails]
    /\ last \in Tallies
    /\ failures \in Nat
    /\ debt \in BOOLEAN
    /\ recorded \in 0 .. MaxStep
    /\ repeats \in 0 .. 2
    /\ delta \in Deltas
    /\ revised \in BOOLEAN
    /\ streak \in 0 .. step
    /\ thinking \in BOOLEAN
    /\ known \subseteq Signatures
    /\ total \in 0 .. Budget
    /\ present \subseteq Paths
    /\ saved \in [known : SUBSET Signatures, recorded : 0 .. MaxStep]
    /\ fresh \in BOOLEAN
    /\ unseen \subseteq Paths
    /\ excused \in BOOLEAN

NotRun == [i \in Positions |-> "none"]

Init ==
    /\ phase = "model"
    /\ step = 1
    /\ batch = <<>> /\ pos = 0 /\ passed = {} /\ guarded = FALSE
    /\ projected = NoFailure /\ result = NotRun /\ revised = FALSE /\ fresh = FALSE
    /\ last = NoFailure /\ failures = 0 /\ debt = FALSE /\ repeats = 0
    /\ streak = 0 /\ thinking = FALSE /\ total = 0
    /\ delta = "none"
    /\ recorded = 0
    /\ known = {}
    /\ present \in SUBSET Paths
    /\ saved = [known |-> {}, recorded |-> 0]
    /\ unseen = {}
    /\ excused = FALSE

-----------------------------------------------------------------------------
(* The model answers.                                                      *)

Propose ==
    /\ phase = "model" /\ step <= MaxStep
    /\ \E n \in Positions : batch' \in [1 .. n -> Menu]
    /\ phase' = "gate"
    /\ pos' = 0 /\ passed' = {} /\ guarded' = FALSE
    /\ projected' = last
    /\ result' = NotRun
    /\ revised' = FALSE /\ fresh' = FALSE
    /\ thinking' = FALSE
    /\ UNCHANGED <<step, last, failures, debt, excused, repeats, streak, total, recordVars,
                   fileVars, known, saved>>

(* A step without calls: an internal thought or a step for think alone.    *)
NoCalls ==
    /\ phase = "model" /\ step <= MaxStep
    /\ step' = step + 1
    /\ thinking' = FALSE
    /\ UNCHANGED <<phase, batchVars, last, failures, debt, excused, repeats, streak, total,
                   recordVars, fileVars, known, saved>>

-----------------------------------------------------------------------------
(* The calls are judged in order.                                          *)

Guarded(c) == c.tool \in {"read", "bash"}

Duplicate(i) ==
    \E k \in 1 .. i - 1 :
        \/ batch[k] = batch[i]
        \/ /\ Guarded(batch[i]) /\ ~batch[i].force
           /\ Signature(batch[k]) = Signature(batch[i])

(* The failure limit holds for a forced call too.                          *)
AtFailureLimit(c) ==
    projected.signature = Signature(c) /\ projected.count >= FailLimit
KnownBad(c) == Guarded(c) /\ ~c.force /\ Signature(c) \in known

(* _record_stale_block and _think_required_block                           *)
RecordStaleForced(c) == c.tool # "record" /\ step >= recorded + StaleSteps
RecordStale(c) == c.tool # "record" /\ ~c.force /\ step >= recorded + StaleSteps
ThinkRequired(c) == debt /\ c.tool # "think" /\ ~c.force
OutOfBudgetBefore == total >= Budget
OutOfBudget == total + Cardinality(passed) >= Budget

Judge(i) ==
    /\ phase = "gate" /\ pos < Len(batch)
    /\ i = pos + 1
    /\ pos' = i
    /\ UNCHANGED <<phase, step, batch, result, revised, fresh, countVars, recordVars, fileVars,
                   known, saved>>

(* loop_guard_repeat, observation_repeat, known_failure, artifact_chain    *)
RefuseByGuard(i) ==
    /\ Judge(i)
    /\ Guarded(batch[i]) /\ ~batch[i].force
    /\ ~Duplicate(i) /\ ~AtFailureLimit(batch[i])
    /\ guarded' = TRUE
    /\ UNCHANGED <<passed, projected>>

Refuse(i) ==
    /\ Judge(i)
    /\ \/ Duplicate(i)
       \/ AtFailureLimit(batch[i])
       \/ /\ ~KnownBad(batch[i])
          /\ RecordStale(batch[i]) \/ ThinkRequired(batch[i]) \/ OutOfBudget
    /\ UNCHANGED <<passed, guarded, projected>>

PassUnprojected(i) ==
    /\ Judge(i)
    /\ ~Duplicate(i) /\ ~AtFailureLimit(batch[i]) /\ ~KnownBad(batch[i])
    /\ ~RecordStale(batch[i]) /\ ~ThinkRequired(batch[i]) /\ ~OutOfBudget
    /\ passed' = passed \cup {i}
    /\ UNCHANGED <<guarded, projected>>

Pass(i) ==
    /\ Judge(i)
    /\ ~Duplicate(i) /\ ~AtFailureLimit(batch[i]) /\ ~KnownBad(batch[i])
    /\ ~RecordStale(batch[i]) /\ ~ThinkRequired(batch[i]) /\ ~OutOfBudget
    /\ passed' = passed \cup {i}
    /\ projected' = Tally(projected, batch[i])
    /\ UNCHANGED guarded

Dispatch ==
    /\ phase = "gate" /\ pos = Len(batch)
    /\ phase' = "run"
    /\ total' = total + Cardinality(passed)
    /\ projected' = NoFailure
    /\ UNCHANGED <<step, batch, pos, passed, guarded, result, revised, fresh, last, failures,
                   debt, excused, repeats, streak, thinking, recordVars, fileVars, known, saved>>

-----------------------------------------------------------------------------
(* The calls that passed run, in any order.                                *)

Running(i, tool) ==
    /\ phase = "run"
    /\ i \in passed /\ result[i] = "none"
    /\ batch[i].tool = tool
    /\ UNCHANGED <<phase, step, batch, pos, passed, guarded, projected, countVars, recorded,
                   known, saved>>
Ends(i, r) == result' = [result EXCEPT ![i] = r]

RunRead(i) ==
    /\ Running(i, "read")
    /\ IF batch[i].path \in present THEN Ends(i, "ok") \/ Ends(i, "failed")
                                   ELSE Ends(i, "absent")
    /\ UNCHANGED <<delta, revised, fresh, fileVars>>

(* A write that a read of the batch, later in the response, did not see:   *)
(* its success is booked before that read's failure.                       *)
RunWrite(i) ==
    /\ Running(i, "write")
    /\ \/ /\ Ends(i, "ok")
          /\ present' = present \cup {batch[i].path}
          /\ unseen' = unseen \cup
                {p \in {batch[i].path} : \E k \in passed : /\ k > i /\ result[k] = "absent"
                                                           /\ batch[k].path = p}
       \/ Ends(i, "failed") /\ UNCHANGED fileVars
    /\ UNCHANGED <<delta, revised, fresh>>

(* A lesson goes into the playbook, which it creates where there is none;  *)
(* only a success of write_file erases a known failure.                    *)
RunRule(i) ==
    /\ Running(i, "rule")
    /\ \/ /\ Ends(i, "ok")
          /\ present' = present \cup {Playbook}
          /\ unseen' = unseen \cup ({Playbook} \ present)
       \/ Ends(i, "failed") /\ UNCHANGED fileVars
    /\ UNCHANGED <<delta, revised, fresh>>

(* A command may create and delete files.                                  *)
RunBash(i) ==
    /\ Running(i, "bash")
    /\ Ends(i, "ok") \/ Ends(i, "failed")
    /\ present' \in SUBSET Paths
    /\ unseen' = unseen \cup (present' \ present)
    /\ UNCHANGED <<delta, revised, fresh>>

RunRecordKeepsDelta(i) ==
    /\ Running(i, "record")
    /\ Ends(i, "ok") \/ Ends(i, "failed")
    /\ \/ /\ delta' = "progress" /\ revised' = TRUE /\ fresh' = TRUE
       \/ UNCHANGED <<delta, revised, fresh>>
    /\ UNCHANGED fileVars

(* tool_record_state: some items may be refused; an exception leaves       *)
(* last_delta as it was, and the ledger perhaps changed in part.           *)
RunRecord(i) ==
    /\ Running(i, "record")
    /\ \/ /\ Ends(i, "ok") \/ Ends(i, "failed")
          /\ delta' \in Deltas \ {"none"}
          /\ revised' = (revised \/ delta' = "progress")
          /\ fresh' = (fresh \/ delta' = "progress")
       \/ /\ Ends(i, "failed")
          /\ revised' \in {revised, TRUE}
          /\ UNCHANGED <<delta, fresh>>
    /\ UNCHANGED fileVars

RunThink(i) ==
    /\ Running(i, "think")
    /\ Ends(i, "ok")
    /\ UNCHANGED <<delta, revised, fresh, fileVars>>

RunCall(i) ==
    \/ RunRead(i) \/ RunWrite(i) \/ RunRule(i) \/ RunBash(i)
    \/ RunRecord(i) \/ RunThink(i)

Complete ==
    /\ phase = "run"
    /\ \A i \in passed : result[i] # "none"
    /\ phase' = "book" /\ pos' = 0
    /\ UNCHANGED <<step, batch, passed, guarded, projected, result, revised, fresh, countVars,
                   recordVars, fileVars, known, saved>>

-----------------------------------------------------------------------------
(* The results are booked in order.                                        *)

(* Whether a record_state opens its gate, and the new count of repetitions *)
(* in a row; every record_state of the batch is judged by the last delta.  *)
OpensGate(c) ==
    \/ delta = "progress" \/ c.noChange
    \/ delta = "repeat" /\ repeats = 2
    \/ delta = "none" /\ revised
BookRecord(c) ==
    IF OpensGate(c)
    THEN /\ recorded' = step
         /\ repeats' = IF delta = "none" /\ ~c.noChange THEN repeats ELSE 0
    ELSE /\ repeats' = IF delta = "repeat" THEN repeats + 1 ELSE repeats
         /\ UNCHANGED recorded

Book(i) ==
    /\ phase = "book" /\ pos < Len(batch)
    /\ i = pos + 1
    /\ pos' = i
    /\ UNCHANGED <<phase, step, batch, passed, guarded, projected, result, revised, fresh, debt,
                   excused, streak, thinking, total, delta, fileVars, saved>>

BookRefused(i) ==
    /\ Book(i)
    /\ i \notin passed
    /\ UNCHANGED <<last, failures, repeats, recorded, known>>

BookFailure(i) ==
    /\ Book(i)
    /\ i \in passed /\ result[i] \in Fails
    /\ last' = Tally(last, batch[i])
    /\ failures' = failures + 1
    /\ known' = IF result[i] = "absent" THEN known \cup {Signature(batch[i])} ELSE known
    /\ IF batch[i].tool = "record" THEN BookRecord(batch[i]) ELSE UNCHANGED <<repeats, recorded>>

BookSuccessStale(i) ==
    /\ Book(i)
    /\ i \in passed /\ result[i] = "ok"
    /\ last' = NoFailure
    /\ failures' = 0
    /\ known' = known
    /\ IF batch[i].tool = "record" THEN BookRecord(batch[i]) ELSE UNCHANGED <<repeats, recorded>>

BookSuccess(i) ==
    /\ Book(i)
    /\ i \in passed /\ result[i] = "ok"
    /\ last' = NoFailure
    /\ failures' = 0
    /\ known' = IF batch[i].tool = "write" THEN known \ {WholeRead(batch[i].path)} ELSE known
    /\ IF batch[i].tool = "record" THEN BookRecord(batch[i]) ELSE UNCHANGED <<repeats, recorded>>

(* The end of the step: the debt of a think, the think that a think call   *)
(* or a row of guarded steps orders, and the record that is saved.         *)
Tools == {batch[i].tool : i \in passed}
Streak == IF "think" \in Tools THEN 0 ELSE IF guarded THEN streak + 1 ELSE 0
Asked == \E i \in 1 .. Len(batch) : batch[i].tool = "think"

DebtOfBatch ==
    passed # {} /\ "think" \notin Tools /\ failures >= DebtFailures

Debt ==
    IF passed = {} THEN debt ELSE "think" \notin Tools /\ failures >= DebtFailures

(* A response that holds a think leaves no debt, whatever fails beside it. *)
Excused ==
    IF passed = {} THEN excused ELSE "think" \in Tools /\ failures >= DebtFailures

EndStep ==
    /\ phase = "book" /\ pos = Len(batch)
    /\ phase' = "model"
    /\ step' = step + 1
    /\ debt' = Debt /\ excused' = Excused
    /\ thinking' = (Asked \/ Streak >= BlockSteps)
    /\ streak' = IF Streak >= BlockSteps /\ ~Asked THEN 0 ELSE Streak
    /\ saved' = [known |-> known, recorded |-> recorded]
    /\ batch' = <<>> /\ pos' = 0 /\ passed' = {} /\ guarded' = FALSE
    /\ projected' = NoFailure /\ result' = NotRun /\ revised' = FALSE /\ fresh' = FALSE
    /\ UNCHANGED <<last, failures, repeats, total, recordVars, fileVars, known>>

(* The report after a step: its corrections are applied to the ledger, and *)
(* sync_milestone_to_disk puts it into the findings, if it can.            *)
Checkpoint ==
    /\ phase = "model" /\ step \in 2 .. MaxStep /\ (step - 1) % Interval = 0
    /\ delta' \in {delta} \cup (Deltas \ {"none"})
    /\ \/ /\ present' = present \cup {Findings}
          /\ unseen' = unseen \cup ({Findings} \ present)
       \/ UNCHANGED fileVars
    /\ UNCHANGED <<phase, step, batchVars, countVars, recorded, known, saved>>

(* The bot dies, or the run is stopped or ends on a record it could not    *)
(* save, and is resumed with what the record keeps.  The run goes on after *)
(* the last group of the trajectory, or goes back to the first that is     *)
(* missing there, while the step of the last record_state stays as it is.  *)
(* A file that was created meanwhile stays, and nobody has booked it.      *)
Restart ==
    /\ phase' = "model"
    /\ step' \in 1 .. (IF phase = "book" THEN step + 1 ELSE step)
    /\ batch' = <<>> /\ pos' = 0 /\ passed' = {} /\ guarded' = FALSE
    /\ projected' = NoFailure /\ result' = NotRun /\ revised' = FALSE /\ fresh' = FALSE
    /\ last' = NoFailure /\ failures' = 0 /\ debt' = FALSE /\ excused' = FALSE
    /\ repeats' = 0
    /\ streak' = 0 /\ thinking' = FALSE /\ total' = 0
    /\ delta' = "none"
    /\ known' = saved.known
    /\ recorded' = saved.recorded
    /\ unseen' = unseen \cup {batch[i].path : i \in {k \in passed : batch[k].tool = "write"
                                                                /\ result[k] = "ok"}}
    /\ UNCHANGED <<present, saved>>

Next ==
    \/ Propose \/ NoCalls \/ Dispatch \/ Complete \/ EndStep \/ Checkpoint \/ Restart
    \/ \E i \in Positions :
        \/ RefuseByGuard(i) \/ Refuse(i) \/ Pass(i)
        \/ RunCall(i)
        \/ BookRefused(i) \/ BookFailure(i) \/ BookSuccess(i)

Spec == Init /\ [][Next]_vars

-----------------------------------------------------------------------------
(* Properties.                                                             *)

(* A call that fails is not tried more often in a row than the limit says, *)
(* even when one response repeats it with force.                           *)
FailuresAreBounded == last.count <= FailLimit

(* A whole read that is refused as a known failure is of a file that is    *)
(* not there, unless something created it that _invalidate_known_bad does  *)
(* not notice (a shell, record_playbook, the findings of a checkpoint), a  *)
(* write of the same response raced with the read, or the bot died before  *)
(* it could book the write (known_bad_calls).                              *)
KnownBadIsAbsent ==
    phase = "model" => \A p \in Paths \ unseen : WholeRead(p) \in known => p \notin present

(* After DebtFailures failures in a row nothing runs but a think and what  *)
(* is forced, over any number of steps without calls or with refused ones, *)
(* unless the last of them ran in one response with a think (think_debt).  *)
BreakerHolds ==
    phase = "run" /\ failures >= DebtFailures /\ ~excused =>
        \A i \in passed : batch[i].force \/ batch[i].tool = "think"

(* Within a run, the gate that asks for a record opens only where the      *)
(* ledger made progress in this step, the model said no_change, two        *)
(* repetitions came before this one, or a record_state failed (which       *)
(* leaves the delta of an earlier batch in force).                         *)
GateOpensForProgress ==
    [][phase' = "book" /\ recorded' # recorded =>
         \/ fresh \/ repeats = 2
         \/ \E i \in passed : batch[i].tool = "record"
                              /\ (batch[i].noChange \/ result[i] \in Fails)]_vars

(* While the budget lasts some call is let through; it needs force only    *)
(* where both gates are shut, each of which refuses what opens the other.  *)
Open(c) ==
    ~AtFailureLimit(c) /\ ~KnownBad(c) /\ ~RecordStale(c) /\ ~ThinkRequired(c)
WayOut ==
    phase = "gate" /\ pos = 0 /\ ~OutOfBudget =>
        \E c \in Menu : Open(c) /\ (c.force => debt /\ step >= recorded + StaleSteps)
=============================================================================
