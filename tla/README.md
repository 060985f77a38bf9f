# Verification of the autonomous research bot

TLA+ models of the bot in `src/`, the TLC configurations that check them on small
instances, and TLAPS proofs of the properties that matter most, for every value of
the constants. Lines are quoted as `file:line` of the repository.

Check a run with `tlc -config <cfg> <module>`, the proofs with `tlapm <module>`.

## 1. The system

The bot is one asyncio process. A Discord message is a *goal*: the bot creates or
continues a **run**, executes a step loop around a language model and its tools, and
reports. Users can instruct, stop, reset, resume, rewind, fork, hand over and delete
runs. What survives a crash is in the directory of a run: `run.json` (owner, channel,
status), `state.json` (the durable record), `traj.jsonl` (the trajectory) and canonical
files.

### Inventory

| Component | State it keeps | Operations | Where |
|---|---|---|---|
| Run catalog | `run.json` of every run; in memory the prepared run each (owner, channel) consumes next, and the keys a `!clear` reserved | prepare, acquire, resume, finish, delete, sweep, reserve/cancel reset, scan at startup | `run_workspace.py` |
| Durable record | `state.json`: state, cursor, announced ids, fingerprints, gap, summary, ledger, tail | save, load, terminate, discard | `run_state.py` |
| Life cycle and commands | the lease of a channel, its owner and cancel token; the channel's ledger, summary and history | goals, `!reset`, `!clear`, `!resume`, `!rewind`, `!fork`, `!handover`, `!delete`, release | `bot.py` |
| Startup maintenance | how far it got | scan, retention sweep, recovery | `bot.py`, `run_workspace.py` |
| Authorization | allow lists | access, control, purge | `authz.py` |
| Research ledger | evidence, hypotheses with their transitions and revisions, conclusions with pinned premises | register, retract, declare, transition, reopen, conclude | `ledger.py` |
| Tool calls of a step | announced ids, fingerprints, trajectory gap | identity check, loop guard, reservation, dispatch, collection, append, rollover | `bot.py`, `trajectory.py` |
| Research gates | failure tallies, known-bad calls, the debt of a think, the step of the last record, the streak of guarded steps | judge, refuse, run and book the calls of a response | `bot.py` |
| Agent loop | step, outcome, thoughts, context | direct answer, steps, stages, checkpoints, closing phase | `bot.py`, `outcome.py` |
| Steering mailbox | pending instructions, open or closed | open, offer, drain, close | `steering.py` |
| Deadlines | cancel token, stage budgets, the tasks of a stage | with_deadline, stream_chunks, reap | `deadlines.py` |
| Canonical files | the files, a lock and a read cache each | read, compare-and-swap write, record_playbook | `run_workspace.py`, `workspace_io.py`, `bot.py` |
| Tool workers | one process per call, the shell it starts, what the shell leaves in the background | start, read, write, search, run a shell, limit, kill | `tool_worker.py`, `tool_sandbox.py` |
| Warnings | none | text heuristics | `observation.py`, `grounding.py`, `stagnation.py` |
| Session log, configuration, output | append-only log, none, none | | `session_log.py`, `config.py`, `bot.py` |

### How they interact

* `on_message` asks the catalog for a run (`acquire`), loads its record, and publishes a
  **lease** for the channel. The catalog's status, the lease and the record are three
  pieces of state about one execution, and they are changed at different instants.
* The channel's ledger and summary live in memory and are shared by all runs of the
  channel; the executing run and the commands of other users both write them.
* Handlers interleave at every `await`. Only the catalog has a lock. `!clear` is the one
  command with an await in its middle (`channel.purge`), which is why it reserves its key.
* Inside the loop, a model answer becomes tool calls; each call is announced (saved),
  reserved (saved), dispatched, collected, appended to the trajectory and committed
  (saved). The process may die between any two of these.
* The calls of one response pass the gates in order, run in parallel as tasks of the event
  loop, most of them each with a worker process, and are booked in order again. A stop or a
  deadline cancels the tasks, while the workers, and the shells of the workers, live on
  until somebody ends them.
* Other users' messages reach a live run through its mailbox, which the loop drains at the
  head of a step and after a batch of tools. `!stop` sets the cancel token, which every
  stage races.
* At startup the catalog rebuilds its memory from `run.json`, the sweep deletes old runs,
  and recovery settles each record still marked `running`.

### What is hard, and what makes each part correct

| Part | Hard behaviour | Correct when |
|---|---|---|
| Catalog | sequences of selections on one key, two writes per selection, restarts | no prepared run is stranded; selections lead to one's own existing runs; a reserved key excludes execution |
| Life cycle | commands and other channels between two awaits; a crash between record and `run.json` | leases, statuses, memory and records agree; every crash is settled; an ended run is never restarted |
| Ledger | long sequences of retractions, rejections and reopenings | history explains state; reopening is earned; an invalid conclusion stays invalid |
| Tool calls | crash with effects done and results lost; repeated ids; failing appends; rewinds | nothing runs twice; a summary never covers lost work |
| Agent loop | `!stop`, timeouts, errors and answers at the same await; instructions while it closes | the stop wins; end records agree; every run ends; instructions are settled |
| Mailbox | full queue, duplicates, close | the receipt given is the truth |
| Gates | two gates blocking each other; debts that outlast steps without a call; what a restart forgets | some call always gets through; a limit on failures limits; a gate opens for progress; a refused read is of a file that is not there |
| Files | writes, rules and shells of one batch, cancelled anywhere | a register with compare-and-swap; the cache answers only what the run knows |
| Workers | two cancellations, timeouts and SIGTERM at any point of a worker's life | a batch ends; nothing it started survives it but what the code gives up |

`PROJECT.json` lists each hazard at its line with the property that covers it.

## 2. The modules

```
KeySlots            the place of each user and channel where a run waits: what the catalog promises
  RunCatalog        the catalog on its own; implements KeySlots
    RunLifecycle    the bot around it; implements RunCatalog
ResearchLedger      the ledger
ToolDispatch        one run's tool calls against crashes
ToolGates           which calls of a response may run, and what their results change
RevisionFile        a canonical file as the calls of a batch see it: the abstract specification
ToolWorker          the worker processes and their shells
  ToolBatch         one parallel batch of calls with its workers; implements RevisionFile
SteeringMailbox     the mailbox
  AgentLoop         one execution of a run, using the mailbox
```

Each component's theorems are in `<Component>Proofs`, its instances in `MC_<Component>`
with `.cfg` files. `RunCatalogProofs` and `RunLifecycleProofs`, and likewise the mailbox
and the loop in `AgentLoopProofs`, follow the composition: what is proved of the part is
inherited by the whole, because each of its steps is a step of the part or leaves it alone.

The views of a run divide the work. In `RunLifecycle` a loop is one phase with
snapshots and a release; in `AgentLoop` a save succeeds or fails and the release writes one
status; in `ToolDispatch` only what a step saves matters. A step's calls are seen by
`ToolDispatch` (what is saved of them), by `ToolGates` (which may run) and by `ToolBatch`
(how they run).

### KeySlots and RunCatalog

`KeySlots` is what a user may rely on: one durable place per user and channel. The run selected
last waits there, a goal of that user in that channel takes it before anything else, and only
a living bot empties the place otherwise. `RunCatalog` implements it with statuses in many
files, written one by one, and a selection in memory: `slot` is read from the files alone, as
the newest of the runs that are prepared for the key (`Waiting`), so that it has a value while
the bot is down and while two runs of one key are prepared.

`RunCatalog` has one action per method, since every method holds the lock. `status`, `owner`,
`channel` are `run.json`; `older` is the order of `updated_at`, kept as a relation so that no
clock has to be bounded; `selected` is `_selected`, `reserved` is `_reset_reservations`.
`SelectAs` is `_select_prepared`, which writes the selected run's file and then the displaced
one's; `CrashInSelectPrepared` and `CrashInAcquire` stop after a write, `Scan` rebuilds the
memory, `CrashInScan` stops that in its middle.

Abstractions: a run id is never reused by the code; here a deleted id stands for a fresh
one, which is sound because nothing in the state names a deleted run. `SweepRetention(r)`
deletes the expired runs at least as old as `r`, whatever the retention period is. The scan
is one action, as no other call can reach the object while its constructor runs; what
interrupts it is the end of the process only.

### RunLifecycle

Extends the catalog with `record` (the `state` of `state.json`; `unusable` for one that
does not load), its order `recOlder`, `lease` and `memory` per channel, and `boot`, the
progress of startup. One action per handler from an await to the next: `Goal` up to its
first await has three forms (a restored run announces itself, a short question is answered
directly, a fresh run saves its first record), `!clear` is three actions. `Crash...`
actions stop a handler between two of its writes. `Admins` and the guards `MayControl`
and `MayPurge` are `authorize_caller` with a non-empty allow list.

Left out: what a new run inherits from the files of the old one, normalisation of a
damaged record, a failing directory rename, and writes of `run.json` that fail (those of
`state.json` may fail when `DiskFaults` holds). `unwritten` is a history variable: the runs whose
last save failed.

### ResearchLedger

Items of a batch are single actions, because a batch runs without an await and refuses
items one by one. `transitions` is the history that `render()` shows. Wording is left out;
so is `last_delta`, which only the gates read. The spelling of a cited id is kept, because the
code strips it in some places only: `declare_hypothesis` checks the stripped id
(`ledger.py:327`) and stores the raw one (`:334`), `_transition` checks, compares and stores the
stripped one (`:394-421`). A citation (`Spellings`) is an id with or without blanks around it,
`Stripped` takes the blanks off, and `EmptyText` is the citation that a birth without evidence
stores. Two spellings of one id are two strings, to a reopening as well.

### ToolDispatch

`run` is the memory of the loop and `saved` the record on disk. The phases are the points
where a save lies between two effects. `Announce` saves ids, `Dispatch` saves the
reservation (calls count as done and their step as lost) and keeps the memory from before
it, as the code restores both after the save; `Collect` takes results and appends, whole,
failed or torn; `Commit` moves the cursor on. `End` is every way to stop, `Restart`
rebuilds the record from the trajectory, `Rewind` cuts both and `RewindHalf` dies between.
`executed`, `history`, `done` and `goneBack` are history variables; no action reads them.

Gates other than the loop guard may refuse any call here. A running call counts as executed, as
its effect may have happened. `SourceThrough` over-approximates where a summary's source
stops for its size budget.

### ToolGates

A step goes through four phases: the `model` proposes calls, each is judged (`gate`), those
that pass run in any order (`run`), and their results are booked in the order of the
response (`book`). `Refuse` is the chain of refusals (`bot.py:6786-6985`): duplicate, failure
limit, known failure, record gate, think gate, budget; `RefuseByGuard` stands for the guards
that compare a call with the history of the run. `projected` is the tally the code carries
forward over the calls of one response, `last` the one in force, `failures` the failures in a
row whatever the call. `Checkpoint` is the report between two steps: it applies the model's
corrections to the ledger, which leaves a new `last_delta`, and writes `findings.md`. `Restart`
is the death of the bot or a stop, with a resumption: what is in the record (`saved`) comes back,
everything else starts from zero. The run goes on after the last group of the trajectory or goes
back to the first one that is missing there (`bot.py:3651-3655`), while `last_record_step` is
restored as it was (`bot.py:5830-5834`): `recorded` may then be ahead of `step`, and the record
gate stays open until the run has caught up with it.

`present` is what is on disk, so that the memory of known failures (`known`) can be compared
with it. `unseen` is a history variable: the files of whose creation `known` cannot tell, since
`_invalidate_known_bad` looks at successes of `write_file` only (a shell made them, a
`record_playbook` or a checkpoint did, a read of the same response raced with the write, or the
bot died before booking). `delta` is `last_delta`, `repeat` for a batch equal to the last;
`revised` tells whether the ledger's revision changed, `fresh` whether a record of this response
made progress.

Left out: the eviction at `KNOWN_BAD_CALLS_MAX`, the effect of `!rewind` on these fields, and
ids and arguments that are refused (`ToolDispatch` has the ids). A response that is longer than
`THINK_DEBT_FAILURES` can hold a think and that many failures after it, and the code drops the
debt of a response that holds a think (`bot.py:7222-7227`); the history variable `excused`
remembers this, and `BreakerHolds` names it.

### RevisionFile, ToolWorker and ToolBatch

`RevisionFile` is what a caller may rely on: a write takes effect at one instant, when the
file has the revision it expects; a rule is added to whatever the file is at its instant;
`success` is answered only for a write that took effect, `conflict` and `full` only for one
that never will. The exception is a shell, which writes the file without asking anybody: a write
or a rule that was under way then may go by the content it saw before (`under`), and what the
shell wrote is lost. `ToolBatch` implements this with a lock, a worker process per write and a
compare that is a step earlier than the replace, in the worker (`workspace_io.py:219-245`) and
in the bot's own write of a rule alike.

`ToolWorker` has one action per stretch of `tool_worker.py` between two points where a
signal may arrive. A shell is its `leader` and the `rest` of its group; `deaf` says which of
them ignore SIGTERM. The monitor's limits (time, output, disk, memory, processes, threads) may
be met at any moment, so the model needs no clock. `Crash` is the worker's death of its own: the
limit on CPU time is set on the worker as well as on its shell (`tool_worker.py:318`), and an
exception may leave `_bash`; the shell stays behind. `Terminate` is SIGTERM to the worker's
group: it exits, or its handler kills the shell it knows, or, where the handler interrupts its
own thread inside the lock, it is `stuck`. `Scribble` is a shell that writes the file: nothing
stops it.

`ToolBatch` has one action for what a task of the event loop does between two awaits. A
cancellation is requested at one moment (`pending`) and delivered at the task's next step
(`Cancelled`), whose disjuncts are the places where a `CancelledError` can arrive: before the
start, in the line for the lock, in the collection of the answer, in its `finally`, in a kill.
A stop or a deadline cancels twice: once through `gather()`, which is over with the first
child that is, and once more in the batch's own reaping. `line` is the canonical lock with
those who wait; `cache` is the fingerprint of the file last given in full. A content is a set
of rules, which is all that merging a rule and comparing revisions tell apart.

`effect` and `under` are history variables. Left out: the proxy of a search, the await in
which a process is created, signals from outside the bot, further files (locks and caches are
per path), and an orphaned worker that lives on into the next batch of a restarted bot.
`record_playbook` reads, waits for the lock, and then compares and replaces without an await.
Other tasks cannot come between the latter two, but a shell of the batch is another process and
can: so they are steps of their own (`RuleRead`, `RuleCompare`, `RuleReplace`), between which
no task of the batch moves (`MyTurn`). A conflict sends the rule back to its read once.

### SteeringMailbox and AgentLoop

`fate` gives each message what became of it. Everything pending is handed over at once, so
the order of the queue is left out. Messages with the same author and text are `Twins`.

`at` in `AgentLoop` is the await where `on_message` stands; users act only there
(`Awaits`). Each action goes from one place to the next with all that the code does in
between. A stage action has a disjunct for the token (it wins, `deadlines.py:157-161`), for
the end of its budget or an error, and for an answer. `outcome` is `RunOutcome`, where the
first settlement counts; `Release` is `release_run`, `logged` the `run_end` event. Of
`messages_payload` only three things are kept: the number of complete tool groups
(`groups`), the instructions that no model has answered yet (`fresh`), and those that left
it before one did (`lost`). Which compaction happens depends on tokens and sizes and is
left open; what each one keeps is not. A restored run begins at any step.

`TaskCancelled` is asyncio's cancellation of the task at any await. In the greeting of a
resumed run nothing releases the lease; that place is `abandoned`.

## 3. The runs

| Run | Instance | Distinct states | Shows |
|---|---|---|---|
| `lifecycle` | 2 users, one an administrator, 2 channels, 2 runs, 1 reset token, outcomes completed and stopped | 68,916 | reservations, selections, leases, memory and records stay consistent under every interleaving and crash, `RunLifecycle` implements `RunCatalog` (`Spec` as a property) and `KeySlots` (`SelectionsSurvive`), each step of recovery settles a record for good (`StartupSettles`) |
| `lifecycle_live` | 1 user, 1 channel, 2 runs, failing record writes | 45,315 | every record a crash left running is settled; an ended run reads as running only while its own last save had failed |
| `ledger` | 2 evidence items, 2 hypotheses, 1 conclusion, 4 transitions, citations with and without blanks | 491,966 | revisions, histories, citations and validity |
| `ledger_rejected` | 1 hypothesis | violation | a rejected hypothesis becomes active by two ordinary updates |
| `ledger_reopen` | 2 evidence items, 1 hypothesis | violation | a hypothesis is reopened with the evidence of its birth |
| `dispatch` | 2 ids, a guarded and an unguarded action, 3 steps, window 1, lag 1, batches of 2 | 487,093 | ids run once, guarded actions too, losses lie behind the gap, summaries are honest |
| `dispatch_rewind` | batches of 1 | violation | `!rewind` summarises over a lost step |
| `dispatch_repeat` | batches of 1 | violation | a run resumed at its gap repeats a guarded action |
| `tool_gates` | 1 file, which is both the playbook and the findings, a call of every kind, a forced command and a forced read, responses of up to 2 calls, 3 steps, the record gate at the third, a debt after 2 failures, a limit of 2 failures of one call, a thinking step after 1 guarded step, a report every second step, a budget of 3 | 7,714,762 | the limit on failures, the think breaker and the record gate hold, known failures are of absent files but for the named creations, some call always passes |
| `tool_batch` | 11 batches of up to 3 calls: two writes of one revision with a rule, a write with two rules, whole and partial reads, a read beside a write, shells with every mix of deaf processes, alone or beside a rule, a search; any worker may crash | 189,386 | the file is a register (`RegisterSpec`), the cache is honest, workers and shells are reaped, every batch and every orphan ends, and no call ever goes back (`CallsOnlyAdvance`) |
| `agent_loop` | 3 messages of which two are equal, queue of 1, 3 steps, 2 thoughts, a checkpoint every step and a report every second | 606,796 | receipts, end records, settled instructions, `!stop`, termination, and that every step of the handler brings the end closer (`EndComesCloser`) |
| `agent_loop_promise` | as above | violation | an instruction is dropped without an answer |

**Why the bounds suffice.** A conflict in the catalog is between at most two users, two channels
and two runs of one key; three runs on one key, and with two users saves that fail (442,058
states), were checked once for the safety properties and add nothing. One token per `!clear` in
flight is enough to have one in flight while everything else happens. Four transitions give one
hypothesis the longest pattern a property speaks of (declared, rejected, confirmed, active) or
each of two hypotheses a rejection and a return. Three steps give a step before, at and behind
the gap; with a window and a lag of one the loop guard forgets and Tier 3 advances within them.
With limits of two the first failing call of a response is below each limit and the second at
it; three steps are two failures of one response, a step whose calls are all refused, and the
step that must still be stopped, or three repeated records, of which the third opens the gate;
resumptions that go back let any number of steps come before. One file that is the playbook and
the findings at once can be created in each of the ways the memory of failures misses. The
forced thinking step changes nothing the properties speak of, so its limit is one. Three calls
are a holder of the canonical lock and two in line behind it, which is where a rule is overtaken
twice (the code retries once); calls of one batch meet only in the lock, the file and the cache,
and `MC_ToolBatch` lists a batch for each pair but one. A shell beside a write (548,042 states
with it) was checked once for all the properties but the two of liveness and adds nothing: the
shell beside a rule loses a write in the same way. A queue of one is full with the first
message, so the second and third meet a full queue, a duplicate and a closed mailbox. Three
steps with reports on every second exercise a flush, a report, and the last step; two thoughts
reach the bound both alone and after a thinking turn. The theorems below do not depend on any of
these bounds.

Deadlock is checked in every run but those of `agent_loop`, where an execution is over when it
is released, `tool_batch`, where a batch is over, and `tool_gates`, whose steps are bounded by
the limit of the run. Symmetry is used over runs and channels (`lifecycle`), over evidence ids,
hypotheses and conclusions (`ledger`) and over call ids (`dispatch`), none of which has a
liveness property.

**Fairness.** `lifecycle_live` assumes strong fairness of the scan, the sweep and of
recovery: a bot may crash during startup, even often, but not always before the same step.
Nothing is assumed of users. `RunEnds` assumes weak fairness of the handler: each of its
awaits ends, since model and tool stages have a budget (`deadlines.py:113-172`) and Discord
calls the timeouts of their HTTP client. Whether an answer, an error or a timeout comes is
not assumed. `StageEnds` and `OrphansEnd` assume weak fairness of each task and of the stage
(the event loop runs what is ready, and the timers of `tool_sandbox.py` and `deadlines.py`
fire) and of each worker that is not stuck: its monitor loop polls, and its limits of time are
met at last. Nothing makes a shell exit, obey SIGTERM or stop writing, and nothing makes the
bot stop the batch or die.

## 4. What is proved

| Module | Theorem | Property |
|---|---|---|
| `RunCatalogProofs` | `CatalogTypeCorrect`, `ReservationSafety`, `PreparedRunsAreSelected`, `SelectionSafety`, `ExecutionSafety`, `CatalogImplementsSlots` | type invariant, `ReservationExcludesActive`, `PreparedIsSelected`, `SelectionsAreOwn`, `ActiveIsUndisturbed`, `SelectionsSurvive` |
| `RunLifecycleProofs` | `LifecycleTypeCorrect`, `LifecycleImplementsCatalog`, those above for the whole, `LeaseSafety`, `MemorySafety`, `EndingSafety`, `RecordSafety`, `StartupSafety` | all of the runs `lifecycle` and `lifecycle_live` but `EveryCrashIsSettled` |
| `ResearchLedgerProofs` | `LedgerTypeCorrect`, `HistoryExplained`, `ReopeningIsEarned`, `CitationsAreKept`, `ConclusionsStayInvalid` | type invariant and all of the run `ledger` |
| `ToolDispatchProofs` | `DispatchTypeCorrect`, `CallsRunOnce`, `LossIsCovered`, `SummariesAreHonest`, `GuardedActionsRunOnce` | type invariant and all of the run `dispatch` |
| `ToolGatesProofs` | `GatesTypeCorrect`, `BreakerSafety`, `GateSafety`, `KnownBadSafety`, `WayOutSafety`, `FailureLimitSafety` | all of the run `tool_gates` |
| `ToolBatchProofs` | `BatchTypeCorrect`, `ReapingSafety`, `ShellSafety`, `CacheSafety`, `BatchImplementsRegister`, `BatchIsBounded` | type invariant and all of the run `tool_batch` but `StageEnds` and `OrphansEnd` |
| `AgentLoopProofs` | `MailboxKeepsReceipts`, `LoopImplementsMailbox`, `LoopKeepsReceipts`, `LoopTypeCorrect`, `EndsAreRecordedAlike`, `ReleaseSettlesAll`, `StopWinsEveryRace`, `ExecutionIsBounded` | all of the run `agent_loop` but `RunEnds` |

The assumptions are those of the modules: the null values are no members of the sets they stand
beside (`NoneAssumption`, `NoLeaseAssumption`, `NoEvidenceAssumption`, `NotPremiseAssumption`),
bounds are natural numbers, positive where the configuration enforces it
(`MaxTransitionsAssumption`, `MaxStepAssumption`, `WindowAssumption`, `LagAssumption`,
`MaxDepthAssumption`, `LoopBoundsAssumption`, `LimitsAssumption`, `BudgetAssumption`,
`MaxRulesAssumption`, `BatchAssumption`), the messages of one execution and the calls of one
batch are finitely many (`MessagesAssumption`, `JobsAssumption`), and `Outcomes`, `Admins`,
`DiskFaults`, `Menu`, `Batches`, `Scribbles` are of their kinds, the playbook and the findings
files of the workspace (`FilesAssumption`). What the theorems say of
responses and batches holds for every menu of calls, every mix of deaf processes and every
content.

The arguments:

* **Catalog.** The safety properties alone are not inductive: `Scan` selects the newest
  prepared run of a key, so two runs must never be each older than the other, and a
  selection must stay its owner's for a reservation to mean anything. `CatalogInv` adds the
  asymmetry of `older` and what a catalog that is down remembers (nothing). A property of
  the catalog passes to `RunLifecycle` through `LifecycleImplementsCatalog`: lemmas show
  group by group that each of its actions is a catalog action or leaves the catalog alone,
  crashes between two writes included.
* **Places.** The refinement of `KeySlots` needs that the newest run of a key exists whenever
  a run is prepared for it (`PlacesInv`): two prepared runs of one key, which only a crash
  leaves behind, are told apart by `older`, while the bot is up there is one. A selection
  writes the new run before the displaced one, so the crash between the two already shows the
  new run as the newest; the scan picks the same one, since it selects oldest first.
* **Life cycle.** Its own properties rest on each other. `LeaseInv` says that leases and
  statuses agree, that a bot which is not ready has no lease, and when the catalog exists.
  With it a command can be seen to spare a channel that executes: it needs `ResetAllowed`, or
  holds a reservation, and both exclude a run of that channel from executing, so memory and
  record of a live run are never another's to replace. `RecordInv` adds that a deleted run has
  no record: a `!fork` that fails ends a run that was never saved, and without this the ended
  run could have a running record; and it counts a failed save against the run it was meant for
  and no other (`unwritten`). `StartupSafety` needs that the order of the records stays
  asymmetric, that no key is reserved before the bot is ready, and that until then nothing but
  startup, recovery and a crash takes a step (`OnlyStartupActs`). Then the set of unsettled
  records is a variant: each step of recovery removes one and adds none.
* **Ledger.** `LedgerInv` ties revision, history and status, and says that only
  the first citation of a history may keep blanks: every later one was stripped when it was
  compared and stored, which is all the novelty of a reopening rests on. That a conclusion stays
  invalid needs `PinsArePast`: a pin is never ahead of the revision it names.
* **Tool calls.** `DispatchInv` has layers: the base (types, a cursor in its bound,
  every executed id announced in memory and on disk), then losses (what was executed and
  is not logged lies behind the gap on disk and in memory, or is the step at work), then
  summaries (they end before the gap), then fingerprints (what was done in the window is
  remembered while the cursor only moves on).
* **Gates.** `BaseInv` gives types and what each phase knows of the calls at work. The think
  breaker needs `DebtInv`: a think that ran does not fail, and what was dispatched under a debt
  is thinks and forced calls only; so whenever the failures stand, the debt does, or the last
  response to run was excused by a think. The record gate needs `DeltaInv` (a successful record
  without progress leaves a repeated or empty delta; the property speaks of the booking, as a
  resumption restores the step of the record as well), the known failures `KnownInv` (during the
  booking, which of the results still to come will erase the entry), the way out `TallyInv` (a
  think never fails, so it is never at the limit). The failure limit needs `LimitInv`: there is a
  sequence of tallies, one per call of the response, that the gate followed with the assumption
  that each call fails, and the tally in force is never ahead of it.
* **Batch.** The invariant has seven parts. `CancelInv` counts: what reached a task is what the
  stage asked for. `TaskInv` says where a task has a worker, and that it leaves one alive only
  after two cancellations and a SIGTERM. `ShellInv` says at each place of a worker what its shell
  can be, `LineInv` that the lock is a queue without doubles whose head is the only writer at
  work, `EffectInv` that what a write or a rule has compared is still what it goes by (the file,
  or its content before a shell wrote), and that an answer tells the effect; `GotInv` and
  `CacheIsKnown` are the cache. The refinement follows action by action: a replace, a record and a
  refusal are `Take` and `Decline`, a shell's write is `Scribble`, and everything else answers or
  stutters. `BatchIsBounded` has a variant too: the places of a task in their order (the read, the
  compare and the replace of a rule, where one that was overtaken once stands behind one that was
  not, the kill of a timeout before the kill of a cancellation), and below each the places of its
  worker. Every step of a task lowers the first, save the SIGKILL, which lowers the second as
  every step of a worker does; so a batch of `n` calls takes at most `90 * n + 3` steps of tasks,
  workers and stage.
* **Mailbox and loop.** Receipts are inductive with their types; cardinalities come from
  the theorems on finite sets. `PlaceInv` says what holds at each place: an outcome is
  settled exactly from the end of the loop on, nothing is logged or delivered before, a
  failing run has logged a failure. `SteeringInv` says that what entered the context was
  handed over and that a released run's mailbox is closed. `ExecutionIsBounded` has a variant:
  `Distance` gives eleven places to each step of the budget and counts the few stages around
  them, and every action of the handler lowers it, so an execution takes at most
  `11 * MaxLoops + 19` steps of its handler, whatever answers, errors, retries, reports and
  thoughts come. Only that each await ends is left to the fairness of `RunEnds`.

### What stays with TLC

Liveness (`EveryCrashIsSettled`, `RunEnds`, `StageEnds`, `OrphansEnd`), which is out of the
prover's reach, as is what is `ENABLED`. Of each of them the part that is safety is proved:
`StartupSettles` is the variant behind `EveryCrashIsSettled`, `EndComesCloser` the one behind
`RunEnds`, `CallsOnlyAdvance` the one behind `StageEnds` and `OrphansEnd`. Every invariant and
every action property of the passing runs is proved. The violations are traces. Proved and
checked by no run are the type invariants of the ledger, of the tool calls and of the batch, and
`ActiveIsUndisturbed`.

## 5. Known divergences

Each is a run that TLC finds violated; the property states what a doc or a comment says.

* `RejectedNeedsReopen`: `ledger.py:9-11` says a rejected hypothesis returns to active only
  by a reopen. `_transition` refuses the direct step only; by way of `confirmed` it returns.
* `ReopenNeverRepeatsEvidence`: `ledger.py:9-11` says a reopen cites evidence that no earlier
  transition cited. A hypothesis declared rejected with `E1 ` stores the blank
  (`ledger.py:334`), every later citation is stripped (`:394`), so E1 reopens it
  (`ReopenCitesNewEvidence` and `CitationsStayRegistered` name this exception).
* `GapIsPermanentCeiling`: `bot.py:7314-7315` calls the first missing group a permanent
  ceiling of Tier 3. `rewind_run` (`bot.py:5045`) summarises over a gap it keeps.
* `NoFreshIdRepeats`: `bot.py:7001-7003` says the reservation prevents repetition under a
  fresh id. A resumption moves the cursor back to the gap and drops later fingerprints as
  future entries (`bot.py:6746`).
* `AppliedReachesAStep`: `bot.py:588` promises that an instruction is reflected in the next
  step or its sender is told. An instruction is settled as applied when it enters the
  payload; a flush of a context with at most one tool group (`bot.py:3945`, `4109-4110`),
  an emergency rebase or the last step then drops it silently.

Read in the code, and either named as an exception by a property or not one:

*Runs.* A completed run whose delivery fails is logged
as failed and recorded as completed (`EndRecordsAgree` names this exception); a task
cancelled in the greeting of a resumed run never releases its lease (`bot.py:5944-5951`);
a release before the loop or by task cancellation closes the mailbox without announcing
what it cancelled; instructions during that greeting are told the run is a short answer
(`bot.py:606`); a refused hypothesis item has already changed its statement
(`ledger.py:340-346`); `!reset` removes records as `README.md:146` says, but those of
the whole channel, whoever owns them; `README.md:174` says only `playbook.md` is inherited, and
`run_workspace.py:342` inherits more; a completed run that was selected again and then
displaced reads as `interrupted` (`run_workspace.py:358`), so a continuation
(`README.md:209`) may take it up.

*Gates.* The record gate refuses a think and the think gate refuses a record
(`bot.py:1032-1055`): once both stand, only a forced call passes (`WayOut` says so). A
`record_state` that raises leaves the delta of an earlier batch, which the comment at
`bot.py:7159-7160` does not expect (`GateOpensForProgress` names it); of several in one response
the last delta alone is judged. A response that holds a think leaves no debt, however many calls
fail behind the think (`bot.py:7222-7227`; `BreakerHolds` names it). A think that is refused
still schedules a thinking step. Known failures are kept without expiry, yet a file may appear
by a shell, by `record_playbook` (`bot.py:1651`) or the sync of `findings.md` at a report
(`bot.py:3873`), beside the read in one response, or in a step whose booking a crash took; a
write removes the entry of a whole read only (`KnownBadIsAbsent` names these). A resumption that
goes back to the gap keeps the step of the last record, so the record gate asks for the next one
later than `RECORD_STATE_STALE_STEPS`. The budget of calls per run starts again with each
resumption.

*Batches.* A SIGTERM between the start of a shell and its registration
(`tool_worker.py:331-338`) leaves the shell running, although `README.md:49-50` speaks of the
whole tree; a process in the background that ignores SIGTERM survives a successful command,
and all of them survive when the leader exits as a limit is met; a handler that interrupts its
own thread inside the lock waits until it is killed; a second cancellation in the kill leaves
the worker to its SIGTERM (`ShellsReaped` and `WorkersReaped` are stated around these). A worker
that dies of its own CPU limit (`tool_worker.py:84-91`, `318`) or of an exception that leaves
`_bash` does not end its shell (`OrphansEnd` names it). A shell's write is not compared with any
revision, and one that falls between the compare and the replace of a write or of a rule is lost,
whereas `README.md:172-173` describes canonical files as compared (`RevisionFile` has it as
`under`). After a `record_playbook` a
read of the file is answered as unchanged, though the run was told only its rule.

## 6. Not modelled

Text heuristics (`observation.py`, `grounding.py`, `stagnation.py`), the session log,
configuration, output formatting and prompts change no state that another part reads.
What the limits of a worker measure, the proxy of its searches, the validation of paths and the
environment of its process are I/O. The token arithmetic of a prompt decides
when, not how, a context is compacted, and is left open in `AgentLoop`.

## 7. Plan

In this order, the most important behaviour first. Done: catalog, life cycle, ledger, tool
calls, mailbox and loop, gates, batches with their workers and files, the proof of every
safety property of the runs, the refinement of the durable places, and the variants of
recovery, of an execution and of a batch. Next:

1. A refinement from `AgentLoop` to the lease of `RunLifecycle`, so that one execution is
   shown to be the phase it is there.
2. The gates and the batch composed with the step of `ToolDispatch`, so that what may refuse
   any call there is what `ToolGates` refuses.
3. An orphaned worker of a dead bot beside the first batch of the restarted one: the
   canonical lock is in memory and does not exclude it.
4. Several canonical files and the inheritance of a new run (`run_workspace.py:301-346`).
