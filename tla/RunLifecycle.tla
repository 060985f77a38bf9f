---------------------------- MODULE RunLifecycle ----------------------------
(***************************************************************************)
(* The life of a run (bot.py, run_state.py, run_workspace.py): the Discord *)
(* commands and goals that start, stop, select, copy and delete runs, the  *)
(* durable record state.json of each run, the lease that makes a channel   *)
(* busy, and what a restart does with what it finds on disk.               *)
(*                                                                         *)
(* on_message and the slash commands are coroutines of one event loop: a   *)
(* handler is one action from one await to the next.  The process may die  *)
(* anywhere, also between two writes of one such stretch: the Crash...     *)
(* actions leave on disk what the first writes of the stretch left there.  *)
(***************************************************************************)
EXTENDS RunCatalog

CONSTANTS
    Outcomes,       \* how the runs of this instance end
    Admins,         \* DISCORD_ADMIN_USER_IDS
    DiskFaults      \* TRUE when a write of state.json may fail

ASSUME OutcomesAssumption == Outcomes \subseteq TerminalStatuses
ASSUME AdminsAssumption == Admins \subseteq Owners
ASSUME DiskFaultsAssumption == DiskFaults \in BOOLEAN

VARIABLES
    boot,       \* how far startup_maintenance got: "down", "scanned", "swept", "ready"
    record,     \* state.json: "none", "unusable" or its `state` field
    recOlder,   \* state.json: <<a, b>> when a's record was written before b's
    unwritten,  \* history: the runs whose last save of the record failed
    lease,      \* channel_run_leases: the run a channel is executing, or None
    memory      \* channel_ledger and channel_summary: the run they carry, or None

processVars == <<boot, lease, memory>>
recordVars == <<record, recOlder, unwritten>>
vars == <<catalogVars, recordVars, processVars>>

(* run_state.RUNNING, the state fork_run saves, and what terminate writes. *)
RecordStates == {"running", "prepared"} \cup TerminalStatuses
Phases == {"greeting", "direct", "loop"}

Leases == [run : Runs, owner : Owners, phase : Phases]

ASSUME NoLeaseAssumption == \A held \in Leases : held # None

LifecycleTypeOK ==
    /\ TypeOK
    /\ boot \in {"down", "scanned", "swept", "ready"}
    /\ record \in [Runs -> {"none", "unusable"} \cup RecordStates]
    /\ recOlder \subseteq Runs \X Runs
    /\ unwritten \subseteq Runs
    /\ lease \in [Channels -> Leases \cup {None}]
    /\ memory \in [Channels -> Runs \cup {None}]

LifecycleInit ==
    /\ Init
    /\ boot = "ready"
    /\ record = [r \in Runs |-> "none"]
    /\ recOlder = {}
    /\ unwritten = {}
    /\ lease = [c \in Channels |-> None]
    /\ memory = [c \in Channels |-> None]

-----------------------------------------------------------------------------
(* The record.                                                             *)

(* run_state.load(workspace) is not None *)
Loads(r) == record[r] \in RecordStates

HasRecord(r) == record[r] # "none"

(* run_state.save / terminate: r's record says s and is the newest one. *)
Write(r, s) ==
    /\ record' = [record EXCEPT ![r] = s]
    /\ recOlder' = {p \in recOlder : r \notin {p[1], p[2]}}
                       \cup {<<q, r>> : q \in {x \in Runs : HasRecord(x)} \ {r}}
    /\ unwritten' = unwritten \ {r}

(* A save whose OSError is logged and swallowed. *)
FailWrite(r) ==
    /\ DiskFaults
    /\ unwritten' = unwritten \cup {r}
    /\ UNCHANGED <<record, recOlder>>
TryWrite(r, s) == Write(r, s) \/ FailWrite(r)

(* run_state.discard of every run of S. *)
DiscardAll(S) ==
    /\ record' = [r \in Runs |-> IF r \in S THEN "none" ELSE record[r]]
    /\ recOlder' = {p \in recOlder : p[1] \notin S /\ p[2] \notin S}
    /\ unwritten' = unwritten \ S

(* clear_channel_state(c), evaluated after the catalog call before it. *)
ClearChannelState(c) ==
    /\ DiscardAll({r \in Runs : status'[r] # "absent" /\ channel'[r] = c})
    /\ memory' = [memory EXCEPT ![c] = None]

-----------------------------------------------------------------------------
(* Who may act (authorize_caller with the allow list non-empty).           *)

Live(c) == lease[c] # None

MayControl(o, c) == Live(c) => o \in Admins \/ o = lease[c].owner

MayPurge(o) == Admins # {} => o \in Admins

-----------------------------------------------------------------------------
(* A goal: on_message from acquire() to its first await.                   *)

(* find_auto_resume_run; a goal that does not ask to continue passes None. *)
AutoResumable(o, c) == {r \in Runs : IsCandidate(o, c, r) /\ Loads(r)}

AutoResumeCandidates(o, c) ==
    {None} \cup {r \in AutoResumable(o, c) : IsNewest(r, AutoResumable(o, c))}

NewLeaseUnowned(r, o, phase) == [run |-> r, owner |-> None, phase |-> phase]

NewLease(r, o, phase) == [run |-> r, owner |-> o, phase |-> phase]

(* A restored run takes over the channel memory and announces itself. *)
RestoredGoal(o, c, candidate, r) ==
    /\ Loads(r)
    /\ Acquire(o, c, candidate, r)
    /\ lease' = [lease EXCEPT ![c] = NewLease(r, o, "greeting")]
    /\ memory' = [memory EXCEPT ![c] = r]
    /\ UNCHANGED recordVars

(* A short question is answered directly and needs no record. *)
DirectGoal(o, c, candidate, r) ==
    /\ ~Loads(r)
    /\ Acquire(o, c, candidate, r)
    /\ lease' = [lease EXCEPT ![c] = NewLease(r, o, "direct")]
    /\ UNCHANGED <<recordVars, memory>>

(* Any other goal saves its first record ("run_start") before it awaits. *)
FreshGoal(o, c, candidate, r) ==
    /\ ~Loads(r)
    /\ Acquire(o, c, candidate, r)
    /\ lease' = [lease EXCEPT ![c] = NewLease(r, o, "loop")]
    /\ memory' = [memory EXCEPT ![c] = r]
    /\ TryWrite(r, "running")

Goal(o, c, r) ==
    /\ boot = "ready"
    /\ ~Live(c)
    /\ \E candidate \in AutoResumeCandidates(o, c) :
          \/ RestoredGoal(o, c, candidate, r)
          \/ DirectGoal(o, c, candidate, r)
          \/ FreshGoal(o, c, candidate, r)
    /\ UNCHANGED boot

(* After the announcement, or after a direct answer that failed. *)
BeginLoop(c) ==
    /\ Live(c)
    /\ lease[c].phase \in {"greeting", "direct"}
    /\ lease' = [lease EXCEPT ![c].phase = "loop"]
    /\ memory' = [memory EXCEPT ![c] = lease[c].run]
    /\ TryWrite(lease[c].run, "running")
    /\ UNCHANGED <<catalogVars, boot>>

(* save_snapshot inside the loop *)
Snapshot(c) ==
    /\ Live(c)
    /\ lease[c].phase = "loop"
    /\ Write(lease[c].run, "running")
    /\ UNCHANGED <<catalogVars, processVars>>

(* release_run(s): terminate the record, finish the run, drop the lease. *)
Release(c, s) ==
    /\ Live(c)
    /\ lease[c].phase # "greeting"
    /\ \/ HasRecord(lease[c].run) /\ TryWrite(lease[c].run, s)
       \/ ~HasRecord(lease[c].run) /\ UNCHANGED recordVars
    /\ Finish(lease[c].run, s)
    /\ lease' = [lease EXCEPT ![c] = None]
    /\ UNCHANGED <<boot, memory>>

-----------------------------------------------------------------------------
(* Commands.                                                               *)

(* !reset, !new: prepare_new_run *)
Reset(o, c, r) ==
    /\ boot = "ready"
    /\ MayControl(o, c)
    /\ Prepare(o, c, r)
    /\ ClearChannelState(c)
    /\ UNCHANGED <<boot, lease>>

(* !clear up to the await of channel.purge ... *)
ClearBegin(o, c, t) ==
    /\ boot = "ready"
    /\ MayPurge(o)
    /\ ReserveReset(o, c, t)
    /\ UNCHANGED <<recordVars, processVars>>

(* ... and after it, when Discord refused or failed ... *)
ClearFail(o, c, t) ==
    /\ CancelReset(o, c, t)
    /\ UNCHANGED <<recordVars, processVars>>

(* ... or deleted the messages. *)
ClearEnd(o, c, t, r) ==
    /\ PrepareReserved(o, c, t, r)
    /\ ClearChannelState(c)
    /\ UNCHANGED <<boot, lease>>

(* !resume: resume_run *)
ResumeRun(o, c, r) ==
    /\ boot = "ready"
    /\ MayControl(o, c)
    /\ Loads(r)
    /\ Resume(o, c, r)
    /\ UNCHANGED <<recordVars, processVars>>

(* !rewind: the record is rewritten under its old state, then selected. *)
RewindRun(o, c, r) ==
    /\ boot = "ready"
    /\ MayControl(o, c)
    /\ Loads(r)
    /\ Resume(o, c, r)
    /\ Write(r, record[r])
    /\ UNCHANGED processVars

(* An inactive run of the caller with a usable record. *)
MayCopy(o, source) ==
    owner[source] = o /\ status[source] # "active" /\ Loads(source)

(* !fork: the new run gets a record of its own and the channel is wiped;   *)
(* when that save fails the new run is finished and nothing is wiped.      *)
ForkRun(o, c, source, r) ==
    /\ boot = "ready"
    /\ MayControl(o, c)
    /\ MayCopy(o, source)
    /\ Prepare(o, c, r)
    /\ Write(r, "prepared")
    /\ memory' = [memory EXCEPT ![c] = None]
    /\ UNCHANGED <<boot, lease>>

ForkFails(o, c, source, r) ==
    /\ DiskFaults
    /\ boot = "ready"
    /\ MayControl(o, c)
    /\ MayCopy(o, source)
    /\ PrepareThenFail(o, c, r)
    /\ UNCHANGED <<recordVars, processVars>>

(* !handover: the new run finds the old run's ledger in the channel.  *)
HandoverRun(o, c, source, r) ==
    /\ boot = "ready"
    /\ MayControl(o, c)
    /\ MayCopy(o, source)
    /\ Prepare(o, c, r)
    /\ memory' = [memory EXCEPT ![c] = source]
    /\ UNCHANGED <<recordVars, boot, lease>>

(* !delete: delete_run removes the directory, the record inside it too. *)
DeleteRun(o, c, r) ==
    /\ boot = "ready"
    /\ MayControl(o, c)
    /\ Delete(o, r)
    /\ DiscardAll({r})
    /\ UNCHANGED processVars

-----------------------------------------------------------------------------
(* Startup: RunCatalog.__init__, sweep_retention, recover_interrupted_runs *)

StartupScan ==
    /\ boot = "down"
    /\ Scan
    /\ boot' = "scanned"
    /\ UNCHANGED <<recordVars, lease, memory>>

StartupSweep ==
    /\ boot = "scanned"
    /\ boot' = "swept"
    /\ \/ \E limit \in Runs : SweepRetention(limit) /\ DiscardAll(Expired(limit))
       \/ UNCHANGED <<catalogVars, recordVars>>
    /\ UNCHANGED <<lease, memory>>

(* The runs recovery has to settle, and the newest of each key. *)
Unterminated == {r \in Known : record[r] = "running"}
Unusable == {r \in Known : record[r] = "unusable"}

RecoversEveryRecord(r) == r \in Unterminated

Recovers(r) ==
    /\ r \in Unterminated
    /\ \A q \in Unterminated \ {r} : KeyOf(q) = KeyOf(r) => <<q, r>> \in recOlder

Superseded == {r \in Unterminated : ~Recovers(r)}

(* A recovered run the next goal already consumes; resuming it once more   *)
(* only stamps its run.json again.                                         *)
Armed(r) == status[r] = "prepared" /\ selected[KeyOf(r)] = r

(* First pass over the runs: a record nobody can read is discarded, and a  *)
(* selection of its run with it; of two records of one key the older goes. *)
RecoverUnusable(r) ==
    /\ boot = "swept"
    /\ r \in Unusable
    /\ DiscardAll({r})
    /\ \/ status[r] = "prepared" /\ Finish(r, "failed")
       \/ status[r] # "prepared" /\ UNCHANGED catalogVars
    /\ UNCHANGED processVars

RecoverSuperseded(r) ==
    /\ boot = "swept"
    /\ r \in Superseded
    /\ DiscardAll({r})
    /\ UNCHANGED <<catalogVars, processVars>>

(* Second pass: the candidates become the selections of their keys. *)
FirstPassDone == Unusable = {} /\ Superseded = {}

RecoverArm(r) ==
    /\ boot = "swept"
    /\ FirstPassDone
    /\ Recovers(r)
    /\ ~Armed(r)
    /\ Resume(owner[r], channel[r], r)
    /\ UNCHANGED <<recordVars, processVars>>

RecoverDone ==
    /\ boot = "swept"
    /\ FirstPassDone
    /\ \A r \in Runs : Recovers(r) => Armed(r)
    /\ boot' = "ready"
    /\ UNCHANGED <<catalogVars, recordVars, lease, memory>>

-----------------------------------------------------------------------------
(* Crashes.                                                                *)

ForgetProcess ==
    /\ boot' = "down"
    /\ lease' = [c \in Channels |-> None]
    /\ memory' = [c \in Channels |-> None]

CrashAnywhere ==
    /\ Crash
    /\ ForgetProcess
    /\ UNCHANGED recordVars

(* A fresh run is active on disk and has no record yet. *)
CrashBeforeFirstSnapshot(o, c, r) ==
    /\ boot = "ready"
    /\ ~Live(c)
    /\ \E candidate \in AutoResumeCandidates(o, c) : CrashInAcquire(o, c, candidate, r)
    /\ ForgetProcess
    /\ UNCHANGED recordVars

CrashInReleaseRunJsonFirst(c, s) ==
    /\ Live(c)
    /\ status' = [status EXCEPT ![lease[c].run] = s]
    /\ older' = Touch(older, lease[c].run)
    /\ Forget
    /\ ForgetProcess
    /\ UNCHANGED <<recordVars, owner, channel>>

(* release_run wrote the record and not run.json. *)
CrashInRelease(c, s) ==
    /\ Live(c)
    /\ lease[c].phase # "greeting"
    /\ HasRecord(lease[c].run)
    /\ Write(lease[c].run, s)
    /\ Crash
    /\ ForgetProcess

(* A command wrote the run.json of the run it selects and nothing after    *)
(* it: the run it displaces is still prepared, the records it discards are *)
(* there, and a fork has no record.                                        *)
CrashInSelection(o, c, r) ==
    /\ boot = "ready"
    /\ MayControl(o, c)
    /\ status[r] # "absent" => Loads(r)
    /\ CrashInSelectPrepared(o, c, r)
    /\ ForgetProcess
    /\ UNCHANGED recordVars

(* Startup itself dies while it reads the runs. *)
CrashInStartup(r) ==
    /\ boot = "down"
    /\ CrashInScan(r)
    /\ UNCHANGED <<recordVars, processVars>>

(* Another deployment reads records of another schema. *)
SpoilRecord(r) ==
    /\ boot = "down"
    /\ Loads(r)
    /\ record' = [record EXCEPT ![r] = "unusable"]
    /\ UNCHANGED <<catalogVars, recOlder, unwritten, processVars>>

-----------------------------------------------------------------------------
Recovery ==
    \/ \E r \in Runs : RecoverUnusable(r) \/ RecoverSuperseded(r) \/ RecoverArm(r)
    \/ RecoverDone

Crashes ==
    \/ CrashAnywhere
    \/ \E o \in Owners, c \in Channels, r \in Runs :
          CrashBeforeFirstSnapshot(o, c, r) \/ CrashInSelection(o, c, r)
    \/ \E c \in Channels, s \in Outcomes : CrashInRelease(c, s)
    \/ \E r \in Runs : CrashInStartup(r)

Commands(o, c) ==
    \/ \E r \in Runs : \/ Reset(o, c, r)
                       \/ ResumeRun(o, c, r)
                       \/ RewindRun(o, c, r)
                       \/ DeleteRun(o, c, r)
    \/ \E source, r \in Runs : \/ ForkRun(o, c, source, r)
                               \/ ForkFails(o, c, source, r)
                               \/ HandoverRun(o, c, source, r)
    \/ \E t \in Tokens : \/ ClearBegin(o, c, t)
                         \/ ClearFail(o, c, t)
                         \/ \E r \in Runs : ClearEnd(o, c, t, r)

Runner(c) ==
    \/ BeginLoop(c)
    \/ Snapshot(c)
    \/ \E s \in Outcomes \cup {"interrupted"} : Release(c, s)

LifecycleNext ==
    \/ \E o \in Owners, c \in Channels :
          Commands(o, c) \/ \E r \in Runs : Goal(o, c, r)
    \/ \E c \in Channels : Runner(c)
    \/ StartupScan \/ StartupSweep \/ Recovery
    \/ Crashes
    \/ \E r \in Runs : SpoilRecord(r)

LifecycleSpec == LifecycleInit /\ [][LifecycleNext]_vars
-----------------------------------------------------------------------------
(* Correctness.                                                            *)

(* The leases of bot.py and the statuses of run_workspace.py agree: a      *)
(* leased run is active, in that channel and for that owner, and an active *)
(* run is the one its channel leases, so a channel never executes two runs *)
(* and no run executes where its own user cannot stop it.                  *)
LeasesMatchCatalog ==
    /\ \A c \in Channels :
          Live(c) => /\ status[lease[c].run] = "active"
                     /\ KeyOf(lease[c].run) = <<lease[c].owner, c>>
    /\ \A r \in Runs :
          status[r] = "active" /\ proc = "up"
              => Live(channel[r]) /\ lease[channel[r]].run = r

(* Whatever other users reset, clear, fork, hand over or resume meanwhile, *)
(* the channel memory a run works on (its ledger and summary) stays its    *)
(* own from its announcement to its end.                                   *)
LiveRunOwnsMemory ==
    \A c \in Channels :
        Live(c) /\ lease[c].phase # "direct" => memory[c] = lease[c].run

(* ... and so does its record: once a run in its loop has a record, no     *)
(* command discards or rewrites it before the run ends, so that a crash is *)
(* always recoverable.                                                     *)
LiveRecordUntouched ==
    [][\A c \in Channels :
          Live(c) /\ lease[c].phase = "loop" /\ lease'[c] = lease[c]
              => (record[lease[c].run] = "running" =>
                     record'[lease[c].run] = "running")]_vars

(* A run that ended by itself never reads as unterminated, even when the   *)
(* process died while it was ending: recovery cannot start it again.  Only *)
(* a run whose own last save failed can read so (terminate returns False   *)
(* and release_run goes on), and it does until that run is saved again.    *)
EndedRunsAreTerminated ==
    \A r \in Runs :
        status[r] \in TerminalStatuses \ {"interrupted"} /\ record[r] = "running"
            => r \in unwritten

(* Startup settles every record a crash left "running": once the bot is    *)
(* ready the run is selected for the next goal of its key or its record is *)
(* gone (recover_interrupted_runs: "There is deliberately no third path"). *)
LeftRunning(r) == boot = "down" /\ record[r] = "running"
Settled(r) ==
    /\ boot = "ready"
    /\ \/ record[r] # "running"
       \/ status[r] = "prepared" /\ selected[KeyOf(r)] = r
EveryCrashIsSettled == \A r \in Runs : LeftRunning(r) ~> Settled(r)

(* Every step of recovery settles a record for good: arming one run never  *)
(* disarms another, a record once discarded or armed is not touched again, *)
(* and the bot is ready only when nothing is left.  So recovery needs at   *)
(* most one step for each run, in whatever order it meets them.            *)
Unsettled == Unusable \cup {r \in Unterminated : ~(Recovers(r) /\ Armed(r))}

StartupSettles ==
    [][boot = "swept"
           => /\ boot' = "swept" => Unsettled' \subseteq Unsettled /\ Unsettled' # Unsettled
              /\ boot' = "ready" => \A r \in Runs : Settled(r)']_vars

(* A deployment that crashes forever settles nothing; each startup step is *)
(* completed if it keeps being attempted.                                  *)
StartupFairness == SF_vars(StartupScan) /\ SF_vars(StartupSweep) /\ SF_vars(Recovery)
FairLifecycleSpec == LifecycleSpec /\ StartupFairness

=============================================================================
