------------------------- MODULE RunLifecycleProofs -------------------------
(***************************************************************************)
(* The bot uses the catalog only through its methods: every step of        *)
(* RunLifecycle is a step of RunCatalog or leaves the catalog alone.  So   *)
(* RunLifecycle implements RunCatalog and inherits its invariants.         *)
(***************************************************************************)
EXTENDS RunLifecycle, RunCatalogProofs

LEMMA CommandsUseCatalog ==
    ASSUME NEW o \in Owners, NEW c \in Channels, Commands(o, c)
    PROVE  [Next]_catalogVars
  <1>1. ASSUME NEW r \in Runs,
               Reset(o, c, r) \/ ResumeRun(o, c, r) \/ RewindRun(o, c, r) \/ DeleteRun(o, c, r)
        PROVE  Next
    BY <1>1 DEF Reset, ResumeRun, RewindRun, DeleteRun, Next
  <1>2. ASSUME NEW source \in Runs, NEW r \in Runs,
               \/ ForkRun(o, c, source, r)
               \/ ForkFails(o, c, source, r)
               \/ HandoverRun(o, c, source, r)
        PROVE  Next
    BY <1>2 DEF ForkRun, ForkFails, HandoverRun, Next
  <1>3. ASSUME NEW t \in Tokens, ClearBegin(o, c, t) \/ ClearFail(o, c, t)
        PROVE  Next
    BY <1>3 DEF ClearBegin, ClearFail, Next
  <1>4. ASSUME NEW t \in Tokens, NEW r \in Runs, ClearEnd(o, c, t, r)
        PROVE  Next
    BY <1>4 DEF ClearEnd, Next
  <1> QED BY <1>1, <1>2, <1>3, <1>4 DEF Commands

LEMMA CandidatesAreRuns ==
    ASSUME NEW o \in Owners, NEW c \in Channels
    PROVE  AutoResumeCandidates(o, c) \subseteq Runs \cup {None}
  BY DEF AutoResumeCandidates, AutoResumable

LEMMA GoalsUseCatalog ==
    ASSUME NEW o \in Owners, NEW c \in Channels, NEW r \in Runs,
           Goal(o, c, r) \/ CrashBeforeFirstSnapshot(o, c, r)
    PROVE  Next
  <1>1. PICK candidate \in AutoResumeCandidates(o, c) :
           Acquire(o, c, candidate, r) \/ CrashInAcquire(o, c, candidate, r)
    BY DEF Goal, RestoredGoal, DirectGoal, FreshGoal, CrashBeforeFirstSnapshot
  <1> QED BY <1>1, CandidatesAreRuns DEF Next

LEMMA RunnerUsesCatalog ==
    ASSUME LifecycleTypeOK, NEW c \in Channels, Runner(c)
    PROVE  [Next]_catalogVars
  <1>1. ASSUME NEW s \in Outcomes \cup {"interrupted"}, Release(c, s)
        PROVE  Next
    <2>1. lease[c].run \in Runs
      BY <1>1 DEF Release, Live, LifecycleTypeOK, Leases
    <2>2. s \in TerminalStatuses
      BY OutcomesAssumption DEF TerminalStatuses
    <2>3. Finish(lease[c].run, s)
      BY <1>1 DEF Release
    <2> QED BY <2>1, <2>2, <2>3 DEF Next
  <1>2. CASE BeginLoop(c) \/ Snapshot(c)
    BY <1>2 DEF BeginLoop, Snapshot
  <1> QED BY <1>1, <1>2 DEF Runner

LEMMA RecoveryUsesCatalog ==
    ASSUME LifecycleTypeOK, CatalogInv, Recovery
    PROVE  [Next]_catalogVars
  <1>1. ASSUME NEW r \in Runs, RecoverUnusable(r)
        PROVE  [Next]_catalogVars
    BY <1>1 DEF RecoverUnusable, Next, TerminalStatuses
  <1>2. ASSUME NEW r \in Runs, RecoverArm(r)
        PROVE  Next
    <2>1. status[r] # "absent"
      BY <1>2 DEF RecoverArm, Recovers, Unterminated, Known
    <2>2. owner[r] \in Owners /\ channel[r] \in Channels
      BY <2>1 DEF CatalogInv, KnownHaveKeys, KeyOf, Keys
    <2> QED BY <1>2, <2>2 DEF RecoverArm, Next
  <1>3. ASSUME NEW r \in Runs, RecoverSuperseded(r)
        PROVE  UNCHANGED catalogVars
    BY <1>3 DEF RecoverSuperseded
  <1>4. CASE RecoverDone
    BY <1>4 DEF RecoverDone
  <1> QED BY <1>1, <1>2, <1>3, <1>4 DEF Recovery

LEMMA CrashesAreCatalogCrashes ==
    ASSUME Crashes
    PROVE  Next
  <1>1. CASE CrashAnywhere
    BY <1>1 DEF CrashAnywhere, Next
  <1>2. ASSUME NEW o \in Owners, NEW c \in Channels, NEW r \in Runs,
               CrashInSelection(o, c, r)
        PROVE  Next
    BY <1>2 DEF CrashInSelection, Next
  <1>3. ASSUME NEW c \in Channels, NEW s \in Outcomes, CrashInRelease(c, s)
        PROVE  Next
    BY <1>3 DEF CrashInRelease, Next
  <1>4. ASSUME NEW r \in Runs, CrashInStartup(r)
        PROVE  Next
    BY <1>4 DEF CrashInStartup, Next
  <1> QED BY <1>1, <1>2, <1>3, <1>4, GoalsUseCatalog DEF Crashes

LEMMA StepUsesCatalog ==
    ASSUME LifecycleTypeOK, CatalogInv, [LifecycleNext]_vars
    PROVE  [Next]_catalogVars
  <1>1. CASE StartupScan \/ StartupSweep
    BY <1>1 DEF StartupScan, StartupSweep, Next
  <1>2. CASE \E r \in Runs : SpoilRecord(r)
    BY <1>2 DEF SpoilRecord
  <1>3. CASE UNCHANGED vars
    BY <1>3 DEF vars
  <1> QED
    BY <1>1, <1>2, <1>3, CommandsUseCatalog, GoalsUseCatalog, RunnerUsesCatalog,
       RecoveryUsesCatalog, CrashesAreCatalogCrashes DEF LifecycleNext

-----------------------------------------------------------------------------
(* Types of the variables RunLifecycle adds.                               *)

RecordTypeOK ==
    /\ record \in [Runs -> {"none", "unusable"} \cup RecordStates]
    /\ recOlder \subseteq Runs \X Runs
    /\ unwritten \subseteq Runs

ProcessTypeOK ==
    /\ boot \in {"down", "scanned", "swept", "ready"}
    /\ lease \in [Channels -> Leases \cup {None}]
    /\ memory \in [Channels -> Runs \cup {None}]

LEMMA WriteType ==
    ASSUME RecordTypeOK, NEW r \in Runs, NEW s \in {"none", "unusable"} \cup RecordStates,
           TryWrite(r, s)
    PROVE  RecordTypeOK'
  BY DEF TryWrite, FailWrite, Write, RecordTypeOK, recordVars

LEMMA DiscardType ==
    ASSUME RecordTypeOK, NEW S, DiscardAll(S)
    PROVE  RecordTypeOK'
  BY DEF DiscardAll, RecordTypeOK

LEMMA CommandsType ==
    ASSUME LifecycleTypeOK, NEW o \in Owners, NEW c \in Channels, Commands(o, c)
    PROVE  RecordTypeOK' /\ ProcessTypeOK'
  <1> USE DEF LifecycleTypeOK
  <1>0. RecordTypeOK /\ ProcessTypeOK
    BY DEF RecordTypeOK, ProcessTypeOK
  <1>1. ASSUME NEW r \in Runs, Reset(o, c, r)
        PROVE  RecordTypeOK' /\ ProcessTypeOK'
    BY <1>0, <1>1, DiscardType DEF Reset, ClearChannelState, ProcessTypeOK
  <1>2. ASSUME NEW r \in Runs, ResumeRun(o, c, r)
        PROVE  RecordTypeOK' /\ ProcessTypeOK'
    BY <1>0, <1>2 DEF ResumeRun, recordVars, processVars, RecordTypeOK, ProcessTypeOK
  <1>3. ASSUME NEW r \in Runs, RewindRun(o, c, r)
        PROVE  RecordTypeOK' /\ ProcessTypeOK'
    <2>1. TryWrite(r, record[r])
      BY <1>3 DEF RewindRun, TryWrite
    <2>2. record[r] \in {"none", "unusable"} \cup RecordStates
      BY <1>0 DEF RecordTypeOK
    <2> QED BY <1>0, <1>3, <2>1, <2>2, WriteType DEF RewindRun, processVars, ProcessTypeOK
  <1>4. ASSUME NEW r \in Runs, DeleteRun(o, c, r)
        PROVE  RecordTypeOK' /\ ProcessTypeOK'
    BY <1>0, <1>4, DiscardType DEF DeleteRun, processVars, ProcessTypeOK
  <1>5. ASSUME NEW source \in Runs, NEW r \in Runs, ForkRun(o, c, source, r)
        PROVE  RecordTypeOK' /\ ProcessTypeOK'
    BY <1>0, <1>5, WriteType DEF ForkRun, TryWrite, ProcessTypeOK, RecordStates
  <1>6. ASSUME NEW source \in Runs, NEW r \in Runs,
               ForkFails(o, c, source, r) \/ HandoverRun(o, c, source, r)
        PROVE  RecordTypeOK' /\ ProcessTypeOK'
    BY <1>0, <1>6
       DEF ForkFails, HandoverRun, recordVars, processVars, RecordTypeOK, ProcessTypeOK
  <1>7. ASSUME NEW t \in Tokens, ClearBegin(o, c, t) \/ ClearFail(o, c, t)
        PROVE  RecordTypeOK' /\ ProcessTypeOK'
    BY <1>0, <1>7
       DEF ClearBegin, ClearFail, recordVars, processVars, RecordTypeOK, ProcessTypeOK
  <1>8. ASSUME NEW t \in Tokens, NEW r \in Runs, ClearEnd(o, c, t, r)
        PROVE  RecordTypeOK' /\ ProcessTypeOK'
    BY <1>0, <1>8, DiscardType DEF ClearEnd, ClearChannelState, ProcessTypeOK
  <1> QED BY <1>1, <1>2, <1>3, <1>4, <1>5, <1>6, <1>7, <1>8 DEF Commands

LEMMA GoalsType ==
    ASSUME LifecycleTypeOK, NEW o \in Owners, NEW c \in Channels, NEW r \in Runs,
           Goal(o, c, r)
    PROVE  RecordTypeOK' /\ ProcessTypeOK'
  <1>0. RecordTypeOK /\ ProcessTypeOK
    BY DEF LifecycleTypeOK, RecordTypeOK, ProcessTypeOK
  <1>1. \A phase \in Phases : NewLease(r, o, phase) \in Leases
    BY DEF NewLease, Leases
  <1>2. PICK candidate \in AutoResumeCandidates(o, c) :
           \/ RestoredGoal(o, c, candidate, r)
           \/ DirectGoal(o, c, candidate, r)
           \/ FreshGoal(o, c, candidate, r)
    BY DEF Goal
  <1>3. boot' = boot
    BY DEF Goal
  <1>4. CASE RestoredGoal(o, c, candidate, r)
    BY <1>0, <1>1, <1>3, <1>4
       DEF RestoredGoal, recordVars, RecordTypeOK, ProcessTypeOK, Phases
  <1>5. CASE DirectGoal(o, c, candidate, r)
    BY <1>0, <1>1, <1>3, <1>5
       DEF DirectGoal, recordVars, RecordTypeOK, ProcessTypeOK, Phases
  <1>6. CASE FreshGoal(o, c, candidate, r)
    <2>1. RecordTypeOK'
      BY <1>0, <1>6, WriteType DEF FreshGoal, RecordStates
    <2>2. ProcessTypeOK'
      BY <1>0, <1>1, <1>3, <1>6 DEF FreshGoal, ProcessTypeOK, Phases
    <2> QED BY <2>1, <2>2
  <1> QED BY <1>2, <1>4, <1>5, <1>6

LEMMA RunnerType ==
    ASSUME LifecycleTypeOK, NEW c \in Channels, Runner(c)
    PROVE  RecordTypeOK' /\ ProcessTypeOK'
  <1>0. RecordTypeOK /\ ProcessTypeOK
    BY DEF LifecycleTypeOK, RecordTypeOK, ProcessTypeOK
  <1>1. Live(c) => lease[c] \in Leases /\ lease[c].run \in Runs
    BY DEF Live, LifecycleTypeOK, Leases
  <1>2. CASE BeginLoop(c)
    <2>1. RecordTypeOK'
      BY <1>0, <1>1, <1>2, WriteType DEF BeginLoop, RecordStates
    <2>2. [lease[c] EXCEPT !.phase = "loop"] \in Leases
      BY <1>1, <1>2 DEF BeginLoop, Leases, Phases
    <2>3. ProcessTypeOK'
      BY <1>0, <1>1, <1>2, <2>2 DEF BeginLoop, ProcessTypeOK
    <2> QED BY <2>1, <2>3
  <1>3. CASE Snapshot(c)
    BY <1>0, <1>1, <1>3, WriteType
       DEF Snapshot, TryWrite, RecordStates, processVars, ProcessTypeOK
  <1>4. ASSUME NEW s \in Outcomes \cup {"interrupted"}, Release(c, s)
        PROVE  RecordTypeOK' /\ ProcessTypeOK'
    <2>1. s \in RecordStates
      BY OutcomesAssumption DEF RecordStates, TerminalStatuses
    <2>2. RecordTypeOK'
      BY <1>0, <1>1, <1>4, <2>1, WriteType DEF Release, recordVars, RecordTypeOK
    <2>3. ProcessTypeOK'
      BY <1>0, <1>4 DEF Release, ProcessTypeOK
    <2> QED BY <2>2, <2>3
  <1> QED BY <1>2, <1>3, <1>4 DEF Runner

LEMMA StartupType ==
    ASSUME LifecycleTypeOK,
           \/ StartupScan \/ StartupSweep \/ Recovery
           \/ \E r \in Runs : SpoilRecord(r)
    PROVE  RecordTypeOK' /\ ProcessTypeOK'
  <1>0. RecordTypeOK /\ ProcessTypeOK
    BY DEF LifecycleTypeOK, RecordTypeOK, ProcessTypeOK
  <1>1. CASE StartupScan
    BY <1>0, <1>1 DEF StartupScan, recordVars, RecordTypeOK, ProcessTypeOK
  <1>2. CASE StartupSweep
    BY <1>0, <1>2, DiscardType DEF StartupSweep, recordVars, RecordTypeOK, ProcessTypeOK
  <1>3. CASE Recovery
    BY <1>0, <1>3, DiscardType
       DEF Recovery, RecoverUnusable, RecoverSuperseded, RecoverArm, RecoverDone,
           recordVars, processVars, RecordTypeOK, ProcessTypeOK
  <1>4. ASSUME NEW r \in Runs, SpoilRecord(r)
        PROVE  RecordTypeOK' /\ ProcessTypeOK'
    BY <1>0, <1>4 DEF SpoilRecord, processVars, RecordTypeOK, ProcessTypeOK
  <1> QED BY <1>1, <1>2, <1>3, <1>4

LEMMA CrashesType ==
    ASSUME LifecycleTypeOK, Crashes
    PROVE  RecordTypeOK' /\ ProcessTypeOK'
  <1>0. RecordTypeOK
    BY DEF LifecycleTypeOK, RecordTypeOK
  <1>1. ForgetProcess \/ UNCHANGED processVars
    BY DEF Crashes, CrashAnywhere, CrashBeforeFirstSnapshot, CrashInSelection, CrashInRelease,
           CrashInStartup
  <1>2. ProcessTypeOK'
    BY <1>1 DEF ForgetProcess, processVars, LifecycleTypeOK, ProcessTypeOK
  <1>3. ASSUME NEW c \in Channels, NEW s \in Outcomes, CrashInRelease(c, s)
        PROVE  RecordTypeOK'
    <2>1. lease[c].run \in Runs
      BY <1>3 DEF CrashInRelease, Live, LifecycleTypeOK, Leases
    <2>2. s \in RecordStates
      BY OutcomesAssumption DEF RecordStates
    <2>3. TryWrite(lease[c].run, s)
      BY <1>3 DEF CrashInRelease, TryWrite
    <2> QED BY <1>0, <2>1, <2>2, <2>3, WriteType
  <1>4. UNCHANGED recordVars => RecordTypeOK'
    BY <1>0 DEF RecordTypeOK, recordVars
  <1>5. \/ UNCHANGED recordVars
        \/ \E c \in Channels, s \in Outcomes : CrashInRelease(c, s)
    BY DEF Crashes, CrashAnywhere, CrashBeforeFirstSnapshot, CrashInSelection, CrashInStartup,
           recordVars
  <1> QED BY <1>2, <1>3, <1>4, <1>5

(* No step of the bot breaks the invariant of the catalog or the types of  *)
(* the variables around it.                                                *)
LifecycleInv == LifecycleTypeOK /\ CatalogInv

LEMMA LifecycleStep == LifecycleInv /\ [LifecycleNext]_vars => LifecycleInv'
  <1> SUFFICES ASSUME LifecycleInv, [LifecycleNext]_vars PROVE LifecycleInv'
    OBVIOUS
  <1> USE DEF LifecycleInv
  <1>1. CatalogInv'
    BY StepUsesCatalog, CatalogStep
  <1>2. RecordTypeOK' /\ ProcessTypeOK'
    <2>1. CASE UNCHANGED vars
      BY <2>1 DEF vars, recordVars, processVars, LifecycleTypeOK, RecordTypeOK, ProcessTypeOK
    <2>2. CASE LifecycleNext
      BY <2>2, CommandsType, GoalsType, RunnerType, StartupType, CrashesType
         DEF LifecycleNext
    <2> QED BY <2>1, <2>2
  <1>3. LifecycleTypeOK'
    BY <1>1, <1>2 DEF CatalogInv, LifecycleTypeOK, RecordTypeOK, ProcessTypeOK
  <1> QED BY <1>1, <1>3

THEOREM LifecycleInvariant == LifecycleSpec => []LifecycleInv
  <1>1. LifecycleInit => LifecycleInv
    <2>1. LifecycleInit => CatalogInv
      BY InitCatalogInv DEF LifecycleInit
    <2>2. LifecycleInit => LifecycleTypeOK
      BY <2>1 DEF LifecycleInit, CatalogInv, LifecycleTypeOK
    <2> QED BY <2>1, <2>2 DEF LifecycleInv
  <1> QED
    BY <1>1, LifecycleStep, PTL DEF LifecycleSpec

(* The variables of the lifecycle take the values the code gives them.     *)
THEOREM LifecycleTypeCorrect == LifecycleSpec => []LifecycleTypeOK
  BY LifecycleInvariant, PTL DEF LifecycleInv

(* The bot implements the catalog: whatever commands, goals, recoveries    *)
(* and crashes do, the catalog only ever takes a step of its own methods.  *)
THEOREM LifecycleImplementsCatalog == LifecycleSpec => Spec
  <1>1. LifecycleInit => Init
    BY DEF LifecycleInit
  <1>2. LifecycleInv /\ [LifecycleNext]_vars => [Next]_catalogVars
    BY StepUsesCatalog DEF LifecycleInv
  <1> QED
    BY <1>1, <1>2, LifecycleInvariant, PTL DEF LifecycleSpec, Spec

(* ... and so a !clear that waits for Discord never overlaps a run of its  *)
(* owner or channel in the whole bot,                                      *)
THEOREM LifecycleReservationSafety == LifecycleSpec => []ReservationExcludesActive
  BY LifecycleImplementsCatalog, ReservationSafety, PTL

(* a prepared run is always the one its key consumes next,                 *)
THEOREM LifecyclePreparedRunsAreSelected == LifecycleSpec => []PreparedIsSelected
  BY LifecycleImplementsCatalog, PreparedRunsAreSelected, PTL

(* and no user is led to a run that is deleted or somebody else's.         *)
THEOREM LifecycleSelectionSafety == LifecycleSpec => []SelectionsAreOwn
  BY LifecycleImplementsCatalog, SelectionSafety, PTL

(* a crash loses no selection and a goal skips none,                       *)
THEOREM LifecycleSelectionsSurvive == LifecycleSpec => SelectionsSurvive
  BY LifecycleImplementsCatalog, CatalogImplementsSlots, PTL

(* nothing moves or deletes a run that executes,                           *)
THEOREM LifecycleExecutionSafety == LifecycleSpec => ActiveIsUndisturbed
  BY LifecycleImplementsCatalog, ExecutionSafety, PTL

-----------------------------------------------------------------------------
(* Leases and statuses.                                                    *)

(* A bot that is not ready has no lease, and the catalog exists from the   *)
(* scan to the crash.                                                      *)
LeaseInv ==
    /\ boot = "down" <=> proc = "down"
    /\ boot # "ready" => \A c \in Channels : lease[c] = None
    /\ LeasesMatchCatalog

(* The step starts and ends no run and moves none that executes.           *)
ActiveKept ==
    \A r \in Runs : /\ status'[r] = "active" <=> status[r] = "active"
                    /\ status[r] = "active" => owner'[r] = owner[r] /\ channel'[r] = channel[r]

LEMMA LeaseType ==
    ASSUME LifecycleTypeOK, NEW c \in Channels, Live(c)
    PROVE  /\ lease[c] \in Leases
           /\ lease[c].run \in Runs /\ lease[c].owner \in Owners /\ lease[c].phase \in Phases
  BY DEF LifecycleTypeOK, Live, Leases

LEMMA LeasesKept ==
    ASSUME LifecycleTypeOK, LeaseInv, ActiveKept, UNCHANGED <<lease, proc>>,
           boot' = boot \/ (boot \in {"scanned", "swept"} /\ boot' \in {"swept", "ready"})
    PROVE  LeaseInv'
  <1>1. \A r \in Runs : status'[r] = "active" => status[r] = "active" /\ channel'[r] = channel[r]
    BY DEF ActiveKept
  <1>2. \A c \in Channels :
           Live(c) => /\ lease[c].run \in Runs
                      /\ status'[lease[c].run] = "active"
                      /\ owner'[lease[c].run] = lease[c].owner
                      /\ channel'[lease[c].run] = c
    BY LeaseType DEF LeaseInv, LeasesMatchCatalog, ActiveKept, KeyOf
  <1> QED
    BY <1>1, <1>2 DEF LeaseInv, LeasesMatchCatalog, Live, KeyOf

LEMMA SelectKeepsActive ==
    ASSUME TypeOK, NEW o \in Owners, NEW c \in Channels, NEW r \in Runs,
           NEW s \in {"prepared", "failed"}, SelectAs(o, c, r, s), status[r] # "active"
    PROVE  ActiveKept
  BY DEF SelectAs, Displaced, ActiveKept, TypeOK

LEMMA PurgeKeepsActive ==
    ASSUME NEW S, PurgeAll(S), \A r \in S \cap Runs : status[r] # "active"
    PROVE  ActiveKept
  BY DEF PurgeAll, ActiveKept

LEMMA CommandsKeepActive ==
    ASSUME LifecycleTypeOK, NEW o \in Owners, NEW c \in Channels, Commands(o, c)
    PROVE  ActiveKept /\ UNCHANGED <<lease, boot, proc>>
  <1>0. TypeOK
    BY DEF LifecycleTypeOK
  <1>1. ASSUME NEW r \in Runs, Prepare(o, c, r) \/ PrepareThenFail(o, c, r)
        PROVE  ActiveKept /\ proc' = proc
    BY <1>0, <1>1, SelectKeepsActive DEF Prepare, PrepareThenFail, MayPrepare, SelectPrepared
  <1>2. ASSUME NEW r \in Runs, Resume(o, c, r)
        PROVE  ActiveKept /\ proc' = proc
    BY <1>0, <1>2, SelectKeepsActive DEF Resume, Inactive, SelectPrepared
  <1>3. ASSUME NEW r \in Runs, NEW t \in Tokens, PrepareReserved(o, c, t, r)
        PROVE  ActiveKept /\ proc' = proc
    BY <1>0, <1>3, SelectKeepsActive DEF PrepareReserved, SelectPrepared
  <1>4. ASSUME NEW r \in Runs, Delete(o, r)
        PROVE  ActiveKept /\ proc' = proc
    BY <1>4, PurgeKeepsActive DEF Delete, Inactive
  <1>5. ASSUME NEW t \in Tokens, ReserveReset(o, c, t) \/ CancelReset(o, c, t)
        PROVE  ActiveKept /\ proc' = proc
    BY <1>5 DEF ReserveReset, CancelReset, durableVars, ActiveKept
  <1>6. ASSUME NEW r \in Runs,
               Reset(o, c, r) \/ ResumeRun(o, c, r) \/ RewindRun(o, c, r) \/ DeleteRun(o, c, r)
        PROVE  ActiveKept /\ UNCHANGED <<lease, boot, proc>>
    BY <1>1, <1>2, <1>4, <1>6 DEF Reset, ResumeRun, RewindRun, DeleteRun, processVars
  <1>7. ASSUME NEW source \in Runs, NEW r \in Runs,
               \/ ForkRun(o, c, source, r)
               \/ ForkFails(o, c, source, r)
               \/ HandoverRun(o, c, source, r)
        PROVE  ActiveKept /\ UNCHANGED <<lease, boot, proc>>
    BY <1>1, <1>7 DEF ForkRun, ForkFails, HandoverRun, processVars
  <1>8. ASSUME NEW t \in Tokens, ClearBegin(o, c, t) \/ ClearFail(o, c, t)
        PROVE  ActiveKept /\ UNCHANGED <<lease, boot, proc>>
    BY <1>5, <1>8 DEF ClearBegin, ClearFail, processVars
  <1>9. ASSUME NEW t \in Tokens, NEW r \in Runs, ClearEnd(o, c, t, r)
        PROVE  ActiveKept /\ UNCHANGED <<lease, boot, proc>>
    BY <1>3, <1>9 DEF ClearEnd
  <1> QED BY <1>6, <1>7, <1>8, <1>9 DEF Commands

(* A goal starts a run that nobody executes, as its own.                   *)
LEMMA GoalLeases ==
    ASSUME LifecycleInv, LeaseInv, NEW o \in Owners, NEW c \in Channels, NEW r \in Runs,
           Goal(o, c, r)
    PROVE  LeaseInv' /\ status[r] # "active"
  <1>1. PICK candidate \in AutoResumeCandidates(o, c) :
           \/ RestoredGoal(o, c, candidate, r)
           \/ DirectGoal(o, c, candidate, r)
           \/ FreshGoal(o, c, candidate, r)
    BY DEF Goal
  <1>2. PICK phase \in Phases : lease' = [lease EXCEPT ![c] = NewLease(r, o, phase)]
    BY <1>1 DEF RestoredGoal, DirectGoal, FreshGoal, Phases
  <1>3. Acquire(o, c, candidate, r) /\ boot = "ready" /\ boot' = boot /\ lease[c] = None
    BY <1>1 DEF Goal, Live, RestoredGoal, DirectGoal, FreshGoal
  <1>4. TypeOK /\ lease \in [Channels -> Leases \cup {None}]
    BY DEF LifecycleInv, LifecycleTypeOK
  <1>5. status[r] # "active" /\ (status[r] # "absent" => owner[r] = o)
    BY <1>3, AcquiresOwn, CandidatesAreRuns
       DEF Acquire, Acquires, IsSelectedPrepared, IsCandidate, ResumableStatuses,
           TerminalStatuses, LifecycleInv
  <1>6. /\ status'[r] = "active" /\ owner'[r] = o /\ channel'[r] = c /\ proc' = proc
        /\ \A q \in Runs : q # r => /\ status'[q] = status[q]
                                    /\ owner'[q] = owner[q] /\ channel'[q] = channel[q]
    BY <1>3, <1>4, <1>5 DEF Acquire, Activate, TypeOK
  <1>7. NewLease(r, o, phase) \in Leases /\ NewLease(r, o, phase).run = r
        /\ NewLease(r, o, phase).owner = o
    BY DEF NewLease, Leases
  <1>8. /\ lease'[c] # None /\ lease'[c].run = r /\ lease'[c].owner = o
        /\ \A d \in Channels : d # c => lease'[d] = lease[d]
    BY <1>2, <1>4, <1>7, NoLeaseAssumption
  <1>9. \A d \in Channels : lease[d] # None => lease[d].run \in Runs /\ lease[d].run # r
    BY <1>5, LeaseType DEF LeaseInv, LeasesMatchCatalog, Live, LifecycleInv
  <1>10. LeasesMatchCatalog'
    <2>1. ASSUME NEW d \in Channels, Live(d)'
          PROVE  /\ status'[lease'[d].run] = "active"
                 /\ KeyOf(lease[d].run)' = <<lease'[d].owner, d>>
      <3>1. CASE d = c
        BY <1>6, <1>8, <3>1 DEF KeyOf
      <3>2. CASE d # c
        BY <1>6, <1>8, <1>9, <2>1, <3>2 DEF KeyOf, LeaseInv, LeasesMatchCatalog, Live
      <3> QED BY <3>1, <3>2
    <2>2. ASSUME NEW q \in Runs, status'[q] = "active", proc' = "up"
          PROVE  Live(channel[q])' /\ lease'[channel'[q]].run = q
      <3>1. CASE q = r
        BY <1>6, <1>8, <3>1 DEF Live
      <3>2. CASE q # r
        <4>1. Live(channel[q]) /\ lease[channel[q]].run = q
          BY <1>6, <2>2, <3>2 DEF LeaseInv, LeasesMatchCatalog
        <4>2. channel[q] # c
          BY <1>3, <4>1 DEF Live
        <4>3. channel[q] \in Channels
          BY <1>6, <2>2, <3>2 DEF LifecycleInv, CatalogInv, KnownHaveKeys, KeyOf, Keys
        <4> QED BY <1>6, <1>8, <3>2, <4>1, <4>2, <4>3 DEF Live
      <3> QED BY <3>1, <3>2
    <2> QED BY <2>1, <2>2 DEF LeasesMatchCatalog
  <1> QED BY <1>3, <1>5, <1>6, <1>10 DEF LeaseInv

(* The loop of a channel works for that channel's run, until it ends it.   *)
LEMMA RunnerLeases ==
    ASSUME LifecycleInv, LeaseInv, NEW c \in Channels, Runner(c)
    PROVE  LeaseInv' /\ status[lease[c].run] = "active"
  <1>0. /\ LifecycleTypeOK /\ TypeOK /\ lease \in [Channels -> Leases \cup {None}]
        /\ Live(c) /\ boot' = boot /\ boot = "ready"
    BY DEF LifecycleInv, LifecycleTypeOK, Runner, BeginLoop, Snapshot, Release, processVars,
           LeaseInv, Live
  <1> DEFINE r == lease[c].run
  <1>1. r \in Runs /\ status[r] = "active" /\ KeyOf(r) = <<lease[c].owner, c>>
    BY <1>0, LeaseType DEF LeaseInv, LeasesMatchCatalog
  <1>2. CASE BeginLoop(c)
    <2>1. lease'[c] = [lease[c] EXCEPT !.phase = "loop"]
      BY <1>0, <1>2 DEF BeginLoop
    <2>2. lease'[c] \in Leases /\ lease'[c].run = lease[c].run /\ lease'[c].owner = lease[c].owner
      BY <1>0, <2>1, LeaseType DEF Leases, Phases
    <2>3. \A d \in Channels : d # c => lease'[d] = lease[d]
      BY <1>0, <1>2 DEF BeginLoop
    <2>4. \A d \in Channels : /\ Live(d)' <=> Live(d)
                              /\ lease'[d].run = lease[d].run /\ lease'[d].owner = lease[d].owner
      BY <1>0, <2>2, <2>3, NoLeaseAssumption DEF Live
    <2>5. UNCHANGED <<proc, status, owner, channel>>
      BY <1>2 DEF BeginLoop, catalogVars, durableVars
    <2>6. \A q \in Runs : status[q] = "active" => channel[q] \in Channels
      BY DEF LifecycleInv, CatalogInv, KnownHaveKeys, KeyOf, Keys
    <2> QED BY <1>0, <1>1, <2>4, <2>5, <2>6 DEF LeaseInv, LeasesMatchCatalog, KeyOf
  <1>3. CASE Snapshot(c)
    <2>1. UNCHANGED <<proc, status, owner, channel, lease>>
      BY <1>3 DEF Snapshot, catalogVars, durableVars, processVars
    <2> QED BY <1>0, <1>1, <2>1 DEF LeaseInv, LeasesMatchCatalog, KeyOf, Live
  <1>4. ASSUME NEW s \in Outcomes \cup {"interrupted"}, Release(c, s)
        PROVE  LeaseInv'
    <2>1. s # "active"
      BY OutcomesAssumption DEF TerminalStatuses
    <2>2. /\ status' = [status EXCEPT ![r] = s]
          /\ UNCHANGED <<proc, owner, channel>>
          /\ lease' = [lease EXCEPT ![c] = None]
      BY <1>4 DEF Release, Finish
    <2>3. \A d \in Channels : Live(d) /\ d # c => lease[d].run # r
      BY <1>1 DEF LeaseInv, LeasesMatchCatalog, KeyOf
    <2>4. \A q \in Runs : status'[q] = "active" => q # r /\ status[q] = "active"
      BY <1>0, <1>1, <2>1, <2>2 DEF TypeOK
    <2>5. \A q \in Runs : status[q] = "active" /\ q # r /\ proc = "up" => channel[q] # c
      BY DEF LeaseInv, LeasesMatchCatalog
    <2>6. \A q \in Runs : status[q] = "active" => channel[q] \in Channels
      BY DEF LifecycleInv, CatalogInv, KnownHaveKeys, KeyOf, Keys
    <2>7. \A d \in Channels : Live(d)' => d # c /\ Live(d) /\ lease'[d] = lease[d]
      BY <1>0, <2>2 DEF Live
    <2>8. \A d \in Channels : d # c => lease'[d] = lease[d]
      BY <1>0, <2>2
    <2>9. \A d \in Channels : Live(d)' => /\ status'[lease'[d].run] = "active"
                                         /\ KeyOf(lease[d].run)' = <<lease'[d].owner, d>>
      BY <1>0, <2>2, <2>3, <2>7, LeaseType DEF LeaseInv, LeasesMatchCatalog, KeyOf, TypeOK
    <2>10. \A q \in Runs : status'[q] = "active" /\ proc' = "up"
                               => Live(channel[q])' /\ lease'[channel'[q]].run = q
      BY <2>2, <2>4, <2>5, <2>6, <2>8 DEF LeaseInv, LeasesMatchCatalog, Live
    <2> QED BY <1>0, <2>2, <2>9, <2>10 DEF LeaseInv, LeasesMatchCatalog
  <1> QED BY <1>1, <1>2, <1>3, <1>4 DEF Runner

(* A crash leaves no lease, and neither does one in the middle of startup. *)
LEMMA CrashesForget ==
    ASSUME LeaseInv, Crashes
    PROVE  proc' = "down" /\ boot' = "down" /\ \A c \in Channels : lease'[c] = None
  <1>1. ASSUME NEW r \in Runs, CrashInStartup(r)
        PROVE  proc' = "down" /\ boot' = "down" /\ \A c \in Channels : lease'[c] = None
    BY <1>1 DEF CrashInStartup, CrashInScan, processVars, LeaseInv
  <1> QED BY <1>1 DEF Crashes, CrashAnywhere, CrashBeforeFirstSnapshot, CrashInSelection,
                      CrashInRelease, ForgetProcess, Crash, CrashInAcquire,
                      CrashInSelectPrepared, Forget

(* Startup works without leases and crashes drop them.                     *)
LEMMA StartupLeases ==
    ASSUME LifecycleInv, LeaseInv,
           \/ StartupScan \/ StartupSweep \/ Recovery \/ Crashes
           \/ \E r \in Runs : SpoilRecord(r)
    PROVE  LeaseInv'
  <1>0. LifecycleTypeOK /\ TypeOK
    BY DEF LifecycleInv, LifecycleTypeOK
  <1>1. CASE StartupScan
    <2>1. \A r \in Runs : status'[r] # "active"
      BY <1>0, <1>1 DEF StartupScan, Scan, LeftActive, TypeOK
    <2>2. /\ proc' = "up" /\ boot' = "scanned"
          /\ \A c \in Channels : lease'[c] = None
      BY <1>1 DEF StartupScan, Scan, LeaseInv
    <2> QED BY <2>1, <2>2 DEF LeaseInv, LeasesMatchCatalog, Live
  <1>2. CASE StartupSweep
    <2>1. ActiveKept
      BY <1>2, PurgeKeepsActive
         DEF StartupSweep, SweepRetention, Expired, TerminalStatuses, ActiveKept, catalogVars,
             durableVars
    <2>2. UNCHANGED <<lease, proc>> /\ boot = "scanned" /\ boot' = "swept"
      BY <1>2 DEF StartupSweep, SweepRetention, catalogVars
    <2> QED BY <1>0, <2>1, <2>2, LeasesKept
  <1>3. CASE Recovery
    <2>1. ActiveKept
      <3>1. ASSUME NEW r \in Runs, RecoverUnusable(r)
            PROVE  ActiveKept
        BY <1>0, <3>1
           DEF RecoverUnusable, Finish, ActiveKept, TypeOK, catalogVars, durableVars
      <3>2. ASSUME NEW r \in Runs, RecoverArm(r)
            PROVE  ActiveKept
        <4>1. owner[r] \in Owners /\ channel[r] \in Channels
          BY <3>2 DEF RecoverArm, Recovers, Unterminated, Known, LifecycleInv, CatalogInv,
                      KnownHaveKeys, KeyOf, Keys
        <4> QED BY <1>0, <3>2, <4>1, SelectKeepsActive
                DEF RecoverArm, Resume, Inactive, SelectPrepared
      <3>3. UNCHANGED catalogVars => ActiveKept
        BY DEF catalogVars, durableVars, ActiveKept
      <3> QED BY <1>3, <3>1, <3>2, <3>3 DEF Recovery, RecoverSuperseded, RecoverDone
    <2>2. /\ UNCHANGED <<lease, proc>>
          /\ boot = "swept" /\ boot' \in {"swept", "ready"}
      BY <1>3 DEF Recovery, RecoverUnusable, RecoverSuperseded, RecoverArm, RecoverDone,
                  processVars, catalogVars, Finish, Resume
    <2> QED BY <1>0, <2>1, <2>2, LeasesKept
  <1>4. CASE Crashes
    BY <1>4, CrashesForget DEF LeaseInv, LeasesMatchCatalog, Live
  <1>5. ASSUME NEW r \in Runs, SpoilRecord(r)
        PROVE  LeaseInv'
    BY <1>0, <1>5, LeasesKept
       DEF SpoilRecord, processVars, catalogVars, durableVars, ActiveKept
  <1> QED BY <1>1, <1>2, <1>3, <1>4, <1>5

LEMMA LeaseStep == LifecycleInv /\ LeaseInv /\ [LifecycleNext]_vars => LeaseInv'
  <1> SUFFICES ASSUME LifecycleInv, LeaseInv, [LifecycleNext]_vars PROVE LeaseInv'
    OBVIOUS
  <1>1. ASSUME NEW o \in Owners, NEW c \in Channels, Commands(o, c)
        PROVE  LeaseInv'
    BY <1>1, CommandsKeepActive, LeasesKept DEF LifecycleInv
  <1>2. CASE UNCHANGED vars
    BY <1>2, LeasesKept
       DEF LifecycleInv, vars, processVars, catalogVars, durableVars, ActiveKept
  <1> QED
    BY <1>1, <1>2, GoalLeases, RunnerLeases, StartupLeases DEF LifecycleNext

-----------------------------------------------------------------------------
(* The memory of a channel.                                                *)

(* A command replaces the memory of a channel where no run executes.       *)
LEMMA CommandsSpareMemory ==
    ASSUME LifecycleInv, LeaseInv, NEW o \in Owners, NEW c \in Channels, Commands(o, c),
           NEW d \in Channels, Live(d)
    PROVE  memory'[d] = memory[d]
  <1>0. memory \in [Channels -> Runs \cup {None}]
    BY DEF LifecycleInv, LifecycleTypeOK
  <1>1. lease[d].run \in Runs /\ status[lease[d].run] = "active" /\ channel[lease[d].run] = d
    BY LeaseType DEF LifecycleInv, LeaseInv, LeasesMatchCatalog, KeyOf
  <1>2. ASSUME ResetAllowed(o, c) PROVE d # c
    BY <1>1, <1>2 DEF ResetAllowed
  <1>3. ASSUME NEW t \in Tokens, reserved[<<o, c>>] = t PROVE d # c
    BY <1>1, <1>3, NoneAssumption
       DEF LifecycleInv, CatalogInv, ReservationExcludesActive, Keys
  <1>4. ASSUME NEW r \in Runs,
               Reset(o, c, r) \/ ResumeRun(o, c, r) \/ RewindRun(o, c, r) \/ DeleteRun(o, c, r)
        PROVE  memory'[d] = memory[d]
    BY <1>0, <1>2, <1>4
       DEF Reset, Prepare, MayPrepare, ClearChannelState, ResumeRun, RewindRun, DeleteRun,
           processVars
  <1>5. ASSUME NEW source \in Runs, NEW r \in Runs,
               \/ ForkRun(o, c, source, r)
               \/ ForkFails(o, c, source, r)
               \/ HandoverRun(o, c, source, r)
        PROVE  memory'[d] = memory[d]
    BY <1>0, <1>2, <1>5
       DEF ForkRun, ForkFails, HandoverRun, Prepare, MayPrepare, processVars
  <1>6. ASSUME NEW t \in Tokens, ClearBegin(o, c, t) \/ ClearFail(o, c, t)
        PROVE  memory'[d] = memory[d]
    BY <1>6 DEF ClearBegin, ClearFail, processVars
  <1>7. ASSUME NEW t \in Tokens, NEW r \in Runs, ClearEnd(o, c, t, r)
        PROVE  memory'[d] = memory[d]
    BY <1>0, <1>3, <1>7 DEF ClearEnd, PrepareReserved, ClearChannelState
  <1> QED BY <1>4, <1>5, <1>6, <1>7 DEF Commands

LEMMA MemoryStep ==
    LifecycleInv /\ LeaseInv /\ LiveRunOwnsMemory /\ [LifecycleNext]_vars => LiveRunOwnsMemory'
  <1> SUFFICES ASSUME LifecycleInv, LeaseInv, LiveRunOwnsMemory, [LifecycleNext]_vars
               PROVE  LiveRunOwnsMemory'
    OBVIOUS
  <1>0. /\ LifecycleTypeOK /\ lease \in [Channels -> Leases \cup {None}]
        /\ memory \in [Channels -> Runs \cup {None}]
    BY DEF LifecycleInv, LifecycleTypeOK
  <1>1. ASSUME NEW o \in Owners, NEW c \in Channels, Commands(o, c)
        PROVE  LiveRunOwnsMemory'
    <2>1. lease' = lease
      BY <1>0, <1>1, CommandsKeepActive
    <2> QED BY <1>1, <2>1, CommandsSpareMemory DEF LiveRunOwnsMemory, Live
  <1>2. ASSUME NEW o \in Owners, NEW c \in Channels, NEW r \in Runs, Goal(o, c, r)
        PROVE  LiveRunOwnsMemory'
    <2>1. PICK candidate \in AutoResumeCandidates(o, c) :
             \/ RestoredGoal(o, c, candidate, r)
             \/ DirectGoal(o, c, candidate, r)
             \/ FreshGoal(o, c, candidate, r)
      BY <1>2 DEF Goal
    <2>2. /\ \A d \in Channels : d # c => lease'[d] = lease[d] /\ memory'[d] = memory[d]
          /\ lease'[c].run = r
          /\ lease'[c].phase = "direct" \/ memory'[c] = r
      BY <1>0, <2>1 DEF RestoredGoal, DirectGoal, FreshGoal, NewLease
    <2> QED BY <2>2 DEF LiveRunOwnsMemory, Live
  <1>3. ASSUME NEW c \in Channels, Runner(c)
        PROVE  LiveRunOwnsMemory'
    <2>1. CASE BeginLoop(c)
      <3>1. /\ \A d \in Channels : d # c => lease'[d] = lease[d] /\ memory'[d] = memory[d]
            /\ lease'[c] = [lease[c] EXCEPT !.phase = "loop"]
            /\ memory'[c] = lease[c].run
        BY <1>0, <2>1 DEF BeginLoop
      <3>2. lease[c] \in Leases
        BY <1>0, <2>1, LeaseType DEF BeginLoop
      <3>3. lease'[c].run = lease[c].run
        BY <3>1, <3>2 DEF Leases
      <3> QED BY <3>1, <3>3 DEF LiveRunOwnsMemory, Live
    <2>2. CASE Snapshot(c)
      BY <2>2 DEF Snapshot, processVars, LiveRunOwnsMemory, Live
    <2>3. ASSUME NEW s \in Outcomes \cup {"interrupted"}, Release(c, s)
          PROVE  LiveRunOwnsMemory'
      <3>1. /\ \A d \in Channels : d # c => lease'[d] = lease[d]
            /\ lease'[c] = None /\ memory' = memory
        BY <1>0, <2>3 DEF Release
      <3> QED BY <3>1 DEF LiveRunOwnsMemory, Live
    <2> QED BY <1>3, <2>1, <2>2, <2>3 DEF Runner
  <1>4. CASE StartupScan \/ StartupSweep \/ Recovery \/ (\E r \in Runs : SpoilRecord(r))
    <2>1. UNCHANGED <<lease, memory>>
      BY <1>4 DEF StartupScan, StartupSweep, Recovery, RecoverUnusable, RecoverSuperseded,
                  RecoverArm, RecoverDone, SpoilRecord, processVars
    <2> QED BY <2>1 DEF LiveRunOwnsMemory, Live
  <1>5. CASE Crashes
    BY <1>5, CrashesForget DEF LiveRunOwnsMemory, Live
  <1>6. CASE UNCHANGED vars
    BY <1>6 DEF vars, processVars, LiveRunOwnsMemory, Live
  <1> QED BY <1>1, <1>2, <1>3, <1>4, <1>5, <1>6 DEF LifecycleNext

-----------------------------------------------------------------------------
(* The records of ended runs.                                              *)

AbsentHaveNoRecord == \A r \in Runs : status[r] = "absent" => record[r] = "none"

RecordInv == AbsentHaveNoRecord /\ EndedRunsAreTerminated

(* What a step may do to a run and its record to keep that.                *)
Accounted(r) ==
    \/ record'[r] = "none"
    \/ status'[r] \in {"prepared", "active", "interrupted"}
    \/ status'[r] # "absent" /\ (record'[r] # "running" \/ r \in unwritten')
    \/ /\ status'[r] = status[r] /\ record'[r] = record[r]
       /\ r \in unwritten => r \in unwritten'

LEMMA RecordsKept ==
    ASSUME RecordInv, \A r \in Runs : Accounted(r)
    PROVE  RecordInv'
  BY DEF RecordInv, AbsentHaveNoRecord, EndedRunsAreTerminated, TerminalStatuses, Accounted

LEMMA CommandsAccount ==
    ASSUME LifecycleInv, RecordInv, NEW o \in Owners, NEW c \in Channels, Commands(o, c),
           NEW q \in Runs
    PROVE  Accounted(q)
  <1>0. TypeOK /\ RecordTypeOK
    BY DEF LifecycleInv, LifecycleTypeOK, RecordTypeOK
  <1>1. \A r \in Runs : SelectPrepared(o, c, r)
           => status'[q] = status[q] \/ status'[q] \in {"prepared", "interrupted"}
    BY DEF SelectPrepared, SelectAs
  <1>2. ASSUME NEW r \in Runs, Reset(o, c, r)
        PROVE  Accounted(q)
    BY <1>1, <1>2 DEF Reset, Prepare, ClearChannelState, DiscardAll, Accounted
  <1>3. ASSUME NEW r \in Runs, ResumeRun(o, c, r)
        PROVE  Accounted(q)
    BY <1>1, <1>3 DEF ResumeRun, Resume, recordVars, Accounted
  <1>4. ASSUME NEW r \in Runs, RewindRun(o, c, r)
        PROVE  Accounted(q)
    <2>1. record'[q] = record[q] /\ (q # r => (q \in unwritten => q \in unwritten'))
      BY <1>0, <1>4 DEF RewindRun, Write, RecordTypeOK
    <2>2. status'[r] = "prepared"
      BY <1>4 DEF RewindRun, Resume, SelectPrepared, SelectAs
    <2> QED BY <1>1, <1>4, <2>1, <2>2 DEF RewindRun, Resume, Accounted
  <1>5. ASSUME NEW r \in Runs, DeleteRun(o, c, r)
        PROVE  Accounted(q)
    BY <1>5 DEF DeleteRun, Delete, PurgeAll, DiscardAll, Accounted
  <1>6. ASSUME NEW source \in Runs, NEW r \in Runs, ForkRun(o, c, source, r)
        PROVE  Accounted(q)
    <2>1. status'[r] = "prepared"
      BY <1>6 DEF ForkRun, Prepare, SelectPrepared, SelectAs
    <2>2. q # r => record'[q] = record[q] /\ (q \in unwritten => q \in unwritten')
      BY <1>0, <1>6 DEF ForkRun, Write, RecordTypeOK
    <2> QED BY <1>1, <1>6, <2>1, <2>2 DEF ForkRun, Prepare, Accounted
  <1>7. ASSUME NEW source \in Runs, NEW r \in Runs, ForkFails(o, c, source, r)
        PROVE  Accounted(q)
    <2>1. record'[q] = record[q] /\ record[r] = "none" /\ unwritten' = unwritten
      BY <1>7 DEF ForkFails, recordVars, PrepareThenFail, MayPrepare, RecordInv,
                  AbsentHaveNoRecord
    <2>2. q # r => status'[q] = status[q] \/ status'[q] = "interrupted"
      BY <1>7 DEF ForkFails, PrepareThenFail, SelectAs
    <2> QED BY <2>1, <2>2 DEF Accounted
  <1>8. ASSUME NEW source \in Runs, NEW r \in Runs, HandoverRun(o, c, source, r)
        PROVE  Accounted(q)
    BY <1>1, <1>8 DEF HandoverRun, Prepare, recordVars, Accounted
  <1>9. ASSUME NEW t \in Tokens, ClearBegin(o, c, t) \/ ClearFail(o, c, t)
        PROVE  Accounted(q)
    BY <1>9 DEF ClearBegin, ClearFail, ReserveReset, CancelReset, recordVars, durableVars,
                Accounted
  <1>10. ASSUME NEW t \in Tokens, NEW r \in Runs, ClearEnd(o, c, t, r)
         PROVE  Accounted(q)
    BY <1>1, <1>10 DEF ClearEnd, PrepareReserved, ClearChannelState, DiscardAll, Accounted
  <1> QED BY <1>2, <1>3, <1>4, <1>5, <1>6, <1>7, <1>8, <1>9, <1>10 DEF Commands

LEMMA GoalAccounts ==
    ASSUME LifecycleInv, NEW o \in Owners, NEW c \in Channels, NEW r \in Runs,
           Goal(o, c, r), NEW q \in Runs
    PROVE  Accounted(q)
  <1>0. TypeOK /\ RecordTypeOK
    BY DEF LifecycleInv, LifecycleTypeOK, RecordTypeOK
  <1>1. PICK candidate \in AutoResumeCandidates(o, c) :
           \/ RestoredGoal(o, c, candidate, r)
           \/ DirectGoal(o, c, candidate, r)
           \/ FreshGoal(o, c, candidate, r)
    BY DEF Goal
  <1>2. status' = [status EXCEPT ![r] = "active"]
    BY <1>1 DEF RestoredGoal, DirectGoal, FreshGoal, Acquire, Activate
  <1>3. q # r => record'[q] = record[q] /\ (q \in unwritten => q \in unwritten')
    BY <1>0, <1>1
       DEF RestoredGoal, DirectGoal, FreshGoal, TryWrite, FailWrite, Write, recordVars, RecordTypeOK
  <1> QED BY <1>0, <1>2, <1>3 DEF TypeOK, Accounted

LEMMA RunnerAccounts ==
    ASSUME LifecycleInv, LeaseInv, NEW c \in Channels, Runner(c), NEW q \in Runs
    PROVE  Accounted(q)
  <1>0. TypeOK /\ RecordTypeOK /\ lease[c].run \in Runs /\ status[lease[c].run] = "active"
    BY RunnerLeases, LeaseType
       DEF LifecycleInv, LifecycleTypeOK, RecordTypeOK, Runner, BeginLoop, Snapshot, Release
  <1>1. CASE BeginLoop(c) \/ Snapshot(c)
    <2>1. q # lease[c].run => record'[q] = record[q] /\ (q \in unwritten => q \in unwritten')
      BY <1>0, <1>1 DEF BeginLoop, Snapshot, TryWrite, FailWrite, Write, recordVars, RecordTypeOK
    <2>2. status' = status
      BY <1>1 DEF BeginLoop, Snapshot, catalogVars, durableVars
    <2> QED BY <1>0, <2>1, <2>2 DEF Accounted
  <1>2. ASSUME NEW s \in Outcomes \cup {"interrupted"}, Release(c, s)
        PROVE  Accounted(q)
    <2>1. s \notin {"absent", "running"}
      BY OutcomesAssumption DEF TerminalStatuses
    <2>2. status' = [status EXCEPT ![lease[c].run] = s]
      BY <1>2 DEF Release, Finish
    <2>3. CASE Write(lease[c].run, s)
      BY <1>0, <2>1, <2>2, <2>3 DEF Write, RecordTypeOK, TypeOK, Accounted
    <2>4. CASE FailWrite(lease[c].run)
      BY <1>0, <2>1, <2>2, <2>4 DEF FailWrite, TypeOK, Accounted
    <2>5. CASE ~HasRecord(lease[c].run) /\ UNCHANGED recordVars
      BY <1>0, <2>2, <2>5 DEF HasRecord, recordVars, TypeOK, Accounted
    <2> QED BY <1>2, <2>3, <2>4, <2>5 DEF Release, TryWrite
  <1> QED BY <1>1, <1>2 DEF Runner

LEMMA StartupAccounts ==
    ASSUME LifecycleInv, RecordInv,
           \/ StartupScan \/ StartupSweep \/ Recovery
           \/ \E r \in Runs : SpoilRecord(r),
           NEW q \in Runs
    PROVE  Accounted(q)
  <1>0. TypeOK /\ RecordTypeOK
    BY DEF LifecycleInv, LifecycleTypeOK, RecordTypeOK
  <1>1. CASE StartupScan
    BY <1>1 DEF StartupScan, Scan, recordVars, Accounted
  <1>2. CASE StartupSweep
    <2>1. CASE UNCHANGED <<catalogVars, recordVars>>
      BY <2>1 DEF catalogVars, durableVars, recordVars, Accounted
    <2>2. ASSUME NEW limit \in Runs, SweepRetention(limit), DiscardAll(Expired(limit))
          PROVE  Accounted(q)
      BY <2>2 DEF SweepRetention, PurgeAll, DiscardAll, Accounted
    <2> QED BY <1>2, <2>1, <2>2 DEF StartupSweep
  <1>3. ASSUME NEW r \in Runs, RecoverUnusable(r)
        PROVE  Accounted(q)
    <2>1. status'[q] = status[q] \/ q = r
      BY <1>0, <1>3 DEF RecoverUnusable, Finish, catalogVars, durableVars, TypeOK
    <2> QED BY <1>3, <2>1 DEF RecoverUnusable, DiscardAll, Accounted
  <1>4. ASSUME NEW r \in Runs, RecoverSuperseded(r)
        PROVE  Accounted(q)
    BY <1>4 DEF RecoverSuperseded, DiscardAll, catalogVars, durableVars, Accounted
  <1>5. ASSUME NEW r \in Runs, RecoverArm(r)
        PROVE  Accounted(q)
    BY <1>5 DEF RecoverArm, Resume, SelectPrepared, SelectAs, recordVars, Accounted
  <1>6. CASE RecoverDone
    BY <1>6 DEF RecoverDone, catalogVars, durableVars, recordVars, Accounted
  <1>7. ASSUME NEW r \in Runs, SpoilRecord(r)
        PROVE  Accounted(q)
    <2>1. status[r] # "absent"
      BY <1>7 DEF SpoilRecord, Loads, RecordStates, TerminalStatuses, RecordInv,
                  AbsentHaveNoRecord
    <2> QED BY <1>0, <1>7, <2>1
            DEF SpoilRecord, catalogVars, durableVars, RecordTypeOK, Accounted
  <1> QED BY <1>1, <1>2, <1>3, <1>4, <1>5, <1>6, <1>7 DEF Recovery

LEMMA CrashesAccount ==
    ASSUME LifecycleInv, LeaseInv, Crashes, NEW q \in Runs
    PROVE  Accounted(q)
  <1>0. TypeOK /\ RecordTypeOK
    BY DEF LifecycleInv, LifecycleTypeOK, RecordTypeOK
  <1>1. CASE CrashAnywhere
    BY <1>1 DEF CrashAnywhere, Crash, durableVars, recordVars, Accounted
  <1>2. ASSUME NEW o \in Owners, NEW c \in Channels, NEW r \in Runs,
               CrashBeforeFirstSnapshot(o, c, r) \/ CrashInSelection(o, c, r)
        PROVE  Accounted(q)
    <2>1. \/ status' = [status EXCEPT ![r] = "active"]
          \/ status' = [status EXCEPT ![r] = "prepared"]
      BY <1>2 DEF CrashBeforeFirstSnapshot, CrashInAcquire, Activate, CrashInSelection,
                  CrashInSelectPrepared
    <2>2. UNCHANGED recordVars
      BY <1>2 DEF CrashBeforeFirstSnapshot, CrashInSelection
    <2> QED BY <1>0, <2>1, <2>2 DEF TypeOK, recordVars, Accounted
  <1>3. ASSUME NEW c \in Channels, NEW s \in Outcomes, CrashInRelease(c, s)
        PROVE  Accounted(q)
    <2>1. status[lease[c].run] = "active"
      BY <1>3 DEF CrashInRelease, LeaseInv, LeasesMatchCatalog
    <2>2. status' = status
      BY <1>3 DEF CrashInRelease, Crash, durableVars
    <2>3. q # lease[c].run => record'[q] = record[q] /\ (q \in unwritten => q \in unwritten')
      BY <1>0, <1>3 DEF CrashInRelease, Write, RecordTypeOK
    <2> QED BY <2>1, <2>2, <2>3 DEF Accounted
  <1>4. ASSUME NEW r \in Runs, CrashInStartup(r)
        PROVE  Accounted(q)
    BY <1>0, <1>4 DEF CrashInStartup, CrashInScan, recordVars, TypeOK, Accounted
  <1> QED BY <1>1, <1>2, <1>3, <1>4 DEF Crashes

LEMMA RecordStep ==
    LifecycleInv /\ LeaseInv /\ RecordInv /\ [LifecycleNext]_vars => RecordInv'
  <1> SUFFICES ASSUME LifecycleInv, LeaseInv, RecordInv, [LifecycleNext]_vars
               PROVE  RecordInv'
    OBVIOUS
  <1>1. ASSUME NEW q \in Runs PROVE Accounted(q)
    <2>1. CASE UNCHANGED vars
      BY <2>1 DEF vars, catalogVars, durableVars, recordVars, Accounted
    <2>2. CASE LifecycleNext
      BY <2>2, CommandsAccount, GoalAccounts, RunnerAccounts, StartupAccounts, CrashesAccount
         DEF LifecycleNext
    <2> QED BY <2>1, <2>2
  <1> QED BY <1>1, RecordsKept

-----------------------------------------------------------------------------
(* Startup.                                                                *)

(* Records are ordered by their writes, and no !clear waits for Discord    *)
(* while the bot starts.                                                   *)
StartupInv ==
    /\ Asymmetric(recOlder)
    /\ boot # "ready" => \A k \in Keys : reserved[k] = None

(* What a step may do to the order of the records.                         *)
OrderKept ==
    \/ \E r \in Runs : \E s : Write(r, s)
    \/ \E S : DiscardAll(S)
    \/ recOlder' = recOlder

LEMMA TriesKeepOrder ==
    ASSUME NEW r \in Runs, NEW s, TryWrite(r, s)
    PROVE  OrderKept
  BY DEF TryWrite, FailWrite, OrderKept, recordVars

LEMMA CommandsKeepOrder ==
    ASSUME NEW o \in Owners, NEW c \in Channels, Commands(o, c)
    PROVE  OrderKept
  <1>1. ASSUME NEW r \in Runs,
               Reset(o, c, r) \/ ResumeRun(o, c, r) \/ RewindRun(o, c, r) \/ DeleteRun(o, c, r)
        PROVE  OrderKept
    BY <1>1 DEF Reset, ClearChannelState, ResumeRun, RewindRun, DeleteRun, recordVars, OrderKept
  <1>2. ASSUME NEW source \in Runs, NEW r \in Runs,
               \/ ForkRun(o, c, source, r)
               \/ ForkFails(o, c, source, r)
               \/ HandoverRun(o, c, source, r)
        PROVE  OrderKept
    BY <1>2 DEF ForkRun, ForkFails, HandoverRun, recordVars, OrderKept
  <1>3. ASSUME NEW t \in Tokens, ClearBegin(o, c, t) \/ ClearFail(o, c, t)
        PROVE  OrderKept
    BY <1>3 DEF ClearBegin, ClearFail, recordVars, OrderKept
  <1>4. ASSUME NEW t \in Tokens, NEW r \in Runs, ClearEnd(o, c, t, r)
        PROVE  OrderKept
    BY <1>4 DEF ClearEnd, ClearChannelState, OrderKept
  <1> QED BY <1>1, <1>2, <1>3, <1>4 DEF Commands

LEMMA StepKeepsOrder ==
    ASSUME LifecycleTypeOK, [LifecycleNext]_vars
    PROVE  OrderKept
  <1>1. ASSUME NEW o \in Owners, NEW c \in Channels, NEW r \in Runs, Goal(o, c, r)
        PROVE  OrderKept
    BY <1>1, TriesKeepOrder
       DEF Goal, RestoredGoal, DirectGoal, FreshGoal, recordVars, OrderKept
  <1>2. ASSUME NEW c \in Channels, Runner(c)
        PROVE  OrderKept
    <2>1. lease[c].run \in Runs
      BY <1>2, LeaseType DEF Runner, BeginLoop, Snapshot, Release
    <2> QED
      BY <1>2, <2>1, TriesKeepOrder
         DEF Runner, BeginLoop, Snapshot, Release, TryWrite, recordVars, OrderKept
  <1>3. CASE StartupScan \/ StartupSweep \/ Recovery \/ \E r \in Runs : SpoilRecord(r)
    BY <1>3 DEF StartupScan, StartupSweep, Recovery, RecoverUnusable, RecoverSuperseded,
                RecoverArm, RecoverDone, SpoilRecord, recordVars, OrderKept
  <1>4. CASE Crashes
    <2>1. ASSUME NEW c \in Channels, NEW s \in Outcomes, CrashInRelease(c, s)
          PROVE  OrderKept
      BY <2>1, LeaseType DEF CrashInRelease, OrderKept
    <2> QED BY <1>4, <2>1 DEF Crashes, CrashAnywhere, CrashBeforeFirstSnapshot,
                              CrashInSelection, CrashInStartup, recordVars, OrderKept
  <1>5. CASE UNCHANGED vars
    BY <1>5 DEF vars, recordVars, OrderKept
  <1> QED BY <1>1, <1>2, <1>3, <1>4, <1>5, CommandsKeepOrder DEF LifecycleNext

LEMMA OrderStaysAsymmetric ==
    ASSUME Asymmetric(recOlder), OrderKept
    PROVE  Asymmetric(recOlder)'
  <1>1. ASSUME NEW r \in Runs, NEW s, Write(r, s)
        PROVE  Asymmetric(recOlder)'
    BY <1>1 DEF Write, Asymmetric
  <1>2. ASSUME NEW S, DiscardAll(S)
        PROVE  Asymmetric(recOlder)'
    BY <1>2 DEF DiscardAll, Asymmetric
  <1> QED BY <1>1, <1>2 DEF OrderKept, Asymmetric

(* Whoever acts on a reservation or with a lease acts in a ready bot.      *)
LEMMA OnlyStartupActs ==
    ASSUME LifecycleTypeOK, LeaseInv, StartupInv, boot # "ready", LifecycleNext
    PROVE  \/ StartupScan \/ StartupSweep \/ Recovery \/ Crashes
           \/ \E r \in Runs : SpoilRecord(r)
  <1>1. ASSUME NEW o \in Owners, NEW c \in Channels
        PROVE  ~Commands(o, c) /\ \A r \in Runs : ~Goal(o, c, r)
    <2>1. \A t \in Tokens : reserved[<<o, c>>] # t
      BY NoneAssumption DEF StartupInv, Keys
    <2>2. \A t \in Tokens : ~ClearFail(o, c, t) /\ \A r \in Runs : ~ClearEnd(o, c, t, r)
      BY <2>1 DEF ClearFail, CancelReset, ClearEnd, PrepareReserved
    <2> QED
      BY <2>2 DEF Commands, Reset, ResumeRun, RewindRun, DeleteRun, ForkRun, ForkFails,
                  HandoverRun, ClearBegin, Goal
  <1>2. ASSUME NEW c \in Channels PROVE ~Runner(c)
    BY DEF LeaseInv, Live, Runner, BeginLoop, Snapshot, Release
  <1> QED BY <1>1, <1>2 DEF LifecycleNext

LEMMA StartupStep ==
    LifecycleInv /\ LeaseInv /\ StartupInv /\ [LifecycleNext]_vars => StartupInv'
  <1> SUFFICES ASSUME LifecycleInv, LeaseInv, StartupInv, [LifecycleNext]_vars
               PROVE  StartupInv'
    OBVIOUS
  <1>1. Asymmetric(recOlder)'
    BY StepKeepsOrder, OrderStaysAsymmetric DEF LifecycleInv, StartupInv
  <1>2. ASSUME boot' # "ready" PROVE \A k \in Keys : reserved'[k] = None
    <2>1. CASE UNCHANGED vars
      BY <1>2, <2>1 DEF vars, processVars, catalogVars, memoryVars, StartupInv
    <2>2. CASE Crashes
      <3>1. ASSUME NEW r \in Runs, CrashInStartup(r)
            PROVE  \A k \in Keys : reserved'[k] = None
        BY <3>1 DEF CrashInStartup, CrashInScan, memoryVars, StartupInv
      <3> QED
        BY <2>2, <3>1
           DEF Crashes, CrashAnywhere, CrashBeforeFirstSnapshot, CrashInSelection,
               CrashInRelease, Crash, CrashInAcquire, CrashInSelectPrepared, Forget
    <2>3. CASE StartupScan
      BY <2>3 DEF StartupScan, Scan
    <2>4. CASE StartupSweep
      BY <2>4 DEF StartupSweep, SweepRetention, catalogVars, memoryVars, StartupInv
    <2>5. CASE Recovery
      BY <2>5 DEF Recovery, RecoverUnusable, RecoverSuperseded, RecoverArm, RecoverDone,
                  Resume, Finish, catalogVars, memoryVars, StartupInv
    <2>6. CASE \E r \in Runs : SpoilRecord(r)
      BY <2>6 DEF SpoilRecord, catalogVars, memoryVars, StartupInv
    <2>7. CASE LifecycleNext /\ boot = "ready"
      <3>1. ASSUME NEW o \in Owners, NEW c \in Channels,
                   Commands(o, c) \/ \E r \in Runs : Goal(o, c, r)
            PROVE  boot' = boot
        BY <3>1, CommandsKeepActive DEF LifecycleInv, Goal
      <3>2. ASSUME NEW c \in Channels, Runner(c)
            PROVE  boot' = boot
        BY <3>2 DEF Runner, BeginLoop, Snapshot, Release, processVars
      <3> QED BY <1>2, <2>7, <2>2, <3>1, <3>2
              DEF LifecycleNext, StartupScan, StartupSweep, Recovery, RecoverUnusable,
                  RecoverSuperseded, RecoverArm, RecoverDone, SpoilRecord
    <2> QED BY <2>1, <2>2, <2>3, <2>4, <2>5, <2>6, <2>7, OnlyStartupActs DEF LifecycleInv
  <1> QED BY <1>1, <1>2 DEF StartupInv

-----------------------------------------------------------------------------
(* What holds of the whole bot at every instant.                           *)

SafetyInv == LifecycleInv /\ LeaseInv /\ LiveRunOwnsMemory /\ RecordInv /\ StartupInv

LEMMA SafetyInvariant == LifecycleSpec => []SafetyInv
  <1>1. LifecycleInit => LifecycleInv
    <2>1. LifecycleInit => CatalogInv
      BY InitCatalogInv DEF LifecycleInit
    <2> QED BY <2>1 DEF LifecycleInit, CatalogInv, LifecycleTypeOK, LifecycleInv
  <1>2. LifecycleInit => LeaseInv /\ LiveRunOwnsMemory /\ RecordInv /\ StartupInv
    BY DEF LifecycleInit, Init, LeaseInv, LeasesMatchCatalog, Live, LiveRunOwnsMemory,
           RecordInv, AbsentHaveNoRecord, EndedRunsAreTerminated, StartupInv, Asymmetric
  <1>3. LifecycleInit => SafetyInv
    BY <1>1, <1>2 DEF SafetyInv
  <1>4. SafetyInv /\ [LifecycleNext]_vars => SafetyInv'
    BY LifecycleStep, LeaseStep, MemoryStep, RecordStep, StartupStep DEF SafetyInv
  <1> QED BY <1>3, <1>4, PTL DEF LifecycleSpec

(* The leases of the bot and the statuses of the catalog always agree: a   *)
(* channel executes one run, and a run executes where its owner can stop   *)
(* it.                                                                     *)
THEOREM LeaseSafety == LifecycleSpec => []LeasesMatchCatalog
  BY SafetyInvariant, PTL DEF SafetyInv, LeaseInv

(* No command replaces the memory a live run works on.                     *)
THEOREM MemorySafety == LifecycleSpec => []LiveRunOwnsMemory
  BY SafetyInvariant, PTL DEF SafetyInv

(* Recovery never finds a run that ended by itself with a running record,  *)
(* unless the write that ended it failed.                                  *)
THEOREM EndingSafety == LifecycleSpec => []EndedRunsAreTerminated
  BY SafetyInvariant, PTL DEF SafetyInv, RecordInv

-----------------------------------------------------------------------------
(* The record of a live run.                                               *)

Untouched(c) ==
    Live(c) /\ lease[c].phase = "loop" /\ lease'[c] = lease[c]
        => (record[lease[c].run] = "running" => record'[lease[c].run] = "running")

LEMMA CommandsSpareRecords ==
    ASSUME LifecycleInv, LeaseInv, NEW o \in Owners, NEW c \in Channels, Commands(o, c),
           NEW d \in Channels, Live(d)
    PROVE  record'[lease[d].run] = record[lease[d].run]
  <1> DEFINE live == lease[d].run
  <1>0. TypeOK /\ RecordTypeOK /\ LifecycleTypeOK
    BY DEF LifecycleInv, LifecycleTypeOK, RecordTypeOK
  <1>1. live \in Runs /\ status[live] = "active" /\ channel[live] = d
    BY <1>0, LeaseType DEF LeaseInv, LeasesMatchCatalog, KeyOf
  <1>2. channel'[live] = d
    BY <1>0, <1>1, CommandsKeepActive DEF ActiveKept
  <1>3. ASSUME ResetAllowed(o, c) PROVE d # c
    BY <1>1, <1>3 DEF ResetAllowed
  <1>4. ASSUME NEW t \in Tokens, reserved[<<o, c>>] = t PROVE d # c
    BY <1>1, <1>4, NoneAssumption
       DEF LifecycleInv, CatalogInv, ReservationExcludesActive, Keys
  <1>5. d # c /\ ClearChannelState(c) => record'[live] = record[live]
    BY <1>1, <1>2 DEF ClearChannelState, DiscardAll
  <1>6. \A r \in Runs : \A s : r # live /\ Write(r, s) => record'[live] = record[live]
    BY <1>0, <1>1 DEF Write, RecordTypeOK
  <1>7. ASSUME NEW r \in Runs,
               Reset(o, c, r) \/ ResumeRun(o, c, r) \/ RewindRun(o, c, r) \/ DeleteRun(o, c, r)
        PROVE  record'[live] = record[live]
    BY <1>1, <1>3, <1>5, <1>6, <1>7
       DEF Reset, Prepare, MayPrepare, ResumeRun, RewindRun, Resume, DeleteRun, Delete,
           Inactive, DiscardAll, recordVars
  <1>8. ASSUME NEW source \in Runs, NEW r \in Runs,
               \/ ForkRun(o, c, source, r)
               \/ ForkFails(o, c, source, r)
               \/ HandoverRun(o, c, source, r)
        PROVE  record'[live] = record[live]
    BY <1>1, <1>6, <1>8
       DEF ForkRun, ForkFails, HandoverRun, Prepare, MayPrepare, recordVars
  <1>9. ASSUME NEW t \in Tokens, ClearBegin(o, c, t) \/ ClearFail(o, c, t)
        PROVE  record'[live] = record[live]
    BY <1>9 DEF ClearBegin, ClearFail, recordVars
  <1>10. ASSUME NEW t \in Tokens, NEW r \in Runs, ClearEnd(o, c, t, r)
         PROVE  record'[live] = record[live]
    BY <1>4, <1>5, <1>10 DEF ClearEnd, PrepareReserved
  <1> QED BY <1>7, <1>8, <1>9, <1>10 DEF Commands

(* From the first snapshot of a loop on, no command and no other channel's *)
(* run discards or rewrites its record, so that a crash is recoverable.    *)
THEOREM RecordSafety == LifecycleSpec => LiveRecordUntouched
  <1>1. ASSUME SafetyInv, [LifecycleNext]_vars, NEW c \in Channels
        PROVE  Untouched(c)
    <2> SUFFICES ASSUME Live(c), lease'[c] = lease[c], record[lease[c].run] = "running"
                 PROVE  record'[lease[c].run] = "running"
      BY DEF Untouched
    <2> DEFINE live == lease[c].run
    <2>0. /\ LifecycleInv /\ LeaseInv /\ LifecycleTypeOK /\ RecordTypeOK
          /\ boot = "ready" /\ lease'[c] # None
      BY <1>1 DEF SafetyInv, LifecycleInv, LifecycleTypeOK, RecordTypeOK, LeaseInv, Live
    <2>1. live \in Runs /\ status[live] = "active" /\ channel[live] = c
      BY <2>0, LeaseType DEF LeaseInv, LeasesMatchCatalog, KeyOf
    <2>2. \A r \in Runs : \A s : (r # live \/ s = "running") /\ TryWrite(r, s)
             => record'[live] = "running"
      BY <2>0, <2>1 DEF TryWrite, FailWrite, Write, recordVars, RecordTypeOK
    <2>3. ASSUME NEW o \in Owners, NEW d \in Channels, Commands(o, d)
          PROVE  record'[live] = "running"
      BY <2>0, <2>3, CommandsSpareRecords
    <2>4. ASSUME NEW o \in Owners, NEW d \in Channels, NEW r \in Runs, Goal(o, d, r)
          PROVE  record'[live] = "running"
      BY <2>0, <2>2, <2>4, GoalLeases
         DEF Goal, RestoredGoal, DirectGoal, FreshGoal, recordVars
    <2>5. ASSUME NEW d \in Channels, Runner(d)
          PROVE  record'[live] = "running"
      <3>1. lease[d].run \in Runs
        BY <2>0, <2>5, LeaseType DEF Runner, BeginLoop, Snapshot, Release
      <3>2. CASE BeginLoop(d) \/ Snapshot(d)
        BY <2>2, <3>1, <3>2 DEF BeginLoop, Snapshot, TryWrite
      <3>3. ASSUME NEW s \in Outcomes \cup {"interrupted"}, Release(d, s)
            PROVE  record'[live] = "running"
        <4>1. d # c
          BY <2>0, <3>3 DEF Release, LifecycleTypeOK
        <4>2. lease[d].run # live
          BY <2>0, <2>1, <3>3, <4>1 DEF Release, LeaseInv, LeasesMatchCatalog, KeyOf
        <4> QED BY <2>2, <3>1, <3>3, <4>2 DEF Release, recordVars
      <3> QED BY <2>5, <3>2, <3>3 DEF Runner
    <2>6. ~(StartupScan \/ StartupSweep \/ Recovery \/ \E r \in Runs : SpoilRecord(r))
      BY <2>0 DEF StartupScan, StartupSweep, Recovery, RecoverUnusable, RecoverSuperseded,
                  RecoverArm, RecoverDone, SpoilRecord
    <2>7. ~Crashes
      BY <2>0 DEF Crashes, CrashAnywhere, CrashBeforeFirstSnapshot, CrashInSelection,
                  CrashInRelease, CrashInStartup, ForgetProcess
    <2>8. CASE UNCHANGED vars
      BY <2>8 DEF vars, recordVars
    <2> QED BY <1>1, <2>3, <2>4, <2>5, <2>6, <2>7, <2>8 DEF LifecycleNext
  <1>2. SafetyInv /\ [LifecycleNext]_vars => [\A c \in Channels : Untouched(c)]_vars
    BY <1>1
  <1> QED
    BY <1>2, SafetyInvariant, PTL DEF LifecycleSpec, LiveRecordUntouched, Untouched

-----------------------------------------------------------------------------
(* Recovery.                                                               *)

(* Discarding a record of which no run depends leaves every other record,  *)
(* and who recovers, as it was; the run itself is settled.                 *)
LEMMA DiscardSettles ==
    ASSUME SafetyInv, NEW r \in Runs, DiscardAll({r}),
           UNCHANGED <<owner, channel, selected>>,
           \A q \in Runs : q # r => status'[q] = status[q],
           status'[r] # "absent" <=> status[r] # "absent",
           r \in Unusable \cup Superseded
    PROVE  Unsettled' \subseteq Unsettled /\ Unsettled' # Unsettled
  <1>1. record'[r] = "none" /\ \A q \in Runs : q # r => record'[q] = record[q]
    BY DEF DiscardAll
  <1>2. r \in Unsettled /\ r \notin Unsettled'
    BY <1>1 DEF Unsettled, Unusable, Superseded, Unterminated
  <1>3. Unusable' = Unusable \ {r} /\ Unterminated' = Unterminated \ {r}
    BY <1>1 DEF Unusable, Unterminated, Known
  <1>4. ASSUME NEW q \in Unterminated', Recovers(q)
        PROVE  Recovers(q)'
    BY <1>3, <1>4 DEF Recovers, DiscardAll, KeyOf
  <1>5. ASSUME NEW q \in Unterminated', Armed(q)
        PROVE  Armed(q)'
    BY <1>3, <1>5 DEF Armed, KeyOf, Unterminated, Known
  <1>6. Unsettled' \subseteq Unsettled
    BY <1>3, <1>4, <1>5 DEF Unsettled
  <1> QED BY <1>2, <1>6

(* Two runs of one key never both recover, so making one of them the       *)
(* selection of its key takes no other candidate's place.                  *)
LEMMA ArmSettles ==
    ASSUME SafetyInv, NEW r \in Runs, RecoverArm(r)
    PROVE  Unsettled' \subseteq Unsettled /\ Unsettled' # Unsettled
  <1> DEFINE o == owner[r]
  <1> DEFINE c == channel[r]
  <1>0. TypeOK
    BY DEF SafetyInv, LifecycleInv, LifecycleTypeOK
  <1>1. Recovers(r) /\ ~Armed(r) /\ r \in Unterminated /\ status[r] # "absent"
    BY DEF RecoverArm, Recovers, Unterminated, Known
  <1>2. o \in Owners /\ c \in Channels /\ <<o, c>> \in Keys /\ KeyOf(r) = <<o, c>>
    BY <1>1 DEF SafetyInv, LifecycleInv, CatalogInv, KnownHaveKeys, KeyOf, Keys
  <1>3. SelectAs(o, c, r, "prepared") /\ UNCHANGED recordVars
    BY DEF RecoverArm, Resume, SelectPrepared
  <1>4. \A q \in Runs : owner'[q] = owner[q] /\ channel'[q] = channel[q] /\ KeyOf(q)' = KeyOf(q)
    BY <1>0, <1>3 DEF SelectAs, TypeOK, KeyOf
  <1>5. \A q \in Runs : status'[q] # "absent" <=> status[q] # "absent"
    BY <1>0, <1>1, <1>3 DEF SelectAs, TypeOK, Displaced
  <1>6. Unusable' = Unusable /\ Unterminated' = Unterminated
    BY <1>3, <1>5 DEF recordVars, Unusable, Unterminated, Known
  <1>7. \A q \in Unterminated : Recovers(q)' <=> Recovers(q)
    BY <1>3, <1>4, <1>6 DEF Recovers, recordVars, Unterminated, Known
  <1>8. Armed(r)'
    BY <1>2, <1>3, <1>4 DEF Armed, SelectAs
  <1>9. ASSUME NEW q \in Unterminated, Recovers(q), Armed(q)
        PROVE  Armed(q)'
    <2>1. q \in Runs /\ q # r
      BY <1>1, <1>9 DEF Unterminated, Known
    <2>2. KeyOf(q) # KeyOf(r)
      BY <1>1, <1>9, <2>1
         DEF Recovers, Unterminated, Known, SafetyInv, StartupInv, Asymmetric
    <2>3. KeyOf(q) \in Keys
      BY <1>9 DEF Unterminated, Known, SafetyInv, LifecycleInv, CatalogInv, KnownHaveKeys
    <2>4. selected[KeyOf(q)] = q /\ status[q] = "prepared"
      BY <1>9 DEF Armed
    <2>5. q \notin Displaced(o, c, r)
      <3>1. ASSUME selected[<<o, c>>] = q PROVE FALSE
        <4>1. q # None
          BY <2>1, NoneAssumption
        <4>2. KeyOf(q) = <<o, c>>
          BY <1>2, <3>1, <4>1 DEF SafetyInv, LifecycleInv, CatalogInv, SelectionsAreOwn
        <4> QED BY <1>2, <2>2, <4>2
      <3> QED BY <3>1 DEF Displaced
    <2>6. status'[q] = "prepared"
      BY <1>3, <2>1, <2>4, <2>5 DEF SelectAs
    <2>7. selected'[KeyOf(q)] = q
      BY <1>2, <1>3, <2>1, <2>2, <2>3, <2>4 DEF SelectAs
    <2> QED BY <1>4, <2>1, <2>6, <2>7 DEF Armed
  <1>10. Unsettled' \subseteq Unsettled
    BY <1>6, <1>7, <1>9 DEF Unsettled
  <1>11. r \in Unsettled /\ r \notin Unsettled'
    <2>1. r \notin Unusable
      BY <1>1 DEF Unusable, Unterminated
    <2> QED BY <1>1, <1>6, <1>7, <1>8, <2>1 DEF Unsettled
  <1> QED BY <1>10, <1>11

(* Recovery takes at most one step for each run and leaves nothing behind: *)
(* whatever a crash, a failed write or another deployment left on disk,    *)
(* and in whatever order the records are met.                              *)
THEOREM StartupSafety == LifecycleSpec => StartupSettles
  <1> DEFINE Settles ==
         boot = "swept"
             => /\ boot' = "swept" => Unsettled' \subseteq Unsettled /\ Unsettled' # Unsettled
                /\ boot' = "ready" => \A r \in Runs : Settled(r)'
  <1>1. ASSUME SafetyInv, LifecycleNext
        PROVE  Settles
    <2> SUFFICES ASSUME boot = "swept" PROVE Settles
      OBVIOUS
    <2>1. ASSUME NEW r \in Runs, RecoverUnusable(r)
          PROVE  Settles
      <3>1. /\ UNCHANGED <<owner, channel, selected>>
            /\ \A q \in Runs : q # r => status'[q] = status[q]
            /\ status'[r] # "absent" <=> status[r] # "absent"
        BY <1>1, <2>1 DEF RecoverUnusable, Finish, memoryVars, catalogVars, durableVars,
                    SafetyInv, LifecycleInv, LifecycleTypeOK, TypeOK
      <3>2. DiscardAll({r}) /\ r \in Unusable \cup Superseded /\ boot' = "swept"
        BY <2>1 DEF RecoverUnusable, processVars
      <3> QED BY <1>1, <3>1, <3>2, DiscardSettles
    <2>2. ASSUME NEW r \in Runs, RecoverSuperseded(r)
          PROVE  Settles
      <3>1. /\ DiscardAll({r}) /\ r \in Unusable \cup Superseded /\ boot' = "swept"
            /\ UNCHANGED <<status, owner, channel, selected>>
        BY <2>2 DEF RecoverSuperseded, processVars, catalogVars, durableVars, memoryVars
      <3> QED BY <1>1, <3>1, DiscardSettles
    <2>3. ASSUME NEW r \in Runs, RecoverArm(r)
          PROVE  Settles
      BY <1>1, <2>3, ArmSettles DEF RecoverArm, processVars
    <2>4. CASE RecoverDone
      <3>1. boot' = "ready" /\ UNCHANGED <<status, owner, channel, selected, record>>
        BY <2>4 DEF RecoverDone, catalogVars, durableVars, memoryVars, recordVars
      <3>2. ASSUME NEW r \in Runs, record[r] = "running"
            PROVE  Armed(r)
        <4>1. r \in Unterminated
          BY <1>1, <3>2 DEF Unterminated, Known, SafetyInv, RecordInv, AbsentHaveNoRecord
        <4> QED BY <2>4, <4>1 DEF RecoverDone, FirstPassDone, Superseded
      <3> QED BY <3>1, <3>2 DEF Settled, Armed, KeyOf
    <2>5. CASE Crashes
      BY <1>1, <2>5, CrashesForget DEF SafetyInv
    <2>6. ~StartupScan /\ ~StartupSweep /\ \A r \in Runs : ~SpoilRecord(r)
      BY DEF StartupScan, StartupSweep, SpoilRecord
    <2>7. Recovery \/ Crashes
      BY <1>1, <2>6, OnlyStartupActs DEF SafetyInv, LifecycleInv
    <2> QED BY <2>1, <2>2, <2>3, <2>4, <2>5, <2>7 DEF Recovery
  <1>2. SafetyInv /\ [LifecycleNext]_vars => [Settles]_vars
    BY <1>1
  <1> QED
    BY <1>2, SafetyInvariant, PTL DEF LifecycleSpec, StartupSettles
=============================================================================
