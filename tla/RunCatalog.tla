----------------------------- MODULE RunCatalog -----------------------------
(***************************************************************************)
(* RunCatalog (run_workspace.py): the filesystem catalog of runs.          *)
(*                                                                         *)
(* A run is a directory with a run.json (owner, channel, status and the    *)
(* time of the last change).  The catalog object keeps, in memory only,    *)
(* which prepared run each (owner, channel) key consumes next, and the     *)
(* keys a !clear has reserved while Discord deletes messages.  Every       *)
(* method runs under one lock, so it is one action; a crash forgets the    *)
(* memory and __init__ rebuilds it from the run.json files (Scan).         *)
(*                                                                         *)
(* A run id is 16 random bytes and is never reused.  Here an absent id     *)
(* stands for the next one drawn; a deleted run is absent again, which is  *)
(* sound because no state of the catalog names a deleted run.              *)
(***************************************************************************)
EXTENDS FiniteSets

CONSTANTS
    Owners,     \* Discord users
    Channels,   \* Discord channels
    Runs,       \* run ids that may exist at the same time
    Tokens,     \* identities of the objects reserve_reset() returns
    None        \* no run, no owner, no channel, no token

TerminalStatuses == {"completed", "stopped", "exhausted", "failed", "interrupted"}
ResumableStatuses == TerminalStatuses \ {"completed"}
Statuses == {"absent", "prepared", "active"} \cup TerminalStatuses

ASSUME NoneAssumption == None \notin Owners \cup Channels \cup Runs \cup Tokens

VARIABLES
    proc,       \* "up" while a catalog object exists, "down" after a crash
    status,     \* run.json: status, or "absent" when there is no directory
    owner,      \* run.json: owner_id
    channel,    \* run.json: channel_id
    older,      \* run.json: <<a, b>> when a's updated_at precedes b's
    selected,   \* memory: the run each (owner, channel) key consumes next
    reserved    \* memory: the token holding each reserved key

durableVars == <<status, owner, channel, older>>
memoryVars == <<selected, reserved>>
catalogVars == <<proc, durableVars, memoryVars>>

Keys == Owners \X Channels
KeyOf(r) == <<owner[r], channel[r]>>
Known == {r \in Runs : status[r] # "absent"}

TypeOK ==
    /\ proc \in {"up", "down"}
    /\ status \in [Runs -> Statuses]
    /\ owner \in [Runs -> Owners \cup {None}]
    /\ channel \in [Runs -> Channels \cup {None}]
    /\ older \subseteq Runs \X Runs
    /\ selected \in [Keys -> Runs \cup {None}]
    /\ reserved \in [Keys -> Tokens \cup {None}]

Init ==
    /\ proc = "up"
    /\ status = [r \in Runs |-> "absent"]
    /\ owner = [r \in Runs |-> None]
    /\ channel = [r \in Runs |-> None]
    /\ older = {}
    /\ selected = [k \in Keys |-> None]
    /\ reserved = [k \in Keys |-> None]

-----------------------------------------------------------------------------
(* The order of updated_at.                                                *)

(* The runs of S get the newest timestamps, in the order `within`. *)
TouchAll(order, S, within) ==
    {p \in order : p[1] \notin S /\ p[2] \notin S}
        \cup {<<a, b>> : a \in {q \in Runs : status[q] # "absent"} \ S, b \in S}
        \cup within

Touch(order, r) == TouchAll(order, {r}, {})

IsNewest(r, S) == r \in S /\ \A s \in S \ {r} : <<s, r>> \in older

OrdersOf(S) ==
    {w \in SUBSET (S \X S) :
        /\ \A a, b \in S : a # b => (<<a, b>> \in w <=> <<b, a>> \notin w)
        /\ \A a \in S : <<a, a>> \notin w
        /\ \A a, b, c \in S : <<a, b>> \in w /\ <<b, c>> \in w => <<a, c>> \in w}

-----------------------------------------------------------------------------
(* Reservations.                                                           *)

ResetConflictsOfOwner(o, c) == \E k \in Keys : reserved[k] # None /\ k[1] = o

ResetConflicts(o, c) ==
    \E k \in Keys : reserved[k] # None /\ (k[1] = o \/ k[2] = c)

ResetAllowedWhileActive(o, c) == ~ResetConflicts(o, c)

ResetAllowed(o, c) ==
    /\ ~ResetConflicts(o, c)
    /\ \A r \in Runs : status[r] = "active" => owner[r] # o /\ channel[r] # c

ReserveReset(o, c, t) ==
    /\ proc = "up"
    /\ \A k \in Keys : reserved[k] # t
    /\ ResetAllowed(o, c)
    /\ reserved' = [reserved EXCEPT ![<<o, c>>] = t]
    /\ UNCHANGED <<proc, durableVars, selected>>

CancelReset(o, c, t) ==
    /\ proc = "up"
    /\ reserved[<<o, c>>] = t
    /\ reserved' = [reserved EXCEPT ![<<o, c>>] = None]
    /\ UNCHANGED <<proc, durableVars, selected>>

-----------------------------------------------------------------------------
(* Selecting a prepared run.                                               *)

DisplacedNone(o, c, r) == {}

(* The prepared run that r pushes out of key <<o, c>>, as a set. *)
Displaced(o, c, r) ==
    {d \in Runs : d # r /\ selected[<<o, c>>] = d /\ status[d] = "prepared"}

(* r becomes the selection of <<o, c>> with status s. *)
SelectAs(o, c, r, s) ==
    LET gone == Displaced(o, c, r) IN
    /\ status' = [q \in Runs |-> IF q = r THEN s
                                 ELSE IF q \in gone THEN "interrupted"
                                 ELSE status[q]]
    /\ owner' = [owner EXCEPT ![r] = o]
    /\ channel' = [channel EXCEPT ![r] = c]
    /\ older' = TouchAll(older, {r} \cup gone,
                         {p \in ({r} \X gone) \cup (gone \X {r}) :
                             (p[1] = r) <=> (s = "prepared")})
    /\ selected' = [k \in Keys |-> IF k = <<o, c>> THEN r
                                   ELSE IF selected[k] = r THEN None
                                   ELSE selected[k]]

(* run.json of r is written first, then run.json of the displaced run. *)
SelectPrepared(o, c, r) == SelectAs(o, c, r, "prepared")

MayPrepareWhileActive(o, c, r) == status[r] = "absent"

MayPrepare(o, c, r) == status[r] = "absent" /\ ResetAllowed(o, c)

(* Used by !reset, !new, !handover and !fork. *)
Prepare(o, c, r) ==
    /\ proc = "up"
    /\ MayPrepare(o, c, r)
    /\ SelectPrepared(o, c, r)
    /\ UNCHANGED <<proc, reserved>>

(* A !fork that cannot save its record calls finish(workspace, "failed") on *)
(* the run it just prepared; the key still selects it.                      *)
PrepareThenFail(o, c, r) ==
    /\ proc = "up"
    /\ MayPrepare(o, c, r)
    /\ SelectAs(o, c, r, "failed")
    /\ UNCHANGED <<proc, reserved>>

(* The second half of !clear, after Discord deleted the messages. *)
PrepareReserved(o, c, t, r) ==
    /\ proc = "up"
    /\ status[r] = "absent"
    /\ reserved[<<o, c>>] = t
    /\ SelectPrepared(o, c, r)
    /\ reserved' = [reserved EXCEPT ![<<o, c>>] = None]
    /\ UNCHANGED proc

(* lookup_owned(o, r), not active *)
Inactive(o, r) == owner[r] = o /\ status[r] \notin {"absent", "active"}

Resume(o, c, r) ==
    /\ proc = "up"
    /\ Inactive(o, r)
    /\ SelectPrepared(o, c, r)
    /\ UNCHANGED <<proc, reserved>>

-----------------------------------------------------------------------------
(* Execution.                                                              *)

Activate(o, c, r) ==
    /\ status' = [status EXCEPT ![r] = "active"]
    /\ owner' = [owner EXCEPT ![r] = IF status[r] = "absent" THEN o ELSE @]
    /\ channel' = [channel EXCEPT ![r] = c]
    /\ older' = Touch(older, r)

(* The run acquire() returns: the selected prepared run, else the run to   *)
(* resume if it still qualifies, else a new one.  `candidate` is the       *)
(* resume_run_id of the call or None.                                      *)
IsSelectedPrepared(o, c, r) == selected[<<o, c>>] = r /\ status[r] = "prepared"
NothingPrepared(o, c) == \A r \in Runs : ~IsSelectedPrepared(o, c, r)
IsCandidate(o, c, r) == KeyOf(r) = <<o, c>> /\ status[r] \in ResumableStatuses

AcquiresCandidateFirst(o, c, candidate, r) ==
    \/ r = candidate /\ IsCandidate(o, c, r)
    \/ /\ candidate \in Runs => ~IsCandidate(o, c, candidate)
       /\ \/ IsSelectedPrepared(o, c, r)
          \/ NothingPrepared(o, c) /\ status[r] = "absent"

Acquires(o, c, candidate, r) ==
    \/ IsSelectedPrepared(o, c, r)
    \/ /\ NothingPrepared(o, c)
       /\ r = candidate
       /\ IsCandidate(o, c, r)
    \/ /\ NothingPrepared(o, c)
       /\ candidate \in Runs => ~IsCandidate(o, c, candidate)
       /\ status[r] = "absent"

Acquire(o, c, candidate, r) ==
    /\ proc = "up"
    /\ ~ResetConflicts(o, c)
    /\ Acquires(o, c, candidate, r)
    /\ Activate(o, c, r)
    /\ selected' = [selected EXCEPT ![<<o, c>>] = None]
    /\ UNCHANGED <<proc, reserved>>

Finish(r, s) ==
    /\ proc = "up"
    /\ status[r] # "absent"
    /\ status' = [status EXCEPT ![r] = s]
    /\ older' = Touch(older, r)
    /\ UNCHANGED <<proc, owner, channel, memoryVars>>

PurgeAllKeepSelected(S) ==
    /\ status' = [r \in Runs |-> IF r \in S THEN "absent" ELSE status[r]]
    /\ owner' = [r \in Runs |-> IF r \in S THEN None ELSE owner[r]]
    /\ channel' = [r \in Runs |-> IF r \in S THEN None ELSE channel[r]]
    /\ older' = {p \in older : p[1] \notin S /\ p[2] \notin S}
    /\ UNCHANGED selected

(* Deleting a set of runs: the directories and every selection of them. *)
PurgeAll(S) ==
    /\ status' = [r \in Runs |-> IF r \in S THEN "absent" ELSE status[r]]
    /\ owner' = [r \in Runs |-> IF r \in S THEN None ELSE owner[r]]
    /\ channel' = [r \in Runs |-> IF r \in S THEN None ELSE channel[r]]
    /\ older' = {p \in older : p[1] \notin S /\ p[2] \notin S}
    /\ selected' = [k \in Keys |-> IF selected[k] \in S THEN None ELSE selected[k]]

Delete(o, r) ==
    /\ proc = "up"
    /\ Inactive(o, r)
    /\ PurgeAll({r})
    /\ UNCHANGED <<proc, reserved>>

(* sweep_retention: the runs at least as old as some run, never an active  *)
(* or a prepared one.                                                      *)
Expired(limit) ==
    {r \in Runs : /\ status[r] \in TerminalStatuses
                  /\ r = limit \/ <<r, limit>> \in older}

SweepRetention(limit) ==
    /\ proc = "up"
    /\ Expired(limit) # {}
    /\ PurgeAll(Expired(limit))
    /\ UNCHANGED <<proc, reserved>>

-----------------------------------------------------------------------------
(* Crash and restart.                                                      *)

Forget ==
    /\ proc' = "down"
    /\ selected' = [k \in Keys |-> None]
    /\ reserved' = [k \in Keys |-> None]

Crash ==
    /\ proc = "up"
    /\ Forget
    /\ UNCHANGED durableVars

(* The process dies inside SelectPrepared after its first run.json write:  *)
(* the run it displaces is prepared too until Scan retires it.             *)
CrashInSelectPrepared(o, c, r) ==
    /\ proc = "up"
    /\ \/ MayPrepare(o, c, r)
       \/ status[r] = "absent" /\ reserved[<<o, c>>] # None
       \/ Inactive(o, r)
    /\ status' = [status EXCEPT ![r] = "prepared"]
    /\ owner' = [owner EXCEPT ![r] = o]
    /\ channel' = [channel EXCEPT ![r] = c]
    /\ older' = Touch(older, r)
    /\ Forget

(* The process dies after acquire() wrote run.json. *)
CrashInAcquire(o, c, candidate, r) ==
    /\ proc = "up"
    /\ ~ResetConflicts(o, c)
    /\ Acquires(o, c, candidate, r)
    /\ Activate(o, c, r)
    /\ Forget

(* The process dies inside _scan, which writes one run.json after the      *)
(* other: some of the runs left active are interrupted already.  A crash   *)
(* before it left at most one prepared run to displace, so that to die     *)
(* behind that write is Scan and then Crash.                               *)
CrashInScan(r) ==
    /\ proc = "down"
    /\ status[r] = "active"
    /\ status' = [status EXCEPT ![r] = "interrupted"]
    /\ older' = Touch(older, r)
    /\ UNCHANGED <<proc, owner, channel, memoryVars>>

LeftActiveKept == {}

LeftActive == {r \in Runs : status[r] = "active"}

(* _scan: a run left active becomes interrupted; the prepared runs are     *)
(* selected again, oldest first, so that the newest of each key stays.     *)
Scan ==
    LET ready == {r \in Runs : status[r] = "prepared"}
        OfKey(k) == {r \in ready : KeyOf(r) = k}
        winners == {r \in ready : IsNewest(r, OfKey(KeyOf(r)))}
        losers == ready \ winners
        remaining == {p \in older : p[1] \in losers /\ p[2] \in losers}
    IN
    /\ proc = "down"
    /\ proc' = "up"
    /\ status' = [r \in Runs |-> IF r \in LeftActive \cup losers THEN "interrupted"
                                 ELSE status[r]]
    /\ \E within \in OrdersOf(LeftActive) :
          older' = TouchAll(TouchAll(older, LeftActive, within), losers, remaining)
    /\ selected' = [k \in Keys |->
                       IF \E w \in winners : KeyOf(w) = k
                       THEN CHOOSE w \in winners : KeyOf(w) = k ELSE None]
    /\ reserved' = [k \in Keys |-> None]
    /\ UNCHANGED <<owner, channel>>

-----------------------------------------------------------------------------
(* Correctness.                                                            *)

(* While a !clear waits for Discord, neither its owner nor its channel has *)
(* a run executing, whichever order the calls came in: the memory and the  *)
(* records that the second half of !clear wipes belong to no live run.     *)
ReservationExcludesActive ==
    \A k \in Keys, r \in Runs :
        reserved[k] # None /\ status[r] = "active"
            => owner[r] # k[1] /\ channel[r] # k[2]

(* Every prepared run is what the next goal of its own owner and channel   *)
(* consumes: a prepared run cannot be stranded (the retention sweep would  *)
(* never take it), and two of them never wait for one key.                 *)
PreparedIsSelected ==
    proc = "up" => \A r \in Runs : status[r] = "prepared" => selected[KeyOf(r)] = r

(* A key never leads its user to a run that was deleted, that is somebody  *)
(* else's, or that was since moved to another channel.                     *)
SelectionsAreOwn ==
    \A k \in Keys :
        selected[k] # None => KeyOf(selected[k]) = k /\ status[selected[k]] # "absent"

(* A run that is executing is not deleted, swept, re-prepared or moved to  *)
(* another channel by any command; only its own end or a restart takes it  *)
(* out of "active".                                                        *)
ActiveIsUndisturbed ==
    [][\A r \in Runs :
          status[r] = "active"
              => /\ owner'[r] = owner[r]
                 /\ channel'[r] = channel[r]
                 /\ status'[r] \in {"active"} \cup TerminalStatuses]_catalogVars

-----------------------------------------------------------------------------
Next ==
    \/ \E o \in Owners, c \in Channels, t \in Tokens :
          ReserveReset(o, c, t) \/ CancelReset(o, c, t)
    \/ \E o \in Owners, c \in Channels, r \in Runs :
          \/ Prepare(o, c, r)
          \/ Resume(o, c, r)
          \/ CrashInSelectPrepared(o, c, r)
          \/ PrepareThenFail(o, c, r)
          \/ \E t \in Tokens : PrepareReserved(o, c, t, r)
          \/ \E candidate \in Runs \cup {None} :
                Acquire(o, c, candidate, r) \/ CrashInAcquire(o, c, candidate, r)
    \/ \E r \in Runs, s \in TerminalStatuses : Finish(r, s)
    \/ \E o \in Owners, r \in Runs : Delete(o, r)
    \/ \E limit \in Runs : SweepRetention(limit)
    \/ Crash
    \/ Scan
    \/ \E r \in Runs : CrashInScan(r)

Spec == Init /\ [][Next]_catalogVars

-----------------------------------------------------------------------------
(* The run that waits for a key, as run.json has it: the newest of those   *)
(* that are prepared for it.                                               *)
ReadyFor(k) == {r \in Runs : status[r] = "prepared" /\ KeyOf(r) = k}
Waiting(k) ==
    IF \E r \in Runs : IsNewest(r, ReadyFor(k))
    THEN CHOOSE r \in Runs : IsNewest(r, ReadyFor(k))
    ELSE None

Slots == INSTANCE KeySlots WITH
    slot <- [k \in Keys |-> Waiting(k)],
    running <- {r \in Runs : status[r] = "active"},
    up <- proc = "up"

(* What a user selected last is what the next goal of that user and that   *)
(* channel runs, whatever was selected, started, ended or deleted          *)
(* elsewhere and wherever the bot died in between: between the two writes  *)
(* of a selection, after a goal took it, or before startup read it back.   *)
SelectionsSurvive == Slots!SlotSpec
=============================================================================
