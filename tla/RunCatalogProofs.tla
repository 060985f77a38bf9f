-------------------------- MODULE RunCatalogProofs --------------------------
(***************************************************************************)
(* The safety of RunCatalog for every set of owners, channels, runs and    *)
(* tokens.  TypeOK is inductive alone; each of the other invariants is     *)
(* inductive together with TypeOK and, for PreparedIsSelected, with        *)
(* SelectionsAreOwn.                                                       *)
(***************************************************************************)
EXTENDS RunCatalog, TLAPS

LEMMA TouchAllType ==
    ASSUME NEW order \in SUBSET (Runs \X Runs), NEW S \in SUBSET Runs,
           NEW within \in SUBSET (Runs \X Runs)
    PROVE  TouchAll(order, S, within) \in SUBSET (Runs \X Runs)
  BY DEF TouchAll

LEMMA SelectAsType ==
    ASSUME TypeOK, NEW o \in Owners, NEW c \in Channels, NEW r \in Runs,
           NEW s \in Statuses, SelectAs(o, c, r, s)
    PROVE  /\ status' \in [Runs -> Statuses]
           /\ owner' \in [Runs -> Owners \cup {None}]
           /\ channel' \in [Runs -> Channels \cup {None}]
           /\ older' \subseteq Runs \X Runs
           /\ selected' \in [Keys -> Runs \cup {None}]
  <1> DEFINE gone == Displaced(o, c, r)
  <1> DEFINE within == {p \in ({r} \X gone) \cup (gone \X {r}) :
                             (p[1] = r) <=> (s = "prepared")}
  <1>1. gone \in SUBSET Runs
    BY DEF Displaced
  <1>2. within \in SUBSET (Runs \X Runs)
    BY <1>1
  <1>3. older' = TouchAll(older, {r} \cup gone, within)
    BY DEF SelectAs
  <1>4. older' \in SUBSET (Runs \X Runs)
    BY <1>1, <1>2, <1>3, TouchAllType DEF TypeOK
  <1>5. status' \in [Runs -> Statuses]
    BY DEF SelectAs, TypeOK, Statuses, TerminalStatuses
  <1>6. owner' \in [Runs -> Owners \cup {None}] /\ channel' \in [Runs -> Channels \cup {None}]
    BY DEF SelectAs, TypeOK
  <1>7. selected' \in [Keys -> Runs \cup {None}]
    BY DEF SelectAs, TypeOK
  <1> QED BY <1>4, <1>5, <1>6, <1>7
LEMMA ActivateType ==
    ASSUME TypeOK, NEW o \in Owners, NEW c \in Channels, NEW r \in Runs,
           Activate(o, c, r)
    PROVE  /\ status' \in [Runs -> Statuses]
           /\ owner' \in [Runs -> Owners \cup {None}]
           /\ channel' \in [Runs -> Channels \cup {None}]
           /\ older' \subseteq Runs \X Runs
  <1>1. older' \in SUBSET (Runs \X Runs)
    BY TouchAllType DEF Activate, Touch, TypeOK
  <1>2. status' \in [Runs -> Statuses]
    BY DEF Activate, TypeOK, Statuses
  <1>3. owner' \in [Runs -> Owners \cup {None}] /\ channel' \in [Runs -> Channels \cup {None}]
    BY DEF Activate, TypeOK
  <1> QED BY <1>1, <1>2, <1>3

LEMMA PurgeAllType ==
    ASSUME TypeOK, NEW S \in SUBSET Runs, PurgeAll(S)
    PROVE  /\ status' \in [Runs -> Statuses]
           /\ owner' \in [Runs -> Owners \cup {None}]
           /\ channel' \in [Runs -> Channels \cup {None}]
           /\ older' \subseteq Runs \X Runs
           /\ selected' \in [Keys -> Runs \cup {None}]
  BY DEF PurgeAll, TypeOK, Statuses

(* The values the variables of the catalog take are those of the code.     *)
LEMMA TypeStep == TypeOK /\ [Next]_catalogVars => TypeOK'
  <1> SUFFICES ASSUME TypeOK, [Next]_catalogVars PROVE TypeOK'
    OBVIOUS
  <1>1. ASSUME NEW o \in Owners, NEW c \in Channels, NEW t \in Tokens,
               ReserveReset(o, c, t) \/ CancelReset(o, c, t)
        PROVE  TypeOK'
    BY <1>1 DEF ReserveReset, CancelReset, TypeOK, durableVars, Keys
  <1>2. ASSUME NEW o \in Owners, NEW c \in Channels, NEW r \in Runs,
               Prepare(o, c, r) \/ PrepareThenFail(o, c, r) \/ Resume(o, c, r)
        PROVE  TypeOK'
    <2>1. PICK s \in Statuses : SelectAs(o, c, r, s)
      BY <1>2 DEF Prepare, PrepareThenFail, Resume, SelectPrepared, Statuses, TerminalStatuses
    <2>2. proc' = proc /\ reserved' = reserved
      BY <1>2 DEF Prepare, PrepareThenFail, Resume
    <2> QED BY <2>1, <2>2, SelectAsType DEF TypeOK
  <1>3. ASSUME NEW o \in Owners, NEW c \in Channels, NEW r \in Runs, NEW t \in Tokens,
               PrepareReserved(o, c, t, r)
        PROVE  TypeOK'
    <2>1. SelectAs(o, c, r, "prepared") /\ "prepared" \in Statuses
      BY <1>3 DEF PrepareReserved, SelectPrepared, Statuses
    <2>2. proc' = proc /\ reserved' \in [Keys -> Tokens \cup {None}]
      BY <1>3 DEF PrepareReserved, TypeOK
    <2> QED BY <2>1, <2>2, SelectAsType DEF TypeOK
  <1>4. ASSUME NEW o \in Owners, NEW c \in Channels, NEW r \in Runs,
               NEW candidate \in Runs \cup {None},
               Acquire(o, c, candidate, r) \/ CrashInAcquire(o, c, candidate, r)
        PROVE  TypeOK'
    <2>1. Activate(o, c, r)
      BY <1>4 DEF Acquire, CrashInAcquire
    <2>2. /\ proc' \in {"up", "down"}
          /\ selected' \in [Keys -> Runs \cup {None}]
          /\ reserved' \in [Keys -> Tokens \cup {None}]
      BY <1>4 DEF Acquire, CrashInAcquire, Forget, TypeOK
    <2> QED BY <2>1, <2>2, ActivateType DEF TypeOK
  <1>5. ASSUME NEW o \in Owners, NEW c \in Channels, NEW r \in Runs,
               CrashInSelectPrepared(o, c, r)
        PROVE  TypeOK'
    <2>1. older' \in SUBSET (Runs \X Runs)
      BY <1>5, TouchAllType DEF CrashInSelectPrepared, Touch, TypeOK
    <2>2. status' \in [Runs -> Statuses]
      BY <1>5 DEF CrashInSelectPrepared, TypeOK, Statuses
    <2> QED BY <1>5, <2>1, <2>2 DEF CrashInSelectPrepared, Forget, TypeOK
  <1>6. ASSUME NEW r \in Runs, NEW s \in TerminalStatuses, Finish(r, s)
        PROVE  TypeOK'
    <2>1. older' \in SUBSET (Runs \X Runs)
      BY <1>6, TouchAllType DEF Finish, Touch, TypeOK
    <2>2. status' \in [Runs -> Statuses]
      BY <1>6 DEF Finish, TypeOK, Statuses
    <2> QED BY <1>6, <2>1, <2>2 DEF Finish, memoryVars, TypeOK
  <1>7. ASSUME NEW o \in Owners, NEW r \in Runs, Delete(o, r)
        PROVE  TypeOK'
    BY <1>7, PurgeAllType DEF Delete, TypeOK
  <1>8. ASSUME NEW limit \in Runs, SweepRetention(limit)
        PROVE  TypeOK'
    <2>1. Expired(limit) \in SUBSET Runs
      BY DEF Expired
    <2> QED BY <1>8, <2>1, PurgeAllType DEF SweepRetention, TypeOK
  <1>9. CASE Crash
    BY <1>9 DEF Crash, Forget, durableVars, TypeOK
  <1>10. CASE Scan
    <2> DEFINE ready == {r \in Runs : status[r] = "prepared"}
    <2> DEFINE OfKey(k) == {r \in ready : KeyOf(r) = k}
    <2> DEFINE winners == {r \in ready : IsNewest(r, OfKey(KeyOf(r)))}
    <2> DEFINE losers == ready \ winners
    <2> DEFINE remaining == {p \in older : p[1] \in losers /\ p[2] \in losers}
    <2>1. PICK within \in OrdersOf(LeftActive) :
             older' = TouchAll(TouchAll(older, LeftActive, within), losers, remaining)
      BY <1>10 DEF Scan
    <2>2. /\ LeftActive \in SUBSET Runs /\ losers \in SUBSET Runs
          /\ within \in SUBSET (Runs \X Runs) /\ remaining \in SUBSET (Runs \X Runs)
      BY DEF LeftActive, OrdersOf, TypeOK
    <2>3. TouchAll(older, LeftActive, within) \in SUBSET (Runs \X Runs)
      BY <2>2, TouchAllType DEF TypeOK
    <2>4. older' \in SUBSET (Runs \X Runs)
      BY <2>1, <2>2, <2>3, TouchAllType
    <2>5. status' \in [Runs -> Statuses]
      BY <1>10 DEF Scan, TypeOK, Statuses, TerminalStatuses
    <2>6. selected' \in [Keys -> Runs \cup {None}]
      <3>1. selected' = [k \in Keys |->
                           IF \E w \in winners : KeyOf(w) = k
                           THEN CHOOSE w \in winners : KeyOf(w) = k ELSE None]
        BY <1>10 DEF Scan
      <3>2. ASSUME NEW k \in Keys, \E w \in winners : KeyOf(w) = k
            PROVE  (CHOOSE w \in winners : KeyOf(w) = k) \in Runs
        BY <3>2
      <3> QED BY <3>1, <3>2
    <2> QED BY <1>10, <2>4, <2>5, <2>6 DEF Scan, TypeOK
  <1>11. ASSUME NEW r \in Runs, CrashInScan(r)
         PROVE  TypeOK'
    <2>1. older' \in SUBSET (Runs \X Runs)
      BY <1>11, TouchAllType DEF CrashInScan, Touch, TypeOK
    <2>2. status' \in [Runs -> Statuses]
      BY <1>11 DEF CrashInScan, TypeOK, Statuses, TerminalStatuses
    <2> QED BY <1>11, <2>1, <2>2 DEF CrashInScan, memoryVars, TypeOK
  <1>12. CASE UNCHANGED catalogVars
    BY <1>12 DEF catalogVars, durableVars, memoryVars, TypeOK
  <1> QED
    BY <1>1, <1>2, <1>3, <1>4, <1>5, <1>6, <1>7, <1>8, <1>9, <1>10, <1>11, <1>12 DEF Next
(* Every variable of the catalog keeps the type of the code's values.      *)
THEOREM CatalogTypeCorrect == Spec => []TypeOK
  <1>1. Init => TypeOK
    BY DEF Init, TypeOK, Statuses
  <1> QED
    BY <1>1, TypeStep, PTL DEF Spec

-----------------------------------------------------------------------------
(* The invariants of the catalog hold together: a goal runs a run of its   *)
(* own user (so that a reservation of that user excludes it) because the   *)
(* selections are its own; Scan leaves one selection per key because       *)
(* timestamps order the runs.                                              *)
Asymmetric(order) == \A a, b \in Runs : <<a, b>> \in order => <<b, a>> \notin order

KnownHaveKeys == \A r \in Runs : status[r] # "absent" => KeyOf(r) \in Keys

CatalogInv ==
    /\ TypeOK
    /\ KnownHaveKeys
    /\ Asymmetric(older)
    /\ SelectionsAreOwn
    /\ PreparedIsSelected
    /\ ReservationExcludesActive

LEMMA TouchAllAsymmetric ==
    ASSUME NEW order \in SUBSET (Runs \X Runs), NEW S \in SUBSET Runs,
           NEW within \in SUBSET (S \X S), Asymmetric(order), Asymmetric(within)
    PROVE  Asymmetric(TouchAll(order, S, within))
  BY DEF TouchAll, Asymmetric

LEMMA SelectAsInv ==
    ASSUME CatalogInv, TypeOK', NEW o \in Owners, NEW c \in Channels, NEW r \in Runs,
           NEW s \in Statuses \ {"active", "absent"}, SelectAs(o, c, r, s),
           status[r] = "absent" \/ owner[r] = o,
           proc' = proc, proc = "up",
           \A k \in Keys : reserved'[k] # None => reserved[k] # None
    PROVE  CatalogInv'
  <1> DEFINE gone == Displaced(o, c, r)
  <1> DEFINE within == {p \in ({r} \X gone) \cup (gone \X {r}) :
                             (p[1] = r) <=> (s = "prepared")}
  <1>1. Asymmetric(older)'
    <2>1. gone \in SUBSET Runs /\ r \notin gone
      BY DEF Displaced
    <2>2. within \in SUBSET (({r} \cup gone) \X ({r} \cup gone))
      BY <2>1
    <2>3. Asymmetric(within)
      BY <2>1 DEF Asymmetric
    <2>4. older' = TouchAll(older, {r} \cup gone, within)
      BY DEF SelectAs
    <2>5. older \in SUBSET (Runs \X Runs) /\ Asymmetric(older)
      BY DEF CatalogInv, TypeOK
    <2>6. Asymmetric(TouchAll(older, {r} \cup gone, within))
      BY <2>1, <2>2, <2>3, <2>5, TouchAllAsymmetric
    <2> QED BY <2>4, <2>6 DEF Asymmetric
  <1>2. KnownHaveKeys'
    BY DEF SelectAs, CatalogInv, KnownHaveKeys, TypeOK, Keys, KeyOf, Displaced
  <1>3. SelectionsAreOwn'
    BY NoneAssumption
       DEF SelectAs, CatalogInv, SelectionsAreOwn, KeyOf, TypeOK, Keys, Displaced
  <1>4. PreparedIsSelected'
    BY DEF SelectAs, CatalogInv, PreparedIsSelected, KnownHaveKeys, TypeOK, Keys, KeyOf, Displaced
  <1>5. ReservationExcludesActive'
    BY DEF SelectAs, CatalogInv, ReservationExcludesActive, TypeOK, Keys
  <1> QED BY <1>1, <1>2, <1>3, <1>4, <1>5 DEF CatalogInv
LEMMA ActivateAsymmetric ==
    ASSUME TypeOK, Asymmetric(older), NEW r \in Runs, older' = Touch(older, r)
    PROVE  Asymmetric(older)'
  <1>1. Asymmetric(Touch(older, r))
    BY TouchAllAsymmetric DEF Touch, TypeOK, Asymmetric
  <1> QED BY <1>1 DEF Asymmetric

LEMMA AcquiresOwn ==
    ASSUME CatalogInv, NEW o \in Owners, NEW c \in Channels, NEW r \in Runs,
           NEW candidate \in Runs \cup {None}, Acquires(o, c, candidate, r)
    PROVE  status[r] # "absent" => owner[r] = o
  <1>1. CASE IsSelectedPrepared(o, c, r)
    <2>1. <<o, c>> \in Keys /\ selected[<<o, c>>] = r /\ r # None
      BY <1>1, NoneAssumption DEF IsSelectedPrepared, Keys
    <2>2. KeyOf(selected[<<o, c>>]) = <<o, c>>
      BY <2>1 DEF CatalogInv, SelectionsAreOwn
    <2> QED BY <2>1, <2>2 DEF KeyOf
  <1>2. CASE IsCandidate(o, c, r)
    BY <1>2 DEF IsCandidate, KeyOf
  <1> QED BY <1>1, <1>2 DEF Acquires

LEMMA AcquireInv ==
    ASSUME CatalogInv, TypeOK', NEW o \in Owners, NEW c \in Channels, NEW r \in Runs,
           NEW candidate \in Runs \cup {None}, Acquire(o, c, candidate, r)
    PROVE  CatalogInv'
  <1>1. status[r] # "absent" => owner[r] = o
    BY AcquiresOwn DEF Acquire
  <1>2. \A k \in Keys : k # <<o, c>> => selected[k] # r
    <2>1. r # None /\ <<o, c>> \in Keys
      BY NoneAssumption DEF Keys
    <2>2. \A k \in Keys : selected[k] = r => KeyOf(r) = k /\ status[r] # "absent"
      BY <2>1 DEF CatalogInv, SelectionsAreOwn
    <2>3. status[r] # "absent" => KeyOf(r) = <<o, c>>
      BY <2>1, <2>2 DEF Acquire, Acquires, IsSelectedPrepared, IsCandidate
    <2> QED BY <2>2, <2>3
  <1>3. Asymmetric(older)'
    BY ActivateAsymmetric DEF Acquire, Activate, CatalogInv
  <1>4. KnownHaveKeys'
    BY <1>1 DEF Acquire, Activate, CatalogInv, KnownHaveKeys, KeyOf, Keys, TypeOK
  <1>5. SelectionsAreOwn'
    BY <1>2, NoneAssumption
       DEF Acquire, Activate, CatalogInv, SelectionsAreOwn, KeyOf, Keys, TypeOK
  <1>6. PreparedIsSelected'
    BY DEF Acquire, Acquires, Activate, CatalogInv, PreparedIsSelected, KnownHaveKeys,
           IsSelectedPrepared, NothingPrepared, KeyOf, Keys, TypeOK
  <1>7. ReservationExcludesActive'
    BY <1>1 DEF Acquire, Activate, ResetConflicts, CatalogInv,
                ReservationExcludesActive, TypeOK
  <1> QED BY <1>3, <1>4, <1>5, <1>6, <1>7 DEF CatalogInv

(* A crash forgets the selections and the reservations: what is left to    *)
(* show concerns run.json only.                                            *)
LEMMA ForgetInv ==
    ASSUME TypeOK', KnownHaveKeys', Asymmetric(older)', Forget
    PROVE  CatalogInv'
  BY DEF CatalogInv, Forget, SelectionsAreOwn, PreparedIsSelected, ReservationExcludesActive

LEMMA PurgeAllInv ==
    ASSUME CatalogInv, TypeOK', NEW S \in SUBSET Runs, PurgeAll(S),
           UNCHANGED <<proc, reserved>>
    PROVE  CatalogInv'
  <1>1. Asymmetric(older)'
    BY DEF PurgeAll, CatalogInv, Asymmetric
  <1>2. KnownHaveKeys'
    BY DEF PurgeAll, CatalogInv, KnownHaveKeys, KeyOf, TypeOK
  <1>3. SelectionsAreOwn'
    BY NoneAssumption DEF PurgeAll, CatalogInv, SelectionsAreOwn, KeyOf, TypeOK
  <1>4. PreparedIsSelected'
    BY DEF PurgeAll, CatalogInv, PreparedIsSelected, KnownHaveKeys, KeyOf, TypeOK
  <1>5. ReservationExcludesActive'
    BY DEF PurgeAll, CatalogInv, ReservationExcludesActive, TypeOK
  <1> QED BY <1>1, <1>2, <1>3, <1>4, <1>5 DEF CatalogInv

LEMMA FinishInv ==
    ASSUME CatalogInv, TypeOK', NEW r \in Runs, NEW s \in TerminalStatuses, Finish(r, s)
    PROVE  CatalogInv'
  <1>1. Asymmetric(older)'
    BY ActivateAsymmetric DEF Finish, CatalogInv
  <1>2. KnownHaveKeys'
    BY DEF Finish, CatalogInv, KnownHaveKeys, KeyOf, TypeOK
  <1>3. SelectionsAreOwn'
    BY DEF Finish, CatalogInv, SelectionsAreOwn, KeyOf, TypeOK, memoryVars, TerminalStatuses
  <1>4. PreparedIsSelected'
    BY DEF Finish, CatalogInv, PreparedIsSelected, KeyOf, TypeOK, memoryVars, TerminalStatuses
  <1>5. ReservationExcludesActive'
    BY DEF Finish, CatalogInv, ReservationExcludesActive, TypeOK, memoryVars, TerminalStatuses
  <1> QED BY <1>1, <1>2, <1>3, <1>4, <1>5 DEF CatalogInv

LEMMA CrashInScanInv ==
    ASSUME CatalogInv, TypeOK', NEW r \in Runs, CrashInScan(r)
    PROVE  CatalogInv'
  <1>1. Asymmetric(older)'
    BY ActivateAsymmetric DEF CrashInScan, CatalogInv
  <1>2. KnownHaveKeys'
    BY DEF CrashInScan, CatalogInv, KnownHaveKeys, KeyOf, TypeOK
  <1>3. SelectionsAreOwn'
    BY DEF CrashInScan, CatalogInv, SelectionsAreOwn, KeyOf, TypeOK, memoryVars
  <1>4. PreparedIsSelected'
    BY DEF CrashInScan, PreparedIsSelected
  <1>5. ReservationExcludesActive'
    BY DEF CrashInScan, CatalogInv, ReservationExcludesActive, TypeOK, memoryVars
  <1> QED BY <1>1, <1>2, <1>3, <1>4, <1>5 DEF CatalogInv

LEMMA ScanInv ==
    ASSUME CatalogInv, TypeOK', Scan
    PROVE  CatalogInv'
  <1> DEFINE ready == {r \in Runs : status[r] = "prepared"}
  <1> DEFINE OfKey(k) == {r \in ready : KeyOf(r) = k}
  <1> DEFINE winners == {r \in ready : IsNewest(r, OfKey(KeyOf(r)))}
  <1> DEFINE losers == ready \ winners
  <1> DEFINE remaining == {p \in older : p[1] \in losers /\ p[2] \in losers}
  <1> DEFINE next(k) == CHOOSE w \in winners : KeyOf(w) = k
  <1>1. Asymmetric(older)'
    <2>1. PICK within \in OrdersOf(LeftActive) :
             older' = TouchAll(TouchAll(older, LeftActive, within), losers, remaining)
      BY DEF Scan
    <2>2. Asymmetric(older) /\ older \in SUBSET (Runs \X Runs)
      BY DEF CatalogInv, TypeOK
    <2>3. /\ LeftActive \in SUBSET Runs
          /\ within \in SUBSET (LeftActive \X LeftActive) /\ Asymmetric(within)
      BY DEF LeftActive, OrdersOf, Asymmetric
    <2>4. /\ losers \in SUBSET Runs
          /\ remaining \in SUBSET (losers \X losers) /\ Asymmetric(remaining)
      BY <2>2 DEF Asymmetric
    <2>5. /\ TouchAll(older, LeftActive, within) \in SUBSET (Runs \X Runs)
          /\ Asymmetric(TouchAll(older, LeftActive, within))
      BY <2>2, <2>3, TouchAllType, TouchAllAsymmetric
    <2>6. Asymmetric(TouchAll(TouchAll(older, LeftActive, within), losers, remaining))
      BY <2>4, <2>5, TouchAllAsymmetric
    <2> QED BY <2>1, <2>6 DEF Asymmetric
  <1>2. \A v, w \in winners : KeyOf(v) = KeyOf(w) => v = w
    BY DEF IsNewest, CatalogInv, Asymmetric
  <1>3. ASSUME NEW k \in Keys, \E w \in winners : KeyOf(w) = k
        PROVE  next(k) \in winners /\ KeyOf(next(k)) = k
    BY <1>3
  <1>4. \A k \in Keys : selected'[k] = IF \E w \in winners : KeyOf(w) = k
                                       THEN next(k) ELSE None
    BY DEF Scan
  <1>5. \A r \in Runs : /\ owner'[r] = owner[r] /\ channel'[r] = channel[r]
                        /\ status'[r] = IF r \in LeftActive \cup losers
                                        THEN "interrupted" ELSE status[r]
    BY DEF Scan
  <1>6. KnownHaveKeys'
    BY <1>5 DEF CatalogInv, KnownHaveKeys, KeyOf, LeftActive
  <1>7. SelectionsAreOwn'
    <2> SUFFICES ASSUME NEW k \in Keys, selected'[k] # None
                 PROVE  /\ <<owner'[selected'[k]], channel'[selected'[k]]>> = k
                        /\ status'[selected'[k]] # "absent"
      BY DEF SelectionsAreOwn, KeyOf
    <2>1. selected'[k] = next(k) /\ next(k) \in winners /\ KeyOf(next(k)) = k
      BY <1>3, <1>4
    <2>2. next(k) \in Runs /\ status[next(k)] = "prepared"
      BY <2>1
    <2>3. /\ status'[next(k)] # "absent"
          /\ owner'[next(k)] = owner[next(k)] /\ channel'[next(k)] = channel[next(k)]
      BY <1>5, <2>2
    <2> QED BY <2>1, <2>3 DEF KeyOf
  <1>8. PreparedIsSelected'
    <2> SUFFICES ASSUME NEW r \in Runs, status'[r] = "prepared"
                 PROVE  selected'[KeyOf(r)'] = r
      BY DEF PreparedIsSelected
    <2>1. r \in winners /\ KeyOf(r)' = KeyOf(r) /\ KeyOf(r) \in Keys
      BY <1>5 DEF LeftActive, CatalogInv, KnownHaveKeys, KeyOf
    <2> QED BY <1>2, <1>3, <1>4, <2>1
  <1>9. ReservationExcludesActive'
    BY DEF Scan, ReservationExcludesActive
  <1> QED BY <1>1, <1>6, <1>7, <1>8, <1>9 DEF CatalogInv
LEMMA CatalogStep == CatalogInv /\ [Next]_catalogVars => CatalogInv'
  <1> SUFFICES ASSUME CatalogInv, [Next]_catalogVars PROVE CatalogInv'
    OBVIOUS
  <1>0. TypeOK'
    BY TypeStep DEF CatalogInv
  <1>1. ASSUME NEW o \in Owners, NEW c \in Channels, NEW t \in Tokens,
               ReserveReset(o, c, t) \/ CancelReset(o, c, t)
        PROVE  CatalogInv'
    <2>1. UNCHANGED <<proc, status, owner, channel, older, selected>>
      BY <1>1 DEF ReserveReset, CancelReset, durableVars
    <2>2. CASE CancelReset(o, c, t)
      <3>1. \A k \in Keys : reserved'[k] # None => reserved[k] # None
        BY <2>2 DEF CancelReset, CatalogInv, TypeOK
      <3> QED BY <1>0, <2>1, <3>1 DEF CatalogInv, KnownHaveKeys, KeyOf, Asymmetric,
                    SelectionsAreOwn, PreparedIsSelected, ReservationExcludesActive
    <2>3. CASE ReserveReset(o, c, t)
      <3>1. \A k \in Keys : reserved'[k] # None => reserved[k] # None \/ k = <<o, c>>
        BY <2>3 DEF ReserveReset, CatalogInv, TypeOK
      <3>2. \A r \in Runs : status[r] = "active" => owner[r] # o /\ channel[r] # c
        BY <2>3 DEF ReserveReset, ResetAllowed
      <3>3. ReservationExcludesActive'
        BY <2>1, <3>1, <3>2 DEF CatalogInv, ReservationExcludesActive
      <3> QED BY <1>0, <2>1, <3>3 DEF CatalogInv, KnownHaveKeys, KeyOf, Asymmetric,
                    SelectionsAreOwn, PreparedIsSelected
    <2> QED BY <1>1, <2>2, <2>3
  <1>2. ASSUME NEW o \in Owners, NEW c \in Channels, NEW r \in Runs,
               Prepare(o, c, r) \/ PrepareThenFail(o, c, r) \/ Resume(o, c, r)
        PROVE  CatalogInv'
    <2>1. PICK s \in Statuses \ {"active", "absent"} : SelectAs(o, c, r, s)
      BY <1>2 DEF Prepare, PrepareThenFail, Resume, SelectPrepared, Statuses, TerminalStatuses
    <2>2. /\ proc = "up" /\ proc' = proc /\ reserved' = reserved
          /\ status[r] = "absent" \/ owner[r] = o
      BY <1>2 DEF Prepare, PrepareThenFail, Resume, MayPrepare, Inactive
    <2> QED BY <1>0, <2>1, <2>2, SelectAsInv
  <1>3. ASSUME NEW o \in Owners, NEW c \in Channels, NEW r \in Runs, NEW t \in Tokens,
               PrepareReserved(o, c, t, r)
        PROVE  CatalogInv'
    <2>1. SelectAs(o, c, r, "prepared") /\ "prepared" \in Statuses \ {"active", "absent"}
      BY <1>3 DEF PrepareReserved, SelectPrepared, Statuses
    <2>2. /\ proc = "up" /\ proc' = proc /\ status[r] = "absent"
          /\ \A k \in Keys : reserved'[k] # None => reserved[k] # None
      BY <1>3 DEF PrepareReserved, CatalogInv, TypeOK
    <2> QED BY <1>0, <2>1, <2>2, SelectAsInv
  <1>4. ASSUME NEW o \in Owners, NEW c \in Channels, NEW r \in Runs,
               NEW candidate \in Runs \cup {None}, Acquire(o, c, candidate, r)
        PROVE  CatalogInv'
    BY <1>0, <1>4, AcquireInv
  <1>5. ASSUME NEW o \in Owners, NEW c \in Channels, NEW r \in Runs,
               NEW candidate \in Runs \cup {None}, CrashInAcquire(o, c, candidate, r)
        PROVE  CatalogInv'
    <2>1. status[r] # "absent" => owner[r] = o
      BY <1>5, AcquiresOwn DEF CrashInAcquire
    <2>2. KnownHaveKeys'
      BY <1>5, <2>1 DEF CrashInAcquire, Activate, CatalogInv, KnownHaveKeys, KeyOf, Keys, TypeOK
    <2>3. Asymmetric(older)'
      BY <1>5, ActivateAsymmetric DEF CrashInAcquire, Activate, CatalogInv
    <2> QED BY <1>0, <1>5, <2>2, <2>3, ForgetInv DEF CrashInAcquire
  <1>6. ASSUME NEW o \in Owners, NEW c \in Channels, NEW r \in Runs,
               CrashInSelectPrepared(o, c, r)
        PROVE  CatalogInv'
    <2>1. KnownHaveKeys'
      BY <1>6 DEF CrashInSelectPrepared, CatalogInv, KnownHaveKeys, KeyOf, Keys, TypeOK
    <2>2. Asymmetric(older)'
      BY <1>6, ActivateAsymmetric DEF CrashInSelectPrepared, CatalogInv
    <2> QED BY <1>0, <1>6, <2>1, <2>2, ForgetInv DEF CrashInSelectPrepared
  <1>7. ASSUME NEW r \in Runs, NEW s \in TerminalStatuses, Finish(r, s)
        PROVE  CatalogInv'
    BY <1>0, <1>7, FinishInv
  <1>8. ASSUME NEW o \in Owners, NEW r \in Runs, Delete(o, r)
        PROVE  CatalogInv'
    BY <1>0, <1>8, PurgeAllInv DEF Delete
  <1>9. ASSUME NEW limit \in Runs, SweepRetention(limit)
        PROVE  CatalogInv'
    BY <1>0, <1>9, PurgeAllInv DEF SweepRetention, Expired
  <1>10. CASE Crash
    BY <1>0, <1>10, ForgetInv
       DEF Crash, durableVars, CatalogInv, KnownHaveKeys, KeyOf, Asymmetric
  <1>11. CASE Scan
    BY <1>0, <1>11, ScanInv
  <1>12. CASE UNCHANGED catalogVars
    BY <1>0, <1>12 DEF catalogVars, durableVars, memoryVars, CatalogInv, KnownHaveKeys,
       KeyOf, Asymmetric, SelectionsAreOwn, PreparedIsSelected, ReservationExcludesActive
  <1>13. ASSUME NEW r \in Runs, CrashInScan(r)
         PROVE  CatalogInv'
    BY <1>0, <1>13, CrashInScanInv
  <1> QED
    BY <1>1, <1>2, <1>3, <1>4, <1>5, <1>6, <1>7, <1>8, <1>9, <1>10, <1>11, <1>12, <1>13
       DEF Next

LEMMA InitCatalogInv == Init => CatalogInv
  BY NoneAssumption DEF Init, CatalogInv, TypeOK, Statuses, KnownHaveKeys, Asymmetric,
     SelectionsAreOwn, PreparedIsSelected, ReservationExcludesActive

LEMMA CatalogInvariant == Spec => []CatalogInv
  BY InitCatalogInv, CatalogStep, PTL DEF Spec

(* A !clear that waits for Discord and an executing run exclude each other *)
(* by owner and by channel, in every order the calls may come.             *)
THEOREM ReservationSafety == Spec => []ReservationExcludesActive
  BY CatalogInvariant, PTL DEF CatalogInv

(* A prepared run is always the one its key consumes next.                 *)
THEOREM PreparedRunsAreSelected == Spec => []PreparedIsSelected
  BY CatalogInvariant, PTL DEF CatalogInv

(* A key selects only a run of its own user, and a run has one key.        *)
THEOREM SelectionSafety == Spec => []SelectionsAreOwn
  BY CatalogInvariant, PTL DEF CatalogInv

(* No method of the catalog moves, deletes or selects a run that executes. *)
THEOREM ExecutionSafety == Spec => ActiveIsUndisturbed
  <1> DEFINE Kept(r) == status[r] = "active"
                           => /\ owner'[r] = owner[r]
                              /\ channel'[r] = channel[r]
                              /\ status'[r] \in {"active"} \cup TerminalStatuses
  <1>1. ASSUME TypeOK, [Next]_catalogVars, NEW q \in Runs
        PROVE  Kept(q)
    <2> SUFFICES ASSUME status[q] = "active" PROVE Kept(q)
      OBVIOUS
    <2>0. \A o \in Owners, c \in Channels, r \in Runs, s \in Statuses :
             SelectAs(o, c, r, s) /\ status[r] # "active" => Kept(q)
      BY <1>1 DEF SelectAs, Displaced, TypeOK
    <2>1. \A o \in Owners, c \in Channels, r \in Runs :
             Activate(o, c, r) /\ status[r] # "active" => Kept(q)
      BY <1>1 DEF Activate, TypeOK
    <2>2. \A S : PurgeAll(S) /\ q \notin S => Kept(q)
      BY <1>1 DEF PurgeAll, TypeOK
    <2>3. \A o \in Owners, c \in Channels, r \in Runs, candidate \in Runs \cup {None} :
             Acquires(o, c, candidate, r) => status[r] # "active"
      BY DEF Acquires, IsSelectedPrepared, IsCandidate, ResumableStatuses, TerminalStatuses
    <2>4. UNCHANGED durableVars => Kept(q)
      BY DEF durableVars
    <2>5. ASSUME NEW o \in Owners, NEW c \in Channels, NEW r \in Runs,
                 \/ Prepare(o, c, r) \/ Resume(o, c, r) \/ PrepareThenFail(o, c, r)
                 \/ \E t \in Tokens : PrepareReserved(o, c, t, r)
          PROVE  Kept(q)
      BY <2>0, <2>5
         DEF Prepare, Resume, PrepareThenFail, PrepareReserved, MayPrepare, Inactive,
             SelectPrepared, Statuses, TerminalStatuses
    <2>6. ASSUME NEW o \in Owners, NEW c \in Channels, NEW r \in Runs,
                 CrashInSelectPrepared(o, c, r)
          PROVE  Kept(q)
      <3>1. status[r] # "active"
        BY <2>6 DEF CrashInSelectPrepared, MayPrepare, Inactive
      <3> QED BY <1>1, <2>6, <3>1 DEF CrashInSelectPrepared, TypeOK
    <2>7. ASSUME NEW o \in Owners, NEW c \in Channels, NEW r \in Runs,
                 NEW candidate \in Runs \cup {None},
                 Acquire(o, c, candidate, r) \/ CrashInAcquire(o, c, candidate, r)
          PROVE  Kept(q)
      BY <2>1, <2>3, <2>7 DEF Acquire, CrashInAcquire
    <2>8. ASSUME NEW r \in Runs, NEW s \in TerminalStatuses, Finish(r, s)
          PROVE  Kept(q)
      BY <1>1, <2>8 DEF Finish, TypeOK
    <2>9. ASSUME NEW o \in Owners, NEW r \in Runs, Delete(o, r)
          PROVE  Kept(q)
      BY <2>2, <2>9 DEF Delete, Inactive
    <2>10. ASSUME NEW limit \in Runs, SweepRetention(limit)
           PROVE  Kept(q)
      BY <2>2, <2>10 DEF SweepRetention, Expired, TerminalStatuses
    <2>11. CASE Scan
      BY <1>1, <2>11 DEF Scan, LeftActive, TypeOK, TerminalStatuses
    <2>12. ASSUME NEW o \in Owners, NEW c \in Channels, NEW t \in Tokens,
                  ReserveReset(o, c, t) \/ CancelReset(o, c, t)
           PROVE  Kept(q)
      BY <2>4, <2>12 DEF ReserveReset, CancelReset
    <2>13. CASE Crash \/ UNCHANGED catalogVars
      BY <2>4, <2>13 DEF Crash, catalogVars
    <2>14. ASSUME NEW r \in Runs, CrashInScan(r)
           PROVE  Kept(q)
      BY <1>1, <2>14 DEF CrashInScan, TypeOK, TerminalStatuses
    <2> QED
      BY <1>1, <2>5, <2>6, <2>7, <2>8, <2>9, <2>10, <2>11, <2>12, <2>13, <2>14 DEF Next
  <1>2. TypeOK /\ [Next]_catalogVars => [\A r \in Runs : Kept(r)]_catalogVars
    BY <1>1
  <1> QED BY <1>2, CatalogTypeCorrect, PTL DEF Spec, ActiveIsUndisturbed

-----------------------------------------------------------------------------
(* The places of KeySlots.  While the bot is up the memory and the files   *)
(* agree on who waits; a crash may leave two runs prepared for one key,    *)
(* one of which is the newest and stays.                                   *)
Chosen(k) ==
    IF selected[k] # None /\ status[selected[k]] = "prepared" THEN selected[k] ELSE None

HasNewest(k) == ReadyFor(k) = {} \/ \E r \in Runs : IsNewest(r, ReadyFor(k))

PlacesInv == CatalogInv /\ \A k \in Keys : HasNewest(k)

LEMMA NewestWaits ==
    Asymmetric(older) =>
        \A k \in Keys, r \in Runs : IsNewest(r, ReadyFor(k)) => Waiting(k) = r
<1> SUFFICES ASSUME Asymmetric(older), NEW k \in Keys, NEW r \in Runs,
                    IsNewest(r, ReadyFor(k))
             PROVE  Waiting(k) = r
  OBVIOUS
<1>1. \A q \in Runs : IsNewest(q, ReadyFor(k)) => q = r
  BY DEF IsNewest, ReadyFor, Asymmetric
<1> QED
  BY <1>1 DEF Waiting

LEMMA NobodyWaits == \A k \in Keys : ReadyFor(k) = {} => Waiting(k) = None
  BY DEF Waiting, IsNewest

(* One run that is prepared for the key is the newest.                     *)
LEMMA SingleWaits ==
    Asymmetric(older) =>
        \A k \in Keys, r \in Runs : ReadyFor(k) = {r} => HasNewest(k) /\ Waiting(k) = r
  BY NewestWaits DEF HasNewest, IsNewest

LEMMA ReadyIsChosen ==
    CatalogInv /\ proc = "up" =>
        \A k \in Keys : ReadyFor(k) = IF Chosen(k) = None THEN {} ELSE {Chosen(k)}
<1> SUFFICES ASSUME CatalogInv, proc = "up", NEW k \in Keys
             PROVE  ReadyFor(k) = IF Chosen(k) = None THEN {} ELSE {Chosen(k)}
  OBVIOUS
<1>1. \A r \in ReadyFor(k) : selected[k] = r /\ status[r] = "prepared" /\ r # None
  BY NoneAssumption DEF ReadyFor, CatalogInv, PreparedIsSelected
<1>2. selected[k] # None /\ status[selected[k]] = "prepared" => selected[k] \in ReadyFor(k)
  BY DEF ReadyFor, CatalogInv, SelectionsAreOwn, TypeOK
<1> QED
  BY <1>1, <1>2 DEF Chosen

(* The memory of a living bot and its files agree on who waits.            *)
LEMMA WaitingIsChosen ==
    CatalogInv /\ proc = "up" => \A k \in Keys : HasNewest(k) /\ Waiting(k) = Chosen(k)
<1> SUFFICES ASSUME CatalogInv, proc = "up", NEW k \in Keys
             PROVE  HasNewest(k) /\ Waiting(k) = Chosen(k)
  OBVIOUS
<1>1. CASE Chosen(k) = None
  BY <1>1, ReadyIsChosen, NobodyWaits DEF HasNewest
<1>2. CASE Chosen(k) # None
  <2>1. Chosen(k) \in Runs
    BY <1>2 DEF Chosen, CatalogInv, TypeOK
  <2> QED
    BY <1>2, <2>1, ReadyIsChosen, SingleWaits DEF CatalogInv
<1> QED
  BY <1>1, <1>2

(* The steps of KeySlots, said of the catalog's own variables.             *)
Alive == proc = "up" /\ proc' \in {"up", "down"}
RunningKept == \A q \in Runs : status'[q] = "active" <=> status[q] = "active"
PlacesKept == \A j \in Keys : Waiting(j)' = Waiting(j)
Emptied(k) == \A j \in Keys : Waiting(j)' = IF j = k THEN None ELSE Waiting(j)

LEMMA SelectStep ==
    ASSUME NEW k \in Keys, NEW r \in Runs, Alive, RunningKept, status[r] # "active",
           \A j \in Keys : Waiting(j) = r => j[1] = k[1],
           \A j \in Keys : Waiting(j)' = IF j = k THEN r
                                         ELSE IF Waiting(j) = r THEN None ELSE Waiting(j)
    PROVE  Slots!Next
<1>1. Slots!Select(k, r)
  BY DEF Slots!Select, Slots!Places, Keys, Alive, RunningKept
<1> QED
  BY <1>1 DEF Slots!Next, Slots!Places, Keys

LEMMA StartStep ==
    ASSUME NEW k \in Keys, NEW r \in Runs, Alive, status[r] # "active", Emptied(k),
           Waiting(k) = r \/ (Waiting(k) = None /\ \A j \in Keys : Waiting(j) # r),
           \A q \in Runs : status'[q] = "active" <=> q = r \/ status[q] = "active"
    PROVE  Slots!Next
<1>1. Slots!Start(k, r)
  BY DEF Slots!Start, Slots!Waits, Slots!Places, Keys, Alive, Emptied
<1> QED
  BY <1>1 DEF Slots!Next, Slots!Places, Keys

LEMMA DropStep ==
    ASSUME NEW k \in Keys, proc = "up", proc' = "up", RunningKept, Emptied(k)
    PROVE  Slots!Next
<1>1. Slots!Drop(k)
  BY DEF Slots!Drop, Slots!Places, Keys, RunningKept, Emptied
<1> QED
  BY <1>1 DEF Slots!Next, Slots!Places, Keys

LEMMA EndOfRunStep ==
    ASSUME NEW r \in Runs, proc = "up", proc' = "up", PlacesKept, status[r] = "active",
           \A q \in Runs : status'[q] = "active" <=> q # r /\ status[q] = "active"
    PROVE  Slots!Next
<1>1. Slots!End(r)
  BY DEF Slots!End, PlacesKept
<1> QED
  BY <1>1 DEF Slots!Next

LEMMA DieStep ==
    ASSUME proc = "up", proc' = "down", PlacesKept, RunningKept
    PROVE  Slots!Next
BY DEF Slots!Next, Slots!Die, PlacesKept, RunningKept

LEMMA RestartStep ==
    ASSUME proc = "down", proc' \in {"up", "down"}, PlacesKept,
           \A q \in Runs : status'[q] = "active" => status[q] = "active" /\ proc' = "down"
    PROVE  Slots!Next
BY DEF Slots!Next, Slots!Restart, PlacesKept

LEMMA NoStep ==
    ASSUME proc' = proc, PlacesKept, RunningKept
    PROVE  UNCHANGED Slots!slotVars
BY DEF Slots!slotVars, PlacesKept, RunningKept

-----------------------------------------------------------------------------
(* Every step of the catalog is a step of the places or leaves them alone. *)

LEMMA ChosenAfter ==
    CatalogInv' /\ proc' = "up" => \A k \in Keys : HasNewest(k)' /\ Waiting(k)' = Chosen(k)'
<1>1. (CatalogInv /\ proc = "up" => \A k \in Keys : HasNewest(k) /\ Waiting(k) = Chosen(k))'
  BY WaitingIsChosen, PTL
<1> QED
  BY <1>1

(* A run is in the memory of its own key only.                             *)
LEMMA ChosenOwn ==
    ASSUME CatalogInv, NEW k \in Keys, NEW r \in Runs, selected[k] = r
    PROVE  KeyOf(r) = k /\ status[r] # "absent"
  BY NoneAssumption DEF CatalogInv, SelectionsAreOwn

LEMMA SelectAsMoves ==
    ASSUME CatalogInv, CatalogInv', proc = "up", proc' = "up",
           NEW o \in Owners, NEW c \in Channels, NEW r \in Runs,
           NEW s \in {"prepared", "failed"}, SelectAs(o, c, r, s),
           status[r] = "absent" \/ (owner[r] = o /\ status[r] # "active")
    PROVE  /\ RunningKept
           /\ \A j \in Keys : Waiting(j) = r => j[1] = o
           /\ \A j \in Keys : j # <<o, c>> =>
                 Waiting(j)' = IF Waiting(j) = r THEN None ELSE Waiting(j)
           /\ Waiting(<<o, c>>)' = IF s = "prepared" THEN r ELSE None
<1>0. \A j \in Keys : Waiting(j) = Chosen(j) /\ Waiting(j)' = Chosen(j)'
  BY WaitingIsChosen, ChosenAfter
<1>1. <<o, c>> \in Keys /\ r # None
  BY NoneAssumption DEF Keys
<1>2. RunningKept
  BY <1>1 DEF SelectAs, RunningKept, Displaced, CatalogInv, TypeOK
<1>3. ASSUME NEW j \in Keys, Waiting(j) = r
      PROVE  j[1] = o
  <2>1. selected[j] = r
    BY <1>0, <1>1, <1>3 DEF Chosen
  <2> QED
    BY <2>1, ChosenOwn DEF KeyOf
<1>4. ASSUME NEW j \in Keys, j # <<o, c>>
      PROVE  Waiting(j)' = IF Waiting(j) = r THEN None ELSE Waiting(j)
  <2>1. selected'[j] = IF selected[j] = r THEN None ELSE selected[j]
    BY <1>4 DEF SelectAs
  <2>2. CASE selected[j] = r \/ selected[j] = None
    BY <1>0, <1>1, <2>1, <2>2 DEF Chosen
  <2>3. CASE selected[j] # r /\ selected[j] # None
    <3>1. selected[j] \in Runs
      BY <2>3 DEF CatalogInv, TypeOK
    <3>2. selected[j] # selected[<<o, c>>]
      BY <1>1, <1>4, <3>1, ChosenOwn
    <3>3. status'[selected[j]] = status[selected[j]]
      BY <2>3, <3>1, <3>2 DEF SelectAs, Displaced
    <3> QED
      BY <1>0, <2>1, <2>3, <3>3 DEF Chosen
  <2> QED
    BY <2>2, <2>3
<1>5. Waiting(<<o, c>>)' = IF s = "prepared" THEN r ELSE None
  <2>1. selected'[<<o, c>>] = r /\ status'[r] = s
    BY <1>1 DEF SelectAs
  <2> QED
    BY <1>0, <1>1, <2>1 DEF Chosen
<1> QED
  BY <1>2, <1>3, <1>4, <1>5

LEMMA SelectionMoves ==
    ASSUME CatalogInv, CatalogInv', NEW o \in Owners, NEW c \in Channels, NEW r \in Runs,
           \/ Prepare(o, c, r) \/ Resume(o, c, r) \/ PrepareThenFail(o, c, r)
           \/ \E t \in Tokens : PrepareReserved(o, c, t, r)
    PROVE  Slots!Next
<1>1. <<o, c>> \in Keys /\ <<o, c>>[1] = o
  BY DEF Keys
<1>2. /\ proc = "up" /\ proc' = "up"
      /\ status[r] = "absent" \/ (owner[r] = o /\ status[r] # "active")
  BY DEF Prepare, Resume, PrepareThenFail, PrepareReserved, MayPrepare, Inactive
<1>3. CASE SelectAs(o, c, r, "prepared")
  BY <1>1, <1>2, <1>3, SelectAsMoves, SelectStep DEF Alive
<1>4. CASE PrepareThenFail(o, c, r)
  <2>1. SelectAs(o, c, r, "failed") /\ status[r] = "absent" /\ r # None
    BY <1>4, NoneAssumption DEF PrepareThenFail, MayPrepare
  <2>2. \A j \in Keys : Waiting(j) # r
    BY <1>2, <2>1, WaitingIsChosen DEF Chosen
  <2>3. Emptied(<<o, c>>)
    BY <1>1, <1>2, <2>1, <2>2, SelectAsMoves DEF Emptied
  <2> QED
    BY <1>1, <1>2, <2>1, <2>3, SelectAsMoves, DropStep
<1> QED
  BY <1>3, <1>4 DEF Prepare, Resume, PrepareReserved, SelectPrepared

LEMMA AcquiresWaiting ==
    ASSUME CatalogInv, proc = "up", NEW o \in Owners, NEW c \in Channels, NEW r \in Runs,
           NEW candidate \in Runs \cup {None}, Acquires(o, c, candidate, r)
    PROVE  /\ status[r] # "active"
           /\ \A j \in Keys : j # <<o, c>> => selected[j] # r /\ Waiting(j) # r
           /\ Waiting(<<o, c>>) = r
              \/ (Waiting(<<o, c>>) = None /\ \A j \in Keys : Waiting(j) # r)
<1>1. <<o, c>> \in Keys /\ r # None
  BY NoneAssumption DEF Keys
<1>2. \A j \in Keys : Waiting(j) = Chosen(j)
  BY WaitingIsChosen
<1>3. status[r] # "active" /\ \A j \in Keys : j # <<o, c>> => selected[j] # r
  BY <1>1, ChosenOwn
     DEF Acquires, IsSelectedPrepared, IsCandidate, ResumableStatuses, TerminalStatuses
<1>4. CASE IsSelectedPrepared(o, c, r)
  BY <1>1, <1>2, <1>3, <1>4 DEF IsSelectedPrepared, Chosen
<1>5. CASE NothingPrepared(o, c) /\ status[r] # "prepared"
  <2>1. Chosen(<<o, c>>) = None
    BY <1>1, <1>5 DEF NothingPrepared, IsSelectedPrepared, Chosen, CatalogInv, TypeOK
  <2> QED
    BY <1>1, <1>2, <1>3, <1>5, <2>1 DEF Chosen
<1> QED
  BY <1>4, <1>5 DEF Acquires, IsCandidate, ResumableStatuses, TerminalStatuses

LEMMA AcquireMoves ==
    ASSUME CatalogInv, CatalogInv', NEW o \in Owners, NEW c \in Channels, NEW r \in Runs,
           NEW candidate \in Runs \cup {None}, Acquire(o, c, candidate, r)
    PROVE  Slots!Next
<1>1. <<o, c>> \in Keys /\ Alive /\ proc = "up" /\ proc' = "up" /\ Acquires(o, c, candidate, r)
  BY DEF Keys, Alive, Acquire
<1>2. \A j \in Keys : Waiting(j) = Chosen(j) /\ Waiting(j)' = Chosen(j)'
  BY <1>1, WaitingIsChosen, ChosenAfter
<1>3. \A q \in Runs : status'[q] = IF q = r THEN "active" ELSE status[q]
  BY DEF Acquire, Activate, CatalogInv, TypeOK
<1>4. /\ \A j \in Keys : selected'[j] = IF j = <<o, c>> THEN None ELSE selected[j]
      /\ \A j \in Keys : selected[j] \in Runs \cup {None}
  BY DEF Acquire, CatalogInv, TypeOK
<1>5. Emptied(<<o, c>>)
  BY <1>1, <1>2, <1>3, <1>4, AcquiresWaiting DEF Emptied, Chosen
<1> QED
  BY <1>1, <1>3, <1>5, AcquiresWaiting, StartStep

(* A run that leaves the catalog or ends empties its place, if it has one. *)
LEMMA FinishMoves ==
    ASSUME CatalogInv, CatalogInv', NEW r \in Runs, NEW s \in TerminalStatuses, Finish(r, s)
    PROVE  Slots!Next \/ UNCHANGED Slots!slotVars
<1>1. proc = "up" /\ proc' = "up" /\ r # None /\ s \notin {"active", "prepared"}
  BY NoneAssumption DEF Finish, TerminalStatuses
<1>2. \A j \in Keys : Waiting(j) = Chosen(j) /\ Waiting(j)' = Chosen(j)'
  BY <1>1, WaitingIsChosen, ChosenAfter
<1>3. /\ \A q \in Runs : status'[q] = IF q = r THEN s ELSE status[q]
      /\ \A j \in Keys : selected'[j] = selected[j] /\ selected[j] \in Runs \cup {None}
  BY DEF Finish, memoryVars, CatalogInv, TypeOK
<1>4. CASE status[r] = "active"
  <2>1. PlacesKept
    BY <1>1, <1>2, <1>3, <1>4 DEF PlacesKept, Chosen
  <2> QED
    BY <1>1, <1>3, <1>4, <2>1, EndOfRunStep
<1>5. CASE status[r] # "active" /\ \A j \in Keys : Chosen(j) # r
  <2>1. PlacesKept /\ RunningKept
    BY <1>1, <1>2, <1>3, <1>5 DEF PlacesKept, RunningKept, Chosen
  <2> QED
    BY <1>1, <2>1, NoStep
<1>6. ASSUME status[r] # "active", NEW k \in Keys, Chosen(k) = r
      PROVE  Slots!Next
  <2>1. \A j \in Keys : selected[j] = r => j = k
    BY <1>1, <1>6, ChosenOwn DEF Chosen
  <2>2. Emptied(k) /\ RunningKept
    BY <1>1, <1>2, <1>3, <1>6, <2>1 DEF Emptied, RunningKept, Chosen
  <2> QED
    BY <1>1, <2>2, DropStep
<1> QED
  BY <1>4, <1>5, <1>6

LEMMA PurgeMoves ==
    ASSUME CatalogInv, CatalogInv', NEW S \in SUBSET Runs, PurgeAll(S),
           proc = "up", proc' = "up", \A r \in S : status[r] # "active",
           \A j, k \in Keys : Chosen(j) \in S /\ Chosen(k) \in S => j = k
    PROVE  Slots!Next \/ UNCHANGED Slots!slotVars
<1>1. \A j \in Keys : Waiting(j) = Chosen(j) /\ Waiting(j)' = Chosen(j)'
  BY WaitingIsChosen, ChosenAfter
<1>2. /\ \A q \in Runs : status'[q] = IF q \in S THEN "absent" ELSE status[q]
      /\ \A j \in Keys : selected'[j] = IF selected[j] \in S THEN None ELSE selected[j]
      /\ \A j \in Keys : selected[j] \in Runs \cup {None}
      /\ None \notin S
  BY NoneAssumption DEF PurgeAll, CatalogInv, TypeOK
<1>3. RunningKept
  BY <1>2 DEF RunningKept
<1>4. \A j \in Keys : Waiting(j)' = IF Waiting(j) \in S THEN None ELSE Waiting(j)
  BY <1>1, <1>2 DEF Chosen
<1>5. CASE \A j \in Keys : Waiting(j) \notin S
  BY <1>3, <1>4, <1>5, NoStep DEF PlacesKept
<1>6. ASSUME NEW k \in Keys, Waiting(k) \in S
      PROVE  Slots!Next
  <2>1. Emptied(k)
    BY <1>1, <1>4, <1>6 DEF Emptied
  <2> QED
    BY <1>3, <2>1, DropStep
<1> QED
  BY <1>5, <1>6

LEMMA DeletionMoves ==
    ASSUME CatalogInv, CatalogInv',
           \/ \E o \in Owners, r \in Runs : Delete(o, r)
           \/ \E limit \in Runs : SweepRetention(limit)
    PROVE  Slots!Next \/ UNCHANGED Slots!slotVars
<1>1. ASSUME NEW o \in Owners, NEW r \in Runs, Delete(o, r)
      PROVE  Slots!Next \/ UNCHANGED Slots!slotVars
  <2>1. \A j, k \in Keys : Chosen(j) = r /\ Chosen(k) = r => j = k
    BY ChosenOwn, NoneAssumption DEF Chosen
  <2> QED
    BY <1>1, <2>1, PurgeMoves DEF Delete, Inactive
<1>2. ASSUME NEW limit \in Runs, SweepRetention(limit)
      PROVE  Slots!Next \/ UNCHANGED Slots!slotVars
  <2>1. \A j \in Keys : Chosen(j) \notin Expired(limit)
    BY NoneAssumption DEF Chosen, Expired, TerminalStatuses
  <2>2. Expired(limit) \in SUBSET Runs /\ \A r \in Expired(limit) : status[r] # "active"
    BY DEF Expired, TerminalStatuses
  <2> QED
    BY <1>2, <2>1, <2>2, PurgeMoves DEF SweepRetention
<1> QED
  BY <1>1, <1>2

(* The same facts, after a step.                                           *)
LEMMA WaitsAfter ==
    /\ Asymmetric(older)' => \A k \in Keys, r \in Runs :
          /\ IsNewest(r, ReadyFor(k))' => Waiting(k)' = r
          /\ ReadyFor(k)' = {r} => HasNewest(k)' /\ Waiting(k)' = r
    /\ \A k \in Keys : ReadyFor(k)' = {} => Waiting(k)' = None
<1>1. (Asymmetric(older) =>
          \A k \in Keys, r \in Runs : IsNewest(r, ReadyFor(k)) => Waiting(k) = r)'
  BY NewestWaits, PTL
<1>2. (Asymmetric(older) =>
          \A k \in Keys, r \in Runs : ReadyFor(k) = {r} => HasNewest(k) /\ Waiting(k) = r)'
  BY SingleWaits, PTL
<1>3. (\A k \in Keys : ReadyFor(k) = {} => Waiting(k) = None)'
  BY NobodyWaits, PTL
<1> QED
  BY <1>1, <1>2, <1>3

(* Where the newest run of a key stays the newest, the place keeps it.     *)
LEMMA PlaceIsKept ==
    ASSUME CatalogInv, CatalogInv', NEW k \in Keys, HasNewest(k),
           ReadyFor(k)' = ReadyFor(k),
           \A a, b \in ReadyFor(k) : <<a, b>> \in older => <<a, b>> \in older'
    PROVE  HasNewest(k)' /\ Waiting(k)' = Waiting(k)
<1>1. CASE ReadyFor(k) = {}
  BY <1>1, NobodyWaits, WaitsAfter DEF HasNewest
<1>2. ASSUME NEW r \in Runs, IsNewest(r, ReadyFor(k))
      PROVE  HasNewest(k)' /\ Waiting(k)' = Waiting(k)
  <2>1. IsNewest(r, ReadyFor(k))'
    BY <1>2 DEF IsNewest
  <2>2. Waiting(k) = r /\ Waiting(k)' = r
    BY <1>2, <2>1, NewestWaits, WaitsAfter DEF CatalogInv
  <2> QED
    BY <2>1, <2>2 DEF HasNewest
<1> QED
  BY <1>1, <1>2 DEF HasNewest

(* A death forgets the memory; the files say who waits.                    *)
LEMMA CrashMoves ==
    ASSUME PlacesInv, CatalogInv', Crash
    PROVE  Slots!Next /\ \A k \in Keys : HasNewest(k)'
<1>1. \A k \in Keys : ReadyFor(k)' = ReadyFor(k) /\ older' = older
  BY DEF Crash, durableVars, ReadyFor, KeyOf
<1>2. \A k \in Keys : HasNewest(k)' /\ Waiting(k)' = Waiting(k)
  BY <1>1, PlaceIsKept DEF PlacesInv
<1>3. proc = "up" /\ proc' = "down" /\ RunningKept
  BY DEF Crash, Forget, durableVars, RunningKept
<1> QED
  BY <1>2, <1>3, DieStep DEF PlacesKept

(* Between the writes of a selection the run selected is the newest.       *)
LEMMA CrashInSelectionMoves ==
    ASSUME PlacesInv, CatalogInv', NEW o \in Owners, NEW c \in Channels, NEW r \in Runs,
           CrashInSelectPrepared(o, c, r)
    PROVE  Slots!Next /\ \A k \in Keys : HasNewest(k)'
<1>1. /\ <<o, c>> \in Keys /\ <<o, c>>[1] = o /\ r # None
      /\ Alive /\ proc = "up" /\ CatalogInv
      /\ status[r] = "absent" \/ (owner[r] = o /\ status[r] # "active")
  BY NoneAssumption
     DEF Keys, Alive, CrashInSelectPrepared, Forget, MayPrepare, Inactive, PlacesInv
<1>2. /\ \A q \in Runs : status'[q] = IF q = r THEN "prepared" ELSE status[q]
      /\ \A q \in Runs : KeyOf(q)' = IF q = r THEN <<o, c>> ELSE KeyOf(q)
      /\ older' = Touch(older, r)
  BY <1>1 DEF CrashInSelectPrepared, KeyOf, CatalogInv, TypeOK
<1>3. RunningKept
  BY <1>1, <1>2 DEF RunningKept
<1>4. HasNewest(<<o, c>>)' /\ Waiting(<<o, c>>)' = r
  <2>1. IsNewest(r, ReadyFor(<<o, c>>))'
    BY <1>2 DEF IsNewest, ReadyFor, Touch, TouchAll
  <2> QED
    BY <1>1, <2>1, WaitsAfter DEF HasNewest, CatalogInv
<1>5. ASSUME NEW j \in Keys, j # <<o, c>>
      PROVE  HasNewest(j)' /\ Waiting(j)' = IF Waiting(j) = r THEN None ELSE Waiting(j)
  <2>1. ReadyFor(j)' = ReadyFor(j) \ {r}
    BY <1>2, <1>5 DEF ReadyFor
  <2>2. Waiting(j) = Chosen(j) /\ Chosen(j) \in Runs \cup {None}
    BY <1>1, WaitingIsChosen DEF Chosen, CatalogInv, TypeOK
  <2>3. CASE Chosen(j) \in {None, r}
    BY <1>1, <2>1, <2>2, <2>3, ReadyIsChosen, WaitsAfter DEF HasNewest
  <2>4. CASE Chosen(j) \notin {None, r}
    BY <1>1, <2>1, <2>2, <2>4, ReadyIsChosen, WaitsAfter DEF CatalogInv
  <2> QED
    BY <2>3, <2>4
<1>6. \A j \in Keys : Waiting(j) = r => j[1] = o
  BY <1>1, WaitingIsChosen, ChosenOwn DEF Chosen, KeyOf
<1> QED
  BY <1>1, <1>3, <1>4, <1>5, <1>6, SelectStep

LEMMA CrashInAcquireMoves ==
    ASSUME PlacesInv, CatalogInv', NEW o \in Owners, NEW c \in Channels, NEW r \in Runs,
           NEW candidate \in Runs \cup {None}, CrashInAcquire(o, c, candidate, r)
    PROVE  Slots!Next /\ \A k \in Keys : HasNewest(k)'
<1>1. /\ <<o, c>> \in Keys /\ Alive /\ proc = "up" /\ CatalogInv
      /\ Acquires(o, c, candidate, r)
  BY DEF Keys, Alive, CrashInAcquire, Forget, PlacesInv
<1>2. /\ \A q \in Runs : status'[q] = IF q = r THEN "active" ELSE status[q]
      /\ \A q \in Runs \ {r} : KeyOf(q)' = KeyOf(q)
  BY <1>1 DEF CrashInAcquire, Activate, KeyOf, CatalogInv, TypeOK
<1>3. ASSUME NEW j \in Keys
      PROVE  HasNewest(j)' /\ Waiting(j)' = IF Waiting(j) = r THEN None ELSE Waiting(j)
  <2>1. ReadyFor(j)' = ReadyFor(j) \ {r}
    BY <1>2 DEF ReadyFor
  <2>2. Waiting(j) = Chosen(j) /\ Chosen(j) \in Runs \cup {None} /\ r # None
    BY <1>1, WaitingIsChosen, NoneAssumption DEF Chosen, CatalogInv, TypeOK
  <2>3. CASE Chosen(j) \in {None, r}
    BY <1>1, <2>1, <2>2, <2>3, ReadyIsChosen, WaitsAfter DEF HasNewest
  <2>4. CASE Chosen(j) \notin {None, r}
    BY <1>1, <2>1, <2>2, <2>4, ReadyIsChosen, WaitsAfter DEF CatalogInv
  <2> QED
    BY <2>3, <2>4
<1>4. Emptied(<<o, c>>)
  BY <1>1, <1>3, AcquiresWaiting DEF Emptied
<1> QED
  BY <1>1, <1>2, <1>3, <1>4, AcquiresWaiting, StartStep

(* Startup finds the newest run of each key again.                         *)
LEMMA ScanMoves ==
    ASSUME PlacesInv, CatalogInv', Scan
    PROVE  Slots!Next /\ \A k \in Keys : HasNewest(k)'
<1> DEFINE ready == {r \in Runs : status[r] = "prepared"}
<1> DEFINE OfKey(k) == {r \in ready : KeyOf(r) = k}
<1> DEFINE winners == {r \in ready : IsNewest(r, OfKey(KeyOf(r)))}
<1> DEFINE losers == ready \ winners
<1>1. /\ proc = "down" /\ proc' = "up"
      /\ \A r \in Runs : status'[r] = IF r \in LeftActive \cup losers THEN "interrupted"
                                      ELSE status[r]
      /\ \A k \in Keys : selected'[k] = IF \E w \in winners : KeyOf(w) = k
                                        THEN CHOOSE w \in winners : KeyOf(w) = k ELSE None
  BY DEF Scan
<1>2. \A k \in Keys : HasNewest(k)' /\ Waiting(k)' = Chosen(k)'
  BY <1>1, ChosenAfter
<1>3. ASSUME NEW k \in Keys
      PROVE  Waiting(k)' = Waiting(k)
  <2>0. OfKey(k) = ReadyFor(k)
    BY DEF ReadyFor
  <2>1. CASE ReadyFor(k) = {}
    BY <1>1, <1>2, <2>0, <2>1, NobodyWaits DEF Chosen
  <2>2. ASSUME NEW r \in Runs, IsNewest(r, ReadyFor(k))
        PROVE  Waiting(k)' = Waiting(k)
    <3>1. r \in winners /\ KeyOf(r) = k
      BY <2>0, <2>2 DEF IsNewest, ReadyFor
    <3>2. \A w \in winners : KeyOf(w) = k => w = r
      BY <2>0, <2>2 DEF IsNewest, PlacesInv, CatalogInv, Asymmetric
    <3>3. selected'[k] = r
      BY <1>1, <3>1, <3>2
    <3>4. status'[r] = "prepared" /\ r # None
      BY <1>1, <3>1, NoneAssumption DEF LeftActive
    <3>5. Waiting(k) = r
      BY <2>2, NewestWaits DEF PlacesInv, CatalogInv
    <3> QED
      BY <1>2, <3>3, <3>4, <3>5 DEF Chosen
  <2> QED
    BY <2>1, <2>2 DEF PlacesInv, HasNewest
<1>4. \A r \in Runs : status'[r] # "active"
  BY <1>1 DEF LeftActive
<1> QED
  BY <1>1, <1>2, <1>3, <1>4, RestartStep DEF PlacesKept

LEMMA CrashInScanMoves ==
    ASSUME PlacesInv, CatalogInv', NEW r \in Runs, CrashInScan(r)
    PROVE  Slots!Next /\ \A k \in Keys : HasNewest(k)'
<1>1. /\ proc = "down" /\ proc' = "down" /\ status[r] = "active"
      /\ \A q \in Runs : status'[q] = IF q = r THEN "interrupted" ELSE status[q]
      /\ older' = Touch(older, r) /\ UNCHANGED <<owner, channel>>
  BY DEF CrashInScan, PlacesInv, CatalogInv, TypeOK
<1>2. ASSUME NEW k \in Keys
      PROVE  HasNewest(k)' /\ Waiting(k)' = Waiting(k)
  <2>1. ReadyFor(k)' = ReadyFor(k) /\ r \notin ReadyFor(k)
    BY <1>1 DEF ReadyFor, KeyOf
  <2>2. \A a, b \in ReadyFor(k) : <<a, b>> \in older => <<a, b>> \in older'
    BY <1>1, <2>1 DEF Touch, TouchAll
  <2> QED
    BY <2>1, <2>2, PlaceIsKept DEF PlacesInv
<1> QED
  BY <1>1, <1>2, RestartStep DEF PlacesKept

LEMMA PlacesStep ==
    PlacesInv /\ [Next]_catalogVars => PlacesInv' /\ [Slots!Next]_(Slots!slotVars)
<1> SUFFICES ASSUME PlacesInv, [Next]_catalogVars
             PROVE  PlacesInv' /\ [Slots!Next]_(Slots!slotVars)
  OBVIOUS
<1> DEFINE Moves == Slots!Next \/ UNCHANGED Slots!slotVars
<1> DEFINE Ready == \A k \in Keys : HasNewest(k)'
<1>0. CatalogInv /\ CatalogInv'
  BY CatalogStep DEF PlacesInv
<1> SUFFICES Moves /\ Ready
  BY <1>0 DEF PlacesInv
<1>1. proc' = "up" => Ready
  BY <1>0, ChosenAfter
<1>2. ASSUME UNCHANGED <<proc, durableVars>>
      PROVE  Moves /\ Ready
  <2>1. \A k \in Keys : ReadyFor(k)' = ReadyFor(k) /\ older' = older
    BY <1>2 DEF durableVars, ReadyFor, KeyOf
  <2>2. \A k \in Keys : HasNewest(k)' /\ Waiting(k)' = Waiting(k)
    BY <1>0, <2>1, PlaceIsKept DEF PlacesInv
  <2>3. RunningKept
    BY <1>2 DEF durableVars, RunningKept
  <2> QED
    BY <1>2, <2>2, <2>3, NoStep DEF PlacesKept
<1>3. ASSUME NEW o \in Owners, NEW c \in Channels, NEW t \in Tokens,
             ReserveReset(o, c, t) \/ CancelReset(o, c, t)
      PROVE  Moves /\ Ready
  BY <1>2, <1>3 DEF ReserveReset, CancelReset
<1>4. ASSUME NEW o \in Owners, NEW c \in Channels, NEW r \in Runs,
             \/ Prepare(o, c, r) \/ Resume(o, c, r) \/ PrepareThenFail(o, c, r)
             \/ \E t \in Tokens : PrepareReserved(o, c, t, r)
      PROVE  Moves /\ Ready
  <2>1. proc' = "up"
    BY <1>4 DEF Prepare, Resume, PrepareThenFail, PrepareReserved
  <2> QED
    BY <1>0, <1>1, <1>4, <2>1, SelectionMoves
<1>5. ASSUME NEW o \in Owners, NEW c \in Channels, NEW r \in Runs,
             NEW candidate \in Runs \cup {None}, Acquire(o, c, candidate, r)
      PROVE  Moves /\ Ready
  BY <1>0, <1>1, <1>5, AcquireMoves DEF Acquire
<1>6. ASSUME NEW r \in Runs, NEW s \in TerminalStatuses, Finish(r, s)
      PROVE  Moves /\ Ready
  BY <1>0, <1>1, <1>6, FinishMoves DEF Finish
<1>7. CASE \/ \E o \in Owners, r \in Runs : Delete(o, r)
           \/ \E limit \in Runs : SweepRetention(limit)
  <2>1. proc' = "up"
    BY <1>7 DEF Delete, SweepRetention
  <2> QED
    BY <1>0, <1>1, <1>7, <2>1, DeletionMoves
<1>8. CASE \/ Crash \/ Scan \/ \E r \in Runs : CrashInScan(r)
           \/ \E o \in Owners, c \in Channels, r \in Runs : CrashInSelectPrepared(o, c, r)
           \/ \E o \in Owners, c \in Channels, r \in Runs, candidate \in Runs \cup {None} :
                 CrashInAcquire(o, c, candidate, r)
  BY <1>0, <1>8, CrashMoves, ScanMoves, CrashInScanMoves, CrashInSelectionMoves,
     CrashInAcquireMoves
<1>9. CASE UNCHANGED catalogVars
  BY <1>2, <1>9 DEF catalogVars
<1> QED
  BY <1>3, <1>4, <1>5, <1>6, <1>7, <1>8, <1>9 DEF Next

LEMMA PlacesInit == Init => PlacesInv /\ Slots!Init
<1> SUFFICES ASSUME Init PROVE PlacesInv /\ Slots!Init
  OBVIOUS
<1>1. \A k \in Keys : ReadyFor(k) = {}
  BY DEF Init, ReadyFor
<1>2. \A k \in Keys : HasNewest(k) /\ Waiting(k) = None
  BY <1>1, NobodyWaits DEF HasNewest
<1> QED
  BY <1>2, InitCatalogInv DEF PlacesInv, Init, Slots!Init, Slots!Places, Keys

(* The catalog keeps the places of its users: what was selected last for a *)
(* key is what its next goal runs, whatever happens elsewhere and wherever *)
(* the bot dies, inside a selection, a start or the startup included.      *)
THEOREM CatalogImplementsSlots == Spec => SelectionsSurvive
  BY PlacesInit, PlacesStep, PTL DEF Spec, SelectionsSurvive, Slots!SlotSpec
=============================================================================
