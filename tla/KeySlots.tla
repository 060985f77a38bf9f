------------------------------ MODULE KeySlots ------------------------------
(***************************************************************************)
(* What the catalog of runs promises its users (run_workspace.py): each    *)
(* pair of a user and a channel has a place where at most one run waits    *)
(* for the next goal.  The run selected last waits there, a goal takes it  *)
(* before anything else, and it leaves the place in no other way than by   *)
(* being selected elsewhere or discarded by the living bot.  The places    *)
(* are durable: death and restart end the runs that execute and lose or    *)
(* change nothing else.  RunCatalog keeps its selections in memory and     *)
(* several files; it is shown to implement this.                           *)
(***************************************************************************)
CONSTANTS
    Owners,     \* Discord users
    Channels,   \* Discord channels
    Runs,       \* run ids
    None        \* no run

VARIABLES
    slot,       \* the run that waits in each place
    running,    \* the runs that execute
    up          \* the bot lives

slotVars == <<slot, running, up>>

Places == Owners \X Channels
Waits(r) == \E k \in Places : slot[k] = r

Init ==
    /\ slot = [k \in Places |-> None]
    /\ running = {}
    /\ up = TRUE

(* A command makes r wait in k: a new run, or one of the same user.  The   *)
(* bot may die once that is on disk.                                       *)
Select(k, r) ==
    /\ up /\ up' \in BOOLEAN
    /\ r \notin running
    /\ \A j \in Places : slot[j] = r => j[1] = k[1]
    /\ slot' = [j \in Places |-> IF j = k THEN r ELSE IF slot[j] = r THEN None ELSE slot[j]]
    /\ UNCHANGED running

(* A goal in k takes the run that waits there; only where none waits does  *)
(* it take another, which waits nowhere.  The bot may die after it.        *)
Start(k, r) ==
    /\ up /\ up' \in BOOLEAN
    /\ r \notin running
    /\ \/ slot[k] = r
       \/ slot[k] = None /\ ~Waits(r)
    /\ slot' = [slot EXCEPT ![k] = None]
    /\ running' = running \cup {r}

(* The run that waits in k is deleted, or cannot be used.                  *)
Drop(k) ==
    /\ up
    /\ slot' = [slot EXCEPT ![k] = None]
    /\ UNCHANGED <<running, up>>

End(r) ==
    /\ up
    /\ running' = running \ {r}
    /\ UNCHANGED <<slot, up>>

Die ==
    /\ up /\ up' = FALSE
    /\ UNCHANGED <<slot, running>>

(* Startup ends what executed when the bot died, run after run, and may    *)
(* die itself before it is done.                                           *)
Restart ==
    /\ ~up /\ up' \in BOOLEAN
    /\ running' \subseteq running
    /\ up' => running' = {}
    /\ UNCHANGED slot

Next ==
    \/ \E k \in Places, r \in Runs : Select(k, r) \/ Start(k, r)
    \/ \E k \in Places : Drop(k)
    \/ \E r \in running : End(r)
    \/ Die \/ Restart

SlotSpec == Init /\ [][Next]_slotVars
=============================================================================
