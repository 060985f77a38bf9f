--------------------------- MODULE SteeringMailbox ---------------------------
(***************************************************************************)
(* SteeringMailbox (steering.py): the bounded queue through which users    *)
(* instruct a run that is already executing.                               *)
(*                                                                         *)
(* The mailbox tells the sender what became of a message when it arrives,  *)
(* and an accepted message is settled once, when it is handed to the run   *)
(* or when the mailbox closes.  What is pending is handed over all at once *)
(* and in order, so the order carries no choice and is left out, as are    *)
(* the timestamps and the counters.                                        *)
(***************************************************************************)
EXTENDS Naturals, FiniteSets

CONSTANTS
    Messages,   \* messages sent to the channel while the run executes
    Says,       \* the author and the text of each message
    MaxDepth    \* max_depth

ASSUME MessagesAssumption == IsFiniteSet(Messages)
ASSUME MaxDepthAssumption == MaxDepth \in Nat \ {0}

VARIABLES
    isOpen,         \* _open
    closedReason,   \* _closed_reason
    fate            \* what became of each message

mailboxVars == <<isOpen, closedReason, fate>>

Reasons == {"no_loop", "terminal"}
Settled == {"applied", "cancelled"}
Fates == {"unsent", "queued", "coalesced", "queue_full"} \cup Reasons \cup Settled

MailboxTypeOK ==
    /\ isOpen \in BOOLEAN
    /\ closedReason \in Reasons
    /\ fate \in [Messages -> Fates]

MailboxInit ==
    /\ isOpen = FALSE
    /\ closedReason = "no_loop"
    /\ fate = [m \in Messages |-> "unsent"]

(* The messages waiting in _pending. *)
Pending == {m \in Messages : fate[m] = "queued"}
Twins(m) == {n \in Messages : Says[n] = Says[m]}

Receive(m, f) ==
    /\ fate[m] = "unsent"
    /\ fate' = [fate EXCEPT ![m] = f]
    /\ UNCHANGED <<isOpen, closedReason>>

AcceptPastBound(m) == isOpen /\ Pending \cap Twins(m) = {} /\ Receive(m, "queued")

(* offer() when closed, for a repetition, when full, and otherwise. *)
Refuse(m) == ~isOpen /\ Receive(m, closedReason)
Coalesce(m) == isOpen /\ Pending \cap Twins(m) # {} /\ Receive(m, "coalesced")
Overflow(m) ==
    /\ isOpen
    /\ Pending \cap Twins(m) = {}
    /\ Cardinality(Pending) >= MaxDepth
    /\ Receive(m, "queue_full")
Accept(m) ==
    /\ isOpen
    /\ Pending \cap Twins(m) = {}
    /\ Cardinality(Pending) < MaxDepth
    /\ Receive(m, "queued")

Offer(m) == Refuse(m) \/ Coalesce(m) \/ Overflow(m) \/ Accept(m)

Settle(s) == fate' = [m \in Messages |-> IF fate[m] = "queued" THEN s ELSE fate[m]]

Open ==
    /\ isOpen' = TRUE
    /\ UNCHANGED <<closedReason, fate>>

Drain ==
    /\ Settle("applied")
    /\ UNCHANGED <<isOpen, closedReason>>

Close ==
    /\ isOpen' = FALSE
    /\ closedReason' = "terminal"
    /\ Settle("cancelled")

MailboxNext == (\E m \in Messages : Offer(m)) \/ Open \/ Drain \/ Close
MailboxSpec == MailboxInit /\ [][MailboxNext]_mailboxVars

-----------------------------------------------------------------------------
(* Correctness.                                                            *)

(* What the sender is told stays true whatever order offers, hand-overs    *)
(* and the close come in: nothing waits in a closed mailbox, the promised  *)
(* places never exceed the bound, no instruction waits twice, and a        *)
(* message merged into an equal one is merged into one that was accepted.  *)
ReceiptsAreTrue ==
    /\ ~isOpen => Pending = {}
    /\ Cardinality(Pending) <= MaxDepth
    /\ \A m, n \in Pending : Says[m] = Says[n] => m = n
    /\ \A m \in Messages :
          fate[m] = "coalesced"
              => \E n \in Twins(m) : fate[n] \in {"queued"} \cup Settled
=============================================================================
