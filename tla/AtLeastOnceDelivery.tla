------------------------- MODULE AtLeastOnceDelivery -------------------------
(***************************************************************************)
(* What the framework promises of a broker that keeps failed messages:     *)
(* a published message waits in the queue, is delivered, and is settled    *)
(* (acknowledged) only after some handler has succeeded with it.  It may   *)
(* be handled more than once, and never disappears without having been    *)
(* handled ("at least once", README.md).                                   *)
(* This is a contract, stated without any of the Redis machinery;          *)
(* RedisDelivery implements it.                                            *)
(***************************************************************************)
CONSTANT Messages

VARIABLES
    queued,     \* published, not yet given to any consumer
    inflight,   \* given to a consumer, not yet acknowledged
    settled,    \* acknowledged: will not be delivered again
    handled     \* a handler has returned success for it at least once

vars == <<queued, inflight, settled, handled>>

TypeOK ==
    /\ queued \subseteq Messages
    /\ inflight \subseteq Messages
    /\ settled \subseteq Messages
    /\ handled \subseteq Messages

Init ==
    /\ queued = {}
    /\ inflight = {}
    /\ settled = {}
    /\ handled = {}

Publish(m) ==
    /\ m \notin queued \cup inflight \cup settled
    /\ queued' = queued \cup {m}
    /\ UNCHANGED <<inflight, settled, handled>>

\* A consumer takes a batch off the queue.
Deliver(batch) ==
    /\ batch \subseteq queued
    /\ queued' = queued \ batch
    /\ inflight' = inflight \cup batch
    /\ UNCHANGED <<settled, handled>>

\* A handler succeeds.  A second consumer may still be at work on a message
\* the first one has acknowledged, so a settled message may be handled too.
Handle(m) ==
    /\ m \in inflight \cup settled
    /\ handled' = handled \cup {m}
    /\ UNCHANGED <<queued, inflight, settled>>

Settle(m) ==
    /\ m \in inflight \cap handled
    /\ inflight' = inflight \ {m}
    /\ settled' = settled \cup {m}
    /\ UNCHANGED <<queued, handled>>

Next ==
    \/ \E m \in Messages : Publish(m) \/ Handle(m) \/ Settle(m)
    \/ \E batch \in SUBSET Messages : Deliver(batch)

Spec == Init /\ [][Next]_vars

\* Nothing is settled unhandled, and no message is in two places at once.
AtLeastOnce ==
    /\ settled \subseteq handled
    /\ queued \cap inflight = {}
    /\ queued \cap settled = {}
    /\ inflight \cap settled = {}
=============================================================================
