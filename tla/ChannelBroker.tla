---------------------------- MODULE ChannelBroker ----------------------------
(***************************************************************************)
(* The in-process channel broker (src/broker/mchannel/channel.go) on one   *)
(* topic: a bounded queue and a reader goroutine per subscriber, Publish   *)
(* offering each message to one member of every group, the goroutine it    *)
(* spawns when all of a group's queues are full, and Unsubscribe,          *)
(* Disconnect and Connect running beside it.  Every message is published   *)
(* by a goroutine of its own, so that publishes overlap.                   *)
(***************************************************************************)
EXTENDS Naturals, Sequences, FiniteSets

CONSTANTS
    Subs,       \* channelSubscriber objects that may be created, once each
    Msgs,       \* messages that may be published, once each
    GroupOf,    \* the group of each subscriber: opts.Queue, or its own id
    Limit,      \* capacity of a subscriber's queue (WithQueueLimit)
    MayStop     \* whether anybody calls Unsubscribe or Disconnect

ASSUME LimitPositive == Limit \in Nat \ {0}
ASSUME MayStopType == MayStop \in BOOLEAN

Groups == {GroupOf[s] : s \in Subs}

VARIABLES
    connected,   \* channelBroker.connected
    registered,  \* m.subscribers[topic], in order of registration
    reader,      \* the reader goroutine of each subscriber
    exit,        \* a token is or was in the subscriber's exit channel
    queue,       \* the subscriber's queue
    blocked,     \* messages whose goroutine waits to enter that queue
    pc,          \* the Publish of each message
    snapshot,    \* the subscriber slice that Publish read under the lock
    todo,        \* groups it has not served yet
    tried,       \* members of the group in turn whose queues were full
    handled      \* history: subscribers whose handler got the message

subscribers == <<registered, reader, exit>>
publishes == <<pc, snapshot, todo, tried>>
vars == <<connected, registered, reader, exit, queue, blocked,
          pc, snapshot, todo, tried, handled>>

Elements(seq) == {seq[i] : i \in DOMAIN seq}

TypeOK ==
    /\ connected \in BOOLEAN
    /\ registered \in Seq(Subs)
    /\ reader \in [Subs -> {"none", "checked", "idle", "busy", "gone"}]
    /\ exit \in [Subs -> BOOLEAN]
    /\ queue \in [Subs -> Seq(Msgs)]
    /\ \A s \in Subs : Len(queue[s]) <= Limit
    /\ blocked \in [Subs -> SUBSET Msgs]
    /\ pc \in [Msgs -> {"new", "sending", "sent", "refused"}]
    /\ snapshot \in [Msgs -> Seq(Subs)]
    /\ todo \in [Msgs -> SUBSET Groups]
    /\ tried \in [Msgs -> SUBSET Subs]
    /\ handled \in [Msgs -> SUBSET Subs]

Init ==
    /\ connected = TRUE
    /\ registered = <<>>
    /\ reader = [s \in Subs |-> "none"]
    /\ exit = [s \in Subs |-> FALSE]
    /\ queue = [s \in Subs |-> <<>>]
    /\ blocked = [s \in Subs |-> {}]
    /\ pc = [m \in Msgs |-> "new"]
    /\ snapshot = [m \in Msgs |-> <<>>]
    /\ todo = [m \in Msgs |-> {}]
    /\ tried = [m \in Msgs |-> {}]
    /\ handled = [m \in Msgs |-> {}]

-----------------------------------------------------------------------------
(* Connect, Disconnect, Subscribe, Unsubscribe *)

Connect ==
    /\ ~connected
    /\ connected' = TRUE
    /\ UNCHANGED <<subscribers, queue, blocked, publishes, handled>>

\* Disconnect tells every registered reader to exit.  It does not forget them.
Disconnect ==
    /\ MayStop
    /\ connected
    /\ connected' = FALSE
    /\ exit' = [s \in Subs |-> exit[s] \/ s \in Elements(registered)]
    /\ UNCHANGED <<registered, reader, queue, blocked, publishes, handled>>

\* Subscribe looks at connected under the read lock ...
SubscribeChecks(s) ==
    /\ reader[s] = "none"
    /\ connected
    /\ reader' = [reader EXCEPT ![s] = "checked"]
    /\ UNCHANGED <<connected, registered, exit, queue, blocked, publishes, handled>>

\* ... and registers under the write lock, whatever happened in between.
SubscribeRegisters(s) ==
    /\ reader[s] = "checked"
    /\ registered' = Append(registered, s)
    /\ reader' = [reader EXCEPT ![s] = "idle"]
    /\ UNCHANGED <<connected, exit, queue, blocked, publishes, handled>>

\* Unsubscribe leaves a token for the reader; the subscriber stays registered.
Unsubscribe(s) ==
    /\ MayStop
    /\ reader[s] \in {"idle", "busy"}
    /\ exit' = [exit EXCEPT ![s] = TRUE]
    /\ UNCHANGED <<connected, registered, reader, queue, blocked, publishes, handled>>

-----------------------------------------------------------------------------
(* Publish *)

PublishStart(m) ==
    /\ pc[m] = "new"
    /\ \/ /\ ~connected
          /\ pc' = [pc EXCEPT ![m] = "refused"]
          /\ UNCHANGED <<snapshot, todo>>
       \/ /\ connected
          /\ pc' = [pc EXCEPT ![m] = "sending"]
          /\ snapshot' = [snapshot EXCEPT ![m] = registered]
          /\ todo' = [todo EXCEPT ![m] = {GroupOf[s] : s \in Elements(registered)}]
    /\ UNCHANGED <<connected, subscribers, queue, blocked, tried, handled>>

Members(m, g) == {s \in Elements(snapshot[m]) : GroupOf[s] = g}
Place(m, s) == CHOOSE i \in DOMAIN snapshot[m] : snapshot[m][i] = s
FirstOf(m, members) == CHOOSE s \in members : \A t \in members : Place(m, s) <= Place(m, t)

\* Groups are served one after the other, in any order (Go's map order).
InTurn(m, g) == g \in todo[m] /\ \A s \in tried[m] : GroupOf[s] = g
Untried(m, g) == Members(m, g) \ tried[m]

NextMember(m, s) ==
    /\ tried' = [tried EXCEPT ![m] = @ \cup {s}]
    /\ UNCHANGED todo

NextGroup(m, g) ==
    /\ todo' = [todo EXCEPT ![m] = @ \ {g}]
    /\ tried' = [tried EXCEPT ![m] = {}]

AlwaysRoom(s) == TRUE
HasRoom(s) == Len(queue[s]) < Limit

NoBreak(m, g, s) == IF Untried(m, g) = {s} THEN NextGroup(m, g) ELSE NextMember(m, s)
AfterSend(m, g, s) == NextGroup(m, g)

\* The message is offered to the members one by one; the first to have room
\* when its turn comes gets it.
Offer(m, g) ==
    /\ InTurn(m, g)
    /\ Untried(m, g) # {}
    /\ LET s == FirstOf(m, Untried(m, g)) IN
         \/ /\ HasRoom(s)
            /\ queue' = [queue EXCEPT ![s] = Append(@, m)]
            /\ AfterSend(m, g, s)
         \/ /\ ~HasRoom(s)
            /\ NextMember(m, s)
            /\ UNCHANGED queue
    /\ UNCHANGED <<connected, subscribers, blocked, pc, snapshot, handled>>

\* None had room: a goroutine is left waiting on the first member's queue.
Spill(m, g) ==
    /\ InTurn(m, g)
    /\ Untried(m, g) = {}
    /\ blocked' = [blocked EXCEPT ![FirstOf(m, Members(m, g))] = @ \cup {m}]
    /\ NextGroup(m, g)
    /\ UNCHANGED <<connected, subscribers, queue, pc, snapshot, handled>>

PublishEnd(m) ==
    /\ pc[m] = "sending"
    /\ todo[m] = {}
    /\ pc' = [pc EXCEPT ![m] = "sent"]
    /\ UNCHANGED <<connected, subscribers, queue, blocked, snapshot, todo, tried, handled>>

\* A waiting goroutine gets its message into the queue, in no particular order.
Unblock(s, m) ==
    /\ m \in blocked[s]
    /\ HasRoom(s)
    /\ blocked' = [blocked EXCEPT ![s] = @ \ {m}]
    /\ queue' = [queue EXCEPT ![s] = Append(@, m)]
    /\ UNCHANGED <<connected, subscribers, publishes, handled>>

-----------------------------------------------------------------------------
(* The reader goroutine *)

TakeAndDrop(s, m) == handled' = handled
TakeAndHandle(s, m) == handled' = [handled EXCEPT ![m] = @ \cup {s}]

\* select picks the queue, even when the exit token is there too.
Read(s) ==
    /\ reader[s] = "idle"
    /\ queue[s] # <<>>
    /\ queue' = [queue EXCEPT ![s] = Tail(@)]
    /\ TakeAndHandle(s, Head(queue[s]))
    /\ reader' = [reader EXCEPT ![s] = "busy"]
    /\ UNCHANGED <<connected, registered, exit, blocked, publishes>>

\* The handler returns; its error is only logged.
HandlerReturns(s) ==
    /\ reader[s] = "busy"
    /\ reader' = [reader EXCEPT ![s] = "idle"]
    /\ UNCHANGED <<connected, registered, exit, queue, blocked, publishes, handled>>

\* select picks the exit token: what is queued stays where it is.
ReaderExits(s) ==
    /\ reader[s] = "idle"
    /\ exit[s]
    /\ reader' = [reader EXCEPT ![s] = "gone"]
    /\ UNCHANGED <<connected, registered, exit, queue, blocked, publishes, handled>>

-----------------------------------------------------------------------------
PublishStep(m) == (\E g \in Groups : Offer(m, g) \/ Spill(m, g)) \/ PublishEnd(m)
ReaderStep(s) == Read(s) \/ HandlerReturns(s)

Next ==
    \/ Connect \/ Disconnect
    \/ \E s \in Subs : \/ SubscribeChecks(s) \/ SubscribeRegisters(s) \/ Unsubscribe(s)
                       \/ ReaderStep(s) \/ ReaderExits(s)
                       \/ \E m \in Msgs : Unblock(s, m)
    \/ \E m \in Msgs : PublishStart(m) \/ PublishStep(m)

Spec == Init /\ [][Next]_vars

\* Goroutines are scheduled and handlers return.  Weak fairness is enough: only
\* so many messages can take the room a waiting goroutine is waiting for.
Fairness ==
    /\ \A m \in Msgs : WF_vars(PublishStep(m))
    /\ \A s \in Subs : /\ WF_vars(SubscribeRegisters(s))
                       /\ WF_vars(ReaderStep(s))
                       /\ WF_vars(ReaderExits(s))
                       /\ WF_vars(\E m \in Msgs : Unblock(s, m))

FairSpec == Spec /\ Fairness

-----------------------------------------------------------------------------
(* Properties *)

HasGot(s, m) == m \in Elements(queue[s]) \/ m \in blocked[s] \/ s \in handled[m]

\* "a shared subscription where each receives a subset of messages": no message
\* reaches two members of a group, whatever room their queues had, and in none
\* of them twice.
OncePerGroup ==
    /\ \A m \in Msgs : \A s, t \in Subs :
          s # t /\ GroupOf[s] = GroupOf[t] => ~(HasGot(s, m) /\ HasGot(t, m))
    /\ \A s \in Subs : /\ Cardinality(Elements(queue[s])) = Len(queue[s])
                       /\ \A m \in blocked[s] : m \notin Elements(queue[s])
                       /\ \A m \in Elements(queue[s]) \cup blocked[s] : s \notin handled[m]

HandledIn(g, m) == \E s \in handled[m] : GroupOf[s] = g
TakenToExit(m, g) == \E s \in Members(m, g) : HasGot(s, m) /\ exit[s]

\* Full queues delay a message but lose none: once published, each group handles
\* it, unless the one member that has it is told to exit.
GroupServedUnlessStopped ==
    \A m \in Msgs : \A g \in Groups :
        (pc[m] = "sent" /\ Members(m, g) # {}) ~> (HandledIn(g, m) \/ TakenToExit(m, g))
=============================================================================
