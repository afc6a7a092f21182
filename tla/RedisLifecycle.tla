--------------------------- MODULE RedisLifecycle ---------------------------
(***************************************************************************)
(* Connect, Disconnect, Subscribe and Unsubscribe of the Redis broker      *)
(* (src/broker/redis/redis.go) called by several goroutines at once, the   *)
(* consumeLoop goroutine of every subscription, and handlers that publish. *)
(*                                                                         *)
(* The broker's mutex is lockedBy.  A critical section without a network   *)
(* call is one action; Connect keeps the mutex over its PING and Subscribe *)
(* over its XGROUP CREATE.  Closing disconnectDone wakes every waiter.     *)
(* What a loop does with messages is RedisDelivery's business: here it     *)
(* polls, handles (and may publish meanwhile) or has exited.               *)
(***************************************************************************)
EXTENDS Naturals, FiniteSets

CONSTANTS
    Callers,    \* goroutines that use the broker
    Subs,       \* pool of redisSubscriber objects, reused once they are garbage
    None        \* no holder of the mutex, no target

ASSUME NoneIsNobody == None \notin Callers \cup Subs

VARIABLES
    connected,      \* redisBroker.connected
    disconnecting,  \* redisBroker.disconnectDone # nil
    lockedBy,       \* holder of redisBroker's mutex across a network call
    subscribers,    \* redisBroker.subscribers
    loop,           \* the consumeLoop of each subscription
    stopped,        \* subscriptions whose context is cancelled
    pc,             \* what each caller is doing
    target,         \* the subscription a caller is creating or unsubscribing
    draining        \* the subscriptions a Disconnect has taken over

broker == <<connected, disconnecting, lockedBy, subscribers>>
vars == <<connected, disconnecting, lockedBy, subscribers, loop, stopped,
          pc, target, draining>>

Calls == {"connect", "disconnect", "subscribe", "unsubscribe"}
Waits == {"ping", "awaitOther", "awaitThenConnect", "drain", "finish", "setup", "awaitLoop"}
Live  == {"polling", "handling", "publishing", "published"}

TypeOK ==
    /\ connected \in BOOLEAN
    /\ disconnecting \in BOOLEAN
    /\ lockedBy \in Callers \cup {None}
    /\ subscribers \subseteq Subs
    /\ loop \in [Subs -> Live \cup {"none", "exited"}]
    /\ stopped \subseteq Subs
    /\ pc \in [Callers -> {"idle"} \cup Calls \cup Waits]
    /\ target \in [Callers -> Subs \cup {None}]
    /\ draining \in [Callers -> SUBSET Subs]

Init ==
    /\ connected = FALSE
    /\ disconnecting = FALSE
    /\ lockedBy = None
    /\ subscribers = {}
    /\ loop = [s \in Subs |-> "none"]
    /\ stopped = {}
    /\ pc = [t \in Callers |-> "idle"]
    /\ target = [t \in Callers |-> None]
    /\ draining = [t \in Callers |-> {}]

Running == {s \in Subs : loop[s] \in Live}
Goto(t, place) == pc' = [pc EXCEPT ![t] = place]

\* An object of the pool that nobody refers to.
Unused(s) ==
    /\ s \notin Running \cup subscribers
    /\ \A u \in Callers : target[u] # s /\ s \notin draining[u]

\* Any caller may call anything at any time: Subscribe makes a new subscription
\* (within the bound), Unsubscribe needs one.
Call(t) ==
    /\ pc[t] = "idle"
    /\ \/ \E op \in {"connect", "disconnect"} : Goto(t, op) /\ UNCHANGED target
       \/ \E s \in Subs : /\ Unused(s)
                          /\ target' = [target EXCEPT ![t] = s]
                          /\ Goto(t, "subscribe")
       \/ \E s \in Subs : /\ loop[s] # "none"
                          /\ \A u \in Callers : target[u] = s => pc[u] \in {"unsubscribe", "awaitLoop"}
                          /\ target' = [target EXCEPT ![t] = s]
                          /\ Goto(t, "unsubscribe")
    /\ UNCHANGED <<broker, loop, stopped, draining>>

-----------------------------------------------------------------------------
(* Connect *)

NeverWaits == FALSE
MustAwaitDisconnect == disconnecting

\* Under the mutex: a Disconnect in progress is awaited before trying again, a
\* connected broker is left alone, otherwise PING with the mutex held.
ConnectStart(t) ==
    /\ pc[t] = "connect"
    /\ lockedBy = None
    /\ \/ /\ MustAwaitDisconnect
          /\ Goto(t, "awaitThenConnect")
          /\ UNCHANGED lockedBy
       \/ /\ ~MustAwaitDisconnect
          /\ connected
          /\ Goto(t, "idle")
          /\ UNCHANGED lockedBy
       \/ /\ ~MustAwaitDisconnect
          /\ ~connected
          /\ Goto(t, "ping")
          /\ lockedBy' = t
    /\ UNCHANGED <<connected, disconnecting, subscribers, loop, stopped, target, draining>>

\* PING answers or fails within its five seconds.
ConnectEnd(t) ==
    /\ pc[t] = "ping"
    /\ connected' \in BOOLEAN
    /\ lockedBy' = None
    /\ Goto(t, "idle")
    /\ UNCHANGED <<disconnecting, subscribers, loop, stopped, target, draining>>

-----------------------------------------------------------------------------
(* Disconnect *)

NotCancelled(subs) == stopped
Cancelled(subs) == stopped \cup subs

\* Under the mutex: take the subscriptions over, then cancel them all without it.
DisconnectStart(t) ==
    /\ pc[t] = "disconnect"
    /\ lockedBy = None
    /\ \/ /\ disconnecting
          /\ Goto(t, "awaitOther")
          /\ UNCHANGED <<broker, stopped, draining>>
       \/ /\ ~disconnecting
          /\ ~connected
          /\ Goto(t, "idle")
          /\ UNCHANGED <<broker, stopped, draining>>
       \/ /\ ~disconnecting
          /\ connected
          /\ connected' = FALSE
          /\ disconnecting' = TRUE
          /\ subscribers' = {}
          /\ draining' = [draining EXCEPT ![t] = subscribers]
          /\ stopped' = Cancelled(subscribers)
          /\ UNCHANGED lockedBy
          /\ Goto(t, "drain")
    /\ UNCHANGED <<loop, target>>

\* A slip: waiting only for the loops nobody is unsubscribing.
UntargetedDrained(t) ==
    draining[t] \cap Running \subseteq {target[u] : u \in Callers}
\* Every sub.done is closed.
Drained(t) == draining[t] \cap Running = {}

DisconnectDrained(t) ==
    /\ pc[t] = "drain"
    /\ Drained(t)
    /\ draining' = [draining EXCEPT ![t] = {}]
    /\ Goto(t, "finish")
    /\ UNCHANGED <<broker, loop, stopped, target>>

\* Closing disconnectDone: other Disconnects return, waiting Connects try again.
Woken(place) ==
    CASE place = "awaitOther"       -> "idle"
      [] place = "awaitThenConnect" -> "connect"
      [] OTHER                      -> place

DisconnectEnd(t) ==
    /\ pc[t] = "finish"
    /\ lockedBy = None
    /\ disconnecting' = FALSE
    /\ pc' = [u \in Callers |-> IF u = t THEN "idle" ELSE Woken(pc[u])]
    /\ UNCHANGED <<connected, lockedBy, subscribers, loop, stopped, target, draining>>

-----------------------------------------------------------------------------
(* Subscribe and Unsubscribe *)

SetupUnlocked(t) == lockedBy' = None
SetupLocked(t) == lockedBy' = t

\* Subscribe on a connected broker: XGROUP CREATE with the mutex held.
SubscribeStart(t) ==
    /\ pc[t] = "subscribe"
    /\ lockedBy = None
    /\ \/ /\ ~connected
          /\ target' = [target EXCEPT ![t] = None]
          /\ Goto(t, "idle")
          /\ UNCHANGED lockedBy
       \/ /\ connected
          /\ SetupLocked(t)
          /\ Goto(t, "setup")
          /\ UNCHANGED target
    /\ UNCHANGED <<connected, disconnecting, subscribers, loop, stopped, draining>>

NilSubscription(t) == None
NewSubscription(t) == target[t]

\* The group exists: register the subscription and start its loop; or setup
\* failed and nothing is left of it.
SubscribeEnd(t) ==
    /\ pc[t] = "setup"
    /\ \/ /\ subscribers' = subscribers \cup {NewSubscription(t)}
          /\ loop' = [loop EXCEPT ![NewSubscription(t)] = "polling"]
          /\ stopped' = stopped \ {NewSubscription(t)}
       \/ UNCHANGED <<subscribers, loop, stopped>>
    /\ lockedBy' = None
    /\ target' = [target EXCEPT ![t] = None]
    /\ Goto(t, "idle")
    /\ UNCHANGED <<connected, disconnecting, draining>>

\* Unsubscribe cancels without the mutex, and leaves b.subscribers alone.
UnsubscribeStart(t) ==
    /\ pc[t] = "unsubscribe"
    /\ stopped' = stopped \cup {target[t]}
    /\ Goto(t, "awaitLoop")
    /\ UNCHANGED <<broker, loop, target, draining>>

UnsubscribeEnd(t) ==
    /\ pc[t] = "awaitLoop"
    /\ target[t] \notin Running
    /\ target' = [target EXCEPT ![t] = None]
    /\ Goto(t, "idle")
    /\ UNCHANGED <<broker, loop, stopped, draining>>

-----------------------------------------------------------------------------
(* consumeLoop and its handler *)

Move(s, from, to) ==
    /\ loop[s] \in from
    /\ loop' = [loop EXCEPT ![s] = to]
    /\ UNCHANGED <<broker, stopped, pc, target, draining>>

\* A message may come until the loop has seen the cancellation.
Handle(s) == s \notin stopped /\ Move(s, {"polling"}, "handling")

HandlerPublishes(s) == Move(s, {"handling"}, "publishing")

\* Publish takes the read lock to look at connected.
PublishReturns(s) == lockedBy = None /\ Move(s, {"publishing"}, "published")

HandlerReturns(s) == Move(s, {"handling", "published"}, "polling")

\* The loop sees that its context is done and closes sub.done.
LoopExits(s) == s \in stopped /\ Move(s, {"polling"}, "exited")

\* The context given to Subscribe is cancelled by the application.
ParentCancelled(s) ==
    /\ s \in Running \ stopped
    /\ stopped' = stopped \cup {s}
    /\ UNCHANGED <<broker, loop, pc, target, draining>>

-----------------------------------------------------------------------------
\* Steps that take the mutex; Go's mutexes do not starve a waiter.
Locks(t) ==
    ConnectStart(t) \/ DisconnectStart(t) \/ DisconnectEnd(t) \/ SubscribeStart(t)

\* Steps that need no mutex: they only wait for the network or for loops.
Continues(t) ==
    ConnectEnd(t) \/ DisconnectDrained(t) \/ SubscribeEnd(t)
    \/ UnsubscribeStart(t) \/ UnsubscribeEnd(t)

LoopGoesOn(s) == HandlerReturns(s) \/ LoopExits(s)

Next ==
    \/ \E t \in Callers : Call(t) \/ Locks(t) \/ Continues(t)
    \/ \E s \in Subs : \/ Handle(s) \/ HandlerPublishes(s) \/ PublishReturns(s)
                       \/ LoopGoesOn(s) \/ ParentCancelled(s)

Spec == Init /\ [][Next]_vars

\* Goroutines are scheduled, commands are answered or time out, handlers
\* return, and the mutex is fair.  Nobody has to call anything.
Fairness ==
    /\ \A t \in Callers : SF_vars(Locks(t)) /\ WF_vars(Continues(t))
    /\ \A s \in Subs : SF_vars(PublishReturns(s)) /\ WF_vars(LoopGoesOn(s))

FairSpec == Spec /\ Fairness

-----------------------------------------------------------------------------
(* Properties *)

\* "Keep registration atomic with respect to Disconnect": once no connection is
\* up or being taken down, no loop of any subscription is left running.
QuietWhenDown == ~connected /\ ~disconnecting => Running = {}

\* A running loop is always one that the next or the current Disconnect waits
\* for, across reconnections: none is ever out of the broker's reach.
LoopsAccounted ==
    Running \subseteq subscribers \cup UNION {draining[t] : t \in Callers}

\* While a Disconnect drains, it is the only one and no connection is up, so
\* disconnectDone is closed once, by the Disconnect that made it (closing a nil
\* or closed channel panics), and a Connect meanwhile does not revive the broker.
DrainsAlone ==
    /\ Cardinality({t \in Callers : pc[t] \in {"drain", "finish"}}) <= 1
    /\ disconnecting <=> \E t \in Callers : pc[t] \in {"drain", "finish"}
    /\ disconnecting => ~connected

Connecting == {"connect", "ping", "awaitThenConnect"}

\* Disconnect, Subscribe and Unsubscribe return, although handlers publish while
\* they are drained ("Never hold the broker lock while draining handlers: a
\* handler may publish").  Connect waits for Disconnects in progress, and returns
\* once they stop coming; callers that disconnect for ever may overtake it each
\* time it wakes up.
CallsReturn ==
    /\ \A t \in Callers : pc[t] \notin Connecting \cup {"idle"} ~> pc[t] = "idle"
    /\ <>[]~disconnecting => \A t \in Callers : pc[t] \in Connecting ~> pc[t] = "idle"
=============================================================================
