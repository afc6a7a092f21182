----------------------------- MODULE KafkaBroker -----------------------------
(***************************************************************************)
(* The life cycle of the Kafka broker (src/broker/kafka/kafka.go): calls   *)
(* of Connect, Disconnect, Publish, Subscribe and Unsubscribe by several   *)
(* goroutines, and the handlers of its consumer groups, which may publish. *)
(* What a group consumes is the subject of KafkaGroup; here a handler may  *)
(* be called as long as the group is open, and Close waits for it.  Who    *)
(* makes which calls is up to the module that extends this one.  A         *)
(* definition marked as a slip is used nowhere: it is what the code could  *)
(* wrongly be.                                                             *)
(***************************************************************************)
EXTENDS Naturals, FiniteSets

CONSTANTS
    Callers,
    Subs,        \* subscriptions that may be made, once each
    None,
    Buffer       \* capacity of the producer's channel of successes

ASSUME NoneIsNone == None \notin Callers \cup Subs
ASSUME BufferIsPositive == Buffer \in Nat \ {0}

VARIABLES
    channels,    \* which channels the options ask to forward answers to
    lock,        \* who holds scMutex
    connected, client, producer, cgs,   \* the fields of kBroker
    unread,      \* answers in the producer's channel of successes
    pc,          \* the call a caller is in
    sub,         \* the subscription it is busy with
    failed,      \* whether its last call returned an error
    group,       \* the sarama.ConsumerGroup of a subscription
    handler,     \* the handler call its goroutine is in
    lost,        \* history: subscriptions that a Connect dropped from cgs
    refused      \* history: who published without an open producer

conn == <<channels, connected, client, producer, cgs, lost>>
calls == <<lock, pc, sub, failed>>
publishing == <<unread, refused>>
broker == <<conn, calls, group, handler, publishing>>

BrokerTypeOK ==
    /\ channels \subseteq {"errors", "successes"}
    /\ lock \in Callers \cup {None}
    /\ connected \in BOOLEAN
    /\ {client, producer} \subseteq {"none", "open", "closed"}
    /\ cgs \subseteq Subs /\ lost \subseteq Subs
    /\ unread \in 0..Buffer
    /\ pc \in [Callers -> {"idle", "connecting", "disconnecting", "registering",
                           "unsubscribing", "publishing"}]
    /\ sub \in [Callers -> Subs \cup {None}]
    /\ failed \in [Callers -> BOOLEAN]
    /\ group \in [Subs -> {"none", "open", "closing", "closed"}]
    /\ handler \in [Subs -> {"none", "running", "publishing", "published"}]
    /\ refused \subseteq Callers \cup Subs
    \* only Disconnect holds the mutex for longer than a step
    /\ \A c \in Callers : lock = c <=> pc[c] = "disconnecting"

-----------------------------------------------------------------------------
(* Options *)

\* One option that is given both channels keeps the one for errors only.
AsyncProducer(errors, successes) ==
    IF errors THEN {"errors"} ELSE IF successes THEN {"successes"} ELSE {}

\* The producer is asynchronous if there is a channel for errors.  sarama is
\* always told to return successes; they are read if there is a channel for them.
Async == "errors" \in channels
Undrained == Async /\ "successes" \notin channels

BrokerInit ==
    /\ \E e1, s1, e2, s2 \in BOOLEAN :
          channels = AsyncProducer(e1, s1) \cup AsyncProducer(e2, s2)
    /\ lock = None
    /\ connected = FALSE /\ client = "none" /\ producer = "none"
    /\ cgs = {} /\ lost = {}
    /\ unread = 0
    /\ pc = [c \in Callers |-> "idle"]
    /\ sub = [c \in Callers |-> None]
    /\ failed = [c \in Callers |-> FALSE]
    /\ group = [s \in Subs |-> "none"]
    /\ handler = [s \in Subs |-> "none"]
    /\ refused = {}

-----------------------------------------------------------------------------
(* Connect and Disconnect *)

Goes(c, where) == pc' = [pc EXCEPT ![c] = where] /\ UNCHANGED failed
Returns(c, error) == pc' = [pc EXCEPT ![c] = "idle"] /\ failed' = [failed EXCEPT ![c] = error]

\* connected is read without the lock, the client under it.
ConnectBegins(c) ==
    /\ pc[c] = "idle"
    /\ ~connected
    /\ lock = None
    /\ client = "none"
    /\ Goes(c, "connecting")
    /\ UNCHANGED <<conn, lock, sub, group, handler, publishing>>

\* Connect returns nil where there is a client, were it a closed one.
ConnectNothing(c) ==
    /\ pc[c] = "idle"
    /\ \/ connected
       \/ lock = None /\ client # "none"
    /\ Returns(c, FALSE)
    /\ UNCHANGED <<conn, lock, sub, group, handler, publishing>>

\* The client and the producer are made without the lock; if one cannot be made,
\* nothing is stored.
ConnectFails(c) ==
    /\ pc[c] = "connecting"
    /\ Returns(c, TRUE)
    /\ UNCHANGED <<conn, lock, sub, group, handler, publishing>>

\* The list of groups starts afresh: groups in it are forgotten, not closed.
ConnectEnds(c) ==
    /\ pc[c] = "connecting"
    /\ lock = None
    /\ client' = "open" /\ producer' = "open"
    /\ connected' = TRUE
    /\ cgs' = {}
    /\ lost' = lost \cup cgs
    /\ Returns(c, FALSE)
    /\ UNCHANGED <<channels, lock, sub, group, handler, publishing>>

DisconnectBegins(c) ==
    /\ pc[c] = "idle"
    /\ lock = None
    /\ lock' = c
    /\ sub' = [sub EXCEPT ![c] = None]
    /\ Goes(c, "disconnecting")
    /\ UNCHANGED <<conn, group, handler, publishing>>

Close(s) == group' = [group EXCEPT ![s] = IF @ = "open" THEN "closing" ELSE @]

\* cg.Close for one group after the other, with the lock held.
DisconnectCloses(c) ==
    /\ pc[c] = "disconnecting"
    /\ sub[c] # None => group[sub[c]] = "closed"
    /\ \E s \in cgs : /\ group[s] # "closed"
                      /\ sub' = [sub EXCEPT ![c] = s]
                      /\ Close(s)
    /\ UNCHANGED <<conn, lock, pc, failed, handler, publishing>>

AllClosed == \A s \in cgs : group[s] = "closed"

\* A slip: the mutex is not released when Disconnect fails.
UnlocksOnSuccess == lock' = IF client = "open" THEN None ELSE lock
Unlocks == lock' = None

\* A client that is closed already makes Disconnect fail, one that was never
\* made makes it panic; the lock is released, and connected keeps its value.
DisconnectEnds(c) ==
    /\ pc[c] = "disconnecting"
    /\ AllClosed
    /\ cgs' = {}
    /\ producer' = IF producer = "open" THEN "closed" ELSE producer
    /\ \/ client = "open" /\ client' = "closed" /\ connected' = FALSE /\ Returns(c, FALSE)
       \/ client # "open" /\ UNCHANGED <<client, connected>> /\ Returns(c, TRUE)
    /\ Unlocks
    /\ UNCHANGED <<channels, sub, lost, group, handler, publishing>>

-----------------------------------------------------------------------------
(* Publish *)

\* A producer that takes its message, synchronously or not: an asynchronous one
\* takes none while the successes of others wait to be read.
Accepted ==
    /\ producer = "open"
    /\ \/ ~Async /\ UNCHANGED unread
       \/ Async /\ unread < Buffer /\ unread' = unread + 1
    /\ UNCHANGED refused

\* An error: from Kafka, or because there is no producer.  A send to one that
\* is closed panics.
Rejected(who) ==
    /\ \/ producer = "open" /\ ~Async /\ UNCHANGED refused
       \/ producer # "open" /\ refused' = refused \cup {who}
    /\ UNCHANGED unread


\* Publish takes no lock: handlers publish while Disconnect waits for them.
Unlocked == TRUE

PublishBegins(c) ==
    /\ pc[c] = "idle"
    /\ Goes(c, "publishing")
    /\ UNCHANGED <<conn, lock, sub, group, handler, publishing>>

PublishEnds(c) ==
    /\ pc[c] = "publishing"
    /\ Unlocked
    /\ \/ Accepted /\ Returns(c, FALSE)
       \/ Rejected(c) /\ Returns(c, TRUE)
    /\ UNCHANGED <<conn, lock, sub, group, handler>>

\* The goroutine that Connect starts for the channel of successes.
ForwardSuccess ==
    /\ ~Undrained
    /\ unread > 0
    /\ unread' = unread - 1
    /\ UNCHANGED <<conn, calls, group, handler, refused>>

-----------------------------------------------------------------------------
(* Subscribe and Unsubscribe *)

\* NewConsumerGroup has a client of its own: nobody asks whether the broker is
\* connected.
SubscribeBegins(c, s) ==
    /\ pc[c] = "idle"
    /\ group[s] = "none"
    /\ group' = [group EXCEPT ![s] = "open"]
    /\ sub' = [sub EXCEPT ![c] = s]
    /\ Goes(c, "registering")
    /\ UNCHANGED <<conn, lock, handler, publishing>>

SubscribeFails(c) ==
    /\ pc[c] = "idle"
    /\ Returns(c, TRUE)
    /\ UNCHANGED <<conn, lock, sub, group, handler, publishing>>

SubscribeEnds(c) ==
    /\ pc[c] = "registering"
    /\ lock = None
    /\ cgs' = cgs \cup {sub[c]}
    /\ Returns(c, FALSE)
    /\ UNCHANGED <<channels, connected, client, producer, lost, lock, sub, group, handler, publishing>>

UnsubscribeBegins(c, s) ==
    /\ pc[c] = "idle"
    /\ Close(s)
    /\ sub' = [sub EXCEPT ![c] = s]
    /\ Goes(c, "unsubscribing")
    /\ UNCHANGED <<conn, lock, handler, publishing>>

\* cg.Close has returned; if with an error, the group stays in the list.
UnsubscribeEnds(c) ==
    /\ pc[c] = "unsubscribing"
    /\ group[sub[c]] = "closed"
    /\ \/ lock = None /\ cgs' = cgs \ {sub[c]} /\ Returns(c, FALSE)
       \/ UNCHANGED cgs /\ Returns(c, TRUE)
    /\ UNCHANGED <<channels, connected, client, producer, lost, lock, sub, group, handler, publishing>>

\* sarama: Close returns when the group's session, with its handler, is over.
CloseEnds(s) ==
    /\ group[s] = "closing"
    /\ handler[s] = "none"
    /\ group' = [group EXCEPT ![s] = "closed"]
    /\ UNCHANGED <<conn, calls, handler, publishing>>

-----------------------------------------------------------------------------
(* Handlers *)

HandlerGoes(s, where) == handler' = [handler EXCEPT ![s] = where]

\* A session being closed may still hand out what it has fetched.
HandlerBegins(s) ==
    /\ group[s] \in {"open", "closing"}
    /\ s \in cgs \cup lost
    /\ handler[s] = "none"
    /\ HandlerGoes(s, "running")
    /\ UNCHANGED <<conn, calls, group, publishing>>

HandlerPublishes(s) ==
    /\ handler[s] = "running"
    /\ HandlerGoes(s, "publishing")
    /\ UNCHANGED <<conn, calls, group, publishing>>

HandlerPublished(s) ==
    /\ handler[s] = "publishing"
    /\ Unlocked
    /\ Accepted \/ Rejected(s)
    /\ HandlerGoes(s, "published")
    /\ UNCHANGED <<conn, calls, group>>

HandlerEnds(s) ==
    /\ handler[s] \in {"running", "published"}
    /\ HandlerGoes(s, "none")
    /\ UNCHANGED <<conn, calls, group, publishing>>

-----------------------------------------------------------------------------
CallStep(c) ==
    \/ ConnectFails(c) \/ ConnectEnds(c)
    \/ DisconnectCloses(c) \/ DisconnectEnds(c)
    \/ PublishEnds(c) \/ SubscribeEnds(c) \/ UnsubscribeEnds(c)

HandlerStep(s) == HandlerPublished(s) \/ HandlerEnds(s)

SubStep(s) == HandlerBegins(s) \/ HandlerPublishes(s) \/ HandlerStep(s) \/ CloseEnds(s)

\* Steps of calls under way, and of what the broker has started.
BrokerStep == ForwardSuccess \/ (\E c \in Callers : CallStep(c)) \/ (\E s \in Subs : SubStep(s))
=============================================================================
