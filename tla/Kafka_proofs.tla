---------------------------- MODULE Kafka_proofs -----------------------------
(* Theorems about the Kafka broker, for every value of the constants: the    *)
(* processes that run on it (ServiceRun), and what the members of one of its *)
(* consumer groups consume (KafkaGroup).                                     *)
EXTENDS ServiceRun, KafkaGroup, TLAPS

-----------------------------------------------------------------------------
(* The processes                                                             *)

\* Who makes which call, and where in its Run, request or Stop it is meanwhile.
CallsInv ==
    /\ \A c \in Callers :
          /\ pc[c] = "connecting" => c \in Mains /\ phase[c] = "connecting"
          /\ pc[c] = "disconnecting" => c \in Mains /\ phase[c] = "disconnecting"
          /\ pc[c] = "registering" =>
                c = Service /\ phase[c] = "subscribing" /\ sub[c] \in Subs
          /\ pc[c] = "unsubscribing" => c \in Subs /\ sub[c] = c
          /\ pc[c] = "publishing" => c \in Requests /\ rq[c] = "publishing"
    /\ \A s \in Subs : sub[s] \in {None, s}

\* A Run that has got beyond Connect.
HasConnected(m) ==
    \/ phase[m] \notin {"new", "connecting", "failed"}
    \/ phase[m] = "connecting" /\ pc[m] = "idle" /\ ~failed[m]

\* A producer that was made is closed by a Run's Disconnect only.
ProducerInv ==
    /\ producer = "none" <=> client = "none"
    /\ connected => client # "none"
    /\ \A m \in Mains : HasConnected(m) => client # "none"
    /\ server # "off" => client # "none"
    /\ \A s \in Subs : group[s] # "none" => client # "none"
    /\ producer = "closed" => Disconnecting(Web) \/ Disconnecting(Service)

Unsubscribing == {"drained", "disconnecting", "returned"}

\* A Stop closes each group before it disconnects.
GroupsInv ==
    /\ NothingLeftOpen
    /\ \A s \in Subs : sub[s] = s /\ pc[s] = "idle" => group[s] = "closed"
    /\ phase[Service] \in Unsubscribing => \A s \in Subs : group[s] = "closed"

\* Shutdown stops new requests, and waits for the others unless it gives up.
RequestsInv ==
    /\ phase[Web] \in {"shutdown"} \cup Unsubscribing => server # "serving"
    /\ phase[Web] \in Unsubscribing => forced \/ Answered
    /\ \A r \in Requests : rq[r] # "none" => server # "off"

ServiceInv == TypeOK /\ CallsInv /\ ProducerInv /\ GroupsInv /\ RequestsInv /\ WorkIsServed

USE NoneIsNone, BufferIsPositive, CallersAreKnown, CallersAreApart, MaxSignalsIsNatural
    DEF Mains

-----------------------------------------------------------------------------
(* The steps, one disjunct each.                                             *)

RunSteps(m) == Connects(m) \/ GivesUp(m) \/ Notifies(m) \/ Disconnects(m) \/ RunEnds(m)
WebSteps == Listens \/ WebFails \/ WebInterrupted \/ ShutdownEnds \/ ServerFails
ServiceSteps == Starts \/ Subscribes \/ Started \/ ServiceInterrupted \/ Drained
ConnectionSteps(c) == ConnectFails(c) \/ ConnectEnds(c) \/ DisconnectCloses(c) \/ DisconnectEnds(c)
CallSteps(c) == PublishEnds(c) \/ SubscribeEnds(c) \/ UnsubscribeEnds(c)
HandlerSteps(s) == HandlerBegins(s) \/ HandlerPublishes(s) \/ HandlerPublished(s) \/ HandlerEnds(s)

LEMMA NextCases ==
    ASSUME [Next]_vars
    PROVE  \/ \E m \in Mains : RunSteps(m)
           \/ WebSteps \/ ServiceSteps
           \/ \E s \in Subs : Unsubscribes(s)
           \/ \E r \in Requests : RequestStep(r)
           \/ Signal
           \/ /\ \/ ForwardSuccess
                 \/ \E c \in Callers : ConnectionSteps(c) \/ CallSteps(c)
                 \/ \E s \in Subs : HandlerSteps(s) \/ CloseEnds(s)
              /\ UNCHANGED <<phase, env>>
           \/ UNCHANGED vars
BY DEF Next, RunStep, BrokerStep, CallStep, SubStep, HandlerStep, RunSteps, WebSteps,
       ServiceSteps, ConnectionSteps, CallSteps, HandlerSteps

-----------------------------------------------------------------------------
(* Type correctness                                                          *)

Connection ==
    /\ channels \subseteq {"errors", "successes"}
    /\ connected \in BOOLEAN
    /\ {client, producer} \subseteq {"none", "open", "closed"}
    /\ cgs \subseteq Subs /\ lost \subseteq Subs
    /\ unread \in 0..Buffer
    /\ group \in [Subs -> {"none", "open", "closing", "closed"}]
    /\ handler \in [Subs -> {"none", "running", "publishing", "published"}]
    /\ refused \subseteq Callers \cup Subs

CallsMade ==
    /\ lock \in Callers \cup {None}
    /\ pc \in [Callers -> {"idle", "connecting", "disconnecting", "registering",
                           "unsubscribing", "publishing"}]
    /\ sub \in [Callers -> Subs \cup {None}]
    /\ failed \in [Callers -> BOOLEAN]
    /\ \A c \in Callers : lock = c <=> pc[c] = "disconnecting"

LEMMA BrokerTypes == BrokerTypeOK <=> Connection /\ CallsMade
BY DEF BrokerTypeOK, Connection, CallsMade

LEMMA ConnectionStep ==
    ASSUME Connection, CallsInv, [Next]_vars
    PROVE  Connection'
<1> USE DEF Connection, Goes, Returns, conn, calls, publishing, broker, env
<1>1. CASE \E m \in Mains : RunSteps(m)
    <2> PICK m \in Mains : RunSteps(m)
        BY <1>1
    <2>1. CASE Connects(m)
        BY <2>1 DEF Connects, ConnectBegins, ConnectNothing
    <2>2. CASE Disconnects(m)
        BY <2>2 DEF Disconnects, DisconnectBegins
    <2>3. CASE GivesUp(m) \/ Notifies(m) \/ RunEnds(m)
        BY <2>3 DEF GivesUp, Notifies, RunEnds
    <2> QED BY <2>1, <2>2, <2>3 DEF RunSteps
<1>2. CASE WebSteps
    BY <1>2 DEF WebSteps, Listens, WebFails, WebInterrupted, ShutdownEnds, ServerFails
<1>3. CASE ServiceSteps
    <2>1. CASE Subscribes
        BY <2>1 DEF Subscribes, SubscribeBegins, SubscribeFails
    <2>2. CASE Starts \/ Started \/ ServiceInterrupted \/ Drained
        BY <2>2 DEF Starts, Started, ServiceInterrupted, Drained
    <2> QED BY <1>3, <2>1, <2>2 DEF ServiceSteps
<1>4. CASE \E s \in Subs : Unsubscribes(s)
    BY <1>4 DEF Unsubscribes, UnsubscribeBegins, Close
<1>5. CASE \E r \in Requests : RequestStep(r)
    BY <1>5 DEF RequestStep, Arrives, RequestPublishes, RequestEnds, PublishBegins
<1>6. CASE Signal
    BY <1>6 DEF Signal
<1>7. CASE ForwardSuccess
    BY <1>7 DEF ForwardSuccess
<1>8. CASE \E c \in Callers : ConnectionSteps(c)
    <2> PICK c \in Callers : ConnectionSteps(c)
        BY <1>8
    <2>1. CASE ConnectFails(c)
        BY <2>1 DEF ConnectFails
    <2>2. CASE ConnectEnds(c)
        BY <2>2 DEF ConnectEnds
    <2>3. CASE DisconnectCloses(c)
        BY <2>3 DEF DisconnectCloses, Close
    <2>4. CASE DisconnectEnds(c)
        BY <2>4 DEF DisconnectEnds, Unlocks
    <2> QED BY <2>1, <2>2, <2>3, <2>4 DEF ConnectionSteps
<1>9. CASE \E c \in Callers : CallSteps(c)
    <2> PICK c \in Callers : CallSteps(c)
        BY <1>9
    <2>1. CASE PublishEnds(c)
        BY <2>1 DEF PublishEnds, Accepted, Rejected
    <2>2. CASE SubscribeEnds(c)
        BY <2>2 DEF SubscribeEnds, CallsInv
    <2>3. CASE UnsubscribeEnds(c)
        BY <2>3 DEF UnsubscribeEnds
    <2> QED BY <2>1, <2>2, <2>3 DEF CallSteps
<1>10. CASE \E s \in Subs : HandlerSteps(s) \/ CloseEnds(s)
    <2> PICK s \in Subs : HandlerSteps(s) \/ CloseEnds(s)
        BY <1>10
    <2>1. CASE HandlerPublished(s)
        <3>1. unread' \in 0..Buffer /\ refused' \subseteq Callers \cup Subs
            BY <2>1 DEF HandlerPublished, Accepted, Rejected
        <3>2. handler' \in [Subs -> {"none", "running", "publishing", "published"}]
            BY <2>1 DEF HandlerPublished, HandlerGoes
        <3>3. UNCHANGED <<channels, connected, client, producer, cgs, lost, group>>
            BY <2>1 DEF HandlerPublished
        <3> HIDE DEF conn
        <3> QED BY <3>1, <3>2, <3>3
    <2>2. CASE HandlerBegins(s) \/ HandlerPublishes(s) \/ HandlerEnds(s)
        <3>1. handler' \in [Subs -> {"none", "running", "publishing", "published"}]
            BY <2>2 DEF HandlerBegins, HandlerPublishes, HandlerEnds, HandlerGoes
        <3>2. UNCHANGED <<channels, connected, client, producer, cgs, lost, group, unread, refused>>
            BY <2>2 DEF HandlerBegins, HandlerPublishes, HandlerEnds
        <3> QED BY <3>1, <3>2
    <2>3. CASE CloseEnds(s)
        BY <2>3 DEF CloseEnds
    <2> QED BY <2>1, <2>2, <2>3 DEF HandlerSteps
<1>11. CASE UNCHANGED vars
    BY <1>11 DEF vars
<1> QED BY NextCases, <1>1, <1>2, <1>3, <1>4, <1>5, <1>6, <1>7, <1>8, <1>9, <1>10, <1>11

\* A call begins, goes on or ends, but for Disconnect's.
LEMMA CallMoves ==
    ASSUME CallsMade, NEW c \in Callers, pc[c] # "disconnecting",
           NEW w \in {"idle", "connecting", "registering", "unsubscribing", "publishing"},
           pc' = [pc EXCEPT ![c] = w], lock' = lock, sub' = sub,
           NEW f \in BOOLEAN, failed' = failed \/ failed' = [failed EXCEPT ![c] = f]
    PROVE  CallsMade'
<1>1. pc' \in [Callers -> {"idle", "connecting", "disconnecting", "registering",
                           "unsubscribing", "publishing"}]
    BY DEF CallsMade
<1>2. failed' \in [Callers -> BOOLEAN]
    BY DEF CallsMade
<1>3. ASSUME NEW b \in Callers PROVE lock' = b <=> pc'[b] = "disconnecting"
    BY DEF CallsMade
<1> QED BY <1>1, <1>2, <1>3 DEF CallsMade

LEMMA CallsMadeStep ==
    ASSUME Connection, CallsMade, [Next]_vars
    PROVE  CallsMade'
<1> USE DEF Goes, Returns, conn, calls, publishing, broker, env
<1>1. CASE \E m \in Mains : RunSteps(m)
    <2> PICK m \in Mains : RunSteps(m)
        BY <1>1
    <2>1. CASE Connects(m)
        BY <2>1, CallMoves DEF Connects, ConnectBegins, ConnectNothing
    <2>2. CASE Disconnects(m)
        BY <2>2 DEF CallsMade, Disconnects, DisconnectBegins
    <2>3. CASE GivesUp(m) \/ Notifies(m) \/ RunEnds(m)
        BY <2>3 DEF CallsMade, GivesUp, Notifies, RunEnds
    <2> QED BY <2>1, <2>2, <2>3 DEF RunSteps
<1>2. CASE WebSteps
    BY <1>2 DEF CallsMade, WebSteps, Listens, WebFails, WebInterrupted, ShutdownEnds, ServerFails
<1>3. CASE ServiceSteps
    <2>0. Service \in Callers
        OBVIOUS
    <2>1. CASE Subscribes
        <3>1. ASSUME NEW s \in Subs, SubscribeBegins(Service, s) PROVE CallsMade'
            BY <2>0, <3>1 DEF CallsMade, SubscribeBegins
        <3>2. CASE SubscribeFails(Service)
            BY <2>0, <3>2, CallMoves DEF SubscribeFails
        <3> QED BY <2>1, <3>1, <3>2 DEF Subscribes
    <2>2. CASE Starts \/ Started \/ ServiceInterrupted \/ Drained
        BY <2>2 DEF CallsMade, Starts, Started, ServiceInterrupted, Drained
    <2> QED BY <1>3, <2>1, <2>2 DEF ServiceSteps
<1>4. CASE \E s \in Subs : Unsubscribes(s)
    BY <1>4 DEF CallsMade, Unsubscribes, UnsubscribeBegins, Close
<1>5. CASE \E r \in Requests : RequestStep(r)
    BY <1>5 DEF CallsMade, RequestStep, Arrives, RequestPublishes, RequestEnds, PublishBegins
<1>6. CASE Signal
    BY <1>6 DEF CallsMade, Signal
<1>7. CASE ForwardSuccess
    BY <1>7 DEF CallsMade, ForwardSuccess
<1>8. CASE \E c \in Callers : ConnectionSteps(c)
    <2> PICK c \in Callers : ConnectionSteps(c)
        BY <1>8
    <2>1. CASE ConnectFails(c)
        BY <2>1, CallMoves DEF ConnectFails
    <2>2. CASE ConnectEnds(c)
        BY <2>2, CallMoves DEF ConnectEnds
    <2>3. CASE DisconnectCloses(c)
        BY <2>3 DEF CallsMade, DisconnectCloses, Close, Connection
    <2>4. CASE DisconnectEnds(c)
        <3>1. /\ pc[c] = "disconnecting" /\ pc' = [pc EXCEPT ![c] = "idle"]
              /\ lock' = None /\ sub' = sub
              /\ \E e \in BOOLEAN : failed' = [failed EXCEPT ![c] = e]
            BY <2>4 DEF DisconnectEnds, Unlocks
        <3>2. \A b \in Callers : b # c => pc[b] # "disconnecting"
            BY <3>1 DEF CallsMade
        <3>3. failed' \in [Callers -> BOOLEAN]
            BY <3>1 DEF CallsMade
        <3>4. pc' \in [Callers -> {"idle", "connecting", "disconnecting", "registering",
                                   "unsubscribing", "publishing"}]
            BY <3>1 DEF CallsMade
        <3>5. \A b \in Callers : lock' = b <=> pc'[b] = "disconnecting"
            BY <3>1, <3>2 DEF CallsMade
        <3> QED BY <3>1, <3>3, <3>4, <3>5 DEF CallsMade
    <2> QED BY <2>1, <2>2, <2>3, <2>4 DEF ConnectionSteps
<1>9. CASE \E c \in Callers : CallSteps(c)
    <2> PICK c \in Callers : CallSteps(c)
        BY <1>9
    <2>1. CASE PublishEnds(c)
        BY <2>1, CallMoves DEF PublishEnds
    <2>2. CASE SubscribeEnds(c)
        BY <2>2, CallMoves DEF SubscribeEnds
    <2>3. CASE UnsubscribeEnds(c)
        BY <2>3, CallMoves DEF UnsubscribeEnds
    <2> QED BY <2>1, <2>2, <2>3 DEF CallSteps
<1>10. CASE \E s \in Subs : HandlerSteps(s) \/ CloseEnds(s)
    BY <1>10 DEF CallsMade, HandlerSteps, CloseEnds, HandlerBegins, HandlerPublishes, HandlerPublished,
                 HandlerEnds, HandlerGoes, Accepted, Rejected
<1>11. CASE UNCHANGED vars
    BY <1>11 DEF CallsMade, vars
<1> QED BY NextCases, <1>1, <1>2, <1>3, <1>4, <1>5, <1>6, <1>7, <1>8, <1>9, <1>10, <1>11

LEMMA ServiceTypeStep ==
    ASSUME TypeOK, [Next]_vars
    PROVE  ServiceTypeOK'
<1> USE DEF TypeOK, ServiceTypeOK, Enters, env
<1>1. ASSUME NEW m \in Mains, RunSteps(m) PROVE ServiceTypeOK'
    <2>1. CASE Connects(m) \/ Disconnects(m) \/ GivesUp(m)
        BY <2>1 DEF Connects, Disconnects, GivesUp
    <2>2. CASE Notifies(m) \/ RunEnds(m)
        BY <2>2 DEF Notifies, RunEnds
    <2> QED BY <1>1, <2>1, <2>2 DEF RunSteps
<1>2. CASE WebSteps
    <2>1. CASE Listens \/ WebFails \/ ServerFails
        BY <2>1 DEF Listens, WebFails, ServerFails
    <2>2. CASE WebInterrupted \/ ShutdownEnds
        BY <2>2 DEF WebInterrupted, NextAfterSignal, ShutdownEnds
    <2> QED BY <1>2, <2>1, <2>2 DEF WebSteps
<1>3. CASE ServiceSteps
    BY <1>3 DEF ServiceSteps, Subscribes, Starts, Started, ServiceInterrupted, Drained
<1>4. CASE \E s \in Subs : Unsubscribes(s)
    BY <1>4 DEF Unsubscribes
<1>5. CASE \E r \in Requests : RequestStep(r)
    BY <1>5 DEF RequestStep, Arrives, RequestPublishes, RequestEnds, RequestGoes
<1>6. CASE Signal
    BY <1>6 DEF Signal
<1>7. CASE UNCHANGED <<phase, env>>
    BY <1>7
<1>8. CASE UNCHANGED vars
    BY <1>8 DEF vars
<1> QED BY NextCases, <1>1, <1>2, <1>3, <1>4, <1>5, <1>6, <1>7, <1>8

LEMMA TypeStep == ASSUME TypeOK, CallsInv, [Next]_vars PROVE TypeOK'
BY BrokerTypes, ConnectionStep, CallsMadeStep, ServiceTypeStep DEF TypeOK, BrokerTypeOK,
   Connection, CallsMade

-----------------------------------------------------------------------------
(* Who makes which call                                                      *)

LEMMA CallsStep ==
    ASSUME TypeOK, CallsInv, [Next]_vars
    PROVE  CallsInv'
<1>0. /\ pc \in [Callers -> {"idle", "connecting", "disconnecting", "registering",
                             "unsubscribing", "publishing"}]
      /\ sub \in [Callers -> Subs \cup {None}]
      /\ phase \in [Mains -> {"new", "connecting", "listening", "subscribing", "started",
                              "waiting", "shutdown", "unsubscribing", "drained",
                              "disconnecting", "returned", "failed"}]
      /\ rq \in [Requests -> {"none", "running", "publishing", "done"}]
    BY DEF TypeOK, BrokerTypeOK, ServiceTypeOK
<1> USE <1>0 DEF CallsInv, Goes, Returns, Enters, conn, calls, publishing, broker, env
<1>1. CASE \E m \in Mains : RunSteps(m)
    <2> PICK m \in Mains : RunSteps(m)
        BY <1>1
    <2>1. CASE Connects(m)
        BY <2>1 DEF Connects, ConnectBegins, ConnectNothing
    <2>2. CASE Disconnects(m)
        BY <2>2 DEF Disconnects, DisconnectBegins
    <2>3. CASE GivesUp(m) \/ Notifies(m) \/ RunEnds(m)
        BY <2>3 DEF GivesUp, Notifies, RunEnds
    <2> QED BY <2>1, <2>2, <2>3 DEF RunSteps
<1>2. CASE WebSteps
    BY <1>2 DEF WebSteps, Listens, WebFails, WebInterrupted, NextAfterSignal, ShutdownEnds,
                ServerFails
<1>3. CASE ServiceSteps
    <2>1. CASE Subscribes
        <3>1. ASSUME NEW s \in Subs, SubscribeBegins(Service, s), UNCHANGED <<phase, env>>,
                     phase[Service] = "subscribing"
              PROVE  CallsInv'
            BY <3>1 DEF SubscribeBegins
        <3>2. CASE SubscribeFails(Service) /\ UNCHANGED <<phase, env>>
            BY <3>2 DEF SubscribeFails
        <3> QED BY <2>1, <3>1, <3>2 DEF Subscribes
    <2>2. CASE Starts \/ Started \/ ServiceInterrupted \/ Drained
        BY <2>2 DEF Starts, Started, ServiceInterrupted, Drained
    <2> QED BY <1>3, <2>1, <2>2 DEF ServiceSteps
<1>4. CASE \E s \in Subs : Unsubscribes(s)
    BY <1>4 DEF Unsubscribes, UnsubscribeBegins
<1>5. CASE \E r \in Requests : RequestStep(r)
    <2> PICK r \in Requests : RequestStep(r)
        BY <1>5
    <2>1. CASE RequestPublishes(r)
        BY <2>1 DEF RequestPublishes, RequestGoes, PublishBegins
    <2>2. CASE Arrives(r) \/ RequestEnds(r)
        BY <2>2 DEF Arrives, RequestEnds, RequestGoes
    <2> QED BY <2>1, <2>2 DEF RequestStep
<1>6. CASE Signal
    BY <1>6 DEF Signal
<1>7. CASE ForwardSuccess /\ UNCHANGED <<phase, env>>
    BY <1>7 DEF ForwardSuccess
<1>8. CASE (\E c \in Callers : ConnectionSteps(c) \/ CallSteps(c)) /\ UNCHANGED <<phase, env>>
    <2> PICK c \in Callers : ConnectionSteps(c) \/ CallSteps(c)
        BY <1>8
    <2>1. CASE DisconnectCloses(c)
        <3>1. pc' = pc /\ c \in Mains /\ \E s \in Subs \cup cgs : sub' = [sub EXCEPT ![c] = s]
            BY <2>1 DEF DisconnectCloses
        <3> QED BY <1>8, <2>1, <3>1 DEF DisconnectCloses
    <2>2. CASE ~DisconnectCloses(c)
        <3>1. sub' = sub /\ pc' = [pc EXCEPT ![c] = "idle"]
            BY <2>2 DEF ConnectionSteps, CallSteps, ConnectFails, ConnectEnds, DisconnectEnds,
                        PublishEnds, SubscribeEnds, UnsubscribeEnds
        <3> QED BY <1>8, <3>1
    <2> QED BY <2>1, <2>2
<1>9. CASE (\E s \in Subs : HandlerSteps(s) \/ CloseEnds(s)) /\ UNCHANGED <<phase, env>>
    BY <1>9 DEF HandlerSteps, CloseEnds, HandlerBegins, HandlerPublishes, HandlerPublished,
                HandlerEnds
<1>10. CASE UNCHANGED vars
    BY <1>10 DEF vars
<1> QED BY NextCases, <1>1, <1>2, <1>3, <1>4, <1>5, <1>6, <1>7, <1>8, <1>9, <1>10

-----------------------------------------------------------------------------
(* The producer: made by the Connect of a Run, closed by its Disconnect       *)

\* What a step does to the fields of kBroker.
ClientMove ==
    \/ UNCHANGED <<client, producer, connected>>
    \/ client' = "open" /\ producer' = "open" /\ connected'
    \/ /\ \E m \in Mains : phase[m] = "disconnecting"
       /\ client' = client \/ (client = "open" /\ client' = "closed")
       /\ producer' = IF producer = "open" THEN "closed" ELSE producer
       /\ (connected' => connected)

LEMMA ClientMoves ==
    ASSUME TypeOK, CallsInv, [Next]_vars
    PROVE  ClientMove
<1> USE DEF ClientMove, conn, broker
<1>1. ASSUME NEW c \in Callers, DisconnectEnds(c) PROVE ClientMove
    BY <1>1 DEF DisconnectEnds, CallsInv
<1>2. ASSUME NEW c \in Callers, CallSteps(c) \/ (ConnectionSteps(c) /\ ~DisconnectEnds(c))
      PROVE  ClientMove
    BY <1>2 DEF ConnectionSteps, CallSteps, ConnectFails, ConnectEnds, DisconnectCloses,
                PublishEnds, SubscribeEnds, UnsubscribeEnds
<1>3. CASE ForwardSuccess \/ \E s \in Subs : HandlerSteps(s) \/ CloseEnds(s)
    BY <1>3 DEF ForwardSuccess, HandlerSteps, CloseEnds, HandlerBegins, HandlerPublishes,
                HandlerPublished, HandlerEnds
<1>4. CASE (\E m \in Mains : RunSteps(m)) \/ WebSteps
    BY <1>4 DEF RunSteps, Connects, ConnectBegins, ConnectNothing, Disconnects, DisconnectBegins,
                GivesUp, Notifies, RunEnds, WebSteps, Listens, WebFails, WebInterrupted,
                ShutdownEnds, ServerFails
<1>5. CASE ServiceSteps \/ (\E s \in Subs : Unsubscribes(s)) \/ Signal
              \/ (\E r \in Requests : RequestStep(r)) \/ UNCHANGED vars
    BY <1>5 DEF ServiceSteps, Starts, Subscribes, SubscribeBegins, SubscribeFails, Started,
                ServiceInterrupted, Drained, Unsubscribes, UnsubscribeBegins, Signal, RequestStep,
                Arrives, RequestPublishes, PublishBegins, RequestEnds, vars
<1> QED BY NextCases, <1>1, <1>2, <1>3, <1>4, <1>5

\* How a Run goes on: Connect's answer decides, and only a Run that has connected
\* gets any further.
PhaseMove(m) ==
    \/ phase'[m] = phase[m]
    \/ phase[m] = "new" /\ phase'[m] = "connecting"
    \/ ~Disconnecting(m) /\ phase'[m] = "failed"
    \/ /\ HasConnected(m)
       /\ phase'[m] \notin {"new", "connecting"}
       /\ Disconnecting(m) => phase'[m] = "returned"

LEMMA PhaseMoves ==
    ASSUME TypeOK, [Next]_vars, NEW m \in Mains
    PROVE  PhaseMove(m)
<1>0. phase \in [Mains -> {"new", "connecting", "listening", "subscribing", "started",
                           "waiting", "shutdown", "unsubscribing", "drained",
                           "disconnecting", "returned", "failed"}]
    BY DEF TypeOK, ServiceTypeOK
<1> USE <1>0 DEF PhaseMove, HasConnected, Disconnecting, Enters, env
<1>1. CASE \E n \in Mains : RunSteps(n)
    BY <1>1 DEF RunSteps, Connects, GivesUp, Notifies, Disconnects, RunEnds
<1>2. CASE WebSteps
    BY <1>2 DEF WebSteps, Listens, WebFails, WebInterrupted, NextAfterSignal, ShutdownEnds,
                ServerFails
<1>3. CASE ServiceSteps
    BY <1>3 DEF ServiceSteps, Starts, Subscribes, Started, ServiceInterrupted, Drained
<1>4. CASE phase' = phase
    BY <1>4
<1>5. CASE (\E s \in Subs : Unsubscribes(s)) \/ Signal \/ UNCHANGED vars
              \/ (\E r \in Requests : RequestStep(r))
    BY <1>5 DEF Unsubscribes, Signal, RequestStep, Arrives, RequestPublishes, RequestEnds,
                RequestGoes, vars
<1> QED BY NextCases, <1>1, <1>2, <1>3, <1>4, <1>5

\* The answer of Connect.
LEMMA ConnectAnswers ==
    ASSUME TypeOK, CallsInv, ProducerInv, [Next]_vars, NEW m \in Mains,
           phase'[m] = "connecting", pc'[m] = "idle", ~failed'[m]
    PROVE  HasConnected(m) \/ client' # "none"
<1>0. /\ pc \in [Callers -> {"idle", "connecting", "disconnecting", "registering",
                             "unsubscribing", "publishing"}]
      /\ failed \in [Callers -> BOOLEAN]
      /\ phase \in [Mains -> {"new", "connecting", "listening", "subscribing", "started",
                              "waiting", "shutdown", "unsubscribing", "drained",
                              "disconnecting", "returned", "failed"}]
    BY DEF TypeOK, BrokerTypeOK, ServiceTypeOK
<1> USE <1>0 DEF HasConnected, Goes, Returns, Enters, conn, calls, broker, env
<1>a. CASE phase[m] # "connecting"
    <2>1. phase[m] = "new"
        BY <1>a, PhaseMoves DEF PhaseMove
    <2>2. Connects(m)
        <3>1. ASSUME NEW n \in Mains, RunSteps(n) PROVE Connects(m)
            BY <1>a, <3>1, <2>1 DEF RunSteps, Connects, GivesUp, Notifies, Disconnects, RunEnds
        <3>2. ASSUME WebSteps \/ ServiceSteps PROVE FALSE
            BY <1>a, <2>1, <3>2 DEF WebSteps, Listens, WebFails, WebInterrupted, NextAfterSignal,
                 ShutdownEnds, ServerFails, ServiceSteps, Starts, Subscribes, Started,
                 ServiceInterrupted, Drained
        <3>3. ASSUME (\E s \in Subs : Unsubscribes(s)) \/ Signal \/ UNCHANGED vars
                       \/ (\E r \in Requests : RequestStep(r)) \/ phase' = phase
              PROVE  FALSE
            BY <1>a, <3>3 DEF Unsubscribes, Signal, RequestStep, Arrives, RequestPublishes,
                 RequestEnds, RequestGoes, vars
        <3> QED BY NextCases, <3>1, <3>2, <3>3
    <2>3. ~ConnectBegins(m)
        BY DEF ConnectBegins
    <2>4. ConnectNothing(m)
        BY <2>2, <2>3 DEF Connects
    <2> QED BY <2>4 DEF ConnectNothing, ProducerInv
<1>b. CASE phase[m] = "connecting"
    <2>1. CASE pc'[m] = pc[m] /\ failed'[m] = failed[m]
        BY <1>b, <2>1
    <2>2. CASE ConnectionSteps(m)
        BY <1>b, <2>2 DEF ConnectionSteps, ConnectFails, ConnectEnds, DisconnectCloses,
             DisconnectEnds, CallsInv
    <2>3. CASE ~ConnectionSteps(m)
        <3>1. ASSUME NEW n \in Mains, RunSteps(n) PROVE pc'[m] = pc[m] /\ failed'[m] = failed[m]
            BY <1>b, <3>1 DEF RunSteps, Connects, ConnectBegins, ConnectNothing, GivesUp, Notifies,
                 Disconnects, DisconnectBegins, RunEnds
        <3>2. ASSUME WebSteps \/ ServiceSteps PROVE pc'[m] = pc[m] /\ failed'[m] = failed[m]
            BY <1>b, <3>2 DEF WebSteps, Listens, WebFails, WebInterrupted, NextAfterSignal,
                 ShutdownEnds, ServerFails, ServiceSteps, Starts, Subscribes, SubscribeBegins,
                 SubscribeFails, Started, ServiceInterrupted, Drained
        <3>3. ASSUME (\E s \in Subs : Unsubscribes(s)) \/ Signal \/ UNCHANGED vars
                       \/ (\E r \in Requests : RequestStep(r))
              PROVE pc'[m] = pc[m] /\ failed'[m] = failed[m]
            BY <3>3 DEF Unsubscribes, UnsubscribeBegins, Signal, RequestStep, Arrives,
                 RequestPublishes, PublishBegins, RequestEnds, vars
        <3>4. ASSUME NEW c \in Callers, ConnectionSteps(c) \/ CallSteps(c)
              PROVE  pc'[m] = pc[m] /\ failed'[m] = failed[m]
            <4>1. ~CallSteps(m)
                BY <1>b DEF CallSteps, PublishEnds, SubscribeEnds, UnsubscribeEnds, CallsInv
            <4>2. c # m
                BY <2>3, <3>4, <4>1
            <4> QED BY <3>4, <4>2 DEF ConnectionSteps, CallSteps, ConnectFails, ConnectEnds,
                     DisconnectCloses, DisconnectEnds, PublishEnds, SubscribeEnds, UnsubscribeEnds
        <3>5. ASSUME ForwardSuccess \/ \E s \in Subs : HandlerSteps(s) \/ CloseEnds(s)
              PROVE  pc'[m] = pc[m] /\ failed'[m] = failed[m]
            BY <3>5 DEF ForwardSuccess, HandlerSteps, CloseEnds, HandlerBegins, HandlerPublishes,
                HandlerPublished, HandlerEnds
        <3> QED BY NextCases, <2>1, <3>1, <3>2, <3>3, <3>4, <3>5
    <2> QED BY <2>2, <2>3
<1> QED BY <1>a, <1>b

\* The server runs for a web service that has connected, groups are made by a
\* service that has.
LEMMA Needs ==
    ASSUME TypeOK, CallsInv, [Next]_vars
    PROVE  /\ server' # "off" => server # "off" \/ HasConnected(Web)
           /\ \A s \in Subs : group'[s] # "none" => group[s] # "none" \/ HasConnected(Service)
<1>0. /\ group \in [Subs -> {"none", "open", "closing", "closed"}]
      /\ pc \in [Callers -> {"idle", "connecting", "disconnecting", "registering",
                             "unsubscribing", "publishing"}]
    BY DEF TypeOK, BrokerTypeOK
<1> USE <1>0 DEF HasConnected, env, broker, conn
<1>1. CASE \E m \in Mains : RunSteps(m)
    BY <1>1 DEF RunSteps, Connects, ConnectBegins, ConnectNothing, GivesUp, Notifies,
                Disconnects, DisconnectBegins, RunEnds
<1>2. CASE WebSteps
    BY <1>2 DEF WebSteps, Listens, WebFails, WebInterrupted, ShutdownEnds, ServerFails
<1>3. CASE ServiceSteps
    BY <1>3 DEF ServiceSteps, Starts, Subscribes, SubscribeBegins, SubscribeFails, Started,
                ServiceInterrupted, Drained
<1>4. CASE (\E s \in Subs : Unsubscribes(s)) \/ Signal \/ UNCHANGED vars
              \/ (\E r \in Requests : RequestStep(r))
    BY <1>4 DEF Unsubscribes, UnsubscribeBegins, Close, Signal, RequestStep, Arrives,
                RequestPublishes, PublishBegins, RequestEnds, RequestGoes, vars
<1>5. ASSUME NEW c \in Callers, ConnectionSteps(c) \/ CallSteps(c)
      PROVE  \A s \in Subs : group'[s] # "none" => group[s] # "none"
    BY <1>5 DEF ConnectionSteps, CallSteps, ConnectFails, ConnectEnds, DisconnectCloses, Close,
                DisconnectEnds, PublishEnds, SubscribeEnds, UnsubscribeEnds
<1>6. ASSUME ForwardSuccess \/ \E s \in Subs : HandlerSteps(s) \/ CloseEnds(s)
      PROVE  \A s \in Subs : group'[s] # "none" => group[s] # "none"
    BY <1>6 DEF ForwardSuccess, HandlerSteps, CloseEnds, HandlerBegins, HandlerPublishes,
                HandlerPublished, HandlerEnds
<1> QED BY NextCases, <1>1, <1>2, <1>3, <1>4, <1>5, <1>6

LEMMA ProducerStep ==
    ASSUME TypeOK, CallsInv, ProducerInv, [Next]_vars
    PROVE  ProducerInv'
<1>0. ClientMove /\ {client, producer} \subseteq {"none", "open", "closed"}
    BY ClientMoves DEF TypeOK, BrokerTypeOK
<1>1. client # "none" => client' # "none"
    BY <1>0 DEF ClientMove
<1>2. ASSUME NEW m \in Mains, HasConnected(m)' PROVE client' # "none"
    <2>1. HasConnected(m) \/ client' # "none"
        BY <1>2, PhaseMoves, ConnectAnswers DEF PhaseMove, HasConnected
    <2> QED BY <1>1, <2>1 DEF ProducerInv
<1>3. /\ server' # "off" => client' # "none"
      /\ \A s \in Subs : group'[s] # "none" => client' # "none"
    BY <1>1, Needs DEF ProducerInv
<1>4. (producer' = "none" <=> client' = "none") /\ (connected' => client' # "none")
    BY <1>0 DEF ClientMove, ProducerInv
<1>5. producer' = "closed" => Disconnecting(Web)' \/ Disconnecting(Service)'
    <2>1. \A m \in Mains : Disconnecting(m) => Disconnecting(m)'
        BY PhaseMoves DEF PhaseMove, Disconnecting
    <2> QED BY <1>0, <2>1 DEF ClientMove, ProducerInv, Disconnecting
<1> QED BY <1>2, <1>3, <1>4, <1>5 DEF ProducerInv

-----------------------------------------------------------------------------
(* Groups: known to the broker, and closed before a service disconnects       *)

\* A group is closed for good, and by then its handler is over.
GroupMove(s) ==
    \/ /\ group'[s] = group[s]
       /\ \/ handler'[s] \in {handler[s], "none"}
          \/ group[s] \in {"open", "closing"}
    \/ /\ group[s] = "none" /\ group'[s] = "open"
       /\ phase[Service] = "subscribing"
       /\ pc'[Service] = "registering" /\ sub'[Service] = s
    \/ group[s] = "open" /\ group'[s] = "closing"
    \/ group[s] = "closing" /\ group'[s] = "closed" /\ handler'[s] = "none"

LEMMA GroupMoves ==
    ASSUME TypeOK, GroupsInv, [Next]_vars, NEW s \in Subs
    PROVE  GroupMove(s)
<1>0. /\ group \in [Subs -> {"none", "open", "closing", "closed"}]
      /\ handler \in [Subs -> {"none", "running", "publishing", "published"}]
      /\ pc \in [Callers -> {"idle", "connecting", "disconnecting", "registering",
                             "unsubscribing", "publishing"}]
      /\ sub \in [Callers -> Subs \cup {None}]
      /\ handler[s] # "none" => group[s] \in {"open", "closing"}
    BY DEF TypeOK, BrokerTypeOK, GroupsInv, NothingLeftOpen
<1> USE <1>0 DEF GroupMove, Close, Goes, broker, env
<1>1. ASSUME NEW m \in Mains, RunSteps(m) PROVE GroupMove(s)
    <2>1. group' = group /\ handler' = handler
        BY <1>1 DEF RunSteps, Connects, ConnectBegins, ConnectNothing, GivesUp, Notifies,
                    Disconnects, DisconnectBegins, RunEnds
    <2> QED BY <2>1
<1>2. CASE WebSteps
    BY <1>2 DEF WebSteps, Listens, WebFails, WebInterrupted, ShutdownEnds, ServerFails
<1>3. CASE ServiceSteps
    <2>1. ASSUME NEW u \in Subs, SubscribeBegins(Service, u), phase[Service] = "subscribing"
          PROVE  GroupMove(s)
        <3>1. /\ pc'[Service] = "registering" /\ sub'[Service] = u /\ handler' = handler
              /\ group[u] = "none" /\ group' = [group EXCEPT ![u] = "open"]
            BY <2>1 DEF SubscribeBegins
        <3> QED BY <2>1, <3>1
    <2>2. CASE Subscribes
        BY <2>1, <2>2 DEF Subscribes, SubscribeFails
    <2>3. CASE Starts \/ Started \/ ServiceInterrupted \/ Drained
        BY <2>3 DEF Starts, Started, ServiceInterrupted, Drained
    <2> QED BY <1>3, <2>2, <2>3 DEF ServiceSteps
<1>4. CASE (\E u \in Subs : Unsubscribes(u)) \/ Signal \/ UNCHANGED vars
              \/ (\E r \in Requests : RequestStep(r))
    BY <1>4 DEF Unsubscribes, UnsubscribeBegins, Signal, RequestStep, Arrives,
                RequestPublishes, PublishBegins, RequestEnds, vars
<1>5. ASSUME NEW c \in Callers, ConnectionSteps(c) \/ CallSteps(c) PROVE GroupMove(s)
    <2>1. CASE DisconnectCloses(c)
        BY <2>1 DEF DisconnectCloses
    <2>2. CASE ~DisconnectCloses(c)
        <3>1. group' = group /\ handler' = handler
            BY <1>5, <2>2 DEF ConnectionSteps, CallSteps, ConnectFails, ConnectEnds,
                              DisconnectEnds, PublishEnds, SubscribeEnds, UnsubscribeEnds
        <3> QED BY <3>1
    <2> QED BY <2>1, <2>2
<1>6. ASSUME NEW u \in Subs, HandlerSteps(u) PROVE GroupMove(s)
    <2>1. group' = group
        BY <1>6 DEF HandlerSteps, HandlerBegins, HandlerPublishes, HandlerPublished, HandlerEnds
    <2>2. \/ handler'[s] \in {handler[s], "none"}
          \/ u = s /\ (handler[s] # "none" \/ group[s] \in {"open", "closing"})
        BY <1>6 DEF HandlerSteps, HandlerBegins, HandlerPublishes, HandlerPublished, HandlerEnds,
                    HandlerGoes
    <2> QED BY <2>1, <2>2
<1>7. ASSUME ForwardSuccess \/ \E u \in Subs : CloseEnds(u) PROVE GroupMove(s)
    BY <1>7 DEF ForwardSuccess, CloseEnds
<1> QED BY NextCases, <1>1, <1>2, <1>3, <1>4, <1>5, <1>6, <1>7

\* A group leaves the broker's list when it is closed, or is dropped; being
\* registered ends in the list.  A call of Stop's goroutine ends with its group.
ListMove(s) ==
    /\ s \in cgs \cup lost => s \in cgs' \cup lost' \/ group[s] = "closed"
    /\ pc[Service] = "registering" /\ sub[Service] = s =>
          (pc'[Service] = "registering" /\ sub'[Service] = s) \/ s \in cgs'
    /\ sub'[s] = s /\ pc'[s] = "idle" => (sub[s] = s /\ pc[s] = "idle") \/ group[s] = "closed"

LEMMA ListMoves ==
    ASSUME TypeOK, CallsInv, [Next]_vars, NEW s \in Subs
    PROVE  ListMove(s)
<1>0. /\ pc \in [Callers -> {"idle", "connecting", "disconnecting", "registering",
                             "unsubscribing", "publishing"}]
      /\ sub \in [Callers -> Subs \cup {None}]
    BY DEF TypeOK, BrokerTypeOK
<1> USE <1>0 DEF ListMove, Goes, Returns, conn, calls, broker, env
<1>1. CASE \E m \in Mains : RunSteps(m)
    BY <1>1 DEF RunSteps, Connects, ConnectBegins, ConnectNothing, GivesUp, Notifies,
                Disconnects, DisconnectBegins, RunEnds
<1>2. CASE WebSteps
    BY <1>2 DEF WebSteps, Listens, WebFails, WebInterrupted, ShutdownEnds, ServerFails
<1>3. CASE ServiceSteps
    BY <1>3 DEF ServiceSteps, Starts, Subscribes, SubscribeBegins, SubscribeFails, Started,
                ServiceInterrupted, Drained
<1>4. CASE (\E u \in Subs : Unsubscribes(u)) \/ Signal \/ UNCHANGED vars
              \/ (\E r \in Requests : RequestStep(r))
    BY <1>4 DEF Unsubscribes, UnsubscribeBegins, Signal, RequestStep, Arrives,
                RequestPublishes, PublishBegins, RequestEnds, vars
<1>5. ASSUME NEW c \in Callers, ConnectionSteps(c) PROVE ListMove(s)
    BY <1>5 DEF ConnectionSteps, ConnectFails, ConnectEnds, DisconnectCloses, DisconnectEnds,
                AllClosed, CallsInv
<1>6. ASSUME NEW c \in Callers, CallSteps(c) PROVE ListMove(s)
    BY <1>6 DEF CallSteps, PublishEnds, SubscribeEnds, UnsubscribeEnds, CallsInv
<1>7. ASSUME ForwardSuccess \/ \E u \in Subs : HandlerSteps(u) \/ CloseEnds(u)
      PROVE  ListMove(s)
    BY <1>7 DEF ForwardSuccess, HandlerSteps, CloseEnds, HandlerBegins, HandlerPublishes,
                HandlerPublished, HandlerEnds
<1> QED BY NextCases, <1>1, <1>2, <1>3, <1>4, <1>5, <1>6, <1>7

\* Stop is over when its calls of Unsubscribe are.
LEMMA StopEnds ==
    ASSUME TypeOK, [Next]_vars, phase'[Service] \in Unsubscribing
    PROVE  phase[Service] \in Unsubscribing \/ Unsubscribed
<1>0. phase \in [Mains -> {"new", "connecting", "listening", "subscribing", "started",
                           "waiting", "shutdown", "unsubscribing", "drained",
                           "disconnecting", "returned", "failed"}]
    BY DEF TypeOK, ServiceTypeOK
<1> USE <1>0 DEF Unsubscribing, Enters, env
<1>1. CASE \E n \in Mains : RunSteps(n)
    BY <1>1 DEF RunSteps, Connects, GivesUp, Notifies, Disconnects, RunEnds
<1>2. CASE WebSteps
    BY <1>2 DEF WebSteps, Listens, WebFails, WebInterrupted, ShutdownEnds, ServerFails
<1>3. CASE ServiceSteps
    BY <1>3 DEF ServiceSteps, Starts, Subscribes, Started, ServiceInterrupted, Drained
<1>4. CASE phase' = phase
    BY <1>4
<1>5. CASE (\E s \in Subs : Unsubscribes(s)) \/ Signal \/ UNCHANGED vars
              \/ (\E r \in Requests : RequestStep(r))
    BY <1>5 DEF Unsubscribes, Signal, RequestStep, Arrives, RequestPublishes, RequestEnds,
                RequestGoes, vars
<1> QED BY NextCases, <1>1, <1>2, <1>3, <1>4, <1>5

LEMMA GroupsStep ==
    ASSUME TypeOK, CallsInv, GroupsInv, [Next]_vars
    PROVE  GroupsInv'
<1>0. group \in [Subs -> {"none", "open", "closing", "closed"}]
    BY DEF TypeOK, BrokerTypeOK
<1>1. phase'[Service] \in Unsubscribing => \A s \in Subs : group'[s] = "closed"
    <2> SUFFICES ASSUME phase'[Service] \in Unsubscribing, NEW s \in Subs
                 PROVE  group'[s] = "closed"
        OBVIOUS
    <2>1. group[s] = "closed"
        BY StopEnds DEF GroupsInv, Unsubscribed
    <2> QED BY <2>1, GroupMoves DEF GroupMove
<1>2. ASSUME NEW s \in Subs, sub'[s] = s, pc'[s] = "idle" PROVE group'[s] = "closed"
    <2>1. group[s] = "closed"
        BY <1>2, ListMoves DEF ListMove, GroupsInv
    <2> QED BY <2>1, GroupMoves DEF GroupMove
<1>3. ASSUME NEW s \in Subs, group'[s] \in {"open", "closing"}
      PROVE  s \in cgs' \cup lost' \/ (pc'[Service] = "registering" /\ sub'[Service] = s)
    <2>1. CASE group[s] \in {"open", "closing"}
        BY <2>1, ListMoves DEF ListMove, GroupsInv, NothingLeftOpen
    <2>2. CASE group[s] \notin {"open", "closing"}
        BY <1>3, <2>2, GroupMoves DEF GroupMove
    <2> QED BY <2>1, <2>2
<1>4. ASSUME NEW s \in Subs, handler'[s] # "none" PROVE group'[s] \in {"open", "closing"}
    BY <1>0, <1>4, GroupMoves DEF GroupMove, GroupsInv, NothingLeftOpen
<1> QED BY <1>1, <1>2, <1>3, <1>4 DEF GroupsInv, NothingLeftOpen, Unsubscribing

-----------------------------------------------------------------------------
(* Requests, and who finds the producer closed                                *)

\* The server serves once, before Web waits for a signal; Shutdown answers or
\* gives up, and meanwhile no request comes.
WebMove ==
    /\ \/ server' = server
       \/ phase'[Web] = "listening" /\ server' = "serving"
       \/ server' \in {"failed", "shut"}
    /\ phase'[Web] = "shutdown" => phase[Web] = "shutdown" \/ server' # "serving"
    /\ phase'[Web] \in Unsubscribing =>
          \/ phase[Web] \in Unsubscribing
          \/ phase[Web] = "shutdown" /\ rq' = rq /\ (forced' \/ Answered)
    /\ forced => forced'
    /\ \A r \in Requests : \/ rq'[r] = rq[r]
                           \/ server = "serving" /\ server' = server
                           \/ rq[r] \in {"running", "publishing"} /\ server' = server

LEMMA WebMoves ==
    ASSUME TypeOK, [Next]_vars
    PROVE  WebMove
<1>0. /\ phase \in [Mains -> {"new", "connecting", "listening", "subscribing", "started",
                              "waiting", "shutdown", "unsubscribing", "drained",
                              "disconnecting", "returned", "failed"}]
      /\ rq \in [Requests -> {"none", "running", "publishing", "done"}]
      /\ server \in {"off", "serving", "failed", "shut"}
    BY DEF TypeOK, ServiceTypeOK
<1> USE <1>0 DEF WebMove, Unsubscribing, Enters, env
<1>1. CASE \E n \in Mains : RunSteps(n)
    BY <1>1 DEF RunSteps, Connects, GivesUp, Notifies, Disconnects, RunEnds
<1>2. CASE WebSteps
    BY <1>2 DEF WebSteps, Listens, WebFails, WebInterrupted, NextAfterSignal, ShutdownEnds,
                ServerFails
<1>3. CASE ServiceSteps
    BY <1>3 DEF ServiceSteps, Starts, Subscribes, Started, ServiceInterrupted, Drained
<1>4. CASE UNCHANGED <<phase, env>>
    BY <1>4
<1>5. CASE (\E s \in Subs : Unsubscribes(s)) \/ Signal \/ UNCHANGED vars
    BY <1>5 DEF Unsubscribes, Signal, vars
<1>6. CASE \E r \in Requests : RequestStep(r)
    BY <1>6 DEF RequestStep, Arrives, RequestPublishes, RequestEnds, RequestGoes
<1> QED BY NextCases, <1>1, <1>2, <1>3, <1>4, <1>5, <1>6

LEMMA RequestsStep ==
    ASSUME TypeOK, RequestsInv, [Next]_vars
    PROVE  RequestsInv'
<1>1. /\ server \in {"off", "serving", "failed", "shut"}
      /\ rq \in [Requests -> {"none", "running", "publishing", "done"}]
    BY DEF TypeOK, ServiceTypeOK
<1>2. phase'[Web] \in {"shutdown"} \cup Unsubscribing => server' # "serving"
    BY <1>1, WebMoves DEF WebMove, RequestsInv, Unsubscribing
<1>3. phase'[Web] \in Unsubscribing => forced' \/ Answered'
    <2> SUFFICES ASSUME phase'[Web] \in Unsubscribing, ~forced' PROVE Answered'
        OBVIOUS
    <2>1. CASE phase[Web] \in Unsubscribing
        <3>1. ~forced /\ server # "serving" /\ Answered
            BY <2>1, WebMoves DEF WebMove, RequestsInv
        <3> QED BY <3>1, WebMoves DEF WebMove, Answered
    <2>2. CASE phase[Web] \notin Unsubscribing
        BY <2>2, WebMoves DEF WebMove, Answered
    <2> QED BY <2>1, <2>2
<1>4. \A r \in Requests : rq'[r] # "none" => server' # "off"
    BY <1>1, WebMoves DEF WebMove, RequestsInv
<1> QED BY <1>2, <1>3, <1>4 DEF RequestsInv

\* Who is refused was publishing, and the producer was not open.
RefusedMove ==
    refused' = refused \/
    /\ producer # "open"
    /\ \E who \in Requests \cup Subs :
          /\ refused' = refused \cup {who}
          /\ who \in Requests => rq[who] = "publishing"
          /\ who \in Subs => handler[who] # "none"

LEMMA RefusedMoves ==
    ASSUME TypeOK, CallsInv, [Next]_vars
    PROVE  RefusedMove
<1> USE DEF RefusedMove, publishing, broker
<1>1. CASE (\E m \in Mains : RunSteps(m)) \/ WebSteps
    BY <1>1 DEF RunSteps, Connects, ConnectBegins, ConnectNothing, GivesUp, Notifies,
                Disconnects, DisconnectBegins, RunEnds, WebSteps, Listens, WebFails,
                WebInterrupted, ShutdownEnds, ServerFails
<1>2. CASE ServiceSteps
    BY <1>2 DEF ServiceSteps, Starts, Subscribes, SubscribeBegins, SubscribeFails, Started,
                ServiceInterrupted, Drained
<1>3. CASE (\E u \in Subs : Unsubscribes(u)) \/ Signal \/ UNCHANGED vars
              \/ (\E r \in Requests : RequestStep(r))
    BY <1>3 DEF Unsubscribes, UnsubscribeBegins, Signal, RequestStep, Arrives,
                RequestPublishes, PublishBegins, RequestEnds, vars
<1>4. ASSUME NEW c \in Callers, PublishEnds(c) PROVE RefusedMove
    <2>1. c \in Requests /\ rq[c] = "publishing"
        BY <1>4 DEF PublishEnds, CallsInv
    <2> QED BY <1>4, <2>1 DEF PublishEnds, Accepted, Rejected
<1>5. ASSUME NEW c \in Callers, ConnectionSteps(c) \/ (CallSteps(c) /\ ~PublishEnds(c))
      PROVE  RefusedMove
    BY <1>5 DEF ConnectionSteps, CallSteps, ConnectFails, ConnectEnds, DisconnectCloses,
                DisconnectEnds, SubscribeEnds, UnsubscribeEnds
<1>6. ASSUME NEW s \in Subs, HandlerPublished(s) PROVE RefusedMove
    BY <1>6 DEF HandlerPublished, Accepted, Rejected
<1>7. ASSUME NEW s \in Subs, (HandlerSteps(s) /\ ~HandlerPublished(s)) \/ CloseEnds(s)
      PROVE  RefusedMove
    BY <1>7 DEF HandlerSteps, CloseEnds, HandlerBegins, HandlerPublishes, HandlerEnds
<1>8. CASE ForwardSuccess
    BY <1>8 DEF ForwardSuccess
<1> QED BY NextCases, <1>1, <1>2, <1>3, <1>4, <1>5, <1>6, <1>7, <1>8

LEMMA ServedStep ==
    ASSUME ServiceInv, [Next]_vars
    PROVE  WorkIsServed'
<1>0. /\ TypeOK /\ CallsInv /\ ProducerInv /\ GroupsInv /\ RequestsInv /\ WorkIsServed
      /\ producer \in {"none", "open", "closed"}
    BY DEF ServiceInv, TypeOK, BrokerTypeOK
<1>1. /\ Disconnecting(Web) => Disconnecting(Web)'
      /\ Disconnecting(Service) => Disconnecting(Service)'
      /\ forced => forced'
    BY <1>0, PhaseMoves, WebMoves DEF PhaseMove, Disconnecting, WebMove
<1>2. ASSUME NEW r \in Requests, r \in refused' PROVE forced' \/ Disconnecting(Service)'
    <2>1. CASE r \in refused
        BY <1>0, <1>1, <2>1 DEF WorkIsServed
    <2>2. CASE r \notin refused
        <3>1. producer # "open" /\ rq[r] = "publishing"
            BY <1>0, <1>2, <2>2, RefusedMoves DEF RefusedMove
        <3>2. producer = "closed"
            BY <1>0, <3>1 DEF ProducerInv, RequestsInv
        <3>3. Disconnecting(Web) => forced
            BY <1>0, <3>1 DEF RequestsInv, Disconnecting, Unsubscribing, Answered
        <3> QED BY <1>0, <1>1, <3>2, <3>3 DEF ProducerInv
    <2> QED BY <2>1, <2>2
<1>3. ASSUME NEW s \in Subs, s \in refused' PROVE Disconnecting(Web)'
    <2>1. CASE s \in refused
        BY <1>0, <1>1, <2>1 DEF WorkIsServed
    <2>2. CASE s \notin refused
        <3>1. producer # "open" /\ handler[s] # "none"
            BY <1>0, <1>3, <2>2, RefusedMoves DEF RefusedMove
        <3>2. group[s] \in {"open", "closing"}
            BY <1>0, <3>1 DEF GroupsInv, NothingLeftOpen
        <3>3. producer = "closed" /\ ~Disconnecting(Service)
            BY <1>0, <3>1, <3>2 DEF ProducerInv, GroupsInv, Disconnecting, Unsubscribing
        <3> QED BY <1>0, <1>1, <3>3 DEF ProducerInv
    <2> QED BY <2>1, <2>2
<1> QED BY <1>2, <1>3 DEF WorkIsServed

-----------------------------------------------------------------------------
LEMMA ServiceInit == Init => ServiceInv
<1> SUFFICES ASSUME Init PROVE ServiceInv
    OBVIOUS
<1> USE DEF Init, BrokerInit
<1>1. BrokerTypeOK
    <2>1. channels \subseteq {"errors", "successes"}
        BY DEF AsyncProducer
    <2>2. connected \in BOOLEAN /\ failed \in [Callers -> BOOLEAN]
        OBVIOUS
    <2>3. /\ {client, producer} \subseteq {"none", "open", "closed"}
          /\ unread \in 0..Buffer /\ lock \in Callers \cup {None}
          /\ \A c \in Callers : lock = c <=> pc[c] = "disconnecting"
        OBVIOUS
    <2> QED BY <2>1, <2>2, <2>3 DEF BrokerTypeOK
<1>2. ServiceTypeOK
    <2>1. {forced, gone} \subseteq BOOLEAN /\ quit \in [Mains -> BOOLEAN]
        OBVIOUS
    <2>2. signals \in 0..MaxSignals
        OBVIOUS
    <2> QED BY <2>1, <2>2 DEF ServiceTypeOK
<1>3. CallsInv /\ ProducerInv
    BY DEF CallsInv, ProducerInv, HasConnected
<1>4. GroupsInv /\ RequestsInv /\ WorkIsServed
    BY DEF GroupsInv, NothingLeftOpen, RequestsInv, WorkIsServed, Unsubscribing
<1> QED BY <1>1, <1>2, <1>3, <1>4 DEF ServiceInv, TypeOK

LEMMA ServiceNext == ServiceInv /\ [Next]_vars => ServiceInv'
BY TypeStep, CallsStep, ProducerStep, GroupsStep, RequestsStep, ServedStep DEF ServiceInv

\* However the Runs, requests and handlers interleave, who makes which call, what
\* the broker's fields say and how far each Run has come fit together.
THEOREM ServiceInvariant == Spec => []ServiceInv
BY ServiceInit, ServiceNext, PTL DEF Spec

\* The fields of the broker and the places of the Runs keep their types, and the
\* mutex is held by who is inside Disconnect and nobody else.
THEOREM TypeCorrect == Spec => []TypeOK
<1>1. ServiceInv => TypeOK
    BY DEF ServiceInv
<1> QED BY <1>1, ServiceInvariant, PTL

\* Whoever publishes finds the producer open, but for requests that Shutdown gave
\* up on and those whose broker the other Run took away.
THEOREM WorkFindsTheBroker == Spec => []WorkIsServed
<1>1. ServiceInv => WorkIsServed
    BY DEF ServiceInv
<1> QED BY <1>1, ServiceInvariant, PTL

\* No group consumes out of the broker's reach, and when service.Run has returned
\* none does, for any subscriptions and requests.
THEOREM RunLeavesNothingOpen == Spec => []NothingLeftOpen
<1>1. ServiceInv => NothingLeftOpen
    BY DEF ServiceInv, GroupsInv
<1> QED BY <1>1, ServiceInvariant, PTL

-----------------------------------------------------------------------------
(* The members of a consumer group                                           *)

Covered == acked \cup seen \cup skipped

\* Who owns the partition or runs a handler is in a session; a session has been
\* given offsets from the first on, and marks and acks stay behind the last one.
InSession(s) ==
    /\ cg[s] = "none" => loop[s] = "none"
    /\ owner = s \/ handling[s] => loop[s] = "session"
    /\ loop[s] = "session" => marked[s] < next[s]
    /\ loop[s] # "session" => due[s] = {}
    /\ due[s] \subseteq 1..next[s] - 1
    /\ handling[s] => next[s] > 1

\* All a session has been given is covered, but for what its handler is at; its
\* mark is at a message that succeeded.
GivenCovered(s) ==
    /\ loop[s] = "session" =>
         \A o \in Offsets : o < next[s] => o \in Covered \/ (handling[s] /\ o = Current(s))
    /\ marked[s] > 0 => marked[s] \in acked

GroupInv ==
    /\ GroupTypeOK
    /\ CommitFollowsHandling
    /\ \A s \in Members : InSession(s) /\ GivenCovered(s)

Cases(s) ==
    \/ Subscribe(s) \/ Unsubscribe(s) \/ Closes(s)
    \/ LoopConsumes(s) \/ ConsumeFails(s) \/ LoopEnds(s) \/ SessionStarts(s)
    \/ Delivers(s) \/ SessionEnds(s) \/ Rebalanced(s) \/ Evicted(s) \/ Commits(s)
    \/ HandlerOk(s) \/ HandlerFails(s)
    \/ \E o \in Offsets : Ack(s, o)

LEMMA GroupCases ==
    ASSUME GroupNext PROVE Publish \/ \E s \in Members : Cases(s)
BY DEF GroupNext, Cases, LoopStep

USE NoOwnerIsNone, Bounds DEF Offsets

LEMMA GroupInvInit == GroupInit => GroupInv
<1> SUFFICES ASSUME GroupInit PROVE GroupInv
    OBVIOUS
<1>1. GroupTypeOK
    BY DEF GroupInit, GroupTypeOK
<1>2. CommitFollowsHandling
    BY DEF GroupInit, CommitFollowsHandling
<1>3. ASSUME NEW s \in Members PROVE InSession(s) /\ GivenCovered(s)
    BY DEF GroupInit, InSession, GivenCovered
<1> QED BY <1>1, <1>2, <1>3 DEF GroupInv

-----------------------------------------------------------------------------
(* What a step does to the history, and to other sessions                    *)

\* What a handler or an application has settled stays settled.
Grows ==
    /\ acked \subseteq acked'
    /\ Covered \subseteq Covered'

LEMMA HistoryGrows ==
    ASSUME NEW s \in Members, Cases(s) \/ Publish \/ UNCHANGED groupVars
    PROVE  Grows
BY DEF Cases, Publish, Subscribe, Unsubscribe, Closes, LoopConsumes, ConsumeFails,
       LoopEnds, SessionStarts, Delivers, SessionEnds, Rebalanced, ClaimEnds, Evicted,
       Commits, HandlerReturns, HandlerOk, HandlerFails, Ack, Grows, Covered, history, groupVars

\* The session of t is left as it was.
Leaves(t) ==
    /\ cg'[t] = cg[t] /\ loop'[t] = loop[t] /\ handling'[t] = handling[t]
    /\ next'[t] = next[t] /\ marked'[t] = marked[t] /\ due'[t] = due[t]
    /\ owner' = t => owner = t

LEMMA SessionKept ==
    ASSUME NEW t \in Members, Leaves(t), Grows, InSession(t), GivenCovered(t)
    PROVE  InSession(t)' /\ GivenCovered(t)'
<1>1. InSession(t)'
    BY DEF Leaves, InSession
<1>2. GivenCovered(t)'
    BY DEF Leaves, Grows, GivenCovered, Current
<1> QED BY <1>1, <1>2

LEMMA CommitKept ==
    ASSUME CommitFollowsHandling, Grows, committed' = committed
    PROVE  CommitFollowsHandling'
BY DEF CommitFollowsHandling, Grows, Covered

\* The marks of a session may be committed.
LEMMA MarkCommitted ==
    ASSUME GroupInv, NEW s \in Members, owner = s, Grows, committed' = marked[s]
    PROVE  CommitFollowsHandling'
<1>1. /\ loop[s] = "session" /\ marked[s] < next[s] /\ marked[s] \in 0..MaxMsgs
      /\ next[s] \in 0..MaxMsgs + 1
    BY DEF GroupInv, InSession, GroupTypeOK
<1>2. marked[s] > 0 => marked[s] \in acked
    BY DEF GroupInv, GivenCovered
<1>3. ASSUME NEW o \in 1..marked[s] PROVE o \in Covered
    <2>1. o \in Offsets /\ o < next[s]
        BY <1>1
    <2>2. o \in Covered \/ (handling[s] /\ o = next[s] - 1)
        BY <1>1, <2>1 DEF GroupInv, GivenCovered, Current
    <2>3. CASE o = next[s] - 1
        BY <1>1, <1>2, <2>3 DEF Covered
    <2> QED BY <2>2, <2>3
<1> QED BY <1>2, <1>3 DEF CommitFollowsHandling, Grows, Covered

\* A step of s leaves the sessions of the others.
LEMMA OthersLeft ==
    ASSUME GroupTypeOK, NEW s \in Members, NEW t \in Members, t # s, Cases(s)
    PROVE  Leaves(t)
<1> USE DEF GroupTypeOK, Leaves, GoesTo, GoesOn, Mark, LeavesUnmarked, sessions, kafka
<1>1. CASE Subscribe(s) \/ Unsubscribe(s) \/ Closes(s)
    BY <1>1 DEF Subscribe, Unsubscribe, Closes
<1>2. CASE LoopConsumes(s) \/ ConsumeFails(s) \/ LoopEnds(s)
    BY <1>2 DEF LoopConsumes, ConsumeFails, LoopEnds
<1>3. CASE SessionStarts(s) \/ Delivers(s)
    BY <1>3 DEF SessionStarts, Delivers
<1>4. CASE SessionEnds(s) \/ Rebalanced(s)
    BY <1>4 DEF SessionEnds, Rebalanced, ClaimEnds, Flushes
<1>5. CASE Evicted(s) \/ Commits(s)
    BY <1>5 DEF Evicted, Commits
<1>6. CASE HandlerOk(s) \/ HandlerFails(s)
    BY <1>6 DEF HandlerReturns, HandlerOk, HandlerFails
<1>7. CASE \E o \in Offsets : Ack(s, o)
    BY <1>7 DEF Ack
<1> QED BY <1>1, <1>2, <1>3, <1>4, <1>5, <1>6, <1>7 DEF Cases

-----------------------------------------------------------------------------
(* Type correctness                                                          *)

\* Where a handler is, its message is one of the partition's.
LEMMA CurrentIsOffset ==
    ASSUME GroupInv, NEW s \in Members, handling[s]
    PROVE  Current(s) \in Offsets
<1>1. next[s] > 1 /\ next[s] \in 0..MaxMsgs + 1
    BY DEF GroupInv, InSession, GroupTypeOK
<1> QED BY <1>1 DEF Current

LEMMA GroupTypeStep ==
    ASSUME GroupInv, NEW s \in Members, Cases(s)
    PROVE  GroupTypeOK'
<1>0. GroupTypeOK /\ InSession(s)
    BY DEF GroupInv
<1> USE <1>0 DEF GroupTypeOK, GoesTo, GoesOn
<1>1. CASE Subscribe(s)
    BY <1>1 DEF Subscribe, sessions, kafka, history
<1>2. CASE Unsubscribe(s)
    BY <1>2 DEF Unsubscribe, sessions, kafka, history
<1>3. CASE Closes(s)
    BY <1>3 DEF Closes, sessions, kafka, history
<1>4. CASE LoopConsumes(s)
    BY <1>4 DEF LoopConsumes, sessions, kafka, history
<1>5. CASE ConsumeFails(s)
    BY <1>5 DEF ConsumeFails, sessions, kafka, history
<1>6. CASE LoopEnds(s)
    BY <1>6 DEF LoopEnds, sessions, kafka, history
<1>7. CASE SessionStarts(s)
    <2>1. StartsAfter \in 0..MaxMsgs /\ (committed + 1)..StartsAfter \subseteq Offsets
        BY DEF StartsAfter
    <2> QED BY <1>7, <2>1 DEF SessionStarts
<1>8. CASE Delivers(s)
    <2>1. next[s] \in Offsets
        BY <1>8 DEF Delivers, InSession
    <2> QED BY <1>8, <2>1 DEF Delivers, kafka, history
<1>9. CASE SessionEnds(s)
    BY <1>9 DEF SessionEnds, ClaimEnds, Flushes, history
<1>10. CASE Rebalanced(s)
    BY <1>10 DEF Rebalanced, ClaimEnds, Flushes, history
<1>11. CASE Evicted(s)
    BY <1>11 DEF Evicted, sessions, history
<1>12. CASE Commits(s)
    BY <1>12 DEF Commits, sessions, history
<1>13. CASE HandlerOk(s)
    <2>1. Current(s) \in Offsets
        BY <1>13, CurrentIsOffset DEF HandlerOk, HandlerReturns
    <2>2. seen' \in SUBSET Offsets /\ handling' \in [Members -> BOOLEAN]
        BY <1>13, <2>1 DEF HandlerOk, HandlerReturns
    <2>3. acked' \in SUBSET Offsets /\ marked' \in [Members -> 0..MaxMsgs]
        <3>1. CASE Mark(s, Current(s)) /\ acked' = acked \cup {Current(s)}
            <4> DEFINE o == Current(s)
            <4>1. o \in 0..MaxMsgs /\ marked[s] \in 0..MaxMsgs
                BY <2>1
            <4>2. marked' = [marked EXCEPT ![s] = IF o > marked[s] THEN o ELSE marked[s]]
                BY <3>1 DEF Mark
            <4> HIDE DEF o
            <4>3. (IF o > marked[s] THEN o ELSE marked[s]) \in 0..MaxMsgs
                BY <4>1
            <4>4. marked' \in [Members -> 0..MaxMsgs]
                BY <4>2, <4>3
            <4> QED BY <2>1, <3>1, <4>4
        <3>2. CASE UNCHANGED <<marked, acked>>
            BY <3>2
        <3> QED BY <1>13, <3>1, <3>2 DEF HandlerOk
    <2> QED BY <1>13, <2>2, <2>3 DEF HandlerOk, kafka
<1>14. CASE HandlerFails(s)
    <2>1. Current(s) \in Offsets
        BY <1>14, CurrentIsOffset DEF HandlerFails, HandlerReturns
    <2> QED BY <1>14, <2>1 DEF HandlerFails, HandlerReturns, LeavesUnmarked, kafka
<1>15. CASE \E o \in Offsets : Ack(s, o)
    BY <1>15 DEF Ack, Mark, kafka
<1> QED BY <1>1, <1>2, <1>3, <1>4, <1>5, <1>6, <1>7, <1>8, <1>9, <1>10, <1>11, <1>12,
           <1>13, <1>14, <1>15 DEF Cases

-----------------------------------------------------------------------------
(* The session of the step                                                   *)

LEMMA SessionStep ==
    ASSUME GroupInv, NEW s \in Members, Cases(s)
    PROVE  InSession(s)'
<1>0. GroupTypeOK /\ InSession(s)
    BY DEF GroupInv
<1> USE <1>0 DEF GroupTypeOK, InSession, GoesTo, GoesOn, sessions, kafka
<1>1. CASE Subscribe(s) \/ Unsubscribe(s) \/ Closes(s)
    BY <1>1 DEF Subscribe, Unsubscribe, Closes
<1>2. CASE LoopConsumes(s) \/ ConsumeFails(s) \/ LoopEnds(s)
    BY <1>2 DEF LoopConsumes, ConsumeFails, LoopEnds
<1>3. CASE SessionStarts(s)
    <2>1. StartsAfter \in committed..MaxMsgs
        BY DEF StartsAfter
    <2> QED BY <1>3, <2>1 DEF SessionStarts
<1>4. CASE Delivers(s)
    BY <1>4 DEF Delivers
<1>5. CASE SessionEnds(s) \/ Rebalanced(s)
    BY <1>5 DEF SessionEnds, Rebalanced, ClaimEnds, Flushes
<1>6. CASE Evicted(s) \/ Commits(s)
    BY <1>6 DEF Evicted, Commits
<1>7. CASE HandlerOk(s) \/ HandlerFails(s)
    BY <1>7 DEF HandlerOk, HandlerFails, HandlerReturns, Mark, LeavesUnmarked, Current
<1>8. CASE \E o \in Offsets : Ack(s, o)
    BY <1>8 DEF Ack, Mark
<1> QED BY <1>1, <1>2, <1>3, <1>4, <1>5, <1>6, <1>7, <1>8 DEF Cases

LEMMA CoverStep ==
    ASSUME GroupInv, NEW s \in Members, Cases(s), Grows
    PROVE  GivenCovered(s)'
<1>0. GroupTypeOK /\ InSession(s) /\ GivenCovered(s)
    BY DEF GroupInv
<1> USE <1>0 DEF GroupTypeOK, InSession, GivenCovered, Covered, Current, Grows,
                 GoesTo, GoesOn, sessions, kafka
<1>1. CASE Subscribe(s) \/ Unsubscribe(s) \/ Closes(s)
    BY <1>1 DEF Subscribe, Unsubscribe, Closes
<1>2. CASE LoopConsumes(s) \/ ConsumeFails(s) \/ LoopEnds(s)
    BY <1>2 DEF LoopConsumes, ConsumeFails, LoopEnds
<1>3. CASE SessionStarts(s)
    <2>1. StartsAfter \in committed..MaxMsgs
        BY DEF StartsAfter
    <2>2. CommitFollowsHandling
        BY DEF GroupInv
    <2> QED BY <1>3, <2>1, <2>2 DEF SessionStarts, CommitFollowsHandling
<1>4. CASE Delivers(s)
    BY <1>4 DEF Delivers
<1>5. CASE SessionEnds(s) \/ Rebalanced(s)
    BY <1>5 DEF SessionEnds, Rebalanced, ClaimEnds, Flushes
<1>6. CASE Evicted(s) \/ Commits(s)
    BY <1>6 DEF Evicted, Commits
<1>7. CASE HandlerOk(s) \/ HandlerFails(s)
    BY <1>7 DEF HandlerOk, HandlerFails, HandlerReturns, Mark, LeavesUnmarked
<1>8. CASE \E o \in Offsets : Ack(s, o)
    BY <1>8 DEF Ack, Mark
<1> QED BY <1>1, <1>2, <1>3, <1>4, <1>5, <1>6, <1>7, <1>8 DEF Cases

LEMMA CommitStep ==
    ASSUME GroupInv, NEW s \in Members, Cases(s), Grows
    PROVE  CommitFollowsHandling'
<1>1. committed' = committed \/ (owner = s /\ committed' = marked[s])
    BY DEF Cases, Subscribe, Unsubscribe, Closes, LoopConsumes, ConsumeFails, LoopEnds,
           SessionStarts, Delivers, SessionEnds, Rebalanced, ClaimEnds, Flushes, Evicted,
           Commits, HandlerReturns, HandlerOk, HandlerFails, Ack, kafka
<1> QED BY <1>1, CommitKept, MarkCommitted DEF GroupInv

-----------------------------------------------------------------------------
LEMMA GroupInvStep ==
    ASSUME GroupInv, [GroupNext]_groupVars PROVE GroupInv'
<1>1. CASE Publish
    <2>1. GroupTypeOK'
        BY <1>1 DEF Publish, GroupInv, GroupTypeOK, sessions, history
    <2>2. /\ \A t \in Members : Leaves(t)
          /\ Grows /\ committed' = committed
        BY <1>1 DEF Publish, Leaves, Grows, Covered, sessions, history
    <2> QED BY <2>1, <2>2, SessionKept, CommitKept DEF GroupInv
<1>2. CASE \E s \in Members : Cases(s)
    <2>1. PICK s \in Members : Cases(s)
        BY <1>2
    <2>2. Grows
        BY <2>1, HistoryGrows
    <2>3. ASSUME NEW t \in Members PROVE InSession(t)' /\ GivenCovered(t)'
        <3>1. CASE t = s
            BY <2>1, <2>2, <3>1, SessionStep, CoverStep
        <3>2. CASE t # s
            BY <2>1, <2>2, <3>2, OthersLeft, SessionKept DEF GroupInv
        <3> QED BY <3>1, <3>2
    <2> QED BY <2>1, <2>2, <2>3, GroupTypeStep, CommitStep DEF GroupInv
<1>3. CASE UNCHANGED groupVars
    <2>1. GroupTypeOK'
        BY <1>3 DEF GroupInv, GroupTypeOK, groupVars, sessions, kafka, history
    <2>2. /\ \A t \in Members : Leaves(t)
          /\ Grows /\ committed' = committed
        BY <1>3 DEF Leaves, Grows, Covered, groupVars, sessions, kafka, history
    <2> QED BY <2>1, <2>2, SessionKept, CommitKept DEF GroupInv
<1> QED BY <1>1, <1>2, <1>3, GroupCases

\* Whatever the members do, and Kafka with their partition, what a session was
\* given is covered or in its handler's hands, and commits stay behind.
THEOREM GroupInvariant == GroupSpec => []GroupInv
BY GroupInvInit, GroupInvStep, PTL DEF GroupSpec

\* The variables of the group, its sessions and the partition keep their types.
THEOREM GroupTypeCorrect == GroupSpec => []GroupTypeOK
<1>1. GroupInv => GroupTypeOK
    BY DEF GroupInv
<1> QED BY <1>1, GroupInvariant, PTL

\* However many members a group has, and however its partition is rebalanced, a
\* committed offset was acknowledged, and no handler still owes a message before it.
THEOREM NothingCommittedUnhandled == GroupSpec => []CommitFollowsHandling
<1>1. GroupInv => CommitFollowsHandling
    BY DEF GroupInv
<1> QED BY <1>1, GroupInvariant, PTL
=============================================================================
