------------------------------ MODULE ServiceRun ------------------------------
(***************************************************************************)
(* A process in which a web service (src/web/web.go) and a service         *)
(* (src/service.go) run side by side on one Kafka broker, as in            *)
(* src/examples/metrics: two calls of Run, the HTTP server and its         *)
(* requests, which publish, the subscriptions and their handlers, which    *)
(* publish too, and the signals that stop it all.  consumer.Run, which     *)
(* runs the default consumer, takes the steps of service.Run.              *)
(***************************************************************************)
EXTENDS KafkaBroker

CONSTANTS
    Web, Service,
    Requests,      \* HTTP requests that may arrive
    MaxSignals     \* bound on the signals sent to the process

Mains == {Web, Service}

\* Stop has a goroutine for each subscription: the caller of that name.
ASSUME CallersAreKnown == Callers = Mains \cup Requests \cup Subs
ASSUME CallersAreApart ==
    /\ Web # Service
    /\ Mains \cap Requests = {} /\ Mains \cap Subs = {} /\ Requests \cap Subs = {}
ASSUME MaxSignalsIsNatural == MaxSignals \in Nat

VARIABLES
    phase,       \* how far each Run has come
    server,      \* the HTTP server
    forced,      \* whether Shutdown gave up waiting for requests
    notified,    \* whose channels are registered for signals
    quit,        \* whose channel holds a signal
    rq,          \* what each request is doing
    gone,        \* whether a signal has killed the process
    signals

env == <<server, forced, notified, quit, rq, gone, signals>>
vars == <<broker, phase, env>>

ServiceTypeOK ==
    /\ phase \in [Mains -> {"new", "connecting", "listening", "subscribing", "started", "waiting",
                            "shutdown", "unsubscribing", "drained", "disconnecting",
                            "returned", "failed"}]
    /\ server \in {"off", "serving", "failed", "shut"}
    /\ {forced, gone} \subseteq BOOLEAN
    /\ notified \subseteq Mains
    /\ quit \in [Mains -> BOOLEAN]
    /\ rq \in [Requests -> {"none", "running", "publishing", "done"}]
    /\ signals \in 0..MaxSignals

\* Type invariant: the values the fields of kBroker, the two Runs and the
\* server take; scMutex is held by whoever is inside Disconnect and nobody else.
TypeOK == BrokerTypeOK /\ ServiceTypeOK

Init ==
    /\ BrokerInit
    /\ phase = [m \in Mains |-> "new"]
    /\ server = "off" /\ forced = FALSE
    /\ notified = {} /\ quit = [m \in Mains |-> FALSE]
    /\ rq = [r \in Requests |-> "none"]
    /\ gone = FALSE /\ signals = 0

Enters(m, p) == phase' = [phase EXCEPT ![m] = p]

-----------------------------------------------------------------------------
(* What both Runs do *)

Connects(m) ==
    /\ phase[m] = "new"
    /\ ConnectBegins(m) \/ ConnectNothing(m)
    /\ Enters(m, "connecting")
    /\ UNCHANGED env

\* Run returns the error of Connect or of a Subscribe, and undoes nothing.
GivesUp(m) ==
    /\ phase[m] \in {"connecting", "subscribing"}
    /\ pc[m] = "idle" /\ failed[m]
    /\ Enters(m, "failed")
    /\ UNCHANGED <<broker, env>>

Notifies(m) ==
    /\ phase[m] \in {"listening", "started"}
    /\ notified' = notified \cup {m}
    /\ Enters(m, "waiting")
    /\ UNCHANGED <<broker, server, forced, quit, rq, gone, signals>>

Disconnects(m) ==
    /\ phase[m] = "drained"
    /\ DisconnectBegins(m)
    /\ Enters(m, "disconnecting")
    /\ UNCHANGED env

\* An error of Disconnect is logged, no more.  Only the web service stops
\* listening for signals.
RunEnds(m) ==
    /\ phase[m] = "disconnecting"
    /\ pc[m] = "idle"
    /\ notified' = notified \ ({m} \cap {Web})
    /\ Enters(m, "returned")
    /\ UNCHANGED <<broker, server, forced, quit, rq, gone, signals>>

-----------------------------------------------------------------------------
(* The web service *)

Listens ==
    /\ phase[Web] = "connecting"
    /\ pc[Web] = "idle" /\ ~failed[Web]
    /\ server' = "serving"
    /\ Enters(Web, "listening")
    /\ UNCHANGED <<broker, forced, notified, quit, rq, gone, signals>>

\* The address is taken, or accepting connections fails later.
ServerFails ==
    /\ server = "serving"
    /\ server' = "failed"
    /\ UNCHANGED <<broker, phase, forced, notified, quit, rq, gone, signals>>

\* Run returns the server's error; the broker stays connected.
WebFails ==
    /\ phase[Web] = "waiting"
    /\ server = "failed"
    /\ notified' = notified \ {Web}
    /\ Enters(Web, "failed")
    /\ UNCHANGED <<broker, server, forced, quit, rq, gone, signals>>

\* A slip: the broker is disconnected without waiting for requests.
SkipsShutdown == "drained"
NextAfterSignal == "shutdown"

WebInterrupted ==
    /\ phase[Web] = "waiting"
    /\ quit[Web]
    /\ server' = IF server = "serving" THEN "shut" ELSE server
    /\ Enters(Web, NextAfterSignal)
    /\ UNCHANGED <<broker, forced, notified, quit, rq, gone, signals>>

Answered == \A r \in Requests : rq[r] \in {"none", "done"}

\* Five seconds after the signal Shutdown stops waiting; the requests go on.
ShutdownEnds ==
    /\ phase[Web] = "shutdown"
    /\ \/ Answered /\ UNCHANGED forced
       \/ ~Answered /\ forced' = TRUE
    /\ Enters(Web, "drained")
    /\ UNCHANGED <<broker, server, notified, quit, rq, gone, signals>>

-----------------------------------------------------------------------------
(* The service: its consumer's Start, the wait for a signal, Stop *)

Starts ==
    /\ phase[Service] = "connecting"
    /\ pc[Service] = "idle" /\ ~failed[Service]
    /\ Enters(Service, "subscribing")
    /\ UNCHANGED <<broker, env>>

Subscribes ==
    /\ phase[Service] = "subscribing"
    /\ ~failed[Service]
    /\ \E s \in Subs : group[s] = "none"
    /\ (\E s \in Subs : SubscribeBegins(Service, s)) \/ SubscribeFails(Service)
    /\ UNCHANGED <<phase, env>>

Started ==
    /\ phase[Service] = "subscribing"
    /\ pc[Service] = "idle" /\ ~failed[Service]
    /\ \A s \in Subs : group[s] # "none"
    /\ Enters(Service, "started")
    /\ UNCHANGED <<broker, env>>

ServiceInterrupted ==
    /\ phase[Service] = "waiting"
    /\ quit[Service]
    /\ Enters(Service, "unsubscribing")
    /\ UNCHANGED <<broker, env>>

Unsubscribes(s) ==
    /\ phase[Service] = "unsubscribing"
    /\ sub[s] = None
    /\ UnsubscribeBegins(s, s)
    /\ UNCHANGED <<phase, env>>

\* A slip: not waiting for the calls of Unsubscribe.
WaitsForNobody == TRUE

\* Stop waits for the calls of Unsubscribe, then for the handlers.
Unsubscribed == \A s \in Subs : sub[s] = s /\ pc[s] = "idle"

Drained ==
    /\ phase[Service] = "unsubscribing"
    /\ Unsubscribed
    /\ \A s \in Subs : handler[s] = "none"
    /\ Enters(Service, "drained")
    /\ UNCHANGED <<broker, env>>

-----------------------------------------------------------------------------
(* Requests and signals *)

RequestGoes(r, where) ==
    /\ rq' = [rq EXCEPT ![r] = where]
    /\ UNCHANGED <<phase, server, forced, notified, quit, gone, signals>>

Arrives(r) ==
    /\ server = "serving"
    /\ rq[r] = "none"
    /\ RequestGoes(r, "running")
    /\ UNCHANGED broker

RequestPublishes(r) ==
    /\ rq[r] = "running"
    /\ PublishBegins(r)
    /\ RequestGoes(r, "publishing")

\* With or without having published.
RequestEnds(r) ==
    /\ rq[r] \in {"running", "publishing"}
    /\ pc[r] = "idle"
    /\ RequestGoes(r, "done")
    /\ UNCHANGED broker

\* A signal goes to every channel that is registered; if there is none, it
\* kills the process.
Signal ==
    /\ signals < MaxSignals
    /\ signals' = signals + 1
    /\ quit' = [m \in Mains |-> quit[m] \/ m \in notified]
    /\ gone' = (notified = {})
    /\ UNCHANGED <<broker, phase, server, forced, notified, rq>>

-----------------------------------------------------------------------------
RunStep(m) ==
    \/ Connects(m) \/ GivesUp(m) \/ Notifies(m) \/ Disconnects(m) \/ RunEnds(m)
    \/ m = Web /\ (Listens \/ WebFails \/ WebInterrupted \/ ShutdownEnds)
    \/ m = Service /\ (Starts \/ Subscribes \/ Started \/ ServiceInterrupted \/ Drained)

RequestStep(r) == Arrives(r) \/ RequestPublishes(r) \/ RequestEnds(r)

Next ==
    /\ ~gone
    /\ \/ \E m \in Mains : RunStep(m)
       \/ \E s \in Subs : Unsubscribes(s)
       \/ \E r \in Requests : RequestStep(r)
       \/ ServerFails \/ Signal
       \/ BrokerStep /\ UNCHANGED <<phase, env>>

\* A call goes on: nobody is left waiting for the mutex; handlers end, and a
\* session that is being closed hands out no messages for ever; successes are
\* read where there is a channel for them.  Neither signals nor requests need
\* come, and a request may hang.
Fairness ==
    /\ WF_vars(ForwardSuccess /\ UNCHANGED <<phase, env>>)
    /\ \A c \in Callers : WF_vars(CallStep(c) /\ UNCHANGED <<phase, env>>)
    /\ \A s \in Subs : /\ WF_vars(HandlerStep(s) /\ UNCHANGED <<phase, env>>)
                       /\ SF_vars(CloseEnds(s) /\ UNCHANGED <<phase, env>>)
    /\ \A m \in Mains : WF_vars(RunStep(m))
    /\ \A s \in Subs : WF_vars(Unsubscribes(s))

Spec == Init /\ [][Next]_vars /\ Fairness

-----------------------------------------------------------------------------
Disconnecting(m) == phase[m] \in {"disconnecting", "returned"}

\* Who publishes finds the broker there.  A request is refused only after
\* Shutdown gave up on it, or when the service took the broker away from the web
\* service; a handler only when the web service took it from the service: its
\* own service drains first (web.go:108, default_consumer.go:148).
WorkIsServed ==
    /\ \A r \in refused \cap Requests : forced \/ Disconnecting(Service)
    /\ \A s \in refused \cap Subs : Disconnecting(Web)

\* When service.Run has returned without an error its groups are closed and no
\* handler runs, were the groups dropped from the broker's list by a Connect of
\* the web service that came late (kafka.go:105).  A group that can consume is
\* known to the broker, or was dropped like that, or is being registered; so what
\* a Disconnect found in the list no longer consumes.
NothingLeftOpen ==
    /\ phase[Service] = "returned" => \A s \in Subs : group[s] = "closed"
    /\ \A s \in Subs :
          /\ group[s] \in {"open", "closing"} =>
                \/ s \in cgs \cup lost
                \/ pc[Service] = "registering" /\ sub[Service] = s
          /\ handler[s] # "none" => group[s] \in {"open", "closing"}

=============================================================================
