------------------------------ MODULE Consumer -------------------------------
(***************************************************************************)
(* The consumer's life cycle (src/consumer/default_consumer.go): callers   *)
(* that Start and Stop it, the subscriptions it opens at the broker and    *)
(* the handler calls that its WaitGroup counts.  The broker is seen from   *)
(* here only: it is up or down, and runs a loop for each of its            *)
(* subscriptions; Unsubscribe and Disconnect tell loops to leave and, at a *)
(* broker that drains (Redis), wait until they have.                       *)
(***************************************************************************)
EXTENDS Naturals, FiniteSets

CONSTANTS
    Callers,          \* goroutines that call Start and Stop
    NoCaller,
    Topics,           \* subscriptions that may be registered
    MaxLoops,         \* bound: loops of one topic that exist at once
    MaxFailures       \* bound: failed calls of Broker.Connect and Subscribe

ASSUME NoCallerIsNone == NoCaller \notin Callers
ASSUME Bounds == MaxLoops \in Nat \ {0} /\ MaxFailures \in Nat

Loops == Topics \X (1..MaxLoops)

VARIABLES
    lock,       \* who holds the consumer's write lock
    started,    \* defaultConsumer.started
    registered, \* the keys of c.subscribers
    saved,      \* its values, as the loop's number; 0 for nil
    pc,         \* where each caller is
    drains,     \* whether the broker's Unsubscribe and Disconnect wait for handlers
    up,         \* whether it is connected
    loop,       \* the broker's loops
    handler,    \* the handler call each of them is in
    failures,
    last,       \* history: what the last call did, as of its last effect
    overlap     \* history: calls have overlapped since a Stop that began alone

vars == <<lock, started, registered, saved, pc, drains, up, loop, handler,
          failures, last, overlap>>
consumer == <<lock, started, registered, saved, pc, last, overlap>>

Active == {l \in Loops : handler[l] # "none"}
Leaving == {l \in Loops : loop[l] = "leaving"}

TypeOK ==
    /\ lock \in Callers \cup {NoCaller}
    /\ started \in BOOLEAN
    /\ registered \in SUBSET Topics
    /\ saved \in [Topics -> 0..MaxLoops]
    /\ pc \in [Callers -> {"idle", "subscribing", "unsubscribing", "unlocked",
                           "draining", "disconnecting", "closing"}]
    /\ drains \in BOOLEAN
    /\ up \in BOOLEAN
    /\ loop \in [Loops -> {"free", "live", "leaving"}]
    /\ handler \in [Loops -> {"none", "running"}]
    /\ failures \in 0..MaxFailures
    /\ last \in {"none", "started", "stopped", "not stopped"}
    /\ overlap \in BOOLEAN
    /\ \A t \in Topics : saved[t] > 0 => t \in registered
    \* the lock is held exactly by a call between its Lock and its Unlock
    /\ \A c \in Callers : lock = c <=> pc[c] \in {"subscribing", "unsubscribing"}

Init ==
    /\ lock = NoCaller
    /\ started = FALSE
    /\ registered = {}
    /\ saved = [t \in Topics |-> 0]
    /\ pc = [c \in Callers |-> "idle"]
    /\ drains \in BOOLEAN
    /\ up = FALSE
    /\ loop = [l \in Loops |-> "free"]
    /\ handler = [l \in Loops |-> "none"]
    /\ failures = 0
    /\ last = "none"
    /\ overlap = FALSE

Quiescent == \A c \in Callers : pc[c] = "idle"

\* A call begins, with the lock; one on a started consumer is a Stop, which
\* clears what overlapping calls before it may have left.
Calls(c) ==
    /\ pc[c] = "idle"
    /\ lock = NoCaller
    /\ overlap' = (~Quiescent \/ (overlap /\ ~started))

Goes(c, where) == pc' = [pc EXCEPT ![c] = where]

-----------------------------------------------------------------------------
(* Subscribe *)

\* Registration only: the topic is subscribed to at the broker by a Start.
Subscribe(t) ==
    /\ lock = NoCaller
    /\ t \notin registered
    /\ registered' = registered \cup {t}
    /\ UNCHANGED <<drains, lock, started, saved, pc, up, loop, handler, failures, last, overlap>>

-----------------------------------------------------------------------------
(* Start *)

Fails == failures < MaxFailures /\ failures' = failures + 1

\* Connect waits for a Disconnect that is still draining.
StartBegin(c) ==
    /\ Calls(c)
    /\ ~started
    /\ \A d \in Callers : drains => pc[d] # "closing"
    /\ up' = TRUE
    /\ lock' = c
    /\ Goes(c, "subscribing")
    /\ UNCHANGED <<drains, started, registered, saved, loop, handler, failures, last>>

StartCannotConnect(c) ==
    /\ Calls(c)
    /\ ~started
    /\ Fails
    /\ last' = "none"
    /\ UNCHANGED <<drains, lock, started, registered, saved, pc, up, loop, handler>>

AnyRegistered == registered
ToSubscribe == {t \in registered : saved[t] = 0}

StartSubscribes(c) ==
    /\ pc[c] = "subscribing"
    /\ up
    /\ \E t \in ToSubscribe : \E n \in 1..MaxLoops :
          /\ loop[<<t, n>>] = "free"
          /\ loop' = [loop EXCEPT ![<<t, n>>] = "live"]
          /\ saved' = [saved EXCEPT ![t] = n]
    /\ UNCHANGED <<drains, lock, started, registered, pc, up, handler, failures, last, overlap>>

KeptLocked(c) == Goes(c, "idle") /\ UNCHANGED lock
Released(c) == lock' = NoCaller /\ Goes(c, "idle")

\* Broker.Subscribe fails, by itself or since the broker is down: Start returns
\* the error, with the broker connected and earlier topics subscribed.
StartFails(c) ==
    /\ pc[c] = "subscribing"
    /\ ToSubscribe # {}
    /\ \/ Fails
       \/ ~up /\ UNCHANGED failures
    /\ Released(c)
    /\ last' = "none"
    /\ UNCHANGED <<drains, started, registered, saved, up, loop, handler, overlap>>

StartEnds(c) ==
    /\ pc[c] = "subscribing"
    /\ ToSubscribe = {}
    /\ started' = TRUE
    /\ Released(c)
    /\ last' = "started"
    /\ UNCHANGED <<drains, registered, saved, up, loop, handler, failures, overlap>>

-----------------------------------------------------------------------------
(* Stop *)

NotUnsubscribed(l) == loop[l]
Unsubscribed(l) == IF saved[l[1]] = l[2] /\ loop[l] = "live" THEN "leaving" ELSE loop[l]

KeptSaved == saved
NoneSaved == [t \in Topics |-> 0]

\* Every saved broker subscription is unsubscribed by a goroutine of its own.
StopBegin(c) ==
    /\ Calls(c)
    /\ started
    /\ loop' = [l \in Loops |-> Unsubscribed(l)]
    /\ saved' = NoneSaved
    /\ lock' = c
    /\ Goes(c, "unsubscribing")
    /\ UNCHANGED <<drains, started, registered, up, handler, failures, last>>

\* A consumer that is not started is left as it is.
StopNothing(c) ==
    /\ Calls(c)
    /\ ~started
    /\ last' = "not stopped"
    /\ UNCHANGED <<drains, lock, started, registered, saved, pc, up, loop, handler, failures>>

\* The Unsubscribe calls have returned: the lock is released ...
StopUnlocks(c) ==
    /\ pc[c] = "unsubscribing"
    /\ drains => Leaving = {}
    /\ lock' = NoCaller
    /\ Goes(c, "unlocked")
    /\ UNCHANGED <<drains, started, registered, saved, up, loop, handler, failures, last, overlap>>

\* ... and only then is started reset.
StopMarks(c) ==
    /\ pc[c] = "unlocked"
    /\ started' = FALSE
    /\ Goes(c, "draining")
    /\ UNCHANGED <<drains, lock, registered, saved, up, loop, handler, failures, last, overlap>>

SkipDisconnect(c) == Goes(c, "idle") /\ last' = "stopped"
ThenDisconnect(c) == Goes(c, "disconnecting") /\ UNCHANGED last

\* c.wg.Wait() sees the counter at zero.
StopDrained(c) ==
    /\ pc[c] = "draining"
    /\ Active = {}
    /\ ThenDisconnect(c)
    /\ UNCHANGED <<drains, lock, started, registered, saved, up, loop, handler, failures, overlap>>

\* Broker.Disconnect stops whatever subscriptions the broker has; nothing if
\* it is down already.
StopDisconnects(c) ==
    /\ pc[c] = "disconnecting"
    /\ up' = FALSE
    /\ loop' = [l \in Loops |-> IF up /\ loop[l] = "live" THEN "leaving" ELSE loop[l]]
    /\ Goes(c, "closing")
    /\ last' = "stopped"
    /\ UNCHANGED <<lock, started, registered, saved, drains, handler, failures, overlap>>

StopEnds(c) ==
    /\ pc[c] = "closing"
    /\ drains => Leaving = {}
    /\ Goes(c, "idle")
    /\ UNCHANGED <<lock, started, registered, saved, drains, up, loop, handler, failures,
                   last, overlap>>

-----------------------------------------------------------------------------
(* The broker's loops and the handlers *)

\* A loop told to leave finishes the call it is in.  Where nobody waits for it,
\* it may still find a message before it finds that it was told.
HandlerBegins(l) ==
    /\ \/ loop[l] = "live"
       \/ loop[l] = "leaving" /\ ~drains
    /\ handler[l] = "none"
    /\ handler' = [handler EXCEPT ![l] = "running"]
    /\ UNCHANGED <<drains, consumer, up, loop, failures>>

HandlerReturns(l) ==
    /\ handler[l] = "running"
    /\ handler' = [handler EXCEPT ![l] = "none"]
    /\ UNCHANGED <<drains, consumer, up, loop, failures>>

LoopEnds(l) ==
    /\ loop[l] = "leaving"
    /\ handler[l] = "none"
    /\ loop' = [loop EXCEPT ![l] = "free"]
    /\ UNCHANGED <<drains, consumer, up, handler, failures>>

-----------------------------------------------------------------------------
CallStep(c) ==
    \/ StartSubscribes(c) \/ StartFails(c) \/ StartEnds(c)
    \/ StopUnlocks(c) \/ StopMarks(c) \/ StopDrained(c) \/ StopDisconnects(c) \/ StopEnds(c)

Next ==
    \/ \E t \in Topics : Subscribe(t)
    \/ \E c \in Callers : \/ StartBegin(c) \/ StartCannotConnect(c)
                          \/ StopBegin(c) \/ StopNothing(c)
                          \/ CallStep(c)
    \/ \E l \in Loops : \/ HandlerBegins(l) \/ HandlerReturns(l) \/ LoopEnds(l)

Spec == Init /\ [][Next]_vars

\* Callers and handlers keep running.  A loop that was told to leave leaves,
\* although it may find messages first: Go's select chooses at random.
FairSpec ==
    /\ Spec
    /\ \A c \in Callers : WF_vars(CallStep(c))
    /\ \A l \in Loops : /\ WF_vars(HandlerReturns(l))
                        /\ SF_vars(LoopEnds(l))

-----------------------------------------------------------------------------
(* Properties *)

Down == ~up /\ \A l \in Loops : loop[l] # "live"

\* However calls fail, overlap and are repeated, a topic is never consumed by
\* two broker subscriptions of this consumer at once.
NoDoubleSubscription ==
    \A t \in Topics : Cardinality({n \in 1..MaxLoops : loop[<<t, n>>] = "live"}) <= 1

\* When a Stop that stopped something was the last call, the broker is down, no
\* subscription is open and, if the broker waits for its loops, no handler is
\* running.
StopStops == Quiescent /\ last = "stopped" => Down /\ (drains => Active = {})

\* "wg is used for graceful draining of active handlers": no handler is running
\* after Stop, at any broker.
StopDrainsHandlers == Quiescent /\ last = "stopped" => Active = {}

Served == up /\ \A t \in Topics : saved[t] > 0 => loop[<<t, saved[t]>>] = "live"

\* After a successful Start the broker is up and every saved subscription is
\* served, whatever failures and restarts went before, and whatever overlaps
\* before the last Stop that began alone.
StartServes == Quiescent /\ last = "started" /\ ~overlap => Served

\* Stop waits for handlers, with the lock held at first, and still returns,
\* unless another call's Start keeps handlers coming.
StopReturns ==
    \A c \in Callers : pc[c] = "unsubscribing" ~> pc[c] = "idle" \/ overlap
=============================================================================
