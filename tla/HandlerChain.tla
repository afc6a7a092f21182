----------------------------- MODULE HandlerChain -----------------------------
(***************************************************************************)
(* What happens between the broker and the user's handler, and between the *)
(* handler and the broker: the wrappers around a subscription's handler    *)
(* and around the publisher, called one inside the other.  A message's     *)
(* headers are a Go map that every wrapper reaches through the context;    *)
(* the tracing wrapper (src/wrapper/trace/otel) reads the parent span from *)
(* it and writes the new span into it, the metrics wrapper                 *)
(* (src/wrapper/metrics/prometheus) counts, the retry wrapper calls again, *)
(* the publisher copies the map into the message it sends.                 *)
(*                                                                         *)
(* Several actors run at once: deliveries of messages, each in a goroutine *)
(* of its broker, and HTTP requests, whose context holds a span but no     *)
(* headers.  Definitions marked as a slip are used nowhere: they are what  *)
(* the code could wrongly be.                                              *)
(***************************************************************************)
EXTENDS Naturals, Sequences, FiniteSets

CONSTANTS
    N,               \* how many actors there are
    Chains,          \* pairs of chains, of subscriber and of publisher wrappers,
                     \* the outermost first
    Attempts,        \* calls the retry wrapper makes at most
    MaxPublishes     \* bound on the publish calls of all actors

\* There is no retry wrapper for publishers.
ASSUME WrappersAreKnown ==
    Chains \subseteq Seq({"otel", "prometheus", "retry"}) \X Seq({"otel", "prometheus"})
ASSUME Bounds == N \in Nat /\ Attempts \in Nat \ {0} /\ MaxPublishes \in Nat

Actors == 1..N

VARIABLES
    requests,   \* which actors are HTTP requests, the others being deliveries
    sharing,    \* how deliveries share a message and its map
    subs, pubs, \* the wrappers in use
    mode,       \* calling, running the handler, or returning a result
    stack,      \* the calls in progress, the innermost last
    heap,       \* the maps: the span each names (its traceparent)
    spans,      \* the spans started: parent, owner, whether ended
    counted,    \* milli_{subscriber,publisher}_messages_total by status
    sent,       \* the messages the broker took: sender, map, span of the call and
                \* what the call was answered
    publishes,  \* history: how many publish calls there were
    answer      \* history: how the call the broker made ended

config == <<requests, sharing, subs, pubs>>
trace == <<heap, spans>>
vars == <<config, mode, stack, trace, counted, sent, publishes, answer>>

Results == {"ok", "error", "panic"}
Statuses == {"success", "error"}
Frames == [wrapper : {"otel", "prometheus", "retry", "handler"},
           span : Nat, tries : 0..Attempts, map : Nat]

\* Type invariant: every frame of a stack and every map names a span that was
\* started, and a retry wrapper makes Attempts calls at most.
TypeOK ==
    /\ sharing \in {"none", "sequential", "concurrent"}
    /\ requests \subseteq Actors
    /\ <<subs, pubs>> \in Chains
    /\ mode \in [Actors -> {"idle", "calling", "injecting", "running", "done"} \cup Results]
    /\ \A a \in Actors : \A i \in 1..Len(stack[a]) :
          stack[a][i] \in Frames /\ stack[a][i].span <= Len(spans) /\ stack[a][i].map <= Len(heap)
    /\ \A i \in 1..Len(heap) : heap[i] \in 1..Len(spans)
    /\ \A i \in 1..Len(spans) : spans[i].parent < i
    /\ counted \in [{"sub", "pub"} -> [Statuses -> Nat]]
    /\ publishes \in 0..MaxPublishes
    /\ answer \in [Actors -> Results \cup {"none"}]

-----------------------------------------------------------------------------
(* The chain of calls *)

\* Redis and Kafka make a map for every delivery; the memory broker hands one
\* message to its subscribers in turn, the channel broker to its groups at once.
\* Map 1 is then everybody's.  No map (0): the metadata of a request's context.
MapOf(a) == IF a \in requests THEN 0 ELSE IF sharing = "none" THEN a ELSE 1

\* The span upstream: in the headers of the message, or of the HTTP request.
Upstream(a) == IF MapOf(a) = 0 THEN a ELSE MapOf(a)

\* Subscribe and NewDefaultPublisher apply the last wrapper first.
Handling(a) == (IF a \in requests THEN <<>> ELSE subs) \o <<"handler">>
Callees(a) == Handling(a) \o pubs \o <<"publish">>

Callee(a) == Callees(a)[Len(stack[a]) + 1]
Top(a) == stack[a][Len(stack[a])]

\* metadata.FromContext
Metadata(a) == IF stack[a] = <<>> THEN MapOf(a) ELSE Top(a).map

Calls(a, w) == mode[a] = "calling" /\ Callee(a) = w
Goes(a, m) == mode' = [mode EXCEPT ![a] = m]
Push(a, w, span, map) ==
    stack' = [stack EXCEPT ![a] = Append(@, [wrapper |-> w, span |-> span,
                                              tries |-> IF w = "retry" THEN 1 ELSE 0, map |-> map])]
Pop(a) == stack' = [stack EXCEPT ![a] = SubSeq(@, 1, Len(@) - 1)]

Init ==
    /\ sharing \in {"none", "sequential", "concurrent"}
    /\ \E k \in 0..N : requests = (k + 1)..N
    /\ requests # {} => sharing = "none"
    /\ \E c \in Chains : subs = c[1] /\ pubs = c[2]
    /\ mode = [a \in Actors |-> "idle"]
    /\ stack = [a \in Actors |-> <<>>]
    /\ heap = [a \in Actors |-> a]
    /\ spans = [a \in Actors |-> [parent |-> 0, by |-> 0, over |-> TRUE]]
    /\ counted = [side \in {"sub", "pub"} |-> [status \in Statuses |-> 0]]
    /\ sent = {}
    /\ publishes = 0
    /\ answer = [a \in Actors |-> "none"]

\* The broker calls the handler that createSubHandler made, gin a route's; the
\* memory broker calls the next subscriber when the one before has returned.
Begin(a) ==
    /\ mode[a] = "idle"
    /\ sharing = "sequential" /\ a \notin requests => \A b \in 1..(a - 1) : mode[b] = "done"
    /\ Goes(a, "calling")
    /\ UNCHANGED <<config, stack, trace, counted, sent, publishes, answer>>

\* createSubHandler, and gin.Recovery for a request, turn a panic into an error.
End(a) ==
    /\ mode[a] \in Results
    /\ stack[a] = <<>>
    /\ answer' = [answer EXCEPT ![a] = mode[a]]
    /\ Goes(a, "done")
    /\ UNCHANGED <<config, stack, trace, counted, sent, publishes>>

-----------------------------------------------------------------------------
(* Tracing *)

\* The parent is what the map names; without a map, the context's own span.
Parent(a) == IF Metadata(a) = 0 THEN Upstream(a) ELSE heap[Metadata(a)]

StartSpan(a) ==
    /\ Calls(a, "otel")
    /\ spans' = Append(spans, [parent |-> Parent(a), by |-> a, over |-> FALSE])
    /\ Push(a, "otel", Len(spans) + 1, Metadata(a))
    /\ Goes(a, "injecting")
    /\ UNCHANGED <<config, heap, counted, sent, publishes, answer>>

\* The new span is written into the very map the parent was read from.  When
\* goroutines share it the runtime may stop the process for that (concurrent map
\* writes), which ends the behaviour.
Inject(a) ==
    /\ mode[a] = "injecting"
    /\ \/ /\ Top(a).map # 0
          /\ heap' = [heap EXCEPT ![Top(a).map] = Top(a).span]
          /\ UNCHANGED stack
       \/ /\ Top(a).map = 0
          /\ heap' = Append(heap, Top(a).span)
          /\ stack' = [stack EXCEPT ![a][Len(stack[a])].map = Len(heap) + 1]
    /\ Goes(a, "calling")
    /\ UNCHANGED <<config, spans, counted, sent, publishes, answer>>

\* A slip: span.End after the call, not deferred.
EndsUnlessPanic(a) == mode[a] # "panic"
Ends(a) == TRUE

OtelReturns(a) ==
    /\ mode[a] \in Results
    /\ stack[a] # <<>> /\ Top(a).wrapper = "otel"
    /\ spans' = [spans EXCEPT ![Top(a).span].over = Ends(a)]
    /\ Pop(a)
    /\ UNCHANGED <<config, mode, heap, counted, sent, publishes, answer>>

-----------------------------------------------------------------------------
(* Metrics *)

Measure(a) ==
    /\ Calls(a, "prometheus")
    /\ Push(a, "prometheus", 0, Metadata(a))
    /\ UNCHANGED <<config, mode, trace, counted, sent, publishes, answer>>

Side(a) == IF \E i \in 1..Len(stack[a]) : stack[a][i].wrapper = "handler" THEN "pub" ELSE "sub"

\* A panic passes by: the count comes after the call.
StatusOf(a) == IF mode[a] = "panic" THEN {} ELSE {IF mode[a] = "ok" THEN "success" ELSE "error"}

PrometheusReturns(a) ==
    /\ mode[a] \in Results
    /\ stack[a] # <<>> /\ Top(a).wrapper = "prometheus"
    /\ counted' = [counted EXCEPT ![Side(a)] =
                      [s \in Statuses |-> @[s] + IF s \in StatusOf(a) THEN 1 ELSE 0]]
    /\ Pop(a)
    /\ UNCHANGED <<config, mode, trace, sent, publishes, answer>>

-----------------------------------------------------------------------------
(* Retries; the backoff and the context are the subject of Retry *)

Try(a) ==
    /\ Calls(a, "retry")
    /\ Push(a, "retry", 0, Metadata(a))
    /\ UNCHANGED <<config, mode, trace, counted, sent, publishes, answer>>

\* A slip: one attempt too many.
TriesMore(f) == f.tries <= Attempts
TriesAgain(f) == f.tries < Attempts

TryAgain(a) ==
    /\ mode[a] = "error"
    /\ stack[a] # <<>> /\ Top(a).wrapper = "retry" /\ TriesAgain(Top(a))
    /\ stack' = [stack EXCEPT ![a][Len(stack[a])].tries = @ + 1]
    /\ Goes(a, "calling")
    /\ UNCHANGED <<config, trace, counted, sent, publishes, answer>>

\* A slip: the message sent has the map of the context itself.
SharesMap(map) == heap
Copied(map) == Append(heap, heap[map])

\* The span of the publish call that is sending, 0 if it is not traced or
\* there is none.
CallSpan(a) ==
    LET own == {i \in 1..Len(stack[a]) : /\ stack[a][i].wrapper = "otel"
                                         /\ \E j \in 1..(i - 1) : stack[a][j].wrapper = "handler"}
    IN IF own = {} THEN 0 ELSE stack[a][CHOOSE i \in own : \A j \in own : j <= i].span

\* The message sent has a copy of the headers in the context; without any, no
\* span is named in it.
Send(a, kind, result) ==
    \/ /\ Metadata(a) # 0
       /\ heap' = Copied(Metadata(a))
       /\ sent' = sent \cup {[by |-> a, kind |-> kind, span |-> CallSpan(a), answer |-> result,
                              map |-> IF heap' = heap THEN Metadata(a) ELSE Len(heap')]}
    \/ /\ Metadata(a) = 0
       /\ UNCHANGED <<heap, sent>>

\* A broker's Publish: nil says that the message was taken; with an error it may
\* have been all the same, as when the answer to an XADD is lost.  A broker that
\* was closed may panic.
BrokerPublish(a, kind) ==
    \/ \E r \in {"ok", "error"} : Goes(a, r) /\ Send(a, kind, r)
    \/ \E r \in {"error", "panic"} : Goes(a, r) /\ UNCHANGED <<heap, sent>>

\* Exhausted: the dead-letter publish, if it succeeds, turns the error into nil;
\* otherwise an error is returned, or its panic passes by.  Without a dead-letter
\* topic, or when the context is cancelled, the error is passed on.
RetryReturns(a) ==
    /\ mode[a] \in Results
    /\ stack[a] # <<>> /\ Top(a).wrapper = "retry"
    /\ mode[a] = "error" => ~TriesAgain(Top(a))
    /\ \/ mode[a] = "error" /\ BrokerPublish(a, "dead")
       \/ UNCHANGED <<mode, heap, sent>>
    /\ Pop(a)
    /\ UNCHANGED <<config, spans, counted, publishes, answer>>

-----------------------------------------------------------------------------
(* The handler and the publisher *)

\* RegisterSubscriber's handler decodes the body first, and may fail to.
Decode(a) ==
    /\ Calls(a, "handler")
    /\ \/ Push(a, "handler", 0, Metadata(a)) /\ Goes(a, "running")
       \/ a \notin requests /\ Goes(a, "error") /\ UNCHANGED stack
    /\ UNCHANGED <<config, trace, counted, sent, publishes, answer>>

\* Event.Publish with the context the handler was given.
PublishEvent(a) ==
    /\ mode[a] = "running"
    /\ publishes < MaxPublishes
    /\ publishes' = publishes + 1
    /\ Goes(a, "calling")
    /\ UNCHANGED <<config, stack, trace, counted, sent, answer>>

\* The publisher marshals the payload, which may be an error, and calls the broker.
Publish(a) ==
    /\ Calls(a, "publish")
    /\ BrokerPublish(a, "event")
    /\ UNCHANGED <<config, stack, spans, counted, publishes, answer>>

\* The publish call is back: the handler goes on, whatever the error; a panic
\* it does not catch.
Published(a) ==
    /\ mode[a] \in Results
    /\ stack[a] # <<>> /\ Top(a).wrapper = "handler"
    /\ \/ mode[a] # "panic" /\ Goes(a, "running") /\ UNCHANGED stack
       \/ mode[a] = "panic" /\ Pop(a) /\ UNCHANGED mode
    /\ UNCHANGED <<config, trace, counted, sent, publishes, answer>>

HandlerReturns(a) ==
    /\ mode[a] = "running"
    /\ \E r \in Results : Goes(a, r)
    /\ Pop(a)
    /\ UNCHANGED <<config, trace, counted, sent, publishes, answer>>

-----------------------------------------------------------------------------
Next ==
    \E a \in Actors :
        \/ Begin(a) \/ End(a)
        \/ StartSpan(a) \/ Inject(a) \/ OtelReturns(a)
        \/ Measure(a) \/ PrometheusReturns(a)
        \/ Try(a) \/ TryAgain(a) \/ RetryReturns(a)
        \/ Decode(a) \/ PublishEvent(a) \/ Publish(a) \/ Published(a) \/ HandlerReturns(a)

Spec == Init /\ [][Next]_vars

-----------------------------------------------------------------------------
Outermost(chain) == IF chain = <<>> THEN "none" ELSE chain[1]
Traced(chain) == \E i \in 1..Len(chain) : chain[i] = "otel"

\* The spans above a span, itself included.
Line[i \in 0..Len(spans)] == IF i = 0 THEN {} ELSE {i} \cup Line[spans[i].parent]

\* The trace a message carries is never broken: following parents from the span
\* its headers name leads to the span upstream of whoever sent it.  Unless groups
\* of the channel broker share the map the headers name the publish call's own
\* span, not another's and not a later one's, and lead to it through a span of the
\* delivery it was sent from.
TraceUnbroken ==
    \A x \in sent :
        /\ Upstream(x.by) \in Line[heap[x.map]]
        /\ sharing # "concurrent" \/ x.by \in requests =>
              /\ x.kind = "event" /\ Traced(pubs) => heap[x.map] = x.span
              /\ x.by \notin requests /\ Traced(subs) =>
                    \E i \in Line[heap[x.map]] : spans[i].by = x.by

\* Every call is accounted for.  One that is over leaves no span open, though it
\* panicked, was retried or failed to publish (wrapper.go:32, :75).  Where the
\* metrics wrapper is the outermost, a delivery counts once, as the broker is
\* answered; the publish calls counted as successes are exactly those the broker
\* took the message of and answered, and a message taken whose answer was lost is
\* among the errors; panics count nowhere.  (The span tells messages apart, hence
\* a publisher that traces.)
EachCallAccounted ==
    /\ \A i \in 1..Len(spans) :
          spans[i].by # 0 /\ mode[spans[i].by] = "done" => spans[i].over
    /\ Outermost(subs) = "prometheus" /\ (\A a \in Actors : mode[a] \in {"idle", "done"}) =>
          /\ counted["sub"]["success"] = Cardinality({a \in Actors \ requests : answer[a] = "ok"})
          /\ counted["sub"]["error"] = Cardinality({a \in Actors \ requests : answer[a] = "error"})
    /\ Outermost(pubs) = "prometheus" /\ Traced(pubs)
            /\ (\A a \in Actors : mode[a] \in {"idle", "running", "done"}) =>
          /\ counted["pub"]["success"] =
                Cardinality({x \in sent : x.kind = "event" /\ x.answer = "ok"})
          /\ counted["pub"]["error"] >=
                Cardinality({x \in sent : x.kind = "event" /\ x.answer = "error"})
=============================================================================
