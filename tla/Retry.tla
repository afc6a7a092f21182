-------------------------------- MODULE Retry --------------------------------
(***************************************************************************)
(* The retry middleware (src/wrapper/retry/retry.go) around a handler: the *)
(* attempt loop, its backoff, cancellation and the dead-letter publish,    *)
(* for one message that the broker delivers again until the middleware     *)
(* returns nil (consumer.createSubHandler turns a panic into an error).    *)
(***************************************************************************)
EXTENDS Integers

CONSTANTS
                        \* none of the options is validated, all may be negative
    MaxRetries,         \* Options.MaxRetries
    InitialBackoff,     \* Options.InitialBackoff
    MaxBackoff,         \* Options.MaxBackoff
    Multiplier,         \* Options.Multiplier, here a whole number
    MaxDuration,        \* largest time.Duration: 2^63 - 1 ns in the code
    HasDLQ,             \* DLQTopic and DLQBroker are both set
    MayCancel,          \* contexts given to the wrapper may be cancelled
    MayPanic            \* the handler may panic

ASSUME OptionTypes ==
    /\ MaxRetries \in Int
    /\ InitialBackoff \in Int
    /\ MaxBackoff \in Int
    /\ Multiplier \in Int
    /\ MaxDuration \in Nat \ {0}
    /\ HasDLQ \in BOOLEAN
    /\ MayCancel \in BOOLEAN
    /\ MayPanic \in BOOLEAN

VARIABLES
    pc,             \* where the wrapper is; "broker" between deliveries
    attempt,        \* the loop variable
    failed,         \* lastErr # nil
    ctxDone,        \* the delivery's context is cancelled
    wait,           \* the current or last backoff of this delivery
    lastWait,       \* the one before
    calls,          \* history: handler calls in this delivery
    cancelledWait,  \* history: this delivery was cancelled during a backoff
    handled,        \* history: the handler succeeded in some delivery
    inDLQ,          \* the dead-letter topic holds a copy of the message
    acked           \* the broker saw nil and will not deliver again

history == <<handled, inDLQ, acked>>
loopVars == <<pc, attempt, failed, ctxDone, wait, lastWait, calls, cancelledWait,
              handled, inDLQ, acked>>

Places == {"broker", "loop", "handler", "backoff", "exhausted", "publish"}
MinDuration == -MaxDuration - 1

LoopInit ==
    /\ pc = "broker"
    /\ attempt = 0
    /\ failed = FALSE
    /\ ctxDone = FALSE
    /\ wait = 0
    /\ lastWait = 0
    /\ calls = 0
    /\ cancelledWait = FALSE
    /\ handled = FALSE
    /\ inDLQ = FALSE
    /\ acked = FALSE

-----------------------------------------------------------------------------
(* Backoff *)

pow[exp \in Nat] == IF exp = 0 THEN 1 ELSE Multiplier * pow[exp - 1]

\* float64 to int64: exact in range (up to float precision); above it the result
\* is up to the machine: amd64 gives the least value, arm64 the largest.
ToDuration(x) ==
    IF x > MaxDuration THEN {MinDuration, MaxDuration}
    ELSE IF x < MinDuration THEN {MinDuration} ELSE {x}

Uncapped(d) == d
Capped(d) == IF d > MaxBackoff THEN MaxBackoff ELSE d

Backoffs(n) == {Capped(d) : d \in ToDuration(InitialBackoff * pow[n])}

-----------------------------------------------------------------------------
(* One delivery *)

FirstAttempt == 0

\* The broker delivers the message, again if an earlier delivery failed.
Deliver ==
    /\ pc = "broker"
    /\ ~acked
    /\ pc' = "loop"
    /\ attempt' = FirstAttempt
    /\ failed' = FALSE
    /\ ctxDone' = FALSE
    /\ wait' = 0
    /\ lastWait' = 0
    /\ calls' = 0
    /\ cancelledWait' = FALSE
    /\ UNCHANGED history

\* The wrapper returns to the broker, which acknowledges on nil.  The ack may
\* fail and the message come again.
Return(isNil) ==
    /\ pc' = "broker"
    /\ \/ acked' = isNil
       \/ isNil /\ acked' = FALSE

MayRetryOneLess == attempt < MaxRetries
MayTry == attempt <= MaxRetries

NeverLooks == FALSE
CancelSeen == ctxDone

\* The loop condition and the context check before each attempt.
LoopTop ==
    /\ pc = "loop"
    /\ \/ ~MayTry /\ pc' = "exhausted" /\ UNCHANGED acked
       \/ MayTry /\ CancelSeen /\ Return(FALSE)
       \/ MayTry /\ ~CancelSeen /\ pc' = "handler" /\ UNCHANGED acked
    /\ UNCHANGED <<attempt, failed, ctxDone, wait, lastWait, calls, cancelledWait,
                   handled, inDLQ>>

HandlerSucceeds ==
    /\ pc = "handler"
    /\ handled' = TRUE
    /\ calls' = calls + 1
    /\ failed' = FALSE
    /\ Return(TRUE)
    /\ UNCHANGED <<attempt, ctxDone, wait, lastWait, cancelledWait, inDLQ>>

\* After the last attempt no backoff, otherwise sleep before the next one.
HandlerFails ==
    /\ pc = "handler"
    /\ failed' = TRUE
    /\ calls' = calls + 1
    /\ \/ /\ attempt = MaxRetries
          /\ pc' = "exhausted"
          /\ UNCHANGED <<wait, lastWait>>
       \/ /\ attempt # MaxRetries
          /\ pc' = "backoff"
          /\ wait' \in Backoffs(attempt)
          /\ lastWait' = wait
    /\ UNCHANGED <<attempt, ctxDone, cancelledWait, history>>

\* A panic passes through the middleware: no retry, no dead letter; the
\* consumer recovers it and the broker sees an error.
HandlerPanics ==
    /\ MayPanic
    /\ pc = "handler"
    /\ calls' = calls + 1
    /\ Return(FALSE)
    /\ UNCHANGED <<attempt, failed, ctxDone, wait, lastWait, cancelledWait, handled, inDLQ>>

\* The select between the timer and the context: if both are ready, either.
BackoffElapses ==
    /\ pc = "backoff"
    /\ attempt' = attempt + 1
    /\ pc' = "loop"
    /\ UNCHANGED <<failed, ctxDone, wait, lastWait, calls, cancelledWait, history>>

BackoffCancelled ==
    /\ pc = "backoff"
    /\ ctxDone
    /\ Return(FALSE)
    /\ UNCHANGED <<attempt, failed, ctxDone, wait, lastWait, calls, cancelledWait,
                   handled, inDLQ>>

Cancel ==
    /\ MayCancel
    /\ pc # "broker"
    /\ ~ctxDone
    /\ ctxDone' = TRUE
    /\ cancelledWait' = (pc = "backoff")
    /\ UNCHANGED <<pc, attempt, failed, wait, lastWait, calls, history>>

DLQIgnored == FALSE
DLQConfigured == HasDLQ

\* Without a DLQ lastErr is returned, nil if there never was an attempt; with
\* one, lastErr.Error() on a nil lastErr panics.
Exhausted ==
    /\ pc = "exhausted"
    /\ \/ ~DLQConfigured /\ Return(~failed)
       \/ DLQConfigured /\ (ctxDone \/ ~failed) /\ Return(FALSE)
       \/ DLQConfigured /\ ~ctxDone /\ failed /\ pc' = "publish" /\ UNCHANGED acked
    /\ UNCHANGED <<attempt, failed, ctxDone, wait, lastWait, calls, cancelledWait,
                   handled, inDLQ>>

\* The DLQ broker accepts the message: it counts as done.
PublishSucceeds ==
    /\ pc = "publish"
    /\ inDLQ' = TRUE
    /\ Return(TRUE)
    /\ UNCHANGED <<attempt, failed, ctxDone, wait, lastWait, calls, cancelledWait, handled>>

ReportsSuccess == TRUE
ReportsFailure == FALSE

\* The publish fails (its answer may be what was lost): the error is returned.
PublishFails ==
    /\ pc = "publish"
    /\ inDLQ' \in {inDLQ, TRUE}
    /\ Return(ReportsFailure)
    /\ UNCHANGED <<attempt, failed, ctxDone, wait, lastWait, calls, cancelledWait, handled>>

\* Between deliveries the acknowledged message is at rest.
Rest == pc = "broker" /\ acked /\ UNCHANGED loopVars

Wrapper ==
    \/ LoopTop \/ HandlerSucceeds \/ HandlerFails \/ HandlerPanics
    \/ BackoffElapses \/ BackoffCancelled
    \/ Exhausted \/ PublishSucceeds \/ PublishFails

LoopNext == Deliver \/ Wrapper \/ Cancel \/ Rest

LoopSpec == LoopInit /\ [][LoopNext]_loopVars

\* The broker redelivers, the wrapper runs (handlers return, timers fire), and
\* the DLQ broker does not refuse for ever.
Fairness == WF_loopVars(Deliver) /\ WF_loopVars(Wrapper) /\ SF_loopVars(PublishSucceeds)

FairSpec == LoopSpec /\ Fairness

-----------------------------------------------------------------------------
(* Properties *)

\* README "Reliability": "Without a successful ACK or successful dead-letter
\* transfer, failed messages remain eligible": a message the broker lets go was
\* handled or is in the dead-letter topic.
AckedIsSafe == acked => handled \/ inDLQ

\* "failed messages are forwarded here after all retries are exhausted": a
\* delivery publishes to the DLQ only after MaxRetries + 1 calls.
DeadAfterAllAttempts == pc = "publish" => calls = MaxRetries + 1

\* "Cancellation interrupts backoff without moving the message to the
\* dead-letter queue": nor does it call the handler again.
CancelInterrupts ==
    [][cancelledWait /\ pc # "broker" =>
         calls' = calls /\ inDLQ' = inDLQ /\ acked' = FALSE]_loopVars

Overflows(n) == InitialBackoff * pow[n] > MaxDuration

\* "Multiplier is the factor by which backoff increases each retry" (retry.go:26),
\* "MaxBackoff caps the maximum backoff duration" (:23): no wait is longer than
\* the cap, and where an option is not negative and the factor is not below one,
\* only a product that leaves the range of Duration makes one shorter than the
\* wait before, and then it is the least Duration: no wait at all.
BackoffGrows ==
    pc = "backoff" =>
        /\ wait <= MaxBackoff
        /\ wait < lastWait /\ InitialBackoff >= 0 /\ MaxBackoff >= 0 /\ Multiplier >= 1 =>
              Overflows(attempt) /\ wait = MinDuration

\* With a DLQ a message is handled or ends there, provided that at some time
\* handlers stop panicking (a panic bypasses the middleware) and contexts are no
\* longer cancelled, and although publishes to the DLQ may fail.
EventuallySettled ==
    <>[][~HandlerPanics]_loopVars /\ <>[]~ctxDone => <>(handled \/ inDLQ)
=============================================================================
