--------------------------- MODULE RedisDelivery ---------------------------
(***************************************************************************)
(* Delivery through the Redis Streams broker (src/broker/redis/redis.go):  *)
(* the consumeLoop goroutines of one stream and one consumer group, and    *)
(* the part of Redis they talk to (the group's last delivered entry and    *)
(* its pending-entries list with an idle time per entry).                  *)
(*                                                                         *)
(* Message number id is the id-th entry of the stream.  Time is discrete:  *)
(* Tick lets one unit pass for everybody, and only the places where the    *)
(* code waits (a blocked read, the client's pause before it sends a        *)
(* command again, the pause after an error, a handler or an XACK under     *)
(* way) let it.  timer[w] is the time since worker w last entered such a   *)
(* place; for a batch, the time since Redis stamped it.                    *)
(*                                                                         *)
(* A definition used nowhere (GroupFromEnd, AskedInterval, ...) is a slip  *)
(* one could make in the definition after it; PROJECT.json names, under    *)
(* "mutants", the property that notices it.                                *)
(***************************************************************************)
EXTENDS Integers, FiniteSets

CONSTANTS
    Workers,        \* consumeLoop goroutines, of one or of several processes
    MaxMsgs,        \* bound: entries ever added to the stream
    BatchCount,     \* WithBatchCount: COUNT of XREADGROUP and XAUTOCLAIM
    ScanLimit,      \* pending entries one XAUTOCLAIM examines (10 * COUNT in Redis)
    MinIdle,        \* WithClaimMinIdle
    ClaimInterval,  \* WithClaimInterval
    BlockTimeout,   \* WithBlockTimeout, unvalidated: may be zero or negative
    ErrDelay,       \* the second the loop pauses after a failed XREADGROUP
    RetryDelay,     \* the client's longest pause before it sends a command again
    MaxHandling,    \* longest time from a batch's delivery to its last XACK
    AutoAck,        \* workers whose subscription has AutoAck set
    Poison,         \* messages for which every handler fails
    MaxFaults       \* bound: stops, crashes and failed or unanswered commands

Ids == 1..MaxMsgs

\* redisBroker.Connect refuses claim settings and counts that are not positive.
ASSUME ConnectValidates ==
    /\ BatchCount \in Nat \ {0}
    /\ MinIdle \in Nat \ {0}
    /\ ClaimInterval \in Nat \ {0}

ASSUME Parameters ==
    /\ MaxMsgs \in Nat
    /\ ScanLimit \in Nat \ {0}
    /\ BlockTimeout \in Int
    /\ ErrDelay \in Nat
    /\ RetryDelay \in Nat
    /\ MaxHandling \in Nat
    /\ AutoAck \subseteq Workers
    /\ Poison \subseteq Ids
    /\ MaxFaults \in Nat

VARIABLES
    published,      \* entries XADDed so far: 1..published
    groupExists,    \* the consumer group has been created
    lastDelivered,  \* the group's last-delivered entry
    pending,        \* the group's pending entries: delivered, not XACKed
    idle,           \* their idle time, saturating at MinIdle
    pc,             \* where worker w's consumeLoop is
    cursor,         \* its XAUTOCLAIM cursor, 0 for "0-0"
    claimIn,        \* nextClaim - now
    timer,          \* time since w began what it is doing now
    resent,         \* how often the client sent w's last claim or read again
    batch,          \* messages of the current reply not yet dealt with
    resume,         \* where the loop goes after the batch
    ctxDone,        \* the subscriber's context has been cancelled
    held,           \* manual ack: events the application keeps, unprocessed
    finished,       \* manual ack: events it has processed and not yet acked
    succeeded,      \* history: messages some handler succeeded with
    faults          \* faults injected so far

redis == <<published, groupExists, lastDelivered, pending, idle>>
loop  == <<pc, cursor, claimIn, timer, resent, batch, resume, ctxDone>>
app   == <<held, finished, succeeded>>
vars  == <<published, groupExists, lastDelivered, pending, idle,
           pc, cursor, claimIn, timer, resent, batch, resume, ctxDone,
           held, finished, succeeded, faults>>

Handling == {"handle", "running", "ack"}
Places   == {"down", "loop", "claim", "read", "blocked", "errwait"} \cup Handling

TypeRedis ==
    /\ published \in 0..MaxMsgs
    /\ groupExists \in BOOLEAN
    /\ lastDelivered \in 0..published
    /\ pending \subseteq 1..lastDelivered
    /\ idle \in [Ids -> 0..MinIdle]

TypeLoop ==
    /\ pc \in [Workers -> Places]
    /\ cursor \in [Workers -> 0..MaxMsgs]
    /\ claimIn \in [Workers -> Int]
    /\ timer \in [Workers -> Nat]
    /\ resent \in [Workers -> Nat]
    /\ batch \in [Workers -> SUBSET Ids]
    /\ resume \in [Workers -> {"read", "loop"}]
    /\ ctxDone \in [Workers -> BOOLEAN]

TypeApp ==
    /\ held \in [Workers -> SUBSET Ids]
    /\ finished \in [Workers -> SUBSET Ids]
    /\ succeeded \subseteq Ids
    /\ faults \in 0..MaxFaults

TypeOK == TypeRedis /\ TypeLoop /\ TypeApp

Init ==
    /\ published = 0
    /\ groupExists = FALSE
    /\ lastDelivered = 0
    /\ pending = {}
    /\ idle = [id \in Ids |-> 0]
    /\ pc = [w \in Workers |-> "down"]
    /\ cursor = [w \in Workers |-> 0]
    /\ claimIn = [w \in Workers |-> 0]
    /\ timer = [w \in Workers |-> 0]
    /\ resent = [w \in Workers |-> 0]
    /\ batch = [w \in Workers |-> {}]
    /\ resume = [w \in Workers |-> "loop"]
    /\ ctxDone = [w \in Workers |-> FALSE]
    /\ held = [w \in Workers |-> {}]
    /\ finished = [w \in Workers |-> {}]
    /\ succeeded = {}
    /\ faults = 0

Goto(w, place) == pc' = [pc EXCEPT ![w] = place]

Fault == faults < MaxFaults /\ faults' = faults + 1

\* A command fails because the context is cancelled, or as an injected fault.
Error(w) == IF ctxDone[w] THEN faults' = faults ELSE Fault

\* w is done with a command: of the next one nothing has been sent again.
NewCommand(w) == resent' = [resent EXCEPT ![w] = 0]

\* The answer is lost; the client waits and sends the same command once more.
Resend(w) ==
    /\ timer' = [timer EXCEPT ![w] = 0]
    /\ resent' = [resent EXCEPT ![w] = @ + 1]

-----------------------------------------------------------------------------
(* Redis, as the broker's commands use it. *)

\* XADD by any publisher.
Publish ==
    /\ published < MaxMsgs
    /\ published' = published + 1
    /\ UNCHANGED <<groupExists, lastDelivered, pending, idle>>
    /\ UNCHANGED <<loop, app, faults>>

\* XGROUP CREATE ... "0": a new group starts before the first entry; an
\* existing one (BUSYGROUP) is left alone.
GroupFromEnd ==
    lastDelivered' = IF groupExists THEN lastDelivered ELSE published

GroupCreate == lastDelivered' = lastDelivered

\* The entries XREADGROUP ">" would return: the next ones, at most COUNT.
Fresh == {id \in Ids : /\ id > lastDelivered
                       /\ id <= published
                       /\ id <= lastDelivered + BatchCount}

\* Redis records a delivery in the pending-entries list before it replies.
RecordRead ==
    /\ Fresh # {}
    /\ lastDelivered' \in Fresh
    /\ \A id \in Fresh : id <= lastDelivered'
    /\ pending' = pending \cup Fresh
    /\ idle' = [id \in Ids |-> IF id \in Fresh THEN 0 ELSE idle[id]]
    /\ UNCHANGED <<published, groupExists>>

\* The idle threshold that consumeLoop puts into its XAUTOCLAIM.
AskedInterval == ClaimInterval
AskedMinIdle == MinIdle

Claimable(id) == id \in pending /\ idle[id] >= AskedMinIdle

\* The pending entries an XAUTOCLAIM that starts at w's cursor and stops
\* before entry next (0: at the end) examines, and those it claims.
Scanned(w, next) == {id \in pending : id >= cursor[w] /\ (next = 0 \/ id < next)}
Claimed(w, next) == {id \in Scanned(w, next) : Claimable(id)}

\* The scan stops once COUNT entries are claimed or ScanLimit are examined.
ScanEndsAt(w, next) ==
    LET s == Scanned(w, next)
        c == Claimed(w, next)
    IN  /\ Cardinality(c) <= BatchCount
        /\ Cardinality(s) <= ScanLimit
        /\ Cardinality(c) = BatchCount =>
             \A id \in s : \E last \in c : id <= last
        /\ next = 0 \/ /\ next \in pending
                       /\ next > cursor[w]
                       /\ Cardinality(c) = BatchCount \/ Cardinality(s) = ScanLimit

RecordClaim(w, next) ==
    /\ idle' = [id \in Ids |-> IF id \in Claimed(w, next) THEN 0 ELSE idle[id]]
    /\ UNCHANGED <<published, groupExists, lastDelivered, pending>>

RecordAck(id) ==
    /\ pending' = pending \ {id}
    /\ idle' = [idle EXCEPT ![id] = 0]
    /\ UNCHANGED <<published, groupExists, lastDelivered>>

-----------------------------------------------------------------------------
(* Subscribe and the claim half of consumeLoop. *)

\* Subscribe: ensure the group, register, start the loop with nextClaim at
\* the zero time, so that the first iteration claims at once.
Subscribe(w) ==
    /\ pc[w] = "down"
    /\ GroupCreate
    /\ groupExists' = TRUE
    /\ Goto(w, "loop")
    /\ cursor' = [cursor EXCEPT ![w] = 0]
    /\ claimIn' = [claimIn EXCEPT ![w] = 0]
    /\ timer' = [timer EXCEPT ![w] = 0]
    /\ ctxDone' = [ctxDone EXCEPT ![w] = FALSE]
    /\ NewCommand(w)
    /\ UNCHANGED <<published, pending, idle, batch, resume, app, faults>>

\* XGROUP CREATE was executed but its answer lost: Subscribe returns an error.
SubscribeFails(w) ==
    /\ pc[w] = "down"
    /\ GroupCreate
    /\ groupExists' = TRUE
    /\ Fault
    /\ UNCHANGED <<published, pending, idle, loop, app>>

\* The top of the loop: leave if cancelled, claim if nextClaim has come.
Check(w) ==
    /\ pc[w] = "loop"
    /\ \/ ctxDone[w] /\ Goto(w, "down")
       \/ ~ctxDone[w] /\ claimIn[w] <= 0 /\ Goto(w, "claim")
       \/ ~ctxDone[w] /\ claimIn[w] > 0 /\ Goto(w, "read")
    /\ NewCommand(w)
    /\ UNCHANGED <<redis, cursor, claimIn, timer, batch, resume, ctxDone, app, faults>>

CursorKept(w, next) == cursor' = cursor
CursorPast(w, next) == cursor' = [cursor EXCEPT ![w] = next + 1]
MoveCursor(w, next) == cursor' = [cursor EXCEPT ![w] = next]

\* XAUTOCLAIM answers: remember the cursor and handle what was claimed.
Claim(w) ==
    /\ pc[w] = "claim"
    /\ \E next \in 0..MaxMsgs :
         /\ ScanEndsAt(w, next)
         /\ RecordClaim(w, next)
         /\ batch' = [batch EXCEPT ![w] = Claimed(w, next)]
         /\ MoveCursor(w, next)
    /\ timer' = [timer EXCEPT ![w] = 0]
    /\ resume' = [resume EXCEPT ![w] = "read"]
    /\ Goto(w, "handle")
    /\ NewCommand(w)
    /\ UNCHANGED <<claimIn, ctxDone, app, faults>>

\* Redis executes the claim but the answer is lost and the client tries again.
ClaimReplyLost(w) ==
    /\ pc[w] = "claim"
    /\ \E next \in 0..MaxMsgs : ScanEndsAt(w, next) /\ RecordClaim(w, next)
    /\ Fault
    /\ Resend(w)
    /\ UNCHANGED <<pc, cursor, claimIn, batch, resume, ctxDone, app>>

\* XAUTOCLAIM returns an error: leave if cancelled, otherwise read new messages
\* and claim again after a full interval, from the same cursor.
ClaimFails(w) ==
    /\ pc[w] = "claim"
    /\ Error(w)
    /\ Goto(w, IF ctxDone[w] THEN "down" ELSE "read")
    /\ claimIn' = [claimIn EXCEPT ![w] = ClaimInterval]
    /\ NewCommand(w)
    /\ UNCHANGED <<redis, cursor, timer, batch, resume, ctxDone, app>>

-----------------------------------------------------------------------------
(* The read half of consumeLoop. *)

BlockUncapped == IF BlockTimeout <= 0 THEN ClaimInterval ELSE BlockTimeout

\* The BLOCK argument: never longer than the claim interval.
Block == IF BlockTimeout <= 0 \/ BlockTimeout > ClaimInterval
           THEN ClaimInterval ELSE BlockTimeout

\* XREADGROUP returns new entries, at once or after blocking.
Read(w) ==
    /\ pc[w] \in {"read", "blocked"}
    /\ RecordRead
    /\ batch' = [batch EXCEPT ![w] = Fresh]
    /\ timer' = [timer EXCEPT ![w] = 0]
    /\ resume' = [resume EXCEPT ![w] = "loop"]
    /\ Goto(w, "handle")
    /\ UNCHANGED <<cursor, claimIn, resent, ctxDone, app, faults>>

\* The answer is lost, with the entries Redis delivered or before there were any.
\* The client sends the read again, with the full BLOCK: it starts anew.
ReadReplyLost(w) ==
    /\ pc[w] \in {"read", "blocked"}
    /\ RecordRead \/ UNCHANGED redis
    /\ Fault
    /\ Goto(w, "read")
    /\ Resend(w)
    /\ UNCHANGED <<cursor, claimIn, batch, resume, ctxDone, app>>

StartBlocking(w) ==
    /\ pc[w] = "read"
    /\ Fresh = {}
    /\ Goto(w, "blocked")
    /\ timer' = [timer EXCEPT ![w] = 0]
    /\ UNCHANGED <<redis, cursor, claimIn, resent, batch, resume, ctxDone, app, faults>>

\* redis.Nil: no entry arrived in time (BLOCK 0 would wait for ever).
ReadTimeout(w) ==
    /\ pc[w] = "blocked"
    /\ Fresh = {}
    /\ Block > 0
    /\ timer[w] >= Block
    /\ Goto(w, IF ctxDone[w] THEN "down" ELSE "loop")
    /\ UNCHANGED <<redis, cursor, claimIn, timer, resent, batch, resume, ctxDone, app, faults>>

\* XREADGROUP returns another error: leave if cancelled, otherwise pause.
ReadFails(w) ==
    /\ pc[w] \in {"read", "blocked"}
    /\ Error(w)
    /\ Goto(w, IF ctxDone[w] THEN "down" ELSE "errwait")
    /\ timer' = [timer EXCEPT ![w] = 0]
    /\ UNCHANGED <<redis, cursor, claimIn, resent, batch, resume, ctxDone, app>>

\* The pause ends with the timer or the context, whichever select picks.
PauseEnds(w) ==
    /\ pc[w] = "errwait"
    /\ \/ ctxDone[w] /\ Goto(w, "down")
       \/ timer[w] >= ErrDelay /\ Goto(w, "loop")
    /\ UNCHANGED <<redis, cursor, claimIn, timer, resent, batch, resume, ctxDone, app, faults>>

-----------------------------------------------------------------------------
(* handleMessages: the messages of a batch in order. *)

IsFirst(w, id) == id \in batch[w] /\ \A other \in batch[w] : id <= other

\* The current message is dealt with; on to the rest of the batch.
Advance(w, id) ==
    /\ batch' = [batch EXCEPT ![w] = @ \ {id}]
    /\ Goto(w, "handle")

\* Start the handler, unless the context is cancelled.  A manual-ack handler
\* receives an event it may process and acknowledge at any later time.
NextMessage(w) ==
    /\ pc[w] = "handle"
    /\ ~ctxDone[w]
    /\ \E id \in batch[w] :
         /\ IsFirst(w, id)
         /\ held' = IF w \in AutoAck THEN held ELSE [held EXCEPT ![w] = @ \cup {id}]
    /\ Goto(w, "running")
    /\ UNCHANGED <<redis, cursor, claimIn, timer, resent, batch, resume, ctxDone,
                   finished, succeeded, faults>>

\* handleMessages returns: everything handled, or cancelled.  After a claim the
\* loop sets nextClaim and reads; after a read it starts over.
EndBatch(w) ==
    /\ pc[w] = "handle"
    /\ batch[w] = {} \/ ctxDone[w]
    /\ batch' = [batch EXCEPT ![w] = {}]
    /\ claimIn' = IF resume[w] = "read"
                    THEN [claimIn EXCEPT ![w] = ClaimInterval] ELSE claimIn
    /\ Goto(w, resume[w])
    /\ UNCHANGED <<redis, cursor, timer, resent, resume, ctxDone, app, faults>>

\* The handler returns nil: acknowledge if AutoAck, otherwise go on.
HandlerOk(w, id) ==
    /\ pc[w] = "running"
    /\ IsFirst(w, id)
    /\ IF w \in AutoAck
         THEN /\ id \notin Poison
              /\ succeeded' = succeeded \cup {id}
              /\ Goto(w, "ack")
              /\ batch' = batch
         ELSE /\ succeeded' = succeeded
              /\ Advance(w, id)
    /\ UNCHANGED <<redis, cursor, claimIn, timer, resent, resume, ctxDone, held, finished, faults>>

\* A slip: the error is logged and the message acknowledged all the same.
FailedIsAcked(w, id) == Goto(w, "ack") /\ batch' = batch
\* Another: the handler is called again at once, until it succeeds.
FailedIsRetried(w, id) == Goto(w, "running") /\ batch' = batch

\* The handler failed: no ack, the message stays pending.
Failed(w, id) == Advance(w, id)

HandlerFails(w, id) ==
    /\ pc[w] = "running"
    /\ IsFirst(w, id)
    /\ Failed(w, id)
    /\ UNCHANGED <<redis, cursor, claimIn, timer, resent, resume, ctxDone, app, faults>>

\* XACK answers.
Ack(w) ==
    /\ pc[w] = "ack"
    /\ \E id \in batch[w] : IsFirst(w, id) /\ RecordAck(id) /\ Advance(w, id)
    /\ UNCHANGED <<cursor, claimIn, timer, resent, resume, ctxDone, app, faults>>

AckReplyLost(w) ==
    /\ pc[w] = "ack"
    /\ \E id \in batch[w] : IsFirst(w, id) /\ RecordAck(id)
    /\ Fault
    /\ UNCHANGED <<loop, app>>

\* XACK returns an error: it is logged and the message stays pending.
AckFails(w) ==
    /\ pc[w] = "ack"
    /\ \E id \in batch[w] : IsFirst(w, id) /\ Advance(w, id)
    /\ Fault
    /\ UNCHANGED <<redis, cursor, claimIn, timer, resent, resume, ctxDone, app>>

-----------------------------------------------------------------------------
(* Manual acknowledgement: the application's own goroutines. *)

Process(w, id) ==
    /\ id \in held[w] \ Poison
    /\ held' = [held EXCEPT ![w] = @ \ {id}]
    /\ finished' = [finished EXCEPT ![w] = @ \cup {id}]
    /\ succeeded' = succeeded \cup {id}
    /\ UNCHANGED <<redis, loop, faults>>

\* The application gives the event up without an Ack.
Abandon(w, id) ==
    /\ id \in held[w] \cup finished[w]
    /\ held' = [held EXCEPT ![w] = @ \ {id}]
    /\ finished' = [finished EXCEPT ![w] = @ \ {id}]
    /\ UNCHANGED <<redis, loop, succeeded, faults>>

\* redisEvent.Ack, however late, also after the subscriber has stopped.
AckEarly(w, id) == id \in held[w] \cup finished[w]
AckWhen(w, id) == id \in finished[w]

ManualAck(w, id) ==
    /\ AckWhen(w, id)
    /\ RecordAck(id)
    /\ finished' = [finished EXCEPT ![w] = @ \ {id}]
    /\ UNCHANGED <<loop, held, succeeded, faults>>

-----------------------------------------------------------------------------
(* Cancellation, crashes and time. *)

\* Unsubscribe, Disconnect or a cancelled parent context: the loop notices later.
Stop(w) ==
    /\ pc[w] # "down"
    /\ ~ctxDone[w]
    /\ Fault
    /\ ctxDone' = [ctxDone EXCEPT ![w] = TRUE]
    /\ UNCHANGED <<redis, pc, cursor, claimIn, timer, resent, batch, resume, app>>

\* The process dies with everything it holds; Redis keeps its pending list.
Crash(w) ==
    /\ pc[w] # "down"
    /\ Fault
    /\ Goto(w, "down")
    /\ batch' = [batch EXCEPT ![w] = {}]
    /\ held' = [held EXCEPT ![w] = {}]
    /\ finished' = [finished EXCEPT ![w] = {}]
    /\ NewCommand(w)
    /\ UNCHANGED <<redis, cursor, claimIn, timer, resume, ctxDone, succeeded>>

\* Where a worker may still be one time unit later.
MayWait(w) ==
    \/ pc[w] = "down"
    \/ pc[w] = "blocked" /\ Fresh = {} /\ timer[w] < Block
    \/ pc[w] \in {"claim", "read"} /\ resent[w] > 0 /\ ~ctxDone[w] /\ timer[w] < RetryDelay
    \/ pc[w] = "errwait" /\ ~ctxDone[w] /\ timer[w] < ErrDelay
    \/ pc[w] \in Handling /\ timer[w] < MaxHandling

Tick ==
    /\ \A w \in Workers : MayWait(w)
    /\ idle' = [id \in Ids |->
                  IF id \in pending /\ idle[id] < MinIdle THEN idle[id] + 1 ELSE idle[id]]
    /\ claimIn' = [w \in Workers |-> IF pc[w] = "down" THEN claimIn[w] ELSE claimIn[w] - 1]
    /\ timer' = [w \in Workers |-> IF pc[w] = "down" THEN timer[w] ELSE timer[w] + 1]
    /\ UNCHANGED <<published, groupExists, lastDelivered, pending,
                   pc, cursor, resent, batch, resume, ctxDone, app, faults>>

-----------------------------------------------------------------------------
HandlerReturns(w) == \E id \in Ids : HandlerOk(w, id) \/ HandlerFails(w, id)

\* What consumeLoop does when nothing goes wrong.
LoopStep(w) ==
    \/ Check(w) \/ Claim(w)
    \/ Read(w) \/ StartBlocking(w) \/ ReadTimeout(w) \/ PauseEnds(w)
    \/ NextMessage(w) \/ EndBatch(w) \/ HandlerReturns(w) \/ Ack(w)

FaultStep(w) ==
    \/ SubscribeFails(w)
    \/ ClaimReplyLost(w) \/ ClaimFails(w)
    \/ ReadReplyLost(w) \/ ReadFails(w)
    \/ AckReplyLost(w) \/ AckFails(w)
    \/ Stop(w) \/ Crash(w)

AppStep(w) == \E id \in Ids : Process(w, id) \/ Abandon(w, id) \/ ManualAck(w, id)

Next ==
    \/ Publish
    \/ Tick
    \/ \E w \in Workers : Subscribe(w) \/ LoopStep(w) \/ FaultStep(w) \/ AppStep(w)

Spec == Init /\ [][Next]_vars

\* The Go scheduler and Redis keep every loop going, a stopped worker is
\* started again, and a handler that keeps receiving a good message does not
\* fail with it for ever.  Faults are never required to happen.
Fairness ==
    /\ WF_vars(Tick)
    /\ \A w \in Workers :
         /\ WF_vars(Subscribe(w))
         /\ WF_vars(LoopStep(w))
         /\ \A id \in Ids : SF_vars(HandlerOk(w, id))

FairSpec == Spec /\ Fairness

-----------------------------------------------------------------------------
(* Properties *)

\* README "Reliability": a message the group has taken from the stream is
\* still pending in Redis or has been handled successfully, whatever crashes,
\* cancellations, stolen claims or lost answers came in between.
NoLoss == \A id \in 1..lastDelivered : id \in pending \/ id \in succeeded

\* With MaxHandling < MinIdle no two loops have the same message in hand: a
\* claim never takes a message its holder is still going to handle.
ExclusiveHandling ==
    \A v, w \in Workers : v # w => batch[v] \cap batch[w] = {}

\* With MaxHandling < MinIdle and AutoAck everywhere, a loop never holds for handling a
\* message that has already been acknowledged (by itself or by another).
NeverHandlesAcked ==
    \A w \in Workers : pc[w] \in {"handle", "running"} => batch[w] \subseteq pending

Slack == IF MaxHandling > ErrDelay THEN MaxHandling ELSE ErrDelay

\* What the reads sent again can add: the client's pause and another full BLOCK.
ResentReads(w) == resent[w] * (ClaimInterval + RetryDelay)

\* "Blocking reads are capped at the claim interval so recovery continues even
\* without new traffic": the loop is back at the claim check less than an interval
\* plus one batch (or one error pause) after the claim was due; each time the
\* client had to send the read again adds an interval and the client's pause.
RecoveryOnTime ==
    \A w \in Workers :
        pc[w] = "loop" => claimIn[w] > -(ClaimInterval + ResentReads(w) + Slack)

\* The broker keeps the at-least-once contract.
Contract == INSTANCE AtLeastOnceDelivery WITH
    Messages <- Ids,
    queued   <- (lastDelivered + 1)..published,
    inflight <- pending,
    settled  <- (1..lastDelivered) \ pending,
    handled  <- succeeded

ImplementsContract == Contract!Spec

\* A message that some handler can handle is handled and acknowledged in the
\* end, also when poisoned messages sit before it in the pending list.
EventuallyAcked ==
    \A id \in Ids \ Poison :
        id <= published ~> (id <= lastDelivered /\ id \notin pending)

\* Cancelling a subscription ends its loop (Unsubscribe and Disconnect wait
\* for that), however the cancellation falls between commands and handlers.
StopEnds == \A w \in Workers : ctxDone[w] ~> pc[w] = "down"
=============================================================================
