----------------------------- MODULE KafkaGroup ------------------------------
(***************************************************************************)
(* Consuming through the Kafka broker (src/broker/kafka/kafka.go): the     *)
(* members of one consumer group, the goroutine that each Subscribe        *)
(* starts, ConsumeClaim and the acknowledgements, on a topic with one      *)
(* partition, the unit in which Kafka orders and commits.                  *)
(*                                                                         *)
(* Kafka and sarama are modelled from the calls the code makes: one member *)
(* at a time owns the partition; its session is given offsets in order     *)
(* from the committed one, or from the newest if there is none; marks are  *)
(* committed now and then, and a member that lost the partition commits    *)
(* nothing; Close waits for the session and then closes the error channel. *)
(***************************************************************************)
EXTENDS Integers

CONSTANTS
    Members,     \* subscriptions that may be made, once each
    NoOwner,
    AutoAck,     \* those that acknowledge when the handler returns nil
    MaxMsgs,     \* bound: messages published
    MaxEnds      \* bound: sessions that end, or lose the partition, by a rebalance

ASSUME NoOwnerIsNone == NoOwner \notin Members
ASSUME Bounds == AutoAck \subseteq Members /\ MaxMsgs \in Nat /\ MaxEnds \in Nat

VARIABLES
    cg,          \* the sarama.ConsumerGroup of a subscription
    loop,        \* the goroutine that Subscribe starts
    handling,    \* whether it is in a handler call
    next,        \* next offset its session is given
    marked,      \* the offset its session has marked up to
    due,         \* offsets of its session that the application still has to ack
    log,         \* messages in the partition, numbered from 1
    owner,       \* the member that Kafka has assigned the partition to
    committed,   \* the group's committed offset, 0 for none
    ends,
    acked,       \* history: offsets whose handler succeeded, or that were acked
    seen,        \* history: offsets whose handler has returned
    skipped      \* history: offsets passed over by a start at the newest one

sessions == <<next, marked, due>>
kafka == <<log, owner, committed, ends>>
history == <<acked, seen, skipped>>
groupVars == <<cg, loop, handling, sessions, kafka, history>>

Offsets == 1..MaxMsgs

GroupTypeOK ==
    /\ cg \in [Members -> {"none", "open", "closing", "closed"}]
    /\ loop \in [Members -> {"none", "poll", "joining", "session", "ended"}]
    /\ handling \in [Members -> BOOLEAN]
    /\ next \in [Members -> 0..MaxMsgs + 1]
    /\ marked \in [Members -> 0..MaxMsgs]
    /\ due \in [Members -> SUBSET Offsets]
    /\ owner \in Members \cup {NoOwner}
    /\ log \in 0..MaxMsgs /\ committed \in 0..MaxMsgs /\ ends \in 0..MaxEnds
    /\ acked \in SUBSET Offsets /\ seen \in SUBSET Offsets /\ skipped \in SUBSET Offsets

GroupInit ==
    /\ cg = [s \in Members |-> "none"]
    /\ loop = [s \in Members |-> "none"]
    /\ handling = [s \in Members |-> FALSE]
    /\ next = [s \in Members |-> 0]
    /\ marked = [s \in Members |-> 0]
    /\ due = [s \in Members |-> {}]
    /\ log = 0 /\ owner = NoOwner /\ committed = 0 /\ ends = 0
    /\ acked = {} /\ seen = {} /\ skipped = {}

-----------------------------------------------------------------------------
(* Publish, Subscribe and Unsubscribe *)

\* The producer has stored a message in the partition.
Publish ==
    /\ log < MaxMsgs
    /\ log' = log + 1
    /\ UNCHANGED <<cg, loop, handling, sessions, owner, committed, ends, history>>

\* A consumer group with a client of its own, and a goroutine that consumes.
Subscribe(s) ==
    /\ cg[s] = "none"
    /\ cg' = [cg EXCEPT ![s] = "open"]
    /\ loop' = [loop EXCEPT ![s] = "poll"]
    /\ UNCHANGED <<handling, sessions, kafka, history>>

\* cg.Close begins, from Unsubscribe or Disconnect ...
Unsubscribe(s) ==
    /\ cg[s] = "open"
    /\ cg' = [cg EXCEPT ![s] = "closing"]
    /\ UNCHANGED <<loop, handling, sessions, kafka, history>>

\* ... and ends when Consume has returned, with the error channel closed.
Closes(s) ==
    /\ cg[s] = "closing"
    /\ loop[s] \notin {"joining", "session"}
    /\ cg' = [cg EXCEPT ![s] = "closed"]
    /\ UNCHANGED <<loop, handling, sessions, kafka, history>>

-----------------------------------------------------------------------------
(* The goroutine of a subscription *)

GoesTo(s, where) == loop' = [loop EXCEPT ![s] = where]

\* Without an error to receive, which would be logged, the goroutine consumes.
LoopConsumes(s) ==
    /\ loop[s] = "poll"
    /\ cg[s] = "open"
    /\ GoesTo(s, "joining")
    /\ UNCHANGED <<cg, handling, sessions, kafka, history>>

\* Consume on a group being closed returns ErrClosedConsumerGroup.  Once the
\* error channel is closed, the select never comes to Consume: it receives nil
\* from that channel for ever, and a loop in "poll" stays there.
LoopEnds(s) ==
    /\ loop[s] = "poll"
    /\ cg[s] = "closing"
    /\ GoesTo(s, "ended")
    /\ UNCHANGED <<cg, handling, sessions, kafka, history>>

\* A slip: any return of Consume ends the goroutine.
ReturnsOnNil(s) == GoesTo(s, "ended")

\* Consume has returned nil, or an error that is logged: round again.
GoesOn(s) == GoesTo(s, "poll")

ConsumeFails(s) ==
    /\ loop[s] = "joining"
    /\ GoesOn(s)
    /\ UNCHANGED <<cg, handling, sessions, kafka, history>>

\* Offsets.Initial is OffsetNewest: without a committed offset, a session starts
\* after what is in the partition by then.
StartsAfter == IF committed = 0 THEN log ELSE committed

SessionStarts(s) ==
    /\ loop[s] = "joining"
    /\ cg[s] = "open"
    /\ owner = NoOwner
    /\ owner' = s
    /\ GoesTo(s, "session")
    /\ next' = [next EXCEPT ![s] = StartsAfter + 1]
    /\ marked' = [marked EXCEPT ![s] = committed]
    /\ skipped' = skipped \cup ((committed + 1)..StartsAfter)
    /\ UNCHANGED <<cg, handling, due, log, committed, ends, acked, seen>>

\* Kafka gives the partition to another member.  The session learns of it later;
\* the handler that may be running in it goes on.
Evicted(s) ==
    /\ owner = s
    /\ ends < MaxEnds
    /\ owner' = NoOwner
    /\ ends' = ends + 1
    /\ UNCHANGED <<cg, loop, handling, sessions, log, committed, history>>

\* ConsumeClaim has returned, and with it Consume.
ClaimEnds(s) ==
    /\ loop[s] = "session"
    /\ ~handling[s]
    /\ GoesOn(s)
    /\ next' = [next EXCEPT ![s] = 0]
    /\ marked' = [marked EXCEPT ![s] = 0]
    /\ due' = [due EXCEPT ![s] = {}]
    /\ UNCHANGED <<cg, handling, log, history>>

\* The owner's marks are committed when its session ends, if that succeeds.
Flushes(s) ==
    /\ owner = s
    /\ owner' = NoOwner
    /\ committed' \in {committed, marked[s]}

Rebalanced(s) ==
    /\ ClaimEnds(s)
    /\ Flushes(s)
    /\ ends < MaxEnds
    /\ ends' = ends + 1

\* Close ends the session of the owner; one that was evicted ends by itself.
SessionEnds(s) ==
    /\ ClaimEnds(s)
    /\ \/ owner # s /\ UNCHANGED <<owner, committed>>
       \/ cg[s] = "closing" /\ Flushes(s)
    /\ UNCHANGED ends

Commits(s) ==
    /\ owner = s
    /\ marked[s] > committed
    /\ committed' = marked[s]
    /\ UNCHANGED <<cg, loop, handling, sessions, log, owner, ends, history>>

-----------------------------------------------------------------------------
(* ConsumeClaim and Ack *)

\* A slip: the offset to go on from, not the one that was handled.
CurrentIsNext(s) == next[s]
Current(s) == next[s] - 1

Mark(s, o) == marked' = [marked EXCEPT ![s] = IF o > @ THEN o ELSE @]

Delivers(s) ==
    /\ loop[s] = "session"
    /\ ~handling[s]
    /\ next[s] <= log
    /\ handling' = [handling EXCEPT ![s] = TRUE]
    /\ next' = [next EXCEPT ![s] = @ + 1]
    /\ due' = [due EXCEPT ![s] = IF s \in AutoAck THEN @ ELSE @ \cup {next[s]}]
    /\ UNCHANGED <<cg, loop, marked, kafka, history>>

HandlerReturns(s) ==
    /\ handling[s]
    /\ handling' = [handling EXCEPT ![s] = FALSE]
    /\ seen' = seen \cup {Current(s)}

HandlerOk(s) ==
    /\ HandlerReturns(s)
    /\ \/ s \in AutoAck /\ Mark(s, Current(s)) /\ acked' = acked \cup {Current(s)}
       \/ s \notin AutoAck /\ UNCHANGED <<marked, acked>>
    /\ UNCHANGED <<cg, loop, next, due, kafka, skipped>>

\* A slip: the mark does not depend on the handler's error.
MarksAnyway(s) == Mark(s, IF s \in AutoAck THEN Current(s) ELSE 0)
LeavesUnmarked(s) == UNCHANGED marked

\* The error is logged, and the next message is delivered.
HandlerFails(s) ==
    /\ HandlerReturns(s)
    /\ LeavesUnmarked(s)
    /\ UNCHANGED <<cg, loop, next, due, kafka, acked, skipped>>

\* The application acknowledges, in the handler or later; once the session is
\* over, MarkMessage has no effect.
Ack(s, o) ==
    /\ o \in due[s]
    /\ due' = [due EXCEPT ![s] = @ \ {o}]
    /\ Mark(s, o)
    /\ acked' = acked \cup {o}
    /\ UNCHANGED <<cg, loop, handling, next, kafka, seen, skipped>>

-----------------------------------------------------------------------------
LoopStep(s) == LoopConsumes(s) \/ ConsumeFails(s) \/ Delivers(s) \/ SessionEnds(s)

GroupNext ==
    \/ Publish
    \/ \E s \in Members :
          \/ Subscribe(s) \/ Unsubscribe(s) \/ Closes(s)
          \/ LoopStep(s) \/ LoopEnds(s) \/ SessionStarts(s)
          \/ Rebalanced(s) \/ Evicted(s) \/ Commits(s)
          \/ HandlerOk(s) \/ HandlerFails(s)
          \/ \E o \in Offsets : Ack(s, o)

GroupSpec == GroupInit /\ [][GroupNext]_groupVars

\* Loops and handlers keep running; joining a group whose partition nobody owns
\* succeeds some time.
FairSpec ==
    /\ GroupSpec
    /\ \A s \in Members :
          /\ WF_groupVars(LoopStep(s))
          /\ WF_groupVars(HandlerOk(s) \/ HandlerFails(s))
          /\ SF_groupVars(SessionStarts(s))

-----------------------------------------------------------------------------
(* Properties *)

\* Rebalances, evictions, lost commits and late acks never commit what no handler
\* has been through: the committed offset is one that succeeded or was acked, and
\* all before it were handled, or skipped by a start at the newest offset.
CommitFollowsHandling ==
    /\ committed > 0 => committed \in acked
    /\ \A o \in 1..committed : o \in acked \cup seen \cup skipped

\* A message of the partition is handled, whatever Consume returned before, while
\* some member stays subscribed; unless it was there before the first session of a
\* group that had nothing committed.
GroupConsumes ==
    \A o \in Offsets :
        log >= o ~> \/ o \in seen \cup skipped
                    \/ \A s \in Members : cg[s] # "open"
=============================================================================
