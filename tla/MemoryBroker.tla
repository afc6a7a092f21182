---------------------------- MODULE MemoryBroker ----------------------------
(***************************************************************************)
(* The in-process synchronous broker (src/broker/memory.go) on one topic:  *)
(* Publish calls the handlers itself, one after the other, on the slice of *)
(* subscribers it read under the lock; Unsubscribe leaves a token for the  *)
(* goroutine that Subscribe started, which rebuilds the slice.  Publishes, *)
(* Subscribes, Unsubscribes, Connect and Disconnect interleave.            *)
(***************************************************************************)
EXTENDS Naturals, FiniteSets, SequencesExt

CONSTANTS
    Subs,        \* memorySubscriber objects that may be created, once each
    Msgs,        \* messages that may be published, once each
    MaxUnsubs    \* bound: Unsubscribe calls on one subscriber

ASSUME MaxUnsubsType == MaxUnsubs \in Nat

VARIABLES
    connected,   \* memoryBroker.connected
    registered,  \* m.Subscribers[topic]
    remover,     \* the goroutine Subscribe starts for each subscriber
    unsubs,      \* Unsubscribe calls that put their token in exit
    waiting,     \* Unsubscribe calls made, the blocked ones included
    pc,          \* the Publish of each message
    left,        \* subscribers of its slice whose handlers are still to be called
    snapshot,    \* history: that slice
    handled      \* history: subscribers whose handler returned nil, per message

publishes == <<pc, left, snapshot, handled>>
vars == <<connected, registered, remover, unsubs, waiting, publishes>>

TypeOK ==
    /\ connected \in BOOLEAN
    /\ registered \in Seq(Subs)
    /\ remover \in [Subs -> {"none", "checked", "waiting", "removing", "done"}]
    /\ unsubs \in [Subs -> 0..MaxUnsubs]
    /\ waiting \in [Subs -> 0..MaxUnsubs]
    /\ pc \in [Msgs -> {"new", "calling", "ok", "failed", "refused"}]
    /\ left \in [Msgs -> Seq(Subs)]
    /\ snapshot \in [Msgs -> Seq(Subs)]
    /\ handled \in [Msgs -> SUBSET Subs]
    \* exit is a channel of capacity one, and the goroutine receives once
    /\ \A s \in Subs : unsubs[s] <= waiting[s] /\ unsubs[s] <= 2

Init ==
    /\ connected = TRUE
    /\ registered = <<>>
    /\ remover = [s \in Subs |-> "none"]
    /\ unsubs = [s \in Subs |-> 0]
    /\ waiting = [s \in Subs |-> 0]
    /\ pc = [m \in Msgs |-> "new"]
    /\ left = [m \in Msgs |-> <<>>]
    /\ snapshot = [m \in Msgs |-> <<>>]
    /\ handled = [m \in Msgs |-> {}]

-----------------------------------------------------------------------------
Connect ==
    /\ ~connected
    /\ connected' = TRUE
    /\ UNCHANGED <<registered, remover, unsubs, waiting, publishes>>

\* The subscribers stay where they are.
Disconnect ==
    /\ connected
    /\ connected' = FALSE
    /\ UNCHANGED <<registered, remover, unsubs, waiting, publishes>>

SubscribeChecks(s) ==
    /\ remover[s] = "none"
    /\ connected
    /\ remover' = [remover EXCEPT ![s] = "checked"]
    /\ UNCHANGED <<connected, registered, unsubs, waiting, publishes>>

\* The read lock is released before the write lock is taken.
SubscribeRegisters(s) ==
    /\ remover[s] = "checked"
    /\ remover' = [remover EXCEPT ![s] = "waiting"]
    /\ registered' = Append(registered, s)
    /\ UNCHANGED <<connected, unsubs, waiting, publishes>>

UnsubscribeCall(s) ==
    /\ remover[s] \notin {"none", "checked"}
    /\ waiting[s] < MaxUnsubs
    /\ waiting' = [waiting EXCEPT ![s] = @ + 1]
    /\ UNCHANGED <<connected, registered, remover, unsubs, publishes>>

\* exit holds one token, and the goroutine receives one.
OneToken(s) == 1
TokensFit(s) == IF remover[s] = "waiting" THEN 1 ELSE 2

\* The send on exit: it blocks while an unreceived token fills the channel.
UnsubscribeReturns(s) ==
    /\ unsubs[s] < waiting[s]
    /\ unsubs[s] < TokensFit(s)
    /\ unsubs' = [unsubs EXCEPT ![s] = @ + 1]
    /\ UNCHANGED <<connected, registered, remover, waiting, publishes>>

TokenTaken(s) ==
    /\ remover[s] = "waiting"
    /\ unsubs[s] > 0
    /\ remover' = [remover EXCEPT ![s] = "removing"]
    /\ UNCHANGED <<connected, registered, unsubs, waiting, publishes>>

NilInPlace(subs, s) == [i \in DOMAIN subs |-> IF subs[i] = s THEN "nil" ELSE subs[i]]
UpTo(subs, s) == SelectSeq(subs, LAMBDA sb : \E i \in DOMAIN subs :
                                     subs[i] = s /\ \E j \in 1..i - 1 : subs[j] = sb)

\* The loop over the slice: kept[i] is newSubscribers after i elements of it.
Without(subs, s) ==
    LET kept[i \in 0..Len(subs)] ==
            IF i = 0 THEN <<>>
            ELSE IF subs[i] = s THEN kept[i - 1]
            ELSE Append(kept[i - 1], subs[i])
    IN  kept[Len(subs)]

\* The goroutine copies the other subscribers to a new slice, under the lock.
Rebuild(s) ==
    /\ remover[s] = "removing"
    /\ registered' = Without(registered, s)
    /\ remover' = [remover EXCEPT ![s] = "done"]
    /\ UNCHANGED <<connected, unsubs, waiting, publishes>>

-----------------------------------------------------------------------------
PublishStart(m) ==
    /\ pc[m] = "new"
    /\ \/ /\ ~connected
          /\ pc' = [pc EXCEPT ![m] = "refused"]
          /\ UNCHANGED <<left, snapshot>>
       \/ /\ connected
          /\ pc' = [pc EXCEPT ![m] = "calling"]
          /\ left' = [left EXCEPT ![m] = registered]
          /\ snapshot' = [snapshot EXCEPT ![m] = registered]
    /\ UNCHANGED <<connected, registered, remover, unsubs, waiting, handled>>

\* The next handler runs in the publisher's goroutine and returns nil.
HandlerOk(m) ==
    /\ pc[m] = "calling"
    /\ left[m] # <<>>
    /\ handled' = [handled EXCEPT ![m] = @ \cup {Head(left[m])}]
    /\ left' = [left EXCEPT ![m] = Tail(@)]
    /\ UNCHANGED <<connected, registered, remover, unsubs, waiting, pc, snapshot>>

GoesOnAfter(m) == left' = [left EXCEPT ![m] = Tail(@)] /\ UNCHANGED pc
StopsAt(m) == pc' = [pc EXCEPT ![m] = "failed"] /\ UNCHANGED left

\* It fails: Publish returns the error, the rest of the slice is not called.
HandlerFails(m) ==
    /\ pc[m] = "calling"
    /\ left[m] # <<>>
    /\ StopsAt(m)
    /\ UNCHANGED <<connected, registered, remover, unsubs, waiting, snapshot, handled>>

PublishReturns(m) ==
    /\ pc[m] = "calling"
    /\ left[m] = <<>>
    /\ pc' = [pc EXCEPT ![m] = "ok"]
    /\ UNCHANGED <<connected, registered, remover, unsubs, waiting, left, snapshot, handled>>

-----------------------------------------------------------------------------
Next ==
    \/ Connect \/ Disconnect
    \/ \E s \in Subs : \/ SubscribeChecks(s) \/ SubscribeRegisters(s)
                       \/ UnsubscribeCall(s) \/ UnsubscribeReturns(s)
                       \/ TokenTaken(s) \/ Rebuild(s)
    \/ \E m \in Msgs : \/ PublishStart(m) \/ PublishReturns(m)
                       \/ HandlerOk(m) \/ HandlerFails(m)

Spec == Init /\ [][Next]_vars

\* Goroutines that can run do: a send with room, a receive, a lock, a return.
FairSpec ==
    /\ Spec
    /\ \A s \in Subs : /\ WF_vars(SubscribeRegisters(s)) /\ WF_vars(UnsubscribeReturns(s))
                       /\ WF_vars(TokenTaken(s)) /\ WF_vars(Rebuild(s))

-----------------------------------------------------------------------------
(* Properties *)

\* A nil result from Publish means that every subscriber of the slice it read
\* handled the message, although others came and went while handlers ran.
OkMeansAllHandled ==
    \A m \in Msgs : pc[m] = "ok" => ToSet(snapshot[m]) = handled[m]

\* Rebuilding the slice beside Subscribes and other removals loses no live
\* subscriber, repeats none and brings back none that was removed.
RegistrationExact ==
    /\ ToSet(registered) = {s \in Subs : remover[s] \in {"waiting", "removing"}}
    /\ Len(registered) = Cardinality(ToSet(registered))

\* A subscriber whose Unsubscribe was called ends up out of the slice, and the
\* call returns; so does a second call, which finds the goroutine gone.
UnsubscribeTakesEffect ==
    \A s \in Subs : (waiting[s] > 0) ~>
        (s \notin ToSet(registered) /\ unsubs[s] = waiting[s])
=============================================================================
