------------------------ MODULE RedisLifecycle_proofs ------------------------
(* Theorems about RedisLifecycle, for any number of callers and subscription *)
(* objects.                                                                  *)
EXTENDS RedisLifecycle, FiniteSetTheorems, TLAPS

USE NoneIsNobody DEF NoneIsNobody

CallerStep(t) ==
    \/ Call(t)
    \/ ConnectStart(t) \/ ConnectEnd(t)
    \/ DisconnectStart(t) \/ DisconnectDrained(t) \/ DisconnectEnd(t)
    \/ SubscribeStart(t) \/ SubscribeEnd(t)
    \/ UnsubscribeStart(t) \/ UnsubscribeEnd(t)

\* What a loop or the application's context does: it touches no caller, takes
\* no mutex and starts no loop.
LoopStep(s) ==
    \/ Handle(s) \/ HandlerPublishes(s) \/ PublishReturns(s)
    \/ HandlerReturns(s) \/ LoopExits(s) \/ ParentCancelled(s)

LEMMA NextCases ==
    ASSUME Next
    PROVE  \/ \E t \in Callers : CallerStep(t)
           \/ \E s \in Subs : LoopStep(s)
BY DEF Next, CallerStep, LoopStep, Locks, Continues, LoopGoesOn

LEMMA LoopIsNext ==
    ASSUME NEW s \in Subs, LoopStep(s) PROVE Next
BY DEF Next, LoopStep, LoopGoesOn

-----------------------------------------------------------------------------
(* Type correctness, with what makes the targets usable.                     *)

NeedTarget == {"subscribe", "setup", "unsubscribe", "awaitLoop"}

Targeted == \A t \in Callers : pc[t] \in NeedTarget => target[t] \in Subs

TypeInv == TypeOK /\ Targeted

LoopPlaces == Live \cup {"none", "exited"}
CallPlaces == {"idle"} \cup Calls \cup Waits

LEMMA WokenPlaces ==
    ASSUME NEW p
    PROVE  /\ p \notin {"awaitOther", "awaitThenConnect"} => Woken(p) = p
           /\ p = "awaitOther" => Woken(p) = "idle"
           /\ p = "awaitThenConnect" => Woken(p) = "connect"
BY DEF Woken

LEMMA LoopStepMoves ==
    ASSUME TypeOK, NEW s \in Subs, LoopStep(s)
    PROVE  /\ UNCHANGED <<broker, pc, target, draining>>
           /\ loop' \in [Subs -> LoopPlaces]
           /\ stopped' \subseteq Subs
           /\ Running' \subseteq Running
<1> USE DEF TypeOK, LoopPlaces, Live, Running
<1>1. ASSUME NEW from, from \subseteq Live, NEW to \in LoopPlaces, Move(s, from, to)
      PROVE  /\ UNCHANGED <<broker, pc, target, draining>>
             /\ loop' \in [Subs -> LoopPlaces]
             /\ stopped' \subseteq Subs
             /\ Running' \subseteq Running
    BY <1>1 DEF Move
<1>2. CASE ParentCancelled(s)
    BY <1>2 DEF ParentCancelled
<1>3. CASE Handle(s)
    BY <1>1, <1>3 DEF Handle
<1>4. CASE HandlerPublishes(s)
    BY <1>1, <1>4 DEF HandlerPublishes
<1>5. CASE PublishReturns(s)
    BY <1>1, <1>5 DEF PublishReturns
<1>6. CASE HandlerReturns(s)
    BY <1>1, <1>6 DEF HandlerReturns
<1>7. CASE LoopExits(s)
    BY <1>1, <1>7 DEF LoopExits
<1> QED BY <1>2, <1>3, <1>4, <1>5, <1>6, <1>7 DEF LoopStep

LEMMA PlacesStep ==
    ASSUME TypeInv, NEW t \in Callers, CallerStep(t)
    PROVE  pc' \in [Callers -> CallPlaces]
<1>0. pc \in [Callers -> CallPlaces]
    BY DEF TypeInv, TypeOK, CallPlaces
<1> USE DEF Goto, CallPlaces, Calls, Waits
<1>1. CASE Call(t)
    BY <1>0, <1>1 DEF Call
<1>2. CASE ConnectStart(t)
    BY <1>0, <1>2 DEF ConnectStart
<1>3. CASE ConnectEnd(t)
    BY <1>0, <1>3 DEF ConnectEnd
<1>4. CASE DisconnectStart(t)
    BY <1>0, <1>4 DEF DisconnectStart
<1>5. CASE DisconnectDrained(t)
    BY <1>0, <1>5 DEF DisconnectDrained
<1>6. CASE DisconnectEnd(t)
    <2>1. ASSUME NEW u \in Callers PROVE Woken(pc[u]) \in CallPlaces
        BY <1>0, WokenPlaces
    <2>2. pc' = [u \in Callers |-> IF u = t THEN "idle" ELSE Woken(pc[u])]
        BY <1>6 DEF DisconnectEnd
    <2> QED BY <2>1, <2>2
<1>7. CASE SubscribeStart(t)
    BY <1>0, <1>7 DEF SubscribeStart
<1>8. CASE SubscribeEnd(t)
    BY <1>0, <1>8 DEF SubscribeEnd
<1>9. CASE UnsubscribeStart(t)
    BY <1>0, <1>9 DEF UnsubscribeStart
<1>10. CASE UnsubscribeEnd(t)
    BY <1>0, <1>10 DEF UnsubscribeEnd
<1> QED
    BY <1>1, <1>2, <1>3, <1>4, <1>5, <1>6, <1>7, <1>8, <1>9, <1>10 DEF
       CallerStep

LEMMA CallerTypeStep ==
    ASSUME TypeInv, NEW t \in Callers, CallerStep(t)
    PROVE  TypeOK'
<1>0. /\ connected \in BOOLEAN /\ disconnecting \in BOOLEAN
      /\ lockedBy \in Callers \cup {None} /\ subscribers \subseteq Subs
      /\ loop \in [Subs -> LoopPlaces] /\ stopped \subseteq Subs
      /\ target \in [Callers -> Subs \cup {None}]
      /\ draining \in [Callers -> SUBSET Subs]
      /\ pc[t] \in NeedTarget => target[t] \in Subs
    BY DEF TypeInv, TypeOK, Targeted, LoopPlaces
<1>P. pc' \in [Callers -> CallPlaces]
    BY PlacesStep
<1> USE DEF TypeOK, LoopPlaces, CallPlaces, NeedTarget, broker
<1>1. CASE Call(t)
    BY <1>0, <1>P, <1>1 DEF Call
<1>2. CASE ConnectStart(t)
    BY <1>0, <1>P, <1>2 DEF ConnectStart
<1>3. CASE ConnectEnd(t)
    BY <1>0, <1>P, <1>3 DEF ConnectEnd
<1>4. CASE DisconnectStart(t)
    BY <1>0, <1>P, <1>4 DEF DisconnectStart, Cancelled
<1>5. CASE DisconnectDrained(t)
    BY <1>0, <1>P, <1>5 DEF DisconnectDrained
<1>6. CASE DisconnectEnd(t)
    BY <1>0, <1>P, <1>6 DEF DisconnectEnd
<1>7. CASE SubscribeStart(t)
    BY <1>0, <1>P, <1>7 DEF SubscribeStart, SetupLocked
<1>8. CASE SubscribeEnd(t)
    BY <1>0, <1>P, <1>8 DEF SubscribeEnd, NewSubscription, Live
<1>9. CASE UnsubscribeStart(t)
    BY <1>0, <1>P, <1>9 DEF UnsubscribeStart
<1>10. CASE UnsubscribeEnd(t)
    BY <1>0, <1>P, <1>10 DEF UnsubscribeEnd
<1> QED
    BY <1>1, <1>2, <1>3, <1>4, <1>5, <1>6, <1>7, <1>8, <1>9, <1>10 DEF
       CallerStep

\* What a caller's step leaves of the others: a Disconnect that ends may wake them.
OthersKept(t) ==
    \A u \in Callers \ {t} :
        /\ target'[u] = target[u] /\ draining'[u] = draining[u]
        /\ \/ pc'[u] = pc[u]
           \/ pc[u] \in {"awaitOther", "awaitThenConnect"} /\ pc'[u] \in {"idle", "connect"}

LEMMA CallerLeavesOthers ==
    ASSUME TypeInv, NEW t \in Callers, CallerStep(t)
    PROVE  OthersKept(t)
<1>0. /\ pc \in [Callers -> CallPlaces]
      /\ target \in [Callers -> Subs \cup {None}]
      /\ draining \in [Callers -> SUBSET Subs]
    BY DEF TypeInv, TypeOK, CallPlaces
<1> USE DEF OthersKept, Goto
<1>1. CASE Call(t)
    BY <1>0, <1>1 DEF Call
<1>2. CASE ConnectStart(t)
    BY <1>0, <1>2 DEF ConnectStart
<1>3. CASE ConnectEnd(t)
    BY <1>0, <1>3 DEF ConnectEnd
<1>4. CASE DisconnectStart(t)
    BY <1>0, <1>4 DEF DisconnectStart
<1>5. CASE DisconnectDrained(t)
    BY <1>0, <1>5 DEF DisconnectDrained
<1>6. CASE DisconnectEnd(t)
    <2>1. /\ UNCHANGED <<target, draining>>
          /\ pc' = [u \in Callers |-> IF u = t THEN "idle" ELSE Woken(pc[u])]
        BY <1>6 DEF DisconnectEnd
    <2>2. ASSUME NEW u \in Callers \ {t} PROVE pc'[u] = Woken(pc[u])
        BY <2>1
    <2> QED BY <2>1, <2>2, WokenPlaces
<1>7. CASE SubscribeStart(t)
    BY <1>0, <1>7 DEF SubscribeStart
<1>8. CASE SubscribeEnd(t)
    BY <1>0, <1>8 DEF SubscribeEnd
<1>9. CASE UnsubscribeStart(t)
    BY <1>0, <1>9 DEF UnsubscribeStart
<1>10. CASE UnsubscribeEnd(t)
    BY <1>0, <1>10 DEF UnsubscribeEnd
<1> QED
    BY <1>1, <1>2, <1>3, <1>4, <1>5, <1>6, <1>7, <1>8, <1>9, <1>10 DEF
       CallerStep

LEMMA TargetedStep ==
    ASSUME TypeInv, NEW t \in Callers, CallerStep(t)
    PROVE  Targeted'
<1>0. /\ pc \in [Callers -> CallPlaces]
      /\ target \in [Callers -> Subs \cup {None}]
      /\ pc[t] \in NeedTarget => target[t] \in Subs
    BY DEF TypeInv, TypeOK, CallPlaces, Targeted
<1>U. ASSUME NEW u \in Callers \ {t}, pc'[u] \in NeedTarget PROVE target'[u] \in Subs
    BY <1>U, CallerLeavesOthers DEF OthersKept, NeedTarget, TypeInv, Targeted
<1>T. (pc'[t] \in NeedTarget => target'[t] \in Subs) => Targeted'
    BY <1>U DEF Targeted
<1> USE DEF Goto, NeedTarget
<1>1. CASE Call(t)
    BY <1>0, <1>T, <1>1 DEF Call
<1>2. CASE ConnectStart(t)
    BY <1>0, <1>T, <1>2 DEF ConnectStart
<1>3. CASE ConnectEnd(t)
    BY <1>0, <1>T, <1>3 DEF ConnectEnd
<1>4. CASE DisconnectStart(t)
    BY <1>0, <1>T, <1>4 DEF DisconnectStart
<1>5. CASE DisconnectDrained(t)
    BY <1>0, <1>T, <1>5 DEF DisconnectDrained
<1>6. CASE DisconnectEnd(t)
    BY <1>0, <1>T, <1>6 DEF DisconnectEnd
<1>7. CASE SubscribeStart(t)
    BY <1>0, <1>T, <1>7 DEF SubscribeStart
<1>8. CASE SubscribeEnd(t)
    BY <1>0, <1>T, <1>8 DEF SubscribeEnd
<1>9. CASE UnsubscribeStart(t)
    BY <1>0, <1>T, <1>9 DEF UnsubscribeStart
<1>10. CASE UnsubscribeEnd(t)
    BY <1>0, <1>T, <1>10 DEF UnsubscribeEnd
<1> QED
    BY <1>1, <1>2, <1>3, <1>4, <1>5, <1>6, <1>7, <1>8, <1>9, <1>10 DEF
       CallerStep

LEMMA TypeInvInit == Init => TypeInv
<1> SUFFICES ASSUME Init PROVE TypeInv
    OBVIOUS
<1>1. TypeOK
    BY DEF Init, TypeOK
<1>2. Targeted
    BY DEF Init, Targeted, NeedTarget
<1> QED BY <1>1, <1>2 DEF TypeInv

LEMMA TypeInvStep == TypeInv /\ [Next]_vars => TypeInv'
<1> SUFFICES ASSUME TypeInv, [Next]_vars PROVE TypeInv'
    OBVIOUS
<1>1. ASSUME NEW t \in Callers, CallerStep(t) PROVE TypeInv'
    BY <1>1, CallerTypeStep, TargetedStep DEF TypeInv
<1>2. ASSUME NEW s \in Subs, LoopStep(s) PROVE TypeInv'
    <2>1. TypeOK /\ Targeted
        BY DEF TypeInv
    <2>2. /\ UNCHANGED <<broker, pc, target, draining>>
          /\ loop' \in [Subs -> LoopPlaces] /\ stopped' \subseteq Subs
        BY <1>2, <2>1, LoopStepMoves
    <2>3. TypeOK'
        BY <2>1, <2>2 DEF TypeOK, broker, LoopPlaces
    <2>4. Targeted'
        BY <2>1, <2>2 DEF Targeted
    <2> QED BY <2>3, <2>4 DEF TypeInv
<1>3. CASE UNCHANGED vars
    <2>1. TypeOK' /\ Targeted'
        BY <1>3 DEF TypeInv, TypeOK, Targeted, vars
    <2> QED BY <2>1 DEF TypeInv
<1> QED BY <1>1, <1>2, <1>3, NextCases

\* The broker's fields and what its callers and loops are doing are always well
\* typed.
THEOREM TypeCorrect == Spec => []TypeOK
<1>1. TypeInv => TypeOK
    BY DEF TypeInv
<1> QED BY <1>1, TypeInvInit, TypeInvStep, PTL DEF Spec

-----------------------------------------------------------------------------
(* The mutex and the one Disconnect in progress.                             *)

Holding  == {"ping", "setup"}
Draining == {"drain", "finish"}

\* The mutex is held over a network call by the caller that waits for it, and
\* meanwhile nobody else changes whether a connection is up or taken down.
MutexInv ==
    \A t \in Callers :
        /\ pc[t] \in Holding <=> lockedBy = t
        /\ pc[t] = "setup" => connected
        /\ pc[t] = "ping" => ~connected /\ ~disconnecting

\* There is at most one Disconnect, exactly while disconnectDone is set.
OneDrainer == \A t, u \in Callers : pc[t] \in Draining /\ pc[u] \in Draining => t = u

DrainInv ==
    /\ OneDrainer
    /\ disconnecting <=> \E t \in Callers : pc[t] \in Draining
    /\ disconnecting => ~connected
    /\ \A t \in Callers : pc[t] # "drain" => draining[t] = {}

\* A subscription is registered only while the connection is up.
LoopInv == LoopsAccounted /\ (~connected => subscribers = {})

LifeInv == TypeInv /\ MutexInv /\ DrainInv /\ LoopInv

\* Who may change the mutex and the flags it protects.
MutexMove(t) ==
    /\ pc'[t] \in Holding <=> lockedBy' = t
    /\ lockedBy' = lockedBy \/ (lockedBy \in {None, t} /\ lockedBy' \in {None, t})
    /\ \/ lockedBy \in {None, t}
       \/ (connected' <=> connected) /\ (disconnecting' <=> disconnecting)
    /\ pc'[t] = "setup" => connected'
    /\ pc'[t] = "ping" => ~connected' /\ ~disconnecting'

LEMMA MutexMoves ==
    ASSUME TypeInv, MutexInv, NEW t \in Callers, CallerStep(t)
    PROVE  MutexMove(t)
<1>0. /\ pc \in [Callers -> CallPlaces] /\ t # None
      /\ pc[t] \in Holding <=> lockedBy = t
    BY DEF TypeInv, TypeOK, CallPlaces, MutexInv
<1> USE DEF MutexMove, Goto, Holding, broker
<1>1. CASE Call(t)
    BY <1>0, <1>1 DEF Call
<1>2. CASE ConnectStart(t)
    BY <1>0, <1>2 DEF ConnectStart, MustAwaitDisconnect
<1>3. CASE ConnectEnd(t)
    BY <1>0, <1>3 DEF ConnectEnd
<1>4. CASE DisconnectStart(t)
    BY <1>0, <1>4 DEF DisconnectStart
<1>5. CASE DisconnectDrained(t)
    BY <1>0, <1>5 DEF DisconnectDrained
<1>6. CASE DisconnectEnd(t)
    BY <1>0, <1>6 DEF DisconnectEnd
<1>7. CASE SubscribeStart(t)
    BY <1>0, <1>7 DEF SubscribeStart, SetupLocked
<1>8. CASE SubscribeEnd(t)
    BY <1>0, <1>8 DEF SubscribeEnd
<1>9. CASE UnsubscribeStart(t)
    BY <1>0, <1>9 DEF UnsubscribeStart
<1>10. CASE UnsubscribeEnd(t)
    BY <1>0, <1>10 DEF UnsubscribeEnd
<1> QED
    BY <1>1, <1>2, <1>3, <1>4, <1>5, <1>6, <1>7, <1>8, <1>9, <1>10 DEF
       CallerStep

LEMMA MutexStep ==
    ASSUME TypeInv, MutexInv, NEW t \in Callers, CallerStep(t)
    PROVE  MutexInv'
<1>1. MutexMove(t) /\ OthersKept(t)
    BY MutexMoves, CallerLeavesOthers
<1> SUFFICES ASSUME NEW u \in Callers
             PROVE  /\ pc'[u] \in Holding <=> lockedBy' = u
                    /\ pc'[u] = "setup" => connected'
                    /\ pc'[u] = "ping" => ~connected' /\ ~disconnecting'
    BY DEF MutexInv
<1>2. CASE u = t
    BY <1>1, <1>2 DEF MutexMove
<1>3. CASE u # t
    <2>1. pc'[u] \in Holding <=> pc[u] \in Holding
        BY <1>1, <1>3 DEF OthersKept, Holding
    <2>2. lockedBy' = u <=> lockedBy = u
        BY <1>1, <1>3 DEF MutexMove
    <2>3. pc[u] \in Holding <=> lockedBy = u
        BY DEF MutexInv
    <2>4. ASSUME pc'[u] \in Holding
          PROVE  /\ pc'[u] = pc[u]
                 /\ (connected' <=> connected) /\ (disconnecting' <=> disconnecting)
        BY <1>1, <1>3, <2>1, <2>3, <2>4 DEF MutexMove, OthersKept, Holding
    <2> QED BY <2>1, <2>2, <2>3, <2>4 DEF MutexInv, Holding
<1> QED BY <1>2, <1>3

\* A Disconnect begins, ends, or nothing of the kind happens.
DrainMove(t) ==
    /\ \/ /\ disconnecting' <=> disconnecting
          /\ pc'[t] \in Draining <=> pc[t] \in Draining
          /\ connected' => connected \/ ~disconnecting
       \/ ~disconnecting /\ disconnecting' /\ pc'[t] \in Draining /\ ~connected'
       \/ pc[t] \in Draining /\ ~disconnecting' /\ pc'[t] \notin Draining
    /\ pc'[t] # "drain" => draining'[t] = {}

LEMMA DrainMoves ==
    ASSUME TypeInv, MutexInv, DrainInv, NEW t \in Callers, CallerStep(t)
    PROVE  DrainMove(t)
<1>0. /\ pc \in [Callers -> CallPlaces]
      /\ draining \in [Callers -> SUBSET Subs]
      /\ pc[t] # "drain" => draining[t] = {}
      /\ pc[t] = "ping" => ~disconnecting
    BY DEF TypeInv, TypeOK, CallPlaces, MutexInv, DrainInv
<1> USE DEF DrainMove, Goto, Draining, broker
<1>1. CASE Call(t)
    BY <1>0, <1>1 DEF Call
<1>2. CASE ConnectStart(t)
    BY <1>0, <1>2 DEF ConnectStart
<1>3. CASE ConnectEnd(t)
    BY <1>0, <1>3 DEF ConnectEnd
<1>4. CASE DisconnectStart(t)
    BY <1>0, <1>4 DEF DisconnectStart
<1>5. CASE DisconnectDrained(t)
    BY <1>0, <1>5 DEF DisconnectDrained
<1>6. CASE DisconnectEnd(t)
    BY <1>0, <1>6 DEF DisconnectEnd
<1>7. CASE SubscribeStart(t)
    BY <1>0, <1>7 DEF SubscribeStart
<1>8. CASE SubscribeEnd(t)
    BY <1>0, <1>8 DEF SubscribeEnd
<1>9. CASE UnsubscribeStart(t)
    BY <1>0, <1>9 DEF UnsubscribeStart
<1>10. CASE UnsubscribeEnd(t)
    BY <1>0, <1>10 DEF UnsubscribeEnd
<1> QED
    BY <1>1, <1>2, <1>3, <1>4, <1>5, <1>6, <1>7, <1>8, <1>9, <1>10 DEF
       CallerStep

LEMMA DrainStep ==
    ASSUME TypeInv, MutexInv, DrainInv, NEW t \in Callers, CallerStep(t)
    PROVE  DrainInv'
<1>1. DrainMove(t) /\ OthersKept(t)
    BY DrainMoves, CallerLeavesOthers
<1>2. \A u \in Callers \ {t} :
         /\ pc'[u] \in Draining <=> pc[u] \in Draining
         /\ pc'[u] = "drain" <=> pc[u] = "drain"
         /\ draining'[u] = draining[u]
    BY <1>1 DEF OthersKept, Draining
<1>3. \A u \in Callers : pc'[u] # "drain" => draining'[u] = {}
    BY <1>1, <1>2 DEF DrainMove, DrainInv
<1>4. CASE /\ disconnecting' <=> disconnecting
           /\ pc'[t] \in Draining <=> pc[t] \in Draining
           /\ connected' => connected \/ ~disconnecting
    <2>1. \A u \in Callers : pc'[u] \in Draining <=> pc[u] \in Draining
        BY <1>2, <1>4
    <2> QED BY <1>3, <1>4, <2>1 DEF DrainInv, OneDrainer
<1>5. CASE ~disconnecting /\ disconnecting' /\ pc'[t] \in Draining /\ ~connected'
    <2>1. \A u \in Callers \ {t} : pc'[u] \notin Draining
        BY <1>2, <1>5 DEF DrainInv
    <2> QED BY <1>3, <1>5, <2>1 DEF DrainInv, OneDrainer
<1>6. CASE pc[t] \in Draining /\ ~disconnecting' /\ pc'[t] \notin Draining
    <2>1. \A u \in Callers : pc'[u] \notin Draining
        BY <1>2, <1>6 DEF DrainInv, OneDrainer
    <2> QED BY <1>3, <1>6, <2>1 DEF DrainInv, OneDrainer
<1> QED BY <1>1, <1>4, <1>5, <1>6 DEF DrainMove

-----------------------------------------------------------------------------
(* The loops.                                                                *)

InReach == subscribers \cup UNION {draining[t] : t \in Callers}

\* A caller starts a loop only by registering it, and lets go of subscriptions
\* only by handing them to a Disconnect or when their loops have ended.
LEMMA ReachStep ==
    ASSUME LifeInv, NEW t \in Callers, CallerStep(t)
    PROVE  Running' \subseteq InReach'
<1>0. /\ pc \in [Callers -> CallPlaces]
      /\ draining \in [Callers -> SUBSET Subs]
      /\ loop \in [Subs -> LoopPlaces]
      /\ pc[t] # "drain" => draining[t] = {}
      /\ pc[t] = "setup" => target[t] \in Subs
      /\ Running \subseteq InReach
    BY DEF LifeInv, TypeInv, TypeOK, CallPlaces, LoopPlaces, DrainInv, LoopInv,
           LoopsAccounted, InReach, Targeted, NeedTarget
<1>K. UNCHANGED <<loop, subscribers, draining>> => Running' \subseteq InReach'
    BY <1>0 DEF Running, InReach
<1> USE DEF broker
<1>1. CASE Call(t)
    BY <1>K, <1>1 DEF Call
<1>2. CASE ConnectStart(t)
    BY <1>K, <1>2 DEF ConnectStart
<1>3. CASE ConnectEnd(t)
    BY <1>K, <1>3 DEF ConnectEnd
<1>4. CASE DisconnectStart(t)
    <2>1. CASE UNCHANGED <<subscribers, draining>>
        BY <1>K, <1>4, <2>1 DEF DisconnectStart
    <2>2. CASE draining' = [draining EXCEPT ![t] = subscribers] /\ draining[t] = {}
        <3>1. Running' = Running
            BY <1>4 DEF DisconnectStart, Running
        <3>2. subscribers \subseteq draining'[t]
            BY <1>0, <2>2
        <3>3. \A u \in Callers : draining[u] \subseteq draining'[u]
            BY <1>0, <2>2
        <3>4. InReach \subseteq InReach'
            BY <3>2, <3>3 DEF InReach
        <3> QED BY <1>0, <3>1, <3>4
    <2> QED BY <1>0, <1>4, <2>1, <2>2 DEF DisconnectStart
<1>5. CASE DisconnectDrained(t)
    <2>1. /\ draining' = [draining EXCEPT ![t] = {}]
          /\ UNCHANGED <<loop, subscribers>>
          /\ draining[t] \cap Running = {}
        BY <1>5 DEF DisconnectDrained, Drained
    <2>2. Running' = Running
        BY <2>1 DEF Running
    <2>3. ASSUME NEW s \in Running PROVE s \in InReach'
        <3>1. CASE s \in subscribers
            BY <2>1, <3>1 DEF InReach
        <3>2. ASSUME NEW u \in Callers, s \in draining[u] PROVE s \in InReach'
            <4>1. u # t
                BY <2>1, <2>3, <3>2
            <4>2. draining'[u] = draining[u]
                BY <1>0, <2>1, <4>1
            <4> QED BY <3>2, <4>2 DEF InReach
        <3> QED BY <1>0, <2>3, <3>1, <3>2 DEF InReach
    <2> QED BY <2>2, <2>3
<1>6. CASE DisconnectEnd(t)
    BY <1>K, <1>6 DEF DisconnectEnd
<1>7. CASE SubscribeStart(t)
    BY <1>K, <1>7 DEF SubscribeStart
<1>8. CASE SubscribeEnd(t)
    <2>1. CASE UNCHANGED <<subscribers, loop>>
        BY <1>K, <1>8, <2>1 DEF SubscribeEnd
    <2>2. CASE /\ subscribers' = subscribers \cup {target[t]}
               /\ loop' = [loop EXCEPT ![target[t]] = "polling"]
        <3>1. Running' \subseteq Running \cup {target[t]}
            BY <1>0, <2>2 DEF Running
        <3>2. InReach' = InReach \cup {target[t]}
            BY <1>8, <2>2 DEF SubscribeEnd, InReach
        <3> QED BY <1>0, <3>1, <3>2
    <2> QED BY <1>8, <2>1, <2>2 DEF SubscribeEnd, NewSubscription
<1>9. CASE UnsubscribeStart(t)
    BY <1>K, <1>9 DEF UnsubscribeStart
<1>10. CASE UnsubscribeEnd(t)
    BY <1>K, <1>10 DEF UnsubscribeEnd
<1> QED
    BY <1>1, <1>2, <1>3, <1>4, <1>5, <1>6, <1>7, <1>8, <1>9, <1>10 DEF
       CallerStep

LEMMA RegisteredStep ==
    ASSUME LifeInv, NEW t \in Callers, CallerStep(t)
    PROVE  ~connected' => subscribers' = {}
<1>0. /\ ~connected => subscribers = {}
      /\ pc[t] = "setup" => connected
      /\ pc[t] = "ping" => ~connected
    BY DEF LifeInv, LoopInv, MutexInv
<1> USE DEF broker
<1>1. CASE Call(t)
    BY <1>0, <1>1 DEF Call
<1>2. CASE ConnectStart(t)
    BY <1>0, <1>2 DEF ConnectStart
<1>3. CASE ConnectEnd(t)
    BY <1>0, <1>3 DEF ConnectEnd
<1>4. CASE DisconnectStart(t)
    BY <1>0, <1>4 DEF DisconnectStart
<1>5. CASE DisconnectDrained(t)
    BY <1>0, <1>5 DEF DisconnectDrained
<1>6. CASE DisconnectEnd(t)
    BY <1>0, <1>6 DEF DisconnectEnd
<1>7. CASE SubscribeStart(t)
    BY <1>0, <1>7 DEF SubscribeStart
<1>8. CASE SubscribeEnd(t)
    BY <1>0, <1>8 DEF SubscribeEnd
<1>9. CASE UnsubscribeStart(t)
    BY <1>0, <1>9 DEF UnsubscribeStart
<1>10. CASE UnsubscribeEnd(t)
    BY <1>0, <1>10 DEF UnsubscribeEnd
<1> QED
    BY <1>1, <1>2, <1>3, <1>4, <1>5, <1>6, <1>7, <1>8, <1>9, <1>10 DEF
       CallerStep

LEMMA LifeLoopStep ==
    ASSUME LifeInv, NEW s \in Subs, LoopStep(s)
    PROVE  LifeInv'
<1>0. TypeInv /\ TypeOK /\ MutexInv /\ DrainInv /\ LoopInv
    BY DEF LifeInv, TypeInv
<1>1. /\ UNCHANGED <<connected, disconnecting, lockedBy, subscribers, pc, draining>>
      /\ Running' \subseteq Running
    BY <1>0, LoopStepMoves DEF broker
<1>2. TypeInv'
    BY <1>0, TypeInvStep, LoopIsNext
<1>3. MutexInv'
    BY <1>0, <1>1 DEF MutexInv
<1>4. DrainInv'
    BY <1>0, <1>1 DEF DrainInv, OneDrainer
<1>5. LoopInv'
    BY <1>0, <1>1 DEF LoopInv, LoopsAccounted
<1> QED BY <1>2, <1>3, <1>4, <1>5 DEF LifeInv

THEOREM LifeInvariant == Spec => []LifeInv
<1>1. Init => LifeInv
    <2> SUFFICES ASSUME Init PROVE LifeInv
        OBVIOUS
    <2>1. MutexInv
        BY DEF Init, MutexInv, Holding
    <2>2. DrainInv
        BY DEF Init, DrainInv, OneDrainer, Draining
    <2>3. LoopInv
        BY DEF Init, LoopInv, LoopsAccounted, Running, Live
    <2> QED BY <2>1, <2>2, <2>3, TypeInvInit DEF LifeInv
<1>2. LifeInv /\ [Next]_vars => LifeInv'
    <2> SUFFICES ASSUME LifeInv, [Next]_vars PROVE LifeInv'
        OBVIOUS
    <2>0. TypeInv /\ MutexInv /\ DrainInv /\ LoopInv
        BY DEF LifeInv
    <2>1. TypeInv'
        BY <2>0, TypeInvStep
    <2>2. ASSUME NEW t \in Callers, CallerStep(t) PROVE LifeInv'
        <3>1. MutexInv' /\ DrainInv'
            BY <2>0, <2>2, MutexStep, DrainStep
        <3>2. LoopInv'
            BY <2>2, ReachStep, RegisteredStep DEF LoopInv, LoopsAccounted, InReach
        <3> QED BY <2>1, <3>1, <3>2 DEF LifeInv
    <2>3. ASSUME NEW s \in Subs, LoopStep(s) PROVE LifeInv'
        BY <2>3, LifeLoopStep
    <2>4. CASE UNCHANGED vars
        <3>1. MutexInv' /\ DrainInv'
            BY <2>0, <2>4 DEF vars, MutexInv, DrainInv, OneDrainer
        <3>2. LoopInv'
            BY <2>0, <2>4 DEF vars, LoopInv, LoopsAccounted, Running
        <3> QED BY <2>1, <3>1, <3>2 DEF LifeInv
    <2> QED BY <2>2, <2>3, <2>4, NextCases
<1> QED BY <1>1, <1>2, PTL DEF Spec

\* A running loop is always one that a Disconnect, the next or the one in
\* progress, waits for.
THEOREM NoLoopOutOfReach == Spec => []LoopsAccounted
<1>1. LifeInv => LoopsAccounted
    BY DEF LifeInv, LoopInv
<1> QED BY <1>1, LifeInvariant, PTL

\* However Connect, Disconnect, Subscribe and Unsubscribe interleave: with no
\* connection up or being taken down, no loop runs.
THEOREM DownIsQuiet == Spec => []QuietWhenDown
<1>1. LifeInv => QuietWhenDown
    <2> SUFFICES ASSUME LifeInv, ~connected, ~disconnecting PROVE Running = {}
        BY DEF QuietWhenDown
    <2>1. subscribers = {} /\ LoopsAccounted
        BY DEF LifeInv, LoopInv
    <2>2. \A t \in Callers : draining[t] = {}
        BY DEF LifeInv, DrainInv, Draining
    <2> QED BY <2>1, <2>2 DEF LoopsAccounted
<1> QED BY <1>1, LifeInvariant, PTL

\* For any number of callers, a Disconnect that drains is the only one, it is
\* the one that made disconnectDone, and no Connect revives the broker meanwhile.
THEOREM DrainIsAlone == Spec => []DrainsAlone
<1>1. LifeInv => DrainsAlone
    <2> SUFFICES ASSUME LifeInv PROVE DrainsAlone
        OBVIOUS
    <2>0. DrainInv /\ OneDrainer
        BY DEF LifeInv, DrainInv
    <2> DEFINE D == {t \in Callers : pc[t] \in {"drain", "finish"}}
    <2>1. Cardinality(D) <= 1
        <3>1. CASE D = {}
            BY <3>1, FS_EmptySet
        <3>2. ASSUME NEW t \in D PROVE Cardinality(D) <= 1
            <4>1. D = {t}
                BY <2>0 DEF OneDrainer, Draining
            <4>2. Cardinality({t}) = 1
                BY FS_Singleton
            <4> HIDE DEF D
            <4> QED BY <4>1, <4>2
        <3> QED BY <3>1, <3>2
    <2> QED BY <2>0, <2>1 DEF DrainsAlone, DrainInv, Draining
<1> QED BY <1>1, LifeInvariant, PTL
==============================================================================
