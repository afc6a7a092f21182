--------------------------- MODULE Consumer_proofs ---------------------------
(* Theorems about Consumer, for any number of callers, topics and loops, and  *)
(* for brokers that drain as well as for those that do not.                   *)
EXTENDS Consumer, FiniteSetTheorems, TLAPS

USE NoCallerIsNone, Bounds DEF NoCallerIsNone, Bounds

Begins(c) ==
    \/ StartBegin(c) \/ StartCannotConnect(c)
    \/ StopBegin(c) \/ StopNothing(c)

LoopStep(l) == HandlerBegins(l) \/ HandlerReturns(l) \/ LoopEnds(l)

LEMMA NextCases ==
    ASSUME Next
    PROVE  \/ \E t \in Topics : Subscribe(t)
           \/ \E c \in Callers : Begins(c) \/ CallStep(c)
           \/ \E l \in Loops : LoopStep(l)
BY DEF Next, Begins, LoopStep

-----------------------------------------------------------------------------
(* What the steps of the calls and of the loops change.                      *)

Places == {"idle", "subscribing", "unsubscribing", "unlocked",
           "draining", "disconnecting", "closing"}

LoopStates == {"free", "live", "leaving"}

\* A call moves only its caller, and is idle before it begins.
LEMMA CallerMoves ==
    ASSUME TypeOK, NEW c \in Callers, Begins(c) \/ CallStep(c)
    PROVE  /\ pc' \in [Callers -> Places]
           /\ \A d \in Callers \ {c} : pc'[d] = pc[d]
           /\ UNCHANGED <<drains, handler, registered>>
<1>0. pc \in [Callers -> Places]
    BY DEF TypeOK, Places
<1> USE DEF Goes, Places
<1>1. CASE Begins(c)
    BY <1>0, <1>1 DEF Begins, StartBegin, StartCannotConnect, StopBegin, StopNothing
<1>2. CASE StartSubscribes(c)
    BY <1>0, <1>2 DEF StartSubscribes
<1>3. CASE StartFails(c) \/ StartEnds(c)
    BY <1>0, <1>3 DEF StartFails, StartEnds, Released
<1>4. CASE StopUnlocks(c) \/ StopMarks(c) \/ StopDrained(c)
    BY <1>0, <1>4 DEF StopUnlocks, StopMarks, StopDrained, ThenDisconnect
<1>5. CASE StopDisconnects(c) \/ StopEnds(c)
    BY <1>0, <1>5 DEF StopDisconnects, StopEnds
<1> QED BY <1>1, <1>2, <1>3, <1>4, <1>5 DEF CallStep

\* What a call does with the lock.
LEMMA LockMoves ==
    ASSUME TypeOK, NEW c \in Callers, Begins(c) \/ CallStep(c)
    PROVE  \/ pc'[c] = pc[c] /\ UNCHANGED lock
           \/ /\ lock = NoCaller /\ lock' = c
              /\ pc[c] = "idle" /\ pc'[c] \in {"subscribing", "unsubscribing"}
           \/ /\ pc[c] \in {"subscribing", "unsubscribing"} /\ lock' = NoCaller
              /\ pc'[c] \in {"idle", "unlocked"}
           \/ /\ pc[c] \in {"unlocked", "draining", "disconnecting", "closing"} /\ UNCHANGED lock
              /\ pc'[c] \in {"draining", "disconnecting", "closing", "idle"}
<1>0. pc \in [Callers -> Places]
    BY DEF TypeOK, Places
<1> USE DEF Goes
<1>1. CASE Begins(c)
    BY <1>0, <1>1 DEF Begins, Calls, StartBegin, StartCannotConnect, StopBegin, StopNothing
<1>2. CASE StartSubscribes(c)
    BY <1>0, <1>2 DEF StartSubscribes
<1>3. CASE StartFails(c) \/ StartEnds(c)
    BY <1>0, <1>3 DEF StartFails, StartEnds, Released
<1>4. CASE StopUnlocks(c)
    BY <1>0, <1>4 DEF StopUnlocks
<1>5. CASE StopMarks(c) \/ StopDrained(c) \/ StopDisconnects(c) \/ StopEnds(c)
    BY <1>0, <1>5 DEF StopMarks, StopDrained, ThenDisconnect, StopDisconnects, StopEnds
<1> QED BY <1>1, <1>2, <1>3, <1>4, <1>5 DEF CallStep

\* What a call does with the broker's loops and with the saved subscriptions.
Opens(c, t, n) ==
    /\ pc[c] = "subscribing"
    /\ up
    /\ saved[t] = 0
    /\ loop[<<t, n>>] = "free"
    /\ loop' = [loop EXCEPT ![<<t, n>>] = "live"]
    /\ saved' = [saved EXCEPT ![t] = n]
    /\ UNCHANGED pc

UnsubscribesAll == loop' = [l \in Loops |-> Unsubscribed(l)] /\ saved' = NoneSaved

ClosesAll ==
    /\ loop' = [l \in Loops |-> IF up /\ loop[l] = "live" THEN "leaving" ELSE loop[l]]
    /\ UNCHANGED saved

LEMMA LoopMoves ==
    ASSUME TypeOK, NEW c \in Callers, Begins(c) \/ CallStep(c)
    PROVE  \/ \E t \in Topics, n \in 1..MaxLoops :
                 Opens(c, t, n) /\ t \in registered /\ UNCHANGED up
           \/ StopBegin(c) /\ UnsubscribesAll
           \/ StopDisconnects(c) /\ ClosesAll
           \/ UNCHANGED <<loop, saved>> /\ ~StopBegin(c) /\ ~StopDisconnects(c)
<1>0. pc \in [Callers -> Places]
    BY DEF TypeOK, Places
<1>1. CASE StartSubscribes(c)
    <2>1. PICK t \in ToSubscribe, n \in 1..MaxLoops : Opens(c, t, n)
        BY <1>1 DEF StartSubscribes, ToSubscribe, Opens
    <2>2. t \in Topics /\ t \in registered /\ UNCHANGED up
        BY <1>1 DEF StartSubscribes, ToSubscribe, TypeOK
    <2> QED BY <2>1, <2>2
<1>2. CASE StopBegin(c)
    BY <1>2 DEF StopBegin, UnsubscribesAll
<1>3. CASE StopDisconnects(c)
    BY <1>3 DEF StopDisconnects, ClosesAll
<1>4. ASSUME ~StartSubscribes(c), ~StopBegin(c), ~StopDisconnects(c)
      PROVE  UNCHANGED <<loop, saved>>
    BY <1>4
       DEF Begins, CallStep, StartBegin, StartCannotConnect, StopNothing, StartFails,
            StartEnds, StopUnlocks, StopMarks, StopDrained, StopEnds
<1> QED BY <1>1, <1>2, <1>3, <1>4

LEMMA LoopStepMoves ==
    ASSUME TypeOK, NEW l \in Loops, LoopStep(l)
    PROVE  /\ UNCHANGED <<drains, lock, started, registered, saved, pc, last, overlap,
                          up, failures>>
           /\ loop' \in [Loops -> LoopStates]
           /\ handler' \in [Loops -> {"none", "running"}]
           /\ \A k \in Loops :
                 \/ loop'[k] = loop[k]
                 \/ loop[k] = "leaving" /\ loop'[k] = "free" /\ handler'[k] = "none"
           /\ \A k \in Loops : handler'[k] = "running" => handler[k] = "running" \/ loop[k] # "free"
<1>0. loop \in [Loops -> LoopStates] /\ handler \in [Loops -> {"none", "running"}]
    BY DEF TypeOK, LoopStates
<1> USE DEF consumer, LoopStates
<1>1. CASE HandlerBegins(l)
    BY <1>0, <1>1 DEF HandlerBegins
<1>2. CASE HandlerReturns(l)
    BY <1>0, <1>2 DEF HandlerReturns
<1>3. CASE LoopEnds(l)
    BY <1>0, <1>3 DEF LoopEnds
<1> QED BY <1>1, <1>2, <1>3 DEF LoopStep

-----------------------------------------------------------------------------
(* Types *)

LEMMA FlagsStep ==
    ASSUME TypeOK, [Next]_vars
    PROVE  /\ started' \in BOOLEAN /\ drains' \in BOOLEAN
           /\ up' \in BOOLEAN /\ overlap' \in BOOLEAN
<1>0. started \in BOOLEAN /\ drains \in BOOLEAN /\ up \in BOOLEAN /\ overlap \in BOOLEAN
    BY DEF TypeOK
<1>1. ASSUME NEW c \in Callers, Begins(c)
      PROVE  /\ started' \in BOOLEAN /\ drains' \in BOOLEAN
             /\ up' \in BOOLEAN /\ overlap' \in BOOLEAN
    <2>1. overlap' \in BOOLEAN
        BY <1>1 DEF Begins, StartBegin, StartCannotConnect, StopBegin, StopNothing, Calls
    <2>2. UNCHANGED <<started, drains>> /\ (up' = up \/ up' = TRUE)
        BY <1>1 DEF Begins, StartBegin, StartCannotConnect, StopBegin, StopNothing
    <2> QED BY <1>0, <2>1, <2>2
<1>2. ASSUME NEW c \in Callers, CallStep(c)
      PROVE  /\ started' \in BOOLEAN /\ drains' \in BOOLEAN
             /\ up' \in BOOLEAN /\ overlap' \in BOOLEAN
    <2>1. UNCHANGED <<overlap, drains>>
        BY <1>2 DEF CallStep, StartSubscribes, StartFails, StartEnds, StopUnlocks, StopMarks,
                    StopDrained, StopDisconnects, StopEnds
    <2>2. (up' = up \/ up' = FALSE) /\ (started' = started \/ started' = TRUE \/ started' = FALSE)
        BY <1>2 DEF CallStep, StartSubscribes, StartFails, StartEnds, StopUnlocks, StopMarks,
                    StopDrained, StopDisconnects, StopEnds
    <2> QED BY <1>0, <2>1, <2>2
<1>3. ASSUME NEW l \in Loops, LoopStep(l)
      PROVE  /\ started' \in BOOLEAN /\ drains' \in BOOLEAN
             /\ up' \in BOOLEAN /\ overlap' \in BOOLEAN
    BY <1>0, <1>3, LoopStepMoves
<1>4. ASSUME NEW t \in Topics, Subscribe(t)
      PROVE  /\ started' \in BOOLEAN /\ drains' \in BOOLEAN
             /\ up' \in BOOLEAN /\ overlap' \in BOOLEAN
    BY <1>0, <1>4 DEF Subscribe
<1>5. CASE UNCHANGED vars
    BY <1>0, <1>5 DEF vars
<1> QED BY <1>1, <1>2, <1>3, <1>4, <1>5, NextCases

Locked == \A c \in Callers : lock = c <=> pc[c] \in {"subscribing", "unsubscribing"}

LEMMA CallerTypeStep ==
    ASSUME TypeOK, NEW c \in Callers, Begins(c) \/ CallStep(c)
    PROVE  /\ lock' \in Callers \cup {NoCaller} /\ Locked'
           /\ saved' \in [Topics -> 0..MaxLoops]
           /\ \A t \in Topics : saved'[t] > 0 => t \in registered'
           /\ loop' \in [Loops -> LoopStates]
           /\ failures' \in 0..MaxFailures
           /\ last' \in {"none", "started", "stopped", "not stopped"}
<1>0. /\ lock \in Callers \cup {NoCaller} /\ Locked
      /\ pc \in [Callers -> Places]
    BY DEF TypeOK, Locked, Places
<1>a. saved \in [Topics -> 0..MaxLoops] /\ loop \in [Loops -> LoopStates]
    BY DEF TypeOK, LoopStates
<1>b. \A t \in Topics : saved[t] > 0 => t \in registered
    BY DEF TypeOK
<1>c. failures \in 0..MaxFailures /\ last \in {"none", "started", "stopped", "not stopped"}
    BY DEF TypeOK
<1>1. lock' \in Callers \cup {NoCaller} /\ Locked'
    <2>1. /\ pc' \in [Callers -> Places] /\ \A d \in Callers \ {c} : pc'[d] = pc[d]
        BY CallerMoves
    <2> QED BY <1>0, <2>1, LockMoves DEF Locked, Places
<1>2. /\ saved' \in [Topics -> 0..MaxLoops] /\ loop' \in [Loops -> LoopStates]
      /\ \A t \in Topics : saved'[t] > 0 => t \in registered'
    <2>0. registered' = registered
        BY CallerMoves
    <2>1. ASSUME NEW t \in Topics, NEW n \in 1..MaxLoops, Opens(c, t, n), t \in registered
          PROVE  /\ saved' \in [Topics -> 0..MaxLoops] /\ loop' \in [Loops -> LoopStates]
                 /\ \A u \in Topics : saved'[u] > 0 => u \in registered
        <3>1. loop' = [loop EXCEPT ![<<t, n>>] = "live"] /\ saved' = [saved EXCEPT ![t] = n]
            BY <2>1 DEF Opens
        <3>2. loop' \in [Loops -> LoopStates]
            BY <1>a, <3>1 DEF LoopStates
        <3>3. saved' \in [Topics -> 0..MaxLoops]
            BY <1>a, <3>1
        <3> QED BY <1>a, <1>b, <2>1, <3>1, <3>2, <3>3
    <2>2. CASE UnsubscribesAll
        <3>1. loop' \in [Loops -> LoopStates]
            BY <1>a, <2>2 DEF UnsubscribesAll, Unsubscribed, LoopStates
        <3> QED BY <2>2, <3>1 DEF UnsubscribesAll, NoneSaved
    <2>3. CASE ClosesAll
        <3>1. loop' \in [Loops -> LoopStates]
            BY <1>a, <2>3 DEF ClosesAll, LoopStates
        <3> QED BY <1>a, <1>b, <2>0, <2>3, <3>1 DEF ClosesAll
    <2>4. CASE UNCHANGED <<loop, saved>>
        BY <1>a, <1>b, <2>0, <2>4
    <2> QED BY <2>0, <2>1, <2>2, <2>3, <2>4, LoopMoves
<1>3. failures' \in 0..MaxFailures
    <2>1. failures' = failures \/ Fails
        BY DEF Begins, CallStep, StartBegin, StartCannotConnect, StopBegin, StopNothing,
               StartSubscribes, StartFails, StartEnds, StopUnlocks, StopMarks, StopDrained,
               StopDisconnects, StopEnds
    <2>2. ASSUME Fails PROVE failures' \in 0..MaxFailures
        <3>1. failures < MaxFailures /\ failures' = failures + 1
            BY <2>2 DEF Fails
        <3>2. failures \in 0..MaxFailures
            BY <1>c
        <3>3. failures \in Nat /\ MaxFailures \in Nat /\ failures + 1 <= MaxFailures
            BY <3>1, <3>2
        <3>4. failures + 1 \in 0..MaxFailures
            BY <3>3
        <3> QED BY <3>1, <3>4
    <2> QED BY <1>c, <2>1, <2>2
<1>4. last' \in {"none", "started", "stopped", "not stopped"}
    BY <1>c DEF Begins, CallStep, StartBegin, StartCannotConnect, StopBegin, StopNothing,
                StartSubscribes, StartFails, StartEnds, StopUnlocks, StopMarks, StopDrained,
                ThenDisconnect, StopDisconnects, StopEnds
<1> QED BY <1>1, <1>2, <1>3, <1>4

\* Every state the consumer reaches is well typed, a topic with a broker
\* subscription is registered, and the write lock is held exactly by a call
\* between its Lock and its Unlock, however the calls overlap.
THEOREM TypeCorrect == Spec => []TypeOK
<1>1. Init => TypeOK
    <2> SUFFICES ASSUME Init PROVE TypeOK
        OBVIOUS
    <2>1. /\ started \in BOOLEAN /\ drains \in BOOLEAN
          /\ up \in BOOLEAN /\ overlap \in BOOLEAN
        BY DEF Init
    <2>2. /\ lock = NoCaller /\ registered = {} /\ failures = 0 /\ last = "none"
          /\ saved = [t \in Topics |-> 0] /\ pc = [c \in Callers |-> "idle"]
          /\ loop = [l \in Loops |-> "free"] /\ handler = [l \in Loops |-> "none"]
        BY DEF Init
    <2> QED BY <2>1, <2>2 DEF TypeOK
<1>2. TypeOK /\ [Next]_vars => TypeOK'
    <2> SUFFICES ASSUME TypeOK, [Next]_vars PROVE TypeOK'
        OBVIOUS
    <2>0. /\ started' \in BOOLEAN /\ drains' \in BOOLEAN
          /\ up' \in BOOLEAN /\ overlap' \in BOOLEAN
        BY FlagsStep
    <2>1. ASSUME NEW c \in Callers, Begins(c) \/ CallStep(c) PROVE TypeOK'
        <3>1. pc' \in [Callers -> Places] /\ UNCHANGED <<handler, registered>>
            BY <2>1, CallerMoves
        <3> QED BY <2>0, <2>1, <3>1, CallerTypeStep DEF TypeOK, Locked, Places, LoopStates
    <2>2. ASSUME NEW l \in Loops, LoopStep(l) PROVE TypeOK'
        BY <2>0, <2>2, LoopStepMoves DEF TypeOK, LoopStates
    <2>3. ASSUME NEW t \in Topics, Subscribe(t) PROVE TypeOK'
        BY <2>0, <2>3 DEF Subscribe, TypeOK
    <2>4. CASE UNCHANGED vars
        BY <2>0, <2>4 DEF vars, TypeOK
    <2> QED BY <2>1, <2>2, <2>3, <2>4, NextCases
<1> QED BY <1>1, <1>2, PTL DEF Spec

-----------------------------------------------------------------------------
(* The broker's loops: a live one is a saved subscription, one that serves    *)
(* nobody has no handler, and at a broker that drains, a Stop waits for every *)
(* loop that was told to leave.                                              *)

SavedIsLive ==
    \A t \in Topics, n \in 1..MaxLoops : loop[<<t, n>>] = "live" => saved[t] = n

FreeIsQuiet == \A l \in Loops : loop[l] = "free" => handler[l] = "none"

Awaited ==
    Leaving # {} => ~drains \/ \E c \in Callers : pc[c] \in {"unsubscribing", "closing"}

LoopsInv == SavedIsLive /\ FreeIsQuiet /\ Awaited

LEMMA LoopsType == TypeOK => /\ pc \in [Callers -> Places]
                             /\ loop \in [Loops -> LoopStates]
                             /\ saved \in [Topics -> 0..MaxLoops]
BY DEF TypeOK, Places, LoopStates

LEMMA SavedIsLiveStep ==
    ASSUME TypeOK, SavedIsLive, NEW c \in Callers, Begins(c) \/ CallStep(c)
    PROVE  SavedIsLive'
<1>1. ASSUME NEW t \in Topics, NEW n \in 1..MaxLoops, Opens(c, t, n) PROVE SavedIsLive'
    <2> SUFFICES ASSUME NEW u \in Topics, NEW k \in 1..MaxLoops, loop'[<<u, k>>] = "live"
                 PROVE  saved'[u] = k
        BY DEF SavedIsLive
    <2>1. /\ saved[t] = 0
          /\ loop' = [loop EXCEPT ![<<t, n>>] = "live"]
          /\ saved' = [saved EXCEPT ![t] = n]
        BY <1>1 DEF Opens
    <2>2. <<u, k>> \in Loops /\ <<t, n>> \in Loops
        BY DEF Loops
    <2>3. CASE u = t /\ k = n
        BY <2>1, <2>3, LoopsType
    <2>4. CASE ~(u = t /\ k = n)
        <3>1. loop[<<u, k>>] = "live"
            BY <2>1, <2>2, <2>4, LoopsType
        <3>2. saved[u] = k /\ k # 0
            BY <3>1 DEF SavedIsLive
        <3>3. u # t
            BY <2>1, <3>2
        <3> QED BY <2>1, <3>2, <3>3, LoopsType
    <2> QED BY <2>3, <2>4
<1>2. CASE UnsubscribesAll
    <2> SUFFICES ASSUME NEW u \in Topics, NEW k \in 1..MaxLoops, loop'[<<u, k>>] = "live"
                 PROVE  FALSE
        BY DEF SavedIsLive
    <2>1. <<u, k>> \in Loops /\ <<u, k>>[1] = u /\ <<u, k>>[2] = k
        BY DEF Loops
    <2>2. Unsubscribed(<<u, k>>) = "live"
        BY <1>2, <2>1 DEF UnsubscribesAll
    <2>3. loop[<<u, k>>] = "live"
        BY <2>2 DEF Unsubscribed
    <2>4. saved[u] = k
        BY <2>3 DEF SavedIsLive
    <2> QED BY <2>1, <2>2, <2>3, <2>4 DEF Unsubscribed
<1>3. CASE ClosesAll
    <2>1. \A l \in Loops : loop'[l] = "live" => loop[l] = "live"
        BY <1>3 DEF ClosesAll
    <2>2. saved' = saved
        BY <1>3 DEF ClosesAll
    <2> QED BY <2>1, <2>2 DEF SavedIsLive, Loops
<1>4. CASE UNCHANGED <<loop, saved>>
    BY <1>4 DEF SavedIsLive
<1> QED BY <1>1, <1>2, <1>3, <1>4, LoopMoves

LEMMA FreeIsQuietStep ==
    ASSUME TypeOK, FreeIsQuiet, NEW c \in Callers, Begins(c) \/ CallStep(c)
    PROVE  FreeIsQuiet'
<1>1. \A l \in Loops : loop'[l] = "free" => loop[l] = "free"
    <2>1. ASSUME NEW t \in Topics, NEW n \in 1..MaxLoops, Opens(c, t, n)
          PROVE  \A l \in Loops : loop'[l] = "free" => loop[l] = "free"
        <3>1. loop' = [loop EXCEPT ![<<t, n>>] = "live"] /\ loop \in [Loops -> LoopStates]
            BY <2>1, LoopsType DEF Opens
        <3> QED BY <3>1
    <2>2. CASE UnsubscribesAll
        BY <2>2 DEF UnsubscribesAll, Unsubscribed
    <2>3. CASE ClosesAll
        BY <2>3 DEF ClosesAll
    <2>4. CASE UNCHANGED <<loop, saved>>
        BY <2>4
    <2> QED BY <2>1, <2>2, <2>3, <2>4, LoopMoves
<1>2. handler' = handler
    BY CallerMoves
<1> QED BY <1>1, <1>2 DEF FreeIsQuiet

\* Only a caller that waits for them tells loops to leave, and it goes on when
\* none is left.
LEMMA AwaitedStep ==
    ASSUME TypeOK, Awaited, NEW c \in Callers, Begins(c) \/ CallStep(c)
    PROVE  Awaited'
<1>0. /\ pc \in [Callers -> Places] /\ pc' \in [Callers -> Places]
      /\ \A d \in Callers \ {c} : pc'[d] = pc[d]
      /\ drains' = drains
    BY CallerMoves, LoopsType
<1>1. CASE StopBegin(c)
    <2>1. pc'[c] = "unsubscribing"
        BY <1>0, <1>1 DEF StopBegin, Goes
    <2> QED BY <2>1 DEF Awaited
<1>2. CASE StopDisconnects(c)
    <2>1. pc'[c] = "closing"
        BY <1>0, <1>2 DEF StopDisconnects, Goes
    <2> QED BY <2>1 DEF Awaited
<1>3. CASE ~StopBegin(c) /\ ~StopDisconnects(c)
    <2>1. Leaving' \subseteq Leaving
        <3>1. ASSUME NEW t \in Topics, NEW n \in 1..MaxLoops, Opens(c, t, n)
              PROVE  Leaving' \subseteq Leaving
            <4>1. loop' = [loop EXCEPT ![<<t, n>>] = "live"] /\ loop \in [Loops -> LoopStates]
                BY <3>1, LoopsType DEF Opens
            <4> QED BY <4>1 DEF Leaving
        <3>2. CASE UNCHANGED <<loop, saved>>
            BY <3>2 DEF Leaving
        <3> QED BY <1>3, <3>1, <3>2, LoopMoves
    <2>2. CASE StopUnlocks(c) \/ StopEnds(c)
        <3>1. ~drains \/ Leaving = {}
            BY <2>2 DEF StopUnlocks, StopEnds
        <3> QED BY <1>0, <2>1, <3>1 DEF Awaited
    <2>3. CASE pc'[c] = pc[c]
        BY <1>0, <2>1, <2>3 DEF Awaited
    <2>4. CASE pc[c] \notin {"unsubscribing", "closing"}
        BY <1>0, <2>1, <2>4 DEF Awaited
    <2>5. \/ StopUnlocks(c) \/ StopEnds(c) \/ pc'[c] = pc[c]
          \/ pc[c] \notin {"unsubscribing", "closing"}
        BY <1>3 DEF Begins, CallStep, Calls, StartBegin, StartCannotConnect, StopNothing,
                    StartSubscribes, StartFails, StartEnds, StopMarks, StopDrained
    <2> QED BY <2>2, <2>3, <2>4, <2>5
<1> QED BY <1>1, <1>2, <1>3

THEOREM LoopsInvariant == Spec => []LoopsInv
<1>1. Init => LoopsInv
    <2> SUFFICES ASSUME Init PROVE LoopsInv
        OBVIOUS
    <2>1. loop = [l \in Loops |-> "free"] /\ handler = [l \in Loops |-> "none"]
        BY DEF Init
    <2> QED BY <2>1 DEF LoopsInv, SavedIsLive, FreeIsQuiet, Awaited, Leaving, Loops
<1>2. TypeOK /\ LoopsInv /\ [Next]_vars => LoopsInv'
    <2> SUFFICES ASSUME TypeOK, LoopsInv, [Next]_vars PROVE LoopsInv'
        OBVIOUS
    <2>1. ASSUME NEW c \in Callers, Begins(c) \/ CallStep(c) PROVE LoopsInv'
        BY <2>1, SavedIsLiveStep, FreeIsQuietStep, AwaitedStep DEF LoopsInv
    <2>2. ASSUME NEW l \in Loops, LoopStep(l) PROVE LoopsInv'
        <3>1. \A k \in Loops :
                 \/ loop'[k] = loop[k]
                 \/ loop[k] = "leaving" /\ loop'[k] = "free" /\ handler'[k] = "none"
            BY <2>2, LoopStepMoves
        <3>2. SavedIsLive'
            <4>1. saved' = saved
                BY <2>2, LoopStepMoves
            <4> QED BY <3>1, <4>1 DEF LoopsInv, SavedIsLive, Loops
        <3>3. FreeIsQuiet'
            <4>1. /\ handler \in [Loops -> {"none", "running"}]
                  /\ handler' \in [Loops -> {"none", "running"}]
                  /\ \A k \in Loops : handler'[k] = "running" => handler[k] = "running" \/ loop[k] # "free"
                BY <2>2, LoopStepMoves DEF TypeOK
            <4> QED BY <3>1, <4>1 DEF LoopsInv, FreeIsQuiet
        <3>4. Awaited'
            <4>1. Leaving' \subseteq Leaving
                BY <3>1 DEF Leaving
            <4>2. UNCHANGED <<pc, drains>>
                BY <2>2, LoopStepMoves
            <4> QED BY <4>1, <4>2 DEF LoopsInv, Awaited
        <3> QED BY <3>2, <3>3, <3>4 DEF LoopsInv
    <2>3. ASSUME NEW t \in Topics, Subscribe(t) PROVE LoopsInv'
        BY <2>3 DEF Subscribe, LoopsInv, SavedIsLive, FreeIsQuiet, Awaited, Leaving
    <2>4. CASE UNCHANGED vars
        BY <2>4 DEF vars, LoopsInv, SavedIsLive, FreeIsQuiet, Awaited, Leaving
    <2> QED BY <2>1, <2>2, <2>3, <2>4, NextCases
<1> QED BY <1>1, <1>2, TypeCorrect, PTL DEF Spec

\* However calls fail, overlap and are repeated, a topic is never consumed by
\* two broker subscriptions of this consumer at once: Start skips a topic whose
\* subscription is saved, and Stop forgets none it has not unsubscribed.
THEOREM OneSubscriptionPerTopic == Spec => []NoDoubleSubscription
<1>1. LoopsInv => NoDoubleSubscription
    <2> SUFFICES ASSUME SavedIsLive, NEW t \in Topics
                 PROVE  Cardinality({n \in 1..MaxLoops : loop[<<t, n>>] = "live"}) <= 1
        BY DEF LoopsInv, NoDoubleSubscription
    <2> DEFINE L == {n \in 1..MaxLoops : loop[<<t, n>>] = "live"}
    <2>1. L \subseteq {saved[t]}
        BY DEF SavedIsLive
    <2>2. L = {} \/ L = {saved[t]}
        BY <2>1
    <2> HIDE DEF L
    <2>3. Cardinality(L) = 0 \/ Cardinality(L) = 1
        BY <2>2, FS_EmptySet, FS_Singleton
    <2> QED BY <2>3 DEF L
<1> QED BY <1>1, LoopsInvariant, PTL

-----------------------------------------------------------------------------
(* The broker is down after a Stop, unless a Start has begun since.           *)

DownHasNone == ~up => \A l \in Loops : loop[l] # "live"

StoppedIsDown == last = "stopped" => ~up \/ \E c \in Callers : pc[c] = "subscribing"

DownInv == DownHasNone /\ StoppedIsDown

\* What a call does with the broker's connection and with the history of calls.
LEMMA UpMoves ==
    ASSUME TypeOK, NEW c \in Callers, Begins(c) \/ CallStep(c)
    PROVE  \/ StartBegin(c) /\ up' = TRUE /\ UNCHANGED last /\ pc'[c] = "subscribing"
           \/ /\ pc[c] = "subscribing" /\ UNCHANGED up
              /\ \/ pc'[c] = "subscribing" /\ UNCHANGED last
                 \/ last' \in {"none", "started"}
           \/ /\ pc[c] # "subscribing" /\ ~StartBegin(c) /\ ~StopDisconnects(c)
              /\ UNCHANGED up
              /\ last' = last \/ last' \in {"none", "not stopped"}
           \/ StopDisconnects(c) /\ up' = FALSE /\ pc[c] = "disconnecting"
<1>0. pc \in [Callers -> Places]
    BY LoopsType
<1>1. CASE StartBegin(c)
    BY <1>0, <1>1 DEF StartBegin, Goes
<1>2. CASE StopDisconnects(c)
    BY <1>2 DEF StopDisconnects
<1>3. CASE pc[c] = "subscribing"
    BY <1>0, <1>3 DEF Begins, CallStep, Calls, StartBegin, StartCannotConnect, StopBegin,
       StopNothing, StartSubscribes, StartFails, StartEnds, StopUnlocks, StopMarks,
       StopDrained, StopDisconnects, StopEnds
<1>4. CASE pc[c] # "subscribing" /\ ~StartBegin(c) /\ ~StopDisconnects(c)
    BY <1>4 DEF Begins, CallStep, StartCannotConnect, StopBegin, StopNothing,
       StartSubscribes, StartFails, StartEnds, StopUnlocks, StopMarks, StopDrained,
       ThenDisconnect, StopEnds
<1> QED BY <1>1, <1>2, <1>3, <1>4

LEMMA DownStep ==
    ASSUME TypeOK, DownInv, NEW c \in Callers, Begins(c) \/ CallStep(c)
    PROVE  DownInv'
<1>0. /\ pc' \in [Callers -> Places] /\ pc \in [Callers -> Places]
      /\ \A d \in Callers \ {c} : pc'[d] = pc[d]
    BY CallerMoves, LoopsType
<1>1. CASE StartBegin(c) /\ up' = TRUE /\ UNCHANGED last /\ pc'[c] = "subscribing"
    BY <1>1 DEF DownInv, DownHasNone, StoppedIsDown
<1>2. CASE StopDisconnects(c) /\ up' = FALSE
    <2>1. loop' = [l \in Loops |-> IF up /\ loop[l] = "live" THEN "leaving" ELSE loop[l]]
        BY <1>2 DEF StopDisconnects
    <2>2. ASSUME NEW l \in Loops PROVE loop'[l] # "live"
        <3>1. CASE up
            BY <2>1, <3>1
        <3>2. CASE ~up
            BY <2>1, <3>2 DEF DownInv, DownHasNone
        <3> QED BY <3>1, <3>2
    <2> QED BY <1>2, <2>2 DEF DownInv, DownHasNone, StoppedIsDown
<1>3. ASSUME UNCHANGED up, ~StopDisconnects(c) PROVE DownHasNone'
    <2>1. ASSUME NEW t \in Topics, NEW n \in 1..MaxLoops, Opens(c, t, n) PROVE DownHasNone'
        BY <1>3, <2>1 DEF Opens, DownHasNone
    <2>2. CASE UnsubscribesAll
        <3>1. ASSUME NEW l \in Loops, loop'[l] = "live" PROVE loop[l] = "live"
            BY <2>2, <3>1 DEF UnsubscribesAll, Unsubscribed
        <3> QED BY <1>3, <3>1 DEF DownInv, DownHasNone
    <2>3. CASE UNCHANGED <<loop, saved>>
        BY <1>3, <2>3 DEF DownInv, DownHasNone
    <2> QED BY <1>3, <2>1, <2>2, <2>3, LoopMoves
<1>4. CASE /\ pc[c] = "subscribing" /\ UNCHANGED up
           /\ \/ pc'[c] = "subscribing" /\ UNCHANGED last
              \/ last' \in {"none", "started"}
    <2>1. ~StopDisconnects(c)
        BY <1>4 DEF StopDisconnects
    <2>2. StoppedIsDown'
        BY <1>4 DEF StoppedIsDown
    <2> QED BY <1>3, <1>4, <2>1, <2>2 DEF DownInv
<1>5. CASE /\ pc[c] # "subscribing" /\ ~StopDisconnects(c) /\ UNCHANGED up
           /\ last' = last \/ last' \in {"none", "not stopped"}
    <2>1. ASSUME last' = "stopped" PROVE ~up' \/ \E d \in Callers : pc'[d] = "subscribing"
        <3>1. last = "stopped"
            BY <1>5, <2>1
        <3>2. CASE ~up
            BY <1>5, <3>2
        <3>3. ASSUME NEW d \in Callers, pc[d] = "subscribing"
              PROVE  \E e \in Callers : pc'[e] = "subscribing"
            <4>1. d # c
                BY <1>5, <3>3
            <4> QED BY <1>0, <3>3, <4>1
        <3> QED BY <3>1, <3>2, <3>3 DEF DownInv, StoppedIsDown
    <2> QED BY <1>3, <1>5, <2>1 DEF DownInv, StoppedIsDown
<1> QED BY <1>1, <1>2, <1>4, <1>5, UpMoves

THEOREM DownInvariant == Spec => []DownInv
<1>1. Init => DownInv
    BY DEF Init, DownInv, DownHasNone, StoppedIsDown
<1>2. TypeOK /\ DownInv /\ [Next]_vars => DownInv'
    <2> SUFFICES ASSUME TypeOK, DownInv, [Next]_vars PROVE DownInv'
        OBVIOUS
    <2>1. ASSUME NEW c \in Callers, Begins(c) \/ CallStep(c) PROVE DownInv'
        BY <2>1, DownStep
    <2>2. ASSUME NEW l \in Loops, LoopStep(l) PROVE DownInv'
        <3>1. UNCHANGED <<up, last, pc>> /\ \A k \in Loops : loop'[k] = loop[k] \/ loop'[k] = "free"
            BY <2>2, LoopStepMoves
        <3> QED BY <3>1 DEF DownInv, DownHasNone, StoppedIsDown
    <2>3. ASSUME NEW t \in Topics, Subscribe(t) PROVE DownInv'
        BY <2>3 DEF Subscribe, DownInv, DownHasNone, StoppedIsDown
    <2>4. CASE UNCHANGED vars
        BY <2>4 DEF vars, DownInv, DownHasNone, StoppedIsDown
    <2> QED BY <2>1, <2>2, <2>3, <2>4, NextCases
<1> QED BY <1>1, <1>2, TypeCorrect, PTL DEF Spec

\* When a Stop that stopped something was the last call, the broker is down, no
\* subscription is open and, if the broker waits for its loops, no handler is
\* running: neither the lock's early release nor an overlapping Start undoes it.
THEOREM StopReallyStops == Spec => []StopStops
<1>1. TypeOK /\ LoopsInv /\ DownInv => StopStops
    <2> SUFFICES ASSUME TypeOK, LoopsInv, DownInv, Quiescent, last = "stopped"
                 PROVE  Down /\ (drains => Active = {})
        BY DEF StopStops
    <2>1. ~up
        BY DEF DownInv, StoppedIsDown, Quiescent
    <2>2. \A l \in Loops : loop[l] # "live"
        BY <2>1 DEF DownInv, DownHasNone
    <2>3. ASSUME drains PROVE Active = {}
        <3>1. Leaving = {}
            BY <2>3 DEF LoopsInv, Awaited, Quiescent
        <3>2. ASSUME NEW l \in Loops PROVE handler[l] = "none"
            <4>1. loop[l] = "free"
                BY <2>2, <3>1, LoopsType DEF Leaving, LoopStates
            <4> QED BY <4>1 DEF LoopsInv, FreeIsQuiet
        <3> QED BY <3>2 DEF Active
    <2> QED BY <2>1, <2>2, <2>3 DEF Down
<1> QED BY <1>1, TypeCorrect, LoopsInvariant, DownInvariant, PTL

-----------------------------------------------------------------------------
(* Calls that do not overlap: each finds the consumer as the one before left  *)
(* it.  The flag is cleared by a Stop that begins alone, which forgets what   *)
(* was saved.                                                                *)

Stopping == {"unsubscribing", "unlocked", "draining", "disconnecting", "closing"}

Alone == \A c, d \in Callers : pc[c] # "idle" /\ pc[d] # "idle" => c = d

SavedServed == \A t \in Topics : saved[t] > 0 => loop[<<t, saved[t]>>] = "live"

CallsFind ==
    \A c \in Callers : /\ pc[c] \in Stopping => saved = NoneSaved
                       /\ pc[c] = "subscribing" => up
                       /\ pc[c] = "closing" => last = "stopped"

StartedIsUp == Quiescent /\ last = "started" => up

Orderly == Alone /\ SavedServed /\ CallsFind /\ StartedIsUp

OrderInv == ~overlap => Orderly

LEMMA OrderBegins ==
    ASSUME TypeOK, OrderInv, NEW c \in Callers, Begins(c)
    PROVE  OrderInv'
<1> SUFFICES ASSUME ~overlap' PROVE Orderly'
    BY DEF OrderInv
<1>0. /\ pc' \in [Callers -> Places] /\ pc \in [Callers -> Places]
      /\ \A d \in Callers \ {c} : pc'[d] = pc[d]
    BY CallerMoves, LoopsType
<1>1. Quiescent /\ (overlap => started)
    BY Zenon DEF Begins, StartBegin, StartCannotConnect, StopBegin, StopNothing, Calls
<1>2. Alone'
    BY <1>0, <1>1 DEF Alone, Quiescent
<1>3. ASSUME StopBegin(c) PROVE Orderly'
    <2>1. saved' = NoneSaved /\ pc'[c] = "unsubscribing"
        BY <1>0, <1>3 DEF StopBegin, Goes
    <2>2. NoneSaved' = NoneSaved
        BY DEF NoneSaved
    <2>3. SavedServed'
        BY <2>1 DEF SavedServed, NoneSaved
    <2>4. CallsFind'
        BY <1>0, <1>1, <2>1, <2>2 DEF CallsFind, Quiescent
    <2>5. StartedIsUp'
        BY <2>1 DEF StartedIsUp, Quiescent
    <2> QED BY <1>2, <2>3, <2>4, <2>5 DEF Orderly
<1>4. ASSUME ~StopBegin(c) PROVE Orderly'
    <2>1. ~started /\ UNCHANGED <<loop, saved>>
        BY <1>4 DEF Begins, StartBegin, StartCannotConnect, StopNothing
    <2>2. ~overlap
        BY <1>1, <2>1
    <2>3. Orderly
        BY <2>2 DEF OrderInv
    <2>4. SavedServed'
        BY <2>1, <2>3 DEF Orderly, SavedServed
    <2>5. \/ pc'[c] = "subscribing" /\ up' = TRUE
          \/ pc'[c] = "idle" /\ last' \in {"none", "not stopped"}
        BY <1>0, <1>4 DEF Begins, StartBegin, StartCannotConnect, StopNothing, Goes, Calls
    <2>6. \A d \in Callers : pc'[d] \notin Stopping
        BY <1>0, <1>1, <2>5 DEF Quiescent, Stopping
    <2>7. CallsFind'
        BY <1>0, <1>1, <2>5, <2>6 DEF CallsFind, Quiescent, Stopping
    <2>8. StartedIsUp'
        BY <2>5 DEF StartedIsUp, Quiescent
    <2> QED BY <1>2, <2>4, <2>7, <2>8 DEF Orderly
<1> QED BY <1>3, <1>4

LEMMA OrderGoesOn ==
    ASSUME TypeOK, OrderInv, NEW c \in Callers, CallStep(c)
    PROVE  OrderInv'
<1>0. /\ pc' \in [Callers -> Places] /\ pc \in [Callers -> Places]
      /\ saved \in [Topics -> 0..MaxLoops] /\ loop \in [Loops -> LoopStates]
      /\ \A d \in Callers \ {c} : pc'[d] = pc[d]
    BY CallerMoves, LoopsType
<1>1. UNCHANGED overlap /\ pc[c] # "idle"
    BY DEF CallStep, StartSubscribes, StartFails, StartEnds, StopUnlocks, StopMarks,
           StopDrained, StopDisconnects, StopEnds
<1> SUFFICES ASSUME ~overlap PROVE Orderly'
    BY <1>1 DEF OrderInv
<1>2. Alone /\ SavedServed /\ CallsFind /\ StartedIsUp
    BY DEF OrderInv, Orderly
<1>3. \A d \in Callers \ {c} : pc[d] = "idle" /\ pc'[d] = "idle"
    BY <1>0, <1>1, <1>2 DEF Alone
<1>4. Alone'
    BY <1>3 DEF Alone
<1>5. CASE StartSubscribes(c)
    <2>1. PICK t \in ToSubscribe, n \in 1..MaxLoops :
             /\ loop' = [loop EXCEPT ![<<t, n>>] = "live"]
             /\ saved' = [saved EXCEPT ![t] = n]
        BY <1>5 DEF StartSubscribes
    <2>2. t \in Topics
        BY DEF ToSubscribe, TypeOK
    <2>3. UNCHANGED <<up, last, pc>> /\ pc[c] = "subscribing"
        BY <1>5 DEF StartSubscribes
    <2>4. SavedServed'
        <3> SUFFICES ASSUME NEW u \in Topics, saved'[u] > 0
                     PROVE  loop'[<<u, saved'[u]>>] = "live"
            BY DEF SavedServed
        <3>1. <<t, n>> \in Loops
            BY <2>2 DEF Loops
        <3>2. CASE u = t
            BY <1>0, <2>1, <3>1, <3>2
        <3>3. CASE u # t
            <4>1. saved'[u] = saved[u] /\ saved[u] \in 1..MaxLoops
                BY <1>0, <2>1, <3>3
            <4>2. <<u, saved[u]>> \in Loops /\ <<u, saved[u]>> # <<t, n>>
                BY <3>3, <4>1 DEF Loops
            <4>3. loop[<<u, saved[u]>>] = "live"
                BY <1>2, <4>1 DEF SavedServed
            <4> QED BY <1>0, <2>1, <4>1, <4>2, <4>3
        <3> QED BY <3>2, <3>3
    <2>5. CallsFind'
        BY <1>2, <1>3, <2>3 DEF CallsFind, Stopping
    <2>6. StartedIsUp'
        BY <2>3 DEF StartedIsUp, Quiescent
    <2> QED BY <1>4, <2>4, <2>5, <2>6 DEF Orderly
<1>6. CASE StartFails(c) \/ StartEnds(c)
    <2>1. UNCHANGED <<loop, saved, up>> /\ pc[c] = "subscribing" /\ pc'[c] = "idle"
        BY <1>0, <1>6 DEF StartFails, StartEnds, Released, Goes
    <2>2. up
        BY <1>2, <2>1 DEF CallsFind
    <2>3. SavedServed'
        BY <1>2, <2>1 DEF SavedServed
    <2>4. CallsFind' /\ StartedIsUp'
        BY <1>3, <2>1, <2>2 DEF CallsFind, StartedIsUp, Stopping
    <2> QED BY <1>4, <2>3, <2>4 DEF Orderly
<1>7. ASSUME \/ StopUnlocks(c) \/ StopMarks(c) \/ StopDrained(c)
             \/ StopDisconnects(c) \/ StopEnds(c)
      PROVE  Orderly'
    <2>1. /\ pc[c] \in Stopping /\ UNCHANGED saved
          /\ \/ pc'[c] \in Stopping \ {"closing"}
             \/ pc'[c] = "closing" /\ last' = "stopped"
             \/ pc'[c] = "idle" /\ pc[c] = "closing" /\ UNCHANGED last
        BY <1>0, <1>7 DEF StopUnlocks, StopMarks, StopDrained, ThenDisconnect, StopDisconnects,
                          StopEnds, Goes, Stopping
    <2>2. saved = NoneSaved /\ NoneSaved' = NoneSaved
        BY <1>2, <2>1 DEF CallsFind, NoneSaved
    <2>3. SavedServed'
        BY <2>1, <2>2 DEF SavedServed, NoneSaved
    <2>4. CallsFind'
        BY <1>3, <2>1, <2>2 DEF CallsFind, Stopping
    <2>5. StartedIsUp'
        <3>1. ASSUME Quiescent' PROVE last' # "started"
            <4>1. pc'[c] = "idle"
                BY <3>1 DEF Quiescent
            <4>2. pc[c] = "closing" /\ last' = last
                BY <2>1, <4>1 DEF Stopping
            <4> QED BY <1>2, <4>2 DEF CallsFind
        <3> QED BY <3>1 DEF StartedIsUp
    <2> QED BY <1>4, <2>3, <2>4, <2>5 DEF Orderly
<1> QED BY <1>5, <1>6, <1>7 DEF CallStep

THEOREM OrderInvariant == Spec => []OrderInv
<1>1. Init => OrderInv
    BY DEF Init, OrderInv, Orderly, Alone, SavedServed, CallsFind, StartedIsUp, Stopping
<1>2. TypeOK /\ OrderInv /\ [Next]_vars => OrderInv'
    <2> SUFFICES ASSUME TypeOK, OrderInv, [Next]_vars PROVE OrderInv'
        OBVIOUS
    <2> USE DEF OrderInv, Orderly, Alone, CallsFind, StartedIsUp, Quiescent, NoneSaved
    <2>1. ASSUME NEW c \in Callers, Begins(c) \/ CallStep(c) PROVE OrderInv'
        BY <2>1, OrderBegins, OrderGoesOn
    <2>2. ASSUME NEW l \in Loops, LoopStep(l) PROVE OrderInv'
        <3>1. UNCHANGED <<saved, pc, last, overlap, up>>
            BY <2>2, LoopStepMoves
        <3>2. SavedServed => SavedServed'
            <4>1. \A k \in Loops : loop[k] = "live" => loop'[k] = "live"
                BY <2>2, LoopStepMoves
            <4>2. \A t \in Topics : saved[t] > 0 => <<t, saved[t]>> \in Loops
                BY LoopsType DEF Loops
            <4> QED BY <3>1, <4>1, <4>2 DEF SavedServed
        <3> QED BY <3>1, <3>2
    <2>3. ASSUME NEW t \in Topics, Subscribe(t) PROVE OrderInv'
        BY <2>3 DEF Subscribe, SavedServed
    <2>4. CASE UNCHANGED vars
        BY <2>4 DEF vars, SavedServed
    <2> QED BY <2>1, <2>2, <2>3, <2>4, NextCases
<1> QED BY <1>1, <1>2, TypeCorrect, PTL DEF Spec

\* After a successful Start the broker is up and every saved subscription is
\* served, whatever failures and restarts went before, and whatever overlaps
\* before the last Stop that began alone.
THEOREM StartReallyServes == Spec => []StartServes
<1>1. OrderInv => StartServes
    BY DEF OrderInv, Orderly, SavedServed, StartedIsUp, StartServes, Served
<1> QED BY <1>1, OrderInvariant, PTL
=============================================================================
