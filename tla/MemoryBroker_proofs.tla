------------------------- MODULE MemoryBroker_proofs -------------------------
(* Theorems about MemoryBroker, for any number of subscribers, messages and   *)
(* Unsubscribe calls.                                                        *)
EXTENDS MemoryBroker, DataLemmas

USE MaxUnsubsType DEF MaxUnsubsType

-----------------------------------------------------------------------------
(* What the loop that rebuilds the slice makes of it.                         *)

LEMMA ToSetElems == \A q : ToSet(q) = Elems(q)
BY DEF ToSet, Elems

\* The equation of the loop that rebuilds the slice.
Rebuilds(q, s, kept) ==
    kept = [i \in 0..Len(q) |->
              IF i = 0 THEN <<>>
              ELSE IF q[i] = s THEN kept[i - 1]
              ELSE Append(kept[i - 1], q[i])]

LEMMA RebuildExists ==
    ASSUME NEW S, NEW q \in Seq(S), NEW s
    PROVE  \E kept : Rebuilds(q, s, kept)
<1> DEFINE V == Seq(S)
           Next1(i, v) == IF i \in 1..Len(q) /\ q[i] # s THEN Append(v, q[i]) ELSE v
           step == [p \in Nat \X V |-> Next1(p[1] + 1, p[2])]
<1>0. Len(q) \in Nat /\ \A i \in 1..Len(q) : q[i] \in S
    BY LenProperties, ElementOfSeq
<1>1. ASSUME NEW i \in Nat, NEW v \in V PROVE Next1(i + 1, v) \in V
    BY <1>0, AppendProperties
<1> HIDE DEF Next1, V
<1>2. step \in Steps(V)
    BY <1>1 DEF Steps
<1>3. \A i \in Nat, v \in V : step[<<i, v>>] = Next1(i + 1, v)
    OBVIOUS
<1>4. <<>> \in V
    BY DEF V
<1> HIDE DEF step
<1>5. PICK f : IsRecursive(V, <<>>, step, f)
    BY <1>2, <1>4, Recursion
<1> DEFINE kept == [i \in 0..Len(q) |-> f[i]]
<1>6. ASSUME NEW i \in 0..Len(q)
      PROVE  kept[i] = IF i = 0 THEN <<>>
                       ELSE IF q[i] = s THEN kept[i - 1]
                       ELSE Append(kept[i - 1], q[i])
    <2>1. CASE i = 0
        BY <1>0, <1>5, <2>1 DEF IsRecursive
    <2>2. CASE i # 0
        <3>1. i - 1 \in Nat /\ i - 1 \in 0..Len(q) /\ (i - 1) + 1 = i /\ i \in 1..Len(q)
            BY <1>0, <2>2
        <3>2. f[i] = step[<<i - 1, f[i - 1]>>] /\ f[i - 1] \in V
            BY <1>5, <3>1 DEF IsRecursive
        <3>3. f[i] = Next1(i, f[i - 1])
            BY <1>3, <3>1, <3>2
        <3>4. kept[i] = f[i] /\ kept[i - 1] = f[i - 1]
            BY <3>1
        <3> HIDE DEF kept
        <3> QED BY <2>2, <3>1, <3>3, <3>4 DEF Next1
    <2> QED BY <2>1, <2>2
<1>7. Rebuilds(q, s, kept)
    BY <1>6 DEF Rebuilds
<1> QED BY <1>7

\* The rebuilt slice holds the others, each as often as before.
LEMMA WithoutElements ==
    ASSUME NEW S, NEW q \in Seq(S), NEW s
    PROVE  /\ Without(q, s) \in Seq(S)
           /\ Elems(Without(q, s)) = Elems(q) \ {s}
           /\ Distinct(q) => Distinct(Without(q, s))
<1> DEFINE kept == CHOOSE k : Rebuilds(q, s, k)
           First(i) == {q[j] : j \in 1..i}
           Good(i) == /\ kept[i] \in Seq(S)
                      /\ Elems(kept[i]) = First(i) \ {s}
                      /\ Distinct(q) => Distinct(kept[i])
           T == {i \in Nat : i <= Len(q) => Good(i)}
<1>0. Len(q) \in Nat /\ \A i \in 1..Len(q) : q[i] \in S
    BY LenProperties, ElementOfSeq
<1>1. Without(q, s) = kept[Len(q)]
    BY DEF Without, Rebuilds
<1>2. Rebuilds(q, s, kept)
    BY RebuildExists
<1> HIDE DEF kept
<1>3. kept[0] = <<>>
    BY <1>0, <1>2 DEF Rebuilds
<1>4. ASSUME NEW i \in Nat, i + 1 <= Len(q)
      PROVE  kept[i + 1] = IF q[i + 1] = s THEN kept[i] ELSE Append(kept[i], q[i + 1])
    <2>1. i + 1 \in 0..Len(q) /\ i + 1 # 0 /\ (i + 1) - 1 = i
        BY <1>0, <1>4
    <2> QED BY <1>2, <2>1 DEF Rebuilds
<1>5. 0 \in T
    <2>1. First(0) = {} /\ <<>> \in Seq(S)
        OBVIOUS
    <2> HIDE DEF First
    <2>2. Good(0)
        BY <1>3, <2>1, EmptyElements
    <2> HIDE DEF Good
    <2> QED BY <2>2
<1>6. ASSUME NEW i \in Nat, Good(i), i + 1 <= Len(q) PROVE Good(i + 1)
    <2>0. i + 1 \in 1..Len(q) /\ q[i + 1] \in S
        BY <1>0, <1>6
    <2>1. First(i + 1) = First(i) \cup {q[i + 1]}
        OBVIOUS
    <2>2. CASE q[i + 1] = s
        <3>1. kept[i + 1] = kept[i]
            BY <1>4, <1>6, <2>2
        <3> HIDE DEF First
        <3> QED BY <1>6, <2>1, <2>2, <3>1
    <2>3. CASE q[i + 1] # s
        <3>1. kept[i + 1] = Append(kept[i], q[i + 1])
            BY <1>4, <1>6, <2>3
        <3>2. /\ Append(kept[i], q[i + 1]) \in Seq(S)
              /\ Elems(Append(kept[i], q[i + 1])) = Elems(kept[i]) \cup {q[i + 1]}
            BY <1>6, <2>0, AppendElements
        <3>3. ASSUME Distinct(q) PROVE Distinct(Append(kept[i], q[i + 1]))
            <4>1. q[i + 1] \notin First(i)
                BY <1>0, <1>6, <2>0, <3>3 DEF Distinct
            <4> HIDE DEF First
            <4>2. q[i + 1] \notin Elems(kept[i])
                BY <1>6, <4>1
            <4> QED BY <1>6, <2>0, <3>3, <4>2, AppendElements
        <3> HIDE DEF First
        <3> QED BY <1>6, <2>1, <2>3, <3>1, <3>2, <3>3
    <2> QED BY <2>2, <2>3
<1> HIDE DEF Good
<1>7. ASSUME NEW i \in Nat, i \in T PROVE i + 1 \in T
    BY <1>0, <1>6, <1>7
<1> HIDE DEF T
<1>8. Nat \subseteq T
    BY <1>5, <1>7, SetInduction
<1>9. Good(Len(q))
    BY <1>0, <1>8 DEF T
<1>10. First(Len(q)) = Elems(q)
    BY ElemsOf
<1> QED BY <1>1, <1>9, <1>10 DEF Good

-----------------------------------------------------------------------------
(* Types *)

\* A Publish that begins is refused, or has the slice to call.
LEMMA PublishReads ==
    ASSUME TypeOK, NEW m \in Msgs, PublishStart(m)
    PROVE  /\ \/ pc' = [pc EXCEPT ![m] = "refused"] /\ UNCHANGED <<left, snapshot>>
              \/ /\ pc' = [pc EXCEPT ![m] = "calling"]
                 /\ left' = [left EXCEPT ![m] = registered]
                 /\ snapshot' = [snapshot EXCEPT ![m] = registered]
           /\ pc' \in [Msgs -> {"new", "calling", "ok", "failed", "refused"}]
           /\ left' \in [Msgs -> Seq(Subs)]
           /\ snapshot' \in [Msgs -> Seq(Subs)]
<1>1. \/ pc' = [pc EXCEPT ![m] = "refused"] /\ UNCHANGED <<left, snapshot>>
      \/ /\ pc' = [pc EXCEPT ![m] = "calling"]
         /\ left' = [left EXCEPT ![m] = registered]
         /\ snapshot' = [snapshot EXCEPT ![m] = registered]
    BY Zenon DEF PublishStart
<1>2. /\ registered \in Seq(Subs) /\ left \in [Msgs -> Seq(Subs)]
      /\ snapshot \in [Msgs -> Seq(Subs)]
      /\ pc \in [Msgs -> {"new", "calling", "ok", "failed", "refused"}]
    BY Zenon DEF TypeOK
<1>3. CASE pc' = [pc EXCEPT ![m] = "refused"] /\ UNCHANGED <<left, snapshot>>
    BY <1>2, <1>3
<1>4. CASE /\ pc' = [pc EXCEPT ![m] = "calling"]
           /\ left' = [left EXCEPT ![m] = registered]
           /\ snapshot' = [snapshot EXCEPT ![m] = registered]
    BY <1>2, <1>4
<1> QED BY <1>1, <1>3, <1>4

\* Every state the broker reaches is well typed; an exit channel never holds
\* more tokens than were sent to it, nor more than the two that can ever fit.
THEOREM TypeCorrect == Spec => []TypeOK
<1>1. Init => TypeOK
    <2> SUFFICES ASSUME Init PROVE TypeOK
        OBVIOUS
    <2>1. <<>> \in Seq(Subs)
        OBVIOUS
    <2> QED BY <2>1 DEF Init, TypeOK
<1>2. TypeOK /\ [Next]_vars => TypeOK'
    <2> SUFFICES ASSUME TypeOK, [Next]_vars PROVE TypeOK'
        OBVIOUS
    <2> USE DEF TypeOK, publishes
    <2>1. CASE Connect
        BY <2>1 DEF Connect
    <2>2. CASE Disconnect
        BY <2>2 DEF Disconnect
    <2>3. ASSUME NEW s \in Subs, SubscribeChecks(s) PROVE TypeOK'
        BY <2>3 DEF SubscribeChecks
    <2>4. ASSUME NEW s \in Subs, SubscribeRegisters(s) PROVE TypeOK'
        <3>1. registered' \in Seq(Subs)
            BY <2>4, AppendElements DEF SubscribeRegisters
        <3> QED BY <2>4, <3>1 DEF SubscribeRegisters
    <2>5. ASSUME NEW s \in Subs, UnsubscribeCall(s) PROVE TypeOK'
        BY <2>5 DEF UnsubscribeCall
    <2>6. ASSUME NEW s \in Subs, UnsubscribeReturns(s) PROVE TypeOK'
        <3>1. TokensFit(s) \in Nat /\ TokensFit(s) <= 2
            BY DEF TokensFit
        <3> QED BY <2>6, <3>1 DEF UnsubscribeReturns
    <2>7. ASSUME NEW s \in Subs, TokenTaken(s) PROVE TypeOK'
        BY <2>7 DEF TokenTaken
    <2>8. ASSUME NEW s \in Subs, Rebuild(s) PROVE TypeOK'
        <3>1. registered' \in Seq(Subs)
            BY <2>8, WithoutElements DEF Rebuild
        <3> QED BY <2>8, <3>1 DEF Rebuild
    <2>9. ASSUME NEW m \in Msgs, PublishStart(m) PROVE TypeOK'
        <3>1. UNCHANGED <<connected, registered, remover, unsubs, waiting, handled>>
            BY <2>9 DEF PublishStart
        <3>2. connected' \in BOOLEAN
            BY <3>1, Zenon
        <3>3. /\ pc' \in [Msgs -> {"new", "calling", "ok", "failed", "refused"}]
              /\ left' \in [Msgs -> Seq(Subs)]
              /\ snapshot' \in [Msgs -> Seq(Subs)]
            BY <2>9, PublishReads
        <3> QED BY <3>1, <3>2, <3>3
    <2>10. ASSUME NEW m \in Msgs, HandlerOk(m) PROVE TypeOK'
        <3>1. Head(left[m]) \in Subs /\ Tail(left[m]) \in Seq(Subs)
            BY <2>10, TailElements DEF HandlerOk
        <3> QED BY <2>10, <3>1 DEF HandlerOk
    <2>11. ASSUME NEW m \in Msgs, HandlerFails(m) PROVE TypeOK'
        BY <2>11 DEF HandlerFails, StopsAt
    <2>12. ASSUME NEW m \in Msgs, PublishReturns(m) PROVE TypeOK'
        BY <2>12 DEF PublishReturns
    <2>13. CASE UNCHANGED vars
        BY <2>13 DEF vars
    <2> QED BY <2>1, <2>2, <2>3, <2>4, <2>5, <2>6, <2>7, <2>8, <2>9, <2>10, <2>11,
               <2>12, <2>13 DEF Next
<1> QED BY <1>1, <1>2, PTL DEF Spec

-----------------------------------------------------------------------------
(* A Publish: what it has handled and what is left of its slice.              *)

Called ==
    \A m \in Msgs :
       /\ pc[m] = "new" => handled[m] = {}
       /\ pc[m] = "calling" => Elems(snapshot[m]) = handled[m] \cup Elems(left[m])
       /\ pc[m] = "ok" => Elems(snapshot[m]) = handled[m]

\* A nil result from Publish means that every subscriber of the slice it read
\* handled the message, whatever came and went while the handlers ran.
THEOREM PublishHandlesAll == Spec => []OkMeansAllHandled
<1>1. Init => Called
    BY DEF Init, Called
<1>2. TypeOK /\ Called /\ [Next]_vars => Called'
    <2> SUFFICES ASSUME TypeOK, Called, [Next]_vars PROVE Called'
        OBVIOUS
    <2> USE DEF Called, publishes
    <2>1. CASE Connect \/ Disconnect
        BY <2>1 DEF Connect, Disconnect
    <2>2. ASSUME NEW s \in Subs,
                 \/ SubscribeChecks(s) \/ SubscribeRegisters(s) \/ UnsubscribeCall(s)
                 \/ UnsubscribeReturns(s) \/ TokenTaken(s) \/ Rebuild(s)
          PROVE  Called'
        BY <2>2 DEF SubscribeChecks, SubscribeRegisters, UnsubscribeCall,
                    UnsubscribeReturns, TokenTaken, Rebuild
    <2>3. ASSUME NEW m \in Msgs, PublishStart(m) PROVE Called'
        <3>1. UNCHANGED handled /\ pc[m] = "new"
            BY <2>3 DEF PublishStart
        <3>2. /\ \/ pc' = [pc EXCEPT ![m] = "refused"] /\ UNCHANGED <<left, snapshot>>
                 \/ /\ pc' = [pc EXCEPT ![m] = "calling"]
                    /\ left' = [left EXCEPT ![m] = registered]
                    /\ snapshot' = [snapshot EXCEPT ![m] = registered]
            BY <2>3, PublishReads
        <3>3. CASE pc' = [pc EXCEPT ![m] = "refused"] /\ UNCHANGED <<left, snapshot>>
            BY <3>1, <3>3 DEF TypeOK
        <3>4. CASE /\ pc' = [pc EXCEPT ![m] = "calling"]
                   /\ left' = [left EXCEPT ![m] = registered]
                   /\ snapshot' = [snapshot EXCEPT ![m] = registered]
            <4>1. /\ pc'[m] = "calling" /\ Elems(left'[m]) = Elems(snapshot'[m])
                  /\ \A n \in Msgs \ {m} :
                        pc'[n] = pc[n] /\ left'[n] = left[n] /\ snapshot'[n] = snapshot[n]
                BY <3>4 DEF TypeOK
            <4>2. handled'[m] = {}
                BY <3>1
            <4> QED BY <3>1, <4>1, <4>2
        <3> QED BY <3>2, <3>3, <3>4
    <2>4. ASSUME NEW m \in Msgs, HandlerOk(m) PROVE Called'
        <3>1. Elems(left[m]) = {Head(left[m])} \cup Elems(Tail(left[m]))
            BY <2>4, TailElements DEF HandlerOk, TypeOK
        <3>2. /\ UNCHANGED <<pc, snapshot>>
              /\ handled'[m] = handled[m] \cup {Head(left[m])}
              /\ left'[m] = Tail(left[m])
              /\ \A n \in Msgs \ {m} : handled'[n] = handled[n] /\ left'[n] = left[n]
            BY <2>4 DEF HandlerOk, TypeOK
        <3>3. handled'[m] \cup Elems(left'[m]) = handled[m] \cup Elems(left[m])
            BY <3>1, <3>2
        <3>4. pc[m] = "calling"
            BY <2>4 DEF HandlerOk
        <3> QED BY <3>2, <3>3, <3>4
    <2>5. ASSUME NEW m \in Msgs, HandlerFails(m) PROVE Called'
        BY <2>5 DEF HandlerFails, StopsAt, TypeOK
    <2>6. ASSUME NEW m \in Msgs, PublishReturns(m) PROVE Called'
        BY <2>6, EmptyElements DEF PublishReturns, TypeOK
    <2>7. CASE UNCHANGED vars
        BY <2>7 DEF vars
    <2> QED BY <2>1, <2>2, <2>3, <2>4, <2>5, <2>6, <2>7 DEF Next
<1>3. Called => OkMeansAllHandled
    BY ToSetElems DEF Called, OkMeansAllHandled
<1> QED BY <1>1, <1>2, <1>3, TypeCorrect, PTL DEF Spec

-----------------------------------------------------------------------------
(* The slice of subscribers *)

Live == {s \in Subs : remover[s] \in {"waiting", "removing"}}

Registered == Elems(registered) = Live /\ Distinct(registered)

\* Rebuilding the slice beside Subscribes and other removals loses no live
\* subscriber, repeats none and brings back none that was removed.
THEOREM SliceIsExact == Spec => []RegistrationExact
<1>1. Init => Registered
    BY EmptyElements DEF Init, Registered, Live
<1>2. TypeOK /\ Registered /\ [Next]_vars => Registered'
    <2> SUFFICES ASSUME TypeOK, Registered, [Next]_vars PROVE Registered'
        OBVIOUS
    <2> USE DEF publishes
    <2>1. CASE Connect \/ Disconnect
        BY <2>1 DEF Connect, Disconnect, Registered, Live
    <2>2. ASSUME NEW s \in Subs, SubscribeChecks(s) PROVE Registered'
        <3>1. registered' = registered /\ Live' = Live
            BY <2>2 DEF SubscribeChecks, Live, TypeOK
        <3> QED BY <3>1 DEF Registered
    <2>3. ASSUME NEW s \in Subs, SubscribeRegisters(s) PROVE Registered'
        <3>1. registered' = Append(registered, s) /\ Live' = Live \cup {s} /\ s \notin Live
            BY <2>3 DEF SubscribeRegisters, Live, TypeOK
        <3>2. registered \in Seq(Subs)
            BY DEF TypeOK
        <3> QED BY <3>1, <3>2, AppendElements DEF Registered
    <2>4. ASSUME NEW s \in Subs, UnsubscribeCall(s) \/ UnsubscribeReturns(s) PROVE Registered'
        BY <2>4 DEF UnsubscribeCall, UnsubscribeReturns, Registered, Live
    <2>5. ASSUME NEW s \in Subs, TokenTaken(s) PROVE Registered'
        <3>1. registered' = registered /\ Live' = Live
            BY <2>5 DEF TokenTaken, Live, TypeOK
        <3> QED BY <3>1 DEF Registered
    <2>6. ASSUME NEW s \in Subs, Rebuild(s) PROVE Registered'
        <3>1. registered' = Without(registered, s) /\ Live' = Live \ {s}
            BY <2>6 DEF Rebuild, Live, TypeOK
        <3>2. registered \in Seq(Subs)
            BY DEF TypeOK
        <3> QED BY <3>1, <3>2, WithoutElements DEF Registered
    <2>7. ASSUME NEW m \in Msgs,
                 PublishStart(m) \/ HandlerOk(m) \/ HandlerFails(m) \/ PublishReturns(m)
          PROVE  Registered'
        BY <2>7 DEF PublishStart, HandlerOk, HandlerFails, PublishReturns, Registered, Live
    <2>8. CASE UNCHANGED vars
        BY <2>8 DEF vars, Registered, Live
    <2> QED BY <2>1, <2>2, <2>3, <2>4, <2>5, <2>6, <2>7, <2>8 DEF Next
<1>3. TypeOK /\ Registered => RegistrationExact
    <2> SUFFICES ASSUME TypeOK, Registered PROVE RegistrationExact
        OBVIOUS
    <2>1. Len(registered) = Cardinality(Elems(registered))
        BY DistinctLength DEF TypeOK, Registered
    <2> QED BY <2>1, ToSetElems DEF Registered, RegistrationExact, Live
<1> QED BY <1>1, <1>2, <1>3, TypeCorrect, PTL DEF Spec
=============================================================================
