------------------------ MODULE ChannelBroker_proofs -------------------------
(* Theorems about ChannelBroker, for any subscribers, groups and messages and *)
(* any queue limit.                                                          *)
EXTENDS ChannelBroker, DataLemmas

USE LimitPositive, MayStopType DEF LimitPositive, MayStopType

\* The calls and readers that touch neither queues nor publishes.
ControlStep ==
    \/ Connect \/ Disconnect
    \/ \E s \in Subs : \/ SubscribeChecks(s) \/ SubscribeRegisters(s) \/ Unsubscribe(s)
                       \/ HandlerReturns(s) \/ ReaderExits(s)

LEMMA NextCases ==
    ASSUME Next
    PROVE  \/ ControlStep
           \/ \E s \in Subs : Read(s) \/ \E m \in Msgs : Unblock(s, m)
           \/ \E m \in Msgs : \/ PublishStart(m) \/ PublishEnd(m)
                              \/ \E g \in Groups : Offer(m, g) \/ Spill(m, g)
BY DEF Next, ControlStep, PublishStep, ReaderStep

LEMMA ElementsElems == \A q : Elements(q) = Elems(q)
BY DEF Elements, Elems

LEMMA ControlKeeps ==
    ASSUME ControlStep PROVE UNCHANGED <<queue, blocked, publishes, handled>>
BY DEF ControlStep, Connect, Disconnect, SubscribeChecks, SubscribeRegisters, Unsubscribe,
       HandlerReturns, ReaderExits, publishes, subscribers

-----------------------------------------------------------------------------
(* The members a message is offered to                                       *)

\* The first of some members of the slice is one of them.
LEMMA FirstMember ==
    ASSUME TypeOK, NEW m \in Msgs, NEW members, members # {},
           members \subseteq Elements(snapshot[m])
    PROVE  FirstOf(m, members) \in members
<1>1. snapshot[m] \in Seq(Subs) /\ Len(snapshot[m]) \in Nat
      /\ DOMAIN snapshot[m] = 1..Len(snapshot[m])
    BY DEF TypeOK
<1>2. ASSUME NEW s \in members PROVE Place(m, s) \in Nat
    <2>1. \E i \in DOMAIN snapshot[m] : snapshot[m][i] = s
        BY DEF Elements
    <2>2. Place(m, s) \in DOMAIN snapshot[m]
        BY <2>1 DEF Place
    <2> QED BY <1>1, <2>2
<1> DEFINE T == {Place(m, s) : s \in members}
<1>3. T \subseteq Nat /\ T # {}
    BY <1>2
<1> HIDE DEF T
<1>4. PICK n \in T : \A k \in T : n <= k
    BY <1>3, LeastNumber
<1>5. PICK s \in members : n = Place(m, s)
    BY DEF T
<1>6. \A t \in members : Place(m, s) <= Place(m, t)
    BY <1>4, <1>5 DEF T
<1> QED BY <1>6 DEF FirstOf

TodoHasMembers == \A m \in Msgs : \A g \in todo[m] : Members(m, g) # {}

Serves(m, g) == todo' = [todo EXCEPT ![m] = @ \ {g}] /\ tried' = [tried EXCEPT ![m] = {}]

LEMMA OfferCases ==
    ASSUME TypeOK, NEW m \in Msgs, NEW g \in Groups, Offer(m, g)
    PROVE  \E s \in Subs :
              /\ GroupOf[s] = g /\ g \in todo[m]
              /\ \/ /\ Len(queue[s]) < Limit
                    /\ queue' = [queue EXCEPT ![s] = Append(@, m)]
                    /\ Serves(m, g)
                 \/ /\ UNCHANGED <<queue, todo>>
                    /\ tried' = [tried EXCEPT ![m] = @ \cup {s}]
<1> DEFINE s == FirstOf(m, Untried(m, g))
<1>1. Untried(m, g) # {} /\ g \in todo[m]
    BY DEF Offer, InTurn
<1>2. s \in Untried(m, g)
    BY <1>1, FirstMember DEF Untried, Members
<1>3. Elements(snapshot[m]) \subseteq Subs
    BY ElementsElems, ElemsOf DEF TypeOK
<1>4. s \in Subs /\ GroupOf[s] = g
    BY <1>2, <1>3 DEF Untried, Members
<1>5. \/ /\ Len(queue[s]) < Limit
         /\ queue' = [queue EXCEPT ![s] = Append(@, m)]
         /\ Serves(m, g)
      \/ /\ UNCHANGED <<queue, todo>>
         /\ tried' = [tried EXCEPT ![m] = @ \cup {s}]
    BY DEF Offer, HasRoom, AfterSend, NextGroup, NextMember, Serves
<1> QED BY <1>1, <1>4, <1>5

LEMMA SpillCases ==
    ASSUME TypeOK, TodoHasMembers, NEW m \in Msgs, NEW g \in Groups, Spill(m, g)
    PROVE  \E s \in Subs :
              /\ GroupOf[s] = g /\ g \in todo[m]
              /\ blocked' = [blocked EXCEPT ![s] = @ \cup {m}]
              /\ Serves(m, g)
<1> DEFINE s == FirstOf(m, Members(m, g))
<1>1. g \in todo[m] /\ Members(m, g) # {}
    BY DEF Spill, InTurn, TodoHasMembers
<1>2. s \in Members(m, g)
    BY <1>1, FirstMember DEF Members
<1>3. Elements(snapshot[m]) \subseteq Subs
    BY ElementsElems, ElemsOf DEF TypeOK
<1>4. s \in Subs /\ GroupOf[s] = g
    BY <1>2, <1>3 DEF Members
<1> QED BY <1>1, <1>4 DEF Spill, NextGroup, Serves

LEMMA StartCases ==
    ASSUME TypeOK, NEW m \in Msgs, PublishStart(m)
    PROVE  \/ pc' = [pc EXCEPT ![m] = "refused"] /\ UNCHANGED <<snapshot, todo>>
           \/ /\ pc' = [pc EXCEPT ![m] = "sending"]
              /\ snapshot' = [snapshot EXCEPT ![m] = registered]
              /\ todo' = [todo EXCEPT ![m] = {GroupOf[s] : s \in Elements(registered)}]
BY Zenon DEF PublishStart

-----------------------------------------------------------------------------
(* Types *)

QueuesType ==
    /\ queue \in [Subs -> Seq(Msgs)]
    /\ \A s \in Subs : Len(queue[s]) <= Limit
    /\ blocked \in [Subs -> SUBSET Msgs]
    /\ handled \in [Msgs -> SUBSET Subs]

PublishesType ==
    /\ pc \in [Msgs -> {"new", "sending", "sent", "refused"}]
    /\ snapshot \in [Msgs -> Seq(Subs)]
    /\ todo \in [Msgs -> SUBSET Groups]
    /\ tried \in [Msgs -> SUBSET Subs]

ControlType ==
    /\ connected \in BOOLEAN
    /\ registered \in Seq(Subs)
    /\ reader \in [Subs -> {"none", "checked", "idle", "busy", "gone"}]
    /\ exit \in [Subs -> BOOLEAN]

LEMMA TypeParts == TypeOK <=> ControlType /\ QueuesType /\ PublishesType
BY DEF TypeOK, ControlType, QueuesType, PublishesType

LEMMA ControlTypeStep ==
    ASSUME ControlType, [Next]_vars
    PROVE  ControlType'
<1> USE DEF ControlType, publishes, subscribers
<1>1. CASE Connect
    BY <1>1 DEF Connect
<1>2. CASE Disconnect
    <2>1. exit' \in [Subs -> BOOLEAN]
        BY <1>2 DEF Disconnect
    <2> QED BY <1>2, <2>1 DEF Disconnect
<1>3. ASSUME NEW s \in Subs, SubscribeChecks(s) PROVE ControlType'
    BY <1>3 DEF SubscribeChecks
<1>4. ASSUME NEW s \in Subs, SubscribeRegisters(s) PROVE ControlType'
    <2>1. registered' \in Seq(Subs)
        BY <1>4, AppendElements DEF SubscribeRegisters
    <2> QED BY <1>4, <2>1 DEF SubscribeRegisters
<1>5. ASSUME NEW s \in Subs, Unsubscribe(s) PROVE ControlType'
    BY <1>5 DEF Unsubscribe
<1>6. ASSUME NEW s \in Subs, HandlerReturns(s) \/ ReaderExits(s) \/ Read(s) PROVE ControlType'
    BY <1>6 DEF HandlerReturns, ReaderExits, Read
<1>7. ASSUME NEW s \in Subs, NEW m \in Msgs, Unblock(s, m) PROVE ControlType'
    BY <1>7 DEF Unblock
<1>8. ASSUME NEW m \in Msgs, PublishStart(m) \/ PublishEnd(m) PROVE ControlType'
    BY <1>8 DEF PublishStart, PublishEnd
<1>9. ASSUME NEW m \in Msgs, NEW g \in Groups, Offer(m, g) \/ Spill(m, g) PROVE ControlType'
    BY <1>9 DEF Offer, Spill
<1>10. CASE UNCHANGED vars
    BY <1>10 DEF vars
<1> QED BY <1>1, <1>2, <1>3, <1>4, <1>5, <1>6, <1>7, <1>8, <1>9, <1>10, NextCases
        DEF ControlStep

LEMMA ServesType ==
    ASSUME PublishesType, NEW m \in Msgs, NEW g, Serves(m, g)
    PROVE  todo' \in [Msgs -> SUBSET Groups] /\ tried' \in [Msgs -> SUBSET Subs]
BY DEF PublishesType, Serves

\* Every state the broker reaches is well typed and no queue exceeds its limit,
\* however many publishes, readers and waiting goroutines use it at once.
THEOREM TypeCorrect == Spec => []TypeOK
<1>1. Init => TypeOK
    <2> SUFFICES ASSUME Init PROVE TypeOK
        OBVIOUS
    <2>1. <<>> \in Seq(Subs) /\ <<>> \in Seq(Msgs) /\ Len(<<>>) = 0
        OBVIOUS
    <2> QED BY <2>1 DEF Init, TypeOK
<1>2. TypeOK /\ [Next]_vars => TypeOK'
    <2> SUFFICES ASSUME TypeOK, [Next]_vars PROVE QueuesType' /\ PublishesType'
        BY ControlTypeStep DEF TypeOK, ControlType, QueuesType, PublishesType
    <2>0. ControlType /\ QueuesType /\ PublishesType
        BY TypeParts
    <2>1. CASE ControlStep \/ UNCHANGED vars
        BY <2>0, <2>1, ControlKeeps DEF QueuesType, PublishesType, publishes, vars
    <2>2. ASSUME NEW s \in Subs, Read(s) PROVE QueuesType' /\ PublishesType'
        <3>1. /\ Head(queue[s]) \in Msgs /\ Tail(queue[s]) \in Seq(Msgs)
              /\ Len(Tail(queue[s])) <= Limit
            BY <2>0, <2>2, HeadTailProperties, EmptySeq DEF Read, QueuesType
        <3>2. PublishesType'
            BY <2>0, <2>2 DEF Read, publishes, PublishesType
        <3> QED BY <2>0, <2>2, <3>1, <3>2 DEF Read, TakeAndHandle, QueuesType
    <2>3. ASSUME NEW s \in Subs, NEW m \in Msgs, Unblock(s, m) PROVE QueuesType' /\ PublishesType'
        <3>1. Append(queue[s], m) \in Seq(Msgs) /\ Len(Append(queue[s], m)) <= Limit
            BY <2>0, <2>3, AppendProperties DEF Unblock, HasRoom, QueuesType
        <3>2. PublishesType'
            BY <2>0, <2>3 DEF Unblock, publishes, PublishesType
        <3> QED BY <2>0, <2>3, <3>1, <3>2 DEF Unblock, QueuesType
    <2>4. ASSUME NEW m \in Msgs, PublishStart(m) PROVE QueuesType' /\ PublishesType'
        <3>1. UNCHANGED <<queue, blocked, handled, tried>>
            BY <2>4 DEF PublishStart
        <3>2. registered \in Seq(Subs) /\ {GroupOf[s] : s \in Elements(registered)} \subseteq Groups
            BY <2>0, ElementsElems, ElemsOf DEF ControlType, Groups
        <3>3. CASE pc' = [pc EXCEPT ![m] = "refused"] /\ UNCHANGED <<snapshot, todo>>
            BY <2>0, <3>1, <3>3 DEF QueuesType, PublishesType
        <3>4. CASE /\ pc' = [pc EXCEPT ![m] = "sending"]
                   /\ snapshot' = [snapshot EXCEPT ![m] = registered]
                   /\ todo' = [todo EXCEPT ![m] = {GroupOf[s] : s \in Elements(registered)}]
            <4> DEFINE G == {GroupOf[s] : s \in Elements(registered)}
            <4>1. todo' = [todo EXCEPT ![m] = G] /\ G \subseteq Groups
                BY <3>2, <3>4
            <4> HIDE DEF G
            <4> QED BY <2>0, <3>1, <3>2, <3>4, <4>1 DEF QueuesType, PublishesType
        <3> QED BY <2>4, <3>3, <3>4, StartCases
    <2>5. ASSUME NEW m \in Msgs, PublishEnd(m) PROVE QueuesType' /\ PublishesType'
        BY <2>0, <2>5 DEF PublishEnd, QueuesType, PublishesType
    <2>6. ASSUME NEW m \in Msgs, NEW g \in Groups, Offer(m, g) PROVE QueuesType' /\ PublishesType'
        <3>1. UNCHANGED <<blocked, pc, snapshot, handled>>
            BY <2>6 DEF Offer
        <3>2. PICK s \in Subs : \/ /\ Len(queue[s]) < Limit
                                   /\ queue' = [queue EXCEPT ![s] = Append(@, m)]
                                   /\ Serves(m, g)
                                \/ /\ UNCHANGED <<queue, todo>>
                                   /\ tried' = [tried EXCEPT ![m] = @ \cup {s}]
            BY <2>6, OfferCases
        <3>3. CASE /\ Len(queue[s]) < Limit
                   /\ queue' = [queue EXCEPT ![s] = Append(@, m)]
                   /\ Serves(m, g)
            <4>1. Append(queue[s], m) \in Seq(Msgs) /\ Len(Append(queue[s], m)) <= Limit
                BY <2>0, <3>3, AppendProperties DEF QueuesType
            <4>2. PublishesType'
                BY <2>0, <3>1, <3>3, ServesType DEF PublishesType
            <4> QED BY <2>0, <3>1, <3>3, <4>1, <4>2 DEF QueuesType
        <3>4. CASE UNCHANGED <<queue, todo>> /\ tried' = [tried EXCEPT ![m] = @ \cup {s}]
            BY <2>0, <3>1, <3>4 DEF QueuesType, PublishesType
        <3> QED BY <3>2, <3>3, <3>4
    <2>7. ASSUME NEW m \in Msgs, NEW g \in Groups, Spill(m, g) PROVE QueuesType' /\ PublishesType'
        <3>1. UNCHANGED <<queue, pc, snapshot, handled>> /\ Serves(m, g)
            BY <2>7 DEF Spill, NextGroup, Serves
        <3>2. PublishesType'
            BY <2>0, <3>1, ServesType DEF PublishesType
        <3>3. blocked' \in [Subs -> SUBSET Msgs]
            BY <2>0, <2>7 DEF Spill, QueuesType
        <3> QED BY <2>0, <3>1, <3>2, <3>3 DEF QueuesType
    <2> QED BY <2>1, <2>2, <2>3, <2>4, <2>5, <2>6, <2>7, NextCases
<1> QED BY <1>1, <1>2, PTL DEF Spec

-----------------------------------------------------------------------------
(* Groups still to be served have got nothing of the message; of the others,  *)
(* one member has, in one place.                                             *)

NewIsClean == \A m \in Msgs : pc[m] = "new" => todo[m] = {}

Unserved ==
    \A m \in Msgs, s \in Subs : HasGot(s, m) => pc[m] # "new" /\ GroupOf[s] \notin todo[m]

OneMember ==
    \A m \in Msgs : \A s, t \in Subs :
        HasGot(s, m) /\ HasGot(t, m) /\ GroupOf[s] = GroupOf[t] => s = t

GroupInv == NewIsClean /\ TodoHasMembers /\ Unserved /\ OneMember

OnePlace ==
    /\ \A s \in Subs : Distinct(queue[s])
    /\ \A s \in Subs, m \in Msgs :
          /\ m \in blocked[s] => m \notin Elems(queue[s]) /\ s \notin handled[m]
          /\ m \in Elems(queue[s]) => s \notin handled[m]

\* Nobody gets a message, and no Publish moves on.
LEMMA NobodyGets ==
    ASSUME GroupInv, UNCHANGED <<pc, snapshot, todo>>,
           \A s \in Subs, m \in Msgs : HasGot(s, m)' => HasGot(s, m)
    PROVE  GroupInv'
<1>1. NewIsClean' /\ TodoHasMembers'
    BY DEF GroupInv, NewIsClean, TodoHasMembers, Members, Elements
<1> HIDE DEF HasGot
<1>2. Unserved' /\ OneMember'
    BY DEF GroupInv, Unserved, OneMember
<1> QED BY <1>1, <1>2 DEF GroupInv

\* One member of a group in turn gets it, and the group has been served.
LEMMA OneGets ==
    ASSUME PublishesType, GroupInv, NEW m \in Msgs, NEW s \in Subs, GroupOf[s] \in todo[m],
           todo' = [todo EXCEPT ![m] = @ \ {GroupOf[s]}], UNCHANGED <<pc, snapshot>>,
           \A t \in Subs, n \in Msgs : HasGot(t, n)' => HasGot(t, n) \/ (t = s /\ n = m)
    PROVE  GroupInv'
<1> HIDE DEF HasGot
<1>0. /\ \A n \in Msgs : todo'[n] \subseteq todo[n]
      /\ todo'[m] = todo[m] \ {GroupOf[s]}
    BY DEF PublishesType
<1>1. NewIsClean' /\ TodoHasMembers'
    BY <1>0 DEF GroupInv, NewIsClean, TodoHasMembers, Members, Elements
<1>2. pc[m] # "new" /\ \A t \in Subs : GroupOf[t] = GroupOf[s] => ~HasGot(t, m)
    BY DEF GroupInv, NewIsClean, Unserved
<1>3. Unserved'
    BY <1>0, <1>2 DEF GroupInv, Unserved
<1>4. OneMember'
    BY <1>2 DEF GroupInv, OneMember
<1> QED BY <1>1, <1>3, <1>4 DEF GroupInv

LEMMA GotBy == \A s, m : HasGot(s, m) <=> \/ m \in Elems(queue[s])
                                          \/ m \in blocked[s]
                                          \/ s \in handled[m]
BY ElementsElems DEF HasGot

LEMMA StartStep ==
    ASSUME TypeOK, GroupInv, NEW m \in Msgs, PublishStart(m)
    PROVE  GroupInv'
<1>0. PublishesType /\ registered \in Seq(Subs)
    BY TypeParts DEF ControlType
<1>1. UNCHANGED <<queue, blocked, handled>> /\ pc[m] = "new" /\ todo[m] = {}
    BY DEF PublishStart, GroupInv, NewIsClean
<1>2. \A t \in Subs, n \in Msgs : HasGot(t, n)' <=> HasGot(t, n)
    BY <1>1 DEF HasGot
<1>3. \A t \in Subs : ~HasGot(t, m)
    BY <1>1 DEF GroupInv, Unserved
<1>4. /\ pc'[m] # "new"
      /\ \A n \in Msgs \ {m} : pc'[n] = pc[n] /\ snapshot'[n] = snapshot[n] /\ todo'[n] = todo[n]
    BY <1>0, StartCases DEF PublishesType
<1>5. \A g \in todo'[m] : \E s \in Elements(snapshot'[m]) : GroupOf[s] = g
    <2>1. CASE UNCHANGED <<snapshot, todo>>
        BY <1>1, <2>1
    <2>2. CASE /\ snapshot' = [snapshot EXCEPT ![m] = registered]
               /\ todo' = [todo EXCEPT ![m] = {GroupOf[s] : s \in Elements(registered)}]
        <3>1. snapshot'[m] = registered /\ todo'[m] = {GroupOf[s] : s \in Elements(registered)}
            BY <1>0, <2>2 DEF PublishesType
        <3> QED BY <3>1
    <2> QED BY <2>1, <2>2, StartCases
<1>6. NewIsClean'
    BY <1>4 DEF GroupInv, NewIsClean
<1>7. TodoHasMembers'
    <2> SUFFICES ASSUME NEW n \in Msgs, NEW g \in todo'[n] PROVE Members(n, g)' # {}
        BY DEF TodoHasMembers
    <2>1. CASE n = m
        BY <1>5, <2>1 DEF Members, Elements
    <2>2. CASE n # m
        BY <1>4, <2>2 DEF GroupInv, TodoHasMembers, Members, Elements
    <2> QED BY <2>1, <2>2
<1> HIDE DEF HasGot
<1>8. Unserved' /\ OneMember'
    BY <1>2, <1>3, <1>4 DEF GroupInv, Unserved, OneMember
<1> QED BY <1>6, <1>7, <1>8 DEF GroupInv

THEOREM GroupInvariant == Spec => [](GroupInv /\ OnePlace)
<1> DEFINE Inv == GroupInv /\ OnePlace
<1>1. Init => Inv
    <2> SUFFICES ASSUME Init PROVE Inv
        OBVIOUS
    <2>1. /\ queue = [s \in Subs |-> <<>>] /\ blocked = [s \in Subs |-> {}]
          /\ pc = [m \in Msgs |-> "new"] /\ todo = [m \in Msgs |-> {}]
          /\ handled = [m \in Msgs |-> {}]
        BY DEF Init
    <2>2. \A s \in Subs, m \in Msgs : ~HasGot(s, m)
        BY <2>1, EmptyElements, GotBy
    <2>3. GroupInv
        BY <2>1, <2>2 DEF GroupInv, NewIsClean, TodoHasMembers, Unserved, OneMember
    <2>4. OnePlace
        BY <2>1, EmptyElements DEF OnePlace
    <2> QED BY <2>3, <2>4
<1>2. TypeOK /\ Inv /\ [Next]_vars => Inv'
    <2> SUFFICES ASSUME TypeOK, GroupInv, OnePlace, [Next]_vars PROVE GroupInv' /\ OnePlace'
        OBVIOUS
    <2>0. QueuesType /\ PublishesType
        BY TypeParts
    <2>1. CASE ControlStep \/ UNCHANGED vars
        <3>1. UNCHANGED <<queue, blocked, publishes, handled>>
            BY <2>1, ControlKeeps DEF vars, publishes
        <3>2. GroupInv'
            BY <3>1, NobodyGets DEF publishes, HasGot
        <3> QED BY <3>1, <3>2 DEF OnePlace
    <2>2. ASSUME NEW s \in Subs, Read(s) PROVE GroupInv' /\ OnePlace'
        <3> DEFINE m == Head(queue[s])
                   rest == Tail(queue[s])
        <3>1. /\ m \in Msgs /\ rest \in Seq(Msgs)
              /\ Elems(queue[s]) = {m} \cup Elems(rest)
              /\ Distinct(rest) /\ m \notin Elems(rest)
            BY <2>0, <2>2, TailElements DEF Read, QueuesType, OnePlace
        <3>2. /\ queue' = [queue EXCEPT ![s] = rest]
              /\ handled' = [handled EXCEPT ![m] = @ \cup {s}]
              /\ UNCHANGED <<blocked, pc, snapshot, todo>>
            BY <2>2 DEF Read, TakeAndHandle, publishes
        <3> HIDE DEF m, rest
        <3>3. /\ queue'[s] = rest /\ \A t \in Subs \ {s} : queue'[t] = queue[t]
              /\ handled'[m] = handled[m] \cup {s} /\ \A n \in Msgs \ {m} : handled'[n] = handled[n]
            BY <2>0, <3>1, <3>2 DEF QueuesType
        <3>4. ASSUME NEW t \in Subs, NEW n \in Msgs, HasGot(t, n)' PROVE HasGot(t, n)
            <4>1. n \in Elems(queue'[t]) \/ n \in blocked'[t] \/ t \in handled'[n]
                BY <3>4, ElementsElems DEF HasGot
            <4>2. n \in Elems(queue[t]) \/ n \in blocked[t] \/ t \in handled[n]
                BY <3>1, <3>2, <3>3, <4>1
            <4> QED BY <4>2, GotBy
        <3>5. GroupInv'
            BY <3>2, <3>4, NobodyGets
        <3>6. OnePlace'
            BY <3>1, <3>2, <3>3 DEF OnePlace
        <3> QED BY <3>5, <3>6
    <2>3. ASSUME NEW s \in Subs, NEW m \in Msgs, Unblock(s, m) PROVE GroupInv' /\ OnePlace'
        <3> DEFINE longer == Append(queue[s], m)
        <3>1. m \in blocked[s] /\ m \notin Elems(queue[s]) /\ s \notin handled[m]
            BY <2>3 DEF Unblock, OnePlace
        <3>2. /\ Elems(longer) = Elems(queue[s]) \cup {m} /\ Distinct(longer)
            BY <2>0, <3>1, AppendElements DEF QueuesType, OnePlace
        <3>3. /\ queue' = [queue EXCEPT ![s] = longer]
              /\ blocked' = [blocked EXCEPT ![s] = @ \ {m}]
              /\ UNCHANGED <<handled, pc, snapshot, todo>>
            BY <2>3 DEF Unblock, publishes
        <3> HIDE DEF longer
        <3>4. /\ queue'[s] = longer /\ \A t \in Subs \ {s} : queue'[t] = queue[t]
              /\ blocked'[s] = blocked[s] \ {m}
              /\ \A t \in Subs \ {s} : blocked'[t] = blocked[t]
            BY <2>0, <3>3 DEF QueuesType
        <3>5. ASSUME NEW t \in Subs, NEW n \in Msgs, HasGot(t, n)' PROVE HasGot(t, n)
            <4>1. n \in Elems(queue'[t]) \/ n \in blocked'[t] \/ t \in handled'[n]
                BY <3>5, ElementsElems DEF HasGot
            <4>2. n \in Elems(queue[t]) \/ n \in blocked[t] \/ t \in handled[n]
                BY <3>1, <3>2, <3>3, <3>4, <4>1
            <4> QED BY <4>2, GotBy
        <3>6. GroupInv'
            BY <3>3, <3>5, NobodyGets
        <3>7. OnePlace'
            BY <3>1, <3>2, <3>3, <3>4 DEF OnePlace
        <3> QED BY <3>6, <3>7
    <2>4. ASSUME NEW m \in Msgs, PublishStart(m) PROVE GroupInv' /\ OnePlace'
        BY <2>4, StartStep DEF PublishStart, OnePlace
    <2>5. ASSUME NEW m \in Msgs, PublishEnd(m) PROVE GroupInv' /\ OnePlace'
        <3>1. UNCHANGED <<queue, blocked, handled, snapshot, todo>>
            BY <2>5 DEF PublishEnd
        <3>2. /\ pc'[m] # "new" /\ \A n \in Msgs \ {m} : pc'[n] = pc[n]
            BY <2>0, <2>5 DEF PublishEnd, PublishesType
        <3>3. \A t \in Subs, n \in Msgs : HasGot(t, n)' <=> HasGot(t, n)
            BY <3>1 DEF HasGot
        <3>4. NewIsClean' /\ TodoHasMembers'
            BY <3>1, <3>2 DEF GroupInv, NewIsClean, TodoHasMembers, Members, Elements
        <3>5. Unserved' /\ OneMember'
            <4> HIDE DEF HasGot
            <4> QED BY <3>1, <3>2, <3>3 DEF GroupInv, Unserved, OneMember
        <3>6. OnePlace'
            BY <3>1 DEF OnePlace
        <3> QED BY <3>4, <3>5, <3>6 DEF GroupInv
    <2>6. ASSUME NEW m \in Msgs, NEW g \in Groups, Offer(m, g) PROVE GroupInv' /\ OnePlace'
        <3>1. UNCHANGED <<blocked, pc, snapshot, handled>>
            BY <2>6 DEF Offer
        <3>2. PICK s \in Subs : /\ GroupOf[s] = g /\ g \in todo[m]
                                /\ \/ /\ queue' = [queue EXCEPT ![s] = Append(@, m)]
                                      /\ Serves(m, g)
                                   \/ UNCHANGED <<queue, todo>>
            BY <2>6, OfferCases
        <3>3. CASE queue' = [queue EXCEPT ![s] = Append(@, m)] /\ Serves(m, g)
            <4> DEFINE longer == Append(queue[s], m)
            <4>1. m \notin Elems(queue[s]) /\ m \notin blocked[s] /\ s \notin handled[m]
                BY <3>2, GotBy DEF GroupInv, Unserved
            <4>2. Elems(longer) = Elems(queue[s]) \cup {m} /\ Distinct(longer)
                BY <2>0, <4>1, AppendElements DEF QueuesType, OnePlace
            <4>3. queue' = [queue EXCEPT ![s] = longer]
                BY <3>3
            <4> HIDE DEF longer
            <4>4. queue'[s] = longer /\ \A t \in Subs \ {s} : queue'[t] = queue[t]
                BY <2>0, <4>3 DEF QueuesType
            <4>5. ASSUME NEW t \in Subs, NEW n \in Msgs, HasGot(t, n)'
                  PROVE  HasGot(t, n) \/ (t = s /\ n = m)
                <5>1. n \in Elems(queue'[t]) \/ n \in blocked'[t] \/ t \in handled'[n]
                    BY <4>5, ElementsElems DEF HasGot
                <5>2. \/ n \in Elems(queue[t]) \/ n \in blocked[t] \/ t \in handled[n]
                      \/ t = s /\ n = m
                    BY <3>1, <4>2, <4>4, <5>1
                <5> QED BY <5>2, GotBy
            <4>6. GroupInv'
                BY <2>0, <3>1, <3>2, <3>3, <4>5, OneGets DEF Serves
            <4>7. OnePlace'
                BY <3>1, <4>1, <4>2, <4>4 DEF OnePlace
            <4> QED BY <4>6, <4>7
        <3>4. CASE UNCHANGED <<queue, todo>>
            <4>1. GroupInv'
                BY <3>1, <3>4, NobodyGets DEF HasGot
            <4> QED BY <3>1, <3>4, <4>1 DEF OnePlace
        <3> QED BY <3>2, <3>3, <3>4
    <2>7. ASSUME NEW m \in Msgs, NEW g \in Groups, Spill(m, g) PROVE GroupInv' /\ OnePlace'
        <3>1. UNCHANGED <<queue, pc, snapshot, handled>>
            BY <2>7 DEF Spill
        <3>2. PICK s \in Subs : /\ GroupOf[s] = g /\ g \in todo[m]
                                /\ blocked' = [blocked EXCEPT ![s] = @ \cup {m}]
                                /\ Serves(m, g)
            BY <2>7, SpillCases DEF GroupInv
        <3>3. m \notin Elems(queue[s]) /\ s \notin handled[m]
            BY <3>2, GotBy DEF GroupInv, Unserved
        <3>4. /\ blocked'[s] = blocked[s] \cup {m}
              /\ \A t \in Subs \ {s} : blocked'[t] = blocked[t]
            BY <2>0, <3>2 DEF QueuesType
        <3>5. ASSUME NEW t \in Subs, NEW n \in Msgs, HasGot(t, n)'
              PROVE  HasGot(t, n) \/ (t = s /\ n = m)
            BY <3>1, <3>4, <3>5 DEF HasGot
        <3>6. GroupInv'
            BY <2>0, <3>1, <3>2, <3>5, OneGets DEF Serves
        <3>7. OnePlace'
            BY <3>1, <3>3, <3>4 DEF OnePlace
        <3> QED BY <3>6, <3>7
    <2> QED BY <2>1, <2>2, <2>3, <2>4, <2>5, <2>6, <2>7, NextCases
<1> QED BY <1>1, <1>2, TypeCorrect, PTL DEF Spec

\* "a shared subscription where each receives a subset of messages": no message
\* reaches two members of a group, whatever room their queues had and whatever
\* waits for room, and none gets it twice.
THEOREM SharedSubscription == Spec => []OncePerGroup
<1>1. TypeOK /\ GroupInv /\ OnePlace => OncePerGroup
    <2> SUFFICES ASSUME TypeOK, GroupInv, OnePlace PROVE OncePerGroup
        OBVIOUS
    <2>1. ASSUME NEW m \in Msgs, NEW s \in Subs, NEW t \in Subs, s # t, GroupOf[s] = GroupOf[t]
          PROVE  ~(HasGot(s, m) /\ HasGot(t, m))
        BY <2>1 DEF GroupInv, OneMember
    <2>2. ASSUME NEW s \in Subs
          PROVE  /\ Cardinality(Elements(queue[s])) = Len(queue[s])
                 /\ \A m \in blocked[s] : m \notin Elements(queue[s])
                 /\ \A m \in Elements(queue[s]) \cup blocked[s] : s \notin handled[m]
        <3>1. queue[s] \in Seq(Msgs) /\ Elems(queue[s]) \subseteq Msgs /\ blocked[s] \subseteq Msgs
            BY ElemsOf DEF TypeOK
        <3>2. Cardinality(Elems(queue[s])) = Len(queue[s])
            BY <3>1, DistinctLength DEF OnePlace
        <3> QED BY <3>1, <3>2, ElementsElems DEF OnePlace
    <2> QED BY <2>1, <2>2 DEF OncePerGroup
<1> QED BY <1>1, TypeCorrect, GroupInvariant, PTL
=============================================================================
