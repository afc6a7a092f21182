------------------------ MODULE RedisDelivery_proofs ------------------------
(* Theorems about RedisDelivery, for every value of its constants.           *)
EXTENDS RedisDelivery, TLAPS

(* Every step of the specification, one disjunct per action.                 *)
Cases(w) ==
    \/ Subscribe(w) \/ SubscribeFails(w) \/ Check(w)
    \/ Claim(w) \/ ClaimReplyLost(w) \/ ClaimFails(w)
    \/ Read(w) \/ ReadReplyLost(w) \/ StartBlocking(w) \/ ReadTimeout(w)
    \/ ReadFails(w) \/ PauseEnds(w)
    \/ NextMessage(w) \/ EndBatch(w)
    \/ Ack(w) \/ AckReplyLost(w) \/ AckFails(w)
    \/ Stop(w) \/ Crash(w)
    \/ \E id \in Ids : \/ HandlerOk(w, id) \/ HandlerFails(w, id)
                       \/ Process(w, id) \/ Abandon(w, id) \/ ManualAck(w, id)

LEMMA NextCases ==
    ASSUME Next PROVE Publish \/ Tick \/ \E w \in Workers : Cases(w)
BY DEF Next, Cases, LoopStep, FaultStep, AppStep, HandlerReturns

USE ConnectValidates, Parameters DEF ConnectValidates, Parameters, Ids

LEMMA TypeInit == Init => TypeOK
<1> SUFFICES ASSUME Init PROVE TypeOK
    OBVIOUS
<1>1. TypeRedis
    <2>1. published \in 0..MaxMsgs /\ lastDelivered \in 0..published
        BY DEF Init
    <2>2. groupExists \in BOOLEAN /\ pending \subseteq 1..lastDelivered
        BY DEF Init
    <2>3. idle \in [Ids -> 0..MinIdle]
        BY DEF Init
    <2> QED BY <2>1, <2>2, <2>3 DEF TypeRedis
<1>2. TypeLoop
    BY DEF Init, TypeLoop, Places
<1>3. TypeApp
    BY DEF Init, TypeApp
<1> QED BY <1>1, <1>2, <1>3 DEF TypeOK

\* A read moves the group forward over exactly the fresh entries.
LEMMA ReadMoves ==
    ASSUME TypeOK, RecordRead
    PROVE  /\ lastDelivered' \in lastDelivered..published
           /\ Fresh \subseteq Ids
           /\ \A id \in Ids : id \in Fresh <=> id > lastDelivered /\ id <= lastDelivered'
<1> USE DEF TypeOK, TypeRedis
<1>1. lastDelivered' \in lastDelivered..published /\ Fresh \subseteq Ids
    <2>1. lastDelivered' \in Fresh
        BY DEF RecordRead
    <2> QED BY <2>1 DEF Fresh
<1>2. ASSUME NEW id \in Ids, id > lastDelivered, id <= lastDelivered' PROVE id \in Fresh
    <2>1. lastDelivered' \in Fresh
        BY DEF RecordRead
    <2> QED BY <2>1, <1>2 DEF Fresh
<1>3. ASSUME NEW id \in Fresh PROVE id > lastDelivered /\ id <= lastDelivered'
    <2>1. id <= lastDelivered'
        BY DEF RecordRead
    <2>2. id > lastDelivered
        BY DEF Fresh
    <2> QED BY <2>1, <2>2
<1> QED BY <1>1, <1>2, <1>3

LEMMA ReadTypeRedis ==
    ASSUME TypeOK, RecordRead PROVE TypeRedis'
<1>1. lastDelivered' \in 0..published' /\ published' \in 0..MaxMsgs
    BY ReadMoves DEF TypeOK, TypeRedis, RecordRead
<1>2. ASSUME NEW id \in pending' PROVE id \in 1..lastDelivered'
    <2>1. CASE id \in Fresh
        BY <2>1, ReadMoves
    <2>2. CASE id \in pending
        BY <2>2, ReadMoves DEF TypeOK, TypeRedis
    <2> QED BY <1>2, <2>1, <2>2 DEF RecordRead
<1>3. idle' \in [Ids -> 0..MinIdle] /\ groupExists' \in BOOLEAN
    BY DEF TypeOK, TypeRedis, RecordRead
<1> QED BY <1>1, <1>2, <1>3 DEF TypeRedis

LEMMA PendingIds == TypeOK => pending \subseteq Ids
BY DEF TypeOK, TypeRedis

LEMMA TypeRedisStep == TypeOK /\ [Next]_vars => TypeRedis'
<1> SUFFICES ASSUME TypeOK, [Next]_vars PROVE TypeRedis'
    OBVIOUS
<1> USE DEF TypeOK, TypeRedis, TypeLoop, TypeApp, Places, Handling,
            Goto, Fault, Error, redis, loop, app
<1>1. CASE UNCHANGED vars
    BY <1>1 DEF vars
<1>2. CASE Publish
    BY <1>2 DEF Publish
<1>3. CASE Tick
    BY <1>3 DEF Tick
<1>4. ASSUME NEW w \in Workers, Cases(w) PROVE TypeRedis'
    <2>1. CASE Subscribe(w)
        BY <2>1 DEF Subscribe, GroupCreate
    <2>2. CASE SubscribeFails(w)
        BY <2>2 DEF SubscribeFails, GroupCreate
    <2>3. CASE Check(w)
        BY <2>3 DEF Check
    <2>4. CASE Claim(w)
        BY <2>4 DEF Claim, RecordClaim, Claimed, Scanned, MoveCursor
    <2>5. CASE ClaimReplyLost(w)
        BY <2>5 DEF ClaimReplyLost, RecordClaim
    <2>6. CASE ClaimFails(w)
        BY <2>6 DEF ClaimFails
    <2>7. CASE Read(w)
        BY <2>7, ReadTypeRedis DEF Read
    <2>8. CASE ReadReplyLost(w)
        BY <2>8, ReadTypeRedis DEF ReadReplyLost
    <2>9. CASE StartBlocking(w)
        BY <2>9 DEF StartBlocking
    <2>10. CASE ReadTimeout(w)
        BY <2>10 DEF ReadTimeout
    <2>11. CASE ReadFails(w)
        BY <2>11 DEF ReadFails
    <2>12. CASE PauseEnds(w)
        BY <2>12 DEF PauseEnds
    <2>13. CASE NextMessage(w)
        BY <2>13 DEF NextMessage
    <2>14. CASE EndBatch(w)
        BY <2>14 DEF EndBatch
    <2>15. CASE Ack(w)
        BY <2>15 DEF Ack, RecordAck, Advance
    <2>16. CASE AckReplyLost(w)
        BY <2>16 DEF AckReplyLost, RecordAck
    <2>17. CASE AckFails(w)
        BY <2>17 DEF AckFails, Advance
    <2>18. CASE Stop(w)
        BY <2>18 DEF Stop
    <2>19. CASE Crash(w)
        BY <2>19 DEF Crash
    <2>20. ASSUME NEW id \in Ids, HandlerOk(w, id) PROVE TypeRedis'
        BY <2>20 DEF HandlerOk, Advance
    <2>21. ASSUME NEW id \in Ids, HandlerFails(w, id) PROVE TypeRedis'
        BY <2>21 DEF HandlerFails, Failed, Advance
    <2>22. ASSUME NEW id \in Ids, Process(w, id) PROVE TypeRedis'
        BY <2>22 DEF Process
    <2>23. ASSUME NEW id \in Ids, Abandon(w, id) PROVE TypeRedis'
        BY <2>23 DEF Abandon
    <2>24. ASSUME NEW id \in Ids, ManualAck(w, id) PROVE TypeRedis'
        BY <2>24 DEF ManualAck, RecordAck
    <2> QED BY <1>4, <2>1, <2>2, <2>3, <2>4, <2>5, <2>6, <2>7, <2>8, <2>9, <2>10, <2>11, <2>12, <2>13, <2>14, <2>15, <2>16, <2>17, <2>18, <2>19, <2>20, <2>21, <2>22, <2>23, <2>24 DEF Cases
<1> QED BY <1>1, <1>2, <1>3, <1>4, NextCases

LEMMA TypeLoopStep == TypeOK /\ [Next]_vars => TypeLoop'
<1> SUFFICES ASSUME TypeOK, [Next]_vars PROVE TypeLoop'
    OBVIOUS
<1> USE DEF TypeOK, TypeRedis, TypeLoop, TypeApp, Places, Handling,
            Goto, Fault, Error, redis, loop, app, NewCommand, Resend
<1>0. ASSUME NEW w \in Workers, NEW id, Advance(w, id)
      PROVE  pc' \in [Workers -> Places] /\ batch' \in [Workers -> SUBSET Ids]
    BY <1>0 DEF Advance
<1>1. CASE UNCHANGED vars
    BY <1>1 DEF vars
<1>2. CASE Publish
    BY <1>2 DEF Publish
<1>3. CASE Tick
    BY <1>3 DEF Tick
<1>4. ASSUME NEW w \in Workers, Cases(w) PROVE TypeLoop'
    <2>1. CASE Subscribe(w)
        BY <2>1 DEF Subscribe, GroupCreate
    <2>2. CASE SubscribeFails(w)
        BY <2>2 DEF SubscribeFails, GroupCreate
    <2>3. CASE Check(w)
        BY <2>3 DEF Check
    <2>4. CASE Claim(w)
        <3>1. PICK next \in 0..MaxMsgs :
                /\ batch' = [batch EXCEPT ![w] = Claimed(w, next)]
                /\ MoveCursor(w, next)
            BY <2>4 DEF Claim
        <3>2. Claimed(w, next) \in SUBSET Ids
            BY PendingIds DEF Claimed, Scanned
        <3>3. pc' \in [Workers -> Places] /\ batch' \in [Workers -> SUBSET Ids]
            BY <2>4, <3>1, <3>2 DEF Claim
        <3>4. cursor' \in [Workers -> 0..MaxMsgs] /\ timer' \in [Workers -> Nat]
            BY <2>4, <3>1 DEF Claim, MoveCursor
        <3>5. resume' \in [Workers -> {"read", "loop"}] /\ resent' \in [Workers -> Nat]
            BY <2>4 DEF Claim
        <3> QED BY <2>4, <3>3, <3>4, <3>5 DEF Claim
    <2>5. CASE ClaimReplyLost(w)
        <3>1. timer' \in [Workers -> Nat] /\ resent' \in [Workers -> Nat]
            BY <2>5 DEF ClaimReplyLost
        <3> QED BY <2>5, <3>1 DEF ClaimReplyLost
    <2>6. CASE ClaimFails(w)
        BY <2>6 DEF ClaimFails
    <2>7. CASE Read(w)
        BY <2>7 DEF Read, RecordRead, Fresh
    <2>8. CASE ReadReplyLost(w)
        BY <2>8 DEF ReadReplyLost
    <2>9. CASE StartBlocking(w)
        BY <2>9 DEF StartBlocking
    <2>10. CASE ReadTimeout(w)
        BY <2>10 DEF ReadTimeout
    <2>11. CASE ReadFails(w)
        BY <2>11 DEF ReadFails
    <2>12. CASE PauseEnds(w)
        BY <2>12 DEF PauseEnds
    <2>13. CASE NextMessage(w)
        BY <2>13 DEF NextMessage
    <2>14. CASE EndBatch(w)
        BY <2>14 DEF EndBatch
    <2>15. CASE Ack(w)
        <3>1. /\ \E id : Advance(w, id)
              /\ UNCHANGED <<cursor, claimIn, timer, resent, resume, ctxDone>>
            BY <2>15, Zenon DEF Ack, app
        <3> QED BY <1>0, <3>1
    <2>16. CASE AckReplyLost(w)
        BY <2>16 DEF AckReplyLost, RecordAck
    <2>17. CASE AckFails(w)
        <3>1. /\ \E id : Advance(w, id)
              /\ UNCHANGED <<cursor, claimIn, timer, resent, resume, ctxDone>>
            BY <2>17, Zenon DEF AckFails, app
        <3> QED BY <1>0, <3>1
    <2>18. CASE Stop(w)
        BY <2>18 DEF Stop
    <2>19. CASE Crash(w)
        BY <2>19 DEF Crash
    <2>20. ASSUME NEW id \in Ids, HandlerOk(w, id) PROVE TypeLoop'
        <3>1. pc' \in [Workers -> Places] /\ batch' \in [Workers -> SUBSET Ids]
            <4>1. CASE w \in AutoAck
                BY <2>20, <4>1 DEF HandlerOk
            <4>2. CASE w \notin AutoAck
                <5>1. Advance(w, id)
                    BY <2>20, <4>2, Zenon DEF HandlerOk
                <5> QED BY <5>1 DEF Advance
            <4> QED BY <4>1, <4>2
        <3> QED BY <2>20, <3>1 DEF HandlerOk
    <2>21. ASSUME NEW id \in Ids, HandlerFails(w, id) PROVE TypeLoop'
        BY <2>21 DEF HandlerFails, Failed, Advance
    <2>22. ASSUME NEW id \in Ids, Process(w, id) PROVE TypeLoop'
        BY <2>22 DEF Process
    <2>23. ASSUME NEW id \in Ids, Abandon(w, id) PROVE TypeLoop'
        BY <2>23 DEF Abandon
    <2>24. ASSUME NEW id \in Ids, ManualAck(w, id) PROVE TypeLoop'
        BY <2>24 DEF ManualAck, RecordAck
    <2> QED BY <1>4, <2>1, <2>2, <2>3, <2>4, <2>5, <2>6, <2>7, <2>8, <2>9, <2>10, <2>11, <2>12, <2>13, <2>14, <2>15, <2>16, <2>17, <2>18, <2>19, <2>20, <2>21, <2>22, <2>23, <2>24 DEF Cases
<1> QED BY <1>1, <1>2, <1>3, <1>4, NextCases

LEMMA TypeAppStep == TypeOK /\ [Next]_vars => TypeApp'
<1> SUFFICES ASSUME TypeOK, [Next]_vars PROVE TypeApp'
    OBVIOUS
<1> USE DEF TypeOK, TypeRedis, TypeLoop, TypeApp, Places, Handling,
            Goto, Fault, Error, redis, loop, app
<1>0. ASSUME UNCHANGED <<held, finished, succeeded>>,
             faults' = faults \/ (faults < MaxFaults /\ faults' = faults + 1)
      PROVE  TypeApp'
    <2>1. faults' \in 0..MaxFaults
        BY <1>0
    <2> QED BY <1>0, <2>1
<1>1. CASE UNCHANGED vars
    BY <1>1 DEF vars
<1>2. CASE Publish
    BY <1>2 DEF Publish
<1>3. CASE Tick
    BY <1>3 DEF Tick
<1>4. ASSUME NEW w \in Workers, Cases(w) PROVE TypeApp'
    <2>1. CASE Subscribe(w)
        BY <2>1 DEF Subscribe, GroupCreate
    <2>2. CASE SubscribeFails(w)
        BY <2>2 DEF SubscribeFails, GroupCreate
    <2>3. CASE Check(w)
        BY <2>3 DEF Check
    <2>4. CASE Claim(w)
        BY <2>4 DEF Claim, RecordClaim, Claimed, Scanned, MoveCursor
    <2>5. CASE ClaimReplyLost(w)
        BY <2>5 DEF ClaimReplyLost, RecordClaim
    <2>6. CASE ClaimFails(w)
        <3>1. /\ UNCHANGED <<held, finished, succeeded>>
              /\ faults' = faults \/ (faults < MaxFaults /\ faults' = faults + 1)
            BY <2>6 DEF ClaimFails
        <3> QED BY <1>0, <3>1
    <2>7. CASE Read(w)
        BY <2>7 DEF Read, RecordRead, Fresh
    <2>8. CASE ReadReplyLost(w)
        <3>1. /\ UNCHANGED <<held, finished, succeeded>>
              /\ faults' = faults \/ (faults < MaxFaults /\ faults' = faults + 1)
            BY <2>8 DEF ReadReplyLost
        <3> QED BY <1>0, <3>1
    <2>9. CASE StartBlocking(w)
        BY <2>9 DEF StartBlocking
    <2>10. CASE ReadTimeout(w)
        BY <2>10 DEF ReadTimeout
    <2>11. CASE ReadFails(w)
        <3>1. /\ UNCHANGED <<held, finished, succeeded>>
              /\ faults' = faults \/ (faults < MaxFaults /\ faults' = faults + 1)
            BY <2>11 DEF ReadFails
        <3> QED BY <1>0, <3>1
    <2>12. CASE PauseEnds(w)
        BY <2>12 DEF PauseEnds
    <2>13. CASE NextMessage(w)
        <3>1. PICK id \in batch[w] :
                held' = IF w \in AutoAck THEN held ELSE [held EXCEPT ![w] = @ \cup {id}]
            BY <2>13, Zenon DEF NextMessage
        <3>2. id \in Ids
            OBVIOUS
        <3>3. held' \in [Workers -> SUBSET Ids]
            BY <3>1, <3>2
        <3> QED BY <2>13, <3>3 DEF NextMessage
    <2>14. CASE EndBatch(w)
        BY <2>14 DEF EndBatch
    <2>15. CASE Ack(w)
        BY <2>15 DEF Ack, RecordAck, Advance
    <2>16. CASE AckReplyLost(w)
        <3>1. /\ UNCHANGED <<held, finished, succeeded>>
              /\ faults' = faults \/ (faults < MaxFaults /\ faults' = faults + 1)
            BY <2>16 DEF AckReplyLost
        <3> QED BY <1>0, <3>1
    <2>17. CASE AckFails(w)
        <3>1. /\ UNCHANGED <<held, finished, succeeded>>
              /\ faults' = faults \/ (faults < MaxFaults /\ faults' = faults + 1)
            BY <2>17 DEF AckFails
        <3> QED BY <1>0, <3>1
    <2>18. CASE Stop(w)
        BY <2>18 DEF Stop
    <2>19. CASE Crash(w)
        BY <2>19 DEF Crash
    <2>20. ASSUME NEW id \in Ids, HandlerOk(w, id) PROVE TypeApp'
        BY <2>20 DEF HandlerOk, Advance
    <2>21. ASSUME NEW id \in Ids, HandlerFails(w, id) PROVE TypeApp'
        BY <2>21 DEF HandlerFails, Failed, Advance
    <2>22. ASSUME NEW id \in Ids, Process(w, id) PROVE TypeApp'
        BY <2>22 DEF Process
    <2>23. ASSUME NEW id \in Ids, Abandon(w, id) PROVE TypeApp'
        BY <2>23 DEF Abandon
    <2>24. ASSUME NEW id \in Ids, ManualAck(w, id) PROVE TypeApp'
        BY <2>24 DEF ManualAck, RecordAck
    <2> QED BY <1>4, <2>1, <2>2, <2>3, <2>4, <2>5, <2>6, <2>7, <2>8, <2>9, <2>10, <2>11, <2>12, <2>13, <2>14, <2>15, <2>16, <2>17, <2>18, <2>19, <2>20, <2>21, <2>22, <2>23, <2>24 DEF Cases
<1> QED BY <1>1, <1>2, <1>3, <1>4, NextCases

\* The state of Redis, of the loops and of the application is always well
\* typed, every pending entry has been delivered and every delivered one
\* published.
THEOREM TypeCorrect == Spec => []TypeOK
<1>1. TypeOK /\ [Next]_vars => TypeOK'
    BY TypeRedisStep, TypeLoopStep, TypeAppStep DEF TypeOK
<1> QED BY TypeInit, <1>1, PTL DEF Spec

-----------------------------------------------------------------------------
(* No loss, and the at-least-once contract.                                  *)

\* What a loop or the application has in hand was delivered by the group, and
\* an event is kept for a late ack only after its processing succeeded.
HandsOnlyDelivered ==
    \A w \in Workers :
        /\ batch[w] \subseteq 1..lastDelivered
        /\ held[w] \subseteq 1..lastDelivered
        /\ finished[w] \subseteq 1..lastDelivered
        /\ finished[w] \subseteq succeeded

\* The message whose XACK is under way has been handled.
AckedHandled ==
    \A w \in Workers : pc[w] = "ack" =>
        \A id \in batch[w] : IsFirst(w, id) => id \in succeeded

DeliveryInv == TypeOK /\ NoLoss /\ HandsOnlyDelivered /\ AckedHandled

\* A step of a worker as the contract sees it.
ReadStep == RecordRead /\ UNCHANGED succeeded
AckStep == \E id \in succeeded : RecordAck(id) /\ UNCHANGED succeeded
HandleStep ==
    /\ UNCHANGED <<published, lastDelivered, pending>>
    /\ \E id \in 1..lastDelivered : succeeded' = succeeded \cup {id}
StayStep == UNCHANGED <<published, lastDelivered, pending, succeeded>>
ContractStep == ReadStep \/ AckStep \/ HandleStep \/ StayStep

LEMMA WorkerSteps ==
    ASSUME DeliveryInv, NEW w \in Workers, Cases(w)
    PROVE  ContractStep
<1> USE DEF ContractStep, ReadStep, AckStep, HandleStep, StayStep, redis, app
<1>1. CASE Subscribe(w)
    BY <1>1 DEF Subscribe, GroupCreate
<1>2. CASE SubscribeFails(w)
    BY <1>2 DEF SubscribeFails, GroupCreate
<1>3. CASE Check(w)
    BY <1>3 DEF Check
<1>4. CASE Claim(w)
    BY <1>4 DEF Claim, RecordClaim
<1>5. CASE ClaimReplyLost(w)
    BY <1>5 DEF ClaimReplyLost, RecordClaim
<1>6. CASE ClaimFails(w)
    BY <1>6 DEF ClaimFails
<1>7. CASE Read(w)
    BY <1>7 DEF Read
<1>8. CASE ReadReplyLost(w)
    BY <1>8 DEF ReadReplyLost
<1>9. CASE StartBlocking(w)
    BY <1>9 DEF StartBlocking
<1>10. CASE ReadTimeout(w)
    BY <1>10 DEF ReadTimeout
<1>11. CASE ReadFails(w)
    BY <1>11 DEF ReadFails
<1>12. CASE PauseEnds(w)
    BY <1>12 DEF PauseEnds
<1>13. CASE NextMessage(w)
    BY <1>13 DEF NextMessage
<1>14. CASE EndBatch(w)
    BY <1>14 DEF EndBatch
<1>15. CASE Ack(w)
    BY <1>15 DEF Ack, AckedHandled, IsFirst, DeliveryInv
<1>16. CASE AckReplyLost(w)
    BY <1>16 DEF AckReplyLost, AckedHandled, IsFirst, DeliveryInv
<1>17. CASE AckFails(w)
    BY <1>17 DEF AckFails
<1>18. CASE Stop(w)
    BY <1>18 DEF Stop
<1>19. CASE Crash(w)
    BY <1>19 DEF Crash
<1>20. ASSUME NEW id \in Ids, HandlerOk(w, id) PROVE ContractStep
    BY <1>20 DEF HandlerOk, Advance, HandsOnlyDelivered, IsFirst, DeliveryInv
<1>21. ASSUME NEW id \in Ids, HandlerFails(w, id) PROVE ContractStep
    BY <1>21 DEF HandlerFails
<1>22. ASSUME NEW id \in Ids, Process(w, id) PROVE ContractStep
    BY <1>22 DEF Process, HandsOnlyDelivered, DeliveryInv
<1>23. ASSUME NEW id \in Ids, Abandon(w, id) PROVE ContractStep
    BY <1>23 DEF Abandon
<1>24. ASSUME NEW id \in Ids, ManualAck(w, id) PROVE ContractStep
    BY <1>24 DEF ManualAck, AckWhen, HandsOnlyDelivered, DeliveryInv
<1> QED BY <1>1, <1>2, <1>3, <1>4, <1>5, <1>6, <1>7, <1>8, <1>9, <1>10, <1>11, <1>12, <1>13, <1>14, <1>15, <1>16, <1>17, <1>18, <1>19, <1>20, <1>21, <1>22, <1>23, <1>24 DEF Cases
LEMMA OtherSteps ==
    ASSUME DeliveryInv, [Next]_vars
    PROVE  ContractStep \/ Publish
<1>1. CASE UNCHANGED vars
    BY <1>1 DEF vars, ContractStep, StayStep
<1>2. CASE Tick
    BY <1>2 DEF Tick, ContractStep, StayStep, app
<1> QED BY <1>1, <1>2, NextCases, WorkerSteps

LEMMA Growth ==
    ASSUME DeliveryInv, [Next]_vars
    PROVE  lastDelivered' >= lastDelivered /\ succeeded \subseteq succeeded'
<1> USE DEF DeliveryInv, TypeOK, TypeRedis
<1>1. CASE Publish
    BY <1>1 DEF Publish, app
<1>2. CASE ReadStep
    BY <1>2, ReadMoves DEF ReadStep
<1>3. CASE AckStep
    BY <1>3 DEF AckStep, RecordAck
<1>4. CASE HandleStep
    BY <1>4 DEF HandleStep
<1>5. CASE StayStep
    BY <1>5 DEF StayStep
<1> QED BY <1>1, <1>2, <1>3, <1>4, <1>5, OtherSteps DEF ContractStep

LEMMA NoLossStep ==
    ASSUME DeliveryInv, [Next]_vars
    PROVE  NoLoss'
<1> SUFFICES ASSUME NEW id \in 1..lastDelivered'
             PROVE  id \in pending' \/ id \in succeeded'
    BY DEF NoLoss
<1>1. id \in 1..lastDelivered => id \in pending \/ id \in succeeded
    BY DEF DeliveryInv, NoLoss
<1>2. CASE Publish
    BY <1>1, <1>2 DEF Publish, app
<1>3. CASE ReadStep
    <2>1. id \in Ids
        BY <1>3, ReadMoves DEF ReadStep, DeliveryInv, TypeOK, TypeRedis
    <2>2. CASE id > lastDelivered
        <3>1. id \in Fresh
            BY <1>3, <2>1, <2>2, ReadMoves DEF ReadStep, DeliveryInv
        <3> QED BY <3>1, <1>3 DEF ReadStep, RecordRead
    <2>3. CASE id <= lastDelivered
        BY <1>1, <1>3, <2>3 DEF ReadStep, RecordRead
    <2> QED BY <2>1, <2>2, <2>3 DEF DeliveryInv, TypeOK, TypeRedis
<1>4. CASE AckStep
    BY <1>1, <1>4 DEF AckStep, RecordAck
<1>5. CASE HandleStep
    BY <1>1, <1>5 DEF HandleStep
<1>6. CASE StayStep
    BY <1>1, <1>6 DEF StayStep
<1> QED BY <1>2, <1>3, <1>4, <1>5, <1>6, OtherSteps DEF ContractStep

\* How a step of worker w changes what worker v has in hand.
HandsMove(v) ==
    /\ batch'[v] \subseteq batch[v] \cup pending'
    /\ held'[v] \subseteq held[v] \cup batch[v]
    /\ finished'[v] \subseteq finished[v] \cup (held[v] \cap succeeded')

AckMove(v) ==
    pc'[v] = "ack" =>
        /\ batch'[v] = batch[v]
        /\ pc[v] = "ack" \/ \E id \in succeeded' : IsFirst(v, id)

LEMMA HandsMoves ==
    ASSUME TypeOK, NEW w \in Workers, NEW v \in Workers, Cases(w)
    PROVE  HandsMove(v)
<1> USE DEF HandsMove, TypeOK, TypeLoop, TypeApp, Places, Handling, redis, loop, app
<1>1. CASE Subscribe(w)
    BY <1>1 DEF Subscribe
<1>2. CASE SubscribeFails(w)
    BY <1>2 DEF SubscribeFails
<1>3. CASE Check(w)
    BY <1>3 DEF Check, Goto
<1>4. CASE Claim(w)
    BY <1>4 DEF Claim, RecordClaim, Claimed, Scanned, Goto
<1>5. CASE ClaimReplyLost(w)
    BY <1>5 DEF ClaimReplyLost
<1>6. CASE ClaimFails(w)
    BY <1>6 DEF ClaimFails, Goto
<1>7. CASE Read(w)
    BY <1>7 DEF Read, RecordRead, Goto
<1>8. CASE ReadReplyLost(w)
    BY <1>8 DEF ReadReplyLost
<1>9. CASE StartBlocking(w)
    BY <1>9 DEF StartBlocking, Goto
<1>10. CASE ReadTimeout(w)
    BY <1>10 DEF ReadTimeout, Goto
<1>11. CASE ReadFails(w)
    BY <1>11 DEF ReadFails, Goto
<1>12. CASE PauseEnds(w)
    BY <1>12 DEF PauseEnds, Goto
<1>13. CASE NextMessage(w)
    BY <1>13 DEF NextMessage, Goto, IsFirst
<1>14. CASE EndBatch(w)
    BY <1>14 DEF EndBatch, Goto
<1>15. CASE Ack(w)
    BY <1>15 DEF Ack, Advance, Goto
<1>16. CASE AckReplyLost(w)
    BY <1>16 DEF AckReplyLost
<1>17. CASE AckFails(w)
    BY <1>17 DEF AckFails, Advance, Goto
<1>18. CASE Stop(w)
    BY <1>18 DEF Stop
<1>19. CASE Crash(w)
    BY <1>19 DEF Crash, Goto
<1>20. ASSUME NEW id \in Ids, HandlerOk(w, id) PROVE HandsMove(v)
    BY <1>20 DEF HandlerOk, Advance, Goto, IsFirst
<1>21. ASSUME NEW id \in Ids, HandlerFails(w, id) PROVE HandsMove(v)
    BY <1>21 DEF HandlerFails, Failed, Advance, Goto
<1>22. ASSUME NEW id \in Ids, Process(w, id) PROVE HandsMove(v)
    BY <1>22 DEF Process
<1>23. ASSUME NEW id \in Ids, Abandon(w, id) PROVE HandsMove(v)
    BY <1>23 DEF Abandon
<1>24. ASSUME NEW id \in Ids, ManualAck(w, id) PROVE HandsMove(v)
    BY <1>24 DEF ManualAck
<1> QED BY <1>1, <1>2, <1>3, <1>4, <1>5, <1>6, <1>7, <1>8, <1>9, <1>10, <1>11, <1>12, <1>13, <1>14, <1>15, <1>16, <1>17, <1>18, <1>19, <1>20, <1>21, <1>22, <1>23, <1>24 DEF Cases

LEMMA AckMoves ==
    ASSUME TypeOK, NEW w \in Workers, NEW v \in Workers, Cases(w)
    PROVE  AckMove(v)
<1> USE DEF AckMove, TypeOK, TypeLoop, TypeApp, Places, Handling, redis, loop, app
<1>1. CASE Subscribe(w)
    BY <1>1 DEF Subscribe, Goto
<1>2. CASE SubscribeFails(w)
    BY <1>2 DEF SubscribeFails
<1>3. CASE Check(w)
    BY <1>3 DEF Check, Goto
<1>4. CASE Claim(w)
    BY <1>4 DEF Claim, RecordClaim, Claimed, Scanned, Goto
<1>5. CASE ClaimReplyLost(w)
    BY <1>5 DEF ClaimReplyLost
<1>6. CASE ClaimFails(w)
    BY <1>6 DEF ClaimFails, Goto
<1>7. CASE Read(w)
    BY <1>7 DEF Read, RecordRead, Goto
<1>8. CASE ReadReplyLost(w)
    BY <1>8 DEF ReadReplyLost, RecordRead, Goto
<1>9. CASE StartBlocking(w)
    BY <1>9 DEF StartBlocking, Goto
<1>10. CASE ReadTimeout(w)
    BY <1>10 DEF ReadTimeout, Goto
<1>11. CASE ReadFails(w)
    BY <1>11 DEF ReadFails, Goto
<1>12. CASE PauseEnds(w)
    BY <1>12 DEF PauseEnds, Goto
<1>13. CASE NextMessage(w)
    BY <1>13 DEF NextMessage, Goto, IsFirst
<1>14. CASE EndBatch(w)
    BY <1>14 DEF EndBatch, Goto
<1>15. CASE Ack(w)
    BY <1>15 DEF Ack, Advance, Goto
<1>16. CASE AckReplyLost(w)
    BY <1>16 DEF AckReplyLost
<1>17. CASE AckFails(w)
    BY <1>17 DEF AckFails, Advance, Goto
<1>18. CASE Stop(w)
    BY <1>18 DEF Stop
<1>19. CASE Crash(w)
    BY <1>19 DEF Crash, Goto
<1>20. ASSUME NEW id \in Ids, HandlerOk(w, id) PROVE AckMove(v)
    <2>1. CASE w \in AutoAck
        BY <1>20, <2>1 DEF HandlerOk, Goto
    <2>2. CASE w \notin AutoAck
        <3>1. Advance(w, id)
            BY <1>20, <2>2, Zenon DEF HandlerOk
        <3> QED BY <3>1 DEF Advance, Goto
    <2> QED BY <2>1, <2>2
<1>21. ASSUME NEW id \in Ids, HandlerFails(w, id) PROVE AckMove(v)
    BY <1>21 DEF HandlerFails, Failed, Advance, Goto
<1>22. ASSUME NEW id \in Ids, Process(w, id) PROVE AckMove(v)
    BY <1>22 DEF Process
<1>23. ASSUME NEW id \in Ids, Abandon(w, id) PROVE AckMove(v)
    BY <1>23 DEF Abandon
<1>24. ASSUME NEW id \in Ids, ManualAck(w, id) PROVE AckMove(v)
    BY <1>24 DEF ManualAck
<1> QED BY <1>1, <1>2, <1>3, <1>4, <1>5, <1>6, <1>7, <1>8, <1>9, <1>10, <1>11, <1>12, <1>13, <1>14, <1>15, <1>16, <1>17, <1>18, <1>19, <1>20, <1>21, <1>22, <1>23, <1>24 DEF Cases

LEMMA HandsStep ==
    ASSUME DeliveryInv, [Next]_vars, TypeOK'
    PROVE  HandsOnlyDelivered'
<1> SUFFICES ASSUME NEW v \in Workers
             PROVE  /\ batch'[v] \subseteq 1..lastDelivered'
                    /\ held'[v] \subseteq 1..lastDelivered'
                    /\ finished'[v] \subseteq 1..lastDelivered'
                    /\ finished'[v] \subseteq succeeded'
    BY DEF HandsOnlyDelivered
<1>1. HandsMove(v)
    <2>1. CASE UNCHANGED <<batch, held, finished>>
        BY <2>1 DEF HandsMove
    <2>2. CASE UNCHANGED vars \/ Publish \/ Tick
        BY <2>1, <2>2 DEF vars, Publish, Tick, loop, app
    <2> QED BY <2>2, HandsMoves, NextCases DEF DeliveryInv
<1>2. 1..lastDelivered \subseteq 1..lastDelivered' /\ pending' \subseteq 1..lastDelivered'
    BY Growth DEF DeliveryInv, TypeOK, TypeRedis
<1>3. /\ batch[v] \subseteq 1..lastDelivered
      /\ held[v] \subseteq 1..lastDelivered
      /\ finished[v] \subseteq 1..lastDelivered
      /\ finished[v] \subseteq succeeded'
    BY Growth DEF DeliveryInv, HandsOnlyDelivered
<1> QED BY <1>1, <1>2, <1>3 DEF HandsMove

LEMMA AckedStep ==
    ASSUME DeliveryInv, [Next]_vars
    PROVE  AckedHandled'
<1> SUFFICES ASSUME NEW v \in Workers, pc'[v] = "ack", NEW id \in batch'[v], IsFirst(v, id)'
             PROVE  id \in succeeded'
    BY DEF AckedHandled
<1>1. AckMove(v)
    <2>1. CASE UNCHANGED <<batch, pc>>
        BY <2>1 DEF AckMove
    <2>2. CASE UNCHANGED vars \/ Publish \/ Tick
        BY <2>1, <2>2 DEF vars, Publish, Tick, loop
    <2> QED BY <2>2, AckMoves, NextCases DEF DeliveryInv
<1>2. batch'[v] = batch[v] /\ IsFirst(v, id)
    BY <1>1 DEF AckMove, IsFirst
<1>3. CASE pc[v] = "ack"
    BY <1>2, <1>3, Growth DEF DeliveryInv, AckedHandled
<1>4. ASSUME NEW m \in succeeded', IsFirst(v, m) PROVE id = m
    BY <1>2, <1>4 DEF IsFirst, DeliveryInv, TypeOK, TypeLoop
<1> QED BY <1>1, <1>3, <1>4 DEF AckMove

LEMMA DeliveryInit == Init => DeliveryInv
<1> SUFFICES ASSUME Init PROVE DeliveryInv
    OBVIOUS
<1>1. NoLoss
    BY DEF Init, NoLoss
<1>2. HandsOnlyDelivered
    BY DEF Init, HandsOnlyDelivered
<1>3. AckedHandled
    BY DEF Init, AckedHandled
<1> QED BY <1>1, <1>2, <1>3, TypeInit DEF DeliveryInv

LEMMA DeliveryNext == DeliveryInv /\ [Next]_vars => DeliveryInv'
<1> SUFFICES ASSUME DeliveryInv, [Next]_vars PROVE DeliveryInv'
    OBVIOUS
<1>1. TypeOK'
    BY TypeRedisStep, TypeLoopStep, TypeAppStep DEF TypeOK, DeliveryInv
<1> QED BY <1>1, NoLossStep, HandsStep, AckedStep DEF DeliveryInv

\* The inductive invariant behind the two theorems below.
THEOREM DeliveryInvariant == Spec => []DeliveryInv
BY DeliveryInit, DeliveryNext, PTL DEF Spec

\* Whatever crashes, is cancelled, stolen or lost, and for any number of
\* workers, messages and faults and any timing: a message taken from the stream
\* is pending or has been handled successfully.
THEOREM NothingLost == Spec => []NoLoss
<1>1. DeliveryInv => NoLoss
    BY DEF DeliveryInv
<1> QED BY <1>1, DeliveryInvariant, PTL
LEMMA ContractInit == Init => Contract!Init
BY DEF Init, Contract!Init

LEMMA ContractNext ==
    ASSUME DeliveryInv, [Next]_vars
    PROVE  [Contract!Next]_(Contract!vars)
<1> USE DEF Contract!vars
<1> DEFINE Queued == (lastDelivered + 1)..published
           Settled == (1..lastDelivered) \ pending
<1>0. /\ published \in 0..MaxMsgs
      /\ lastDelivered \in 0..published
      /\ pending \subseteq 1..lastDelivered
    BY DEF DeliveryInv, TypeOK, TypeRedis
<1>1. CASE Publish
    <2> DEFINE m == published + 1
    <2>1. /\ published < MaxMsgs
          /\ published' = m
          /\ UNCHANGED <<lastDelivered, pending, succeeded>>
        BY <1>1 DEF Publish, app
    <2>2. m \in Ids
        BY <1>0, <2>1
    <2>3. m \notin Queued \cup pending \cup Settled
        BY <1>0
    <2>4. Queued' = Queued \cup {m}
        BY <1>0, <2>1
    <2>5. Contract!Publish(m)
        BY <2>1, <2>3, <2>4 DEF Contract!Publish
    <2> QED BY <2>2, <2>5 DEF Contract!Next
<1>2. CASE ReadStep
    <2>1. /\ published' = published
          /\ pending' = pending \cup Fresh
          /\ succeeded' = succeeded
        BY <1>2 DEF ReadStep, RecordRead
    <2>2. /\ lastDelivered' \in lastDelivered..published
          /\ Fresh \subseteq Ids
          /\ \A id \in Ids : id \in Fresh <=> id > lastDelivered /\ id <= lastDelivered'
        BY <1>2, ReadMoves DEF ReadStep, DeliveryInv
    <2>3. Fresh \subseteq Queued
        BY <1>0, <2>2
    <2>4. Queued' = Queued \ Fresh
        BY <1>0, <2>1, <2>2
    <2>5. Settled' = Settled
        BY <1>0, <2>1, <2>2
    <2>6. Contract!Deliver(Fresh)
        BY <2>1, <2>3, <2>4, <2>5 DEF Contract!Deliver
    <2> QED BY <2>2, <2>6 DEF Contract!Next
<1>3. CASE AckStep
    <2>1. PICK id \in succeeded :
            /\ pending' = pending \ {id}
            /\ UNCHANGED <<published, lastDelivered, succeeded>>
        BY <1>3 DEF AckStep, RecordAck
    <2>2. CASE id \in pending
        <3>1. Settled' = Settled \cup {id}
            BY <1>0, <2>1, <2>2
        <3>2. Contract!Settle(id)
            BY <2>1, <2>2, <3>1 DEF Contract!Settle
        <3> QED BY <1>0, <2>2, <3>2 DEF Contract!Next
    <2>3. CASE id \notin pending
        <3>1. UNCHANGED <<published, lastDelivered, pending, succeeded>>
            BY <2>1, <2>3
        <3> QED BY <3>1
    <2> QED BY <2>2, <2>3
<1>4. CASE HandleStep
    <2>1. PICK id \in 1..lastDelivered :
            /\ succeeded' = succeeded \cup {id}
            /\ UNCHANGED <<published, lastDelivered, pending>>
        BY <1>4 DEF HandleStep
    <2>2. Contract!Handle(id)
        BY <2>1 DEF Contract!Handle
    <2>3. id \in Ids
        BY <1>0, <2>1
    <2> QED BY <2>2, <2>3 DEF Contract!Next
<1>5. CASE StayStep
    BY <1>5 DEF StayStep
<1> QED BY <1>1, <1>2, <1>3, <1>4, <1>5, OtherSteps DEF ContractStep

\* The Redis consumer group with its loops implements the at-least-once
\* contract: queue, in-flight set and settled set are read off the group's
\* last-delivered entry and its pending list.
THEOREM RedisImplementsContract == Spec => ImplementsContract
<1>1. DeliveryInv /\ [Next]_vars => [Contract!Next]_(Contract!vars)
    BY ContractNext
<1> QED BY <1>1, ContractInit, DeliveryInvariant, PTL
        DEF Spec, ImplementsContract, Contract!Spec

\* Under the contract nothing is ever settled that no handler succeeded with,
\* and a message is never both queued and delivered.
THEOREM ContractIsSafe == Contract!Spec => []Contract!AtLeastOnce
<1>1. Contract!Init => Contract!AtLeastOnce
    BY DEF Contract!Init, Contract!AtLeastOnce
<1>2. Contract!AtLeastOnce /\ [Contract!Next]_(Contract!vars) => Contract!AtLeastOnce'
    <2> SUFFICES ASSUME Contract!AtLeastOnce, [Contract!Next]_(Contract!vars)
                 PROVE  Contract!AtLeastOnce'
        OBVIOUS
    <2> USE DEF Contract!AtLeastOnce
    <2>1. ASSUME NEW m \in Ids, Contract!Publish(m) PROVE Contract!AtLeastOnce'
        BY <2>1 DEF Contract!Publish
    <2>2. ASSUME NEW b \in SUBSET Ids, Contract!Deliver(b) PROVE Contract!AtLeastOnce'
        BY <2>2 DEF Contract!Deliver
    <2>3. ASSUME NEW m \in Ids, Contract!Handle(m) PROVE Contract!AtLeastOnce'
        BY <2>3 DEF Contract!Handle
    <2>4. ASSUME NEW m \in Ids, Contract!Settle(m) PROVE Contract!AtLeastOnce'
        BY <2>4 DEF Contract!Settle
    <2>5. CASE UNCHANGED Contract!vars
        BY <2>5 DEF Contract!vars
    <2> QED BY <2>1, <2>2, <2>3, <2>4, <2>5 DEF Contract!Next
<1> QED BY <1>1, <1>2, PTL DEF Contract!Spec

\* So the Redis broker settles no entry unhandled.
THEOREM NothingSettledUnhandled == Spec => []Contract!AtLeastOnce
BY RedisImplementsContract, ContractIsSafe, PTL DEF ImplementsContract

-----------------------------------------------------------------------------
(* Exclusive handling, when every batch is done before it can be claimed.    *)

EmptyHanded == \A w \in Workers : pc[w] \notin Handling => batch[w] = {}

InTime == \A w \in Workers : pc[w] \in Handling => timer[w] <= MaxHandling

\* A message in hand has been idle no longer than its holder has had it.
IdleSinceDelivery ==
    \A w \in Workers : \A id \in batch[w] \cap pending : idle[id] <= timer[w]

HandlingInv ==
    DeliveryInv /\ EmptyHanded /\ InTime /\ IdleSinceDelivery /\ ExclusiveHandling

\* A batch shrinks as time stands, is dropped, or is made of entries Redis has
\* just stamped: idle ones it let be claimed, or fresh ones.
NewBatch(w) ==
    /\ timer'[w] = 0
    /\ \A id \in batch'[w] : idle'[id] = 0 /\ (Claimable(id) \/ id > lastDelivered)
BatchMove(w) ==
    \/ batch'[w] = {}
    \/ batch'[w] \subseteq batch[w] /\ timer'[w] = timer[w]
    \/ NewBatch(w)
IdleMove == \A id \in pending' :
    idle'[id] = 0 \/ (id \in pending /\ idle'[id] <= idle[id])
PlaceMove(w) ==
    /\ pc'[w] \notin Handling => batch'[w] = {}
    /\ pc'[w] \in Handling => 
         timer'[w] = 0 \/ (pc[w] \in Handling /\ timer'[w] = timer[w])
Others(w) ==
    \A v \in Workers \ {w} :
        pc'[v] = pc[v] /\ batch'[v] = batch[v] /\ timer'[v] = timer[v]

LEMMA OthersStay ==
    ASSUME DeliveryInv, EmptyHanded, NEW w \in Workers, Cases(w)
    PROVE  Others(w)
<1> USE DEF Others, Goto, loop, DeliveryInv, TypeOK, TypeLoop
<1>1. CASE Subscribe(w)
    BY <1>1 DEF Subscribe, GroupCreate
<1>2. CASE SubscribeFails(w)
    BY <1>2 DEF SubscribeFails, GroupCreate
<1>3. CASE Check(w)
    BY <1>3 DEF Check
<1>4. CASE Claim(w)
    <2>1. \E next : batch' = [batch EXCEPT ![w] = Claimed(w, next)]
        BY <1>4 DEF Claim
    <2> QED BY <1>4, <2>1 DEF Claim
<1>5. CASE ClaimReplyLost(w)
    BY <1>5 DEF ClaimReplyLost, Resend
<1>6. CASE ClaimFails(w)
    BY <1>6 DEF ClaimFails
<1>7. CASE Read(w)
    BY <1>7 DEF Read
<1>8. CASE ReadReplyLost(w)
    BY <1>8 DEF ReadReplyLost, Resend
<1>9. CASE StartBlocking(w)
    BY <1>9 DEF StartBlocking
<1>10. CASE ReadTimeout(w)
    BY <1>10 DEF ReadTimeout
<1>11. CASE ReadFails(w)
    BY <1>11 DEF ReadFails
<1>12. CASE PauseEnds(w)
    BY <1>12 DEF PauseEnds
<1>13. CASE NextMessage(w)
    BY <1>13 DEF NextMessage
<1>14. CASE EndBatch(w)
    BY <1>14 DEF EndBatch
<1>15. CASE Ack(w)
    BY <1>15 DEF Ack, Advance, RecordAck
<1>16. CASE AckReplyLost(w)
    BY <1>16 DEF AckReplyLost, RecordAck
<1>17. CASE AckFails(w)
    BY <1>17 DEF AckFails, Advance
<1>18. CASE Stop(w)
    BY <1>18 DEF Stop
<1>19. CASE Crash(w)
    BY <1>19 DEF Crash
<1>20. ASSUME NEW id \in Ids, HandlerOk(w, id) PROVE Others(w)
    BY <1>20 DEF HandlerOk, Advance
<1>21. ASSUME NEW id \in Ids, HandlerFails(w, id) PROVE Others(w)
    BY <1>21 DEF HandlerFails, Failed, Advance
<1>22. ASSUME NEW id \in Ids, Process(w, id) PROVE Others(w)
    BY <1>22 DEF Process
<1>23. ASSUME NEW id \in Ids, Abandon(w, id) PROVE Others(w)
    BY <1>23 DEF Abandon
<1>24. ASSUME NEW id \in Ids, ManualAck(w, id) PROVE Others(w)
    BY <1>24 DEF ManualAck, RecordAck
<1> QED BY <1>1, <1>2, <1>3, <1>4, <1>5, <1>6, <1>7, <1>8, <1>9, <1>10, <1>11, <1>12, <1>13, <1>14, <1>15, <1>16, <1>17, <1>18, <1>19, <1>20, <1>21, <1>22, <1>23, <1>24 DEF Cases

LEMMA IdleUnchanged ==
    ASSUME DeliveryInv, UNCHANGED <<pending, idle>>
    PROVE  IdleMove
BY DEF IdleMove, DeliveryInv, TypeOK, TypeRedis

LEMMA IdleRead ==
    ASSUME DeliveryInv, RecordRead
    PROVE  IdleMove
<1> SUFFICES ASSUME NEW id \in pending'
             PROVE  idle'[id] = 0 \/ (id \in pending /\ idle'[id] <= idle[id])
    BY DEF IdleMove
<1>1. id \in Ids
    BY ReadMoves, PendingIds DEF RecordRead, DeliveryInv
<1>2. CASE id \in Fresh
    BY <1>1, <1>2 DEF RecordRead
<1>3. CASE id \notin Fresh
    <2>1. idle'[id] = idle[id] /\ id \in pending
        BY <1>1, <1>3 DEF RecordRead
    <2> QED BY <1>1, <2>1 DEF DeliveryInv, TypeOK, TypeRedis
<1> QED BY <1>2, <1>3

LEMMA IdleAck ==
    ASSUME DeliveryInv, NEW id \in Ids, RecordAck(id)
    PROVE  IdleMove
BY PendingIds DEF IdleMove, RecordAck, DeliveryInv, TypeOK, TypeRedis

LEMMA IdleMoves ==
    ASSUME DeliveryInv, EmptyHanded, NEW w \in Workers, Cases(w)
    PROVE  IdleMove
<1> USE DEF redis, DeliveryInv
<1>1. CASE Subscribe(w)
    BY <1>1, IdleUnchanged DEF Subscribe, GroupCreate
<1>2. CASE SubscribeFails(w)
    BY <1>2, IdleUnchanged DEF SubscribeFails, GroupCreate
<1>3. CASE Check(w)
    BY <1>3, IdleUnchanged DEF Check
<1>4. CASE Claim(w)
    BY <1>4 DEF Claim, RecordClaim, IdleMove, TypeOK, TypeRedis
<1>5. CASE ClaimReplyLost(w)
    BY <1>5 DEF ClaimReplyLost, RecordClaim, IdleMove, TypeOK, TypeRedis
<1>6. CASE ClaimFails(w)
    BY <1>6, IdleUnchanged DEF ClaimFails
<1>7. CASE Read(w)
    BY <1>7, IdleRead DEF Read
<1>8. CASE ReadReplyLost(w)
    BY <1>8, IdleRead, IdleUnchanged DEF ReadReplyLost
<1>9. CASE StartBlocking(w)
    BY <1>9, IdleUnchanged DEF StartBlocking
<1>10. CASE ReadTimeout(w)
    BY <1>10, IdleUnchanged DEF ReadTimeout
<1>11. CASE ReadFails(w)
    BY <1>11, IdleUnchanged DEF ReadFails
<1>12. CASE PauseEnds(w)
    BY <1>12, IdleUnchanged DEF PauseEnds
<1>13. CASE NextMessage(w)
    BY <1>13, IdleUnchanged DEF NextMessage
<1>14. CASE EndBatch(w)
    BY <1>14, IdleUnchanged DEF EndBatch
<1>15. CASE Ack(w)
    BY <1>15, IdleAck DEF Ack, TypeOK, TypeLoop
<1>16. CASE AckReplyLost(w)
    BY <1>16, IdleAck DEF AckReplyLost, TypeOK, TypeLoop
<1>17. CASE AckFails(w)
    BY <1>17, IdleUnchanged DEF AckFails, Advance
<1>18. CASE Stop(w)
    BY <1>18, IdleUnchanged DEF Stop
<1>19. CASE Crash(w)
    BY <1>19, IdleUnchanged DEF Crash
<1>20. ASSUME NEW id \in Ids, HandlerOk(w, id) PROVE IdleMove
    BY <1>20, IdleUnchanged DEF HandlerOk, Advance
<1>21. ASSUME NEW id \in Ids, HandlerFails(w, id) PROVE IdleMove
    BY <1>21, IdleUnchanged DEF HandlerFails, Failed, Advance
<1>22. ASSUME NEW id \in Ids, Process(w, id) PROVE IdleMove
    BY <1>22, IdleUnchanged DEF Process
<1>23. ASSUME NEW id \in Ids, Abandon(w, id) PROVE IdleMove
    BY <1>23, IdleUnchanged DEF Abandon
<1>24. ASSUME NEW id \in Ids, ManualAck(w, id) PROVE IdleMove
    BY <1>24, IdleAck DEF ManualAck, RecordAck
<1> QED BY <1>1, <1>2, <1>3, <1>4, <1>5, <1>6, <1>7, <1>8, <1>9, <1>10, <1>11, <1>12, <1>13, <1>14, <1>15, <1>16, <1>17, <1>18, <1>19, <1>20, <1>21, <1>22, <1>23, <1>24 DEF Cases

LEMMA BatchMoves ==
    ASSUME DeliveryInv, EmptyHanded, NEW w \in Workers, Cases(w)
    PROVE  BatchMove(w)
<1> USE DEF BatchMove, loop, EmptyHanded, Handling, DeliveryInv, TypeOK, TypeLoop
<1>1. CASE Subscribe(w)
    BY <1>1 DEF Subscribe, GroupCreate
<1>2. CASE SubscribeFails(w)
    BY <1>2 DEF SubscribeFails, GroupCreate
<1>3. CASE Check(w)
    BY <1>3 DEF Check
<1>4. CASE Claim(w)
    <2>1. PICK next \in 0..MaxMsgs :
            /\ RecordClaim(w, next)
            /\ batch' = [batch EXCEPT ![w] = Claimed(w, next)]
        BY <1>4 DEF Claim
    <2>2. ASSUME NEW id \in Claimed(w, next)
          PROVE  idle'[id] = 0 /\ Claimable(id)
        <3>1. id \in Ids /\ Claimable(id)
            BY PendingIds DEF Claimed, Scanned
        <3> QED BY <2>1, <3>1 DEF RecordClaim
    <2>3. batch'[w] = Claimed(w, next) /\ timer'[w] = 0
        BY <1>4, <2>1 DEF Claim
    <2> QED BY <2>2, <2>3 DEF NewBatch
<1>5. CASE ClaimReplyLost(w)
    BY <1>5 DEF ClaimReplyLost, RecordClaim
<1>6. CASE ClaimFails(w)
    BY <1>6 DEF ClaimFails
<1>7. CASE Read(w)
    <2>1. batch'[w] = Fresh /\ timer'[w] = 0
        BY <1>7, ReadMoves DEF Read
    <2>2. ASSUME NEW id \in Fresh
          PROVE  idle'[id] = 0 /\ id > lastDelivered
        BY <1>7, ReadMoves DEF Read, RecordRead
    <2> QED BY <2>1, <2>2 DEF NewBatch
<1>8. CASE ReadReplyLost(w)
    BY <1>8 DEF ReadReplyLost, RecordRead
<1>9. CASE StartBlocking(w)
    BY <1>9 DEF StartBlocking
<1>10. CASE ReadTimeout(w)
    BY <1>10 DEF ReadTimeout
<1>11. CASE ReadFails(w)
    BY <1>11 DEF ReadFails
<1>12. CASE PauseEnds(w)
    BY <1>12 DEF PauseEnds
<1>13. CASE NextMessage(w)
    BY <1>13 DEF NextMessage
<1>14. CASE EndBatch(w)
    BY <1>14 DEF EndBatch
<1>15. CASE Ack(w)
    BY <1>15 DEF Ack, Advance, RecordAck
<1>16. CASE AckReplyLost(w)
    BY <1>16 DEF AckReplyLost, RecordAck
<1>17. CASE AckFails(w)
    BY <1>17 DEF AckFails, Advance
<1>18. CASE Stop(w)
    BY <1>18 DEF Stop
<1>19. CASE Crash(w)
    BY <1>19 DEF Crash
<1>20. ASSUME NEW id \in Ids, HandlerOk(w, id) PROVE BatchMove(w)
    BY <1>20 DEF HandlerOk, Advance
<1>21. ASSUME NEW id \in Ids, HandlerFails(w, id) PROVE BatchMove(w)
    BY <1>21 DEF HandlerFails, Failed, Advance
<1>22. ASSUME NEW id \in Ids, Process(w, id) PROVE BatchMove(w)
    BY <1>22 DEF Process
<1>23. ASSUME NEW id \in Ids, Abandon(w, id) PROVE BatchMove(w)
    BY <1>23 DEF Abandon
<1>24. ASSUME NEW id \in Ids, ManualAck(w, id) PROVE BatchMove(w)
    BY <1>24 DEF ManualAck, RecordAck
<1> QED BY <1>1, <1>2, <1>3, <1>4, <1>5, <1>6, <1>7, <1>8, <1>9, <1>10, <1>11, <1>12, <1>13, <1>14, <1>15, <1>16, <1>17, <1>18, <1>19, <1>20, <1>21, <1>22, <1>23, <1>24 DEF Cases

LEMMA PlaceMoves ==
    ASSUME DeliveryInv, EmptyHanded, NEW w \in Workers, Cases(w)
    PROVE  PlaceMove(w)
<1> USE DEF PlaceMove, Goto, loop, EmptyHanded, Places, Handling, DeliveryInv, TypeOK, TypeLoop
<1>1. CASE Subscribe(w)
    BY <1>1 DEF Subscribe, GroupCreate
<1>2. CASE SubscribeFails(w)
    BY <1>2 DEF SubscribeFails, GroupCreate
<1>3. CASE Check(w)
    BY <1>3 DEF Check
<1>4. CASE Claim(w)
    <2>1. pc'[w] = "handle" /\ timer'[w] = 0
        BY <1>4 DEF Claim
    <2> QED BY <2>1
<1>5. CASE ClaimReplyLost(w)
    BY <1>5 DEF ClaimReplyLost, RecordClaim
<1>6. CASE ClaimFails(w)
    BY <1>6 DEF ClaimFails
<1>7. CASE Read(w)
    <2>1. pc'[w] = "handle" /\ timer'[w] = 0
        BY <1>7 DEF Read
    <2> QED BY <2>1
<1>8. CASE ReadReplyLost(w)
    BY <1>8 DEF ReadReplyLost, RecordRead
<1>9. CASE StartBlocking(w)
    BY <1>9 DEF StartBlocking
<1>10. CASE ReadTimeout(w)
    BY <1>10 DEF ReadTimeout
<1>11. CASE ReadFails(w)
    BY <1>11 DEF ReadFails
<1>12. CASE PauseEnds(w)
    BY <1>12 DEF PauseEnds
<1>13. CASE NextMessage(w)
    BY <1>13 DEF NextMessage
<1>14. CASE EndBatch(w)
    BY <1>14 DEF EndBatch
<1>15. CASE Ack(w)
    BY <1>15 DEF Ack, Advance, RecordAck
<1>16. CASE AckReplyLost(w)
    BY <1>16 DEF AckReplyLost, RecordAck
<1>17. CASE AckFails(w)
    BY <1>17 DEF AckFails, Advance
<1>18. CASE Stop(w)
    BY <1>18 DEF Stop
<1>19. CASE Crash(w)
    BY <1>19 DEF Crash
<1>20. ASSUME NEW id \in Ids, HandlerOk(w, id) PROVE PlaceMove(w)
    BY <1>20 DEF HandlerOk, Advance
<1>21. ASSUME NEW id \in Ids, HandlerFails(w, id) PROVE PlaceMove(w)
    BY <1>21 DEF HandlerFails, Failed, Advance
<1>22. ASSUME NEW id \in Ids, Process(w, id) PROVE PlaceMove(w)
    BY <1>22 DEF Process
<1>23. ASSUME NEW id \in Ids, Abandon(w, id) PROVE PlaceMove(w)
    BY <1>23 DEF Abandon
<1>24. ASSUME NEW id \in Ids, ManualAck(w, id) PROVE PlaceMove(w)
    BY <1>24 DEF ManualAck, RecordAck
<1> QED BY <1>1, <1>2, <1>3, <1>4, <1>5, <1>6, <1>7, <1>8, <1>9, <1>10, <1>11, <1>12, <1>13, <1>14, <1>15, <1>16, <1>17, <1>18, <1>19, <1>20, <1>21, <1>22, <1>23, <1>24 DEF Cases
\* What a worker holds can neither be claimed nor be read by anybody.
LEMMA HeldIsTaken ==
    ASSUME MaxHandling < MinIdle, HandlingInv, NEW w \in Workers, NEW id \in batch[w]
    PROVE  ~Claimable(id) /\ ~(id > lastDelivered)
<1>1. pc[w] \in Handling /\ timer[w] <= MaxHandling
    BY DEF HandlingInv, EmptyHanded, InTime
<1>2. id \in 1..lastDelivered /\ lastDelivered \in Nat
    BY DEF HandlingInv, DeliveryInv, HandsOnlyDelivered, TypeOK, TypeRedis
<1>3. ASSUME Claimable(id) PROVE FALSE
    <2>1. id \in pending /\ idle[id] >= MinIdle
        BY <1>3 DEF Claimable, AskedMinIdle
    <2>2. idle[id] <= timer[w]
        BY <2>1 DEF HandlingInv, IdleSinceDelivery
    <2>3. id \in Ids /\ idle[id] \in Nat /\ timer[w] \in Nat
        BY <2>1, PendingIds DEF HandlingInv, DeliveryInv, TypeOK, TypeRedis, TypeLoop
    <2> QED BY <1>1, <2>1, <2>2, <2>3
<1> QED BY <1>2, <1>3

LEMMA HandlingWorkerStep ==
    ASSUME MaxHandling < MinIdle, HandlingInv, NEW w \in Workers, Cases(w), DeliveryInv'
    PROVE  HandlingInv'
<1>0. /\ Others(w) /\ IdleMove /\ BatchMove(w) /\ PlaceMove(w)
      /\ DeliveryInv
    BY OthersStay, IdleMoves, BatchMoves, PlaceMoves DEF HandlingInv
<1>1. EmptyHanded'
    BY <1>0 DEF HandlingInv, EmptyHanded, Others, PlaceMove
<1>2. InTime'
    BY <1>0 DEF HandlingInv, InTime, Others, PlaceMove
<1>3. IdleSinceDelivery'
    <2> SUFFICES ASSUME NEW v \in Workers, NEW id \in batch'[v], id \in pending'
                 PROVE  idle'[id] <= timer'[v]
        BY DEF IdleSinceDelivery
    <2>0. idle'[id] \in Nat /\ timer'[v] \in Nat /\ idle[id] \in Nat /\ timer[v] \in Nat
        BY <1>0, PendingIds DEF DeliveryInv, TypeOK, TypeRedis, TypeLoop
    <2>1. ASSUME id \in batch[v], timer'[v] = timer[v] PROVE idle'[id] <= timer'[v]
        <3>1. CASE idle'[id] = 0
            BY <2>0, <3>1
        <3>2. CASE id \in pending /\ idle'[id] <= idle[id]
            <4>1. idle[id] <= timer[v]
                BY <2>1, <3>2 DEF HandlingInv, IdleSinceDelivery
            <4> QED BY <2>0, <2>1, <3>2, <4>1
        <3> QED BY <1>0, <3>1, <3>2 DEF IdleMove
    <2>2. CASE v # w
        BY <1>0, <2>1, <2>2 DEF Others
    <2>3. CASE v = w
        BY <1>0, <2>0, <2>1, <2>3 DEF BatchMove, NewBatch
    <2> QED BY <2>2, <2>3
<1>4. ExclusiveHandling'
    <2> SUFFICES ASSUME NEW u \in Workers, NEW v \in Workers, u # v,
                        NEW id \in batch'[u], id \in batch'[v]
                 PROVE  FALSE
        BY DEF ExclusiveHandling
    <2>1. ASSUME NEW x \in Workers, x # w, id \in batch'[x], id \in batch'[w] PROVE FALSE
        <3>1. id \in batch[x]
            BY <1>0, <2>1 DEF Others
        <3>2. id \notin batch[w]
            BY <2>1, <3>1 DEF HandlingInv, ExclusiveHandling
        <3>3. Claimable(id) \/ id > lastDelivered
            BY <1>0, <2>1, <3>2 DEF BatchMove, NewBatch
        <3> QED BY <2>1, <3>1, <3>3, HeldIsTaken
    <2>2. CASE u # w /\ v # w
        BY <1>0, <2>2 DEF Others, HandlingInv, ExclusiveHandling
    <2> QED BY <2>1, <2>2
<1> QED BY <1>1, <1>2, <1>3, <1>4 DEF HandlingInv

LEMMA HandlingTickStep ==
    ASSUME HandlingInv, Tick, DeliveryInv'
    PROVE  HandlingInv'
<1> USE DEF HandlingInv, DeliveryInv, TypeOK, TypeRedis, TypeLoop
<1>1. pc' = pc /\ batch' = batch /\ pending' = pending
    BY DEF Tick
<1>2. EmptyHanded'
    BY <1>1 DEF EmptyHanded
<1>3. ASSUME NEW w \in Workers, pc[w] \in Handling
      PROVE  timer'[w] = timer[w] + 1 /\ timer[w] < MaxHandling
    BY <1>3 DEF Tick, MayWait, Handling
<1>4. InTime'
    BY <1>1, <1>3 DEF InTime
<1>5. IdleSinceDelivery'
    <2> SUFFICES ASSUME NEW w \in Workers, NEW id \in batch[w], id \in pending
                 PROVE  idle'[id] <= timer'[w]
        BY <1>1 DEF IdleSinceDelivery
    <2>1. idle[id] <= timer[w] /\ pc[w] \in Handling
        BY DEF IdleSinceDelivery, EmptyHanded
    <2>2. idle'[id] <= idle[id] + 1 /\ idle[id] \in Nat /\ idle'[id] \in Nat
        BY PendingIds DEF Tick
    <2>3. timer[w] \in Nat /\ timer'[w] = timer[w] + 1
        BY <1>3, <2>1
    <2> HIDE DEF HandlingInv, DeliveryInv, TypeOK, TypeRedis, TypeLoop
    <2> QED BY <2>1, <2>2, <2>3
<1>6. ExclusiveHandling'
    BY <1>1 DEF ExclusiveHandling
<1> QED BY <1>2, <1>4, <1>5, <1>6

THEOREM HandlingInvariant ==
    ASSUME MaxHandling < MinIdle PROVE Spec => []HandlingInv
<1>1. Init => HandlingInv
    <2> SUFFICES ASSUME Init, DeliveryInv PROVE HandlingInv
        BY DeliveryInit
    <2>1. EmptyHanded /\ IdleSinceDelivery /\ ExclusiveHandling
        BY DEF Init, EmptyHanded, IdleSinceDelivery, ExclusiveHandling
    <2>2. InTime
        BY DEF Init, InTime, Handling
    <2> QED BY <2>1, <2>2 DEF HandlingInv
<1>2. HandlingInv /\ [Next]_vars => HandlingInv'
    <2> SUFFICES ASSUME HandlingInv, [Next]_vars PROVE HandlingInv'
        OBVIOUS
    <2>0. DeliveryInv'
        BY DeliveryNext DEF HandlingInv
    <2>1. CASE UNCHANGED vars \/ Publish
        <3>1. UNCHANGED <<pc, batch, pending, idle, timer>>
            BY <2>1 DEF vars, Publish, loop
        <3>2. EmptyHanded' /\ InTime'
            BY <3>1 DEF HandlingInv, EmptyHanded, InTime
        <3>3. IdleSinceDelivery' /\ ExclusiveHandling'
            BY <3>1 DEF HandlingInv, IdleSinceDelivery, ExclusiveHandling
        <3> QED BY <2>0, <3>2, <3>3 DEF HandlingInv
    <2>2. CASE Tick
        BY <2>0, <2>2, HandlingTickStep
    <2>3. ASSUME NEW w \in Workers, Cases(w) PROVE HandlingInv'
        BY <2>0, <2>3, HandlingWorkerStep
    <2> QED BY <2>1, <2>2, <2>3, NextCases
<1> QED BY <1>1, <1>2, PTL DEF Spec

\* If every batch is handled and acknowledged before its messages count as
\* idle, no message is in two loops' hands at once.
THEOREM HandlingIsExclusive ==
    ASSUME MaxHandling < MinIdle PROVE Spec => []ExclusiveHandling
<1>1. HandlingInv => ExclusiveHandling
    BY DEF HandlingInv
<1> QED BY <1>1, HandlingInvariant, PTL

-----------------------------------------------------------------------------
(* Recovery on time: what a loop's timer and next claim have to do with each  *)
(* other wherever it may wait.                                               *)

\* The claim is due no earlier than what w has waited since it last looked.
Due(w) ==
    /\ pc[w] = "loop" => claimIn[w] > -(ClaimInterval + ResentReads(w) + Slack)
    /\ pc[w] = "read" /\ resent[w] = 0 => claimIn[w] > 0
    /\ pc[w] = "read" /\ resent[w] > 0 =>
         claimIn[w] > RetryDelay - ResentReads(w) - timer[w] /\ timer[w] <= RetryDelay
    /\ pc[w] = "blocked" => claimIn[w] > -(ResentReads(w) + timer[w]) /\ timer[w] <= Block
    /\ pc[w] = "errwait" =>
         claimIn[w] > -(ClaimInterval + ResentReads(w) + timer[w]) /\ timer[w] <= ErrDelay
    /\ pc[w] \in Handling /\ resume[w] = "loop" =>
         claimIn[w] > -(ClaimInterval + ResentReads(w) + timer[w]) /\ timer[w] <= MaxHandling
    /\ pc[w] \in Handling /\ resume[w] = "read" => resent[w] = 0

DueInv == TypeOK /\ \A w \in Workers : Due(w)

SameClock(v) == /\ pc'[v] = pc[v] /\ claimIn'[v] = claimIn[v]
                /\ timer'[v] = timer[v] /\ resume'[v] = resume[v]
                /\ resent'[v] = resent[v]

LEMMA Limits ==
    /\ Slack \in Nat /\ MaxHandling <= Slack /\ ErrDelay <= Slack
    /\ Block \in 1..ClaimInterval
BY DEF Slack, Block

\* What sending a command, or sending it again, does to the allowance.
LEMMA Allowance ==
    ASSUME TypeLoop, NEW w \in Workers
    PROVE  /\ resent[w] \in Nat /\ ResentReads(w) \in Nat
           /\ resent[w] = 0 => ResentReads(w) = 0
           /\ resent'[w] = resent[w] => ResentReads(w)' = ResentReads(w)
           /\ resent'[w] = 0 => ResentReads(w)' = 0
           /\ resent'[w] = resent[w] + 1 =>
                  ResentReads(w)' = ResentReads(w) + ClaimInterval + RetryDelay
<1> DEFINE step == ClaimInterval + RetryDelay
<1>1. resent[w] \in Nat /\ step \in Nat
    BY DEF TypeLoop
<1>2. ASSUME NEW n \in Nat, NEW k \in Nat
      PROVE  n * k \in Nat /\ 0 * k = 0 /\ (n + 1) * k = n * k + k
    OBVIOUS
<1>3. ResentReads(w) = resent[w] * step /\ ResentReads(w)' = resent'[w] * step
    BY DEF ResentReads
<1> HIDE DEF step
<1>4. /\ resent[w] * step \in Nat /\ 0 * step = 0
      /\ (resent[w] + 1) * step = resent[w] * step + step
    BY <1>1, <1>2
<1> QED BY <1>1, <1>3, <1>4 DEF step

LEMMA SameClockDue ==
    ASSUME TypeLoop, NEW v \in Workers, Due(v), SameClock(v) PROVE Due(v)'
BY Allowance DEF Due, SameClock

LEMMA OthersClock ==
    ASSUME TypeLoop, NEW w \in Workers, Cases(w), NEW v \in Workers \ {w}
    PROVE  SameClock(v)
<1> USE DEF SameClock, Goto, loop, TypeLoop, NewCommand, Resend
<1>1. CASE Subscribe(w)
    BY <1>1 DEF Subscribe, GroupCreate
<1>2. CASE SubscribeFails(w)
    BY <1>2 DEF SubscribeFails, GroupCreate
<1>3. CASE Check(w)
    BY <1>3 DEF Check
<1>4. CASE Claim(w)
    <2>1. UNCHANGED claimIn /\ pc' = [pc EXCEPT ![w] = "handle"]
        BY <1>4 DEF Claim
    <2>2. timer' = [timer EXCEPT ![w] = 0] /\ resume' = [resume EXCEPT ![w] = "read"]
        BY <1>4 DEF Claim
    <2>3. resent' = [resent EXCEPT ![w] = 0]
        BY <1>4 DEF Claim
    <2> QED BY <2>1, <2>2, <2>3
<1>5. CASE ClaimReplyLost(w)
    BY <1>5 DEF ClaimReplyLost, RecordClaim
<1>6. CASE ClaimFails(w)
    BY <1>6 DEF ClaimFails
<1>7. CASE Read(w)
    BY <1>7 DEF Read, RecordRead
<1>8. CASE ReadReplyLost(w)
    BY <1>8 DEF ReadReplyLost, RecordRead
<1>9. CASE StartBlocking(w)
    BY <1>9 DEF StartBlocking
<1>10. CASE ReadTimeout(w)
    BY <1>10 DEF ReadTimeout
<1>11. CASE ReadFails(w)
    BY <1>11 DEF ReadFails
<1>12. CASE PauseEnds(w)
    BY <1>12 DEF PauseEnds
<1>13. CASE NextMessage(w)
    BY <1>13 DEF NextMessage
<1>14. CASE EndBatch(w)
    BY <1>14 DEF EndBatch
<1>15. CASE Ack(w)
    BY <1>15 DEF Ack, Advance, RecordAck
<1>16. CASE AckReplyLost(w)
    BY <1>16 DEF AckReplyLost, RecordAck
<1>17. CASE AckFails(w)
    BY <1>17 DEF AckFails, Advance
<1>18. CASE Stop(w)
    BY <1>18 DEF Stop
<1>19. CASE Crash(w)
    <2>1. UNCHANGED <<claimIn, timer, resume>> /\ pc' = [pc EXCEPT ![w] = "down"]
        BY <1>19 DEF Crash
    <2> QED BY <2>1, <1>19 DEF Crash
<1>20. ASSUME NEW id \in Ids, HandlerOk(w, id) PROVE SameClock(v)
    BY <1>20 DEF HandlerOk, Advance
<1>21. ASSUME NEW id \in Ids, HandlerFails(w, id) PROVE SameClock(v)
    BY <1>21 DEF HandlerFails, Failed, Advance
<1>22. ASSUME NEW id \in Ids, Process(w, id) PROVE SameClock(v)
    BY <1>22 DEF Process
<1>23. ASSUME NEW id \in Ids, Abandon(w, id) PROVE SameClock(v)
    BY <1>23 DEF Abandon
<1>24. ASSUME NEW id \in Ids, ManualAck(w, id) PROVE SameClock(v)
    BY <1>24 DEF ManualAck, RecordAck
<1> QED
    BY <1>1, <1>2, <1>3, <1>4, <1>5, <1>6, <1>7, <1>8, <1>9, <1>10, <1>11,
       <1>12, <1>13, <1>14, <1>15, <1>16, <1>17, <1>18, <1>19, <1>20, <1>21,
       <1>22, <1>23, <1>24 DEF Cases

LEMMA DueWorker ==
    ASSUME TypeLoop, NEW w \in Workers, Cases(w), Due(w)
    PROVE  Due(w)'
<1>0. /\ pc[w] \in Places /\ claimIn[w] \in Int /\ timer[w] \in Nat
      /\ resume[w] \in {"read", "loop"}
      /\ Slack \in Nat /\ MaxHandling <= Slack /\ ErrDelay <= Slack
      /\ Block \in 1..ClaimInterval /\ RetryDelay \in Nat
    BY Limits DEF TypeLoop
<1>A. /\ resent[w] \in Nat /\ ResentReads(w) \in Nat
      /\ resent[w] = 0 => ResentReads(w) = 0
      /\ resent'[w] = resent[w] => ResentReads(w)' = ResentReads(w)
      /\ resent'[w] = 0 => ResentReads(w)' = 0
      /\ resent'[w] = resent[w] + 1 =>
             ResentReads(w)' = ResentReads(w) + ClaimInterval + RetryDelay
    BY Allowance
<1> DEFINE Kept == SameClock(w)
<1>K. Kept => Due(w)'
    BY SameClockDue
<1> USE DEF Goto, TypeLoop, NewCommand, Resend
<1>1. CASE Subscribe(w)
    <2>1. pc'[w] = "loop" /\ claimIn'[w] = 0 /\ resent'[w] = 0
        BY <1>0, <1>1 DEF Subscribe
    <2> QED BY <1>0, <1>A, <2>1 DEF Due, Handling
<1>2. CASE SubscribeFails(w)
    BY <1>K, <1>2 DEF SubscribeFails, loop, SameClock
<1>3. CASE Check(w)
    <2>1. pc[w] = "loop" /\ UNCHANGED <<claimIn, timer, resume>> /\ resent'[w] = 0
        BY <1>0, <1>3 DEF Check
    <2>2. CASE pc'[w] = "down"
        BY <2>2 DEF Due, Handling
    <2>3. CASE pc'[w] = "claim"
        BY <2>1, <2>3 DEF Due, Handling
    <2>4. CASE pc'[w] = "read" /\ claimIn[w] > 0
        BY <2>1, <2>4 DEF Due, Handling
    <2> QED BY <1>0, <1>A, <1>3, <2>2, <2>3, <2>4 DEF Check
<1>4. CASE Claim(w)
    <2>1. pc'[w] = "handle" /\ resume'[w] = "read" /\ resent'[w] = 0
        BY <1>0, <1>4 DEF Claim
    <2> QED BY <1>0, <1>A, <2>1 DEF Due, Handling
<1>5. CASE ClaimReplyLost(w)
    <2>1. pc[w] = "claim" /\ pc'[w] = "claim"
        BY <1>5 DEF ClaimReplyLost
    <2> QED BY <2>1 DEF Due, Handling
<1>6. CASE ClaimFails(w)
    <2>1. pc'[w] \in {"down", "read"} /\ claimIn'[w] = ClaimInterval /\ resent'[w] = 0
        BY <1>0, <1>6 DEF ClaimFails
    <2> QED BY <1>0, <1>A, <2>1 DEF Due, Handling
<1>7. CASE Read(w)
    <2>1. pc[w] \in {"read", "blocked"} /\ pc'[w] = "handle"
        BY <1>0, <1>7 DEF Read
    <2>2. claimIn'[w] = claimIn[w] /\ timer'[w] = 0 /\ resume'[w] = "loop" /\ resent' = resent
        BY <1>0, <1>7 DEF Read
    <2> QED BY <1>0, <1>A, <2>1, <2>2 DEF Due, Handling
<1>8. CASE ReadReplyLost(w)
    <2>1. pc[w] \in {"read", "blocked"} /\ pc'[w] = "read"
        BY <1>0, <1>8 DEF ReadReplyLost
    <2>2. /\ claimIn'[w] = claimIn[w] /\ timer'[w] = 0
          /\ resent'[w] = resent[w] + 1
        BY <1>0, <1>A, <1>8 DEF ReadReplyLost
    <2> QED BY <1>0, <1>A, <2>1, <2>2 DEF Due, Handling
<1>9. CASE StartBlocking(w)
    <2>1. pc[w] = "read" /\ pc'[w] = "blocked"
        BY <1>0, <1>9 DEF StartBlocking
    <2>2. claimIn'[w] = claimIn[w] /\ timer'[w] = 0 /\ resent' = resent
        BY <1>0, <1>9 DEF StartBlocking
    <2> QED BY <1>0, <1>A, <2>1, <2>2 DEF Due, Handling
<1>10. CASE ReadTimeout(w)
    <2>1. pc[w] = "blocked" /\ pc'[w] \in {"down", "loop"}
        BY <1>0, <1>10 DEF ReadTimeout
    <2>2. UNCHANGED <<claimIn, timer, resent, resume>>
        BY <1>0, <1>10 DEF ReadTimeout
    <2> QED BY <1>0, <1>A, <2>1, <2>2 DEF Due, Handling
<1>11. CASE ReadFails(w)
    <2>1. pc[w] \in {"read", "blocked"} /\ pc'[w] \in {"down", "errwait"}
        BY <1>0, <1>11 DEF ReadFails
    <2>2. claimIn'[w] = claimIn[w] /\ timer'[w] = 0 /\ resent' = resent
        BY <1>0, <1>11 DEF ReadFails
    <2> QED BY <1>0, <1>A, <2>1, <2>2 DEF Due, Handling
<1>12. CASE PauseEnds(w)
    <2>1. pc[w] = "errwait" /\ pc'[w] \in {"down", "loop"}
        BY <1>0, <1>12 DEF PauseEnds
    <2>2. UNCHANGED <<claimIn, timer, resent, resume>>
        BY <1>0, <1>12 DEF PauseEnds
    <2> QED BY <1>0, <1>A, <2>1, <2>2 DEF Due, Handling
<1>13. CASE NextMessage(w)
    <2>1. pc[w] = "handle" /\ pc'[w] = "running"
        BY <1>0, <1>13 DEF NextMessage
    <2>2. UNCHANGED <<claimIn, timer, resent, resume>>
        BY <1>0, <1>13 DEF NextMessage
    <2> QED BY <1>0, <1>A, <2>1, <2>2 DEF Due, Handling
<1>14. CASE EndBatch(w)
    <2>1. pc[w] = "handle" /\ pc'[w] = resume[w]
        BY <1>0, <1>14 DEF EndBatch
    <2>2. claimIn'[w] = IF resume[w] = "read" THEN ClaimInterval ELSE claimIn[w]
        BY <1>0, <1>14 DEF EndBatch
    <2>3. UNCHANGED <<timer, resent, resume>>
        BY <1>0, <1>14 DEF EndBatch
    <2> QED BY <1>0, <1>A, <2>1, <2>2, <2>3 DEF Due, Handling
<1>15. CASE Ack(w)
    <2>1. pc[w] = "ack" /\ pc'[w] = "handle"
        BY <1>0, <1>15 DEF Ack, Advance
    <2>2. UNCHANGED <<claimIn, timer, resent, resume>>
        BY <1>0, <1>15 DEF Ack, Advance
    <2> QED BY <1>0, <1>A, <2>1, <2>2 DEF Due, Handling
<1>16. CASE AckReplyLost(w)
    BY <1>K, <1>16 DEF AckReplyLost, loop, SameClock
<1>17. CASE AckFails(w)
    <2>1. pc[w] = "ack" /\ pc'[w] = "handle"
        BY <1>0, <1>17 DEF AckFails, Advance
    <2>2. UNCHANGED <<claimIn, timer, resent, resume>>
        BY <1>0, <1>17 DEF AckFails, Advance
    <2> QED BY <1>0, <1>A, <2>1, <2>2 DEF Due, Handling
<1>18. CASE Stop(w)
    BY <1>K, <1>18 DEF Stop, SameClock
<1>19. CASE Crash(w)
    <2>1. pc'[w] = "down"
        BY <1>0, <1>19 DEF Crash
    <2> QED BY <1>0, <1>A, <2>1 DEF Due, Handling
<1>20. ASSUME NEW id \in Ids, HandlerOk(w, id) PROVE Due(w)'
    <2>1. pc[w] = "running" /\ pc'[w] \in {"ack", "handle"}
        BY <1>0, <1>20 DEF HandlerOk, Advance
    <2>2. UNCHANGED <<claimIn, timer, resent, resume>>
        BY <1>0, <1>20 DEF HandlerOk, Advance
    <2> QED BY <1>0, <1>A, <2>1, <2>2 DEF Due, Handling
<1>21. ASSUME NEW id \in Ids, HandlerFails(w, id) PROVE Due(w)'
    <2>1. pc[w] = "running" /\ pc'[w] = "handle"
        BY <1>0, <1>21 DEF HandlerFails, Failed, Advance
    <2>2. UNCHANGED <<claimIn, timer, resent, resume>>
        BY <1>0, <1>21 DEF HandlerFails, Failed, Advance
    <2> QED BY <1>0, <1>A, <2>1, <2>2 DEF Due, Handling
<1>22. ASSUME NEW id \in Ids, Process(w, id) PROVE Due(w)'
    BY <1>K, <1>22 DEF Process, loop, SameClock
<1>23. ASSUME NEW id \in Ids, Abandon(w, id) PROVE Due(w)'
    BY <1>K, <1>23 DEF Abandon, loop, SameClock
<1>24. ASSUME NEW id \in Ids, ManualAck(w, id) PROVE Due(w)'
    BY <1>K, <1>24 DEF ManualAck, loop, SameClock
<1> QED
    BY <1>1, <1>2, <1>3, <1>4, <1>5, <1>6, <1>7, <1>8, <1>9, <1>10, <1>11,
       <1>12, <1>13, <1>14, <1>15, <1>16, <1>17, <1>18, <1>19, <1>20, <1>21,
       <1>22, <1>23, <1>24 DEF Cases

LEMMA DueTick ==
    ASSUME TypeOK, NEW w \in Workers, Tick, Due(w)
    PROVE  Due(w)'
<1>0. /\ claimIn[w] \in Int /\ timer[w] \in Nat
      /\ Slack \in Nat /\ MaxHandling \in Nat /\ ErrDelay \in Nat /\ Block \in 1..ClaimInterval
      /\ RetryDelay \in Nat
    BY Limits DEF TypeOK, TypeLoop
<1>A. /\ resent[w] \in Nat /\ ResentReads(w) \in Nat
      /\ resent'[w] = resent[w] => ResentReads(w)' = ResentReads(w)
    BY Allowance DEF TypeOK
<1>1. pc' = pc /\ resume' = resume /\ resent' = resent
    BY DEF Tick
<1>2. CASE pc[w] = "down"
    BY <1>1, <1>2 DEF Due, Handling
<1>3. CASE pc[w] # "down"
    <2>1. claimIn'[w] = claimIn[w] - 1 /\ timer'[w] = timer[w] + 1
        BY <1>3 DEF Tick
    <2>2. \/ pc[w] = "claim"
          \/ pc[w] = "read" /\ resent[w] > 0 /\ timer[w] < RetryDelay
          \/ pc[w] = "blocked" /\ timer[w] < Block
          \/ pc[w] = "errwait" /\ timer[w] < ErrDelay
          \/ pc[w] \in Handling /\ timer[w] < MaxHandling
        BY <1>3 DEF Tick, MayWait
    <2> QED BY <1>0, <1>A, <1>1, <2>1, <2>2 DEF Due, Handling
<1> QED BY <1>2, <1>3

THEOREM DueInvariant == Spec => []DueInv
<1>1. Init => DueInv
    <2> SUFFICES ASSUME Init, NEW w \in Workers PROVE Due(w)
        BY TypeInit DEF DueInv
    <2>1. pc[w] = "down"
        BY DEF Init
    <2> QED BY <2>1 DEF Due, Handling
<1>2. DueInv /\ [Next]_vars => DueInv'
    <2> SUFFICES ASSUME DueInv, [Next]_vars PROVE DueInv'
        OBVIOUS
    <2>0. TypeOK /\ TypeLoop /\ \A w \in Workers : Due(w)
        BY DEF DueInv, TypeOK
    <2>1. TypeOK'
        BY <2>0, TypeRedisStep, TypeLoopStep, TypeAppStep DEF TypeOK
    <2>2. ASSUME NEW v \in Workers PROVE Due(v)'
        <3>0. Due(v)
            BY <2>0
        <3>1. CASE UNCHANGED vars
            BY <2>0, <3>0, <3>1, SameClockDue DEF vars, SameClock
        <3>2. CASE Publish
            BY <2>0, <3>0, <3>2, SameClockDue DEF Publish, loop, SameClock
        <3>3. CASE Tick
            BY <2>0, <3>0, <3>3, DueTick
        <3>4. ASSUME NEW w \in Workers, Cases(w) PROVE Due(v)'
            BY <2>0, <3>0, <3>4, DueWorker, OthersClock, SameClockDue
        <3> QED BY <3>1, <3>2, <3>3, <3>4, NextCases
    <2> QED BY <2>1, <2>2 DEF DueInv
<1> QED BY <1>1, <1>2, PTL DEF Spec

\* The loop is back at its claim check less than an interval and one batch (or
\* one error pause) after the claim was due, whatever BlockTimeout is set to.
THEOREM RecoveryIsOnTime == Spec => []RecoveryOnTime
<1>1. DueInv => RecoveryOnTime
    BY DEF DueInv, Due, RecoveryOnTime
<1> QED BY <1>1, DueInvariant, PTL

-----------------------------------------------------------------------------
(* With automatic acknowledgements: no handler is given an acked message.    *)

\* Nobody keeps an event for a later Ack.
NothingKept == \A w \in Workers : held[w] = {} /\ finished[w] = {}

\* What a loop still has to handle is pending; only the message it is just
\* acknowledging may be gone, when the answer to an XACK was lost.
StillPending(w) ==
    \A id \in batch[w] : id \in pending \/ (pc[w] = "ack" /\ IsFirst(w, id))

AckedInv == HandlingInv /\ NothingKept /\ \A w \in Workers : StillPending(w)

\* A step acknowledges no message but the one its loop is at.
AcksOwn(w) == \A id \in pending \ pending' : id \in batch[w]

LEMMA NothingKeptStep ==
    ASSUME AutoAck = Workers, TypeApp, NothingKept, NEW w \in Workers, Cases(w)
    PROVE  NothingKept'
<1> USE DEF NothingKept, TypeApp, app
<1>1. CASE Subscribe(w)
    BY <1>1 DEF Subscribe, GroupCreate
<1>2. CASE SubscribeFails(w)
    BY <1>2 DEF SubscribeFails, GroupCreate
<1>3. CASE Check(w)
    BY <1>3 DEF Check
<1>4. CASE Claim(w)
    BY <1>4 DEF Claim
<1>5. CASE ClaimReplyLost(w)
    BY <1>5 DEF ClaimReplyLost, RecordClaim
<1>6. CASE ClaimFails(w)
    BY <1>6 DEF ClaimFails
<1>7. CASE Read(w)
    BY <1>7 DEF Read, RecordRead
<1>8. CASE ReadReplyLost(w)
    BY <1>8 DEF ReadReplyLost, RecordRead
<1>9. CASE StartBlocking(w)
    BY <1>9 DEF StartBlocking
<1>10. CASE ReadTimeout(w)
    BY <1>10 DEF ReadTimeout
<1>11. CASE ReadFails(w)
    BY <1>11 DEF ReadFails
<1>12. CASE PauseEnds(w)
    BY <1>12 DEF PauseEnds
<1>13. CASE NextMessage(w)
    BY <1>13 DEF NextMessage
<1>14. CASE EndBatch(w)
    BY <1>14 DEF EndBatch
<1>15. CASE Ack(w)
    BY <1>15 DEF Ack, Advance, RecordAck
<1>16. CASE AckReplyLost(w)
    BY <1>16 DEF AckReplyLost, RecordAck
<1>17. CASE AckFails(w)
    BY <1>17 DEF AckFails, Advance
<1>18. CASE Stop(w)
    BY <1>18 DEF Stop
<1>19. CASE Crash(w)
    BY <1>19 DEF Crash
<1>20. ASSUME NEW id \in Ids, HandlerOk(w, id) PROVE NothingKept'
    BY <1>20 DEF HandlerOk, Advance
<1>21. ASSUME NEW id \in Ids, HandlerFails(w, id) PROVE NothingKept'
    BY <1>21 DEF HandlerFails, Failed, Advance
<1>22. ASSUME NEW id \in Ids, Process(w, id) PROVE NothingKept'
    BY <1>22 DEF Process, NothingKept
<1>23. ASSUME NEW id \in Ids, Abandon(w, id) PROVE NothingKept'
    BY <1>23 DEF Abandon, NothingKept
<1>24. ASSUME NEW id \in Ids, ManualAck(w, id) PROVE NothingKept'
    BY <1>24 DEF ManualAck, AckWhen, NothingKept
<1> QED
    BY <1>1, <1>2, <1>3, <1>4, <1>5, <1>6, <1>7, <1>8, <1>9, <1>10, <1>11,
       <1>12, <1>13, <1>14, <1>15, <1>16, <1>17, <1>18, <1>19, <1>20, <1>21,
       <1>22, <1>23, <1>24 DEF Cases

LEMMA AcksOnlyOwn ==
    ASSUME NothingKept, NEW w \in Workers, Cases(w)
    PROVE  AcksOwn(w)
<1> USE DEF AcksOwn, redis
<1>1. CASE Subscribe(w)
    BY <1>1 DEF Subscribe, GroupCreate
<1>2. CASE SubscribeFails(w)
    BY <1>2 DEF SubscribeFails, GroupCreate
<1>3. CASE Check(w)
    BY <1>3 DEF Check
<1>4. CASE Claim(w)
    BY <1>4 DEF Claim, RecordClaim
<1>5. CASE ClaimReplyLost(w)
    BY <1>5 DEF ClaimReplyLost, RecordClaim
<1>6. CASE ClaimFails(w)
    BY <1>6 DEF ClaimFails
<1>7. CASE Read(w)
    BY <1>7 DEF Read, RecordRead
<1>8. CASE ReadReplyLost(w)
    BY <1>8 DEF ReadReplyLost, RecordRead
<1>9. CASE StartBlocking(w)
    BY <1>9 DEF StartBlocking
<1>10. CASE ReadTimeout(w)
    BY <1>10 DEF ReadTimeout
<1>11. CASE ReadFails(w)
    BY <1>11 DEF ReadFails
<1>12. CASE PauseEnds(w)
    BY <1>12 DEF PauseEnds
<1>13. CASE NextMessage(w)
    BY <1>13 DEF NextMessage
<1>14. CASE EndBatch(w)
    BY <1>14 DEF EndBatch
<1>15. CASE Ack(w)
    BY <1>15 DEF Ack, RecordAck, IsFirst
<1>16. CASE AckReplyLost(w)
    BY <1>16 DEF AckReplyLost, RecordAck, IsFirst
<1>17. CASE AckFails(w)
    BY <1>17 DEF AckFails, Advance
<1>18. CASE Stop(w)
    BY <1>18 DEF Stop
<1>19. CASE Crash(w)
    BY <1>19 DEF Crash
<1>20. ASSUME NEW id \in Ids, HandlerOk(w, id) PROVE AcksOwn(w)
    BY <1>20 DEF HandlerOk, Advance
<1>21. ASSUME NEW id \in Ids, HandlerFails(w, id) PROVE AcksOwn(w)
    BY <1>21 DEF HandlerFails, Failed, Advance
<1>22. ASSUME NEW id \in Ids, Process(w, id) PROVE AcksOwn(w)
    BY <1>22 DEF Process, NothingKept
<1>23. ASSUME NEW id \in Ids, Abandon(w, id) PROVE AcksOwn(w)
    BY <1>23 DEF Abandon, NothingKept
<1>24. ASSUME NEW id \in Ids, ManualAck(w, id) PROVE AcksOwn(w)
    BY <1>24 DEF ManualAck, AckWhen, NothingKept
<1> QED
    BY <1>1, <1>2, <1>3, <1>4, <1>5, <1>6, <1>7, <1>8, <1>9, <1>10, <1>11,
       <1>12, <1>13, <1>14, <1>15, <1>16, <1>17, <1>18, <1>19, <1>20, <1>21,
       <1>22, <1>23, <1>24 DEF Cases

LEMMA FirstIsUnique ==
    ASSUME TypeOK, NEW w \in Workers, NEW x \in batch[w], NEW y \in batch[w],
           IsFirst(w, x), IsFirst(w, y)
    PROVE  x = y
<1>1. x \in Int /\ y \in Int /\ x <= y /\ y <= x
    BY DEF IsFirst, TypeOK, TypeLoop
<1> QED BY <1>1

LEMMA OwnStillPending ==
    ASSUME DeliveryInv, EmptyHanded, NothingKept, NEW w \in Workers, Cases(w),
           StillPending(w), AutoAck = Workers
    PROVE  StillPending(w)'
<1>0. /\ pc \in [Workers -> Places] /\ batch \in [Workers -> SUBSET Ids]
      /\ pc[w] \notin Handling => batch[w] = {}
    BY DEF DeliveryInv, TypeOK, TypeLoop, EmptyHanded
<1>N. batch'[w] = {} => StillPending(w)'
    BY DEF StillPending
<1>W. pc[w] \notin Handling /\ batch' = batch => StillPending(w)'
    BY <1>0, <1>N
<1>P. ASSUME batch'[w] \subseteq pending' PROVE StillPending(w)'
    BY <1>P DEF StillPending
<1> USE DEF Goto
<1>1. CASE Subscribe(w)
    BY <1>W, <1>1 DEF Subscribe, loop, Handling
<1>2. CASE SubscribeFails(w)
    BY <1>W, <1>2 DEF SubscribeFails, loop, Handling
<1>3. CASE Check(w)
    BY <1>W, <1>3 DEF Check, loop, Handling
<1>4. CASE Claim(w)
    <2>1. PICK next \in 0..MaxMsgs :
            RecordClaim(w, next) /\ batch' = [batch EXCEPT ![w] = Claimed(w, next)]
        BY <1>4 DEF Claim
    <2>2. batch'[w] = Claimed(w, next) /\ pending' = pending
        BY <1>0, <2>1 DEF RecordClaim
    <2> QED BY <1>P, <2>2 DEF Claimed, Scanned
<1>5. CASE ClaimReplyLost(w)
    BY <1>W, <1>5 DEF ClaimReplyLost, loop, Handling
<1>6. CASE ClaimFails(w)
    BY <1>W, <1>6 DEF ClaimFails, loop, Handling
<1>7. CASE Read(w)
    <2>1. batch'[w] = Fresh /\ Fresh \subseteq pending'
        BY <1>0, <1>7 DEF Read, RecordRead
    <2> QED BY <1>P, <2>1
<1>8. CASE ReadReplyLost(w)
    BY <1>W, <1>8 DEF ReadReplyLost, loop, Handling
<1>9. CASE StartBlocking(w)
    BY <1>W, <1>9 DEF StartBlocking, loop, Handling
<1>10. CASE ReadTimeout(w)
    BY <1>W, <1>10 DEF ReadTimeout, loop, Handling
<1>11. CASE ReadFails(w)
    BY <1>W, <1>11 DEF ReadFails, loop, Handling
<1>12. CASE PauseEnds(w)
    BY <1>W, <1>12 DEF PauseEnds, loop, Handling
<1>13. CASE NextMessage(w)
    <2>1. pc[w] = "handle" /\ batch' = batch /\ pending' = pending
        BY <1>13 DEF NextMessage, redis
    <2> QED BY <1>P, <2>1 DEF StillPending
<1>14. CASE EndBatch(w)
    <2>1. batch'[w] = {}
        BY <1>0, <1>14 DEF EndBatch
    <2> QED BY <1>N, <2>1
<1>15. CASE Ack(w)
    <2>1. PICK id \in batch[w] : IsFirst(w, id) /\ RecordAck(id) /\ Advance(w, id)
        BY <1>15 DEF Ack
    <2>2. batch'[w] = batch[w] \ {id} /\ pending' = pending \ {id}
        BY <1>0, <2>1 DEF Advance, RecordAck
    <2>3. \A other \in batch[w] : other # id => ~IsFirst(w, other)
        BY <1>0, <2>1, FirstIsUnique DEF DeliveryInv
    <2>4. \A other \in batch[w] : other # id => other \in pending
        BY <2>3 DEF StillPending
    <2> QED BY <1>P, <2>2, <2>4
<1>16. CASE AckReplyLost(w)
    <2>1. PICK id \in batch[w] : IsFirst(w, id) /\ RecordAck(id)
        BY <1>16 DEF AckReplyLost
    <2>2. batch' = batch /\ pc' = pc /\ pc[w] = "ack" /\ pending' = pending \ {id}
        BY <2>1, <1>16 DEF AckReplyLost, RecordAck, loop
    <2> QED BY <2>1, <2>2 DEF StillPending, IsFirst
<1>17. CASE AckFails(w)
    <2>1. PICK id \in batch[w] : IsFirst(w, id) /\ Advance(w, id)
        BY <1>17 DEF AckFails
    <2>2. batch'[w] = batch[w] \ {id} /\ pending' = pending
        BY <1>0, <2>1, <1>17 DEF Advance, AckFails, redis
    <2>3. \A other \in batch[w] : other # id => ~IsFirst(w, other)
        BY <1>0, <2>1, FirstIsUnique DEF DeliveryInv
    <2>4. \A other \in batch[w] : other # id => other \in pending
        BY <2>3 DEF StillPending
    <2> QED BY <1>P, <2>2, <2>4
<1>18. CASE Stop(w)
    <2>1. UNCHANGED <<pc, batch, pending>>
        BY <1>18 DEF Stop, redis
    <2> QED BY <2>1 DEF StillPending, IsFirst
<1>19. CASE Crash(w)
    <2>1. batch'[w] = {}
        BY <1>0, <1>19 DEF Crash
    <2> QED BY <1>N, <2>1
<1>20. ASSUME NEW id \in Ids, HandlerOk(w, id) PROVE StillPending(w)'
    <2>1. pc[w] = "running" /\ batch' = batch /\ pending' = pending
        BY <1>20 DEF HandlerOk, redis
    <2> QED BY <1>P, <2>1 DEF StillPending
<1>21. ASSUME NEW id \in Ids, HandlerFails(w, id) PROVE StillPending(w)'
    <2>1. pc[w] = "running" /\ batch'[w] \subseteq batch[w] /\ pending' = pending
        BY <1>0, <1>21 DEF HandlerFails, Failed, Advance, redis
    <2> QED BY <1>P, <2>1 DEF StillPending
<1>22. ASSUME NEW id \in Ids, Process(w, id) PROVE StillPending(w)'
    BY <1>22 DEF Process, NothingKept
<1>23. ASSUME NEW id \in Ids, Abandon(w, id) PROVE StillPending(w)'
    BY <1>23 DEF Abandon, NothingKept
<1>24. ASSUME NEW id \in Ids, ManualAck(w, id) PROVE StillPending(w)'
    BY <1>24 DEF ManualAck, AckWhen, NothingKept
<1> QED
    BY <1>1, <1>2, <1>3, <1>4, <1>5, <1>6, <1>7, <1>8, <1>9, <1>10, <1>11,
       <1>12, <1>13, <1>14, <1>15, <1>16, <1>17, <1>18, <1>19, <1>20, <1>21,
       <1>22, <1>23, <1>24 DEF Cases

LEMMA OthersStillPending ==
    ASSUME AckedInv, NEW w \in Workers, Cases(w), NEW v \in Workers \ {w}
    PROVE  StillPending(v)'
<1>1. pc'[v] = pc[v] /\ batch'[v] = batch[v]
    BY OthersStay DEF AckedInv, HandlingInv, Others
<1>2. \A id \in batch[v] : id \notin batch[w]
    BY DEF AckedInv, HandlingInv, ExclusiveHandling
<1>3. \A id \in batch[v] : id \in pending => id \in pending'
    BY <1>2, AcksOnlyOwn DEF AckedInv, AcksOwn
<1>4. \A id : IsFirst(v, id) => IsFirst(v, id)'
    BY <1>1 DEF IsFirst
<1>5. StillPending(v)
    BY DEF AckedInv
<1> QED BY <1>1, <1>3, <1>4, <1>5 DEF StillPending

THEOREM AckedInvariant ==
    ASSUME MaxHandling < MinIdle, AutoAck = Workers PROVE Spec => []AckedInv
<1>1. Init /\ HandlingInv => AckedInv
    BY DEF Init, AckedInv, NothingKept, StillPending
<1>2. AckedInv /\ HandlingInv' /\ [Next]_vars => AckedInv'
    <2> SUFFICES ASSUME AckedInv, HandlingInv', [Next]_vars PROVE AckedInv'
        OBVIOUS
    <2>0. /\ HandlingInv /\ NothingKept /\ DeliveryInv /\ EmptyHanded /\ TypeApp
          /\ \A w \in Workers : StillPending(w)
        BY DEF AckedInv, HandlingInv, DeliveryInv, TypeOK
    <2>1. CASE UNCHANGED vars \/ Publish \/ Tick
        <3>1. UNCHANGED <<pc, batch, pending, held, finished>>
            BY <2>1 DEF vars, Publish, Tick, loop, app
        <3>2. NothingKept'
            BY <2>0, <3>1 DEF NothingKept
        <3>3. \A w \in Workers : StillPending(w)'
            BY <2>0, <3>1 DEF StillPending, IsFirst
        <3> QED BY <3>2, <3>3 DEF AckedInv
    <2>2. ASSUME NEW w \in Workers, Cases(w) PROVE AckedInv'
        <3>1. NothingKept'
            BY <2>0, <2>2, NothingKeptStep
        <3>2. StillPending(w)'
            BY <2>0, <2>2, OwnStillPending
        <3>3. \A v \in Workers \ {w} : StillPending(v)'
            BY <2>2, OthersStillPending
        <3> QED BY <3>1, <3>2, <3>3 DEF AckedInv
    <2> QED BY <2>1, <2>2, NextCases
<1> QED BY <1>1, <1>2, HandlingInvariant, PTL DEF Spec

\* If every batch is handled and acknowledged before its messages count as
\* idle and all subscriptions acknowledge automatically, no loop is about to
\* hand a handler, or has in its handler, a message that has been acknowledged.
THEOREM AckedIsNotHandled ==
    ASSUME MaxHandling < MinIdle, AutoAck = Workers
    PROVE  Spec => []NeverHandlesAcked
<1>1. AckedInv => NeverHandlesAcked
    BY DEF AckedInv, StillPending, NeverHandlesAcked
<1> QED BY <1>1, AckedInvariant, PTL
=============================================================================
