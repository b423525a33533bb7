------------------------ MODULE NatsSubscriberProofs ------------------------
(***************************************************************************)
(* Proofs about NatsSubscriber for every number of subscriptions, of       *)
(* messages, of retries and of restarts.                                   *)
(***************************************************************************)
EXTENDS NatsSubscriber, FiniteSetTheorems, TLAPS

\* The subscriptions whose callback is past the guard.
Handling == {s \in Subs : cb[s] \in Busy}

\* The wait group counts them, so no Done brings it below zero.
WaitGroupCounts == IsFiniteSet(Handling) /\ wg = Cardinality(Handling)

\* The JetStream context is set exactly while a connection is, in that mode, and
\* Stop works on a connection.
ContextFollowsConn ==
    /\ js = (conn # 0 /\ jetStream)
    /\ conn # 0 => starts >= 1
    /\ stopPc # "idle" => stopConn # 0

\* What a callback at work has been given; it was let in by a connection.
CallbackShape ==
    \A s \in Subs :
        /\ cb[s] # "idle" => cur[s] \in Msgs
        /\ cb[s] \in Busy => starts >= 1
        /\ cb[s] = "nodlq" => ~hasDLQ

\* The condition under which acknowledgements are trusted.
Trusted == hasDLQ \/ starts <= 1

\* A callback that reaches the Ack has settled its message, or gets there from
\* the missing DLQ with a js that was nil and stays so.
AckJustified ==
    Trusted => \A s \in Subs :
        /\ cb[s] = "ack" => \/ cur[s] \in settled[s]
                            \/ ~hasDLQ /\ ~js
        /\ cb[s] = "acking" => cur[s] \in settled[s]

\* The conjunction that every step preserves.
IndInv ==
    /\ TypeOK /\ WaitGroupCounts /\ ContextFollowsConn /\ CallbackShape
    /\ AckJustified /\ AckedOnlySettled

-----------------------------------------------------------------------------
\* Before the first Start the inductive invariant holds.
LEMMA InitInv == Init => IndInv
  <1> SUFFICES ASSUME Init PROVE IndInv
    OBVIOUS
  <1> USE SubscriberAssumption DEF Init
  <1>1. Handling = {}
    BY DEF Handling, Busy
  <1>2. WaitGroupCounts
    BY <1>1, FS_EmptySet DEF WaitGroupCounts
  <1>3. js \in BOOLEAN
    BY Zenon
  <1>4. TypeOK
    BY <1>3 DEF TypeOK
  <1>5. ContextFollowsConn /\ CallbackShape /\ AckJustified /\ AckedOnlySettled
    BY DEF ContextFollowsConn, CallbackShape, AckJustified, AckedOnlySettled, Busy
  <1> QED
    BY <1>2, <1>4, <1>5 DEF IndInv

\* A callback that is let in adds one to the wait group.
LEMMA EnterCounts ==
    ASSUME TypeOK, WaitGroupCounts, NEW s \in Subs, cb[s] \notin Busy, NEW v \in Busy,
           cb' = [cb EXCEPT ![s] = v], wg' = wg + 1
    PROVE  WaitGroupCounts' /\ wg' \in Nat
  <1>1. Handling' = Handling \cup {s} /\ s \notin Handling
    BY DEF Handling, TypeOK
  <1>2. IsFiniteSet(Handling \cup {s}) /\ Cardinality(Handling \cup {s}) = Cardinality(Handling) + 1
    BY <1>1, FS_AddElement DEF WaitGroupCounts
  <1> QED
    BY <1>1, <1>2 DEF WaitGroupCounts, TypeOK

\* A callback that returns takes one away, and there is one to take.
LEMMA FinishCounts ==
    ASSUME TypeOK, WaitGroupCounts, NEW s \in Subs, cb[s] \in Busy, Finish(s)
    PROVE  WaitGroupCounts' /\ wg' \in Nat
  <1>1. Handling' = Handling \ {s} /\ s \in Handling
    BY DEF Handling, TypeOK, Finish, Busy
  <1>2. IsFiniteSet(Handling \ {s}) /\ Cardinality(Handling \ {s}) = Cardinality(Handling) - 1
    BY <1>1, FS_RemoveElement DEF WaitGroupCounts
  <1>3. Cardinality(Handling \ {s}) \in Nat
    BY <1>2, FS_CardinalityType
  <1> QED
    BY <1>1, <1>2, <1>3 DEF WaitGroupCounts, Finish

\* A callback that stays at work, or stays out, leaves the count alone.
LEMMA StayCounts ==
    ASSUME TypeOK, WaitGroupCounts, NEW s \in Subs, NEW v, cb[s] \in Busy <=> v \in Busy,
           cb' = [cb EXCEPT ![s] = v], wg' = wg
    PROVE  WaitGroupCounts' /\ wg' \in Nat
  <1>1. Handling' = Handling
    BY DEF Handling, TypeOK
  <1> QED
    BY <1>1 DEF WaitGroupCounts, TypeOK

\* Steps outside the callbacks leave the count alone.
LEMMA FrameCounts ==
    ASSUME TypeOK, WaitGroupCounts, UNCHANGED <<cb, wg>>
    PROVE  WaitGroupCounts' /\ wg' \in Nat
  BY DEF WaitGroupCounts, Handling, TypeOK

\* The wait group counts the callbacks at work whatever happens.
LEMMA CountsStep == IndInv /\ [Next]_vars => WaitGroupCounts' /\ wg' \in Nat
  <1> SUFFICES ASSUME IndInv, [Next]_vars PROVE WaitGroupCounts' /\ wg' \in Nat
    OBVIOUS
  <1>i. TypeOK /\ WaitGroupCounts
    BY DEF IndInv
  <1>1. ASSUME NEW s \in Subs, CallbackGuard(s) PROVE WaitGroupCounts' /\ wg' \in Nat
    BY <1>1, <1>i, EnterCounts DEF CallbackGuard, Busy
  <1>2. ASSUME NEW s \in Subs, CallbackDropped(s) PROVE WaitGroupCounts' /\ wg' \in Nat
    BY <1>2, <1>i, StayCounts DEF CallbackDropped, fieldVars, Busy
  <1>3. ASSUME NEW s \in Subs, HandlerReturns(s) \/ BackoffElapses(s) \/ DlqPublished(s)
        PROVE  WaitGroupCounts' /\ wg' \in Nat
    <2>1. PICK v \in {"ack", "retry", "dlq", "nodlq", "handle"} : cb' = [cb EXCEPT ![s] = v]
      BY <1>3 DEF HandlerReturns, HandlerSucceeds, HandlerFails, BackoffElapses, DlqPublished
    <2>2. cb[s] \in {"handle", "retry", "dlq"} /\ wg' = wg
      BY <1>3 DEF HandlerReturns, HandlerSucceeds, HandlerFails, BackoffElapses, DlqPublished,
                  fieldVars
    <2>3. cb[s] \in Busy <=> v \in Busy
      BY <2>1, <2>2 DEF Busy
    <2> QED
      BY <2>1, <2>2, <2>3, <1>i, StayCounts
  <1>4. ASSUME NEW s \in Subs, NoDlq(s) PROVE WaitGroupCounts' /\ wg' \in Nat
    <2>1. PICK v \in {"nak", "ack"} : cb' = [cb EXCEPT ![s] = v]
      BY <1>4 DEF NoDlq
    <2>2. wg' = wg /\ (cb[s] \in Busy <=> v \in Busy)
      BY <1>4, <2>1 DEF NoDlq, fieldVars, Busy
    <2> QED
      BY <2>1, <2>2, <1>i, StayCounts
  <1>5. ASSUME NEW s \in Subs, DlqFails(s) \/ AckRead(s) PROVE WaitGroupCounts' /\ wg' \in Nat
    <2>1. cb[s] \in Busy
      BY <1>5 DEF DlqFails, AckRead, Busy
    <2>2. CASE Finish(s)
      BY <2>1, <2>2, <1>i, FinishCounts
    <2>3. CASE ~Finish(s)
      <3>1. PICK v \in {"nak", "acking"} : cb' = [cb EXCEPT ![s] = v]
        BY <1>5, <2>3 DEF DlqFails, AckRead
      <3>2. wg' = wg /\ v \in Busy
        BY <1>5, <2>3, <3>1 DEF DlqFails, AckRead, Busy
      <3> QED
        BY <2>1, <3>1, <3>2, <1>i, StayCounts
    <2> QED
      BY <2>2, <2>3
  <1>6. ASSUME NEW s \in Subs, Ack(s) \/ Nak(s) PROVE WaitGroupCounts' /\ wg' \in Nat
    <2>1. cb[s] \in Busy /\ Finish(s)
      BY <1>6 DEF Ack, Nak, Busy
    <2> QED
      BY <2>1, <1>i, FinishCounts
  <1>7. ASSUME NEW s \in Subs, NEW m \in Msgs, CallbackBegin(s, m)
        PROVE  WaitGroupCounts' /\ wg' \in Nat
    BY <1>7, <1>i, StayCounts DEF CallbackBegin, fieldVars, Busy
  <1>8. CASE \/ Start \/ StopRead \/ StopStep \/ UNCHANGED vars
             \/ \E s \in Subs : SubscribeStep(s)
             \/ \E s \in Subs, m \in Msgs : Deliver(s, m) \/ AckWaitExpires(s, m)
    <2>1. UNCHANGED <<cb, wg>>
      BY <1>8 DEF Start, StopRead, StopStep, StopWoken, StopDrainSub, StopDrained,
                  StopDrainConn, StopClear, SubscribeStep, SubscribeRead, SubscribeCreate,
                  SubscribeRecord, Deliver, AckWaitExpires, fieldVars, cbVars, vars
    <2> QED
      BY <2>1, <1>i, FrameCounts
  <1> QED
    BY <1>1, <1>2, <1>3, <1>4, <1>5, <1>6, <1>7, <1>8 DEF Next, CallbackStep

\* The values keep their types.
LEMMA TypesStep == IndInv /\ [Next]_vars => TypeOK'
  <1> SUFFICES ASSUME IndInv, [Next]_vars PROVE TypeOK'
    OBVIOUS
  <1>w. wg' \in Nat
    BY CountsStep
  <1> USE <1>w, SubscriberAssumption
  <1> USE DEF IndInv, TypeOK, CallbackShape, ContextFollowsConn, Busy, options, fieldVars, cbVars,
        callVars, stopVars, netVars
  <1>1. ASSUME NEW s \in Subs, SubscribeRead(s) PROVE TypeOK'
    BY <1>1 DEF SubscribeRead
  <1>2. ASSUME NEW s \in Subs, SubscribeCreate(s) PROVE TypeOK'
    BY <1>2 DEF SubscribeCreate
  <1>3. ASSUME NEW s \in Subs, SubscribeRecord(s) PROVE TypeOK'
    BY <1>3 DEF SubscribeRecord
  <1>4. ASSUME NEW s \in Subs, CallbackGuard(s) PROVE TypeOK'
    BY <1>4 DEF CallbackGuard
  <1>5. ASSUME NEW s \in Subs, CallbackDropped(s) PROVE TypeOK'
    BY <1>5 DEF CallbackDropped
  <1>6. ASSUME NEW s \in Subs, HandlerSucceeds(s) PROVE TypeOK'
    BY <1>6 DEF HandlerSucceeds
  <1>7. ASSUME NEW s \in Subs, HandlerFails(s) PROVE TypeOK'
    <2>1. attempt[s] + 1 \in 0..(1 + MaxRetries)
      BY <1>7 DEF HandlerFails
    <2>2. attempt' \in [Subs -> 0..(1 + MaxRetries)]
      BY <1>7, <2>1 DEF HandlerFails
    <2> QED
      BY <1>7, <2>2 DEF HandlerFails
  <1>8. ASSUME NEW s \in Subs, BackoffElapses(s) PROVE TypeOK'
    BY <1>8 DEF BackoffElapses
  <1>9. ASSUME NEW s \in Subs, NoDlq(s) PROVE TypeOK'
    BY <1>9 DEF NoDlq
  <1>10. ASSUME NEW s \in Subs, DlqPublished(s) PROVE TypeOK'
    BY <1>10 DEF DlqPublished
  <1>11. ASSUME NEW s \in Subs, DlqFails(s) PROVE TypeOK'
    BY <1>11 DEF DlqFails, Finish
  <1>12. ASSUME NEW s \in Subs, AckRead(s) PROVE TypeOK'
    BY <1>12 DEF AckRead, Finish
  <1>13. ASSUME NEW s \in Subs, Ack(s) PROVE TypeOK'
    <2>1. s \in Subs /\ cur[s] \in Msgs
      BY <1>13 DEF Ack, Tell, Finish
    <2>2. server' \in [Subs -> [Msgs -> {"new", "sent", "acked"}]]
      <3>1. CASE UNCHANGED server
        BY <3>1
      <3>2. CASE \E v \in {"new", "acked"} : server' = [server EXCEPT ![s][cur[s]] = v]
        BY <2>1, <3>2
      <3> QED
        BY <1>13, <3>1, <3>2 DEF Ack, Tell, Finish
    <2> QED
      BY <1>13, <2>2 DEF Ack, Tell, Finish
  <1>14. ASSUME NEW s \in Subs, Nak(s) PROVE TypeOK'
    <2>1. s \in Subs /\ cur[s] \in Msgs
      BY <1>14 DEF Nak, Tell, Finish
    <2>2. server' \in [Subs -> [Msgs -> {"new", "sent", "acked"}]]
      <3>1. CASE UNCHANGED server
        BY <3>1
      <3>2. CASE \E v \in {"new", "acked"} : server' = [server EXCEPT ![s][cur[s]] = v]
        BY <2>1, <3>2
      <3> QED
        BY <1>14, <3>1, <3>2 DEF Nak, Tell, Finish
    <2> QED
      BY <1>14, <2>2 DEF Nak, Tell, Finish
  <1>15. ASSUME NEW s \in Subs, StopDrainSub(s) PROVE TypeOK'
    BY <1>15 DEF StopDrainSub
  <1>16. ASSUME NEW s \in Subs, NEW m \in Msgs, CallbackBegin(s, m) PROVE TypeOK'
    BY <1>16 DEF CallbackBegin
  <1>17. ASSUME NEW s \in Subs, NEW m \in Msgs, Deliver(s, m) PROVE TypeOK'
    BY <1>17 DEF Deliver
  <1>18. ASSUME NEW s \in Subs, NEW m \in Msgs, AckWaitExpires(s, m) PROVE TypeOK'
    BY <1>18 DEF AckWaitExpires
  <1>19. CASE Start
    BY <1>19 DEF Start
  <1>20. CASE StopRead
    BY <1>20 DEF StopRead
  <1>21. CASE StopDrained
    BY <1>21 DEF StopDrained
  <1>22. CASE StopWoken
    BY <1>22 DEF StopWoken
  <1>23. CASE StopDrainConn
    BY <1>23 DEF StopDrainConn
  <1>24. CASE StopClear
    <2>1. js' \in BOOLEAN
      BY <1>24, Zenon DEF StopClear
    <2> QED
      BY <1>24, <2>1 DEF StopClear
  <1>25. CASE UNCHANGED vars
    BY <1>25 DEF vars
  <1> QED
    BY <1>1, <1>2, <1>3, <1>4, <1>5, <1>6, <1>7, <1>8, <1>9, <1>10, <1>11, <1>12,
       <1>13, <1>14, <1>15, <1>16, <1>17, <1>18, <1>19, <1>20, <1>21, <1>22, <1>23,
       <1>24, <1>25
    DEF Next, SubscribeStep, CallbackStep, HandlerReturns, StopStep

\* The context follows the connection, and callbacks work on messages they were given.
LEMMA ShapeStep == IndInv /\ [Next]_vars => ContextFollowsConn' /\ CallbackShape'
  <1> SUFFICES ASSUME IndInv, [Next]_vars PROVE ContextFollowsConn' /\ CallbackShape'
    OBVIOUS
  <1> USE SubscriberAssumption
  <1> USE DEF IndInv, TypeOK, CallbackShape, ContextFollowsConn, Busy, options, fieldVars, cbVars,
        callVars, stopVars, netVars
  <1>1. ASSUME NEW s \in Subs, SubscribeRead(s) PROVE ContextFollowsConn' /\ CallbackShape'
    BY <1>1 DEF SubscribeRead
  <1>2. ASSUME NEW s \in Subs, SubscribeCreate(s) PROVE ContextFollowsConn' /\ CallbackShape'
    BY <1>2 DEF SubscribeCreate
  <1>3. ASSUME NEW s \in Subs, SubscribeRecord(s) PROVE ContextFollowsConn' /\ CallbackShape'
    BY <1>3 DEF SubscribeRecord
  <1>4. ASSUME NEW s \in Subs, CallbackGuard(s) PROVE ContextFollowsConn' /\ CallbackShape'
    BY <1>4 DEF CallbackGuard
  <1>5. ASSUME NEW s \in Subs, CallbackDropped(s) PROVE ContextFollowsConn' /\ CallbackShape'
    BY <1>5 DEF CallbackDropped
  <1>6. ASSUME NEW s \in Subs, HandlerSucceeds(s) PROVE ContextFollowsConn' /\ CallbackShape'
    BY <1>6 DEF HandlerSucceeds
  <1>7. ASSUME NEW s \in Subs, HandlerFails(s) PROVE ContextFollowsConn' /\ CallbackShape'
    BY <1>7 DEF HandlerFails
  <1>8. ASSUME NEW s \in Subs, BackoffElapses(s) PROVE ContextFollowsConn' /\ CallbackShape'
    BY <1>8 DEF BackoffElapses
  <1>9. ASSUME NEW s \in Subs, NoDlq(s) PROVE ContextFollowsConn' /\ CallbackShape'
    BY <1>9 DEF NoDlq
  <1>10. ASSUME NEW s \in Subs, DlqPublished(s) PROVE ContextFollowsConn' /\ CallbackShape'
    BY <1>10 DEF DlqPublished
  <1>11. ASSUME NEW s \in Subs, DlqFails(s) PROVE ContextFollowsConn' /\ CallbackShape'
    BY <1>11 DEF DlqFails, Finish
  <1>12. ASSUME NEW s \in Subs, AckRead(s) PROVE ContextFollowsConn' /\ CallbackShape'
    BY <1>12 DEF AckRead, Finish
  <1>13. ASSUME NEW s \in Subs, Ack(s) PROVE ContextFollowsConn' /\ CallbackShape'
    BY <1>13 DEF Ack, Tell, Finish
  <1>14. ASSUME NEW s \in Subs, Nak(s) PROVE ContextFollowsConn' /\ CallbackShape'
    BY <1>14 DEF Nak, Tell, Finish
  <1>15. ASSUME NEW s \in Subs, StopDrainSub(s) PROVE ContextFollowsConn' /\ CallbackShape'
    BY <1>15 DEF StopDrainSub
  <1>16. ASSUME NEW s \in Subs, NEW m \in Msgs, CallbackBegin(s, m) PROVE ContextFollowsConn' /\ CallbackShape'
    BY <1>16 DEF CallbackBegin
  <1>17. ASSUME NEW s \in Subs, NEW m \in Msgs, Deliver(s, m) PROVE ContextFollowsConn' /\ CallbackShape'
    BY <1>17 DEF Deliver
  <1>18. ASSUME NEW s \in Subs, NEW m \in Msgs, AckWaitExpires(s, m) PROVE ContextFollowsConn' /\ CallbackShape'
    BY <1>18 DEF AckWaitExpires
  <1>19. CASE Start
    BY <1>19 DEF Start
  <1>20. CASE StopRead
    BY <1>20 DEF StopRead
  <1>21. CASE StopDrained
    BY <1>21 DEF StopDrained
  <1>22. CASE StopWoken
    BY <1>22 DEF StopWoken
  <1>23. CASE StopDrainConn
    BY <1>23 DEF StopDrainConn
  <1>24. CASE StopClear
    BY <1>24 DEF StopClear
  <1>25. CASE UNCHANGED vars
    BY <1>25 DEF vars
  <1> QED
    BY <1>1, <1>2, <1>3, <1>4, <1>5, <1>6, <1>7, <1>8, <1>9, <1>10, <1>11, <1>12,
       <1>13, <1>14, <1>15, <1>16, <1>17, <1>18, <1>19, <1>20, <1>21, <1>22, <1>23,
       <1>24, <1>25
    DEF Next, SubscribeStep, CallbackStep, HandlerReturns, StopStep

\* An acknowledgement is asked for and told for settled messages only.
LEMMA AckStep == IndInv /\ [Next]_vars => AckJustified' /\ AckedOnlySettled'
  <1> SUFFICES ASSUME IndInv, [Next]_vars PROVE AckJustified' /\ AckedOnlySettled'
    OBVIOUS
  <1> USE SubscriberAssumption
  <1> USE DEF IndInv, TypeOK, CallbackShape, ContextFollowsConn, AckJustified, AckedOnlySettled,
        Trusted, Busy, options, fieldVars, cbVars, callVars, stopVars, netVars
  <1>1. ASSUME NEW s \in Subs, SubscribeRead(s) PROVE AckJustified' /\ AckedOnlySettled'
    BY <1>1 DEF SubscribeRead
  <1>2. ASSUME NEW s \in Subs, SubscribeCreate(s) PROVE AckJustified' /\ AckedOnlySettled'
    BY <1>2 DEF SubscribeCreate
  <1>3. ASSUME NEW s \in Subs, SubscribeRecord(s) PROVE AckJustified' /\ AckedOnlySettled'
    BY <1>3 DEF SubscribeRecord
  <1>4. ASSUME NEW s \in Subs, CallbackGuard(s) PROVE AckJustified' /\ AckedOnlySettled'
    BY <1>4 DEF CallbackGuard
  <1>5. ASSUME NEW s \in Subs, CallbackDropped(s) PROVE AckJustified' /\ AckedOnlySettled'
    BY <1>5 DEF CallbackDropped
  <1>6. ASSUME NEW s \in Subs, HandlerSucceeds(s) PROVE AckJustified' /\ AckedOnlySettled'
    BY <1>6 DEF HandlerSucceeds
  <1>7. ASSUME NEW s \in Subs, HandlerFails(s) PROVE AckJustified' /\ AckedOnlySettled'
    BY <1>7 DEF HandlerFails
  <1>8. ASSUME NEW s \in Subs, BackoffElapses(s) PROVE AckJustified' /\ AckedOnlySettled'
    BY <1>8 DEF BackoffElapses
  <1>9. ASSUME NEW s \in Subs, NoDlq(s) PROVE AckJustified' /\ AckedOnlySettled'
    BY <1>9 DEF NoDlq
  <1>10. ASSUME NEW s \in Subs, DlqPublished(s) PROVE AckJustified' /\ AckedOnlySettled'
    BY <1>10 DEF DlqPublished
  <1>11. ASSUME NEW s \in Subs, DlqFails(s) PROVE AckJustified' /\ AckedOnlySettled'
    BY <1>11 DEF DlqFails, Finish
  <1>12. ASSUME NEW s \in Subs, AckRead(s) PROVE AckJustified' /\ AckedOnlySettled'
    BY <1>12 DEF AckRead, Finish
  <1>13. ASSUME NEW s \in Subs, Ack(s) PROVE AckJustified' /\ AckedOnlySettled'
    BY <1>13 DEF Ack, Tell, Finish
  <1>14. ASSUME NEW s \in Subs, Nak(s) PROVE AckJustified' /\ AckedOnlySettled'
    <2>1. /\ cb' = [cb EXCEPT ![s] = "idle"]
          /\ UNCHANGED <<js, hasDLQ, starts, cur, settled>>
      BY <1>14 DEF Nak, Tell, Finish
    <2>2. AckJustified'
      BY <2>1
    <2>3. \A r \in Subs, m \in Msgs : server'[r][m] = "acked" => server[r][m] = "acked"
      BY <1>14 DEF Nak, Tell, Finish
    <2> QED
      BY <2>1, <2>2, <2>3
  <1>15. ASSUME NEW s \in Subs, StopDrainSub(s) PROVE AckJustified' /\ AckedOnlySettled'
    BY <1>15 DEF StopDrainSub
  <1>16. ASSUME NEW s \in Subs, NEW m \in Msgs, CallbackBegin(s, m) PROVE AckJustified' /\ AckedOnlySettled'
    BY <1>16 DEF CallbackBegin
  <1>17. ASSUME NEW s \in Subs, NEW m \in Msgs, Deliver(s, m) PROVE AckJustified' /\ AckedOnlySettled'
    BY <1>17 DEF Deliver
  <1>18. ASSUME NEW s \in Subs, NEW m \in Msgs, AckWaitExpires(s, m) PROVE AckJustified' /\ AckedOnlySettled'
    BY <1>18 DEF AckWaitExpires
  <1>19. CASE Start
    BY <1>19 DEF Start
  <1>20. CASE StopRead
    BY <1>20 DEF StopRead
  <1>21. CASE StopDrained
    BY <1>21 DEF StopDrained
  <1>22. CASE StopWoken
    BY <1>22 DEF StopWoken
  <1>23. CASE StopDrainConn
    BY <1>23 DEF StopDrainConn
  <1>24. CASE StopClear
    BY <1>24 DEF StopClear
  <1>25. CASE UNCHANGED vars
    BY <1>25 DEF vars
  <1> QED
    BY <1>1, <1>2, <1>3, <1>4, <1>5, <1>6, <1>7, <1>8, <1>9, <1>10, <1>11, <1>12,
       <1>13, <1>14, <1>15, <1>16, <1>17, <1>18, <1>19, <1>20, <1>21, <1>22, <1>23,
       <1>24, <1>25
    DEF Next, SubscribeStep, CallbackStep, HandlerReturns, StopStep

-----------------------------------------------------------------------------
\* The inductive invariant holds throughout: for every number of subscriptions,
\* messages, retries and restarts and every interleaving with Stop.
THEOREM Invariance == Safety => []IndInv
  <1>1. IndInv /\ [Next]_vars => IndInv'
    BY CountsStep, TypesStep, ShapeStep, AckStep DEF IndInv
  <1> QED
    BY InitInv, <1>1, PTL DEF Safety

\* Type correctness; in particular the wait group never goes below zero, which
\* would be a panic.
THEOREM TypeCorrect == Safety => []TypeOK
  <1>1. IndInv => TypeOK
    BY DEF IndInv
  <1> QED
    BY Invariance, <1>1, PTL

\* The server forgets only messages that were handled or dead-lettered, with a
\* DLQ through any number of restarts, without one as long as there is none.
THEOREM OnlySettledAcked == Safety => []AckedOnlySettled
  <1>1. IndInv => AckedOnlySettled
    BY DEF IndInv
  <1> QED
    BY Invariance, <1>1, PTL

=============================================================================
