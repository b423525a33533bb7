------------------------ MODULE KafkaConsumerProofs ------------------------
(***************************************************************************)
(* Proofs about KafkaConsumer for any number of subscriptions, messages,   *)
(* retries and crashes.                                                    *)
(***************************************************************************)
EXTENDS KafkaConsumer, FiniteSetTheorems, TLAPS

\* What the invariant speaks about: the loops and the log, not Stop.
core == <<hasDLQ, sub, loop, cur, attempt, logVars>>

CoreTypes ==
    /\ sub \in [Subs -> {"none", "registered", "running"}]
    /\ loop \in [Subs -> LoopStates]
    /\ cur \in [Subs -> Nat]
    /\ attempt \in [Subs -> 0..Attempts]
    /\ LogTypes

\* The message being processed is the last one the reader delivered, the
\* group's offset is never ahead of the reader, and it has not passed the
\* message being processed.
LoopShape ==
    \A s \in Subs :
        /\ loop[s] # "none" => sub[s] = "running"
        /\ loop[s] = "handle" => attempt[s] <= MaxRetries
        /\ loop[s] \in Processing => cur[s] + 1 = pos[s] /\ committed[s] <= cur[s]
        /\ committed[s] <= pos[s]

\* Every message the reader has delivered since it was created, or that was
\* committed before, is accounted for or is the one being processed.
DeliveredAccounted ==
    \A s \in Subs : sub[s] # "none" =>
        \A o \in Offsets : o < pos[s] =>
            \/ o \in settled[s] \cup abandoned[s]
            \/ loop[s] \in Processing /\ o = cur[s]

\* The conjunction that every step preserves.
CoreInv ==
    CoreTypes /\ LoopShape /\ RetryBudget /\ DeliveredAccounted /\ CommitAccountsForAll

-----------------------------------------------------------------------------
\* The invariant holds before anything is subscribed.
LEMMA InitCore == Init => CoreInv
  BY ConsumerAssumption
  DEF Init, CoreInv, CoreTypes, LogTypes, LoopShape, RetryBudget, DeliveredAccounted,
      CommitAccountsForAll, LoopStates, Processing, Offsets, Attempts

\* Stop and the cancellations touch neither the loops' locals nor the log.
LEMMA CoreFrame ==
    \/ StopSnapshot \/ StopStep
    \/ \E s \in Subs : ParentCancel(s)
    \/ UNCHANGED vars
    => UNCHANGED core
  BY DEF StopSnapshot, StopStep, StopCancel, StopCancelled, StopClose, StopClosed,
         StopReturns, ParentCancel, core, vars, loopVars, logVars, envVars

\* The loops and the log keep their types.
LEMMA CoreTypesStep == CoreInv /\ [Next]_vars => CoreTypes'
  <1> SUFFICES ASSUME CoreInv, [Next]_vars PROVE CoreTypes'
    OBVIOUS
  <1> USE ConsumerAssumption
  <1> USE DEF CoreInv, CoreTypes, LogTypes, LoopShape, LoopStates, Processing, Attempts,
             Offsets, logVars, envVars
  <1>1. ASSUME NEW s \in Subs, Subscribe(s) PROVE CoreTypes'
    BY <1>1 DEF Subscribe
  <1>2. ASSUME NEW s \in Subs, StartLoop(s) PROVE CoreTypes'
    BY <1>2 DEF StartLoop
  <1>3. ASSUME NEW s \in Subs, FetchMessage(s) PROVE CoreTypes'
    BY <1>3 DEF FetchMessage
  <1>4. ASSUME NEW s \in Subs, FetchEnds(s) PROVE CoreTypes'
    BY <1>4 DEF FetchEnds, ExitLoop
  <1>5. ASSUME NEW s \in Subs, FetchBreaks(s) PROVE CoreTypes'
    BY <1>5 DEF FetchBreaks, ExitLoop
  <1>6. ASSUME NEW s \in Subs, HandlerSucceeds(s) PROVE CoreTypes'
    BY <1>6 DEF HandlerSucceeds, Settle
  <1>7. ASSUME NEW s \in Subs, HandlerFails(s) PROVE CoreTypes'
    BY <1>7 DEF HandlerFails, Settle
  <1>8. ASSUME NEW s \in Subs, BackoffElapses(s) PROVE CoreTypes'
    BY <1>8 DEF BackoffElapses
  <1>9. ASSUME NEW s \in Subs, BackoffCancelled(s) PROVE CoreTypes'
    BY <1>9 DEF BackoffCancelled, Abandon, Leave
  <1>10. ASSUME NEW s \in Subs, DlqPublished(s) PROVE CoreTypes'
    BY <1>10 DEF DlqPublished, Settle
  <1>11. ASSUME NEW s \in Subs, DlqFails(s) PROVE CoreTypes'
    BY <1>11 DEF DlqFails, Abandon, Leave
  <1>12. ASSUME NEW s \in Subs, CommitMessage(s) PROVE CoreTypes'
    BY <1>12 DEF CommitMessage, Leave
  <1>13. ASSUME NEW s \in Subs, CommitFails(s) PROVE CoreTypes'
    BY <1>13 DEF CommitFails, Leave
  <1>14. CASE Crash
    BY <1>14 DEF Crash
  <1>15. CASE UNCHANGED core
    BY <1>15 DEF core
  <1> QED
    BY <1>1, <1>2, <1>3, <1>4, <1>5, <1>6, <1>7, <1>8,
       <1>9, <1>10, <1>11, <1>12, <1>13, <1>14, <1>15, CoreFrame
    DEF Next, LoopStep, HandlerReturns

\* The reader, the message in flight and the group offset move together.
LEMMA LoopShapeStep == CoreInv /\ [Next]_vars => LoopShape'
  <1> SUFFICES ASSUME CoreInv, [Next]_vars PROVE LoopShape'
    OBVIOUS
  <1> USE ConsumerAssumption
  <1> USE DEF CoreInv, CoreTypes, LogTypes, LoopShape, LoopStates, Processing, Attempts,
             logVars, envVars
  <1>1. ASSUME NEW s \in Subs, Subscribe(s) PROVE LoopShape'
    BY <1>1 DEF Subscribe
  <1>2. ASSUME NEW s \in Subs, StartLoop(s) PROVE LoopShape'
    BY <1>2 DEF StartLoop
  <1>3. ASSUME NEW s \in Subs, FetchMessage(s) PROVE LoopShape'
    BY <1>3 DEF FetchMessage
  <1>4. ASSUME NEW s \in Subs, FetchEnds(s) PROVE LoopShape'
    BY <1>4 DEF FetchEnds, ExitLoop
  <1>5. ASSUME NEW s \in Subs, FetchBreaks(s) PROVE LoopShape'
    BY <1>5 DEF FetchBreaks, ExitLoop
  <1>6. ASSUME NEW s \in Subs, HandlerSucceeds(s) PROVE LoopShape'
    BY <1>6 DEF HandlerSucceeds, Settle
  <1>7. ASSUME NEW s \in Subs, HandlerFails(s) PROVE LoopShape'
    BY <1>7 DEF HandlerFails, Settle
  <1>8. ASSUME NEW s \in Subs, BackoffElapses(s) PROVE LoopShape'
    BY <1>8 DEF BackoffElapses, RetryBudget
  <1>9. ASSUME NEW s \in Subs, BackoffCancelled(s) PROVE LoopShape'
    BY <1>9 DEF BackoffCancelled, Abandon, Leave
  <1>10. ASSUME NEW s \in Subs, DlqPublished(s) PROVE LoopShape'
    BY <1>10 DEF DlqPublished, Settle
  <1>11. ASSUME NEW s \in Subs, DlqFails(s) PROVE LoopShape'
    BY <1>11 DEF DlqFails, Abandon, Leave
  <1>12. ASSUME NEW s \in Subs, CommitMessage(s) PROVE LoopShape'
    BY <1>12 DEF CommitMessage, Leave
  <1>13. ASSUME NEW s \in Subs, CommitFails(s) PROVE LoopShape'
    BY <1>13 DEF CommitFails, Leave
  <1>14. CASE Crash
    BY <1>14 DEF Crash
  <1>15. CASE UNCHANGED core
    BY <1>15 DEF core
  <1> QED
    BY <1>1, <1>2, <1>3, <1>4, <1>5, <1>6, <1>7, <1>8,
       <1>9, <1>10, <1>11, <1>12, <1>13, <1>14, <1>15, CoreFrame
    DEF Next, LoopStep, HandlerReturns

\* The retry counter decides when a message leaves the retry loop.
LEMMA RetryBudgetStep == CoreInv /\ [Next]_vars => RetryBudget'
  <1> SUFFICES ASSUME CoreInv, [Next]_vars PROVE RetryBudget'
    OBVIOUS
  <1> USE ConsumerAssumption
  <1> USE DEF CoreInv, CoreTypes, LogTypes, LoopShape, RetryBudget, LoopStates, Processing,
             Attempts, logVars, envVars
  <1>1. ASSUME NEW s \in Subs, Subscribe(s) PROVE RetryBudget'
    BY <1>1 DEF Subscribe
  <1>2. ASSUME NEW s \in Subs, StartLoop(s) PROVE RetryBudget'
    BY <1>2 DEF StartLoop
  <1>3. ASSUME NEW s \in Subs, FetchMessage(s) PROVE RetryBudget'
    BY <1>3 DEF FetchMessage
  <1>4. ASSUME NEW s \in Subs, FetchEnds(s) PROVE RetryBudget'
    BY <1>4 DEF FetchEnds, ExitLoop
  <1>5. ASSUME NEW s \in Subs, FetchBreaks(s) PROVE RetryBudget'
    BY <1>5 DEF FetchBreaks, ExitLoop
  <1>6. ASSUME NEW s \in Subs, HandlerSucceeds(s) PROVE RetryBudget'
    BY <1>6 DEF HandlerSucceeds, Settle
  <1>7. ASSUME NEW s \in Subs, HandlerFails(s) PROVE RetryBudget'
    BY <1>7 DEF HandlerFails, Settle
  <1>8. ASSUME NEW s \in Subs, BackoffElapses(s) PROVE RetryBudget'
    BY <1>8 DEF BackoffElapses
  <1>9. ASSUME NEW s \in Subs, BackoffCancelled(s) PROVE RetryBudget'
    BY <1>9 DEF BackoffCancelled, Abandon, Leave
  <1>10. ASSUME NEW s \in Subs, DlqPublished(s) PROVE RetryBudget'
    BY <1>10 DEF DlqPublished, Settle
  <1>11. ASSUME NEW s \in Subs, DlqFails(s) PROVE RetryBudget'
    BY <1>11 DEF DlqFails, Abandon, Leave
  <1>12. ASSUME NEW s \in Subs, CommitMessage(s) PROVE RetryBudget'
    BY <1>12 DEF CommitMessage, Leave
  <1>13. ASSUME NEW s \in Subs, CommitFails(s) PROVE RetryBudget'
    BY <1>13 DEF CommitFails, Leave
  <1>14. CASE Crash
    BY <1>14 DEF Crash
  <1>15. CASE UNCHANGED core
    BY <1>15 DEF core
  <1> QED
    BY <1>1, <1>2, <1>3, <1>4, <1>5, <1>6, <1>7, <1>8,
       <1>9, <1>10, <1>11, <1>12, <1>13, <1>14, <1>15, CoreFrame
    DEF Next, LoopStep, HandlerReturns

\* The only integer below n + 1 and not below n is n.
LEMMA LastBelow == \A m, n \in Int : ~(m < n) /\ m < n + 1 => m = n
  OBVIOUS

\* A message leaves processing only as settled or abandoned.
LEMMA DeliveredStep == CoreInv /\ [Next]_vars => DeliveredAccounted'
  <1> SUFFICES ASSUME CoreInv, [Next]_vars PROVE DeliveredAccounted'
    OBVIOUS
  <1> USE ConsumerAssumption
  <1> USE DEF CoreInv, CoreTypes, LogTypes, LoopShape, RetryBudget, DeliveredAccounted,
             CommitAccountsForAll, LoopStates, Processing, Offsets, logVars, envVars
  <1>1. ASSUME NEW s \in Subs, Subscribe(s) PROVE DeliveredAccounted'
    BY <1>1 DEF Subscribe
  <1>2. ASSUME NEW s \in Subs, StartLoop(s) PROVE DeliveredAccounted'
    <2>1. loop[s] = "none" /\ sub[s] # "none"
      BY <1>2 DEF StartLoop
    <2>2. UNCHANGED logVars /\ cur' = cur
      BY <1>2 DEF StartLoop
    <2>3. SUFFICES ASSUME NEW t \in Subs, sub'[t] # "none",
                          NEW o \in Offsets, o < pos'[t],
                          o \notin settled'[t] \cup abandoned'[t]
                   PROVE  loop'[t] \in Processing /\ o = cur'[t]
      OBVIOUS
    <2>4. CASE t = s
      BY <2>1, <2>2, <2>3, <2>4
    <2>5. CASE t # s
      BY <1>2, <2>2, <2>3, <2>5 DEF StartLoop
    <2> QED
      BY <2>4, <2>5
  <1>3. ASSUME NEW s \in Subs, FetchMessage(s) PROVE DeliveredAccounted'
    <2>1. loop[s] = "fetch" /\ sub' = sub /\ settled' = settled /\ abandoned' = abandoned
      BY <1>3 DEF FetchMessage
    <2>2. cur'[s] = pos[s] /\ pos'[s] = pos[s] + 1 /\ loop'[s] = "handle"
      BY <1>3 DEF FetchMessage
    <2>3. SUFFICES ASSUME NEW t \in Subs, sub'[t] # "none",
                          NEW o \in Offsets, o < pos'[t],
                          o \notin settled'[t] \cup abandoned'[t]
                   PROVE  loop'[t] \in Processing /\ o = cur'[t]
      OBVIOUS
    <2>4. CASE t = s
      <3>1. ~(o < pos[s])
        BY <2>1, <2>3, <2>4
      <3>2. o \in Int /\ pos[s] \in Int /\ o < pos[s] + 1
        BY <2>2, <2>3, <2>4
      <3>3. o = pos[s]
        BY <3>1, <3>2, LastBelow
      <3> QED
        BY <2>2, <2>4, <3>3
    <2>5. CASE t # s
      <3>1. pos'[t] = pos[t] /\ cur'[t] = cur[t] /\ loop'[t] = loop[t]
        BY <1>3, <2>5 DEF FetchMessage
      <3> QED
        BY <2>1, <2>3, <3>1
    <2> QED
      BY <2>4, <2>5
  <1>4. ASSUME NEW s \in Subs, FetchEnds(s) PROVE DeliveredAccounted'
    BY <1>4 DEF FetchEnds, ExitLoop
  <1>5. ASSUME NEW s \in Subs, FetchBreaks(s) PROVE DeliveredAccounted'
    BY <1>5 DEF FetchBreaks, ExitLoop
  <1>6. ASSUME NEW s \in Subs, HandlerSucceeds(s) PROVE DeliveredAccounted'
    BY <1>6 DEF HandlerSucceeds, Settle
  <1>7. ASSUME NEW s \in Subs, HandlerFails(s) PROVE DeliveredAccounted'
    BY <1>7 DEF HandlerFails, Settle
  <1>8. ASSUME NEW s \in Subs, BackoffElapses(s) PROVE DeliveredAccounted'
    BY <1>8 DEF BackoffElapses
  <1>9. ASSUME NEW s \in Subs, BackoffCancelled(s) PROVE DeliveredAccounted'
    BY <1>9 DEF BackoffCancelled, Abandon, Leave
  <1>10. ASSUME NEW s \in Subs, DlqPublished(s) PROVE DeliveredAccounted'
    BY <1>10 DEF DlqPublished, Settle
  <1>11. ASSUME NEW s \in Subs, DlqFails(s) PROVE DeliveredAccounted'
    BY <1>11 DEF DlqFails, Abandon, Leave
  <1>12. ASSUME NEW s \in Subs, CommitMessage(s) PROVE DeliveredAccounted'
    BY <1>12 DEF CommitMessage, Leave
  <1>13. ASSUME NEW s \in Subs, CommitFails(s) PROVE DeliveredAccounted'
    BY <1>13 DEF CommitFails, Leave
  <1>14. CASE Crash
    BY <1>14 DEF Crash
  <1>15. CASE UNCHANGED core
    BY <1>15 DEF core
  <1> QED
    BY <1>1, <1>2, <1>3, <1>4, <1>5, <1>6, <1>7, <1>8,
       <1>9, <1>10, <1>11, <1>12, <1>13, <1>14, <1>15, CoreFrame
    DEF Next, LoopStep, HandlerReturns

\* A commit passes only accounted messages.
LEMMA CommitStep == CoreInv /\ [Next]_vars => CommitAccountsForAll'
  <1> SUFFICES ASSUME CoreInv, [Next]_vars PROVE CommitAccountsForAll'
    OBVIOUS
  <1> USE ConsumerAssumption
  <1> USE DEF CoreInv, CoreTypes, LogTypes, LoopShape, RetryBudget, DeliveredAccounted,
             CommitAccountsForAll, LoopStates, Processing, Offsets, logVars, envVars
  <1>1. ASSUME NEW s \in Subs, Subscribe(s) PROVE CommitAccountsForAll'
    BY <1>1 DEF Subscribe
  <1>2. ASSUME NEW s \in Subs, StartLoop(s) PROVE CommitAccountsForAll'
    BY <1>2 DEF StartLoop
  <1>3. ASSUME NEW s \in Subs, FetchMessage(s) PROVE CommitAccountsForAll'
    BY <1>3 DEF FetchMessage
  <1>4. ASSUME NEW s \in Subs, FetchEnds(s) PROVE CommitAccountsForAll'
    BY <1>4 DEF FetchEnds, ExitLoop
  <1>5. ASSUME NEW s \in Subs, FetchBreaks(s) PROVE CommitAccountsForAll'
    BY <1>5 DEF FetchBreaks, ExitLoop
  <1>6. ASSUME NEW s \in Subs, HandlerSucceeds(s) PROVE CommitAccountsForAll'
    BY <1>6 DEF HandlerSucceeds, Settle
  <1>7. ASSUME NEW s \in Subs, HandlerFails(s) PROVE CommitAccountsForAll'
    BY <1>7 DEF HandlerFails, Settle
  <1>8. ASSUME NEW s \in Subs, BackoffElapses(s) PROVE CommitAccountsForAll'
    BY <1>8 DEF BackoffElapses
  <1>9. ASSUME NEW s \in Subs, BackoffCancelled(s) PROVE CommitAccountsForAll'
    BY <1>9 DEF BackoffCancelled, Abandon, Leave
  <1>10. ASSUME NEW s \in Subs, DlqPublished(s) PROVE CommitAccountsForAll'
    BY <1>10 DEF DlqPublished, Settle
  <1>11. ASSUME NEW s \in Subs, DlqFails(s) PROVE CommitAccountsForAll'
    BY <1>11 DEF DlqFails, Abandon, Leave
  <1>12. ASSUME NEW s \in Subs, CommitMessage(s) PROVE CommitAccountsForAll'
    BY <1>12 DEF CommitMessage, Leave
  <1>13. ASSUME NEW s \in Subs, CommitFails(s) PROVE CommitAccountsForAll'
    BY <1>13 DEF CommitFails, Leave
  <1>14. CASE Crash
    BY <1>14 DEF Crash
  <1>15. CASE UNCHANGED core
    BY <1>15 DEF core
  <1> QED
    BY <1>1, <1>2, <1>3, <1>4, <1>5, <1>6, <1>7, <1>8,
       <1>9, <1>10, <1>11, <1>12, <1>13, <1>14, <1>15, CoreFrame
    DEF Next, LoopStep, HandlerReturns

-----------------------------------------------------------------------------
\* The invariant holds throughout, for every interleaving of the loops, Stop,
\* cancellations and crashes.
THEOREM CoreInvariance == Safety => []CoreInv
  <1>1. CoreInv /\ [Next]_vars => CoreInv'
    BY CoreTypesStep, LoopShapeStep, RetryBudgetStep, DeliveredStep, CommitStep
    DEF CoreInv
  <1> QED
    BY InitCore, <1>1, PTL DEF Safety

\* No offset is committed past a message that was neither handled, dead-lettered,
\* given up after its retries nor deliberately left behind.
THEOREM CommitsAccounted == Safety => []CommitAccountsForAll
  <1>1. CoreInv => CommitAccountsForAll
    BY DEF CoreInv
  <1> QED
    BY CoreInvariance, <1>1, PTL

\* A message is dead-lettered only after 1 + maxRetries failures, and only
\* settled messages are committed.
THEOREM RetriesBounded == Safety => []RetryBudget
  <1>1. CoreInv => RetryBudget
    BY DEF CoreInv
  <1> QED
    BY CoreInvariance, <1>1, PTL

-----------------------------------------------------------------------------
(* The consumer implements DeliveryContract.                               *)

\* While a message is processed it is its turn: it is not committed, and every
\* message before it is accounted for.
LEMMA ProcessedInTurn ==
    ASSUME CoreInv, NEW s \in Subs, loop[s] \in Processing
    PROVE  cur[s] \in 0..(LogLen - 1) /\ Contract!Turn(s, cur[s])
  <1>1. /\ cur[s] + 1 = pos[s] /\ committed[s] <= cur[s] /\ sub[s] # "none"
        /\ cur[s] \in Nat /\ pos[s] \in 0..LogLen
    BY DEF CoreInv, CoreTypes, LogTypes, LoopShape, Processing
  <1>2. cur[s] \in 0..(LogLen - 1)
    BY <1>1, ConsumerAssumption
  <1>3. ASSUME NEW p \in 0..(cur[s] - 1) PROVE p \in settled[s] \cup abandoned[s]
    <2>1. p \in Offsets /\ p < pos[s] /\ p # cur[s]
      BY <1>1, <1>2, ConsumerAssumption DEF Offsets
    <2> QED
      BY <1>1, <2>1 DEF CoreInv, DeliveredAccounted
  <1> QED
    BY <1>1, <1>2, <1>3 DEF Contract!Turn

\* A step of the processing of a message that writes to the log is a step of the
\* contract for that message.
LEMMA ProcessingRefines ==
    ASSUME CoreInv, NEW s \in Subs,
           \/ HandlerReturns(s) \/ BackoffCancelled(s) \/ DlqPublished(s) \/ DlqFails(s)
           \/ CommitMessage(s)
    PROVE  Contract!Next \/ UNCHANGED <<committed, settled, abandoned, dealt>>
  <1>1. loop[s] \in Processing
    BY DEF HandlerReturns, HandlerSucceeds, HandlerFails, BackoffCancelled, DlqPublished,
           DlqFails, CommitMessage, Processing
  <1>2. cur[s] \in 0..(LogLen - 1) /\ Contract!Turn(s, cur[s])
    BY <1>1, ProcessedInTurn
  <1>3. CASE CommitMessage(s)
    <2>1. cur[s] \in settled[s]
      BY <1>3 DEF CoreInv, RetryBudget, CommitMessage
    <2>2. Contract!Commit(s, cur[s])
      BY <1>2, <1>3, <2>1 DEF CommitMessage, Contract!Commit
    <2> QED
      BY <1>2, <2>2 DEF Contract!Next
  <1>4. CASE BackoffCancelled(s) \/ DlqFails(s)
    <2>1. Contract!Leave(s, cur[s])
      BY <1>2, <1>4
      DEF BackoffCancelled, DlqFails, Abandon, Deal, Contract!Leave, Contract!Deal
    <2> QED
      BY <1>2, <2>1 DEF Contract!Next
  <1>5. CASE (HandlerReturns(s) \/ DlqPublished(s)) /\ Settle(s)
    <2>1. Contract!Settle(s, cur[s])
      BY <1>2, <1>5
      DEF HandlerReturns, HandlerSucceeds, HandlerFails, DlqPublished, Settle, Deal,
          Contract!Settle, Contract!Deal
    <2> QED
      BY <1>2, <2>1 DEF Contract!Next
  <1>6. CASE (HandlerReturns(s) \/ DlqPublished(s)) /\ ~Settle(s)
    BY <1>6 DEF HandlerReturns, HandlerSucceeds, HandlerFails, DlqPublished
  <1> QED
    BY <1>3, <1>4, <1>5, <1>6

\* Every other step, a crash included, is invisible to the contract.
LEMMA OthersInvisible ==
    ASSUME \/ \E s \in Subs :
                 \/ Subscribe(s) \/ ParentCancel(s) \/ FetchBreaks(s) \/ StartLoop(s)
                 \/ FetchMessage(s) \/ FetchEnds(s) \/ BackoffElapses(s) \/ CommitFails(s)
           \/ StopSnapshot \/ StopStep \/ Crash \/ UNCHANGED vars
    PROVE  UNCHANGED <<committed, settled, abandoned, dealt>>
  BY DEF Subscribe, ParentCancel, FetchBreaks, StartLoop, FetchMessage, FetchEnds, ExitLoop,
         BackoffElapses, CommitFails, StopSnapshot, StopStep, StopCancel, StopCancelled,
         StopClose, StopClosed, StopReturns, Crash, vars, logVars

\* The consumer implements DeliveryContract for any number of subscriptions,
\* messages, retries and crashes: messages are dealt with in order and none below
\* the group's offset once more, and the offset never goes back and moves only to
\* just past a settled message.
THEOREM ConsumerImplementsDelivery == Safety => ImplementsDelivery
  <1>1. Init => Contract!Init
    BY DEF Init, Offsets, Contract!Init
  <1>2. CoreInv /\ [Next]_vars => [Contract!Next]_(Contract!contractVars)
    <2> SUFFICES ASSUME CoreInv, [Next]_vars
                 PROVE  Contract!Next \/ UNCHANGED <<committed, settled, abandoned, dealt>>
      BY DEF Contract!contractVars
    <2>1. ASSUME NEW s \in Subs,
                 \/ HandlerReturns(s) \/ BackoffCancelled(s) \/ DlqPublished(s)
                 \/ DlqFails(s) \/ CommitMessage(s)
          PROVE  Contract!Next \/ UNCHANGED <<committed, settled, abandoned, dealt>>
      BY <2>1, ProcessingRefines
    <2> QED
      BY <2>1, OthersInvisible DEF Next, LoopStep
  <1> QED
    BY CoreInvariance, <1>1, <1>2, PTL DEF Safety, ImplementsDelivery, Contract!Spec

-----------------------------------------------------------------------------
(* Stop and the wait group.                                                *)

\* The subscriptions whose goroutine runs.
Active == {s \in Subs : loop[s] \notin {"none", "exited"}}

\* The wait group counts the goroutines that run, and Stop knows only of loops
\* that have been started.
WaitGroupCounts ==
    /\ IsFiniteSet(Active) /\ wg = Cardinality(Active)
    /\ \A s \in Subs : loop[s] # "none" <=> sub[s] = "running"
    /\ looping \subseteq {s \in Subs : sub[s] = "running"}

\* The conjunction that carries StopQuiesces.
StopInv == CoreTypes /\ WaitGroupCounts /\ StopQuiesces

\* Nothing runs before the first Subscribe.
LEMMA InitStop == Init => WaitGroupCounts /\ StopQuiesces
  <1> SUFFICES ASSUME Init PROVE WaitGroupCounts /\ StopQuiesces
    OBVIOUS
  <1>1. Active = {}
    BY DEF Init, Active
  <1> QED
    BY <1>1, FS_EmptySet DEF Init, WaitGroupCounts, StopQuiesces

\* A step other than the start or the end of a loop, Stop's own and a crash
\* leaves running what runs.
LEMMA ActiveFrame ==
    ASSUME CoreTypes, NEW s \in Subs,
           \/ Subscribe(s) \/ ParentCancel(s) \/ FetchMessage(s) \/ HandlerReturns(s)
           \/ BackoffElapses(s) \/ BackoffCancelled(s) \/ DlqPublished(s) \/ DlqFails(s)
           \/ CommitMessage(s) \/ CommitFails(s)
    PROVE  /\ \A t \in Subs : /\ loop'[t] = "none" <=> loop[t] = "none"
                              /\ loop'[t] = "exited" <=> loop[t] = "exited"
                              /\ sub'[t] = "running" <=> sub[t] = "running"
           /\ UNCHANGED <<wg, stopPc, looping>>
  BY DEF CoreTypes, LoopStates, Processing, Subscribe, ParentCancel, FetchMessage,
         HandlerReturns, HandlerSucceeds, HandlerFails, BackoffElapses, BackoffCancelled,
         DlqPublished, DlqFails, CommitMessage, CommitFails, Leave, stopVars

\* The counter follows the goroutines: it goes up with StartLoop, down with the
\* end of a loop, and stays otherwise.
LEMMA StopInvStep ==
    StopInv /\ [Next]_vars => WaitGroupCounts' /\ StopQuiesces'
  <1> SUFFICES ASSUME StopInv, [Next]_vars PROVE WaitGroupCounts' /\ StopQuiesces'
    OBVIOUS
  <1> USE DEF StopInv, CoreTypes, WaitGroupCounts, StopQuiesces
  <1>1. ASSUME NEW s \in Subs,
               \/ Subscribe(s) \/ ParentCancel(s) \/ FetchMessage(s) \/ HandlerReturns(s)
               \/ BackoffElapses(s) \/ BackoffCancelled(s) \/ DlqPublished(s) \/ DlqFails(s)
               \/ CommitMessage(s) \/ CommitFails(s)
        PROVE  WaitGroupCounts' /\ StopQuiesces'
    <2>1. /\ \A t \in Subs : /\ loop'[t] = "none" <=> loop[t] = "none"
                             /\ loop'[t] = "exited" <=> loop[t] = "exited"
                             /\ sub'[t] = "running" <=> sub[t] = "running"
          /\ UNCHANGED <<wg, stopPc, looping>>
      BY <1>1, ActiveFrame
    <2>2. Active' = Active
      BY <2>1 DEF Active
    <2> QED
      BY <2>1, <2>2
  <1>2. ASSUME NEW s \in Subs, StartLoop(s) PROVE WaitGroupCounts' /\ StopQuiesces'
    <2>1. loop[s] = "none" /\ wg' = wg + 1 /\ stopPc' = stopPc /\ looping' = looping
      BY <1>2 DEF StartLoop, stopVars
    <2>2. loop' = [loop EXCEPT ![s] = "fetch"] /\ sub' = [sub EXCEPT ![s] = "running"]
      BY <1>2 DEF StartLoop
    <2>3. Active' = Active \cup {s} /\ s \notin Active
      BY <2>1, <2>2 DEF Active
    <2>4. IsFiniteSet(Active') /\ Cardinality(Active') = Cardinality(Active) + 1
      BY <2>3, FS_AddElement
    <2> QED
      BY <2>1, <2>2, <2>4
  <1>3. ASSUME NEW s \in Subs, FetchEnds(s) \/ FetchBreaks(s)
        PROVE  WaitGroupCounts' /\ StopQuiesces'
    <2>1. loop[s] = "fetch" /\ wg' = wg - 1
      BY <1>3 DEF FetchEnds, FetchBreaks, ExitLoop
    <2>2. stopPc' = stopPc /\ looping' = looping /\ sub' = sub
      BY <1>3 DEF FetchEnds, FetchBreaks, ExitLoop, stopVars
    <2>3. loop' = [loop EXCEPT ![s] = "exited"]
      BY <1>3 DEF FetchEnds, FetchBreaks, ExitLoop
    <2>4. Active' = Active \ {s} /\ s \in Active
      BY <2>1, <2>3 DEF Active
    <2>5. IsFiniteSet(Active') /\ Cardinality(Active') = Cardinality(Active) - 1
      BY <2>4, FS_RemoveElement
    <2> QED
      BY <2>1, <2>2, <2>3, <2>5
  <1>4. CASE StopSnapshot
    BY <1>4 DEF StopSnapshot, loopVars, Active
  <1>5. CASE StopReturns
    <2>1. Active = {}
      BY <1>5, FS_EmptySet DEF StopReturns
    <2> QED
      BY <1>5, <2>1 DEF StopReturns, loopVars, Active
  <1>6. CASE \/ \E s \in Subs : StopCancel(s) \/ StopClose(s)
             \/ StopCancelled \/ StopClosed \/ UNCHANGED vars
    <2>1. UNCHANGED <<loop, sub, wg, looping>> /\ (stopPc' = "returned" => stopPc = "returned")
      BY <1>6 DEF StopCancel, StopClose, StopCancelled, StopClosed, loopVars, vars, stopVars
    <2>2. Active' = Active
      BY <2>1 DEF Active
    <2> QED
      BY <2>1, <2>2
  <1>7. CASE Crash
    <2>1. Active' = {}
      BY <1>7 DEF Crash, Active
    <2> QED
      BY <1>7, <2>1, FS_EmptySet DEF Crash
  <1> QED
    BY <1>1, <1>2, <1>3, <1>4, <1>5, <1>6, <1>7
    DEF Next, LoopStep, StopStep

\* When Stop has returned, every loop that existed when it was called has ended
\* and none of them runs again, for any number of subscriptions.
THEOREM StopWaitsForLoops == Safety => []StopQuiesces
  <1>1. CoreInv => CoreTypes
    BY DEF CoreInv
  <1>2. Init => WaitGroupCounts /\ StopQuiesces
    BY InitStop
  <1>3. CoreTypes /\ WaitGroupCounts /\ StopQuiesces /\ [Next]_vars
            => WaitGroupCounts' /\ StopQuiesces'
    BY StopInvStep DEF StopInv
  <1> QED
    BY CoreInvariance, <1>1, <1>2, <1>3, PTL DEF Safety

=============================================================================
