----------------------------- MODULE SagaProofs -----------------------------
(***************************************************************************)
(* Proofs about Saga for sagas of any length and any choice of options,    *)
(* failures and cancellation.                                              *)
(***************************************************************************)
EXTENDS Saga, TLAPS

\* What Execute has done in each phase.
PhaseShape ==
    /\ pc = "build" => completed = 0
    /\ pc \in {"build", "forward"} => ~stepErr /\ i = 0
    /\ pc \in {"undo", "ask", "await"} => stepErr
    /\ pc = "undo" => ~parallel
    /\ pc \in {"ask", "await"} => parallel
    /\ pc = "forward" \/ pc = "ask" \/ ~stepErr =>
           \A j \in 1..MaxSteps : ~Attempted(j)

\* The sequential loop has dealt with exactly the completed steps above i.
BackwardPrefix ==
    ~parallel /\ stepErr =>
        \A j \in 1..MaxSteps : Attempted(j) <=> j \in ToUndo /\ j > i

\* Parallel compensation asks for all completed steps at once and for no other.
AllAsked ==
    parallel => /\ \A j \in 1..MaxSteps : Attempted(j) => j \in ToUndo
                /\ pc \in {"await", "returned"} /\ stepErr =>
                       \A j \in ToUndo : Attempted(j)

\* A compensation has ended well, or its error is in the result, or it is
\* still awaited.
ErrorsKept ==
    \A j \in 1..MaxSteps :
        /\ comp[j] \in {"failed", "refused"} => j \in compErrs
        /\ comp[j] = "asked" => pc = "await"

\* The sequential loop ends before the first step only because of an error.
EarlyEnd ==
    pc = "returned" /\ stepErr /\ ~parallel =>
        i = 0 \/ (compErrs # {} /\ ~continueOnError)

\* The conjunction that every step preserves.
IndInv == TypeOK /\ PhaseShape /\ BackwardPrefix /\ AllAsked /\ ErrorsKept /\ EarlyEnd

-----------------------------------------------------------------------------
\* The invariant holds for a new saga without steps.
LEMMA InitInv == Init => IndInv
  <1> SUFFICES ASSUME Init PROVE IndInv
    OBVIOUS
  <1> USE SagaAssumption DEF Init
  <1>1. TypeOK
    <2>1. cancelled \in BOOLEAN /\ stepErr \in BOOLEAN
      BY Zenon
    <2> QED
      BY <2>1 DEF TypeOK, CompStates
  <1>2. PhaseShape /\ BackwardPrefix
    BY DEF PhaseShape, BackwardPrefix, Attempted
  <1>3. AllAsked /\ ErrorsKept /\ EarlyEnd
    BY DEF AllAsked, ErrorsKept, EarlyEnd, Attempted
  <1> QED
    BY <1>1, <1>2, <1>3 DEF IndInv

\* The saga and the locals of Execute keep their types.
LEMMA TypeStep == IndInv /\ [Next]_vars => TypeOK'
  <1> SUFFICES ASSUME IndInv, [Next]_vars PROVE TypeOK'
    OBVIOUS
  <1> USE SagaAssumption
  <1> USE DEF IndInv, TypeOK, CompStates, PhaseShape, sagaVars
  <1>1. ASSUME NEW c \in BOOLEAN, Step(c) PROVE TypeOK'
    BY <1>1 DEF Step
  <1>2. CASE Execute
    BY <1>2 DEF Execute
  <1>3. CASE ActionSucceeds
    BY <1>3 DEF ActionSucceeds
  <1>4. CASE ActionFails
    BY <1>4 DEF ActionFails
  <1>5. CASE AllDone
    BY <1>5 DEF AllDone
  <1>6. CASE SkipNil
    BY <1>6 DEF SkipNil
  <1>7. CASE Compensate
    BY <1>7 DEF Compensate, Outcome
  <1>8. CASE UndoDone
    BY <1>8 DEF UndoDone
  <1>9. CASE AskAll
    BY <1>9 DEF AskAll
  <1>10. ASSUME NEW j \in 1..MaxSteps, CompensationReturns(j) PROVE TypeOK'
    BY <1>10 DEF CompensationReturns, Outcome
  <1>11. CASE AwaitDone
    BY <1>11 DEF AwaitDone
  <1>12. CASE CancelWorkflow
    BY <1>12 DEF CancelWorkflow
  <1>13. CASE UNCHANGED vars
    BY <1>13 DEF vars
  <1> QED
    BY <1>1, <1>2, <1>3, <1>4, <1>5, <1>6, <1>7, <1>8, <1>9, <1>10, <1>11, <1>12, <1>13
    DEF Next, Build, Run

\* Compensations are asked for only in the phases after a failure.
LEMMA PhaseStep == IndInv /\ [Next]_vars => PhaseShape'
  <1> SUFFICES ASSUME IndInv, [Next]_vars PROVE PhaseShape'
    OBVIOUS
  <1> USE SagaAssumption
  <1> USE DEF IndInv, TypeOK, PhaseShape, Attempted, sagaVars
  <1>1. ASSUME NEW c \in BOOLEAN, Step(c) PROVE PhaseShape'
    BY <1>1 DEF Step
  <1>2. CASE Execute
    BY <1>2 DEF Execute
  <1>3. CASE ActionSucceeds
    BY <1>3 DEF ActionSucceeds
  <1>4. CASE ActionFails
    BY <1>4 DEF ActionFails
  <1>5. CASE AllDone
    BY <1>5 DEF AllDone
  <1>6. CASE SkipNil
    BY <1>6 DEF SkipNil
  <1>7. CASE Compensate
    BY <1>7 DEF Compensate, Outcome
  <1>8. CASE UndoDone
    BY <1>8 DEF UndoDone
  <1>9. CASE AskAll
    BY <1>9 DEF AskAll
  <1>10. ASSUME NEW j \in 1..MaxSteps, CompensationReturns(j) PROVE PhaseShape'
    BY <1>10 DEF CompensationReturns, Outcome
  <1>11. CASE AwaitDone
    BY <1>11 DEF AwaitDone
  <1>12. CASE CancelWorkflow
    BY <1>12 DEF CancelWorkflow
  <1>13. CASE UNCHANGED vars
    BY <1>13 DEF vars
  <1> QED
    BY <1>1, <1>2, <1>3, <1>4, <1>5, <1>6, <1>7, <1>8, <1>9, <1>10, <1>11, <1>12, <1>13
    DEF Next, Build, Run

\* The sequential loop goes down from the last completed step.
LEMMA BackwardStep == IndInv /\ [Next]_vars => BackwardPrefix'
  <1> SUFFICES ASSUME IndInv, [Next]_vars PROVE BackwardPrefix'
    OBVIOUS
  <1> USE SagaAssumption
  <1> USE DEF IndInv, TypeOK, PhaseShape, BackwardPrefix, Attempted, ToUndo, sagaVars
  <1>1. ASSUME NEW c \in BOOLEAN, Step(c) PROVE BackwardPrefix'
    BY <1>1 DEF Step
  <1>2. CASE Execute
    BY <1>2 DEF Execute
  <1>3. CASE ActionSucceeds
    BY <1>3 DEF ActionSucceeds
  <1>4. CASE ActionFails
    BY <1>4 DEF ActionFails
  <1>5. CASE AllDone
    BY <1>5 DEF AllDone
  <1>6. CASE SkipNil
    BY <1>6 DEF SkipNil
  <1>7. CASE Compensate
    BY <1>7 DEF Compensate, Outcome
  <1>8. CASE UndoDone
    BY <1>8 DEF UndoDone
  <1>9. CASE AskAll
    BY <1>9 DEF AskAll
  <1>10. ASSUME NEW j \in 1..MaxSteps, CompensationReturns(j) PROVE BackwardPrefix'
    BY <1>10 DEF CompensationReturns, Outcome
  <1>11. CASE AwaitDone
    BY <1>11 DEF AwaitDone
  <1>12. CASE CancelWorkflow
    BY <1>12 DEF CancelWorkflow
  <1>13. CASE UNCHANGED vars
    BY <1>13 DEF vars
  <1> QED
    BY <1>1, <1>2, <1>3, <1>4, <1>5, <1>6, <1>7, <1>8, <1>9, <1>10, <1>11, <1>12, <1>13
    DEF Next, Build, Run

\* Parallel compensation leaves out no completed step.
LEMMA AskedStep == IndInv /\ [Next]_vars => AllAsked'
  <1> SUFFICES ASSUME IndInv, [Next]_vars PROVE AllAsked'
    OBVIOUS
  <1> USE SagaAssumption
  <1> USE DEF IndInv, TypeOK, PhaseShape, AllAsked, Attempted, ToUndo, sagaVars
  <1>1. ASSUME NEW c \in BOOLEAN, Step(c) PROVE AllAsked'
    BY <1>1 DEF Step
  <1>2. CASE Execute
    BY <1>2 DEF Execute
  <1>3. CASE ActionSucceeds
    BY <1>3 DEF ActionSucceeds
  <1>4. CASE ActionFails
    BY <1>4 DEF ActionFails
  <1>5. CASE AllDone
    BY <1>5 DEF AllDone
  <1>6. CASE SkipNil
    BY <1>6 DEF SkipNil
  <1>7. CASE Compensate
    BY <1>7 DEF Compensate, Outcome
  <1>8. CASE UndoDone
    BY <1>8 DEF UndoDone
  <1>9. CASE AskAll
    BY <1>9 DEF AskAll
  <1>10. ASSUME NEW j \in 1..MaxSteps, CompensationReturns(j) PROVE AllAsked'
    BY <1>10 DEF CompensationReturns, Outcome
  <1>11. CASE AwaitDone
    BY <1>11 DEF AwaitDone
  <1>12. CASE CancelWorkflow
    BY <1>12 DEF CancelWorkflow
  <1>13. CASE UNCHANGED vars
    BY <1>13 DEF vars
  <1> QED
    BY <1>1, <1>2, <1>3, <1>4, <1>5, <1>6, <1>7, <1>8, <1>9, <1>10, <1>11, <1>12, <1>13
    DEF Next, Build, Run

\* No error of a compensation is dropped.
LEMMA ErrorsStep == IndInv /\ [Next]_vars => ErrorsKept'
  <1> SUFFICES ASSUME IndInv, [Next]_vars PROVE ErrorsKept'
    OBVIOUS
  <1> USE SagaAssumption
  <1> USE DEF IndInv, TypeOK, PhaseShape, ErrorsKept, Attempted, sagaVars
  <1>1. ASSUME NEW c \in BOOLEAN, Step(c) PROVE ErrorsKept'
    BY <1>1 DEF Step
  <1>2. CASE Execute
    BY <1>2 DEF Execute
  <1>3. CASE ActionSucceeds
    BY <1>3 DEF ActionSucceeds
  <1>4. CASE ActionFails
    BY <1>4 DEF ActionFails
  <1>5. CASE AllDone
    BY <1>5 DEF AllDone
  <1>6. CASE SkipNil
    BY <1>6 DEF SkipNil
  <1>7. CASE Compensate
    BY <1>7 DEF Compensate, Outcome
  <1>8. CASE UndoDone
    BY <1>8 DEF UndoDone
  <1>9. CASE AskAll
    BY <1>9 DEF AskAll
  <1>10. ASSUME NEW j \in 1..MaxSteps, CompensationReturns(j) PROVE ErrorsKept'
    BY <1>10 DEF CompensationReturns, Outcome
  <1>11. CASE AwaitDone
    BY <1>11 DEF AwaitDone
  <1>12. CASE CancelWorkflow
    BY <1>12 DEF CancelWorkflow
  <1>13. CASE UNCHANGED vars
    BY <1>13 DEF vars
  <1> QED
    BY <1>1, <1>2, <1>3, <1>4, <1>5, <1>6, <1>7, <1>8, <1>9, <1>10, <1>11, <1>12, <1>13
    DEF Next, Build, Run

\* The sequential loop is left early only with an error.
LEMMA EarlyEndStep == IndInv /\ [Next]_vars => EarlyEnd'
  <1> SUFFICES ASSUME IndInv, [Next]_vars PROVE EarlyEnd'
    OBVIOUS
  <1> USE SagaAssumption
  <1> USE DEF IndInv, TypeOK, PhaseShape, EarlyEnd, sagaVars
  <1>1. ASSUME NEW c \in BOOLEAN, Step(c) PROVE EarlyEnd'
    BY <1>1 DEF Step
  <1>2. CASE Execute
    BY <1>2 DEF Execute
  <1>3. CASE ActionSucceeds
    BY <1>3 DEF ActionSucceeds
  <1>4. CASE ActionFails
    BY <1>4 DEF ActionFails
  <1>5. CASE AllDone
    BY <1>5 DEF AllDone
  <1>6. CASE SkipNil
    BY <1>6 DEF SkipNil
  <1>7. CASE Compensate
    BY <1>7 DEF Compensate, Outcome
  <1>8. CASE UndoDone
    BY <1>8 DEF UndoDone
  <1>9. CASE AskAll
    BY <1>9 DEF AskAll
  <1>10. ASSUME NEW j \in 1..MaxSteps, CompensationReturns(j) PROVE EarlyEnd'
    BY <1>10 DEF CompensationReturns, Outcome
  <1>11. CASE AwaitDone
    BY <1>11 DEF AwaitDone
  <1>12. CASE CancelWorkflow
    BY <1>12 DEF CancelWorkflow
  <1>13. CASE UNCHANGED vars
    BY <1>13 DEF vars
  <1> QED
    BY <1>1, <1>2, <1>3, <1>4, <1>5, <1>6, <1>7, <1>8, <1>9, <1>10, <1>11, <1>12, <1>13
    DEF Next, Build, Run

-----------------------------------------------------------------------------
\* The invariant holds throughout every execution of every saga.
THEOREM Invariance == Spec => []IndInv
  <1>1. IndInv /\ [Next]_vars => IndInv'
    BY TypeStep, PhaseStep, BackwardStep, AskedStep, ErrorsStep, EarlyEndStep DEF IndInv
  <1> QED
    BY InitInv, <1>1, PTL DEF Spec

\* Neither the failing step nor one that never ran is compensated, and none is
\* before a step has failed.
THEOREM UndoesCompletedOnly == Spec => []OnlyCompletedUndone
  <1>1. IndInv => OnlyCompletedUndone
    BY DEF IndInv, TypeOK, OnlyCompletedUndone, PhaseShape, BackwardPrefix, AllAsked
  <1> QED
    BY Invariance, <1>1, PTL

\* compensateSequential goes backwards through the completed steps.
THEOREM UndoesBackwards == Spec => []ReverseOrder
  <1>1. IndInv => ReverseOrder
    <2> SUFFICES ASSUME IndInv, ~parallel, NEW j \in ToUndo, NEW k \in ToUndo,
                        j < k, Attempted(j)
                 PROVE  Attempted(k)
      BY DEF ReverseOrder
    <2>1. completed \in Nat /\ completed <= MaxSteps /\ i \in Nat
      BY SagaAssumption DEF IndInv, TypeOK
    <2>2. j \in 1..MaxSteps /\ k \in 1..MaxSteps
      BY <2>1, SagaAssumption DEF ToUndo
    <2>3. stepErr
      BY <2>2 DEF IndInv, TypeOK, PhaseShape
    <2>4. j > i
      BY <2>2, <2>3 DEF IndInv, BackwardPrefix
    <2>5. k > i
      BY <2>1, <2>2, <2>4
    <2> QED
      BY <2>2, <2>3, <2>5 DEF IndInv, BackwardPrefix
  <1> QED
    BY Invariance, <1>1, PTL

\* After a failure Execute returns with everything undone or with the error of
\* a compensation; where it is told to go on, every compensation is tried.
THEOREM NothingSilentlyKept == Spec => []UndoneOrReported
  <1>1. IndInv => UndoneOrReported
    <2> SUFFICES ASSUME IndInv, pc = "returned", stepErr
                 PROVE  /\ (\A j \in ToUndo : comp[j] = "ok") \/ compErrs # {}
                        /\ parallel \/ continueOnError => \A j \in ToUndo : Attempted(j)
      BY DEF UndoneOrReported
    <2>1. \A j \in ToUndo : j \in 1..MaxSteps /\ j > 0
      BY SagaAssumption DEF IndInv, TypeOK, ToUndo
    <2>2. \A j \in ToUndo : Attempted(j) => comp[j] = "ok" \/ j \in compErrs
      BY <2>1 DEF IndInv, TypeOK, CompStates, ErrorsKept, Attempted
    <2>3. CASE parallel
      BY <2>2, <2>3 DEF IndInv, AllAsked
    <2>4. CASE ~parallel /\ i = 0
      BY <2>1, <2>2, <2>4 DEF IndInv, BackwardPrefix
    <2>5. CASE ~parallel /\ i # 0
      BY <2>5 DEF IndInv, EarlyEnd
    <2> QED
      BY <2>3, <2>4, <2>5
  <1> QED
    BY Invariance, <1>1, PTL

-----------------------------------------------------------------------------
(* The saga implements SagaContract.                                       *)

\* A compensation that ends is due: its step is completed and has not been
\* compensated, and in the sequential loop every later one has been.
LEMMA EndsWhenDue ==
    ASSUME IndInv, NEW j \in 1..MaxSteps,
           \/ Compensate /\ j = i
           \/ CompensationReturns(j)
    PROVE  j \in 1..completed /\ Contract!Due(j)
  <1>1. completed \in Nat /\ completed <= MaxSteps /\ stepErr
    BY SagaAssumption DEF IndInv, TypeOK, PhaseShape, Compensate, CompensationReturns
  <1>2. j \in ToUndo /\ comp[j] \in {"none", "asked"}
    <2>1. CASE Compensate /\ j = i
      BY <1>1, <2>1, SagaAssumption
      DEF IndInv, TypeOK, PhaseShape, BackwardPrefix, Attempted, ToUndo, Compensate
    <2>2. CASE CompensationReturns(j)
      BY <2>2 DEF IndInv, PhaseShape, AllAsked, Attempted, CompensationReturns
    <2> QED
      BY <2>1, <2>2
  <1>3. ASSUME ~parallel, NEW k \in (j + 1)..completed, steps[k]
        PROVE  k \in Ended({"ok"}) \cup Ended({"failed", "refused"})
    <2>1. pc = "undo" /\ j = i /\ i \in Nat
      BY <1>3 DEF IndInv, TypeOK, PhaseShape, Compensate, CompensationReturns
    <2>2. k \in 1..MaxSteps /\ k > i /\ k \in ToUndo
      BY <1>1, <1>3, <2>1, SagaAssumption DEF ToUndo
    <2>3. comp[k] # "none" /\ comp[k] # "asked"
      BY <1>1, <1>3, <2>1, <2>2 DEF IndInv, BackwardPrefix, Attempted, ErrorsKept
    <2> QED
      BY <2>2, <2>3 DEF IndInv, TypeOK, CompStates, Ended
  <1> QED
    BY <1>1, <1>2, <1>3 DEF Contract!Due, ToUndo, Ended

\* A compensation that ends with r moves its step to the matching set.
LEMMA EndRefines ==
    ASSUME IndInv, NEW j \in 1..MaxSteps, Contract!Due(j), j \in 1..completed,
           NEW r \in {"ok", "failed", "refused"}, comp' = [comp EXCEPT ![j] = r],
           comp[j] \in {"none", "asked"},
           UNCHANGED <<sagaVars, completed, stepErr>>
    PROVE  Contract!Next
  <1>1. \A k \in 1..MaxSteps : comp'[k] = IF k = j THEN r ELSE comp[k]
    BY DEF IndInv, TypeOK
  <1>2. CASE r = "ok"
    <2>1. Ended({"ok"})' = Ended({"ok"}) \cup {j}
      BY <1>1, <1>2 DEF Ended
    <2>2. Ended({"failed", "refused"})' = Ended({"failed", "refused"})
      BY <1>1, <1>2 DEF Ended
    <2>3. Contract!Undo(j)
      BY <2>1, <2>2 DEF Contract!Undo, sagaVars
    <2> QED
      BY <2>3 DEF Contract!Next
  <1>3. CASE r # "ok"
    <2>1. Ended({"ok"})' = Ended({"ok"})
      BY <1>1, <1>3 DEF Ended
    <2>2. Ended({"failed", "refused"})' = Ended({"failed", "refused"}) \cup {j}
      BY <1>1, <1>3 DEF Ended
    <2>3. Contract!Lose(j)
      BY <2>1, <2>2 DEF Contract!Lose, sagaVars
    <2> QED
      BY <2>3 DEF Contract!Next
  <1> QED
    BY <1>2, <1>3

\* A saga of any length, with any options, failures and cancellation, implements
\* SagaContract: it takes no step after a failure and compensates each completed
\* step at most once, the last one first unless it compensates in parallel.
THEOREM SagaImplementsContract == Spec => ImplementsContract
  <1>1. Init => Contract!Init
    BY DEF Init, Contract!Init, Ended
  <1>2. IndInv /\ [Next]_vars => [Contract!Next]_(Contract!contractVars)
    <2> SUFFICES ASSUME IndInv, [Next]_vars
                 PROVE  Contract!Next \/ UNCHANGED Contract!contractVars
      OBVIOUS
    <2> USE DEF IndInv, TypeOK, PhaseShape
    <2>1. ASSUME NEW c \in BOOLEAN, Step(c) PROVE Contract!Extend(c)
      BY <2>1 DEF Step, Contract!Extend, Ended
    <2>2. CASE ActionSucceeds
      <3>1. Contract!Take
        BY <2>2 DEF ActionSucceeds, sagaVars, Contract!Take, Ended
      <3> QED
        BY <3>1 DEF Contract!Next
    <2>3. CASE ActionFails
      <3>1. Contract!Fail
        BY <2>3 DEF ActionFails, sagaVars, Contract!Fail, Ended
      <3> QED
        BY <3>1 DEF Contract!Next
    <2>4. CASE Compensate
      <3>1. i \in 1..MaxSteps
        BY <2>4, SagaAssumption DEF Compensate
      <3>2. i \in 1..completed /\ Contract!Due(i)
        BY <2>4, <3>1, EndsWhenDue
      <3>3. PICK r \in {"ok", "failed", "refused"} : comp' = [comp EXCEPT ![i] = r]
        BY <2>4 DEF Compensate, Outcome
      <3>4. comp[i] \in {"none", "asked"} /\ UNCHANGED <<sagaVars, completed, stepErr>>
        BY <2>4, <3>1, <3>2 DEF Compensate, Contract!Due, CompStates, Ended
      <3> QED
        BY <3>1, <3>2, <3>3, <3>4, EndRefines
    <2>5. ASSUME NEW j \in 1..MaxSteps, CompensationReturns(j) PROVE Contract!Next
      <3>1. j \in 1..completed /\ Contract!Due(j)
        BY <2>5, EndsWhenDue
      <3>2. PICK r \in {"ok", "failed", "refused"} : comp' = [comp EXCEPT ![j] = r]
        BY <2>5 DEF CompensationReturns, Outcome
      <3>3. comp[j] \in {"none", "asked"} /\ UNCHANGED <<sagaVars, completed, stepErr>>
        BY <2>5 DEF CompensationReturns
      <3> QED
        BY <3>1, <3>2, <3>3, EndRefines
    <2>6. CASE AskAll
      <3>1. UNCHANGED <<sagaVars, completed, stepErr>>
        BY <2>6 DEF AskAll
      <3>2. \A j \in 1..MaxSteps : comp[j] = "none" /\ comp'[j] \in {"none", "asked"}
        BY <2>6 DEF AskAll, Attempted
      <3>3. UNCHANGED <<Ended({"ok"}), Ended({"failed", "refused"})>>
        BY <3>2 DEF Ended
      <3> QED
        BY <3>1, <3>3 DEF sagaVars, Contract!contractVars
    <2>7. CASE \/ Execute \/ AllDone \/ SkipNil \/ UndoDone \/ AwaitDone \/ CancelWorkflow
               \/ UNCHANGED vars
      <3>1. UNCHANGED <<sagaVars, completed, stepErr, comp>>
        BY <2>7 DEF Execute, AllDone, SkipNil, UndoDone, AwaitDone, CancelWorkflow, vars
      <3> QED
        BY <3>1 DEF sagaVars, Ended, Contract!contractVars
    <2> QED
      BY <2>1, <2>2, <2>3, <2>4, <2>5, <2>6, <2>7 DEF Next, Build, Run, Contract!Next
  <1> QED
    BY Invariance, <1>1, <1>2, PTL DEF Spec, ImplementsContract, Contract!Spec

=============================================================================
