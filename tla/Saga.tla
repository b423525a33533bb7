-------------------------------- MODULE Saga --------------------------------
(***************************************************************************)
(* The saga builder of pkg/workflow/saga/saga.go, run inside a Temporal    *)
(* workflow: New, Step, Execute and the two ways of compensating.  The     *)
(* activities and the workflow context are Temporal's and external: an     *)
(* activity succeeds or fails, and one that is asked for on a cancelled    *)
(* context fails without having run.                                       *)
(*                                                                         *)
(* Data abstractions.  A step is whether it has a compensation; `completed'*)
(* is always a prefix of the steps, so it is its length.                   *)
(***************************************************************************)
EXTENDS Integers, Sequences

CONSTANT MaxSteps   \* bound on the steps added to the saga

ASSUME SagaAssumption == MaxSteps \in Nat

VARIABLES
    parallel,       \* WithParallelCompensation
    continueOnError,\* WithContinueOnCompensationError
    steps,          \* steps[i]: the step has a compensation
    cancelled,      \* the workflow's context is cancelled
    pc,             \* where Execute is
    completed,      \* len(completed)
    i,              \* index of the sequential compensation loop
    comp,           \* comp[j]: what became of the compensation of step j
    stepErr,        \* a step failed
    compErrs        \* steps whose compensation returned an error

sagaVars == <<parallel, continueOnError, steps>>
vars     == <<sagaVars, cancelled, pc, completed, i, comp, stepErr, compErrs>>

CompStates == {"none", "asked", "ok", "failed", "refused"}

\* New: any combination of the options.
Init ==
    /\ parallel \in BOOLEAN
    /\ continueOnError \in BOOLEAN
    /\ steps = <<>>
    /\ cancelled = FALSE
    /\ pc = "build"
    /\ completed = 0
    /\ i = 0
    /\ comp = [j \in 1..MaxSteps |-> "none"]
    /\ stepErr = FALSE
    /\ compErrs = {}

Step(hasCompensation) ==
    /\ pc = "build"
    /\ Len(steps) < MaxSteps
    /\ steps' = Append(steps, hasCompensation)
    /\ UNCHANGED <<parallel, continueOnError, cancelled, pc, completed, i, comp,
                   stepErr, compErrs>>

Execute ==
    /\ pc = "build"
    /\ pc' = "forward"
    /\ UNCHANGED <<sagaVars, cancelled, completed, i, comp, stepErr, compErrs>>

\* The workflow is cancelled from outside, at any time before Execute returns.
CancelWorkflow ==
    /\ ~cancelled
    /\ pc # "returned"
    /\ cancelled' = TRUE
    /\ UNCHANGED <<sagaVars, pc, completed, i, comp, stepErr, compErrs>>

-----------------------------------------------------------------------------
(* The forward actions.                                                    *)

ActionSucceeds ==
    /\ pc = "forward"
    /\ completed < Len(steps)
    /\ ~cancelled
    /\ completed' = completed + 1
    /\ UNCHANGED <<sagaVars, cancelled, pc, i, comp, stepErr, compErrs>>

\* The action returns an error, on its own or because the context is cancelled.
ActionFails ==
    /\ pc = "forward"
    /\ completed < Len(steps)
    /\ stepErr' = TRUE
    /\ i' = completed
    /\ pc' = IF completed = 0 THEN "returned"
             ELSE IF parallel THEN "ask" ELSE "undo"
    /\ UNCHANGED <<sagaVars, cancelled, completed, comp, compErrs>>

AllDone ==
    /\ pc = "forward"
    /\ completed = Len(steps)
    /\ pc' = "returned"
    /\ UNCHANGED <<sagaVars, cancelled, completed, i, comp, stepErr, compErrs>>

-----------------------------------------------------------------------------
(* The outcomes of a compensation activity.                                *)

Outcome(j, r) ==
    /\ comp' = [comp EXCEPT ![j] = r]
    /\ r = "ok" => ~cancelled
    /\ r = "refused" => cancelled
    /\ compErrs' = IF r = "ok" THEN compErrs ELSE compErrs \cup {j}

-----------------------------------------------------------------------------
(* compensateSequential.                                                   *)

SkipNil ==
    /\ pc = "undo"
    /\ i > 0
    /\ ~steps[i]
    /\ i' = i - 1
    /\ UNCHANGED <<sagaVars, cancelled, pc, completed, comp, stepErr, compErrs>>

\* Mutation: the error of a compensation is dropped.
CompensateDropsError ==
    /\ pc = "undo"
    /\ i > 0
    /\ steps[i]
    /\ \E r \in {"ok", "failed", "refused"} : comp' = [comp EXCEPT ![i] = r]
    /\ i' = i - 1
    /\ UNCHANGED <<sagaVars, cancelled, pc, completed, stepErr, compErrs>>

\* Mutation: the completed steps are compensated in the order they ran.
CompensateForward ==
    /\ pc = "undo"
    /\ i > 0
    /\ steps[i]
    /\ \E r \in {"ok", "failed", "refused"} :
           /\ Outcome(completed - i + 1, r)
           /\ pc' = IF r # "ok" /\ ~continueOnError THEN "returned" ELSE "undo"
    /\ i' = i - 1
    /\ UNCHANGED <<sagaVars, cancelled, completed, stepErr>>

\* One compensation; the first error ends the loop unless told to continue.
Compensate ==
    /\ pc = "undo"
    /\ i > 0
    /\ steps[i]
    /\ \E r \in {"ok", "failed", "refused"} :
           /\ Outcome(i, r)
           /\ pc' = IF r # "ok" /\ ~continueOnError THEN "returned" ELSE "undo"
    /\ i' = i - 1
    /\ UNCHANGED <<sagaVars, cancelled, completed, stepErr>>

UndoDone ==
    /\ pc = "undo"
    /\ i = 0
    /\ pc' = "returned"
    /\ UNCHANGED <<sagaVars, cancelled, completed, i, comp, stepErr, compErrs>>

-----------------------------------------------------------------------------
(* compensateParallel: all activities are asked for, then all awaited.     *)

AskAll ==
    /\ pc = "ask"
    /\ comp' = [j \in 1..MaxSteps |->
                   IF j \in 1..completed /\ steps[j] THEN "asked" ELSE comp[j]]
    /\ pc' = "await"
    /\ UNCHANGED <<sagaVars, cancelled, completed, i, stepErr, compErrs>>

CompensationReturns(j) ==
    /\ pc = "await"
    /\ comp[j] = "asked"
    /\ \E r \in {"ok", "failed", "refused"} : Outcome(j, r)
    /\ UNCHANGED <<sagaVars, cancelled, pc, completed, i, stepErr>>

AwaitDone ==
    /\ pc = "await"
    /\ \A j \in 1..MaxSteps : comp[j] # "asked"
    /\ pc' = "returned"
    /\ UNCHANGED <<sagaVars, cancelled, completed, i, comp, stepErr, compErrs>>

-----------------------------------------------------------------------------
Build == (\E c \in BOOLEAN : Step(c)) \/ Execute

Run ==
    \/ ActionSucceeds \/ ActionFails \/ AllDone
    \/ SkipNil \/ Compensate \/ UndoDone
    \/ AskAll \/ (\E j \in 1..MaxSteps : CompensationReturns(j)) \/ AwaitDone

Next == Build \/ Run \/ CancelWorkflow

Spec == Init /\ [][Next]_vars

-----------------------------------------------------------------------------
(* Properties.                                                             *)

Attempted(j) == comp[j] # "none"

\* The steps that have to be undone when a later one fails.
ToUndo == {j \in 1..completed : steps[j]}

\* The values of the saga and of Execute's locals.
TypeOK ==
    /\ parallel \in BOOLEAN /\ continueOnError \in BOOLEAN
    /\ steps \in Seq(BOOLEAN) /\ Len(steps) <= MaxSteps
    /\ cancelled \in BOOLEAN
    /\ pc \in {"build", "forward", "undo", "ask", "await", "returned"}
    /\ completed \in 0..Len(steps)
    /\ i \in 0..completed
    /\ comp \in [1..MaxSteps -> CompStates]
    /\ stepErr \in BOOLEAN
    /\ compErrs \subseteq 1..MaxSteps

\* Only completed steps are compensated, and only after a step has failed: not
\* the failing step itself, not a step that never ran.
OnlyCompletedUndone ==
    \A j \in 1..MaxSteps : Attempted(j) => stepErr /\ j \in ToUndo

\* Sequential compensation goes backwards: when a step is compensated, every
\* later completed step has had its turn.
ReverseOrder ==
    ~parallel =>
        \A j, k \in ToUndo : j < k /\ Attempted(j) => Attempted(k)

\* Execute ends in one of two ways after a failure: every completed step is
\* undone, or its result carries the error of a compensation.  In parallel, or
\* with WithContinueOnCompensationError, a failing compensation keeps no other
\* step from being compensated.
UndoneOrReported ==
    pc = "returned" /\ stepErr =>
        /\ (\A j \in ToUndo : comp[j] = "ok") \/ compErrs # {}
        /\ parallel \/ continueOnError => \A j \in ToUndo : Attempted(j)

Ended(results) == {j \in 1..MaxSteps : comp[j] \in results}

Contract == INSTANCE SagaContract WITH
    plan <- steps, ordered <- ~parallel, done <- completed, failed <- stepErr,
    undone <- Ended({"ok"}), lost <- Ended({"failed", "refused"})

\* The saga implements SagaContract: no step is taken after a failure, and each
\* completed step is compensated at most once, the last one first unless
\* WithParallelCompensation was given.
ImplementsContract == Contract!Spec

\* When a step fails, the compensations of the completed steps are run (the
\* loop may end early only because one of them failed).
FailureIsCompensated ==
    pc = "returned" /\ stepErr /\ (\A j \in ToUndo : comp[j] # "failed") =>
        \A j \in ToUndo : comp[j] = "ok"

=============================================================================
