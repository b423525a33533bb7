---------------------------- MODULE SagaContract ----------------------------
(***************************************************************************)
(* What a saga promises, however it compensates: steps are taken in order  *)
(* until one fails, nothing is taken after that, and each completed step   *)
(* is compensated at most once, in the ordered case the last one first.    *)
(***************************************************************************)
EXTENDS Naturals, Sequences

VARIABLES
    plan,       \* plan[j]: step j can be compensated
    ordered,    \* compensations follow each other
    done,       \* number of steps taken
    failed,     \* a step has failed
    undone,     \* steps whose compensation succeeded
    lost        \* steps whose compensation did not

contractVars == <<plan, ordered, done, failed, undone, lost>>

Init ==
    /\ plan = <<>> /\ ordered \in BOOLEAN
    /\ done = 0 /\ failed = FALSE
    /\ undone = {} /\ lost = {}

Extend(c) ==
    /\ done = 0 /\ ~failed
    /\ plan' = Append(plan, c)
    /\ UNCHANGED <<ordered, done, failed, undone, lost>>

Take ==
    /\ ~failed /\ done < Len(plan)
    /\ done' = done + 1
    /\ UNCHANGED <<plan, ordered, failed, undone, lost>>

Fail ==
    /\ ~failed /\ done < Len(plan)
    /\ failed' = TRUE
    /\ UNCHANGED <<plan, ordered, done, undone, lost>>

\* Step j has been taken and not been compensated; if that is ordered, every
\* later step has been.
Due(j) ==
    /\ failed /\ j \in 1..done /\ plan[j]
    /\ j \notin undone \cup lost
    /\ ordered => \A k \in (j + 1)..done : plan[k] => k \in undone \cup lost

Undo(j) ==
    /\ Due(j)
    /\ undone' = undone \cup {j}
    /\ UNCHANGED <<plan, ordered, done, failed, lost>>

Lose(j) ==
    /\ Due(j)
    /\ lost' = lost \cup {j}
    /\ UNCHANGED <<plan, ordered, done, failed, undone>>

Next ==
    \/ \E c \in BOOLEAN : Extend(c)
    \/ Take \/ Fail
    \/ \E j \in 1..done : Undo(j) \/ Lose(j)

Spec == Init /\ [][Next]_contractVars

=============================================================================
