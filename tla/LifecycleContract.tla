-------------------------- MODULE LifecycleContract --------------------------
(***************************************************************************)
(* What App.Run promises about components, whatever its hooks, plugins and *)
(* errors do: components are brought up one on top of the other, and once  *)
(* the application drains, nothing is started any more and the component   *)
(* started last is always the next one to finish stopping.  No component   *)
(* is started or stopped twice.                                            *)
(***************************************************************************)
EXTENDS Sequences, Naturals

CONSTANTS
    Names,
    Deaf        \* components that may never finish stopping

VARIABLES
    running,    \* the components that are up, in the order they came up
    finished,   \* the components that have been stopped
    draining    \* shutdown, or the unwinding of a failed startup, has begun

contractVars == <<running, finished, draining>>

Init == running = <<>> /\ finished = {} /\ draining = FALSE

Start(n) ==
    /\ ~draining
    /\ n \notin finished
    /\ \A k \in 1..Len(running) : running[k] # n
    /\ running' = Append(running, n)
    /\ UNCHANGED <<finished, draining>>

Drain ==
    /\ ~draining
    /\ draining' = TRUE
    /\ UNCHANGED <<running, finished>>

StopLast ==
    /\ draining
    /\ running # <<>>
    /\ running' = SubSeq(running, 1, Len(running) - 1)
    /\ finished' = finished \cup {running[Len(running)]}
    /\ UNCHANGED draining

Next == (\E n \in Names : Start(n)) \/ Drain \/ StopLast

\* Draining goes on as long as the component on top finishes stopping.
StopObedient == StopLast /\ running[Len(running)] \notin Deaf

Safety == Init /\ [][Next]_contractVars

Spec == Safety /\ WF_contractVars(StopObedient)

=============================================================================
