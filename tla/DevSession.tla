----------------------------- MODULE DevSession -----------------------------
(***************************************************************************)
(* A development session: `goplatform run` (DevRunner) builds and runs a   *)
(* service that loads and watches its configuration (ConfigLoader), while  *)
(* sources and configuration files are edited.  The loader lives and dies  *)
(* with the child process.                                                 *)
(***************************************************************************)
EXTENDS Naturals, FiniteSets

CONSTANTS MaxEdits, NFiles, MaxWrites

ASSUME SessionAssumption ==
    MaxEdits \in Nat /\ NFiles \in Nat \ {0} /\ MaxWrites \in Nat

VARIABLES src, main, event, timer, fired, job, cmd, procs, last, late
VARIABLES content, writes, loader, view

R == INSTANCE DevRunner
C == INSTANCE ConfigLoader

rvars == <<src, main, event, timer, fired, job, cmd, procs, last, late>>
cvars == <<content, writes, loader, view>>
vars == <<rvars, cvars>>

Init == R!Init /\ C!Init

\* What a step of the runner does to the loader of the child.
Follow ==
    /\ UNCHANGED <<content, writes>>
    /\ \/ procs' \ procs # {} /\ C!NewLoader
       \/ procs' = procs /\ UNCHANGED <<loader, view>>
       \/ procs' # procs /\ procs' \subseteq procs
          /\ loader' = C!NoLoader /\ view' = C!NoConfig

RunnerStep == R!Runner /\ Follow

Leave == R!Leave /\ Follow

Exit == R!Exit /\ Follow

\* A child exits by itself; main of a service ends when NewLoader fails.
ChildExits(p) == R!ChildExits(p) /\ Follow

LoaderStep == procs # {} /\ C!Step /\ UNCHANGED rvars

LoaderCancelled == C!WatchCancelled /\ UNCHANGED rvars

Edits ==
    \/ R!Edit /\ UNCHANGED cvars
    \/ C!Write /\ UNCHANGED rvars

Next ==
    \/ RunnerStep \/ Leave \/ Exit
    \/ \E p \in procs : ChildExits(p)
    \/ LoaderStep \/ LoaderCancelled
    \/ Edits

\* The tool, its timer and the loader run until they block.  Nothing makes
\* the developer edit or interrupt, nor a child exit.
Spec == Init /\ [][Next]_vars /\ WF_vars(RunnerStep) /\ WF_vars(Exit) /\ WF_vars(LoaderStep)

-----------------------------------------------------------------------------
\* The tool runs at most one child, and leaves none behind when it exits,
\* unless the function of a debounce timer was still due when runDev stopped
\* the child: restart does not know that the session is over (run.go:129).
NoStrayChild ==
    /\ Cardinality(procs) <= 1
    /\ main = "exited" /\ procs # {} => late

\* The service never uses a configuration with a file missing, and never one
\* that has lost a write it used before a reload: a reload that fails part of
\* the way leaves the configuration as it was (loader.go:173).
WholeConfig ==
    /\ \A f \in C!Files : view[f] # C!Unread \/ view = C!NoConfig
    /\ loader.pc \in {"watch", "notify", "done"} =>
          \A f \in C!Files : view[f] <= loader.k[f] /\ loader.k[f] <= content[f].v

\* A change that a watcher reported is followed: a build reads the sources as
\* they are then, unless the session ends, and the service comes to use the
\* files as they are then, unless one does not parse, or the watch on one is lost.
ReportedChangesFollowed ==
    /\ event ~> last = src \/ main # "loop"
    /\ loader.event /\ (\A f \in C!Files : content[f].ok)
          ~> \/ \A f \in C!Files : view[f] = content[f].v
             \/ \E f \in C!Files : ~content[f].ok
             \/ loader.pc \in {"none", "failed", "done"}
             \/ loader.watched # C!Files
=============================================================================
