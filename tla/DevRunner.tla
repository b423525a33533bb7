----------------------------- MODULE DevRunner ------------------------------
(***************************************************************************)
(* `goplatform run` (cmd/goplatform/run.go): runDev, its debounce timer    *)
(* and the runner that builds, starts and kills the child process.         *)
(*                                                                         *)
(* Data abstractions.  The sources are the number of edits made to them.   *)
(* A build reads them at one moment.  A process is one of two numbers.     *)
(* Write and Create events of .go files that wait in the watcher are one   *)
(* flag: a later one changes nothing that the first did not.               *)
(***************************************************************************)
EXTENDS Naturals, FiniteSets

CONSTANT MaxEdits       \* bound on the edits of the sources

VARIABLES
    src,        \* the edits made so far
    main,       \* runDev: "first", "setup", "loop", "stopping", "stopped", "exited"
    event,      \* the watcher has an event for runDev
    timer,      \* the debounce timer is armed
    fired,      \* functions of fired timers that wait for runner.mu
    job,        \* who holds runner.mu, at which step, with which sources
    cmd,        \* r.cmd.Process, 0 for none
    procs,      \* the child processes that live
    last,       \* the sources the last build read
    late        \* a restart was still due when runDev's stop returned


NoJob == [by |-> "none", pc |-> "kill", v |-> 0]
Locked(by) == [NoJob EXCEPT !.by = by]

Init ==
    /\ src = 0 /\ main = "first" /\ event = FALSE /\ timer = FALSE /\ fired = 0
    /\ job = Locked("main")
    /\ cmd = 0 /\ procs = {} /\ last = 0 /\ late = FALSE

\* The developer saves a file.  What was saved before the directories were
\* added to the watcher is never reported.
Edit ==
    /\ src < MaxEdits
    /\ src' = src + 1
    /\ event' = (event \/ main = "loop")
    /\ UNCHANGED <<main, timer, fired, job, cmd, procs, last, late>>

\* A child ends by itself, or because it obeys the SIGTERM.
ChildExits(p) ==
    /\ procs' = procs \ {p}
    /\ UNCHANGED <<src, main, event, timer, fired, job, cmd, last, late>>

-----------------------------------------------------------------------------
(* runDev                                                                  *)

Watch ==
    /\ main = "setup"
    /\ main' = "loop"
    /\ UNCHANGED <<src, event, timer, fired, job, cmd, procs, last, late>>

\* Mutation: an event that comes during a restart arms no timer.
HandleEventUnlessBusy ==
    /\ main = "loop" /\ event
    /\ event' = FALSE /\ timer' = (timer \/ job.by = "none")
    /\ UNCHANGED <<src, main, fired, job, cmd, procs, last, late>>

\* Stop of the old timer prevents its function only if it has not fired.
HandleEvent ==
    /\ main = "loop" /\ event
    /\ event' = FALSE /\ timer' = TRUE
    /\ UNCHANGED <<src, main, fired, job, cmd, procs, last, late>>

\* A signal, a closed channel, or a failed set-up of the watcher.
Leave ==
    /\ main \in {"setup", "loop"}
    /\ main' = "stopping"
    /\ UNCHANGED <<src, event, timer, fired, job, cmd, procs, last, late>>

StopLocks ==
    /\ main = "stopping" /\ job.by = "none"
    /\ job' = Locked("main")
    /\ UNCHANGED <<src, main, event, timer, fired, cmd, procs, last, late>>

\* runDev has returned and the tool's process ends, with all its goroutines.
Exit ==
    /\ main = "stopped"
    /\ main' = "exited"
    /\ event' = FALSE /\ timer' = FALSE /\ fired' = 0 /\ job' = NoJob /\ cmd' = 0
    /\ UNCHANGED <<src, procs, last, late>>

-----------------------------------------------------------------------------
(* The functions of the timers, restart and stop, under runner.mu.         *)

TimerFires ==
    /\ timer
    /\ timer' = FALSE /\ fired' = fired + 1
    /\ UNCHANGED <<src, main, event, job, cmd, procs, last, late>>

RestartLocks ==
    /\ fired > 0 /\ job.by = "none"
    /\ fired' = fired - 1
    /\ job' = Locked("timer")
    /\ UNCHANGED <<src, main, event, timer, cmd, procs, last, late>>

\* The old child is gone: restart goes on to build, stop returns.
Killed ==
    \/ /\ main # "stopping" \/ job.by # "main"
       /\ job' = [job EXCEPT !.pc = "build"]
       /\ UNCHANGED <<main, cmd, late>>
    \/ /\ main = "stopping" /\ job.by = "main"
       /\ job' = NoJob /\ cmd' = 0
       /\ main' = "stopped"
       /\ late' = (timer \/ fired > 0)

WaitReturns ==
    /\ job.by # "none" /\ job.pc = "kill" /\ cmd \notin procs
    /\ Killed
    /\ UNCHANGED <<src, event, timer, fired, procs, last>>

\* Mutation: after the timeout the process is not killed.
WaitTimesOutNoKill ==
    /\ job.by # "none" /\ job.pc = "kill" /\ cmd \in procs
    /\ Killed
    /\ UNCHANGED <<src, event, timer, fired, procs, last>>

\* After 3 (restart) or 5 seconds (stop) the child is killed.
WaitTimesOut ==
    /\ job.by # "none" /\ job.pc = "kill" /\ cmd \in procs
    /\ procs' = procs \ {cmd}
    /\ Killed
    /\ UNCHANGED <<src, event, timer, fired, last>>

BuildReads ==
    /\ job.pc = "build"
    /\ job' = [job EXCEPT !.pc = "run", !.v = src]
    /\ last' = src
    /\ UNCHANGED <<src, main, event, timer, fired, cmd, procs, late>>

\* restart returns; a failure of the first one is returned by runDev.
Release(ok) ==
    /\ job' = NoJob
    /\ main' = IF main # "first" THEN main ELSE IF ok THEN "setup" ELSE "stopped"
    /\ UNCHANGED <<src, event, timer, fired, last, late>>

\* r.cmd still is the process that has been waited for.
BuildFails == job.pc = "run" /\ Release(FALSE) /\ UNCHANGED <<cmd, procs>>

StartFails == job.pc = "run" /\ cmd' = 0 /\ Release(FALSE) /\ UNCHANGED procs

\* A new process differs from the one r.cmd holds.
Pids == 1..2

ProcessStarts(p) ==
    /\ job.pc = "run" /\ p \notin procs /\ p # cmd
    /\ cmd' = p /\ procs' = procs \cup {p}
    /\ Release(TRUE)

-----------------------------------------------------------------------------
Runner ==
    Watch \/ HandleEvent \/ StopLocks \/ TimerFires \/ RestartLocks
    \/ WaitReturns \/ WaitTimesOut \/ BuildReads \/ StartFails \/ BuildFails
    \/ \E p \in Pids : ProcessStarts(p)
=============================================================================
