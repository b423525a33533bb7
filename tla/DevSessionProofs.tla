-------------------------- MODULE DevSessionProofs ---------------------------
(***************************************************************************)
(* Proofs about DevSession for every number of edits, of configuration     *)
(* files and of writes to them.                                            *)
(***************************************************************************)
EXTENDS DevSession, FiniteSetTheorems, TLAPS

-----------------------------------------------------------------------------
(* The runner.                                                             *)

Jobs == [by : {"none", "main", "timer"}, pc : {"kill", "build", "run"}, v : Nat]

RunnerTypes ==
    /\ src \in Nat /\ fired \in Nat /\ cmd \in 0..2 /\ procs \subseteq R!Pids
    /\ main \in {"first", "setup", "loop", "stopping", "stopped", "exited"}
    /\ event \in BOOLEAN /\ timer \in BOOLEAN /\ late \in BOOLEAN /\ job \in Jobs

\* The child that lives is the one r.cmd holds, and there is none while restart
\* builds and starts its successor.
OneChild ==
    /\ \A p, q \in procs : p = q
    /\ main # "exited" => procs \subseteq {cmd}
    /\ job.pc # "kill" => procs = {} /\ job.by # "none"

\* runDev holds runner.mu in its first restart and in its stop, which only
\* kills.
MainJob ==
    /\ job.by = "main" => main \in {"first", "stopping"}
    /\ main = "first" => job.by = "main" /\ ~timer /\ fired = 0
    /\ main = "stopping" /\ job.by = "main" => job.pc = "kill"

\* After stop, and unless a timer was still due then, nothing runs any more and
\* nothing will.
NothingDue ==
    /\ main \in {"stopped", "exited"} /\ ~late =>
           ~timer /\ fired = 0 /\ job.by = "none" /\ procs = {}
    /\ main = "exited" => ~timer /\ fired = 0 /\ job.by = "none"

RunnerInv == RunnerTypes /\ OneChild /\ MainJob /\ NothingDue

-----------------------------------------------------------------------------
(* The loader.                                                             *)

Configs == [C!Files -> 0..C!Unread]

Loaders ==
    [pc : {"none", "load", "ready", "watch", "reload", "notify", "failed", "done"},
     k : Configs, old : Configs, next : Nat, watched : SUBSET C!Files, event : BOOLEAN]

FilesOK ==
    /\ writes \in 0..MaxWrites
    /\ content \in [C!Files -> [v : 0..MaxWrites, ok : BOOLEAN]]
    /\ \A f \in C!Files : content[f].v <= writes

\* What the loader holds in each phase against what the service uses and what
\* the files say: the configuration it falls back on is no older than the one in
\* use, and the part of the new one that it has read no older than that.
LoaderOK(l, u, c) ==
    /\ l \in Loaders /\ u \in Configs /\ l.next \in 1..(NFiles + 1)
    /\ l.pc \in {"none", "load", "failed"} => u = C!NoConfig
    /\ l.pc = "load" => \A f \in C!Files : f < l.next => l.k[f] <= c[f].v
    /\ l.pc = "ready" => /\ u \in {C!NoConfig, l.k}
                         /\ \A f \in C!Files : l.k[f] <= c[f].v
    /\ l.pc = "reload" =>
           \A f \in C!Files :
               /\ u[f] <= l.old[f] /\ l.old[f] <= c[f].v
               /\ f < l.next => l.old[f] <= l.k[f] /\ l.k[f] <= c[f].v
    /\ l.pc \in {"watch", "notify", "done"} =>
           \A f \in C!Files : u[f] <= l.k[f] /\ l.k[f] <= c[f].v
    /\ l.pc \notin {"load", "reload"} => l.next = 1 \/ l.pc = "failed"

ConfigInv == FilesOK /\ LoaderOK(loader, view, content)

\* The conjunction that every step preserves.
IndInv == RunnerInv /\ ConfigInv

-----------------------------------------------------------------------------
(* The runner's steps.                                                     *)

\* The jobs that take and leave runner.mu are well-typed.
LEMMA JobTypes ==
    /\ R!NoJob \in Jobs /\ R!NoJob.by = "none" /\ R!NoJob.pc = "kill"
    /\ \A b \in {"main", "timer"} :
           R!Locked(b) \in Jobs /\ R!Locked(b).by = b /\ R!Locked(b).pc = "kill"
  BY DEF R!NoJob, R!Locked, Jobs

\* Steps that touch neither the job nor the child.
LEMMA QuietStep ==
    ASSUME RunnerInv,
           \/ R!Edit \/ R!Watch \/ R!HandleEvent \/ R!TimerFires \/ R!Leave
           \/ UNCHANGED rvars
    PROVE  RunnerInv'
  <1>1. UNCHANGED <<job, cmd, procs, last, late>>
    BY DEF R!Edit, R!Watch, R!HandleEvent, R!TimerFires, R!Leave, rvars
  <1>e. event' \in BOOLEAN
    <2>1. CASE R!Edit
      BY <2>1, Zenon DEF R!Edit
    <2>2. CASE ~R!Edit
      BY <2>2 DEF RunnerInv, RunnerTypes, R!Watch, R!HandleEvent, R!TimerFires, R!Leave,
                  rvars
    <2> QED
      BY <2>1, <2>2
  <1>t. /\ timer' \in BOOLEAN
        /\ main' \in {"first", "setup", "loop", "stopping", "stopped", "exited"}
    BY DEF RunnerInv, RunnerTypes, R!Edit, R!Watch, R!HandleEvent, R!TimerFires, R!Leave,
           rvars
  <1>n. src' \in Nat /\ fired' \in Nat
    BY DEF RunnerInv, RunnerTypes, R!Edit, R!Watch, R!HandleEvent, R!TimerFires, R!Leave,
           rvars
  <1>2. RunnerTypes'
    BY <1>1, <1>e, <1>t, <1>n DEF RunnerInv, RunnerTypes
  <1>3. OneChild' /\ MainJob' /\ NothingDue'
    BY <1>1 DEF RunnerInv, RunnerTypes, OneChild, MainJob, NothingDue, R!Edit, R!Watch,
                R!HandleEvent, R!TimerFires, R!Leave, rvars
  <1> QED
    BY <1>2, <1>3 DEF RunnerInv

\* runDev's stop and a timer's restart take the mutex.
LEMMA LockStep ==
    ASSUME RunnerInv, R!StopLocks \/ R!RestartLocks
    PROVE  RunnerInv'
  <1>1. PICK b \in {"main", "timer"} :
            /\ job' = R!Locked(b)
            /\ b = "main" => main = "stopping"
            /\ b = "timer" => fired > 0 /\ main # "first"
    BY DEF R!StopLocks, R!RestartLocks, RunnerInv, MainJob
  <1>2. job' \in Jobs /\ job'.by = b /\ job'.pc = "kill" /\ job.by = "none"
    BY <1>1, JobTypes DEF R!StopLocks, R!RestartLocks
  <1>3. RunnerTypes'
    BY <1>2 DEF RunnerInv, RunnerTypes, R!StopLocks, R!RestartLocks
  <1>4. OneChild' /\ MainJob' /\ NothingDue'
    BY <1>1, <1>2 DEF RunnerInv, RunnerTypes, OneChild, MainJob, NothingDue, R!StopLocks,
                      R!RestartLocks
  <1> QED
    BY <1>3, <1>4 DEF RunnerInv

\* The old child is gone, by itself or killed: the build finds none, and a stop
\* that nothing is due after leaves none.
LEMMA KillStep ==
    ASSUME RunnerInv, R!WaitReturns \/ R!WaitTimesOut
    PROVE  RunnerInv'
  <1>1. /\ job.by # "none" /\ job.pc = "kill" /\ R!Killed
        /\ UNCHANGED <<src, event, timer, fired, last>>
    BY DEF R!WaitReturns, R!WaitTimesOut
  <1>2. main # "exited"
    BY <1>1 DEF RunnerInv, NothingDue
  <1>3. procs' = {}
    BY <1>2 DEF RunnerInv, OneChild, R!WaitReturns, R!WaitTimesOut
  <1>4. job \in Jobs
    BY DEF RunnerInv, RunnerTypes
  <1>5. CASE /\ main # "stopping" \/ job.by # "main"
             /\ job' = [job EXCEPT !.pc = "build"] /\ UNCHANGED <<main, cmd, late>>
    <2>1. job' \in Jobs /\ job'.by = job.by /\ job'.pc = "build"
      BY <1>4, <1>5 DEF Jobs
    <2>2. RunnerTypes'
      BY <1>1, <1>3, <1>5, <2>1 DEF RunnerInv, RunnerTypes
    <2>3. OneChild' /\ MainJob' /\ NothingDue'
      BY <1>1, <1>3, <1>5, <2>1 DEF RunnerInv, OneChild, MainJob, NothingDue
    <2> QED
      BY <2>2, <2>3 DEF RunnerInv
  <1>6. CASE /\ main = "stopping" /\ job.by = "main" /\ job' = R!NoJob /\ cmd' = 0
             /\ main' = "stopped" /\ late' = (timer \/ fired > 0)
    <2>1. job' \in Jobs /\ job'.by = "none" /\ job'.pc = "kill"
      BY <1>6, JobTypes
    <2>2. RunnerTypes'
      BY <1>1, <1>3, <1>6, <2>1 DEF RunnerInv, RunnerTypes
    <2>3. OneChild' /\ MainJob'
      BY <1>1, <1>3, <1>6, <2>1 DEF OneChild, MainJob
    <2>4. ~late' => ~timer' /\ fired' = 0
      <3>1. ~late' => ~timer /\ ~(fired > 0)
        BY <1>6, Zenon
      <3> QED
        BY <1>1, <3>1 DEF RunnerInv, RunnerTypes
    <2>5. NothingDue'
      BY <1>3, <1>6, <2>1, <2>4 DEF NothingDue
    <2> QED
      BY <2>2, <2>3, <2>5 DEF RunnerInv
  <1> QED
    BY <1>1, <1>5, <1>6 DEF R!Killed

\* restart builds, and ends with a new child or without one.
LEMMA BuildStep ==
    ASSUME RunnerInv,
           \/ R!BuildReads \/ R!BuildFails \/ R!StartFails
           \/ \E p \in R!Pids : R!ProcessStarts(p)
    PROVE  RunnerInv'
  <1>0. job.pc # "kill" /\ job \in Jobs
    BY DEF R!BuildReads, R!BuildFails, R!StartFails, R!ProcessStarts, RunnerInv, RunnerTypes
  <1>1. procs = {} /\ job.by \in {"main", "timer"} /\ main # "exited"
    BY <1>0 DEF RunnerInv, OneChild, NothingDue, Jobs
  <1>2. CASE R!BuildReads
    <2>1. job' \in Jobs /\ job'.by = job.by /\ job'.pc = "run"
      BY <1>0, <1>2 DEF R!BuildReads, Jobs, RunnerInv, RunnerTypes
    <2>2. RunnerTypes'
      BY <1>2, <2>1 DEF R!BuildReads, RunnerInv, RunnerTypes
    <2>3. OneChild' /\ MainJob' /\ NothingDue'
      BY <1>0, <1>2, <2>1 DEF R!BuildReads, RunnerInv, OneChild, MainJob, NothingDue
    <2> QED
      BY <2>2, <2>3 DEF RunnerInv
  <1>3. ASSUME NEW ok \in BOOLEAN, R!Release(ok), cmd' \in 0..2, procs' \subseteq R!Pids,
               procs' = IF ok THEN {cmd'} ELSE {}
        PROVE  RunnerInv'
    <2>1. job' \in Jobs /\ job'.by = "none" /\ job'.pc = "kill"
      BY <1>3, JobTypes DEF R!Release
    <2>2. RunnerTypes'
      BY <1>3, <2>1 DEF R!Release, RunnerInv, RunnerTypes
    <2>3. OneChild' /\ MainJob'
      BY <1>3, <2>1 DEF R!Release, RunnerInv, MainJob, RunnerTypes, OneChild
    <2>4. CASE main = "first"
      <3>1. main' = IF ok THEN "setup" ELSE "stopped"
        BY <1>3, <2>4 DEF R!Release
      <3>2. ~timer' /\ fired' = 0
        BY <1>3, <2>4 DEF R!Release, RunnerInv, MainJob
      <3> QED
        BY <1>3, <2>1, <2>2, <2>3, <3>1, <3>2 DEF RunnerInv, NothingDue
    <2>5. CASE main # "first"
      <3>1. main' = main /\ late' = late
        BY <1>3, <2>5 DEF R!Release
      <3>2. main = "stopped" => late
        BY <1>1 DEF RunnerInv, NothingDue
      <3>3. NothingDue'
        BY <1>1, <3>1, <3>2 DEF NothingDue
      <3> QED
        BY <2>2, <2>3, <3>3 DEF RunnerInv
    <2> QED
      BY <2>4, <2>5
  <1>4. CASE R!BuildFails \/ R!StartFails
    <2>1. R!Release(FALSE)
      BY <1>4 DEF R!BuildFails, R!StartFails
    <2>a. procs' = procs /\ (cmd' = cmd \/ cmd' = 0)
      BY <1>4, Zenon DEF R!BuildFails, R!StartFails
    <2>2. cmd' \in 0..2 /\ procs' = {}
      BY <1>1, <2>a DEF RunnerInv, RunnerTypes
    <2> QED
      BY <1>3, <2>1, <2>2
  <1>5. ASSUME NEW p \in R!Pids, R!ProcessStarts(p) PROVE RunnerInv'
    <2>1. R!Release(TRUE) /\ cmd' = p /\ procs' = {p}
      BY <1>1, <1>5 DEF R!ProcessStarts
    <2>2. p \in 0..2
      BY DEF R!Pids
    <2> QED
      BY <1>3, <2>1, <2>2
  <1> QED
    BY <1>2, <1>4, <1>5

\* The child or the tool ends.
LEMMA EndStep ==
    ASSUME RunnerInv, R!Exit \/ \E p \in procs : R!ChildExits(p)
    PROVE  RunnerInv'
  <1>1. CASE R!Exit
    <2>1. job' \in Jobs /\ job'.by = "none" /\ job'.pc = "kill"
      BY <1>1, JobTypes DEF R!Exit
    <2>a. /\ event' = FALSE /\ timer' = FALSE /\ fired' = 0 /\ cmd' = 0
          /\ UNCHANGED <<src, procs, late>> /\ main' = "exited"
      BY <1>1 DEF R!Exit
    <2>b. event' \in BOOLEAN /\ timer' \in BOOLEAN
      BY <2>a, Zenon
    <2>c. fired' \in Nat /\ cmd' \in 0..2
      BY <2>a
    <2>2. RunnerTypes'
      BY <2>a, <2>b, <2>c, <2>1 DEF RunnerInv, RunnerTypes
    <2>3. OneChild' /\ MainJob' /\ NothingDue'
      BY <1>1, <2>1 DEF R!Exit, RunnerInv, OneChild, MainJob, NothingDue
    <2> QED
      BY <2>2, <2>3 DEF RunnerInv
  <1>2. CASE \E p \in procs : R!ChildExits(p)
    BY <1>2 DEF R!ChildExits, RunnerInv, RunnerTypes, OneChild, MainJob, NothingDue
  <1> QED
    BY <1>1, <1>2

-----------------------------------------------------------------------------
(* The loader's steps.                                                     *)

Contents == [C!Files -> [v : 0..MaxWrites, ok : BOOLEAN]]

\* The configuration that nothing has been merged into.
LEMMA EmptyConfig ==
    /\ C!NoConfig \in Configs /\ \A f \in C!Files : C!NoConfig[f] = C!Unread
    /\ C!Unread \in Nat /\ C!Unread = MaxWrites + 1 /\ C!Files = 1..NFiles
    /\ C!NoLoader \in Loaders
  <1>1. C!Unread \in Nat /\ C!Unread = MaxWrites + 1 /\ C!Files = 1..NFiles
    BY SessionAssumption DEF C!Unread, C!Files
  <1>2. C!NoConfig \in Configs /\ \A f \in C!Files : C!NoConfig[f] = C!Unread
    BY <1>1 DEF C!NoConfig, Configs
  <1>3. C!NoLoader \in Loaders
    <2>1. FALSE \in BOOLEAN /\ {} \in SUBSET C!Files
      OBVIOUS
    <2> QED
      BY <1>2, <2>1 DEF C!NoLoader, Loaders
  <1> QED
    BY <1>1, <1>2, <1>3

\* A process that starts begins to load; without a process there is no loader.
LEMMA FreshLoader ==
    ASSUME NEW c
    PROVE  /\ LoaderOK(C!NoLoader, C!NoConfig, c)
           /\ LoaderOK([C!NoLoader EXCEPT !.pc = "load"], C!NoConfig, c)
  <1>1. C!NoLoader.pc = "none" /\ C!NoLoader.next = 1
    BY DEF C!NoLoader
  <1>2. 1 \in 1..(NFiles + 1) /\ \A f \in C!Files : ~(f < 1)
    BY EmptyConfig, SessionAssumption
  <1>3. LoaderOK(C!NoLoader, C!NoConfig, c)
    BY <1>1, <1>2, EmptyConfig DEF LoaderOK
  <1> DEFINE l == [C!NoLoader EXCEPT !.pc = "load"]
  <1>4. l \in Loaders /\ l.pc = "load" /\ l.next = 1
    BY <1>1, EmptyConfig DEF Loaders
  <1> HIDE DEF l
  <1>5. LoaderOK(l, C!NoConfig, c)
    BY <1>2, <1>4, EmptyConfig DEF LoaderOK
  <1> QED
    BY <1>3, <1>5 DEF l

\* A write moves a file on, and the loader at most hears of it.
LEMMA Monotone ==
    ASSUME NEW l, NEW m \in Loaders, NEW u, NEW c \in Contents, NEW d \in Contents,
           LoaderOK(l, u, c), m.pc = l.pc, m.k = l.k, m.old = l.old, m.next = l.next,
           \A f \in C!Files : c[f].v <= d[f].v
    PROVE  LoaderOK(m, u, d)
  <1>1. l.k \in Configs /\ l.old \in Configs
    BY DEF LoaderOK, Loaders
  <1>a. \A x \in 0..C!Unread : x \in Nat
    BY EmptyConfig
  <1>2. \A f \in C!Files : l.k[f] \in Nat /\ l.old[f] \in Nat
    BY <1>1, <1>a DEF Configs
  <1>3. \A f \in C!Files : c[f].v \in Nat /\ d[f].v \in Nat
    BY SessionAssumption DEF Contents
  <1>4. \A f \in C!Files : /\ l.k[f] <= c[f].v => l.k[f] <= d[f].v
                           /\ l.old[f] <= c[f].v => l.old[f] <= d[f].v
    BY <1>2, <1>3
  <1> QED
    BY <1>4 DEF LoaderOK

\* Files may be written or replaced at any time.
LEMMA WriteStep ==
    ASSUME ConfigInv, C!Write
    PROVE  ConfigInv'
  <1>0. loader \in Loaders /\ FilesOK
    BY DEF ConfigInv, LoaderOK
  <1>1. PICK f \in C!Files : C!ReplaceFile(f) \/ \E ok \in BOOLEAN : C!WriteFile(f, ok)
    BY DEF C!Write
  <1>2. PICK ok \in BOOLEAN : /\ content' = [content EXCEPT ![f] = [v |-> writes + 1, ok |-> ok]]
                              /\ writes < MaxWrites /\ writes' = writes + 1 /\ UNCHANGED view
    BY <1>1 DEF C!ReplaceFile, C!WriteFile
  <1>3. FilesOK'
    BY <1>0, <1>2, SessionAssumption DEF FilesOK
  <1>4. \A g \in C!Files : content[g].v <= content'[g].v
    BY <1>0, <1>2, SessionAssumption DEF FilesOK
  <1>5. PICK e \in BOOLEAN, w \in SUBSET C!Files :
            \/ loader' = [loader EXCEPT !.event = e]
            \/ loader' = [loader EXCEPT !.watched = w]
    <2>1. CASE C!ReplaceFile(f)
      <3>1. loader.watched \ {f} \in SUBSET C!Files
        BY <1>0 DEF Loaders
      <3>2. loader' = [loader EXCEPT !.watched = loader.watched \ {f}]
        BY <2>1 DEF C!ReplaceFile
      <3> QED
        BY <3>1, <3>2
    <2>2. CASE \E o \in BOOLEAN : C!WriteFile(f, o)
      <3>1. (loader.event \/ f \in loader.watched) \in BOOLEAN
        BY Zenon
      <3>2. loader' = [loader EXCEPT !.event = (loader.event \/ f \in loader.watched)]
        BY <2>2, Zenon DEF C!WriteFile
      <3> QED
        BY <3>1, <3>2, Zenon
    <2> QED
      BY <1>1, <2>1, <2>2
  <1>6. /\ loader' \in Loaders /\ loader'.pc = loader.pc /\ loader'.k = loader.k
        /\ loader'.old = loader.old /\ loader'.next = loader.next
    BY <1>0, <1>5 DEF Loaders
  <1>7. content \in Contents /\ content' \in Contents
    BY <1>0, <1>3 DEF FilesOK, Contents
  <1>8. LoaderOK(loader', view', content')
    <2>1. LoaderOK(loader, view, content) /\ view' = view
      BY <1>2 DEF ConfigInv
    <2>2. LoaderOK(loader', view, content')
      BY <1>4, <1>6, <1>7, <2>1, Monotone
    <2> QED
      BY <2>1, <2>2
  <1> QED
    BY <1>3, <1>8 DEF ConfigInv

\* Reading the files one after the other, falling back, publishing and watching
\* keep what the service uses whole and never older than before.
LEMMA LoaderStays ==
    ASSUME ConfigInv, C!Step \/ C!WatchCancelled
    PROVE  ConfigInv'
  <1> DEFINE l == loader
  <1>0. /\ l \in Loaders /\ LoaderOK(l, view, content) /\ FilesOK /\ view \in Configs
        /\ l.k \in Configs /\ l.old \in Configs /\ l.next \in 1..(NFiles + 1)
    BY DEF ConfigInv, LoaderOK, Loaders
  <1>1. UNCHANGED <<content, writes>>
    BY DEF C!Step, C!WatchCancelled, C!LoadFile, C!LoadFails, C!LoadSourcesReturns, C!Load,
           C!Watch, C!Reload, C!OnChange, C!Become
  <1>2. FilesOK'
    BY <1>0, <1>1 DEF FilesOK
  <1>3. SUFFICES LoaderOK(loader', view', content)
    BY <1>1, <1>2 DEF ConfigInv
  <1>e. C!Unread \in Nat /\ C!Files = 1..NFiles /\ C!NoConfig \in Configs /\ NFiles \in Nat \ {0}
    BY EmptyConfig, SessionAssumption
  <1>v. \A f \in C!Files : content[f].v \in 0..C!Unread /\ content[f].v \in Nat
    BY <1>0, EmptyConfig, SessionAssumption DEF FilesOK
  <1>n. \A x \in 0..C!Unread : x \in Nat
    BY <1>e
  <1>k. \A f \in C!Files : l.k[f] \in Nat /\ l.old[f] \in Nat /\ view[f] \in Nat
    BY <1>0, <1>n DEF Configs
  <1>4. CASE C!LoadFile
    <2> DEFINE n == l.next
               m == [l EXCEPT !.k[n] = content[n].v, !.next = n + 1]
    <2>1. /\ l.pc \in {"load", "reload"} /\ n \in C!Files /\ n \in 1..NFiles
          /\ loader' = m /\ view' = view
      BY <1>4, <1>e DEF C!LoadFile, C!Loading, C!Become
    <2>2. [l.k EXCEPT ![n] = content[n].v] \in Configs
      BY <1>0, <1>v, <2>1 DEF Configs
    <2>3. /\ m.pc = l.pc /\ m.k = [l.k EXCEPT ![n] = content[n].v] /\ m.old = l.old
          /\ m.next = n + 1 /\ m.watched = l.watched /\ m.event = l.event
      BY <1>0 DEF Loaders
    <2>4. m \in Loaders
      <3>1. m = [l EXCEPT !.k = [l.k EXCEPT ![n] = content[n].v], !.next = n + 1]
        BY <1>0 DEF Loaders
      <3>2. n + 1 \in Nat
        BY <2>1, <1>e
      <3> HIDE DEF m, n
      <3> QED
        BY <1>0, <2>2, <3>1, <3>2 DEF Loaders
    <2> HIDE DEF m
    <2>5. n + 1 \in 1..(NFiles + 1) /\ \A f \in C!Files : f < n + 1 => f = n \/ f < n
      BY <1>e, <2>1
    <2>6. \A f \in C!Files : m.k[f] = IF f = n THEN content[n].v ELSE l.k[f]
      BY <1>0, <2>1, <2>3 DEF Configs
    <2>7. CASE l.pc = "load"
      <3>1. \A f \in C!Files : f < n => l.k[f] <= content[f].v
        BY <1>0, <2>7 DEF LoaderOK
      <3>2. \A f \in C!Files : f < n + 1 => m.k[f] <= content[f].v
        BY <1>v, <2>1, <2>5, <2>6, <3>1
      <3>3. view = C!NoConfig
        BY <1>0, <2>7 DEF LoaderOK
      <3> QED
        BY <1>0, <2>1, <2>3, <2>4, <2>5, <2>7, <3>2, <3>3 DEF LoaderOK
    <2>8. CASE l.pc = "reload"
      <3>1. \A f \in C!Files :
                /\ view[f] <= l.old[f] /\ l.old[f] <= content[f].v
                /\ f < n => l.old[f] <= l.k[f] /\ l.k[f] <= content[f].v
        BY <1>0, <2>8 DEF LoaderOK
      <3>2. \A f \in C!Files : f < n + 1 => l.old[f] <= m.k[f] /\ m.k[f] <= content[f].v
        BY <1>v, <2>1, <2>5, <2>6, <3>1
      <3> QED
        BY <1>0, <2>1, <2>3, <2>4, <2>5, <2>8, <3>1, <3>2 DEF LoaderOK
    <2> QED
      BY <2>1, <2>7, <2>8
  <1>5. CASE C!LoadFails
    <2>1. l.pc \in {"load", "reload"} /\ view' = view
      BY <1>5 DEF C!LoadFails, C!Loading, C!Become
    <2>2. CASE l.pc = "load"
      <3> DEFINE m == [l EXCEPT !.pc = "failed"]
      <3>1. loader' = m
        BY <1>5, <2>2 DEF C!LoadFails, C!Become
      <3>2. m \in Loaders /\ m.pc = "failed" /\ m.next = l.next
        BY <1>0 DEF Loaders
      <3>3. view = C!NoConfig
        BY <1>0, <2>2 DEF LoaderOK
      <3> HIDE DEF m
      <3> QED
        BY <1>0, <2>1, <3>1, <3>2, <3>3 DEF LoaderOK
    <2>3. CASE l.pc = "reload"
      <3> DEFINE m == [l EXCEPT !.pc = "watch", !.k = l.old, !.old = C!NoConfig, !.next = 1]
      <3>1. loader' = m
        BY <1>5, <2>3 DEF C!LoadFails, C!Become
      <3>2. m \in Loaders /\ m.pc = "watch" /\ m.next = 1 /\ m.k = l.old
        BY <1>0, <1>e DEF Loaders
      <3>3. \A f \in C!Files : view[f] <= l.old[f] /\ l.old[f] <= content[f].v
        BY <1>0, <2>3 DEF LoaderOK
      <3>4. 1 \in 1..(NFiles + 1)
        BY <1>e
      <3> HIDE DEF m
      <3> QED
        BY <1>0, <2>1, <3>1, <3>2, <3>3, <3>4 DEF LoaderOK
    <2> QED
      BY <2>1, <2>2, <2>3
  <1>6. CASE C!LoadSourcesReturns
    <2> DEFINE x == IF l.pc = "load" THEN "ready" ELSE "notify"
               m == [l EXCEPT !.pc = x, !.old = C!NoConfig, !.next = 1]
    <2>1. l.pc \in {"load", "reload"} /\ l.next \notin C!Files /\ loader' = m /\ view' = view
      BY <1>6 DEF C!LoadSourcesReturns, C!Loading, C!Become
    <2>2. m \in Loaders /\ m.pc = x /\ m.next = 1 /\ m.k = l.k
      BY <1>0, <1>e DEF Loaders
    <2> HIDE DEF m
    <2>3. 1 \in 1..(NFiles + 1) /\ \A f \in C!Files : f < l.next
      BY <1>0, <1>e, <2>1
    <2>4. CASE l.pc = "load"
      BY <1>0, <2>1, <2>2, <2>3, <2>4 DEF LoaderOK
    <2>5. CASE l.pc = "reload"
      <3>1. \A f \in C!Files : /\ view[f] <= l.old[f] /\ l.old[f] <= l.k[f]
                               /\ l.k[f] <= content[f].v
        BY <1>0, <2>3, <2>5 DEF LoaderOK
      <3>2. \A f \in C!Files : view[f] <= l.k[f]
        BY <1>k, <3>1
      <3> QED
        BY <1>0, <2>1, <2>2, <2>3, <2>5, <3>1, <3>2 DEF LoaderOK
    <2> QED
      BY <2>1, <2>4, <2>5
  <1>7. CASE C!Load
    <2>1. view' = l.k /\ loader' = l /\ l.pc \in {"ready", "watch", "notify", "done"}
      BY <1>7 DEF C!Load
    <2>2. \A f \in C!Files : l.k[f] <= l.k[f] /\ l.k[f] <= content[f].v
      BY <1>0, <1>k, <2>1 DEF LoaderOK
    <2> QED
      BY <1>0, <2>1, <2>2 DEF LoaderOK
  <1>8. CASE C!Watch
    <2>1. l.pc = "ready" /\ view # C!NoConfig /\ view' = view
      BY <1>8 DEF C!Watch, C!Become
    <2>2. /\ loader' \in Loaders /\ loader'.pc \in {"watch", "done"} /\ loader'.k = l.k
          /\ loader'.next = l.next
      BY <1>0, <1>8 DEF C!Watch, C!Become, Loaders
    <2>3. view = l.k /\ l.next = 1 /\ \A f \in C!Files : l.k[f] <= content[f].v
      BY <1>0, <2>1 DEF LoaderOK
    <2>4. \A f \in C!Files : view[f] <= l.k[f]
      BY <1>k, <2>3
    <2> QED
      BY <1>0, <2>1, <2>2, <2>3, <2>4 DEF LoaderOK
  <1>9. CASE C!Reload
    <2> DEFINE m == [l EXCEPT !.pc = "reload", !.event = FALSE, !.old = l.k, !.k = C!NoConfig]
    <2>1. l.pc = "watch" /\ loader' = m /\ view' = view
      BY <1>9 DEF C!Reload, C!Become
    <2>2. m.pc = "reload" /\ m.old = l.k /\ m.next = l.next
      BY <1>0 DEF Loaders
    <2>3. m \in Loaders
      BY <1>0, <1>e DEF Loaders
    <2> HIDE DEF m
    <2>4. l.next = 1 /\ \A f \in C!Files : view[f] <= l.k[f] /\ l.k[f] <= content[f].v
      BY <1>0, <2>1 DEF LoaderOK
    <2>5. \A f \in C!Files : ~(f < 1)
      BY <1>e
    <2> QED
      BY <1>0, <2>1, <2>2, <2>3, <2>4, <2>5 DEF LoaderOK
  <1>10. CASE C!OnChange
    <2> DEFINE m == [l EXCEPT !.pc = "watch"]
    <2>1. l.pc = "notify" /\ loader' = m /\ view' = l.k
      BY <1>10 DEF C!OnChange, C!Become
    <2>2. m \in Loaders /\ m.pc = "watch" /\ m.k = l.k /\ m.next = l.next
      BY <1>0 DEF Loaders
    <2> HIDE DEF m
    <2>3. l.next = 1 /\ \A f \in C!Files : l.k[f] <= l.k[f] /\ l.k[f] <= content[f].v
      BY <1>0, <1>k, <2>1 DEF LoaderOK
    <2> QED
      BY <1>0, <2>1, <2>2, <2>3 DEF LoaderOK
  <1>11. CASE C!WatchCancelled
    <2> DEFINE m == [l EXCEPT !.pc = "done", !.event = FALSE, !.watched = {}]
    <2>1. l.pc = "watch" /\ loader' = m /\ view' = view
      BY <1>11 DEF C!WatchCancelled, C!Become
    <2>2. m.pc = "done" /\ m.k = l.k /\ m.next = l.next
      BY <1>0 DEF Loaders
    <2>3. m \in Loaders
      BY <1>0 DEF Loaders
    <2> HIDE DEF m
    <2>4. l.next = 1 /\ \A f \in C!Files : view[f] <= l.k[f] /\ l.k[f] <= content[f].v
      BY <1>0, <2>1 DEF LoaderOK
    <2> QED
      BY <1>0, <2>1, <2>2, <2>3, <2>4 DEF LoaderOK
  <1> QED
    BY <1>4, <1>5, <1>6, <1>7, <1>8, <1>9, <1>10, <1>11 DEF C!Step

-----------------------------------------------------------------------------
(* The session.                                                            *)

\* The invariant holds at first.
LEMMA InitInv == Init => IndInv
  <1> SUFFICES ASSUME Init PROVE IndInv
    OBVIOUS
  <1>1. job \in Jobs /\ job.by = "main" /\ job.pc = "kill"
    BY JobTypes DEF Init, R!Init
  <1>2. RunnerTypes
    <2>1. event \in BOOLEAN /\ timer \in BOOLEAN /\ late \in BOOLEAN
      BY DEF Init, R!Init
    <2> QED
      BY <1>1, <2>1 DEF Init, R!Init, RunnerTypes
  <1>3. OneChild /\ MainJob /\ NothingDue
    BY <1>1 DEF Init, R!Init, OneChild, MainJob, NothingDue
  <1>4. FilesOK
    BY SessionAssumption DEF Init, C!Init, FilesOK
  <1>5. LoaderOK(loader, view, content)
    BY FreshLoader DEF Init, C!Init
  <1> QED
    BY <1>2, <1>3, <1>4, <1>5 DEF IndInv, RunnerInv, ConfigInv

\* The loader of a child comes and goes with it.
LEMMA FollowStep ==
    ASSUME ConfigInv, Follow
    PROVE  ConfigInv'
  <1>1. FilesOK'
    BY DEF ConfigInv, FilesOK, Follow
  <1>2. LoaderOK(loader', view', content)
    BY FreshLoader DEF ConfigInv, Follow, C!NewLoader
  <1> QED
    BY <1>1, <1>2 DEF ConfigInv, Follow

\* Every step of the tool, of a child, of its loader or of the developer keeps
\* the invariant.
LEMMA StepInv == IndInv /\ [Next]_vars => IndInv'
  <1> SUFFICES ASSUME IndInv, [Next]_vars PROVE IndInv'
    OBVIOUS
  <1>0. RunnerInv /\ ConfigInv
    BY DEF IndInv
  <1>1. CASE RunnerStep \/ Leave \/ Exit \/ \E p \in procs : ChildExits(p)
    <2>1. ConfigInv'
      BY <1>0, <1>1, FollowStep DEF RunnerStep, Leave, Exit, ChildExits
    <2>2. RunnerInv'
      BY <1>0, <1>1, QuietStep, LockStep, KillStep, BuildStep, EndStep
         DEF RunnerStep, Leave, Exit, ChildExits, R!Runner
    <2> QED
      BY <2>1, <2>2 DEF IndInv
  <1>2. CASE LoaderStep \/ LoaderCancelled
    BY <1>0, <1>2, LoaderStays, QuietStep DEF LoaderStep, LoaderCancelled, IndInv
  <1>3. CASE Edits \/ UNCHANGED vars
    <2>1. RunnerInv'
      BY <1>0, <1>3, QuietStep DEF Edits, vars
    <2>2. ConfigInv'
      <3>1. CASE C!Write
        BY <1>0, <3>1, WriteStep
      <3>2. CASE UNCHANGED cvars
        BY <1>0, <3>2 DEF ConfigInv, FilesOK, LoaderOK, cvars
      <3> QED
        BY <1>3, <3>1, <3>2 DEF Edits, vars
    <2> QED
      BY <2>1, <2>2 DEF IndInv
  <1> QED
    BY <1>1, <1>2, <1>3 DEF Next

\* The invariant holds in every state of a session.
THEOREM Invariance == Spec => []IndInv
  BY InitInv, StepInv, PTL DEF Spec

\* `goplatform run` never has two children, and leaves none behind unless a
\* timer's function was due when it stopped.
THEOREM OneChildAtMost == Spec => []NoStrayChild
  <1>1. IndInv => NoStrayChild
    <2> SUFFICES ASSUME IndInv PROVE NoStrayChild
      OBVIOUS
    <2>1. Cardinality(procs) <= 1
      <3>1. CASE procs = {}
        BY <3>1, FS_EmptySet
      <3>2. CASE procs # {}
        <4>1. PICK p : procs = {p}
          BY <3>2 DEF IndInv, RunnerInv, OneChild
        <4>2. Cardinality({p}) = 1
          BY FS_Singleton
        <4> QED
          BY <4>1, <4>2
      <3> QED
        BY <3>1, <3>2
    <2>2. main = "exited" /\ procs # {} => late
      BY DEF IndInv, RunnerInv, NothingDue
    <2> QED
      BY <2>1, <2>2 DEF NoStrayChild
  <1> QED
    BY <1>1, Invariance, PTL

\* The service uses a configuration with all files merged in or none at all, and
\* no reload, failed or not, takes a write from it that it used before.
THEOREM ConfigWhole == Spec => []WholeConfig
  <1>1. IndInv => WholeConfig
    <2> SUFFICES ASSUME IndInv PROVE WholeConfig
      OBVIOUS
    <2>0. LoaderOK(loader, view, content) /\ FilesOK
      BY DEF IndInv, ConfigInv
    <2>1. ASSUME NEW f \in C!Files, view # C!NoConfig PROVE view[f] # C!Unread
      <3>1. /\ view[f] \in 0..C!Unread /\ content[f].v \in 0..MaxWrites
            /\ loader.k[f] \in 0..C!Unread /\ loader.old[f] \in 0..C!Unread
        BY <2>0 DEF LoaderOK, Loaders, Configs, FilesOK
      <3>2. loader.pc \in {"ready", "watch", "reload", "notify", "done"}
        BY <2>0, <2>1 DEF LoaderOK, Loaders
      <3>3. \/ view[f] = loader.k[f] /\ loader.k[f] <= content[f].v
            \/ view[f] <= loader.k[f] /\ loader.k[f] <= content[f].v
            \/ view[f] <= loader.old[f] /\ loader.old[f] <= content[f].v
        BY <2>0, <2>1, <3>2 DEF LoaderOK
      <3> QED
        BY <3>1, <3>3, EmptyConfig, SessionAssumption
    <2>2. loader.pc \in {"watch", "notify", "done"} =>
             \A f \in C!Files : view[f] <= loader.k[f] /\ loader.k[f] <= content[f].v
      BY <2>0 DEF LoaderOK
    <2> QED
      BY <2>1, <2>2 DEF WholeConfig
  <1> QED
    BY <1>1, Invariance, PTL

====
