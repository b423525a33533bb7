------------------------- MODULE AppLifecycleProofs -------------------------
(***************************************************************************)
(* Proofs about AppLifecycle for every set of components, plugins and      *)
(* hooks, for any number of them.                                          *)
(***************************************************************************)
EXTENDS AppLifecycle, TLAPS

\* Where the indices of the loops stand in each phase of Run.
Cursors ==
    /\ pc = "new" => p = 0
    /\ pc \in {"new", "init", "resnap"} => nStarted = 0
    /\ pc \in {"new", "init", "resnap", "startup", "afterStart", "wait",
               "beforeStop"} => i = 0
    /\ pc \in {"stopping", "unwinding"} => i > 0

\* The names of Run's snapshot are distinct.
SnapUnique ==
    \A j, k \in 1..Len(snap) : snap[j].name = snap[k].name => j = k

\* Exactly the first UpCount components of the snapshot are alive, and only
\* the last of them can be stopping.
LifeFollowsStack ==
    /\ \A n \in Names : Alive(n) => \E k \in 1..UpCount : snap[k].name = n
    /\ \A k \in 1..UpCount :
           life[snap[k].name] =
               IF k = i /\ pc \in {"stopping", "unwinding"} THEN "stopping" ELSE "up"

\* The plugins before index p, and all of them once startup begins, are open.
PluginsFollowIndex ==
    /\ pc \in {"init", "resnap"} =>
           \A k \in 1..p : plife[snapPlugins[k]] = "inited"
    /\ pc \in Phases \ {"new", "init", "close", "returned"} =>
           \A k \in 1..Len(snapPlugins) : plife[snapPlugins[k]] = "inited"

\* The conjunction that every step of Run and of other goroutines preserves.
IndInv ==
    /\ TypeOK /\ Cursors /\ NamesUnique /\ SnapUnique
    /\ LifeFollowsStack /\ PluginsFollowIndex

-----------------------------------------------------------------------------
\* An element of a list of entries has a component name.
LEMMA EntryName ==
    ASSUME NEW s \in Seq(Entry), NEW k \in 1..Len(s)
    PROVE  s[k].name \in Names
  <1>1. s[k] \in Entry
    OBVIOUS
  <1> QED
    BY <1>1 DEF Entry

\* Before Run has taken its first step the inductive invariant holds.
LEMMA InitInv == Init => IndInv
  <1> SUFFICES ASSUME Init PROVE IndInv
    OBVIOUS
  <1> USE ConstantsAssumption DEF Init
  <1>1. AppTypes
    <2>1. ctxDone \in BOOLEAN
      BY Zenon
    <2> QED
      BY <2>1 DEF AppTypes, HookKinds
  <1>2. RunTypes
    BY DEF RunTypes, HookKinds, Phases
  <1>3. ErrorTypes /\ HistoryTypes
    BY DEF ErrorTypes, HistoryTypes, ErrorPairs
  <1>4. Cursors /\ NamesUnique /\ SnapUnique
    BY DEF Cursors, NamesUnique, SnapUnique
  <1>5. LifeFollowsStack
    BY DEF LifeFollowsStack, Alive, UpCount
  <1>6. PluginsFollowIndex
    BY DEF PluginsFollowIndex, Phases
  <1> QED
    BY <1>1, <1>2, <1>3, <1>4, <1>5, <1>6 DEF IndInv, TypeOK

\* What Run does not touch: the App's own lists and, after the two snapshots,
\* its copies of them.
LEMMA RunFrame ==
    /\ RunStep \/ StopStep \/ Expire => UNCHANGED <<appVars, ctxDone>>
    /\ RunStep \/ StopStep \/ Expire =>
           FirstSnapshot \/ SecondSnapshot \/ UNCHANGED snapVars
  BY DEF RunStep, StopStep, Expire, FirstSnapshot, InitPlugin, PluginsReady,
        SecondSnapshot, BeforeStartHook, StartComponent, AllStarted,
        AfterStartHook, AfterStartDone, ShutdownSignal,
        BeforeStopHook, BeforeStopDone, StopComponent, AllStopped,
        UnwindStop, UnwindDone, AfterStopHook, AfterStopDone,
        ClosePlugin, ReturnJoined, StopComponentReturns,
        UnwindStopReturns, AbortStartup, CallHook, HooksDone,
        CallStop, StopErrors, CloseErrors, StopReturns, appVars,
        snapVars, errVars, histVars, runVars

\* What the other goroutines do not touch: Run's locals and its history.
LEMMA OutsideFrame == Outside => UNCHANGED <<runVars, life, plife, hooked, ran, failures>>
  BY DEF Outside, Register, Use, AddHook, Cancel, appVars, runVars, histVars,
         snapVars, errVars

\* The lists of the App keep their types.
LEMMA AppTypesStep == IndInv /\ [Next]_vars => AppTypes'
  <1> SUFFICES ASSUME IndInv, [Next]_vars PROVE AppTypes'
    OBVIOUS
  <1> USE ConstantsAssumption
  <1> USE DEF IndInv, TypeOK, AppTypes, HookKinds, Entry, appVars, snapVars, errVars, histVars, runVars
  <1>1. ASSUME NEW arg \in Names, NEW o \in Objects, Register(arg, o) PROVE AppTypes'
    BY <1>1 DEF Register, ResolvedName, NamesOf
  <1>2. ASSUME NEW q \in Plugins, Use(q) PROVE AppTypes'
    BY <1>2 DEF Use
  <1>3. ASSUME NEW kind \in HookKinds, AddHook(kind) PROVE AppTypes'
    BY <1>3 DEF AddHook
  <1>4. CASE Cancel
    BY <1>4 DEF Cancel
  <1>5. CASE Expire \/ RunStep \/ StopStep
    BY <1>5, RunFrame
  <1>6. CASE UNCHANGED vars
    BY <1>6 DEF vars
  <1> QED
    BY <1>1, <1>2, <1>3, <1>4, <1>5, <1>6
    DEF Next, Outside

\* The locals of Run keep their types.
LEMMA RunTypesStep == IndInv /\ [Next]_vars => RunTypes'
  <1> SUFFICES ASSUME IndInv, [Next]_vars PROVE RunTypes'
    OBVIOUS
  <1> USE ConstantsAssumption
  <1> USE DEF IndInv, TypeOK, AppTypes, RunTypes, Cursors, Phases, HookKinds, appVars, snapVars, errVars, histVars, runVars
  <1>1. CASE Outside
    BY <1>1, OutsideFrame
  <1>2. CASE Expire
    BY <1>2 DEF Expire
  <1>3. CASE FirstSnapshot
    BY <1>3 DEF FirstSnapshot
  <1>4. CASE InitPlugin
    BY <1>4, SMTT(30) DEF InitPlugin
  <1>5. CASE PluginsReady
    BY <1>5 DEF PluginsReady
  <1>6. CASE SecondSnapshot
    BY <1>6 DEF SecondSnapshot
  <1>7. CASE BeforeStartHook
    <2>1. snapHooks["beforeStart"] \in 0..MaxHooks
      OBVIOUS
    <2>2. CASE pc' = "startup"
      BY <1>7, <2>1, <2>2 DEF BeforeStartHook, AbortStartup
    <2>3. CASE AbortStartup("hook", snap[nStarted + 1].name) /\ h' = h
      BY <1>7, <2>3 DEF BeforeStartHook, AbortStartup
    <2> QED
      BY <1>7, <2>2, <2>3 DEF BeforeStartHook
  <1>8. CASE StartComponent
    <2>1. CASE pc' = "startup"
      BY <1>8, <2>1, SMTT(30) DEF StartComponent, AbortStartup
    <2>2. CASE AbortStartup("start", snap[nStarted + 1].name) /\ UNCHANGED <<nStarted, h>>
      BY <1>8, <2>2 DEF StartComponent, AbortStartup
    <2> QED
      BY <1>8, <2>1, <2>2 DEF StartComponent
  <1>9. CASE AllStarted
    BY <1>9 DEF AllStarted
  <1>10. CASE AfterStartHook
    BY <1>10 DEF AfterStartHook, CallHook
  <1>11. CASE AfterStartDone
    BY <1>11 DEF AfterStartDone, HooksDone
  <1>12. CASE ShutdownSignal
    BY <1>12 DEF ShutdownSignal
  <1>13. CASE BeforeStopHook
    BY <1>13 DEF BeforeStopHook, CallHook
  <1>14. CASE BeforeStopDone
    BY <1>14 DEF BeforeStopDone, HooksDone
  <1>15. CASE StopComponent
    BY <1>15 DEF StopComponent, CallStop
  <1>16. CASE AllStopped
    BY <1>16 DEF AllStopped
  <1>17. CASE UnwindStop
    BY <1>17 DEF UnwindStop, CallStop
  <1>18. CASE UnwindDone
    BY <1>18 DEF UnwindDone, StopErrors
  <1>19. CASE AfterStopHook
    BY <1>19 DEF AfterStopHook, CallHook
  <1>20. CASE AfterStopDone
    BY <1>20 DEF AfterStopDone, HooksDone
  <1>21. CASE ClosePlugin
    BY <1>21 DEF ClosePlugin
  <1>22. CASE ReturnJoined
    BY <1>22 DEF ReturnJoined, StopErrors, CloseErrors
  <1>23. CASE StopComponentReturns
    BY <1>23 DEF StopComponentReturns, StopReturns
  <1>24. CASE UnwindStopReturns
    BY <1>24 DEF UnwindStopReturns, StopReturns
  <1>25. CASE UNCHANGED vars
    BY <1>25 DEF vars
  <1> QED
    BY <1>1, <1>2, <1>3, <1>4, <1>5, <1>6, <1>7, <1>8, <1>9, <1>10, <1>11,
       <1>12, <1>13, <1>14, <1>15, <1>16, <1>17, <1>18, <1>19, <1>20,
       <1>21, <1>22, <1>23, <1>24, <1>25
    DEF Next, RunStep, StopStep

\* The collected errors keep their types.
LEMMA ErrorTypesStep == IndInv /\ [Next]_vars => ErrorTypes'
  <1> SUFFICES ASSUME IndInv, [Next]_vars PROVE ErrorTypes'
    OBVIOUS
  <1> USE ConstantsAssumption
  <1> USE DEF IndInv, TypeOK, RunTypes, Cursors, ErrorTypes, appVars, snapVars, errVars, histVars, runVars
  <1>a. \A n \in Names : /\ <<"hook", n>> \in ErrorPairs
                         /\ <<"start", n>> \in ErrorPairs
                         /\ <<"stop", n>> \in ErrorPairs
    BY DEF ErrorPairs
  <1>b. \A q \in Plugins : /\ <<"init", q>> \in ErrorPairs
                           /\ <<"close", q>> \in ErrorPairs
    BY DEF ErrorPairs
  <1>1. CASE Outside
    BY <1>1, OutsideFrame
  <1>2. CASE Expire
    BY <1>2 DEF Expire
  <1>3. CASE FirstSnapshot
    BY <1>3 DEF FirstSnapshot
  <1>4. CASE InitPlugin
    <2>1. p + 1 \in 1..Len(snapPlugins)
      BY <1>4 DEF InitPlugin
    <2>2. snapPlugins[p + 1] \in Plugins
      BY <2>1
    <2> QED
      BY <1>4, <2>2, <1>b DEF InitPlugin
  <1>5. CASE PluginsReady
    BY <1>5 DEF PluginsReady
  <1>6. CASE SecondSnapshot
    BY <1>6 DEF SecondSnapshot
  <1>7. CASE BeforeStartHook
    <2>1. nStarted + 1 \in 1..Len(snap)
      BY <1>7 DEF BeforeStartHook
    <2>2. snap[nStarted + 1].name \in Names
      BY <2>1, EntryName
    <2> QED
      BY <1>7, <2>2, <1>a DEF BeforeStartHook, AbortStartup
  <1>8. CASE StartComponent
    <2>1. nStarted + 1 \in 1..Len(snap)
      BY <1>8 DEF StartComponent
    <2>2. snap[nStarted + 1].name \in Names
      BY <2>1, EntryName
    <2> QED
      BY <1>8, <2>2, <1>a DEF StartComponent, AbortStartup
  <1>9. CASE AllStarted
    BY <1>9 DEF AllStarted
  <1>10. CASE AfterStartHook
    BY <1>10 DEF AfterStartHook, CallHook
  <1>11. CASE AfterStartDone
    BY <1>11 DEF AfterStartDone, HooksDone
  <1>12. CASE ShutdownSignal
    BY <1>12 DEF ShutdownSignal
  <1>13. CASE BeforeStopHook
    BY <1>13 DEF BeforeStopHook, CallHook
  <1>14. CASE BeforeStopDone
    BY <1>14 DEF BeforeStopDone, HooksDone
  <1>15. CASE StopComponent
    BY <1>15 DEF StopComponent, CallStop
  <1>16. CASE AllStopped
    BY <1>16 DEF AllStopped
  <1>17. CASE UnwindStop
    BY <1>17 DEF UnwindStop, CallStop
  <1>18. CASE UnwindDone
    BY <1>18, <1>a, <1>b DEF UnwindDone, StopErrors
  <1>19. CASE AfterStopHook
    BY <1>19 DEF AfterStopHook, CallHook
  <1>20. CASE AfterStopDone
    BY <1>20 DEF AfterStopDone, HooksDone
  <1>21. CASE ClosePlugin
    <2>1. snapPlugins[p] \in Plugins
      BY <1>21 DEF ClosePlugin
    <2> QED
      BY <1>21, <2>1, <1>b DEF ClosePlugin
  <1>22. CASE ReturnJoined
    BY <1>22, <1>a, <1>b DEF ReturnJoined, StopErrors, CloseErrors
  <1>23. CASE StopComponentReturns
    <2>1. i \in 1..Len(snap)
      BY <1>23 DEF StopComponentReturns, StopReturns
    <2>2. snap[i].name \in Names
      BY <2>1, EntryName
    <2> QED
      BY <1>23, <2>2, <1>a DEF StopComponentReturns, StopReturns
  <1>24. CASE UnwindStopReturns
    <2>1. i \in 1..Len(snap)
      BY <1>24 DEF UnwindStopReturns, StopReturns
    <2>2. snap[i].name \in Names
      BY <2>1, EntryName
    <2> QED
      BY <1>24, <2>2, <1>a DEF UnwindStopReturns, StopReturns
  <1>25. CASE UNCHANGED vars
    BY <1>25 DEF vars
  <1> QED
    BY <1>1, <1>2, <1>3, <1>4, <1>5, <1>6, <1>7, <1>8, <1>9, <1>10, <1>11,
       <1>12, <1>13, <1>14, <1>15, <1>16, <1>17, <1>18, <1>19, <1>20,
       <1>21, <1>22, <1>23, <1>24, <1>25
    DEF Next, RunStep, StopStep

\* The history keeps its type.
LEMMA HistoryTypesStep == IndInv /\ [Next]_vars => HistoryTypes'
  <1> SUFFICES ASSUME IndInv, [Next]_vars PROVE HistoryTypes'
    OBVIOUS
  <1> USE ConstantsAssumption
  <1> USE DEF IndInv, TypeOK, RunTypes, Cursors, HistoryTypes, HookKinds, appVars, snapVars, errVars, histVars, runVars
  <1>1. ASSUME NEW arg \in Names, NEW o \in Objects, Register(arg, o) PROVE HistoryTypes'
    BY <1>1 DEF Register, ResolvedName, NamesOf
  <1>2. ASSUME NEW q \in Plugins, Use(q) PROVE HistoryTypes'
    BY <1>2 DEF Use
  <1>3. ASSUME NEW kind \in HookKinds, AddHook(kind) PROVE HistoryTypes'
    BY <1>3 DEF AddHook
  <1>4. CASE Cancel
    BY <1>4 DEF Cancel
  <1>5. CASE Expire
    BY <1>5 DEF Expire
  <1>6. CASE FirstSnapshot
    BY <1>6 DEF FirstSnapshot
  <1>7. CASE InitPlugin
    BY <1>7 DEF InitPlugin
  <1>8. CASE PluginsReady
    BY <1>8 DEF PluginsReady
  <1>9. CASE SecondSnapshot
    BY <1>9 DEF SecondSnapshot
  <1>10. CASE BeforeStartHook
    <2>1. nStarted + 1 \in 1..Len(snap)
      BY <1>10 DEF BeforeStartHook
    <2>2. snap[nStarted + 1].name \in Names
      BY <2>1, EntryName
    <2> QED
      <3>1. UNCHANGED <<life, plife, ran, early>>
        BY <1>10 DEF BeforeStartHook
      <3>2. PICK n \in Names : hooked' = [hooked EXCEPT ![n] = hooked[n] + 1]
        BY <1>10, <2>2 DEF BeforeStartHook
      <3>3. hooked' \in [Names -> Nat]
        BY <3>2, SMTT(30)
      <3> QED
        BY <3>1, <3>3
  <1>11. CASE StartComponent
    <2>1. nStarted + 1 \in 1..Len(snap)
      BY <1>11, SMTT(30) DEF StartComponent
    <2>2. snap[nStarted + 1].name \in Names
      BY <2>1, EntryName
    <2> QED
      BY <1>11, <2>2 DEF StartComponent, AbortStartup
  <1>12. CASE AllStarted
    BY <1>12 DEF AllStarted
  <1>13. CASE AfterStartHook
    BY <1>13, SMTT(30) DEF AfterStartHook, CallHook
  <1>14. CASE AfterStartDone
    BY <1>14 DEF AfterStartDone, HooksDone
  <1>15. CASE ShutdownSignal
    BY <1>15 DEF ShutdownSignal
  <1>16. CASE BeforeStopHook
    BY <1>16, SMTT(30) DEF BeforeStopHook, CallHook
  <1>17. CASE BeforeStopDone
    BY <1>17 DEF BeforeStopDone, HooksDone
  <1>18. CASE StopComponent
    BY <1>18 DEF StopComponent, CallStop
  <1>19. CASE AllStopped
    BY <1>19 DEF AllStopped
  <1>20. CASE UnwindStop
    BY <1>20 DEF UnwindStop, CallStop
  <1>21. CASE UnwindDone
    BY <1>21 DEF UnwindDone, StopErrors
  <1>22. CASE AfterStopHook
    BY <1>22 DEF AfterStopHook, CallHook
  <1>23. CASE AfterStopDone
    BY <1>23 DEF AfterStopDone, HooksDone
  <1>24. CASE ClosePlugin
    BY <1>24 DEF ClosePlugin
  <1>25. CASE ReturnJoined
    BY <1>25 DEF ReturnJoined, StopErrors, CloseErrors
  <1>26. CASE StopComponentReturns
    <2>1. i \in 1..Len(snap)
      BY <1>26 DEF StopComponentReturns, StopReturns
    <2>2. snap[i].name \in Names
      BY <2>1, EntryName
    <2> QED
      BY <1>26, <2>2 DEF StopComponentReturns, StopReturns
  <1>27. CASE UnwindStopReturns
    <2>1. i \in 1..Len(snap)
      BY <1>27 DEF UnwindStopReturns, StopReturns
    <2>2. snap[i].name \in Names
      BY <2>1, EntryName
    <2> QED
      BY <1>27, <2>2 DEF UnwindStopReturns, StopReturns
  <1>28. CASE UNCHANGED vars
    BY <1>28 DEF vars
  <1> QED
    BY <1>1, <1>2, <1>3, <1>4, <1>5, <1>6, <1>7, <1>8, <1>9, <1>10, <1>11,
       <1>12, <1>13, <1>14, <1>15, <1>16, <1>17, <1>18, <1>19, <1>20,
       <1>21, <1>22, <1>23, <1>24, <1>25, <1>26, <1>27, <1>28
    DEF Next, Outside, RunStep, StopStep

\* The indices of the loops advance with the phases.
LEMMA CursorsStep == IndInv /\ [Next]_vars => Cursors'
  <1> SUFFICES ASSUME IndInv, [Next]_vars PROVE Cursors'
    OBVIOUS
  <1> USE ConstantsAssumption
  <1> USE DEF IndInv, TypeOK, RunTypes, Cursors, appVars, snapVars, errVars, histVars, runVars
  <1>1. CASE Outside
    BY <1>1, OutsideFrame
  <1>2. CASE Expire
    BY <1>2 DEF Expire
  <1>3. CASE FirstSnapshot
    BY <1>3 DEF FirstSnapshot
  <1>4. CASE InitPlugin
    BY <1>4 DEF InitPlugin
  <1>5. CASE PluginsReady
    BY <1>5 DEF PluginsReady
  <1>6. CASE SecondSnapshot
    BY <1>6 DEF SecondSnapshot
  <1>7. CASE BeforeStartHook
    BY <1>7 DEF BeforeStartHook, AbortStartup
  <1>8. CASE StartComponent
    BY <1>8 DEF StartComponent, AbortStartup
  <1>9. CASE AllStarted
    BY <1>9 DEF AllStarted
  <1>10. CASE AfterStartHook
    BY <1>10 DEF AfterStartHook, CallHook
  <1>11. CASE AfterStartDone
    BY <1>11 DEF AfterStartDone, HooksDone
  <1>12. CASE ShutdownSignal
    BY <1>12 DEF ShutdownSignal
  <1>13. CASE BeforeStopHook
    BY <1>13 DEF BeforeStopHook, CallHook
  <1>14. CASE BeforeStopDone
    BY <1>14 DEF BeforeStopDone, HooksDone
  <1>15. CASE StopComponent
    BY <1>15 DEF StopComponent, CallStop
  <1>16. CASE AllStopped
    BY <1>16 DEF AllStopped
  <1>17. CASE UnwindStop
    BY <1>17 DEF UnwindStop, CallStop
  <1>18. CASE UnwindDone
    BY <1>18 DEF UnwindDone, StopErrors
  <1>19. CASE AfterStopHook
    BY <1>19 DEF AfterStopHook, CallHook
  <1>20. CASE AfterStopDone
    BY <1>20 DEF AfterStopDone, HooksDone
  <1>21. CASE ClosePlugin
    BY <1>21 DEF ClosePlugin
  <1>22. CASE ReturnJoined
    BY <1>22 DEF ReturnJoined, StopErrors, CloseErrors
  <1>23. CASE StopComponentReturns
    BY <1>23 DEF StopComponentReturns, StopReturns
  <1>24. CASE UnwindStopReturns
    BY <1>24 DEF UnwindStopReturns, StopReturns
  <1>25. CASE UNCHANGED vars
    BY <1>25 DEF vars
  <1> QED
    BY <1>1, <1>2, <1>3, <1>4, <1>5, <1>6, <1>7, <1>8, <1>9, <1>10, <1>11,
       <1>12, <1>13, <1>14, <1>15, <1>16, <1>17, <1>18, <1>19, <1>20,
       <1>21, <1>22, <1>23, <1>24, <1>25
    DEF Next, RunStep, StopStep

\* Appending an entry whose name is new keeps the names of a list distinct.
LEMMA AppendUnique ==
    ASSUME NEW s \in Seq(Entry), NEW e, e.name \notin NamesOf(s),
           \A j, k \in 1..Len(s) : s[j].name = s[k].name => j = k
    PROVE  \A j, k \in 1..Len(Append(s, e)) :
               Append(s, e)[j].name = Append(s, e)[k].name => j = k
  <1>1. Len(Append(s, e)) = Len(s) + 1 /\ Len(s) \in Nat
    OBVIOUS
  <1>2. \A j \in 1..Len(s) : Append(s, e)[j] = s[j]
    OBVIOUS
  <1>3. Append(s, e)[Len(s) + 1] = e
    OBVIOUS
  <1>4. \A j \in 1..Len(s) : s[j].name # e.name
    BY DEF NamesOf
  <1>5. \A j \in 1..(Len(s) + 1) : j \in 1..Len(s) \/ j = Len(s) + 1
    BY <1>1
  <1> QED
    BY <1>1, <1>2, <1>3, <1>4, <1>5

\* Register never makes two entries share a name, and a snapshot copies that.
LEMMA NamesUniqueStep == IndInv /\ [Next]_vars => NamesUnique' /\ SnapUnique'
  <1> SUFFICES ASSUME IndInv, [Next]_vars PROVE NamesUnique' /\ SnapUnique'
    OBVIOUS
  <1> USE ConstantsAssumption
  <1> USE DEF IndInv, TypeOK, AppTypes, NamesUnique, SnapUnique, appVars, snapVars, errVars, histVars, runVars
  <1>1. ASSUME NEW arg \in Names, NEW o \in Objects, Register(arg, o) PROVE NamesUnique' /\ SnapUnique'
    <2> DEFINE n == ResolvedName(arg, o)
               e == [name |-> n, object |-> o]
    <2>1. n \notin NamesOf(components) /\ components' = Append(components, e)
      BY <1>1 DEF Register
    <2>2. e.name \notin NamesOf(components)
      BY <2>1
    <2> HIDE DEF e
    <2>3. NamesUnique'
      BY <2>1, <2>2, AppendUnique
    <2>4. SnapUnique'
      BY <1>1 DEF Register
    <2> QED
      BY <2>3, <2>4
  <1>2. ASSUME NEW q \in Plugins, Use(q) PROVE NamesUnique' /\ SnapUnique'
    BY <1>2 DEF Use
  <1>3. ASSUME NEW kind \in HookKinds, AddHook(kind) PROVE NamesUnique' /\ SnapUnique'
    BY <1>3 DEF AddHook
  <1>4. CASE Cancel
    BY <1>4 DEF Cancel
  <1>5. CASE (Expire \/ RunStep \/ StopStep) /\ UNCHANGED snapVars
    BY <1>5, RunFrame
  <1>6. CASE FirstSnapshot
    BY <1>6 DEF FirstSnapshot
  <1>7. CASE SecondSnapshot
    BY <1>7 DEF SecondSnapshot
  <1>8. CASE UNCHANGED vars
    BY <1>8 DEF vars
  <1> QED
    BY <1>1, <1>2, <1>3, <1>4, <1>5, <1>6, <1>7, <1>8,
       RunFrame DEF Next, Outside

\* A component becomes alive at the top of the stack and leaves from the top.
LEMMA LifeStep == IndInv /\ [Next]_vars => LifeFollowsStack'
  <1> SUFFICES ASSUME IndInv, [Next]_vars PROVE LifeFollowsStack'
    OBVIOUS
  <1> USE ConstantsAssumption
  <1> USE DEF IndInv, TypeOK, RunTypes, HistoryTypes, Cursors, SnapUnique, LifeFollowsStack, Alive, UpCount, Phases, appVars, snapVars, errVars, histVars, runVars
  <1>1. CASE Outside
    BY <1>1, OutsideFrame
  <1>2. CASE Expire
    BY <1>2 DEF Expire
  <1>3. CASE FirstSnapshot
    BY <1>3 DEF FirstSnapshot
  <1>4. CASE InitPlugin
    BY <1>4 DEF InitPlugin
  <1>5. CASE PluginsReady
    BY <1>5 DEF PluginsReady
  <1>6. CASE SecondSnapshot
    BY <1>6 DEF SecondSnapshot
  <1>7. CASE BeforeStartHook
    BY <1>7 DEF BeforeStartHook, AbortStartup
  <1>8. CASE StartComponent
    <2> DEFINE n == snap[nStarted + 1].name
    <2>1. nStarted + 1 \in 1..Len(snap) /\ n \in Names
      BY <1>8, EntryName DEF StartComponent
    <2>2. \A k \in 1..nStarted : snap[k].name # n /\ snap[k].name \in Names
      BY <2>1, EntryName, SMTT(30)
    <2>3. CASE /\ life' = [life EXCEPT ![n] = "up"]
               /\ nStarted' = nStarted + 1
               /\ UNCHANGED <<pc, i, snap>>
      BY <1>8, <2>1, <2>2, <2>3 DEF StartComponent
    <2>4. CASE /\ life' = [life EXCEPT ![n] = "failed"]
               /\ i' = nStarted /\ pc' = "unwind"
               /\ UNCHANGED <<nStarted, snap>>
      BY <1>8, <2>1, <2>2, <2>4 DEF StartComponent
    <2> QED
      BY <1>8, <2>3, <2>4 DEF StartComponent, AbortStartup
  <1>9. CASE AllStarted
    BY <1>9 DEF AllStarted
  <1>10. CASE AfterStartHook
    BY <1>10 DEF AfterStartHook, CallHook
  <1>11. CASE AfterStartDone
    BY <1>11 DEF AfterStartDone, HooksDone
  <1>12. CASE ShutdownSignal
    BY <1>12 DEF ShutdownSignal
  <1>13. CASE BeforeStopHook
    BY <1>13 DEF BeforeStopHook, CallHook
  <1>14. CASE BeforeStopDone
    BY <1>14 DEF BeforeStopDone, HooksDone
  <1>15. CASE StopComponent
    <2>1. i \in 1..Len(snap) /\ snap[i].name \in Names
      BY <1>15, EntryName DEF StopComponent, CallStop
    <2>2. \A k \in 1..(i - 1) : snap[k].name # snap[i].name /\ snap[k].name \in Names
      BY <2>1, EntryName
    <2> QED
      BY <1>15, <2>1, <2>2 DEF StopComponent, CallStop
  <1>16. CASE AllStopped
    BY <1>16 DEF AllStopped
  <1>17. CASE UnwindStop
    <2>1. i \in 1..Len(snap) /\ snap[i].name \in Names
      BY <1>17, EntryName DEF UnwindStop, CallStop
    <2>2. \A k \in 1..(i - 1) : snap[k].name # snap[i].name /\ snap[k].name \in Names
      BY <2>1, EntryName
    <2> QED
      BY <1>17, <2>1, <2>2 DEF UnwindStop, CallStop
  <1>18. CASE UnwindDone
    BY <1>18 DEF UnwindDone, StopErrors
  <1>19. CASE AfterStopHook
    BY <1>19 DEF AfterStopHook, CallHook
  <1>20. CASE AfterStopDone
    BY <1>20 DEF AfterStopDone, HooksDone
  <1>21. CASE ClosePlugin
    BY <1>21 DEF ClosePlugin
  <1>22. CASE ReturnJoined
    BY <1>22 DEF ReturnJoined, StopErrors, CloseErrors
  <1>23. CASE StopComponentReturns
    BY <1>23 DEF StopComponentReturns, StopReturns
  <1>24. CASE UnwindStopReturns
    BY <1>24 DEF UnwindStopReturns, StopReturns
  <1>25. CASE UNCHANGED vars
    BY <1>25 DEF vars
  <1> QED
    BY <1>1, <1>2, <1>3, <1>4, <1>5, <1>6, <1>7, <1>8, <1>9, <1>10, <1>11,
       <1>12, <1>13, <1>14, <1>15, <1>16, <1>17, <1>18, <1>19, <1>20,
       <1>21, <1>22, <1>23, <1>24, <1>25
    DEF Next, RunStep, StopStep

\* Plugins are opened before startup and closed only after the last Stop.
LEMMA PluginsStep == IndInv /\ [Next]_vars => PluginsFollowIndex'
  <1> SUFFICES ASSUME IndInv, [Next]_vars PROVE PluginsFollowIndex'
    OBVIOUS
  <1> USE ConstantsAssumption
  <1> USE DEF IndInv, TypeOK, RunTypes, HistoryTypes, Cursors, PluginsFollowIndex, Phases, appVars, snapVars, errVars, histVars, runVars
  <1>1. CASE Outside
    BY <1>1, OutsideFrame
  <1>2. CASE Expire
    BY <1>2 DEF Expire
  <1>3. CASE FirstSnapshot
    BY <1>3 DEF FirstSnapshot
  <1>4. CASE InitPlugin
    BY <1>4 DEF InitPlugin
  <1>5. CASE PluginsReady
    BY <1>5 DEF PluginsReady
  <1>6. CASE SecondSnapshot
    BY <1>6 DEF SecondSnapshot
  <1>7. CASE BeforeStartHook
    BY <1>7 DEF BeforeStartHook, AbortStartup
  <1>8. CASE StartComponent
    BY <1>8 DEF StartComponent, AbortStartup
  <1>9. CASE AllStarted
    BY <1>9 DEF AllStarted
  <1>10. CASE AfterStartHook
    BY <1>10 DEF AfterStartHook, CallHook
  <1>11. CASE AfterStartDone
    BY <1>11 DEF AfterStartDone, HooksDone
  <1>12. CASE ShutdownSignal
    BY <1>12 DEF ShutdownSignal
  <1>13. CASE BeforeStopHook
    BY <1>13 DEF BeforeStopHook, CallHook
  <1>14. CASE BeforeStopDone
    BY <1>14 DEF BeforeStopDone, HooksDone
  <1>15. CASE StopComponent
    BY <1>15 DEF StopComponent, CallStop
  <1>16. CASE AllStopped
    BY <1>16 DEF AllStopped
  <1>17. CASE UnwindStop
    BY <1>17 DEF UnwindStop, CallStop
  <1>18. CASE UnwindDone
    BY <1>18 DEF UnwindDone, StopErrors
  <1>19. CASE AfterStopHook
    BY <1>19 DEF AfterStopHook, CallHook
  <1>20. CASE AfterStopDone
    BY <1>20 DEF AfterStopDone, HooksDone
  <1>21. CASE ClosePlugin
    BY <1>21 DEF ClosePlugin
  <1>22. CASE ReturnJoined
    BY <1>22 DEF ReturnJoined, StopErrors, CloseErrors
  <1>23. CASE StopComponentReturns
    BY <1>23 DEF StopComponentReturns, StopReturns
  <1>24. CASE UnwindStopReturns
    BY <1>24 DEF UnwindStopReturns, StopReturns
  <1>25. CASE UNCHANGED vars
    BY <1>25 DEF vars
  <1> QED
    BY <1>1, <1>2, <1>3, <1>4, <1>5, <1>6, <1>7, <1>8, <1>9, <1>10, <1>11,
       <1>12, <1>13, <1>14, <1>15, <1>16, <1>17, <1>18, <1>19, <1>20,
       <1>21, <1>22, <1>23, <1>24, <1>25
    DEF Next, RunStep, StopStep

-----------------------------------------------------------------------------
\* The inductive invariant holds throughout: for every set of components,
\* plugins and hooks and every interleaving of registration with Run.
THEOREM Invariance == Safety => []IndInv
  <1>1. IndInv /\ [Next]_vars => IndInv'
    BY AppTypesStep, RunTypesStep, ErrorTypesStep, HistoryTypesStep, CursorsStep,
       NamesUniqueStep, LifeStep, PluginsStep
    DEF IndInv, TypeOK
  <1> QED
    BY InitInv, <1>1, PTL DEF Safety

\* Type correctness of the App, of Run's locals and of the collected errors;
\* no loop index of Run leaves its slice.
THEOREM TypeCorrect == Safety => []TypeOK
  <1>1. IndInv => TypeOK
    BY DEF IndInv
  <1> QED
    BY Invariance, <1>1, PTL

\* No two registered components ever share a resolved name.
THEOREM RegisteredNamesUnique == Safety => []NamesUnique
  <1>1. IndInv => NamesUnique
    BY DEF IndInv
  <1> QED
    BY Invariance, <1>1, PTL

\* A component is up or stopping only while every component registered before
\* it is up: startup in registration order, shutdown in the reverse order.
THEOREM StartStopOrder == Safety => []DependencyOrder
  <1>1. IndInv => DependencyOrder
    <2> SUFFICES ASSUME IndInv,
                        NEW j \in 1..Len(snap), NEW k \in 1..Len(snap),
                        j < k, Alive(snap[k].name)
                 PROVE  life[snap[j].name] = "up"
      BY DEF DependencyOrder
    <2>1. snap[k].name \in Names
      BY EntryName DEF IndInv, TypeOK, RunTypes
    <2>2. PICK m \in 1..UpCount : snap[m].name = snap[k].name
      BY <2>1 DEF IndInv, LifeFollowsStack
    <2>3. UpCount \in 0..Len(snap)
      BY DEF IndInv, TypeOK, RunTypes, UpCount
    <2>4. m = k /\ k <= UpCount
      BY <2>2, <2>3 DEF IndInv, SnapUnique
    <2>5. pc \in {"stopping", "unwinding"} => UpCount = i
      BY DEF UpCount
    <2> QED
      BY <2>3, <2>4, <2>5 DEF IndInv, LifeFollowsStack, TypeOK, RunTypes
  <1> QED
    BY Invariance, <1>1, PTL

\* Run returns with no component running, after a clean shutdown, a failed
\* startup hook, a failed Start or a failed Plugin.Init.
THEOREM CleanReturn == Safety => []NothingLeftRunning
  <1>1. IndInv => NothingLeftRunning
    <2> SUFFICES ASSUME IndInv, pc = "returned", NEW n \in Names, Alive(n)
                 PROVE  FALSE
      BY DEF NothingLeftRunning
    <2>1. PICK k \in 1..UpCount : snap[k].name = n
      BY DEF IndInv, LifeFollowsStack
    <2>2. UpCount = 0
      BY DEF UpCount
    <2> QED
      BY <2>1, <2>2
  <1> QED
    BY Invariance, <1>1, PTL

\* No plugin is closed, or left uninitialised, while a component runs.
THEOREM PluginsBracketComponents == Safety => []PluginsOutliveComponents
  <1>1. IndInv => PluginsOutliveComponents
    <2> SUFFICES ASSUME IndInv, NEW n \in Names, Alive(n)
                 PROVE  \A k \in 1..Len(snapPlugins) : plife[snapPlugins[k]] = "inited"
      BY DEF PluginsOutliveComponents
    <2>1. PICK k \in 1..UpCount : snap[k].name = n
      BY DEF IndInv, LifeFollowsStack
    <2>2. pc \in {"startup", "afterStart", "wait", "beforeStop", "stop", "stopping",
                  "unwind", "unwinding"}
      BY <2>1 DEF UpCount
    <2> QED
      BY <2>2 DEF IndInv, PluginsFollowIndex, Phases
  <1> QED
    BY Invariance, <1>1, PTL

-----------------------------------------------------------------------------
(* The errors Run collects.                                                *)

\* What has failed so far is what has been collected, each in its phase.
ErrorsTracked ==
    /\ pc # "returned" => failures = startErr \cup StopErrors \cup CloseErrors
    /\ startErr # {} => pc \in {"unwind", "unwinding", "returned"}
    /\ pc \in {"unwind", "unwinding"} => startErr # {}
    /\ stopErrs # {} => pc \in {"stop", "stopping", "unwind", "unwinding", "afterStop",
                                "close", "returned"}
    /\ closeErrs # {} => pc \in {"close", "returned"}

\* Only the callees of Run that can fail touch the errors; the other steps move
\* between phases that have collected the same.
LEMMA ErrorsFrame ==
    ASSUME ErrorsTracked, ErrorsReported, UNCHANGED <<errVars, failures>>,
           \/ pc' = pc
           \/ pc \in {"new", "init", "resnap", "startup", "afterStart", "wait", "beforeStop"}
              /\ pc' \in {"init", "resnap", "startup", "afterStart", "wait", "beforeStop", "stop"}
           \/ pc \in {"stop", "stopping"} /\ pc' \in {"stop", "stopping", "afterStop"}
           \/ pc \in {"unwind", "unwinding"} /\ pc' \in {"unwind", "unwinding"}
           \/ pc = "afterStop" /\ pc' = "close"
    PROVE  ErrorsTracked' /\ ErrorsReported'
  BY DEF ErrorsTracked, ErrorsReported, errVars, StopErrors, CloseErrors

\* Every error is collected when it occurs, and joined when Run returns.
LEMMA ErrorsStep ==
    ErrorsTracked /\ ErrorsReported /\ [Next]_vars => ErrorsTracked' /\ ErrorsReported'
  <1> SUFFICES ASSUME ErrorsTracked, ErrorsReported, [Next]_vars
               PROVE  ErrorsTracked' /\ ErrorsReported'
    OBVIOUS
  <1>1. CASE Outside
    BY <1>1, OutsideFrame, ErrorsFrame DEF runVars, errVars
  <1>2. CASE \/ Expire \/ FirstSnapshot \/ PluginsReady \/ SecondSnapshot \/ AllStarted
             \/ AfterStartHook \/ AfterStartDone \/ ShutdownSignal \/ BeforeStopHook
             \/ BeforeStopDone \/ StopComponent \/ AllStopped \/ UnwindStop
             \/ AfterStopHook \/ AfterStopDone
    BY <1>2, ErrorsFrame
    DEF Expire, FirstSnapshot, PluginsReady, SecondSnapshot, AllStarted, AfterStartHook,
        AfterStartDone, ShutdownSignal, BeforeStopHook, BeforeStopDone, StopComponent,
        AllStopped, UnwindStop, AfterStopHook, AfterStopDone, CallHook, HooksDone, CallStop,
        errVars, histVars
  <1>3. CASE InitPlugin
    BY <1>3 DEF InitPlugin, ErrorsTracked, ErrorsReported, StopErrors, CloseErrors
  <1>4. ASSUME NEW op, NEW n, AbortStartup(op, n), pc = "startup",
               UNCHANGED <<stopErrs, closeErrs, ret>>
        PROVE  ErrorsTracked' /\ ErrorsReported'
    BY <1>4 DEF AbortStartup, ErrorsTracked, ErrorsReported, StopErrors, CloseErrors
  <1>5. CASE BeforeStartHook
    <2>1. CASE UNCHANGED <<pc, startErr, failures>>
      BY <1>5, <2>1, ErrorsFrame DEF BeforeStartHook, errVars
    <2> QED
      BY <1>4, <1>5, <2>1 DEF BeforeStartHook
  <1>6. CASE StartComponent
    <2>1. CASE UNCHANGED <<pc, startErr, failures>>
      BY <1>6, <2>1, ErrorsFrame DEF StartComponent, errVars
    <2> QED
      BY <1>4, <1>6, <2>1 DEF StartComponent
  <1>7. CASE StopComponentReturns
    BY <1>7 DEF StopComponentReturns, StopReturns, ErrorsTracked, ErrorsReported, StopErrors,
                CloseErrors
  <1>8. CASE UnwindStopReturns
    BY <1>8 DEF UnwindStopReturns, StopReturns, ErrorsTracked, ErrorsReported, StopErrors,
                CloseErrors
  <1>9. CASE UnwindDone
    BY <1>9 DEF UnwindDone, ErrorsTracked, ErrorsReported, StopErrors, CloseErrors, histVars
  <1>10. CASE ClosePlugin
    BY <1>10 DEF ClosePlugin, ErrorsTracked, ErrorsReported, StopErrors, CloseErrors
  <1>11. CASE ReturnJoined
    BY <1>11 DEF ReturnJoined, ErrorsTracked, ErrorsReported, StopErrors, CloseErrors, histVars
  <1>12. CASE UNCHANGED vars
    BY <1>12, ErrorsFrame DEF vars, runVars, histVars, errVars
  <1> QED
    BY <1>1, <1>2, <1>3, <1>5, <1>6, <1>7, <1>8, <1>9, <1>10, <1>11, <1>12
    DEF Next, RunStep, StopStep

\* Where errors are collected holds throughout.
LEMMA ErrorsInvariance == Safety => [](ErrorsTracked /\ ErrorsReported)
  <1>1. Init => ErrorsTracked /\ ErrorsReported
    BY DEF Init, ErrorsTracked, ErrorsReported, StopErrors, CloseErrors
  <1> QED
    BY <1>1, ErrorsStep, PTL DEF Safety

\* Run returns the errors of all callees that failed, and no others.
THEOREM AllErrorsReported == Safety => []ErrorsReported
  BY ErrorsInvariance, PTL

-----------------------------------------------------------------------------
(* What was registered early is what Run starts.                           *)

\* Up to the second snapshot the early components are those of the App, then
\* those of the snapshot, all of which have been started after startup.
EarlyFollows ==
    /\ pc \in {"new", "init", "resnap"} => early = NamesOf(components)
    /\ pc \in {"startup", "afterStart", "wait", "beforeStop"} => early = NamesOf(snap)
    /\ pc \in {"afterStart", "wait", "beforeStop"} => nStarted = Len(snap)

\* Appending an entry adds its name.
LEMMA NamesOfAppend ==
    ASSUME NEW s \in Seq(Entry), NEW e \in Entry
    PROVE  NamesOf(Append(s, e)) = NamesOf(s) \cup {e.name}
  <1> DEFINE t == Append(s, e)
  <1>1. Len(t) = Len(s) + 1 /\ t[Len(s) + 1] = e
    OBVIOUS
  <1>2. \A k \in 1..Len(s) : t[k] = s[k]
    OBVIOUS
  <1>3. Len(s) \in Nat
    OBVIOUS
  <1> HIDE DEF t
  <1>4. NamesOf(t) \subseteq NamesOf(s) \cup {e.name}
    BY <1>1, <1>2, <1>3 DEF NamesOf
  <1>5. NamesOf(s) \subseteq NamesOf(t)
    BY <1>1, <1>2, <1>3 DEF NamesOf
  <1>6. e.name \in NamesOf(t)
    BY <1>1, <1>3 DEF NamesOf
  <1> QED
    BY <1>4, <1>5, <1>6 DEF t

\* Registration and the second snapshot keep the early components in step.
LEMMA EarlyStep == IndInv /\ EarlyFollows /\ [Next]_vars => EarlyFollows'
  <1> SUFFICES ASSUME IndInv, EarlyFollows, [Next]_vars PROVE EarlyFollows'
    OBVIOUS
  <1> USE DEF EarlyFollows, NamesOf
  <1>1. ASSUME NEW arg \in Names, NEW o \in Objects, Register(arg, o)
        PROVE  EarlyFollows'
    <2> DEFINE e == [name |-> ResolvedName(arg, o), object |-> o]
    <2>1. e \in Entry
      BY ConstantsAssumption DEF ResolvedName, Entry
    <2>2. /\ components' = Append(components, e)
          /\ UNCHANGED <<pc, snap, nStarted>>
          /\ early' = IF pc \in {"new", "init", "resnap"} THEN early \cup {e.name} ELSE early
      BY <1>1 DEF Register, runVars, snapVars
    <2>3. PICK c \in Seq(Entry) : c = components
      BY DEF IndInv, TypeOK, AppTypes
    <2> HIDE DEF e, NamesOf
    <2>4. NamesOf(Append(c, e)) = NamesOf(c) \cup {e.name}
      BY <2>1, NamesOfAppend
    <2>5. NamesOf(components)' = NamesOf(Append(c, e)) /\ NamesOf(snap)' = NamesOf(snap)
      BY <2>2, <2>3 DEF NamesOf
    <2> QED
      BY <2>2, <2>3, <2>4, <2>5
  <1>2. CASE \/ \E q \in Plugins : Use(q)
             \/ \E kind \in HookKinds : AddHook(kind)
             \/ Cancel
    BY <1>2 DEF Use, AddHook, Cancel, appVars, runVars, snapVars, histVars
  <1>3. CASE \/ Expire \/ InitPlugin \/ PluginsReady \/ BeforeStartHook \/ AllStarted
             \/ AfterStartHook \/ AfterStartDone \/ ShutdownSignal \/ BeforeStopHook
             \/ BeforeStopDone \/ StopComponent \/ AllStopped \/ UnwindStop \/ UnwindDone
             \/ AfterStopHook \/ AfterStopDone \/ ClosePlugin \/ ReturnJoined
             \/ StopComponentReturns \/ UnwindStopReturns
    BY <1>3 DEF Expire, InitPlugin, PluginsReady, BeforeStartHook, AbortStartup, AllStarted,
        AfterStartHook, AfterStartDone, ShutdownSignal, BeforeStopHook, BeforeStopDone,
        StopComponent, AllStopped, UnwindStop, UnwindDone, AfterStopHook, AfterStopDone,
        ClosePlugin, ReturnJoined, StopComponentReturns, UnwindStopReturns,
        CallHook, HooksDone, CallStop, StopReturns, appVars, snapVars, histVars
  <1>4. CASE FirstSnapshot
    BY <1>4 DEF FirstSnapshot, appVars, histVars
  <1>5. CASE SecondSnapshot
    BY <1>5 DEF SecondSnapshot, appVars, histVars
  <1>6. CASE StartComponent
    BY <1>6 DEF StartComponent, AbortStartup, appVars, snapVars
  <1>7. CASE UNCHANGED vars
    BY <1>7 DEF vars, appVars, runVars, snapVars, histVars
  <1> QED
    BY <1>1, <1>2, <1>3, <1>4, <1>5, <1>6, <1>7 DEF Next, Outside, RunStep, StopStep

\* A component registered before the plugins were ready, by whichever goroutine
\* or Plugin.Init, is up from the end of startup until the first Stop.
THEOREM EarlyStarted == Safety => []EarlyComponentsStarted
  <1>1. Init => EarlyFollows
    BY DEF Init, EarlyFollows, NamesOf
  <1>2. IndInv /\ EarlyFollows => EarlyComponentsStarted
    <2> SUFFICES ASSUME IndInv, EarlyFollows, NEW n \in early,
                        pc \in {"afterStart", "wait", "beforeStop"}
                 PROVE  life[n] = "up"
      BY DEF EarlyComponentsStarted
    <2>1. PICK k \in 1..Len(snap) : snap[k].name = n
      BY DEF EarlyFollows, NamesOf
    <2>2. UpCount = Len(snap)
      BY DEF EarlyFollows, UpCount
    <2> QED
      BY <2>1, <2>2 DEF IndInv, LifeFollowsStack
  <1> QED
    BY <1>1, <1>2, Invariance, EarlyStep, PTL DEF Safety

-----------------------------------------------------------------------------
(* The hooks.                                                              *)

\* The beforeStart hooks have run for every component that was started; for
\* the one about to be started, the first h of them have.
HookedFollows ==
    /\ \A k \in 1..nStarted : hooked[snap[k].name] = snapHooks["beforeStart"]
    /\ pc \in {"new", "init", "resnap"} => h = 0 /\ \A n \in Names : hooked[n] = 0
    /\ pc = "startup" => \A k \in (nStarted + 1)..Len(snap) :
           hooked[snap[k].name] = IF k = nStarted + 1 THEN h ELSE 0

\* How many hooks of the other kinds have run in each phase.
RanFollows ==
    /\ pc = "wait" => h = 0
    /\ pc = "afterStart" => ran["afterStart"] = h
    /\ pc \in {"new", "init", "resnap", "startup"} => ran["afterStart"] = 0
    /\ pc \in {"wait", "beforeStop", "stop", "stopping", "afterStop", "close"} =>
           ran["afterStart"] = snapHooks["afterStart"]
    /\ pc \in {"new", "init", "resnap", "startup", "afterStart", "wait"} =>
           ran["beforeStop"] = 0
    /\ pc = "beforeStop" => ran["beforeStop"] = h
    /\ pc \in {"stop", "stopping", "afterStop", "close"} =>
           ran["beforeStop"] = snapHooks["beforeStop"]
    /\ pc \notin {"afterStop", "close", "returned"} \/ startErr # {} =>
           ran["afterStop"] = 0
    /\ pc = "afterStop" => ran["afterStop"] = h
    /\ pc = "close" => ran["afterStop"] = snapHooks["afterStop"]

\* A beforeStart hook counts for the component about to be started, whose name
\* no other component of the snapshot has.
LEMMA HookedStep == IndInv /\ HookedFollows /\ [Next]_vars => HookedFollows'
  <1> SUFFICES ASSUME IndInv, HookedFollows, [Next]_vars PROVE HookedFollows'
    OBVIOUS
  <1>t. /\ snap \in Seq(Entry) /\ nStarted \in 0..Len(snap) /\ hooked \in [Names -> Nat]
        /\ h \in Nat
    BY ConstantsAssumption DEF IndInv, TypeOK, RunTypes, HistoryTypes
  <1>n. /\ \A k \in 1..Len(snap) : snap[k].name \in Names
        /\ \A j, k \in 1..Len(snap) : j # k => snap[j].name # snap[k].name
    BY <1>t, EntryName DEF IndInv, SnapUnique
  <1>c. pc \in {"new", "init", "resnap"} => nStarted = 0
    BY DEF IndInv, Cursors
  <1> USE DEF HookedFollows
  <1>1. CASE Outside
    BY <1>1, OutsideFrame DEF runVars, snapVars
  <1>2. CASE \/ Expire \/ InitPlugin \/ PluginsReady \/ AllStarted
             \/ AfterStartHook \/ AfterStartDone \/ ShutdownSignal \/ BeforeStopHook
             \/ BeforeStopDone \/ StopComponent \/ AllStopped \/ UnwindStop \/ UnwindDone
             \/ AfterStopHook \/ AfterStopDone \/ ClosePlugin \/ ReturnJoined
             \/ StopComponentReturns \/ UnwindStopReturns
    <2>1. UNCHANGED <<snapVars, nStarted, hooked>>
      BY <1>2 DEF Expire, InitPlugin, PluginsReady, AllStarted,
        AfterStartHook, AfterStartDone, ShutdownSignal, BeforeStopHook, BeforeStopDone,
        StopComponent, AllStopped, UnwindStop, UnwindDone, AfterStopHook, AfterStopDone,
        ClosePlugin, ReturnJoined, StopComponentReturns, UnwindStopReturns,
        CallHook, HooksDone, CallStop, StopReturns, snapVars, histVars
    <2>2. /\ pc' # "startup" \/ UNCHANGED <<pc, h>>
          /\ pc' \in {"new", "init", "resnap"} => h' = h /\ pc \in {"new", "init", "resnap"}
      BY <1>2 DEF Expire, InitPlugin, PluginsReady, AllStarted,
        AfterStartHook, AfterStartDone, ShutdownSignal, BeforeStopHook, BeforeStopDone,
        StopComponent, AllStopped, UnwindStop, UnwindDone, AfterStopHook, AfterStopDone,
        ClosePlugin, ReturnJoined, StopComponentReturns, UnwindStopReturns,
        CallHook, HooksDone, CallStop, StopReturns
    <2> QED
      BY <2>1, <2>2 DEF snapVars
  <1>3. CASE FirstSnapshot
    BY <1>3, <1>c, <1>t DEF FirstSnapshot, histVars
  <1>4. CASE SecondSnapshot
    <2>1. \A k \in 1..Len(components) : components[k].name \in Names
      BY EntryName DEF IndInv, TypeOK, AppTypes
    <2>2. /\ snap' = components /\ pc' = "startup" /\ nStarted' = 0 /\ nStarted = 0
          /\ h' = 0 /\ hooked' = hooked /\ \A n \in Names : hooked[n] = 0
      BY <1>4, <1>c DEF SecondSnapshot, histVars
    <2> QED
      BY <2>1, <2>2
  <1>5. CASE BeforeStartHook
    <2> DEFINE n == snap[nStarted + 1].name
    <2>1. nStarted + 1 \in 1..Len(snap) /\ n \in Names /\ hooked[n] = h
      BY <1>5, <1>t, <1>n DEF BeforeStartHook
    <2>2. hooked' = [hooked EXCEPT ![n] = hooked[n] + 1] /\ UNCHANGED <<snapVars, nStarted>>
      BY <1>5 DEF BeforeStartHook
    <2>3. \A k \in 1..Len(snap) : hooked'[snap[k].name] =
              IF k = nStarted + 1 THEN h + 1 ELSE hooked[snap[k].name]
      BY <2>1, <2>2, <1>t, <1>n
    <2>4. pc' = "unwind" \/ (pc' = "startup" /\ h' = h + 1)
      BY <1>5 DEF BeforeStartHook, AbortStartup
    <2>5. pc = "startup"
      BY <1>5 DEF BeforeStartHook
    <2> HIDE DEF n
    <2> QED
      BY <2>1, <2>2, <2>3, <2>4, <2>5, <1>t DEF snapVars
  <1>6. CASE StartComponent
    <2>1. UNCHANGED <<snapVars, hooked>> /\ pc = "startup" /\ nStarted + 1 \in 1..Len(snap)
          /\ h = snapHooks["beforeStart"]
      BY <1>6, <1>t DEF StartComponent
    <2>2. \/ nStarted' = nStarted + 1 /\ h' = 0 /\ pc' = "startup"
          \/ nStarted' = nStarted /\ pc' = "unwind"
      BY <1>6 DEF StartComponent, AbortStartup
    <2> QED
      BY <2>1, <2>2, <1>t DEF snapVars
  <1>7. CASE UNCHANGED vars
    BY <1>7 DEF vars, runVars, snapVars, histVars
  <1> QED
    BY <1>1, <1>2, <1>3, <1>4, <1>5, <1>6, <1>7 DEF Next, RunStep, StopStep

\* Each list of hooks runs from its first to its last in its own phase.
LEMMA RanStep ==
    IndInv /\ ErrorsTracked /\ RanFollows /\ [Next]_vars => RanFollows'
  <1> SUFFICES ASSUME IndInv, ErrorsTracked, RanFollows, [Next]_vars PROVE RanFollows'
    OBVIOUS
  <1>t. /\ h \in Nat /\ ran \in [HookKinds -> Nat]
        /\ startErr # {} => pc \in {"unwind", "unwinding", "returned"}
    BY ConstantsAssumption DEF IndInv, TypeOK, RunTypes, HistoryTypes, ErrorsTracked
  <1> USE <1>t DEF RanFollows, HookKinds
  <1>1. CASE Outside
    BY <1>1, OutsideFrame DEF runVars, snapVars, errVars
  <1>2. CASE Expire
    BY <1>2 DEF Expire, snapVars, errVars, histVars
  <1>3. CASE InitPlugin
    BY <1>3 DEF InitPlugin, snapVars
  <1>4. CASE PluginsReady
    BY <1>4 DEF PluginsReady, snapVars, errVars, histVars
  <1>5. CASE FirstSnapshot
    BY <1>5 DEF FirstSnapshot, snapVars, errVars, histVars
  <1>6. CASE SecondSnapshot
    BY <1>6 DEF SecondSnapshot, snapVars, errVars, histVars
  <1>7. CASE BeforeStartHook
    BY <1>7 DEF BeforeStartHook, AbortStartup, snapVars
  <1>8. CASE StartComponent
    BY <1>8 DEF StartComponent, AbortStartup, snapVars
  <1>9. CASE AllStarted
    BY <1>9 DEF AllStarted, snapVars, errVars, histVars
  <1>10. CASE AfterStartDone
    BY <1>10 DEF AfterStartDone, HooksDone, snapVars, errVars, histVars
  <1>11. CASE ShutdownSignal
    BY <1>11 DEF ShutdownSignal, snapVars, errVars, histVars
  <1>12. CASE BeforeStopDone
    BY <1>12 DEF BeforeStopDone, HooksDone, snapVars, errVars, histVars
  <1>13. CASE StopComponent
    BY <1>13 DEF StopComponent, CallStop, snapVars, errVars
  <1>14. CASE AllStopped
    BY <1>14 DEF AllStopped, snapVars, errVars, histVars
  <1>15. CASE UnwindStop
    BY <1>15 DEF UnwindStop, CallStop, snapVars, errVars
  <1>16. CASE UnwindDone
    BY <1>16 DEF UnwindDone, snapVars, errVars, histVars
  <1>17. CASE AfterStopDone
    BY <1>17 DEF AfterStopDone, HooksDone, snapVars, errVars, histVars
  <1>18. CASE ClosePlugin
    BY <1>18 DEF ClosePlugin, snapVars
  <1>19. CASE ReturnJoined
    BY <1>19 DEF ReturnJoined, snapVars, errVars, histVars
  <1>20. CASE StopComponentReturns
    BY <1>20 DEF StopComponentReturns, StopReturns, snapVars
  <1>21. CASE UnwindStopReturns
    BY <1>21 DEF UnwindStopReturns, StopReturns, snapVars
  <1>22. CASE AfterStartHook
    <2>1. /\ pc = "afterStart" /\ h' = h + 1 /\ UNCHANGED <<pc, snapHooks, startErr>>
          /\ ran' = [ran EXCEPT !["afterStart"] = ran["afterStart"] + 1]
      BY <1>22 DEF AfterStartHook, CallHook, snapVars, errVars
    <2> QED
      BY <2>1
  <1>23. CASE BeforeStopHook
    <2>1. /\ pc = "beforeStop" /\ h' = h + 1 /\ UNCHANGED <<pc, snapHooks, startErr>>
          /\ ran' = [ran EXCEPT !["beforeStop"] = ran["beforeStop"] + 1]
      BY <1>23 DEF BeforeStopHook, CallHook, snapVars, errVars
    <2> QED
      BY <2>1
  <1>24. CASE AfterStopHook
    <2>1. /\ pc = "afterStop" /\ h' = h + 1 /\ UNCHANGED <<pc, snapHooks, startErr>>
          /\ ran' = [ran EXCEPT !["afterStop"] = ran["afterStop"] + 1]
      BY <1>24 DEF AfterStopHook, CallHook, snapVars, errVars
    <2> QED
      BY <2>1
  <1>25. CASE UNCHANGED vars
    BY <1>25 DEF vars, runVars, snapVars, errVars, histVars
  <1> QED
    BY <1>1, <1>2, <1>3, <1>4, <1>5, <1>6, <1>7, <1>8, <1>9, <1>10, <1>11, <1>12, <1>13, <1>14, <1>15, <1>16, <1>17, <1>18, <1>19, <1>20, <1>21, <1>22, <1>23, <1>24, <1>25
    DEF Next, RunStep, StopStep

\* Every hook of the second snapshot has run, once and in its own phase, before
\* what it brackets: the Start of each component, the wait for the signal, the
\* first Stop and the closing of the plugins.
THEOREM HooksBracketPhases == Safety => []HooksInPhase
  <1>1. Init => HookedFollows /\ RanFollows
    BY DEF Init, HookedFollows, RanFollows, HookKinds
  <1>2. IndInv /\ ErrorsTracked /\ EarlyFollows /\ HookedFollows /\ RanFollows => HooksInPhase
    <2> SUFFICES ASSUME IndInv, ErrorsTracked, EarlyFollows, HookedFollows, RanFollows
                 PROVE  HooksInPhase
      OBVIOUS
    <2>1. UpCount \in 0..nStarted
      BY DEF IndInv, TypeOK, RunTypes, UpCount
    <2>2. \A n \in Names : Alive(n) => hooked[n] = snapHooks["beforeStart"]
      BY <2>1 DEF IndInv, LifeFollowsStack, HookedFollows, TypeOK, RunTypes
    <2>3. ASSUME NEW k \in 1..Len(snap), life[snap[k].name] # "up", startErr = {},
                 pc \notin {"new", "init", "resnap", "startup", "returned"}
          PROVE  /\ ran["afterStart"] = snapHooks["afterStart"]
                 /\ ran["beforeStop"] = snapHooks["beforeStop"]
      <3>1. pc \notin {"afterStart", "wait", "beforeStop"}
        <4> SUFFICES ASSUME pc \in {"afterStart", "wait", "beforeStop"} PROVE FALSE
          OBVIOUS
        <4>1. UpCount = Len(snap)
          BY DEF EarlyFollows, UpCount
        <4> QED
          BY <2>3, <4>1 DEF IndInv, LifeFollowsStack
      <3>2. pc \in {"stop", "stopping", "afterStop", "close"}
        BY <2>3, <3>1 DEF IndInv, TypeOK, RunTypes, Phases, ErrorsTracked
      <3> QED
        BY <3>2 DEF RanFollows
    <2>4. ASSUME NEW n \in Names, Alive(n) PROVE ran["afterStop"] = 0
      <3>1. PICK k \in 1..UpCount : snap[k].name = n
        BY <2>4 DEF IndInv, LifeFollowsStack
      <3>2. pc \notin {"afterStop", "close", "returned"}
        BY <3>1 DEF UpCount
      <3> QED
        BY <3>2 DEF RanFollows
    <2>5. /\ startErr # {} => ran["afterStop"] = 0
          /\ pc = "close" => ran["afterStop"] = snapHooks["afterStop"]
      BY DEF RanFollows
    <2> QED
      BY <2>2, <2>3, <2>4, <2>5 DEF HooksInPhase
  <1>3. Init => EarlyFollows
    BY DEF Init, EarlyFollows, NamesOf
  <1> QED
    BY <1>1, <1>2, <1>3, Invariance, ErrorsInvariance, EarlyStep, HookedStep, RanStep, PTL
    DEF Safety

-----------------------------------------------------------------------------
(* Run implements the safety part of LifecycleContract.                    *)

\* The shutdown context exists exactly in the phases that stop components, and
\* no component is down before them.
DrainPhases ==
    /\ pc \in {"new", "init", "resnap", "startup", "afterStart", "wait"} =>
           /\ deadline = "none"
           /\ \A n \in Names : life[n] # "down"
    /\ pc \in {"beforeStop", "stop", "stopping", "unwind", "unwinding"} =>
           deadline # "none"

\* The refinement mapping: the components of the snapshot that are up, those
\* that are down, and whether a shutdown context exists.
Running  == [k \in 1..UpCount |-> snap[k].name]
Finished == {n \in Names : life[n] = "down"}
Draining == deadline # "none"

\* A step that leaves the mapped state alone.
Silent == UNCHANGED <<Running, Finished, Draining>>

\* Contexts are created on entering the phases that stop components.
LEMMA DrainStep == IndInv /\ DrainPhases /\ [Next]_vars => DrainPhases'
  <1> SUFFICES ASSUME IndInv, DrainPhases, [Next]_vars PROVE DrainPhases'
    OBVIOUS
  <1>t. life \in [Names -> {"idle", "up", "failed", "stopping", "down"}]
    BY DEF IndInv, TypeOK, HistoryTypes
  <1> USE <1>t DEF DrainPhases
  <1>1. CASE Outside
    BY <1>1, OutsideFrame DEF runVars
  <1>2. CASE \/ FirstSnapshot \/ PluginsReady \/ SecondSnapshot \/ AllStarted
             \/ AfterStartHook \/ AfterStartDone \/ ShutdownSignal \/ BeforeStopHook
             \/ BeforeStopDone \/ AllStopped \/ UnwindDone \/ AfterStopHook
             \/ AfterStopDone \/ ReturnJoined
    BY <1>2 DEF FirstSnapshot, PluginsReady, SecondSnapshot, AllStarted, AfterStartHook,
        AfterStartDone, ShutdownSignal, BeforeStopHook, BeforeStopDone, AllStopped, UnwindDone,
        AfterStopHook, AfterStopDone, ReturnJoined, CallHook, HooksDone, histVars
  <1>3. CASE Expire \/ InitPlugin \/ ClosePlugin
    BY <1>3 DEF Expire, InitPlugin, ClosePlugin, histVars
  <1>4. CASE BeforeStartHook
    BY <1>4 DEF BeforeStartHook, AbortStartup
  <1>5. CASE StartComponent
    BY <1>5 DEF StartComponent, AbortStartup
  <1>6. CASE StopComponent \/ UnwindStop
    BY <1>6 DEF StopComponent, UnwindStop, CallStop
  <1>7. CASE StopComponentReturns \/ UnwindStopReturns
    BY <1>7 DEF StopComponentReturns, UnwindStopReturns, StopReturns
  <1>8. CASE UNCHANGED vars
    BY <1>8 DEF vars, runVars, histVars
  <1> QED
    BY <1>1, <1>2, <1>3, <1>4, <1>5, <1>6, <1>7, <1>8 DEF Next, RunStep, StopStep

\* The mapped stack depends on the height and on the entries below it.
LEMMA SameStack ==
    ASSUME NEW m \in Nat, UpCount = m, UpCount' = m,
           \A k \in 1..m : snap'[k] = snap[k]
    PROVE  Running' = Running
  BY DEF Running

\* Starting a component puts it on top of the stack.
LEMMA StartRefines ==
    ASSUME IndInv, DrainPhases, StartComponent, pc' = "startup"
    PROVE  \E n \in Names : Contract!Start(n)
  <1> DEFINE n == snap[nStarted + 1].name
  <1>1. /\ pc = "startup" /\ life' = [life EXCEPT ![n] = "up"] /\ nStarted' = nStarted + 1
        /\ UNCHANGED <<pc, snap, deadline>>
    BY DEF StartComponent, AbortStartup, snapVars
  <1>t. /\ snap \in Seq(Entry) /\ nStarted \in Nat /\ Len(snap) \in Nat
        /\ life \in [Names -> {"idle", "up", "failed", "stopping", "down"}]
    BY DEF IndInv, TypeOK, RunTypes, HistoryTypes
  <1>2. nStarted + 1 \in 1..Len(snap) /\ n \in Names
    BY <1>t, EntryName DEF StartComponent, IndInv, TypeOK, RunTypes
  <1>3. UpCount = nStarted /\ UpCount' = nStarted + 1
    BY <1>1 DEF UpCount
  <1>4. ~Draining /\ Draining' = Draining /\ n \notin Finished
    BY <1>1, <1>2 DEF DrainPhases, Draining, Finished
  <1>5. Finished' = Finished
    <2>1. \A m \in Names : life[m] = "down" <=> life'[m] = "down"
      BY <1>1, <1>2, <1>t DEF DrainPhases
    <2> QED
      BY <2>1 DEF Finished
  <1>6. \A k \in 1..nStarted : Running[k] # n
    BY <1>2, <1>3, <1>t DEF Running, IndInv, SnapUnique
  <1>7. Len(Running) = nStarted /\ Running \in Seq(Names)
    BY <1>2, <1>3, <1>t, EntryName DEF Running
  <1>8. Running' = [k \in 1..(nStarted + 1) |-> snap[k].name]
    BY <1>1, <1>3 DEF Running
  <1>9. Running' = Append(Running, n)
    BY <1>7, <1>8, <1>3, <1>t DEF Running
  <1> HIDE DEF n
  <1> QED
    BY <1>2, <1>4, <1>5, <1>6, <1>7, <1>9 DEF Contract!Start, Running, Finished, Draining

\* A Stop that returns takes the component on top off the stack.
LEMMA StopRefines ==
    ASSUME IndInv, DrainPhases, StopComponentReturns \/ UnwindStopReturns
    PROVE  Contract!StopLast
  <1> DEFINE n == snap[i].name
  <1>1. /\ pc \in {"stopping", "unwinding"} /\ pc' \in {"stop", "unwind"}
        /\ life' = [life EXCEPT ![n] = "down"] /\ i' = i - 1
        /\ UNCHANGED <<snap, deadline>>
    BY DEF StopComponentReturns, UnwindStopReturns, StopReturns, snapVars
  <1>t. /\ snap \in Seq(Entry) /\ i \in 1..Len(snap)
        /\ life \in [Names -> {"idle", "up", "failed", "stopping", "down"}]
    BY <1>1 DEF IndInv, TypeOK, RunTypes, HistoryTypes, Cursors
  <1>2. n \in Names
    BY <1>t, EntryName
  <1>3. UpCount = i /\ UpCount' = i - 1
    BY <1>1 DEF UpCount
  <1>4. Draining /\ Draining' = Draining
    BY <1>1 DEF DrainPhases, Draining
  <1>5. Finished' = Finished \cup {n}
    BY <1>1, <1>2, <1>t DEF Finished
  <1>6. Len(Running) = i /\ Running \in Seq(Names) /\ Running[i] = n
    BY <1>2, <1>3, <1>t, EntryName DEF Running
  <1>7. Running' = [k \in 1..(i - 1) |-> snap[k].name]
    BY <1>1, <1>3 DEF Running
  <1>8. Running' = SubSeq(Running, 1, i - 1)
    BY <1>6, <1>7, <1>3, <1>t DEF Running
  <1>9. Running # <<>>
    BY <1>6, <1>t
  <1> HIDE DEF n
  <1> QED
    BY <1>4, <1>5, <1>6, <1>8, <1>9 DEF Contract!StopLast, Running, Finished, Draining

\* Entering the shutdown, or abandoning a startup, begins to drain and leaves
\* the stack as it is.
LEMMA DrainRefines ==
    ASSUME IndInv, DrainPhases,
           \/ ShutdownSignal
           \/ (BeforeStartHook \/ StartComponent) /\ pc' = "unwind"
    PROVE  Contract!Drain
  <1>t. /\ nStarted \in Nat
        /\ life \in [Names -> {"idle", "up", "failed", "stopping", "down"}]
        /\ snap \in Seq(Entry) /\ nStarted \in 0..Len(snap)
    BY DEF IndInv, TypeOK, RunTypes, HistoryTypes
  <1>1. /\ pc \in {"startup", "wait"} /\ deadline' = "armed" /\ UNCHANGED <<snap, nStarted>>
        /\ \/ pc' = "beforeStop"
           \/ pc' = "unwind" /\ i' = nStarted
    BY DEF ShutdownSignal, BeforeStartHook, StartComponent, AbortStartup, snapVars
  <1>2. UpCount = nStarted /\ UpCount' = nStarted
    BY <1>1 DEF UpCount
  <1>3. Running' = Running
    BY <1>t, <1>1, <1>2, SameStack
  <1>4. Finished' = Finished
    <2>1. CASE ShutdownSignal \/ BeforeStartHook
      BY <2>1 DEF ShutdownSignal, BeforeStartHook, histVars, Finished
    <2>2. CASE StartComponent
      <3>1. life' = [life EXCEPT ![snap[nStarted + 1].name] = "failed"]
        BY <2>2, <1>1, <1>t DEF StartComponent
      <3>2. \A m \in Names : life[m] # "down" /\ life'[m] # "down"
        BY <3>1, <1>1, <1>t DEF DrainPhases
      <3> QED
        BY <3>2 DEF Finished
    <2> QED
      BY <2>1, <2>2
  <1>5. ~Draining /\ Draining'
    BY <1>1 DEF DrainPhases, Draining
  <1> QED
    BY <1>3, <1>4, <1>5 DEF Contract!Drain, Running, Finished, Draining

\* Every other step of Run leaves the mapped state as it is.
LEMMA OtherSilent ==
    ASSUME IndInv, DrainPhases,
           \/ Outside \/ Expire \/ FirstSnapshot \/ InitPlugin \/ PluginsReady
           \/ SecondSnapshot \/ AllStarted \/ AfterStartHook \/ AfterStartDone
           \/ BeforeStopHook \/ BeforeStopDone \/ StopComponent \/ AllStopped \/ UnwindStop
           \/ UnwindDone \/ AfterStopHook \/ AfterStopDone \/ ClosePlugin \/ ReturnJoined
           \/ UNCHANGED vars
           \/ BeforeStartHook /\ pc' = "startup"
    PROVE  Silent
  <1>t. /\ nStarted \in Nat /\ i \in Nat /\ snap \in Seq(Entry)
        /\ life \in [Names -> {"idle", "up", "failed", "stopping", "down"}]
    BY DEF IndInv, TypeOK, RunTypes, HistoryTypes
  <1>s. ASSUME StopComponent \/ UnwindStop PROVE Finished' = Finished
    <2>1. life' = [life EXCEPT ![snap[i].name] = "stopping"]
      BY <1>s DEF StopComponent, UnwindStop, CallStop
    <2>2. i \in 1..UpCount /\ i \in 1..Len(snap)
      BY <1>s DEF StopComponent, UnwindStop, CallStop, UpCount, IndInv, TypeOK, RunTypes
    <2>3. snap[i].name \in Names /\ life[snap[i].name] = "up"
      BY <2>2, <1>s, <1>t, EntryName
      DEF IndInv, LifeFollowsStack, StopComponent, UnwindStop, CallStop
    <2>4. \A m \in Names : life[m] = "down" <=> life'[m] = "down"
      BY <2>1, <2>3, <1>t
    <2> QED
      BY <2>4 DEF Finished
  <1> USE DEF Outside, Register, Use, AddHook, Cancel, Expire, FirstSnapshot, InitPlugin,
        PluginsReady, SecondSnapshot, AllStarted, AfterStartHook, AfterStartDone,
        BeforeStopHook, BeforeStopDone, StopComponent, AllStopped, UnwindStop, UnwindDone,
        AfterStopHook, AfterStopDone, ClosePlugin, ReturnJoined, BeforeStartHook, CallHook,
        HooksDone, CallStop, vars, appVars, runVars, snapVars, errVars, histVars
  <1>1. UpCount' = UpCount /\ UpCount \in Nat
    BY <1>t DEF UpCount, IndInv, Cursors
  <1>2. UpCount # 0 => snap' = snap
    BY DEF UpCount, IndInv, Cursors
  <1>3. Running' = Running
    BY <1>1, <1>2 DEF Running
  <1>4. Draining' = Draining
    BY DEF Draining, AbortStartup
  <1>5. Finished' = Finished
    BY <1>s DEF Finished
  <1> QED
    BY <1>3, <1>4, <1>5 DEF Silent

\* Run, with every interleaved registration, implements the contract: components
\* go up one on top of the other, none starts once draining has begun, the last
\* one up is always the next one down, and none is started or stopped twice.
THEOREM RunImplementsContract == Safety => Contract!Safety
  <1>1. Init => DrainPhases
    BY DEF Init, DrainPhases
  <1>2. Safety => [](IndInv /\ DrainPhases)
    BY <1>1, Invariance, DrainStep, PTL DEF Safety
  <1>3. Init => Contract!Init
    BY DEF Init, Contract!Init, UpCount
  <1>4. IndInv /\ DrainPhases /\ [Next]_vars => [Contract!Next]_(Contract!contractVars)
    <2> SUFFICES ASSUME IndInv, DrainPhases, [Next]_vars
                 PROVE  Contract!Next \/ Silent
      BY DEF Silent, Running, Finished, Draining, Contract!contractVars
    <2>1. CASE StopComponentReturns \/ UnwindStopReturns
      BY <2>1, StopRefines DEF Contract!Next
    <2>2. CASE ShutdownSignal
      BY <2>2, DrainRefines DEF Contract!Next
    <2>3. CASE BeforeStartHook
      <3>1. pc' = "startup" \/ pc' = "unwind"
        BY <2>3 DEF BeforeStartHook, AbortStartup
      <3> QED
        BY <2>3, <3>1, DrainRefines, OtherSilent DEF Contract!Next
    <2>4. CASE StartComponent
      <3>1. pc' = "startup" \/ pc' = "unwind"
        BY <2>4 DEF StartComponent, AbortStartup
      <3> QED
        BY <2>4, <3>1, DrainRefines, StartRefines DEF Contract!Next
    <2> QED
      BY <2>1, <2>2, <2>3, <2>4, OtherSilent DEF Next, RunStep, StopStep
  <1> QED
    BY <1>2, <1>3, <1>4, PTL DEF Safety, Contract!Safety

=============================================================================
