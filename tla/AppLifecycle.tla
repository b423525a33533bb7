---------------------------- MODULE AppLifecycle ----------------------------
(***************************************************************************)
(* The application orchestrator of pkg/platform/app.go: one call of        *)
(* App.Run, interleaved with every other goroutine, hook body or           *)
(* Plugin.Init body that calls Register, Use or one of the On* methods     *)
(* while Run is under way.                                                 *)
(*                                                                         *)
(* Data abstractions.  A hook list is represented by its length: hooks of  *)
(* one kind are interchangeable and run in list order.  The slice          *)
(* `started' of Run is always a prefix of the second snapshot, so it is    *)
(* represented by its length nStarted.  An error is the pair of the        *)
(* operation that failed and its component or plugin.                      *)
(***************************************************************************)
EXTENDS Integers, Sequences

CONSTANTS
    Names,      \* component names
    Objects,    \* component values
    NoName,     \* "does not implement Named"
    OwnName,    \* OwnName[o]: the result of o.Name(), or NoName
    Plugins,    \* plugins, each added by at most one Use
    MaxHooks,   \* bound on the length of each hook list
    Deaf        \* components whose Stop does not watch its context

ASSUME ConstantsAssumption ==
    /\ NoName \notin Names
    /\ OwnName \in [Objects -> Names \cup {NoName}]
    /\ MaxHooks \in Nat
    /\ Deaf \subseteq Names

HookKinds == {"beforeStart", "afterStart", "beforeStop", "afterStop"}

\* namedComponent
Entry == [name : Names, object : Objects]

VARIABLES
    components,     \* App.components
    plugins,        \* App.plugins
    hooks,          \* lengths of App.beforeStart, afterStart, beforeStop, afterStop
    ctxDone,        \* the context of Run is cancelled (parent or signal)
    pc,             \* the phase Run is in
    snapPlugins,    \* Run's local `plugins'
    snap,           \* Run's local `components', after the second snapshot
    snapHooks,      \* Run's local hook lists, after the second snapshot
    p,              \* index of the plugin loops
    h,              \* number of hooks of the current list already called
    nStarted,       \* len(started)
    i,              \* index of the stop loops
    deadline,       \* shutCtx: "none", "armed" or "expired"
    startErr,       \* the error that aborts startup: {} or {<<operation, name>>}
    stopErrs,       \* names whose Stop failed
    closeErrs,      \* plugins whose Close failed
    ret             \* the errors joined in Run's result

\* History of what Run did to components, plugins and hooks.
VARIABLES
    life,           \* life[n]: what has happened to the component named n
    plife,          \* plife[q]: what has happened to plugin q
    hooked,         \* hooked[n]: beforeStart hooks that ran for n
    ran,            \* ran[k]: hooks of kind k that ran
    failures,       \* every error a callee returned to Run
    early           \* names registered before the second snapshot

appVars   == <<components, plugins, hooks>>
snapVars  == <<snapPlugins, snap, snapHooks>>
errVars   == <<startErr, stopErrs, closeErrs, ret>>
histVars  == <<life, plife, hooked, ran, failures, early>>
runVars   == <<pc, snapVars, p, h, nStarted, i, deadline, errVars>>
vars      == <<appVars, ctxDone, runVars, histVars>>

NamesOf(s) == {s[k].name : k \in 1..Len(s)}

Phases == {"new", "init", "resnap", "startup", "afterStart", "wait",
           "beforeStop", "stop", "stopping", "afterStop", "close",
           "unwind", "unwinding", "returned"}

\* app.New followed by a call of Run that has not yet taken its snapshot.
Init ==
    /\ components = <<>>
    /\ plugins = <<>>
    /\ hooks = [k \in HookKinds |-> 0]
    /\ ctxDone = FALSE
    /\ pc = "new"
    /\ snapPlugins = <<>>
    /\ snap = <<>>
    /\ snapHooks = [k \in HookKinds |-> 0]
    /\ p = 0 /\ h = 0 /\ nStarted = 0 /\ i = 0
    /\ deadline = "none"
    /\ startErr = {} /\ stopErrs = {} /\ closeErrs = {} /\ ret = {}
    /\ life = [n \in Names |-> "idle"]
    /\ plife = [q \in Plugins |-> "new"]
    /\ hooked = [n \in Names |-> 0]
    /\ ran = [k \in HookKinds |-> 0]
    /\ failures = {}
    /\ early = {}

-----------------------------------------------------------------------------
(* Methods of App, callable from any goroutine at any time.                *)

ResolvedName(arg, o) == IF OwnName[o] = NoName THEN arg ELSE OwnName[o]

\* Register: a name that is taken is an error and changes nothing.
Register(arg, o) ==
    LET n == ResolvedName(arg, o)
    IN  /\ n \notin NamesOf(components)
        /\ components' = Append(components, [name |-> n, object |-> o])
        /\ early' = IF pc \in {"new", "init", "resnap"} THEN early \cup {n}
                                                         ELSE early
        /\ UNCHANGED <<plugins, hooks, ctxDone, runVars,
                       life, plife, hooked, ran, failures>>

Use(q) ==
    /\ \A k \in 1..Len(plugins) : plugins[k] # q
    /\ plugins' = Append(plugins, q)
    /\ UNCHANGED <<components, hooks, ctxDone, runVars, histVars>>

\* OnBeforeStart, OnAfterStart, OnBeforeStop, OnAfterStop.
AddHook(kind) ==
    /\ hooks[kind] < MaxHooks
    /\ hooks' = [hooks EXCEPT ![kind] = @ + 1]
    /\ UNCHANGED <<components, plugins, ctxDone, runVars, histVars>>

\* The parent context is cancelled, or SIGINT or SIGTERM arrives.
Cancel ==
    /\ ~ctxDone
    /\ ctxDone' = TRUE
    /\ UNCHANGED <<appVars, runVars, histVars>>

\* The shutdown timeout elapses while the shutdown context is in use.
Expire ==
    /\ deadline = "armed"
    /\ pc # "returned"
    /\ deadline' = "expired"
    /\ UNCHANGED <<appVars, ctxDone, pc, snapVars, p, h, nStarted, i, errVars, histVars>>

-----------------------------------------------------------------------------
(* App.Run, step by step.                                                  *)

\* The first snapshot; the plugins are taken from this one only.
FirstSnapshot ==
    /\ pc = "new"
    /\ snapPlugins' = plugins
    /\ snap' = components
    /\ snapHooks' = hooks
    /\ pc' = "init"
    /\ UNCHANGED <<appVars, ctxDone, p, h, nStarted, i, deadline, errVars, histVars>>

\* Mutation: a failing Init is logged and skipped.
InitPluginSkipsFailed ==
    /\ pc = "init"
    /\ p < Len(snapPlugins)
    /\ \E r \in {"inited", "failed"} :
           plife' = [plife EXCEPT ![snapPlugins[p + 1]] = r]
    /\ p' = p + 1
    /\ UNCHANGED <<appVars, ctxDone, pc, snapVars, h, nStarted, i, deadline,
                   errVars, life, hooked, ran, failures, early>>

\* p.Init(a) returns; an error ends Run at once.
InitPlugin ==
    /\ pc = "init"
    /\ p < Len(snapPlugins)
    /\ LET q == snapPlugins[p + 1] IN
       \/ /\ plife' = [plife EXCEPT ![q] = "inited"]
          /\ p' = p + 1
          /\ UNCHANGED <<pc, ret, failures>>
       \/ /\ plife' = [plife EXCEPT ![q] = "failed"]
          /\ failures' = failures \cup {<<"init", q>>}
          /\ ret' = {<<"init", q>>}
          /\ pc' = "returned"
          /\ UNCHANGED p
    /\ UNCHANGED <<appVars, ctxDone, snapVars, h, nStarted, i, deadline,
                   startErr, stopErrs, closeErrs, life, hooked, ran, early>>

PluginsReady ==
    /\ pc = "init"
    /\ p = Len(snapPlugins)
    /\ pc' = "resnap"
    /\ UNCHANGED <<appVars, ctxDone, snapVars, p, h, nStarted, i, deadline,
                   errVars, histVars>>

\* Mutation: the components are not copied again after the plugins' Init.
SecondSnapshotHooksOnly ==
    /\ pc = "resnap"
    /\ snapHooks' = hooks
    /\ pc' = "startup"
    /\ UNCHANGED <<appVars, ctxDone, snapPlugins, snap, p, h, nStarted, i,
                   deadline, errVars, histVars>>

\* The second snapshot picks up what Plugin.Init registered.
SecondSnapshot ==
    /\ pc = "resnap"
    /\ snap' = components
    /\ snapHooks' = hooks
    /\ pc' = "startup"
    /\ UNCHANGED <<appVars, ctxDone, snapPlugins, p, h, nStarted, i, deadline,
                   errVars, histVars>>

\* Mutation: the error is returned without calling stopStarted.
AbortStartupWithoutStop(op, n) ==
    /\ startErr' = {<<op, n>>}
    /\ failures' = failures \cup {<<op, n>>}
    /\ i' = 0
    /\ deadline' = "armed"
    /\ pc' = "unwind"

\* Entering stopStarted(started) with the error that aborts startup.
AbortStartup(op, n) ==
    /\ startErr' = {<<op, n>>}
    /\ failures' = failures \cup {<<op, n>>}
    /\ i' = nStarted
    /\ deadline' = "armed"
    /\ pc' = "unwind"

\* One BeforeStartHook for the component about to be started.
BeforeStartHook ==
    /\ pc = "startup"
    /\ nStarted < Len(snap)
    /\ h < snapHooks["beforeStart"]
    /\ LET n == snap[nStarted + 1].name IN
       /\ hooked' = [hooked EXCEPT ![n] = @ + 1]
       /\ \/ /\ h' = h + 1
             /\ UNCHANGED <<pc, i, deadline, startErr, failures>>
          \/ /\ AbortStartup("hook", n)
             /\ UNCHANGED h
    /\ UNCHANGED <<appVars, ctxDone, snapVars, p, nStarted,
                   stopErrs, closeErrs, ret, life, plife, ran, early>>

\* Mutation: the hooks run before the first component only.
StartComponentKeepsHookIndex ==
    /\ pc = "startup"
    /\ nStarted < Len(snap)
    /\ h = snapHooks["beforeStart"]
    /\ LET n == snap[nStarted + 1].name IN
       \/ /\ life' = [life EXCEPT ![n] = "up"]
          /\ nStarted' = nStarted + 1
          /\ UNCHANGED <<pc, i, deadline, startErr, failures>>
       \/ /\ life' = [life EXCEPT ![n] = "failed"]
          /\ AbortStartup("start", n)
          /\ UNCHANGED nStarted
    /\ UNCHANGED <<appVars, ctxDone, snapVars, p, h, stopErrs, closeErrs, ret,
                   plife, hooked, ran, early>>

\* component.Start(ctx) returns.  A component that fails to start is not stopped.
StartComponent ==
    /\ pc = "startup"
    /\ nStarted < Len(snap)
    /\ h = snapHooks["beforeStart"]
    /\ LET n == snap[nStarted + 1].name IN
       \/ /\ life' = [life EXCEPT ![n] = "up"]
          /\ nStarted' = nStarted + 1
          /\ h' = 0
          /\ UNCHANGED <<pc, i, deadline, startErr, failures>>
       \/ /\ life' = [life EXCEPT ![n] = "failed"]
          /\ AbortStartup("start", n)
          /\ UNCHANGED <<nStarted, h>>
    /\ UNCHANGED <<appVars, ctxDone, snapVars, p, stopErrs, closeErrs, ret,
                   plife, hooked, ran, early>>

AllStarted ==
    /\ pc = "startup"
    /\ nStarted = Len(snap)
    /\ h' = 0
    /\ pc' = "afterStart"
    /\ UNCHANGED <<appVars, ctxDone, snapVars, p, nStarted, i, deadline,
                   errVars, histVars>>

\* The loop over one of the hook lists that cannot fail.
CallHook(phase, kind) ==
    /\ pc = phase
    /\ h < snapHooks[kind]
    /\ h' = h + 1
    /\ ran' = [ran EXCEPT ![kind] = @ + 1]
    /\ UNCHANGED <<appVars, ctxDone, pc, snapVars, p, nStarted, i, deadline,
                   errVars, life, plife, hooked, failures, early>>

AfterStartHook == CallHook("afterStart", "afterStart")
BeforeStopHook == CallHook("beforeStop", "beforeStop")
AfterStopHook  == CallHook("afterStop", "afterStop")

HooksDone(phase, kind, next) ==
    /\ pc = phase
    /\ h = snapHooks[kind]
    /\ h' = 0
    /\ pc' = next

AfterStartDone ==
    /\ HooksDone("afterStart", "afterStart", "wait")
    /\ UNCHANGED <<appVars, ctxDone, snapVars, p, nStarted, i, deadline,
                   errVars, histVars>>

\* Mutation: the components are stopped with a context that has no timeout.
ShutdownSignalNoTimeout ==
    /\ pc = "wait"
    /\ ctxDone
    /\ pc' = "beforeStop"
    /\ UNCHANGED <<appVars, ctxDone, snapVars, p, h, nStarted, i, deadline,
                   errVars, histVars>>

\* <-ctx.Done(), then the shutdown context is created.
ShutdownSignal ==
    /\ pc = "wait"
    /\ ctxDone
    /\ deadline' = "armed"
    /\ pc' = "beforeStop"
    /\ UNCHANGED <<appVars, ctxDone, snapVars, p, h, nStarted, i, errVars, histVars>>

BeforeStopDone ==
    /\ HooksDone("beforeStop", "beforeStop", "stop")
    /\ i' = nStarted
    /\ UNCHANGED <<appVars, ctxDone, snapVars, p, nStarted, deadline,
                   errVars, histVars>>

\* Mutation: components are stopped in registration order.
CallStopForward(phase, calling) ==
    /\ pc = phase
    /\ i > 0
    /\ life' = [life EXCEPT ![snap[nStarted - i + 1].name] = "stopping"]
    /\ pc' = calling
    /\ UNCHANGED <<appVars, ctxDone, snapVars, p, h, nStarted, i, deadline,
                   errVars, plife, hooked, ran, failures, early>>

\* The call of component.Stop(shutCtx), in Run's loop or in stopStarted.
CallStop(phase, calling) ==
    /\ pc = phase
    /\ i > 0
    /\ life' = [life EXCEPT ![snap[i].name] = "stopping"]
    /\ pc' = calling
    /\ UNCHANGED <<appVars, ctxDone, snapVars, p, h, nStarted, i, deadline,
                   errVars, plife, hooked, ran, failures, early>>

\* Mutation: a later Stop error replaces the earlier ones.
StopReturnsLastError(phase, calling) ==
    /\ pc = calling
    /\ LET n == snap[i].name IN
       /\ life' = [life EXCEPT ![n] = "down"]
       /\ \/ UNCHANGED <<stopErrs, failures>>
          \/ /\ stopErrs' = {n}
             /\ failures' = failures \cup {<<"stop", n>>}
    /\ i' = i - 1
    /\ pc' = phase
    /\ UNCHANGED <<appVars, ctxDone, snapVars, p, h, nStarted, deadline,
                   startErr, closeErrs, ret, plife, hooked, ran, early>>

\* component.Stop(shutCtx) returns; its error is collected.
StopReturns(phase, calling) ==
    /\ pc = calling
    /\ LET n == snap[i].name IN
       /\ life' = [life EXCEPT ![n] = "down"]
       /\ \/ UNCHANGED <<stopErrs, failures>>
          \/ /\ stopErrs' = stopErrs \cup {n}
             /\ failures' = failures \cup {<<"stop", n>>}
    /\ i' = i - 1
    /\ pc' = phase
    /\ UNCHANGED <<appVars, ctxDone, snapVars, p, h, nStarted, deadline,
                   startErr, closeErrs, ret, plife, hooked, ran, early>>

StopComponent        == CallStop("stop", "stopping")
StopComponentReturns == StopReturns("stop", "stopping")
UnwindStop           == CallStop("unwind", "unwinding")
UnwindStopReturns    == StopReturns("unwind", "unwinding")

StopErrors == {<<"stop", n>> : n \in stopErrs}

\* A failed startup returns its error joined with the errors of stopStarted.
UnwindDone ==
    /\ pc = "unwind"
    /\ i = 0
    /\ ret' = startErr \cup StopErrors
    /\ pc' = "returned"
    /\ UNCHANGED <<appVars, ctxDone, snapVars, p, h, nStarted, i, deadline,
                   startErr, stopErrs, closeErrs, histVars>>

AllStopped ==
    /\ pc = "stop"
    /\ i = 0
    /\ h' = 0
    /\ pc' = "afterStop"
    /\ UNCHANGED <<appVars, ctxDone, snapVars, p, nStarted, i, deadline,
                   errVars, histVars>>

AfterStopDone ==
    /\ HooksDone("afterStop", "afterStop", "close")
    /\ p' = Len(snapPlugins)
    /\ UNCHANGED <<appVars, ctxDone, snapVars, nStarted, i, deadline,
                   errVars, histVars>>

\* p.Close() returns; its error is collected.
ClosePlugin ==
    /\ pc = "close"
    /\ p > 0
    /\ LET q == snapPlugins[p] IN
       /\ plife' = [plife EXCEPT ![q] = "closed"]
       /\ \/ UNCHANGED <<closeErrs, failures>>
          \/ /\ closeErrs' = closeErrs \cup {q}
             /\ failures' = failures \cup {<<"close", q>>}
    /\ p' = p - 1
    /\ UNCHANGED <<appVars, ctxDone, pc, snapVars, h, nStarted, i, deadline,
                   startErr, stopErrs, ret, life, hooked, ran, early>>

CloseErrors == {<<"close", q>> : q \in closeErrs}

ReturnJoined ==
    /\ pc = "close"
    /\ p = 0
    /\ ret' = StopErrors \cup CloseErrors
    /\ pc' = "returned"
    /\ UNCHANGED <<appVars, ctxDone, snapVars, p, h, nStarted, i, deadline,
                   startErr, stopErrs, closeErrs, histVars>>

-----------------------------------------------------------------------------
\* What other goroutines and callbacks do to the App.
Outside ==
    \/ \E arg \in Names, o \in Objects : Register(arg, o)
    \/ \E q \in Plugins : Use(q)
    \/ \E kind \in HookKinds : AddHook(kind)
    \/ Cancel

\* The steps of Run other than a component's Stop returning.
RunStep ==
    \/ FirstSnapshot \/ InitPlugin \/ PluginsReady \/ SecondSnapshot
    \/ BeforeStartHook \/ StartComponent \/ AllStarted
    \/ AfterStartHook \/ AfterStartDone
    \/ ShutdownSignal \/ BeforeStopHook \/ BeforeStopDone
    \/ StopComponent \/ AllStopped
    \/ UnwindStop \/ UnwindDone
    \/ AfterStopHook \/ AfterStopDone
    \/ ClosePlugin \/ ReturnJoined

StopStep == StopComponentReturns \/ UnwindStopReturns

Next == Outside \/ Expire \/ RunStep \/ StopStep

Safety == Init /\ [][Next]_vars

\* A Stop that watches its context returns once that context has expired.
ObedientStop ==
    /\ deadline = "expired"
    /\ i > 0
    /\ snap[i].name \notin Deaf
    /\ StopStep

\* Run's goroutine is scheduled, the callbacks it makes return, and timers fire.
Fairness == WF_vars(RunStep) /\ WF_vars(Expire) /\ WF_vars(ObedientStop)

Spec == Safety /\ Fairness

-----------------------------------------------------------------------------
(* Properties.                                                             *)

ErrorPairs == {"init", "hook", "start", "stop", "close"} \X (Names \cup Plugins)

AppTypes ==
    /\ components \in Seq(Entry)
    /\ plugins \in Seq(Plugins)
    /\ hooks \in [HookKinds -> 0..MaxHooks]
    /\ ctxDone \in BOOLEAN

RunTypes ==
    /\ pc \in Phases
    /\ snapPlugins \in Seq(Plugins)
    /\ snap \in Seq(Entry)
    /\ snapHooks \in [HookKinds -> 0..MaxHooks]
    /\ p \in 0..Len(snapPlugins)
    /\ h \in 0..MaxHooks
    /\ nStarted \in 0..Len(snap)
    /\ i \in 0..nStarted
    /\ deadline \in {"none", "armed", "expired"}

ErrorTypes ==
    /\ startErr \subseteq ErrorPairs
    /\ stopErrs \subseteq Names
    /\ closeErrs \subseteq Plugins
    /\ ret \subseteq ErrorPairs
    /\ failures \subseteq ErrorPairs

HistoryTypes ==
    /\ life \in [Names -> {"idle", "up", "failed", "stopping", "down"}]
    /\ plife \in [Plugins -> {"new", "inited", "failed", "closed"}]
    /\ hooked \in [Names -> Nat]
    /\ ran \in [HookKinds -> Nat]
    /\ early \subseteq Names

\* The values of the App, of Run's locals and of the history; the indices of
\* Run's loops stay within the slices they walk over.
TypeOK == AppTypes /\ RunTypes /\ ErrorTypes /\ HistoryTypes

Alive(n) == life[n] \in {"up", "stopping"}

\* Register admits one component per resolved name, however the name came
\* about (argument or Named), so Component and HealthCheckers are unambiguous.
NamesUnique ==
    \A j, k \in 1..Len(components) :
        components[j].name = components[k].name => j = k

\* Start order and reverse stop order: while a component is up or stopping,
\* every component registered before it is up.
DependencyOrder ==
    \A j, k \in 1..Len(snap) :
        j < k /\ Alive(snap[k].name) => life[snap[j].name] = "up"

\* Whichever way Run returns, no component it started is left running.
NothingLeftRunning == pc = "returned" => \A n \in Names : ~Alive(n)

\* While a component runs, every plugin Run took on is initialised and open.
PluginsOutliveComponents ==
    (\E n \in Names : Alive(n)) =>
        \A k \in 1..Len(snapPlugins) : plife[snapPlugins[k]] = "inited"

\* A component registered before the plugins are ready (by main, by another
\* goroutine or by Plugin.Init) is up once Run waits for the shutdown signal.
EarlyComponentsStarted ==
    pc \in {"afterStart", "wait", "beforeStop"} => \A n \in early : life[n] = "up"

\* Every hook of the second snapshot runs in its own phase: beforeStart hooks
\* all before their component comes up, afterStart hooks with every component
\* up, beforeStop hooks before any Stop, afterStop hooks after the last one.
HooksInPhase ==
    /\ \A n \in Names : Alive(n) => hooked[n] = snapHooks["beforeStart"]
    /\ (\E k \in 1..Len(snap) : life[snap[k].name] # "up") /\ startErr = {} =>
           pc \in {"new", "init", "resnap", "startup", "returned"}
               \/ /\ ran["afterStart"] = snapHooks["afterStart"]
                  /\ ran["beforeStop"] = snapHooks["beforeStop"]
    /\ (\E n \in Names : Alive(n)) \/ startErr # {} => ran["afterStop"] = 0
    /\ pc = "close" => ran["afterStop"] = snapHooks["afterStop"]

\* Run's result joins exactly the errors its callees returned.
ErrorsReported == pc = "returned" => ret = failures

\* Run is waiting for a Stop that does not watch its context.
DeafStop == pc \in {"stopping", "unwinding"} /\ snap[i].name \in Deaf

\* Once the context is cancelled, or startup has failed, Run returns.  The only
\* thing that can keep it is a Stop that ignores the shutdown context: the
\* timeout is handed to Stop and not enforced by Run.
RunReturns ==
    (ctxDone \/ startErr # {}) ~> (pc = "returned" \/ []DeafStop)

\* The number of components, counted from the first, that are up or stopping.
UpCount ==
    IF pc \in {"startup", "afterStart", "wait", "beforeStop"} THEN nStarted
    ELSE IF pc \in {"stop", "stopping", "unwind", "unwinding"} THEN i
    ELSE 0

Contract == INSTANCE LifecycleContract WITH
    running  <- [k \in 1..UpCount |-> snap[k].name],
    finished <- {n \in Names : life[n] = "down"},
    draining <- deadline # "none"

\* Run implements the last-started first-stopped contract, including that
\* draining goes on unless a Stop ignores its context.
ImplementsContract == Contract!Spec

=============================================================================
