------------------------------- MODULE Server -------------------------------
(***************************************************************************)
(* The HTTP server component (pkg/server/server.go) with its goroutine     *)
(* that serves, and net/http's graceful shutdown (external).  The handler  *)
(* of a request is the work of the module that uses this one; a panic of   *)
(* the handler ends in the Recovery middleware.                            *)
(***************************************************************************)
CONSTANT Requests

VARIABLES
    http,       \* httpSrv: "nil", "listening", "serving" or "shutdown"
    req,        \* req[r]: "none", "handling", "logging" or "done"
    sstop       \* Stop: "idle", "waiting", "stopped" or "timeout"

vars == <<http, req, sstop>>

Init ==
    /\ http = "nil"
    /\ req = [r \in Requests |-> "none"]
    /\ sstop = "idle"

\* The router is built, the listener opened and the goroutine started.
StartListens ==
    /\ http = "nil"
    /\ http' = "listening"
    /\ UNCHANGED <<req, sstop>>

StartFails == http = "nil" /\ UNCHANGED vars

\* The goroutine enters Serve, possibly after Stop: then Serve returns at once.
Serve == http = "listening" /\ http' = "serving" /\ UNCHANGED <<req, sstop>>

Accept(r) ==
    /\ http = "serving" /\ req[r] = "none"
    /\ req' = [req EXCEPT ![r] = "handling"]
    /\ UNCHANGED <<http, sstop>>

\* The handler returns or panics; RequestLogging or Recovery logs that.
HandlerEnds(r) ==
    /\ req[r] = "handling"
    /\ req' = [req EXCEPT ![r] = "logging"]
    /\ UNCHANGED <<http, sstop>>

Respond(r) ==
    /\ req[r] = "logging"
    /\ req' = [req EXCEPT ![r] = "done"]
    /\ UNCHANGED <<http, sstop>>

\* Stop copies httpSrv; Shutdown closes the listener, and no request begins
\* after that.
StopBegin ==
    /\ sstop = "idle" /\ http # "nil"
    /\ http' = "shutdown" /\ sstop' = "waiting"
    /\ UNCHANGED req

InFlight == {r \in Requests : req[r] \in {"handling", "logging"}}

\* Mutation: Close in the place of Shutdown, which waits for nobody.
StopDrainedAtOnce == sstop = "waiting" /\ sstop' = "stopped" /\ UNCHANGED <<http, req>>

\* Shutdown returns when no request is in flight ...
StopDrained ==
    /\ sstop = "waiting" /\ InFlight = {}
    /\ sstop' = "stopped"
    /\ UNCHANGED <<http, req>>

\* ... or with an error at the deadline; the requests then run on.
StopTimesOut == sstop = "waiting" /\ sstop' = "timeout" /\ UNCHANGED <<http, req>>

=============================================================================
