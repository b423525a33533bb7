------------------------------ MODULE Service -------------------------------
(***************************************************************************)
(* A service put together from the platform's components: an App that      *)
(* starts an HTTP server, a database and an observer in the order of their *)
(* registration and stops them in reverse (what App.Run promises, see      *)
(* LifecycleContract), while requests are served that run a transaction or *)
(* a health check and are logged.  All registration orders are considered. *)
(***************************************************************************)
EXTENDS Integers, FiniteSets, Sequences

CONSTANTS
    Requests,
    MaxConns        \* size of the database's pool

ASSUME ServiceAssumption == MaxConns \in Nat \ {0}

VARIABLES
    order,      \* the components in the order of registration
    app,        \* "starting", "running", "stopping" or "returned"
    up          \* the components whose Start returned nil, stopped last to first

VARIABLES lock, pool, pst, tx, conn, server
VARIABLES http, req, sstop
VARIABLES started, target, ostop, down, oerrs, rec, queued, exported, begun, refused

DB == INSTANCE PostgresDB WITH Callers <- Requests, MaxStarts <- 1
Srv == INSTANCE Server
Obs == INSTANCE Observer WITH Loggers <- Requests

appvars == <<order, app, up>>
dbvars == <<lock, pool, pst, tx, conn, server>>
srvvars == <<http, req, sstop>>
obsvars == <<started, target, ostop, down, oerrs, rec, queued, exported, begun, refused>>
vars == <<appvars, dbvars, srvvars, obsvars>>

Components == {"server", "db", "observer"}

Init ==
    /\ order \in {p \in [1..3 -> Components] : \A i, j \in 1..3 : i # j => p[i] # p[j]}
    /\ app = "starting" /\ up = <<>>
    /\ DB!Init /\ Srv!Init /\ Obs!Init

-----------------------------------------------------------------------------
(* App.Run.                                                                *)

StartTurn(c) == app = "starting" /\ Len(up) < 3 /\ order[Len(up) + 1] = c
StopTurn(c) == app = "stopping" /\ up # <<>> /\ up[Len(up)] = c

Started(c) == up' = Append(up, c) /\ UNCHANGED <<order, app>>
StartFailed == app' = "stopping" /\ UNCHANGED <<order, up>>
Stopped == up' = SubSeq(up, 1, Len(up) - 1) /\ UNCHANGED <<order, app>>

AllStarted ==
    /\ app = "starting" /\ Len(up) = 3
    /\ app' = "running"
    /\ UNCHANGED <<order, up, dbvars, srvvars, obsvars>>

Cancel ==
    /\ app = "running"
    /\ app' = "stopping"
    /\ UNCHANGED <<order, up, dbvars, srvvars, obsvars>>

Return ==
    /\ app = "stopping" /\ up = <<>>
    /\ app' = "returned"
    /\ UNCHANGED <<order, up, dbvars, srvvars, obsvars>>

DBStarts ==
    /\ StartTurn("db")
    /\ \/ DB!StartBegin /\ UNCHANGED appvars
       \/ DB!StartConnects /\ Started("db")
       \/ DB!StartFails /\ StartFailed
    /\ UNCHANGED <<srvvars, obsvars>>

DBStops ==
    /\ StopTurn("db")
    /\ \/ DB!StopBegin /\ UNCHANGED appvars
       \/ DB!StopEnds /\ Stopped
    /\ UNCHANGED <<srvvars, obsvars>>

ServerStarts ==
    /\ StartTurn("server")
    /\ \/ Srv!StartListens /\ Started("server")
       \/ Srv!StartFails /\ StartFailed
    /\ UNCHANGED <<dbvars, obsvars>>

ServerStops ==
    /\ StopTurn("server")
    /\ \/ Srv!StopBegin /\ UNCHANGED appvars
       \/ (Srv!StopDrained \/ Srv!StopTimesOut) /\ Stopped
    /\ UNCHANGED <<dbvars, obsvars>>

ObserverStarts ==
    /\ StartTurn("observer")
    /\ Obs!Start /\ Started("observer")
    /\ UNCHANGED <<dbvars, srvvars>>

ObserverStops ==
    /\ StopTurn("observer")
    /\ \/ Obs!StopBegin /\ UNCHANGED appvars
       \/ Obs!ShutdownProvider /\ IF started' THEN UNCHANGED appvars ELSE Stopped
    /\ UNCHANGED <<dbvars, srvvars>>

Run ==
    \/ AllStarted \/ Return \/ DBStarts \/ DBStops \/ ServerStarts \/ ServerStops
    \/ ObserverStarts \/ ObserverStops

-----------------------------------------------------------------------------
(* The goroutine that serves, and the requests.                            *)

Serve == Srv!Serve /\ UNCHANGED <<appvars, dbvars, obsvars>>

Accept(r) == Srv!Accept(r) /\ UNCHANGED <<appvars, dbvars, obsvars>>

\* The handler of a request calls WithTx; that of /healthz/ready calls Ping.
Handle(r) ==
    /\ req[r] = "handling"
    /\ DB!WithTx(r) \/ DB!PingCopy(r) \/ DB!Step(r)
    /\ UNCHANGED <<appvars, srvvars, obsvars>>

HandlerEnds(r) ==
    /\ DB!Forget(r)
    /\ Srv!HandlerEnds(r)
    /\ UNCHANGED <<appvars, obsvars>>

Log(r) ==
    /\ req[r] = "logging"
    /\ Obs!LogStep(r)
    /\ UNCHANGED <<appvars, dbvars, srvvars>>

\* Nothing is logged of the health endpoints, nor WithoutRequestLogging.
Respond(r) ==
    /\ rec[r] \in {"none", "written", "failed"}
    /\ Srv!Respond(r)
    /\ UNCHANGED <<appvars, dbvars, obsvars>>

Export == Obs!ExportBatch /\ UNCHANGED <<appvars, dbvars, srvvars>>

Request(r) == Handle(r) \/ HandlerEnds(r) \/ Log(r) \/ Respond(r)

Next ==
    \/ Run \/ Cancel \/ Serve \/ Export
    \/ \E r \in Requests : Accept(r) \/ Request(r)

\* Run and the handlers get on; nobody has to cancel or to send a request.
Fairness ==
    WF_vars(Run) /\ WF_vars(Serve) /\ \A r \in Requests : WF_vars(Request(r))

Spec == Init /\ [][Next]_vars /\ Fairness

-----------------------------------------------------------------------------
(* Properties.                                                             *)

Before(a, b) == \E i, j \in 1..3 : i < j /\ order[i] = a /\ order[j] = b

\* The promises of WithTx, here for handlers that a shutdown cuts across.
NoDanglingTx == DB!NoDanglingTx
ResultMatchesServer == DB!ResultMatchesServer

\* With the database registered before the server, a request finds its pool
\* missing, closing or closed only if Stop of the server gave up waiting.
DrainedBeforeClose ==
    Before("db", "server") /\ sstop # "timeout" /\ Srv!InFlight # {} =>
        pst[1] = "open"

\* When Run has returned, everybody logs to the base handler again, and an
\* observer that was started has shut down every provider, whichever of them
\* failed.  (The providers are made in New, and those of an observer whose turn
\* never came are not shut down by anybody.)  With the observer registered before
\* the server, no Stop that timed out and no error of the log provider, the record
\* of every request that the base handler took has been offered to the collector:
\* none is left behind in the provider's batch.
TelemetryComplete ==
    app = "returned" =>
        /\ target = "base" /\ ~started
        /\ down = IF begun THEN {"tp", "mp", "lp"} ELSE {}
        /\ Before("observer", "server") /\ sstop # "timeout" /\ "lp" \notin oerrs =>
               \A r \in Requests :
                   req[r] = "done" /\ rec[r] = "written" => r \in exported \cup refused

\* Shutdown ends, unless a transaction's function waits for the mutex that
\* Stop of the database holds while it waits for that transaction.
ShutdownEnds ==
    (app = "stopping") ~>
        \/ app = "returned"
        \/ lock = "stop" /\ \E r \in Requests : tx[r].pc = "mutex"

=============================================================================
