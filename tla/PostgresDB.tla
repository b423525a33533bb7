----------------------------- MODULE PostgresDB -----------------------------
(***************************************************************************)
(* The PostgreSQL component: Start, Stop and Ping of                       *)
(* pkg/postgres/postgres.go and WithTx of tx.go, against pgx (external:    *)
(* what Commit, Rollback and the closing of a pool do).                    *)
(*                                                                         *)
(* Data abstractions.  A pool is the number of the Start that made it (0   *)
(* is nil).  A transaction is what the server has decided about it.  An    *)
(* error is the set of errors it wraps: {} is nil.  The function given to  *)
(* WithTx uses its Tx and may call a method of DB, but neither commits nor *)
(* rolls back by itself.                                                   *)
(***************************************************************************)
EXTENDS Integers, FiniteSets

CONSTANTS
    Callers,
    MaxStarts,      \* bound on the pools made
    MaxConns        \* size of a pool

Pools == 1..MaxStarts

VARIABLES
    lock,       \* db.mu: "free", or held by "start" or "stop"
    pool,       \* db.pool
    pst,        \* pst[g]: state of pool g
    tx,         \* tx[c]: the call of caller c
    conn,       \* connections in use, as <<caller, pool>>
    server      \* server[c]: what the server has made of c's transaction

dbvars == <<lock, pool, pst>>
vars == <<dbvars, tx, conn, server>>

\* No call: also what is left of one when its caller has the result.
Idle == [pc |-> "idle", p |-> 0, fn |-> "none", err |-> {}, result |-> {"none"}]

Init ==
    /\ lock = "free" /\ pool = 0
    /\ pst = [g \in Pools |-> "none"]
    /\ tx = [c \in Callers |-> Idle]
    /\ conn = {}
    /\ server = [c \in Callers |-> "none"]

-----------------------------------------------------------------------------
(* Start and Stop hold db.mu while they ping and while the pool closes.    *)

Unmade == {g \in Pools : pst[g] = "none" /\ \A k \in 1..(g - 1) : pst[k] # "none"}

StartBegin ==
    /\ lock = "free" /\ pool = 0 /\ Unmade # {}
    /\ lock' = "start"
    /\ UNCHANGED <<pool, pst, tx, conn, server>>

StartConnects ==
    /\ lock = "start"
    /\ lock' = "free"
    /\ \E g \in Unmade : pool' = g /\ pst' = [pst EXCEPT ![g] = "open"]
    /\ UNCHANGED <<tx, conn, server>>

\* The DSN, the pool or the ping fails: a pool that was made is closed.
StartFails ==
    /\ lock = "start"
    /\ lock' = "free"
    /\ \E g \in Unmade : pst' = [pst EXCEPT ![g] = "closed"]
    /\ UNCHANGED <<pool, tx, conn, server>>

\* pool.Close lets nobody acquire a connection any more.
StopBegin ==
    /\ lock = "free" /\ pool # 0
    /\ lock' = "stop"
    /\ pst' = [pst EXCEPT ![pool] = "closing"]
    /\ UNCHANGED <<pool, tx, conn, server>>

Held(g) == {x \in conn : x[2] = g}

\* ... and returns when every connection has been given back.
StopEnds ==
    /\ lock = "stop" /\ Held(pool) = {}
    /\ lock' = "free" /\ pool' = 0
    /\ pst' = [pst EXCEPT ![pool] = "closed"]
    /\ UNCHANGED <<tx, conn, server>>

-----------------------------------------------------------------------------
(* WithTx and Ping.                                                        *)

Conn(c) == <<c, tx[c].p>>

Set(c, pc) == tx' = [tx EXCEPT ![c].pc = pc]
Return(c, r) == tx' = [tx EXCEPT ![c].pc = "done", ![c].result = r]

WithTx(c) == tx[c].pc = "idle" /\ Set(c, "copy") /\ UNCHANGED <<dbvars, conn, server>>

CopyPool(c) ==
    /\ tx[c].pc = "copy" /\ lock = "free"
    /\ IF pool = 0 THEN Return(c, {"ErrConnFailed"})
       ELSE tx' = [tx EXCEPT ![c].pc = "begin", ![c].p = pool]
    /\ UNCHANGED <<dbvars, conn, server>>

BeginTx(c) ==
    /\ tx[c].pc = "begin"
    /\ pst[tx[c].p] = "open" /\ Cardinality(Held(tx[c].p)) < MaxConns
    /\ Set(c, "fn")
    /\ conn' = conn \cup {Conn(c)}
    /\ server' = [server EXCEPT ![c] = "open"]
    /\ UNCHANGED dbvars

\* The pool is closed, no connection comes free before the context ends, or
\* BEGIN fails.
BeginFails(c) ==
    /\ tx[c].pc = "begin"
    /\ Return(c, {"begin"})
    /\ UNCHANGED <<dbvars, conn, server>>

\* Ping, from a health check: the pool is copied like in WithTx.
PingCopy(c) ==
    /\ tx[c].pc = "idle" /\ lock = "free"
    /\ IF pool = 0 THEN Return(c, {"ErrConnFailed"})
       ELSE tx' = [tx EXCEPT ![c].pc = "ping", ![c].p = pool]
    /\ UNCHANGED <<dbvars, conn, server>>

PingPool(c) ==
    /\ tx[c].pc = "ping"
    /\ \/ pst[tx[c].p] = "open" /\ Cardinality(Held(tx[c].p)) < MaxConns /\ Return(c, {})
       \/ Return(c, {"ErrConnFailed"})
    /\ UNCHANGED <<dbvars, conn, server>>

\* fn calls Pool, Ping or WithTx of the same DB: it waits for db.mu first.
FnCallsDB(c) ==
    /\ tx[c].pc = "fn"
    /\ Set(c, "mutex")
    /\ UNCHANGED <<dbvars, conn, server>>

FnGetsMutex(c) ==
    /\ tx[c].pc = "mutex" /\ lock = "free"
    /\ Set(c, "fn2")
    /\ UNCHANGED <<dbvars, conn, server>>

\* fn returns nil, returns an error or panics.
FnReturns(c) ==
    /\ tx[c].pc \in {"fn", "fn2"}
    /\ \E r \in {"nil", "error", "panic"} :
           tx' = [tx EXCEPT ![c].fn = r,
                            ![c].pc = IF r = "nil" THEN "commit" ELSE "deferred",
                            ![c].err = IF r = "error" THEN {"fn"} ELSE {}]
    /\ UNCHANGED <<dbvars, conn, server>>

\* Tx.Commit gives the connection back however it ends.
CommitSucceeds(c) ==
    /\ tx[c].pc = "commit"
    /\ server' = [server EXCEPT ![c] = "committed"]
    /\ conn' = conn \ {Conn(c)}
    /\ Return(c, {})
    /\ UNCHANGED dbvars

\* Mutation: the connection of a failed Commit is not given back.
CommitFailsLeaks(c) ==
    /\ tx[c].pc = "commit"
    /\ server' = [server EXCEPT ![c] = "aborted"]
    /\ Return(c, {"commit"})
    /\ UNCHANGED <<dbvars, conn>>

\* COMMIT fails, or its answer is lost after the server has committed; either
\* way the Tx is closed now.
CommitFails(c) ==
    /\ tx[c].pc = "commit"
    /\ \E s \in {"aborted", "committed"} : server' = [server EXCEPT ![c] = s]
    /\ conn' = conn \ {Conn(c)}
    /\ tx' = [tx EXCEPT ![c].pc = "deferred", ![c].err = {"commit"}]
    /\ UNCHANGED dbvars

\* Mutation: Rollback is called only for the errors of fn.
RollbackSkipsPanic(c) ==
    /\ tx[c].pc = "deferred" /\ Conn(c) \in conn
    /\ IF tx[c].fn = "panic"
       THEN Return(c, {"panic"}) /\ UNCHANGED <<server, conn>>
       ELSE /\ Return(c, tx[c].err \cup {"ErrTxRollback"})
            /\ server' = [server EXCEPT ![c] = "aborted"]
            /\ conn' = conn \ {Conn(c)}
    /\ UNCHANGED dbvars

\* The deferred function rolls back after an error or a panic of fn.
Rollback(c) ==
    /\ tx[c].pc = "deferred" /\ Conn(c) \in conn
    /\ Return(c, IF tx[c].fn = "panic" THEN {"panic"} ELSE tx[c].err \cup {"ErrTxRollback"})
    /\ server' = [server EXCEPT ![c] = "aborted"]
    /\ conn' = conn \ {Conn(c)}
    /\ UNCHANGED dbvars

\* ROLLBACK fails: pgx drops the connection, and with it the server the
\* transaction.  The error of fn is not wrapped.
RollbackFails(c) ==
    /\ tx[c].pc = "deferred" /\ Conn(c) \in conn
    /\ Return(c, IF tx[c].fn = "panic" THEN {"panic"} ELSE {"rollback", "ErrTxRollback"})
    /\ server' = [server EXCEPT ![c] = "aborted"]
    /\ conn' = conn \ {Conn(c)}
    /\ UNCHANGED dbvars

\* Mutation: a closed Tx is nothing to report.
RollbackClosedIgnored(c) ==
    /\ tx[c].pc = "deferred" /\ Conn(c) \notin conn
    /\ Return(c, {"commit", "ErrTxRollback"})
    /\ UNCHANGED <<dbvars, conn, server>>

\* After a failed Commit, Rollback answers ErrTxClosed: the error of Commit is
\* not wrapped.
RollbackClosed(c) ==
    /\ tx[c].pc = "deferred" /\ Conn(c) \notin conn
    /\ Return(c, {"ErrTxClosed", "ErrTxRollback"})
    /\ UNCHANGED <<dbvars, conn, server>>

\* The caller has the result; nothing of the call is left.
Forget(c) ==
    /\ tx[c].pc = "done"
    /\ tx' = [tx EXCEPT ![c] = Idle]
    /\ server' = [server EXCEPT ![c] = "none"]
    /\ UNCHANGED <<dbvars, conn>>

-----------------------------------------------------------------------------
Step(c) ==
    \/ CopyPool(c) \/ BeginTx(c) \/ BeginFails(c) \/ PingPool(c)
    \/ FnCallsDB(c) \/ FnGetsMutex(c) \/ FnReturns(c)
    \/ CommitSucceeds(c) \/ CommitFails(c)
    \/ Rollback(c) \/ RollbackFails(c) \/ RollbackClosed(c)

Next ==
    \/ StartBegin \/ StartConnects \/ StartFails \/ StopBegin \/ StopEnds
    \/ \E c \in Callers : WithTx(c) \/ PingCopy(c) \/ Step(c) \/ Forget(c)

Spec == Init /\ [][Next]_vars

-----------------------------------------------------------------------------
(* Properties.                                                             *)

\* Whatever fails or panics, a call that has returned holds no connection and
\* has left no transaction open, and a closed pool has all connections back.
NoDanglingTx ==
    /\ \A c \in Callers : tx[c].pc = "done" => Conn(c) \notin conn /\ server[c] # "open"
    /\ \A g \in Pools : pst[g] = "closed" => Held(g) = {}

\* However often the database is stopped and started while calls go on, every
\* pool but db.pool is closed, and the calls together, those that copied the
\* pool of an earlier Start included, hold no more connections than one pool has.
OnePoolAtATime ==
    /\ \A g \in Pools : pst[g] \in {"open", "closing"} => g = pool
    /\ Cardinality(conn) <= MaxConns

\* What WithTx returns against what the server did: nil means committed;
\* a transaction whose fn failed or panicked is never committed; and "rolled
\* back", unless with an error of the rollback itself, is true.
ResultMatchesServer ==
    \A c \in Callers : tx[c].pc = "done" =>
        /\ tx[c].result = {} /\ tx[c].fn # "none" => server[c] = "committed"
        /\ tx[c].fn \in {"error", "panic"} => server[c] = "aborted"
        /\ "ErrTxRollback" \in tx[c].result /\ tx[c].result \cap {"rollback", "ErrTxClosed"} = {}
               => server[c] = "aborted"

=============================================================================
