---------------------------- MODULE ServiceProofs ----------------------------
(***************************************************************************)
(* Proofs about Service for every registration order, number of requests   *)
(* and size of the pool, and about PostgresDB by itself for every number   *)
(* of starts.                                                              *)
(***************************************************************************)
EXTENDS Service, FiniteSetTheorems, TLAPS

\* How often the database is started when it is considered by itself.
CONSTANT MaxStarts

\* The database by itself, stopped and started again while calls go on.
Alone == INSTANCE PostgresDB WITH Callers <- Requests

Up(c) == \E k \in 1..Len(up) : up[k] = c

\* Run's stack: a prefix of the registration order, which names every component
\* once.
StackOK ==
    /\ order \in [1..3 -> Components]
    /\ \A i, j \in 1..3 : i # j => order[i] # order[j]
    /\ app \in {"starting", "running", "stopping", "returned"}
    /\ up \in Seq(Components) /\ Len(up) <= 3
    /\ \A k \in 1..Len(up) : up[k] = order[k]
    /\ app = "returned" => Len(up) = 0

-----------------------------------------------------------------------------
(* The database.                                                           *)

Errors == {"none", "ErrConnFailed", "begin", "fn", "commit", "panic", "rollback",
           "ErrTxRollback", "ErrTxClosed"}

\* P is the set of pools that may be made.
TxRecords(P) ==
    [pc : {"idle", "copy", "begin", "ping", "fn", "mutex", "fn2", "commit", "deferred", "done"},
     p : {0} \cup P, fn : {"none", "nil", "error", "panic"}, err : SUBSET {"fn", "commit"},
     result : SUBSET Errors]

ServerStates == {"none", "open", "aborted", "committed"}

DBTypes(P) ==
    /\ lock \in {"free", "start", "stop"} /\ pool \in {0} \cup P
    /\ pst \in [P -> {"none", "open", "closing", "closed"}]
    /\ tx \in [Requests -> TxRecords(P)]
    /\ conn \subseteq Requests \X P
    /\ server \in [Requests -> ServerStates]

\* The pool is there from a Start that connected to the end of Stop, and closing
\* while Stop is under way.
PoolFollowsApp ==
    /\ pool = 1 <=> Up("db")
    /\ lock = "start" => pool = 0
    /\ lock = "stop" => pool = 1 /\ StopTurn("db")
    /\ pool = 1 => pst[1] = IF lock = "stop" THEN "closing" ELSE "open"
    /\ pool = 0 => pst[1] \in {"none", "closed"}

\* What a call, t, has come to and what the server has made of it, s.
CallOK(t, s) ==
    /\ t.pc \in {"begin", "ping", "fn", "mutex", "fn2", "commit", "deferred"} => t.p # 0
    /\ t.pc \in {"idle", "copy", "begin", "ping"} => t.fn = "none" /\ s = "none"
    /\ t.pc \in {"fn", "mutex", "fn2"} => t.fn = "none" /\ s = "open"
    /\ t.pc = "commit" => t.fn = "nil" /\ s = "open"
    /\ t.pc = "deferred" => IF t.fn = "nil" THEN s # "open" ELSE t.fn # "none" /\ s = "open"
    /\ t.pc = "done" =>
           /\ s # "open"
           /\ t.fn = "none" => "ErrTxRollback" \notin t.result
           /\ t.fn = "nil" => \/ t.result = {} /\ s = "committed"
                              \/ t.result = {"ErrTxClosed", "ErrTxRollback"}
           /\ t.fn \in {"error", "panic"} => t.result # {} /\ s = "aborted"

\* A call holds a connection, of an open pool, exactly while its transaction is
\* open at the server.
ConnsOK(P) ==
    /\ \A r \in Requests : \A g \in P :
           <<r, g>> \in conn <=> server[r] = "open" /\ tx[r].p = g
    /\ \A x \in conn : pst[x[2]] \in {"open", "closing"}

DBInv(P) == DBTypes(P) /\ ConnsOK(P) /\ \A r \in Requests : CallOK(tx[r], server[r])

-----------------------------------------------------------------------------
(* The server and the observer.                                            *)

\* The server listens from its Start to its Stop; requests are in flight only
\* then, or when Stop gave up.
ServerFollowsApp ==
    /\ req \in [Requests -> {"none", "handling", "logging", "done"}]
    /\ http \in {"nil", "listening", "serving", "shutdown"}
    /\ sstop \in {"idle", "waiting", "stopped", "timeout"}
    /\ sstop # "idle" <=> http = "shutdown"
    /\ http = "nil" => Srv!InFlight = {}
    /\ http \in {"listening", "serving"} => Up("server")
    /\ sstop = "waiting" => StopTurn("server")
    /\ sstop = "stopped" => Srv!InFlight = {}

AllProviders == {"tp", "mp", "lp"}

\* How far Stop of the observer has got.
ObserverPhase ==
    \/ ~begun /\ ~started /\ target = "base" /\ ostop = <<>> /\ down = {}
    \/ /\ begun
       /\ \/ started /\ target = "combined" /\ ostop = <<>> /\ down = {}
          \/ started /\ target = "base" /\ ostop = <<"tp", "mp", "lp">> /\ down = {}
          \/ started /\ target = "base" /\ ostop = <<"mp", "lp">> /\ down = {"tp"}
          \/ started /\ target = "base" /\ ostop = <<"lp">> /\ down = {"tp", "mp"}
          \/ ~started /\ target = "base" /\ ostop = <<>> /\ down = AllProviders

ObserverFollowsApp ==
    /\ started \in BOOLEAN /\ rec \in [Requests -> {"none", "base", "combined", "otel",
                                                    "written", "failed"}]
    /\ ObserverPhase
    /\ started <=> Up("observer")
    /\ ostop # <<>> => StopTurn("observer")
    /\ down # {} => app \in {"stopping", "returned"}

\* With the observer below a server that drains, records are taken while the
\* log provider is open and none stays in its batch unless that provider fails.
RecordsKept ==
    Before("observer", "server") /\ sstop # "timeout" =>
        /\ queued # {} => started /\ "lp" \notin down
        /\ \A r \in Requests :
               /\ rec[r] # "base"
               /\ rec[r] = "written" => r \in queued \cup exported \cup refused \/ "lp" \in oerrs

\* The conjunction that every step preserves.
IndInv ==
    /\ StackOK /\ DBInv({1}) /\ PoolFollowsApp /\ ServerFollowsApp /\ ObserverFollowsApp
    /\ RecordsKept

-----------------------------------------------------------------------------
(* Steps of the database's callers.                                        *)

\* One call and its transaction change, its connection with it.
LEMMA OneCall ==
    ASSUME NEW P, DBInv(P), NEW r \in Requests, NEW v \in TxRecords(P), NEW s \in ServerStates,
           tx' = [tx EXCEPT ![r] = v], server' = [server EXCEPT ![r] = s],
           UNCHANGED <<lock, pool, pst>>,
           conn' = IF s = "open" THEN conn \cup {<<r, v.p>>} ELSE conn \ {<<r, tx[r].p>>},
           s = "open" => v.p = tx[r].p /\ v.p \in P /\ pst[v.p] \in {"open", "closing"},
           CallOK(v, s)
    PROVE  DBInv(P)'
  <1>1. DBTypes(P)'
    BY DEF DBInv, DBTypes
  <1>2. \A q \in Requests : CallOK(tx[q], server[q])'
    <2>1. ASSUME NEW q \in Requests PROVE CallOK(tx'[q], server'[q])
      BY DEF DBInv, DBTypes
    <2> QED
      BY <2>1 DEF CallOK
  <1>3. ASSUME NEW q \in Requests, NEW g \in P
        PROVE  <<q, g>> \in conn' <=> server'[q] = "open" /\ tx'[q].p = g
    <2>1. <<q, g>> \in conn <=> server[q] = "open" /\ tx[q].p = g
      BY DEF DBInv, ConnsOK
    <2>2. CASE q = r
      BY <2>1, <2>2 DEF DBInv, DBTypes
    <2>3. CASE q # r
      <3>1. server'[q] = server[q] /\ tx'[q] = tx[q]
        BY <2>3 DEF DBInv, DBTypes
      <3>2. <<q, g>> \in conn' <=> <<q, g>> \in conn
        BY <2>3
      <3> QED
        BY <2>1, <3>1, <3>2
    <2> QED
      BY <2>2, <2>3
  <1>4. \A x \in conn' : pst'[x[2]] \in {"open", "closing"}
    BY DEF DBInv, ConnsOK
  <1> QED
    BY <1>1, <1>2, <1>3, <1>4 DEF DBInv, ConnsOK

\* One call changes and neither its transaction nor its connection.
LEMMA OnlyCall ==
    ASSUME NEW P, DBInv(P), NEW r \in Requests, NEW v \in TxRecords(P),
           tx' = [tx EXCEPT ![r] = v], UNCHANGED <<lock, pool, pst, conn, server>>,
           server[r] = "open" => v.p = tx[r].p, CallOK(v, server[r])
    PROVE  DBInv(P)'
  <1>1. DBTypes(P)'
    BY DEF DBInv, DBTypes
  <1>2. \A q \in Requests : CallOK(tx[q], server[q])'
    <2>1. ASSUME NEW q \in Requests PROVE CallOK(tx'[q], server'[q])
      BY DEF DBInv, DBTypes
    <2> QED
      BY <2>1 DEF CallOK
  <1>3. \A q \in Requests : server[q] = "open" => tx'[q].p = tx[q].p
    BY DEF DBInv, DBTypes
  <1> QED
    BY <1>1, <1>2, <1>3 DEF DBInv, ConnsOK

\* WithTx and Ping keep calls, transactions and connections in step, whatever
\* fails or panics.
LEMMA DBCalls ==
    ASSUME NEW P, 0 \notin P, DBInv(P), NEW r \in Requests,
           DB!WithTx(r) \/ DB!PingCopy(r) \/ DB!Step(r) \/ DB!Forget(r)
    PROVE  DBInv(P)'
  <1> DEFINE t == tx[r]
  <1>t. /\ t \in TxRecords(P) /\ tx \in [Requests -> TxRecords(P)] /\ CallOK(t, server[r])
        /\ server[r] \in ServerStates /\ pool \in {0} \cup P
        /\ server \in [Requests -> ServerStates]
    BY DEF DBInv, DBTypes
  <1>c. <<r, t.p>> \in conn <=> server[r] = "open"
    <2>1. t.p \in {0} \cup P /\ (server[r] = "open" => t.p # 0)
      BY <1>t DEF TxRecords, CallOK
    <2> QED
      BY <2>1 DEF DBInv, DBTypes, ConnsOK
  <1>p. t.p \in {0} \cup P /\ t.err \in SUBSET Errors /\ t.fn \in {"none", "nil", "error", "panic"}
    BY <1>t DEF TxRecords, Errors
  <1> USE DEF DB!Set, DB!Return, DB!dbvars, DB!Conn
  <1>1. ASSUME NEW x \in {"copy", "mutex", "fn2"}, DB!Set(r, x),
               UNCHANGED <<lock, pool, pst, conn, server>>,
               CallOK([t EXCEPT !.pc = x], server[r])
        PROVE  DBInv(P)'
    <2>1. [t EXCEPT !.pc = x] \in TxRecords(P)
      BY <1>t, <1>1 DEF TxRecords
    <2>2. tx' = [tx EXCEPT ![r] = [t EXCEPT !.pc = x]]
      BY <1>1, <1>t
    <2>3. [t EXCEPT !.pc = x].p = t.p
      BY <1>t DEF TxRecords
    <2> QED
      BY <1>1, <2>1, <2>2, <2>3, OnlyCall
  <1>2. CASE DB!WithTx(r) \/ DB!FnCallsDB(r) \/ DB!FnGetsMutex(r)
    <2>1. PICK x \in {"copy", "mutex", "fn2"} :
              /\ DB!Set(r, x) /\ UNCHANGED <<lock, pool, pst, conn, server>>
              /\ \/ x = "copy" /\ t.pc = "idle"
                 \/ x = "mutex" /\ t.pc = "fn"
                 \/ x = "fn2" /\ t.pc = "mutex"
      BY <1>2 DEF DB!WithTx, DB!FnCallsDB, DB!FnGetsMutex
    <2>2. CallOK([t EXCEPT !.pc = x], server[r])
      BY <2>1, <1>t DEF CallOK, TxRecords
    <2> QED
      BY <1>1, <2>1, <2>2
  <1>3. ASSUME NEW e \in SUBSET Errors, DB!Return(r, e), t.fn = "none",
               t.pc \in {"idle", "copy", "begin", "ping"}, "ErrTxRollback" \notin e,
               UNCHANGED <<lock, pool, pst, conn, server>>
        PROVE  DBInv(P)'
    <2> DEFINE v == [t EXCEPT !.pc = "done", !.result = e]
    <2>1. v \in TxRecords(P)
      BY <1>t, <1>3 DEF TxRecords
    <2>2. tx' = [tx EXCEPT ![r] = v]
      BY <1>3, <1>t
    <2>3. CallOK(v, server[r])
      BY <1>t, <1>3 DEF CallOK, TxRecords
    <2>4. v.p = t.p
      BY <1>t DEF TxRecords
    <2> HIDE DEF v
    <2> QED
      BY <1>3, <2>1, <2>2, <2>3, <2>4, OnlyCall
  <1>4. CASE DB!CopyPool(r) \/ DB!PingCopy(r)
    <2>1. t.fn = "none" /\ t.pc \in {"idle", "copy"}
          /\ UNCHANGED <<lock, pool, pst, conn, server>> /\ server[r] = "none"
      BY <1>4, <1>t DEF DB!CopyPool, DB!PingCopy, CallOK
    <2>2. CASE pool = 0
      <3>1. DB!Return(r, {"ErrConnFailed"})
        BY <1>4, <2>2 DEF DB!CopyPool, DB!PingCopy
      <3> HIDE DEF DB!Return
      <3>2. {"ErrConnFailed"} \in SUBSET Errors /\ "ErrTxRollback" \notin {"ErrConnFailed"}
        BY DEF Errors
      <3> QED
        BY <3>1, <3>2, <2>1, <1>3
    <2>3. CASE pool # 0
      <3>1. PICK x \in {"begin", "ping"} : tx' = [tx EXCEPT ![r].pc = x, ![r].p = pool]
        BY <1>4, <2>3 DEF DB!CopyPool, DB!PingCopy
      <3> DEFINE v == [t EXCEPT !.pc = x, !.p = pool]
      <3>3. v \in TxRecords(P)
        BY <1>t DEF TxRecords
      <3>4. tx' = [tx EXCEPT ![r] = v]
        BY <3>1, <1>t
      <3>5. CallOK(v, server[r])
        BY <2>1, <2>3, <1>t DEF CallOK, TxRecords
      <3> HIDE DEF v
      <3> QED
        BY <2>1, <3>3, <3>4, <3>5, OnlyCall
    <2> QED
      BY <2>2, <2>3
  <1>5. CASE DB!BeginTx(r)
    <2> DEFINE v == [t EXCEPT !.pc = "fn"]
    <2>1. t.pc = "begin" /\ t.p # 0 /\ pst[t.p] = "open" /\ t.fn = "none"
      BY <1>5, <1>t DEF DB!BeginTx, CallOK
    <2>2. v \in TxRecords(P) /\ CallOK(v, "open")
      BY <2>1, <1>t DEF TxRecords, CallOK
    <2>3. tx' = [tx EXCEPT ![r] = v] /\ server' = [server EXCEPT ![r] = "open"]
          /\ UNCHANGED <<lock, pool, pst>> /\ conn' = conn \cup {<<r, t.p>>}
      BY <1>5, <2>1, <1>t DEF DB!BeginTx
    <2>4. v.p = t.p /\ v.p \in P
      BY <2>1, <1>t, <1>p DEF TxRecords
    <2> HIDE DEF v
    <2> QED
      BY <2>1, <2>2, <2>3, <2>4, OneCall DEF ServerStates
  <1>6. CASE DB!BeginFails(r)
    <2>1. {"begin"} \in SUBSET Errors /\ "ErrTxRollback" \notin {"begin"}
      BY DEF Errors
    <2>2. t.pc = "begin" /\ t.fn = "none" /\ UNCHANGED <<lock, pool, pst, conn, server>>
          /\ DB!Return(r, {"begin"})
      BY <1>6, <1>t DEF DB!BeginFails, CallOK
    <2> HIDE DEF DB!Return
    <2> QED
      BY <2>1, <2>2, <1>3
  <1>7. CASE DB!PingPool(r)
    <2>1. /\ {"ErrConnFailed"} \in SUBSET Errors /\ "ErrTxRollback" \notin {"ErrConnFailed"}
          /\ {} \in SUBSET Errors
      BY DEF Errors
    <2>2. t.pc = "ping" /\ t.fn = "none" /\ UNCHANGED <<lock, pool, pst, conn, server>>
          /\ (DB!Return(r, {}) \/ DB!Return(r, {"ErrConnFailed"}))
      BY <1>7, <1>t DEF DB!PingPool, CallOK
    <2> HIDE DEF DB!Return
    <2> QED
      BY <2>1, <2>2, <1>3
  <1>8. CASE DB!FnReturns(r)
    <2>1. PICK x \in {"nil", "error", "panic"} :
              tx' = [tx EXCEPT ![r].fn = x, ![r].pc = IF x = "nil" THEN "commit" ELSE "deferred",
                               ![r].err = IF x = "error" THEN {"fn"} ELSE {}]
      BY <1>8 DEF DB!FnReturns
    <2> DEFINE v == [t EXCEPT !.fn = x, !.pc = IF x = "nil" THEN "commit" ELSE "deferred",
                              !.err = IF x = "error" THEN {"fn"} ELSE {}]
    <2>2. t.pc \in {"fn", "fn2"} /\ t.p # 0 /\ server[r] = "open"
          /\ UNCHANGED <<lock, pool, pst, conn, server>>
      BY <1>8, <1>t DEF DB!FnReturns, CallOK
    <2>3. v \in TxRecords(P)
      BY <1>t DEF TxRecords
    <2>4. tx' = [tx EXCEPT ![r] = v]
      BY <2>1, <1>t
    <2>5. CallOK(v, server[r]) /\ v.p = t.p
      BY <2>2, <1>t DEF CallOK, TxRecords
    <2> HIDE DEF v
    <2> QED
      BY <2>2, <2>3, <2>4, <2>5, OnlyCall
  <1>9. ASSUME NEW e \in SUBSET Errors, NEW s \in {"aborted", "committed"}, DB!Return(r, e),
               server' = [server EXCEPT ![r] = s], conn' = conn \ {<<r, t.p>>},
               UNCHANGED <<lock, pool, pst>>,
               \/ t.fn = "nil" /\ e = {} /\ s = "committed"
               \/ t.fn \in {"error", "panic"} /\ e # {} /\ s = "aborted"
        PROVE  DBInv(P)'
    <2> DEFINE v == [t EXCEPT !.pc = "done", !.result = e]
    <2>1. v \in TxRecords(P)
      BY <1>t, <1>9 DEF TxRecords
    <2>2. tx' = [tx EXCEPT ![r] = v]
      BY <1>9, <1>t
    <2>3. CallOK(v, s)
      BY <1>t, <1>9 DEF CallOK, TxRecords
    <2>4. s \in ServerStates /\ s # "open" /\ UNCHANGED <<lock, pool, pst>>
          /\ server' = [server EXCEPT ![r] = s] /\ conn' = conn \ {<<r, t.p>>}
      BY <1>9 DEF ServerStates
    <2> HIDE DEF v
    <2> QED
      BY <2>1, <2>2, <2>3, <2>4, OneCall
  <1>10. CASE DB!CommitSucceeds(r)
    <2>1. t.fn = "nil" /\ t.p # 0
      BY <1>10, <1>t DEF DB!CommitSucceeds, CallOK
    <2>2. DB!Return(r, {}) /\ server' = [server EXCEPT ![r] = "committed"]
          /\ conn' = conn \ {<<r, t.p>>} /\ UNCHANGED <<lock, pool, pst>>
      BY <1>10, <2>1 DEF DB!CommitSucceeds
    <2> HIDE DEF DB!Return
    <2> QED
      BY <2>1, <2>2, <1>9
  <1>11. CASE DB!CommitFails(r)
    <2> DEFINE v == [t EXCEPT !.pc = "deferred", !.err = {"commit"}]
    <2>1. t.fn = "nil" /\ t.p # 0
      BY <1>11, <1>t DEF DB!CommitFails, CallOK
    <2>2. PICK s \in {"aborted", "committed"} : server' = [server EXCEPT ![r] = s]
      BY <1>11 DEF DB!CommitFails
    <2>3. v \in TxRecords(P)
      BY <1>t DEF TxRecords
    <2>4. tx' = [tx EXCEPT ![r] = v] /\ conn' = conn \ {<<r, t.p>>} /\ UNCHANGED <<lock, pool, pst>>
      BY <1>11, <2>1, <1>t DEF DB!CommitFails
    <2>5. CallOK(v, s)
      BY <2>1, <2>2, <1>t DEF CallOK, TxRecords
    <2> HIDE DEF v
    <2> QED
      BY <2>2, <2>3, <2>4, <2>5, OneCall DEF ServerStates
  <1>12. CASE DB!Rollback(r) \/ DB!RollbackFails(r)
    <2>1. t.pc = "deferred" /\ t.p # 0 /\ <<r, t.p>> \in conn
      BY <1>12, <1>t DEF DB!Rollback, DB!RollbackFails, CallOK
    <2>2. t.fn \in {"error", "panic"}
      BY <2>1, <1>t, <1>c, <1>p DEF CallOK
    <2>3. PICK e \in SUBSET Errors : DB!Return(r, e) /\ e # {}
      <3>1. /\ {"panic"} \in SUBSET Errors /\ {"rollback", "ErrTxRollback"} \in SUBSET Errors
            /\ t.err \cup {"ErrTxRollback"} \in SUBSET Errors
        BY <1>p DEF Errors
      <3>2. \/ DB!Return(r, {"panic"}) \/ DB!Return(r, {"rollback", "ErrTxRollback"})
            \/ DB!Return(r, t.err \cup {"ErrTxRollback"})
        BY <1>12 DEF DB!Rollback, DB!RollbackFails
      <3> HIDE DEF DB!Return
      <3> QED
        BY <3>1, <3>2
    <2>4. server' = [server EXCEPT ![r] = "aborted"] /\ conn' = conn \ {<<r, t.p>>}
          /\ UNCHANGED <<lock, pool, pst>>
      BY <1>12, <2>1 DEF DB!Rollback, DB!RollbackFails
    <2> HIDE DEF DB!Return
    <2> QED
      BY <2>2, <2>3, <2>4, <1>9
  <1>13. CASE DB!RollbackClosed(r)
    <2> DEFINE v == [t EXCEPT !.pc = "done", !.result = {"ErrTxClosed", "ErrTxRollback"}]
    <2>1. t.pc = "deferred" /\ t.p # 0 /\ <<r, t.p>> \notin conn
      BY <1>13, <1>t DEF DB!RollbackClosed, CallOK
    <2>2. t.fn = "nil" /\ server[r] # "open"
      BY <2>1, <1>t, <1>c DEF CallOK
    <2>3. v \in TxRecords(P)
      BY <1>t DEF TxRecords, Errors
    <2>4. tx' = [tx EXCEPT ![r] = v] /\ UNCHANGED <<lock, pool, pst, conn, server>>
      BY <1>13, <1>t DEF DB!RollbackClosed
    <2>5. CallOK(v, server[r])
      BY <2>2, <1>t DEF CallOK, TxRecords
    <2> HIDE DEF v
    <2> QED
      BY <2>2, <2>3, <2>4, <2>5, OnlyCall
  <1>14. CASE DB!Forget(r)
    <2>1. DB!Idle \in TxRecords(P) /\ CallOK(DB!Idle, "none")
      BY DEF DB!Idle, TxRecords, CallOK, Errors
    <2>2. server[r] # "open"
      BY <1>14, <1>t DEF DB!Forget, CallOK
    <2>3. tx' = [tx EXCEPT ![r] = DB!Idle] /\ server' = [server EXCEPT ![r] = "none"]
          /\ UNCHANGED <<lock, pool, pst>> /\ conn' = conn \ {<<r, t.p>>}
      BY <1>14, <1>c, <2>2 DEF DB!Forget
    <2> QED
      BY <2>1, <2>3, OneCall DEF ServerStates
  <1> QED
    BY <1>2, <1>4, <1>5, <1>6, <1>7, <1>8, <1>10, <1>11, <1>12, <1>13, <1>14 DEF DB!Step

-----------------------------------------------------------------------------
(* Run's stack.                                                            *)

\* A component that is started goes on top.
LEMMA StartedUp ==
    ASSUME StackOK, NEW c \in Components, StartTurn(c), Started(c)
    PROVE  /\ StackOK' /\ ~Up(c) /\ UNCHANGED <<order, app>>
           /\ \A d \in Components : Up(d)' <=> Up(d) \/ d = c
           /\ \A k \in 1..Len(up) : up[k] # c
  <1>0. PICK n \in Nat : Len(up) = n
    BY DEF StackOK
  <1>1. n \in 0..2 /\ order[n + 1] = c /\ app = "starting"
    BY <1>0 DEF StackOK, StartTurn
  <1>2. /\ Len(up') = n + 1 /\ up'[n + 1] = c /\ up' \in Seq(Components)
        /\ \A k \in 1..n : up'[k] = up[k]
    BY <1>0 DEF StackOK, Started
  <1>3. \A k \in 1..n : up[k] # c
    BY <1>0, <1>1 DEF StackOK
  <1>4. StackOK'
    BY <1>0, <1>1, <1>2 DEF StackOK, Started
  <1> QED
    BY <1>0, <1>1, <1>2, <1>3, <1>4 DEF Up, Started

\* The component on top that has been stopped is gone.
LEMMA StoppedUp ==
    ASSUME StackOK, NEW c \in Components, StopTurn(c), Stopped
    PROVE  /\ StackOK' /\ ~Up(c)' /\ UNCHANGED <<order, app>>
           /\ \A d \in Components : Up(d)' <=> Up(d) /\ d # c
  <1>a. up \in Seq(Components) /\ (up # <<>> => Len(up) # 0)
    BY DEF StackOK
  <1>0. PICK m \in Nat : Len(up) = m
    BY <1>a
  <1>1. m \in 1..3 /\ up[m] = c /\ app = "stopping"
    BY <1>a, <1>0 DEF StackOK, StopTurn
  <1>2. /\ Len(up') = m - 1 /\ up' \in Seq(Components)
        /\ \A k \in 1..(m - 1) : up'[k] = up[k]
    <2>1. PICK n \in Nat : n = m - 1
      BY <1>1
    <2>2. n <= Len(up) /\ up' = SubSeq(up, 1, n)
      BY <1>0, <1>1, <2>1 DEF Stopped
    <2>3. SubSeq(up, 1, n) \in Seq(Components) /\ Len(SubSeq(up, 1, n)) = n
      BY <1>a, <2>1, <2>2
    <2>4. \A k \in 1..n : SubSeq(up, 1, n)[k] = up[k]
      BY <1>a, <2>1, <2>2
    <2> QED
      BY <2>1, <2>2, <2>3, <2>4
  <1>3. \A k \in 1..(m - 1) : up[k] # c
    BY <1>0, <1>1 DEF StackOK
  <1>4. StackOK'
    BY <1>0, <1>1, <1>2 DEF StackOK, Stopped
  <1>5. \A d : Up(d) <=> \E k \in 1..m : up[k] = d
    BY <1>0 DEF Up
  <1>6. \A d : Up(d)' <=> \E k \in 1..(m - 1) : up[k] = d
    BY <1>2 DEF Up
  <1>7. \A k \in 1..m : k \in 1..(m - 1) \/ k = m
    BY <1>1
  <1>8. \A k \in 1..(m - 1) : k \in 1..m
    BY <1>1
  <1>9. \A d : Up(d)' <=> Up(d) /\ d # c
    BY <1>1, <1>3, <1>5, <1>6, <1>7, <1>8
  <1> QED
    BY <1>4, <1>9 DEF Stopped

\* The component on top is up.
LEMMA TopIsUp ==
    ASSUME StackOK, NEW c, StopTurn(c)
    PROVE  Up(c)
  BY DEF StackOK, StopTurn, Up

\* Below a component that is up, those registered before it are up, and it is
\* not their turn to be stopped.
LEMMA BelowIsUp ==
    ASSUME StackOK, NEW a \in Components, NEW b \in Components, Before(a, b), Up(b)
    PROVE  Up(a) /\ ~StopTurn(a)
  <1>1. PICK i \in 1..3, j \in 1..3 : i < j /\ order[i] = a /\ order[j] = b
    BY DEF Before
  <1>2. PICK k \in 1..Len(up) : up[k] = b
    BY DEF Up
  <1>3. k \in 1..3 /\ order[k] = b
    BY <1>2 DEF StackOK
  <1>4. k = j
    BY <1>1, <1>3 DEF StackOK
  <1>5. i \in 1..Len(up) /\ up[i] = a
    BY <1>1, <1>2, <1>4 DEF StackOK
  <1>6. up[Len(up)] # a
    BY <1>1, <1>2, <1>4, <1>5 DEF StackOK
  <1> QED
    BY <1>5, <1>6 DEF Up, StopTurn

\* Starting, stopping and whose turn it is exclude each other.
LEMMA OneTurn ==
    ASSUME StackOK, NEW c \in Components, StartTurn(c) \/ StopTurn(c)
    PROVE  /\ StartTurn(c) => ~Up(c) /\ \A d \in Components : ~StopTurn(d)
           /\ StopTurn(c) => \A d \in Components : ~StartTurn(d) /\ (StopTurn(d) => d = c)
  <1>1. StartTurn(c) => ~Up(c)
    BY DEF StackOK, StartTurn, Up
  <1> QED
    BY <1>1 DEF StartTurn, StopTurn

\* A step of Run that leaves d alone: d stays where it is, its turn to be stopped
\* does not pass, and a shutdown is not taken back.
Quiet(d) ==
    /\ UNCHANGED order /\ (Up(d)' <=> Up(d)) /\ (StopTurn(d) => StopTurn(d)')
    /\ (app \in {"stopping", "returned"} => app' \in {"stopping", "returned"})

\* Nothing of Run changes, or the phase alone does.
LEMMA PhaseStep ==
    ASSUME StackOK, UNCHANGED <<order, up>>,
           \/ UNCHANGED app
           \/ app = "starting" /\ app' \in {"running", "stopping"}
           \/ app = "running" /\ app' = "stopping"
           \/ app = "stopping" /\ up = <<>> /\ app' = "returned"
    PROVE  StackOK' /\ \A d \in Components : Quiet(d)
  <1>1. StackOK'
    BY DEF StackOK
  <1>2. \A d \in Components : Quiet(d)
    BY DEF StackOK, Quiet, Up, StopTurn
  <1> QED
    BY <1>1, <1>2

\* A component's Start or Stop, whatever comes of it, leaves the others alone.
LEMMA TurnStep ==
    ASSUME StackOK, NEW c \in Components,
           \/ StartTurn(c) /\ (UNCHANGED appvars \/ Started(c) \/ StartFailed)
           \/ StopTurn(c) /\ (UNCHANGED appvars \/ Stopped)
    PROVE  StackOK' /\ \A d \in Components : d # c => Quiet(d)
  <1>1. CASE UNCHANGED appvars \/ (StartTurn(c) /\ StartFailed)
    BY <1>1, PhaseStep DEF appvars, StartFailed, StartTurn
  <1>2. CASE StartTurn(c) /\ Started(c)
    <2>1. /\ StackOK' /\ UNCHANGED <<order, app>>
          /\ \A d \in Components : Up(d)' <=> Up(d) \/ d = c
      BY <1>2, StartedUp
    <2>2. \A d \in Components : ~StopTurn(d)
      BY <1>2, OneTurn
    <2> QED
      BY <2>1, <2>2 DEF Quiet
  <1>3. CASE StopTurn(c) /\ Stopped
    <2>1. /\ StackOK' /\ UNCHANGED <<order, app>>
          /\ \A d \in Components : Up(d)' <=> Up(d) /\ d # c
      BY <1>3, StoppedUp
    <2>2. \A d \in Components : StopTurn(d) => d = c
      BY <1>3, OneTurn
    <2> QED
      BY <2>1, <2>2 DEF Quiet
  <1> QED
    BY <1>1, <1>2, <1>3

-----------------------------------------------------------------------------
(* Each component under the steps of Run and under its own.                *)

\* A step that leaves the database alone keeps its pool in step with Run.
LEMMA PoolStays ==
    ASSUME PoolFollowsApp, Quiet("db"), UNCHANGED <<lock, pool, pst>>
    PROVE  PoolFollowsApp'
  BY DEF PoolFollowsApp, Quiet

\* A step that leaves the server alone keeps it in step with Run.
LEMMA ServerStays ==
    ASSUME ServerFollowsApp, Quiet("server"), UNCHANGED srvvars
    PROVE  ServerFollowsApp'
  BY DEF ServerFollowsApp, Quiet, srvvars, Srv!InFlight

\* A step that leaves the observer alone keeps it in step with Run.
LEMMA ObserverStays ==
    ASSUME ObserverFollowsApp, Quiet("observer"), UNCHANGED obsvars
    PROVE  ObserverFollowsApp'
  BY DEF ObserverFollowsApp, ObserverPhase, Quiet, obsvars

\* Calls of the database that nobody touches stay as they are.
LEMMA DBStays ==
    ASSUME DBInv({1}), UNCHANGED dbvars
    PROVE  DBInv({1})'
  <1>1. DBTypes({1})' /\ ConnsOK({1})'
    BY DEF DBInv, DBTypes, ConnsOK, dbvars
  <1>2. \A r \in Requests : CallOK(tx[r], server[r])'
    BY DEF DBInv, CallOK, dbvars
  <1> QED
    BY <1>1, <1>2 DEF DBInv

\* Records that nobody touches stay where they are.
LEMMA RecordsStay ==
    ASSUME RecordsKept, UNCHANGED <<order, obsvars>>, sstop' # "timeout" => sstop # "timeout"
    PROVE  RecordsKept'
  BY DEF RecordsKept, Before, obsvars

\* Start and Stop of the database take the pool along; no connection outlives it.
LEMMA DBTurn ==
    ASSUME StackOK, DBInv({1}), PoolFollowsApp, DBStarts \/ DBStops
    PROVE  DBInv({1})' /\ PoolFollowsApp'
  <1>0. "db" \in Components
    BY DEF Components
  <1>1. DBTypes({1}) /\ ConnsOK({1}) /\ UNCHANGED <<tx, conn, server>>
    BY DEF DBInv, DBStarts, DBStops, DB!StartBegin, DB!StartConnects, DB!StartFails,
           DB!StopBegin, DB!StopEnds
  <1>2. \A r \in Requests : CallOK(tx[r], server[r])'
    BY <1>1 DEF DBInv, CallOK
  <1>3. DB!Unmade \subseteq {1} /\ DB!Pools = 1..1
    BY DEF DB!Unmade, DB!Pools
  <1>4. CASE DBStarts
    <2>1. StartTurn("db") /\ ~Up("db") /\ ~StopTurn("db")
      BY <1>0, <1>4, OneTurn DEF DBStarts
    <2>2. pool = 0 /\ conn = {} /\ lock # "stop" /\ pst[1] \in {"none", "closed"}
      BY <1>1, <2>1 DEF PoolFollowsApp, DBTypes, ConnsOK
    <2>3. CASE DB!StartBegin /\ UNCHANGED appvars
      <3>1. Quiet("db")
        BY <1>0, <2>3, PhaseStep DEF appvars
      <3>2. DBTypes({1})' /\ ConnsOK({1})'
        BY <1>1, <2>3 DEF DBTypes, ConnsOK, DB!StartBegin
      <3>3. PoolFollowsApp'
        BY <2>2, <2>3, <3>1 DEF PoolFollowsApp, Quiet, DB!StartBegin
      <3> QED
        BY <3>2, <3>3, <1>2 DEF DBInv
    <2>4. CASE DB!StartConnects /\ Started("db")
      <3>1. Up("db")'
        BY <1>0, <2>1, <2>4, StartedUp
      <3>2. pool' = 1 /\ pst' = [pst EXCEPT ![1] = "open"] /\ lock' = "free"
        BY <1>3, <2>4 DEF DB!StartConnects
      <3>3. pst'[1] = "open" /\ DBTypes({1})'
        BY <1>1, <3>2 DEF DBTypes
      <3>4. ConnsOK({1})' /\ PoolFollowsApp'
        BY <1>1, <2>2, <3>1, <3>2, <3>3 DEF ConnsOK, PoolFollowsApp
      <3> QED
        BY <3>3, <3>4, <1>2 DEF DBInv
    <2>5. CASE DB!StartFails /\ StartFailed
      <3>1. Quiet("db")
        BY <1>0, <2>1, <2>5, PhaseStep DEF StartFailed, StartTurn
      <3>2. pool' = 0 /\ pst' = [pst EXCEPT ![1] = "closed"] /\ lock' = "free"
        BY <1>3, <2>2, <2>5 DEF DB!StartFails
      <3>3. pst'[1] = "closed" /\ DBTypes({1})'
        BY <1>1, <3>2 DEF DBTypes
      <3>4. ConnsOK({1})' /\ PoolFollowsApp'
        BY <1>1, <2>1, <2>2, <3>1, <3>2, <3>3 DEF ConnsOK, PoolFollowsApp, Quiet
      <3> QED
        BY <3>3, <3>4, <1>2 DEF DBInv
    <2> QED
      BY <1>4, <2>3, <2>4, <2>5 DEF DBStarts
  <1>5. CASE DBStops
    <2>1. StopTurn("db") /\ Up("db")
      BY <1>5, <1>0, TopIsUp DEF DBStops
    <2>2. pool = 1 /\ pst[1] \in {"open", "closing"}
      BY <2>1 DEF PoolFollowsApp
    <2>3. CASE DB!StopBegin /\ UNCHANGED appvars
      <3>1. Up("db")' /\ StopTurn("db")'
        BY <1>0, <2>1, <2>3, PhaseStep DEF appvars, Quiet
      <3>2. pool' = 1 /\ pst' = [pst EXCEPT ![1] = "closing"] /\ lock' = "stop"
        BY <2>2, <2>3 DEF DB!StopBegin
      <3>3. pst'[1] = "closing" /\ DBTypes({1})'
        BY <1>1, <3>2 DEF DBTypes
      <3>4. ConnsOK({1})' /\ PoolFollowsApp'
        BY <1>1, <3>1, <3>2, <3>3 DEF ConnsOK, PoolFollowsApp
      <3> QED
        BY <3>3, <3>4, <1>2 DEF DBInv
    <2>4. CASE DB!StopEnds /\ Stopped
      <3>1. ~Up("db")'
        BY <1>0, <2>1, <2>4, StoppedUp
      <3>2. pool' = 0 /\ pst' = [pst EXCEPT ![1] = "closed"] /\ lock' = "free"
        BY <2>2, <2>4 DEF DB!StopEnds
      <3>3. pst'[1] = "closed" /\ DBTypes({1})'
        BY <1>1, <3>2 DEF DBTypes
      <3>4. conn = {}
        BY <1>1, <2>2, <2>4 DEF DB!StopEnds, DB!Held, DBTypes
      <3>5. ConnsOK({1})' /\ PoolFollowsApp'
        BY <1>1, <3>1, <3>2, <3>3, <3>4 DEF ConnsOK, PoolFollowsApp
      <3> QED
        BY <3>3, <3>5, <1>2 DEF DBInv
    <2> QED
      BY <1>5, <2>3, <2>4 DEF DBStops
  <1> QED
    BY <1>4, <1>5

\* Requests are accepted by a server that is up, and a drained one has none.
LEMMA ServerStep ==
    ASSUME StackOK, ServerFollowsApp,
           \/ ServerStarts \/ ServerStops \/ Serve
           \/ \E r \in Requests : Accept(r) \/ HandlerEnds(r) \/ Respond(r)
    PROVE  ServerFollowsApp' /\ (sstop' # "timeout" => sstop # "timeout")
  <1>0. "server" \in Components
    BY DEF Components
  <1>1. CASE ServerStarts
    <2>1. CASE Srv!StartListens /\ Started("server")
      <3>1. Up("server")' /\ ~StopTurn("server")
        BY <1>0, <1>1, <2>1, StartedUp, OneTurn DEF ServerStarts
      <3> QED
        BY <3>1, <2>1 DEF ServerFollowsApp, Srv!StartListens, Srv!InFlight
    <2>2. CASE Srv!StartFails /\ StartFailed
      <3>1. Quiet("server")
        BY <1>0, <1>1, <2>2, PhaseStep DEF ServerStarts, StartFailed, StartTurn
      <3> QED
        BY <3>1, <2>2, ServerStays DEF Srv!StartFails, Srv!vars, srvvars
    <2> QED
      BY <1>1, <2>1, <2>2 DEF ServerStarts
  <1>2. CASE ServerStops
    <2>1. CASE Srv!StopBegin /\ UNCHANGED appvars
      <3>1. StopTurn("server")'
        BY <1>2, <2>1 DEF ServerStops, StopTurn, appvars
      <3> QED
        BY <3>1, <2>1 DEF ServerFollowsApp, Srv!StopBegin, Srv!InFlight
    <2>2. CASE (Srv!StopDrained \/ Srv!StopTimesOut) /\ Stopped
      BY <2>2 DEF ServerFollowsApp, Srv!StopDrained, Srv!StopTimesOut, Srv!InFlight
    <2> QED
      BY <1>2, <2>1, <2>2 DEF ServerStops
  <1>3. CASE Serve \/ \E r \in Requests : Accept(r) \/ HandlerEnds(r) \/ Respond(r)
    <2>1. UNCHANGED appvars /\ UNCHANGED sstop
      BY <1>3 DEF Serve, Accept, HandlerEnds, Respond, Srv!Serve, Srv!Accept,
                  Srv!HandlerEnds, Srv!Respond
    <2>2. (Up("server")' <=> Up("server")) /\ (StopTurn("server") => StopTurn("server")')
      BY <1>0, <2>1, PhaseStep DEF appvars, Quiet
    <2>3. CASE Serve
      BY <2>2, <2>3 DEF ServerFollowsApp, Serve, Srv!Serve, Srv!InFlight
    <2>4. CASE \E r \in Requests : Accept(r)
      BY <2>2, <2>4 DEF ServerFollowsApp, Accept, Srv!Accept, Srv!InFlight
    <2>5. ASSUME NEW r \in Requests, HandlerEnds(r) \/ Respond(r)
          PROVE  ServerFollowsApp'
      <3>1. PICK x \in {"logging", "done"} : req' = [req EXCEPT ![r] = x]
        BY <2>5 DEF HandlerEnds, Respond, Srv!HandlerEnds, Srv!Respond
      <3>2. r \in Srv!InFlight /\ UNCHANGED http
        BY <2>5 DEF HandlerEnds, Respond, Srv!HandlerEnds, Srv!Respond, Srv!InFlight
      <3>3. req' \in [Requests -> {"none", "handling", "logging", "done"}]
        BY <3>1 DEF ServerFollowsApp
      <3> QED
        BY <2>1, <2>2, <3>2, <3>3 DEF ServerFollowsApp
    <2> QED
      BY <1>3, <2>1, <2>3, <2>4, <2>5
  <1> QED
    BY <1>1, <1>2, <1>3

\* What is left of the providers that the observer owns, one after the other.
LEMMA OwnedInOrder ==
    /\ Head(<<"tp", "mp", "lp">>) = "tp" /\ Tail(<<"tp", "mp", "lp">>) = <<"mp", "lp">>
    /\ Head(<<"mp", "lp">>) = "mp" /\ Tail(<<"mp", "lp">>) = <<"lp">>
    /\ Head(<<"lp">>) = "lp" /\ Tail(<<"lp">>) = <<>>
    /\ <<"mp", "lp">> # <<>> /\ <<"lp">> # <<>>
  <1>1. Tail(<<"tp", "mp", "lp">>) = <<"mp", "lp">>
    OBVIOUS
  <1>2. Tail(<<"mp", "lp">>) = <<"lp">>
    OBVIOUS
  <1>3. Tail(<<"lp">>) = <<>>
    OBVIOUS
  <1>4. Head(<<"tp", "mp", "lp">>) = "tp" /\ Head(<<"mp", "lp">>) = "mp" /\ Head(<<"lp">>) = "lp"
    OBVIOUS
  <1>5. <<"mp", "lp">> # <<>> /\ <<"lp">> # <<>>
    OBVIOUS
  <1> QED
    BY <1>1, <1>2, <1>3, <1>4, <1>5

\* Start and Stop of the observer go through its phases in order.
LEMMA ObserverTurn ==
    ASSUME StackOK, ObserverFollowsApp, ObserverStarts \/ ObserverStops
    PROVE  ObserverFollowsApp'
  <1>0. "observer" \in Components
    BY DEF Components
  <1>1. CASE ObserverStarts
    <2>1. Up("observer")' /\ app = "starting"
      BY <1>0, <1>1, StartedUp DEF ObserverStarts, StartTurn
    <2>2. down = {} /\ ~started
      BY <1>1, <2>1 DEF ObserverFollowsApp, ObserverStarts, Obs!Start
    <2>3. ostop = <<>>
      BY <2>2 DEF ObserverFollowsApp, ObserverPhase
    <2> QED
      BY <1>1, <2>1, <2>2, <2>3
         DEF ObserverFollowsApp, ObserverPhase, ObserverStarts, Obs!Start
  <1>2. CASE ObserverStops
    <2>0. StopTurn("observer") /\ app = "stopping" /\ Up("observer") /\ started
      BY <1>0, <1>2, TopIsUp DEF ObserverStops, StopTurn, ObserverFollowsApp
    <2>1. CASE Obs!StopBegin /\ UNCHANGED appvars
      <3>1. Up("observer")' /\ StopTurn("observer")' /\ app' = "stopping"
        BY <2>0, <2>1 DEF appvars, Up, StopTurn
      <3>2. started' /\ target' = "base" /\ ostop' = <<"tp", "mp", "lp">> /\ down' = {}
            /\ UNCHANGED <<started, rec, begun>>
        BY <2>0, <2>1 DEF Obs!StopBegin, Obs!Owned
      <3> QED
        BY <2>0, <3>1, <3>2 DEF ObserverFollowsApp, ObserverPhase
    <2>2. CASE Obs!ShutdownProvider /\ IF started' THEN UNCHANGED appvars ELSE Stopped
      <3>1. /\ ostop # <<>> /\ target = "base" /\ UNCHANGED <<target, rec, begun>> /\ begun
            /\ ostop' = Tail(ostop) /\ down' = down \cup {Head(ostop)}
            /\ started' = (ostop' # <<>>)
        BY <2>0, <2>2 DEF ObserverFollowsApp, ObserverPhase, Obs!ShutdownProvider
      <3>2. started' \in BOOLEAN
        BY <3>1
      <3>3. \/ ostop = <<"tp", "mp", "lp">> /\ down = {}
            \/ ostop = <<"mp", "lp">> /\ down = {"tp"}
            \/ ostop = <<"lp">> /\ down = {"tp", "mp"}
        BY <2>0, <3>1 DEF ObserverFollowsApp, ObserverPhase
      <3>4. \/ started' /\ ostop' = <<"mp", "lp">> /\ down' = {"tp"}
            \/ started' /\ ostop' = <<"lp">> /\ down' = {"tp", "mp"}
            \/ ~started' /\ ostop' = <<>> /\ down' = AllProviders
        BY <3>1, <3>3, OwnedInOrder DEF AllProviders
      <3>5. CASE started'
        <4>1. Up("observer")' /\ StopTurn("observer")' /\ app' = "stopping"
          BY <2>0, <2>2, <3>5 DEF appvars, Up, StopTurn
        <4> QED
          BY <3>1, <3>2, <3>4, <3>5, <4>1 DEF ObserverFollowsApp, ObserverPhase
      <3>6. CASE ~started'
        <4>1. ~Up("observer")' /\ app' = "stopping"
          BY <1>0, <2>0, <2>2, <3>6, StoppedUp
        <4> QED
          BY <3>1, <3>2, <3>4, <3>6, <4>1 DEF ObserverFollowsApp, ObserverPhase
      <3> QED
        BY <3>5, <3>6
    <2> QED
      BY <1>2, <2>1, <2>2 DEF ObserverStops
  <1> QED
    BY <1>1, <1>2

\* Logging and exporting leave the observer's phase alone.
LEMMA LogTypes ==
    ASSUME ObserverFollowsApp, Quiet("observer"),
           Obs!ExportBatch \/ \E r \in Requests : Obs!LogStep(r)
    PROVE  ObserverFollowsApp'
  <1>1. UNCHANGED <<started, target, ostop, down, begun>>
    BY DEF Obs!ExportBatch, Obs!LogStep, Obs!LoadHandler, Obs!HandleBase, Obs!HandleOTel
  <1>2. target \in {"base", "combined"}
    BY DEF ObserverFollowsApp, ObserverPhase
  <1>3. rec' \in [Requests -> {"none", "base", "combined", "otel", "written", "failed"}]
    BY <1>2 DEF ObserverFollowsApp, Obs!ExportBatch, Obs!LogStep, Obs!LoadHandler,
                Obs!HandleBase, Obs!HandleOTel
  <1> QED
    BY <1>1, <1>3 DEF ObserverFollowsApp, ObserverPhase, Quiet

\* While a server that has not given up has requests in flight, it is up.
LEMMA InFlightUp ==
    ASSUME StackOK, ServerFollowsApp, Srv!InFlight # {}, sstop # "timeout"
    PROVE  Up("server")
  <1>1. sstop = "waiting" => Up("server")
    BY TopIsUp DEF ServerFollowsApp
  <1> QED
    BY <1>1 DEF ServerFollowsApp

\* No record is left behind: the provider takes it while open, and offers its
\* batch to the collector when it is shut down, or fails.
LEMMA RecordsStep ==
    ASSUME StackOK, ServerFollowsApp, ObserverFollowsApp, RecordsKept,
           UNCHANGED <<order, sstop>>,
           \/ ObserverStarts \/ ObserverStops \/ Export \/ \E r \in Requests : Log(r)
    PROVE  RecordsKept'
  <1> SUFFICES ASSUME Before("observer", "server")', sstop' # "timeout"
               PROVE  /\ queued' # {} => started' /\ "lp" \notin down'
                      /\ \A r \in Requests :
                            /\ rec'[r] # "base"
                            /\ rec'[r] = "written" =>
                                  r \in queued' \cup exported' \cup refused' \/ "lp" \in oerrs'
    BY DEF RecordsKept
  <1>0. Before("observer", "server") /\ sstop # "timeout"
    BY DEF Before
  <1>a. /\ queued # {} => started /\ "lp" \notin down
        /\ \A r \in Requests :
              /\ rec[r] # "base"
              /\ rec[r] = "written" => r \in queued \cup exported \cup refused \/ "lp" \in oerrs
    BY <1>0 DEF RecordsKept
  <1>1. CASE ObserverStarts
    BY <1>1, <1>a DEF ObserverStarts, Obs!Start
  <1>2. CASE ObserverStops
    <2>1. CASE Obs!StopBegin
      BY <2>1, <1>a DEF Obs!StopBegin
    <2>2. CASE Obs!ShutdownProvider /\ Head(ostop) = "lp"
      BY <2>2, <1>a DEF Obs!ShutdownProvider
    <2>3. CASE Obs!ShutdownProvider /\ Head(ostop) # "lp"
      <3>1. /\ UNCHANGED <<queued, exported, refused, rec>> /\ oerrs \subseteq oerrs'
            /\ ostop # <<>> /\ down' = down \cup {Head(ostop)}
            /\ started' = (Tail(ostop) # <<>>)
        BY <2>3 DEF Obs!ShutdownProvider
      <3>2. ostop = <<"tp", "mp", "lp">> \/ ostop = <<"mp", "lp">>
        BY <2>3, <3>1 DEF ObserverFollowsApp, ObserverPhase
      <3>3. Tail(ostop) # <<>>
        BY <3>2, OwnedInOrder
      <3>4. started' = TRUE
        BY <3>1, <3>3
      <3> QED
        BY <2>3, <3>1, <3>4, <1>a
    <2> QED
      BY <1>2, <2>1, <2>2, <2>3 DEF ObserverStops
  <1>3. CASE Export
    BY <1>3, <1>a DEF Export, Obs!ExportBatch
  <1>4. ASSUME NEW r \in Requests, Log(r)
        PROVE  /\ queued' # {} => started' /\ "lp" \notin down'
               /\ \A q \in Requests :
                     /\ rec'[q] # "base"
                     /\ rec'[q] = "written" =>
                           q \in queued' \cup exported' \cup refused' \/ "lp" \in oerrs'
    <2>1. Srv!InFlight # {}
      BY <1>4 DEF Log, Srv!InFlight
    <2>2. Up("observer") /\ ~StopTurn("observer")
      BY <1>0, <2>1, InFlightUp, BelowIsUp DEF Components
    <2>3. started /\ ostop = <<>>
      BY <2>2 DEF ObserverFollowsApp
    <2>4. target = "combined" /\ down = {}
      BY <2>3 DEF ObserverFollowsApp, ObserverPhase
    <2>5. rec \in [Requests -> {"none", "base", "combined", "otel", "written", "failed"}]
      BY DEF ObserverFollowsApp
    <2>6. CASE Obs!LoadHandler(r)
      BY <2>4, <2>5, <2>6, <1>a DEF Obs!LoadHandler
    <2>7. CASE Obs!HandleBase(r)
      BY <2>5, <2>7, <1>a DEF Obs!HandleBase
    <2>8. CASE Obs!HandleOTel(r)
      BY <2>3, <2>4, <2>5, <2>8, <1>a DEF Obs!HandleOTel
    <2> QED
      BY <1>4, <2>6, <2>7, <2>8 DEF Log, Obs!LogStep
  <1> QED
    BY <1>1, <1>2, <1>3, <1>4

-----------------------------------------------------------------------------
(* The invariant and what follows from it.                                 *)

\* The invariant holds at first.
LEMMA InitInv == Init => IndInv
  <1> SUFFICES ASSUME Init PROVE IndInv
    OBVIOUS
  <1>0. /\ up = <<>> /\ app = "starting"
        /\ order \in [1..3 -> Components] /\ \A i, j \in 1..3 : i # j => order[i] # order[j]
    BY DEF Init
  <1>1. StackOK /\ \A c : ~Up(c) /\ ~StopTurn(c)
    BY <1>0 DEF StackOK, Up, StopTurn
  <1>2. DBTypes({1}) /\ ConnsOK({1})
    <2>1. DB!Idle \in TxRecords({1})
      BY DEF DB!Idle, TxRecords, Errors
    <2> QED
      BY <2>1 DEF Init, DB!Init, DB!Pools, DBTypes, ConnsOK, ServerStates
  <1>3. \A r \in Requests : CallOK(tx[r], server[r])
    BY DEF Init, DB!Init, CallOK, DB!Idle
  <1>4. PoolFollowsApp
    BY <1>1 DEF Init, DB!Init, DB!Pools, PoolFollowsApp
  <1>5. ServerFollowsApp
    BY <1>1 DEF Init, Srv!Init, ServerFollowsApp, Srv!InFlight
  <1>6. ObserverFollowsApp
    BY <1>1 DEF Init, Obs!Init, ObserverFollowsApp, ObserverPhase
  <1>7. RecordsKept
    BY DEF Init, Obs!Init, RecordsKept
  <1> QED
    BY <1>1, <1>2, <1>3, <1>4, <1>5, <1>6, <1>7 DEF IndInv, DBInv

\* Every step of Run, of the server's goroutine, of a request or of the exporter
\* keeps the invariant.
LEMMA StepInv == IndInv /\ [Next]_vars => IndInv'
  <1> SUFFICES ASSUME IndInv, [Next]_vars PROVE IndInv'
    OBVIOUS
  <1> USE DEF IndInv
  <1>c. "server" \in Components /\ "db" \in Components /\ "observer" \in Components
    BY DEF Components
  <1>1. ASSUME UNCHANGED <<dbvars, srvvars, obsvars>>, StackOK',
               \A d \in Components : Quiet(d)
        PROVE  IndInv'
    BY <1>1, <1>c, DBStays, PoolStays, ServerStays, ObserverStays, RecordsStay
       DEF dbvars, srvvars, Quiet
  <1>2. CASE AllStarted \/ Cancel \/ Return \/ UNCHANGED vars
    <2>1. StackOK' /\ \A d \in Components : Quiet(d)
      BY <1>2, PhaseStep DEF AllStarted, Cancel, Return, vars, appvars
    <2>2. UNCHANGED <<dbvars, srvvars, obsvars>>
      BY <1>2 DEF AllStarted, Cancel, Return, vars
    <2> QED
      BY <1>1, <2>1, <2>2
  <1>3. CASE DBStarts \/ DBStops
    <2>1. StackOK' /\ \A d \in Components : d # "db" => Quiet(d)
      BY <1>3, <1>c, TurnStep DEF DBStarts, DBStops
    <2>2. DBInv({1})' /\ PoolFollowsApp'
      BY <1>3, DBTurn
    <2>3. UNCHANGED <<srvvars, obsvars>>
      BY <1>3 DEF DBStarts, DBStops
    <2> QED
      BY <1>c, <2>1, <2>2, <2>3, ServerStays, ObserverStays, RecordsStay DEF Quiet, srvvars
  <1>4. CASE ServerStarts \/ ServerStops
    <2>1. StackOK' /\ \A d \in Components : d # "server" => Quiet(d)
      BY <1>4, <1>c, TurnStep DEF ServerStarts, ServerStops
    <2>2. ServerFollowsApp' /\ (sstop' # "timeout" => sstop # "timeout")
      BY <1>4, ServerStep
    <2>3. UNCHANGED <<dbvars, obsvars>>
      BY <1>4 DEF ServerStarts, ServerStops
    <2> QED
      BY <1>c, <2>1, <2>2, <2>3, DBStays, PoolStays, ObserverStays, RecordsStay
         DEF Quiet, dbvars
  <1>5. CASE ObserverStarts \/ ObserverStops
    <2>1. StackOK' /\ \A d \in Components : d # "observer" => Quiet(d)
      BY <1>5, <1>c, TurnStep DEF ObserverStarts, ObserverStops
    <2>2. UNCHANGED <<dbvars, srvvars>>
      BY <1>5 DEF ObserverStarts, ObserverStops
    <2>3. ObserverFollowsApp'
      BY <1>5, ObserverTurn
    <2>4. RecordsKept'
      BY <1>5, <1>c, <2>1, <2>2, RecordsStep DEF Quiet, srvvars
    <2> QED
      BY <1>c, <2>1, <2>2, <2>3, <2>4, DBStays, PoolStays, ServerStays DEF dbvars
  <1>6. ASSUME UNCHANGED appvars
        PROVE  StackOK' /\ (\A d \in Components : Quiet(d)) /\ UNCHANGED order
    BY <1>6, PhaseStep DEF appvars
  <1>7. CASE Serve \/ \E r \in Requests : Accept(r) \/ Respond(r)
    <2>1. UNCHANGED appvars /\ UNCHANGED <<dbvars, obsvars>>
      BY <1>7 DEF Serve, Accept, Respond
    <2>2. ServerFollowsApp' /\ (sstop' # "timeout" => sstop # "timeout")
      BY <1>7, ServerStep
    <2> QED
      BY <1>c, <1>6, <2>1, <2>2, DBStays, PoolStays, ObserverStays, RecordsStay DEF dbvars
  <1>8. ASSUME NEW r \in Requests, Handle(r) \/ HandlerEnds(r)
        PROVE  IndInv'
    <2>1. UNCHANGED appvars /\ UNCHANGED obsvars /\ UNCHANGED <<lock, pool, pst>>
      BY <1>8 DEF Handle, HandlerEnds, DB!WithTx, DB!PingCopy, DB!Step, DB!Forget, DB!dbvars,
                  DB!CopyPool, DB!BeginTx, DB!BeginFails, DB!PingPool, DB!FnCallsDB,
                  DB!FnGetsMutex, DB!FnReturns, DB!CommitSucceeds, DB!CommitFails,
                  DB!Rollback, DB!RollbackFails, DB!RollbackClosed
    <2>2. DBInv({1})'
      BY <1>8, DBCalls DEF Handle, HandlerEnds
    <2>3. ServerFollowsApp' /\ (sstop' # "timeout" => sstop # "timeout")
      <3>1. CASE HandlerEnds(r)
        BY <3>1, ServerStep
      <3>2. CASE Handle(r)
        BY <1>c, <1>6, <2>1, <3>2, ServerStays DEF Handle, srvvars
      <3> QED
        BY <1>8, <3>1, <3>2
    <2> QED
      BY <1>c, <1>6, <2>1, <2>2, <2>3, PoolStays, ObserverStays, RecordsStay
  <1>9. CASE Export \/ \E r \in Requests : Log(r)
    <2>1. UNCHANGED appvars /\ UNCHANGED <<dbvars, srvvars>>
      BY <1>9 DEF Export, Log
    <2>2. ObserverFollowsApp'
      BY <1>c, <1>6, <1>9, <2>1, LogTypes DEF Export, Log
    <2>3. RecordsKept'
      BY <1>6, <1>9, <2>1, RecordsStep DEF srvvars
    <2> QED
      BY <1>c, <1>6, <2>1, <2>2, <2>3, DBStays, PoolStays, ServerStays DEF dbvars
  <1> QED
    BY <1>2, <1>3, <1>4, <1>5, <1>7, <1>8, <1>9 DEF Next, Run, Request

\* The invariant holds in every state of the service.
THEOREM Invariance == Spec => []IndInv
  BY InitInv, StepInv, PTL DEF Spec

\* Whatever fails, panics or is cut off by a shutdown, a call of WithTx that has
\* returned holds no connection and leaves no transaction open, and a closed
\* pool has all its connections back.
THEOREM TxNeverDangles == Spec => []NoDanglingTx
  <1>1. IndInv => NoDanglingTx
    <2> SUFFICES ASSUME IndInv PROVE NoDanglingTx
      OBVIOUS
    <2>1. ASSUME NEW r \in Requests, tx[r].pc = "done"
          PROVE  DB!Conn(r) \notin conn /\ server[r] # "open"
      <3>1. server[r] # "open"
        BY <2>1 DEF IndInv, DBInv, CallOK
      <3>2. <<r, 1>> \notin conn
        BY <3>1 DEF IndInv, DBInv, ConnsOK
      <3>3. \A x \in conn : x[2] = 1 /\ x = <<x[1], x[2]>>
        BY DEF IndInv, DBInv, DBTypes
      <3> QED
        BY <3>1, <3>2, <3>3 DEF DB!Conn
    <2>2. ASSUME NEW g \in DB!Pools, pst[g] = "closed" PROVE DB!Held(g) = {}
      <3>1. g = 1
        BY DEF DB!Pools
      <3>2. conn = {}
        BY <2>2, <3>1 DEF IndInv, DBInv, DBTypes, ConnsOK
      <3> QED
        BY <3>2 DEF DB!Held
    <2> QED
      BY <2>1, <2>2 DEF NoDanglingTx, DB!NoDanglingTx
  <1> QED
    BY <1>1, Invariance, PTL

\* What WithTx returns is what the server did: nil only for a commit, and no
\* commit of a function that failed or panicked.
THEOREM ResultTrue == Spec => []ResultMatchesServer
  <1>1. IndInv => ResultMatchesServer
    BY DEF IndInv, DBInv, DBTypes, TxRecords, CallOK, ResultMatchesServer,
           DB!ResultMatchesServer
  <1> QED
    BY <1>1, Invariance, PTL

\* With the database registered before the server, a request in flight finds its
\* pool open, unless Stop of the server gave up waiting.
THEOREM PoolOutlivesRequests == Spec => []DrainedBeforeClose
  <1>1. IndInv => DrainedBeforeClose
    <2> SUFFICES ASSUME IndInv, Before("db", "server"), sstop # "timeout", Srv!InFlight # {}
                 PROVE  pst[1] = "open"
      BY DEF DrainedBeforeClose
    <2>1. Up("db") /\ ~StopTurn("db")
      BY InFlightUp, BelowIsUp DEF IndInv, Components
    <2> QED
      BY <2>1 DEF IndInv, PoolFollowsApp
  <1> QED
    BY <1>1, Invariance, PTL

\* When Run has returned, an observer that was started has shut down all it owns,
\* and the records of the requests that were served have been offered to the
\* collector.
THEOREM TelemetryFlushed == Spec => []TelemetryComplete
  <1>1. IndInv => TelemetryComplete
    <2> SUFFICES ASSUME IndInv, app = "returned"
                 PROVE  /\ target = "base" /\ ~started
                        /\ down = IF begun THEN {"tp", "mp", "lp"} ELSE {}
                        /\ Before("observer", "server") /\ sstop # "timeout" /\ "lp" \notin oerrs =>
                              \A r \in Requests :
                                  req[r] = "done" /\ rec[r] = "written" =>
                                      r \in exported \cup refused
      BY DEF TelemetryComplete
    <2>1. ~Up("observer")
      BY DEF IndInv, StackOK, Up
    <2>2. ~started
      BY <2>1 DEF IndInv, ObserverFollowsApp
    <2>3. target = "base" /\ down = IF begun THEN {"tp", "mp", "lp"} ELSE {}
      BY <2>2 DEF IndInv, ObserverFollowsApp, ObserverPhase, AllProviders
    <2>4. ASSUME Before("observer", "server"), sstop # "timeout", "lp" \notin oerrs,
                 NEW r \in Requests, rec[r] = "written"
          PROVE  r \in exported \cup refused
      BY <2>2, <2>4 DEF IndInv, RecordsKept
    <2> QED
      BY <2>2, <2>3, <2>4
  <1> QED
    BY <1>1, Invariance, PTL

-----------------------------------------------------------------------------
(* The database by itself.                                                 *)

\* db.mu and db.pool agree with the state of the pools: every pool but db.pool
\* is closed or not made yet.
PoolFollowsLock ==
    /\ lock = "start" => pool = 0
    /\ lock = "stop" => pool # 0
    /\ pool # 0 => pst[pool] = IF lock = "stop" THEN "closing" ELSE "open"
    /\ \A g \in Alone!Pools : g # pool => pst[g] \in {"none", "closed"}

\* Calls hold connections of db.pool only, so that the limit of one pool is the
\* limit of all.
WithinLimit == IsFiniteSet(conn) /\ Cardinality(conn) <= MaxConns

AloneInv == DBInv(Alone!Pools) /\ PoolFollowsLock /\ WithinLimit

\* An instance counts what any other counts.
LEMMA SameCount ==
    ASSUME NEW S
    PROVE  Alone!Cardinality(S) = Cardinality(S) /\ DB!Cardinality(S) = Cardinality(S)
  BY DEF Alone!Cardinality, DB!Cardinality, Cardinality

\* The steps of a call do not depend on how many pools there may be.
LEMMA SameCalls ==
    ASSUME NEW r \in Requests
    PROVE  /\ Alone!WithTx(r) <=> DB!WithTx(r)
           /\ Alone!PingCopy(r) <=> DB!PingCopy(r)
           /\ Alone!Step(r) <=> DB!Step(r)
           /\ Alone!Forget(r) <=> DB!Forget(r)
  <1> USE DEF Alone!Set, Alone!Return, Alone!Conn, Alone!dbvars,
              DB!Set, DB!Return, DB!Conn, DB!dbvars
  <1>1. Alone!WithTx(r) <=> DB!WithTx(r)
    BY DEF Alone!WithTx, DB!WithTx
  <1>2. Alone!PingCopy(r) <=> DB!PingCopy(r)
    BY DEF Alone!PingCopy, DB!PingCopy
  <1>3. Alone!Forget(r) <=> DB!Forget(r)
    BY DEF Alone!Forget, DB!Forget, Alone!Idle, DB!Idle
  <1>0. Alone!Cardinality(Alone!Held(tx[r].p)) = DB!Cardinality(DB!Held(tx[r].p))
    <2>1. Alone!Held(tx[r].p) = DB!Held(tx[r].p)
      BY DEF Alone!Held, DB!Held
    <2> QED
      BY <2>1, SameCount
  <1>4. /\ Alone!CopyPool(r) <=> DB!CopyPool(r)
        /\ Alone!BeginTx(r) <=> DB!BeginTx(r)
        /\ Alone!BeginFails(r) <=> DB!BeginFails(r)
        /\ Alone!PingPool(r) <=> DB!PingPool(r)
    BY <1>0 DEF Alone!CopyPool, DB!CopyPool, Alone!BeginTx, DB!BeginTx, Alone!BeginFails,
           DB!BeginFails, Alone!PingPool, DB!PingPool
  <1>5. /\ Alone!FnCallsDB(r) <=> DB!FnCallsDB(r)
        /\ Alone!FnGetsMutex(r) <=> DB!FnGetsMutex(r)
        /\ Alone!FnReturns(r) <=> DB!FnReturns(r)
    BY DEF Alone!FnCallsDB, DB!FnCallsDB, Alone!FnGetsMutex, DB!FnGetsMutex,
           Alone!FnReturns, DB!FnReturns
  <1>6. /\ Alone!CommitSucceeds(r) <=> DB!CommitSucceeds(r)
        /\ Alone!CommitFails(r) <=> DB!CommitFails(r)
    BY DEF Alone!CommitSucceeds, DB!CommitSucceeds, Alone!CommitFails, DB!CommitFails
  <1>7. /\ Alone!Rollback(r) <=> DB!Rollback(r)
        /\ Alone!RollbackFails(r) <=> DB!RollbackFails(r)
        /\ Alone!RollbackClosed(r) <=> DB!RollbackClosed(r)
    BY DEF Alone!Rollback, DB!Rollback, Alone!RollbackFails, DB!RollbackFails,
           Alone!RollbackClosed, DB!RollbackClosed
  <1>8. Alone!Step(r) <=> DB!Step(r)
    BY <1>4, <1>5, <1>6, <1>7 DEF Alone!Step, DB!Step
  <1> QED
    BY <1>1, <1>2, <1>3, <1>8

\* The step of a call leaves db.mu and the pools alone; only BeginTx takes a
\* connection, and one that db.pool has to spare.
LEMMA CallTakesOne ==
    ASSUME NEW r \in Requests,
           DB!WithTx(r) \/ DB!PingCopy(r) \/ DB!Step(r) \/ DB!Forget(r)
    PROVE  /\ UNCHANGED <<lock, pool, pst>>
           /\ \/ conn' \in {conn, conn \ {DB!Conn(r)}}
              \/ /\ tx[r].pc = "begin" /\ pst[tx[r].p] = "open"
                 /\ Cardinality(DB!Held(tx[r].p)) < MaxConns
                 /\ conn' = conn \cup {DB!Conn(r)}
  <1> USE DEF DB!dbvars
  <1>1. CASE DB!BeginTx(r)
    BY <1>1, SameCount DEF DB!BeginTx
  <1>2. CASE DB!WithTx(r) \/ DB!PingCopy(r) \/ DB!Forget(r)
    BY <1>2 DEF DB!WithTx, DB!PingCopy, DB!Forget
  <1>3. CASE DB!CopyPool(r) \/ DB!BeginFails(r) \/ DB!PingPool(r) \/ DB!FnCallsDB(r)
             \/ DB!FnGetsMutex(r) \/ DB!FnReturns(r) \/ DB!RollbackClosed(r)
    BY <1>3 DEF DB!CopyPool, DB!BeginFails, DB!PingPool, DB!FnCallsDB, DB!FnGetsMutex,
                DB!FnReturns, DB!RollbackClosed
  <1>4. CASE DB!CommitSucceeds(r) \/ DB!CommitFails(r) \/ DB!Rollback(r) \/ DB!RollbackFails(r)
    BY <1>4 DEF DB!CommitSucceeds, DB!CommitFails, DB!Rollback, DB!RollbackFails
  <1> QED
    BY <1>1, <1>2, <1>3, <1>4 DEF DB!Step

\* The connections in use are of db.pool.
LEMMA AllOfPool ==
    ASSUME DBInv(Alone!Pools), PoolFollowsLock
    PROVE  \A x \in conn : x[2] = pool /\ pool # 0
  <1>1. ASSUME NEW x \in conn PROVE x[2] = pool
    <2>1. x[2] \in Alone!Pools /\ pst[x[2]] \in {"open", "closing"}
      BY DEF DBInv, DBTypes, ConnsOK
    <2> QED
      BY <2>1 DEF PoolFollowsLock
  <1>2. \A x \in conn : x[2] \in Alone!Pools
    BY DEF DBInv, DBTypes
  <1>3. 0 \notin Alone!Pools
    BY DEF Alone!Pools
  <1> QED
    BY <1>1, <1>2, <1>3

\* The database is made with no pool and no call.
LEMMA AloneInit == Alone!Init => AloneInv
  <1> SUFFICES ASSUME Alone!Init PROVE AloneInv
    OBVIOUS
  <1>1. Alone!Idle \in TxRecords(Alone!Pools) /\ CallOK(Alone!Idle, "none")
    BY DEF Alone!Idle, TxRecords, Errors, CallOK
  <1>2. DBTypes(Alone!Pools)
    BY <1>1 DEF Alone!Init, DBTypes, ServerStates
  <1>3. DBInv(Alone!Pools)
    BY <1>1, <1>2 DEF Alone!Init, DBInv, ConnsOK
  <1>4. PoolFollowsLock
    BY DEF Alone!Init, PoolFollowsLock
  <1>5. WithinLimit
    BY FS_EmptySet, ServiceAssumption DEF Alone!Init, WithinLimit
  <1> QED
    BY <1>3, <1>4, <1>5 DEF AloneInv

\* A step of Start or Stop: the calls are as they were and Stop ends only when
\* they hold nothing of db.pool.
LEMMA AloneStartStop ==
    ASSUME AloneInv,
           Alone!StartBegin \/ Alone!StartConnects \/ Alone!StartFails
           \/ Alone!StopBegin \/ Alone!StopEnds
    PROVE  AloneInv'
  <1>t. /\ DBTypes(Alone!Pools) /\ ConnsOK(Alone!Pools) /\ PoolFollowsLock
        /\ 0 \notin Alone!Pools /\ \A x \in conn : x[2] = pool /\ pool # 0
    BY AllOfPool DEF AloneInv, DBInv, Alone!Pools
  <1>0. UNCHANGED <<tx, conn, server>>
    BY DEF Alone!StartBegin, Alone!StartConnects, Alone!StartFails, Alone!StopBegin,
           Alone!StopEnds
  <1>1. WithinLimit'
    BY <1>0 DEF AloneInv, WithinLimit
  <1>2. ASSUME DBTypes(Alone!Pools)', PoolFollowsLock',
               \A x \in conn : pst'[x[2]] \in {"open", "closing"}
        PROVE  AloneInv'
    <2>1. ConnsOK(Alone!Pools)'
      BY <1>0, <1>2, <1>t DEF ConnsOK
    <2>2. (\A r \in Requests : CallOK(tx[r], server[r]))'
      BY <1>0 DEF AloneInv, DBInv, CallOK
    <2> QED
      BY <1>1, <1>2, <2>1, <2>2 DEF AloneInv, DBInv
  <1>3. CASE Alone!StartBegin
    <2>1. DBTypes(Alone!Pools)' /\ PoolFollowsLock'
      BY <1>t, <1>3, <1>0 DEF Alone!StartBegin, DBTypes, PoolFollowsLock
    <2> QED
      BY <1>2, <1>t, <1>3, <2>1 DEF Alone!StartBegin, ConnsOK
  <1>4. CASE Alone!StartConnects \/ Alone!StartFails
    <2>1. PICK g \in Alone!Pools, x \in {"open", "closed"} :
              /\ pst' = [pst EXCEPT ![g] = x] /\ lock = "start" /\ lock' = "free"
              /\ pool' = IF x = "open" THEN g ELSE pool
      BY <1>4 DEF Alone!StartConnects, Alone!StartFails, Alone!Unmade
    <2>2. pool = 0 /\ conn = {}
      BY <1>t, <2>1 DEF PoolFollowsLock
    <2>3. DBTypes(Alone!Pools)'
      BY <1>t, <1>0, <2>1 DEF DBTypes
    <2>4. PoolFollowsLock'
      BY <1>t, <2>1, <2>2 DEF DBTypes, PoolFollowsLock
    <2> QED
      BY <1>2, <2>2, <2>3, <2>4
  <1>5. CASE Alone!StopBegin
    <2>1. /\ pool # 0 /\ pool \in Alone!Pools /\ lock' = "stop" /\ UNCHANGED pool
          /\ pst' = [pst EXCEPT ![pool] = "closing"]
      BY <1>t, <1>5 DEF Alone!StopBegin, DBTypes
    <2>2. DBTypes(Alone!Pools)' /\ PoolFollowsLock'
      BY <1>t, <1>0, <2>1 DEF DBTypes, PoolFollowsLock
    <2> QED
      BY <1>2, <1>t, <2>1, <2>2 DEF DBTypes
  <1>6. CASE Alone!StopEnds
    <2>1. /\ pool # 0 /\ pool \in Alone!Pools /\ lock' = "free" /\ pool' = 0
          /\ pst' = [pst EXCEPT ![pool] = "closed"]
      BY <1>t, <1>6 DEF Alone!StopEnds, DBTypes, PoolFollowsLock
    <2>2. conn = {}
      BY <1>t, <1>6 DEF Alone!StopEnds, Alone!Held
    <2>3. DBTypes(Alone!Pools)' /\ PoolFollowsLock'
      BY <1>t, <1>0, <2>1 DEF DBTypes, PoolFollowsLock
    <2> QED
      BY <1>2, <2>2, <2>3
  <1> QED
    BY <1>3, <1>4, <1>5, <1>6

\* A step of a call: a connection is taken only of db.pool, and only when all the
\* connections in use are fewer than a pool has.
LEMMA AloneCall ==
    ASSUME AloneInv, NEW r \in Requests,
           Alone!WithTx(r) \/ Alone!PingCopy(r) \/ Alone!Step(r) \/ Alone!Forget(r)
    PROVE  AloneInv'
  <1>1. DB!WithTx(r) \/ DB!PingCopy(r) \/ DB!Step(r) \/ DB!Forget(r)
    BY SameCalls
  <1>2. DBInv(Alone!Pools)'
    <2>1. 0 \notin Alone!Pools
      BY DEF Alone!Pools
    <2> QED
      BY <1>1, <2>1, DBCalls DEF AloneInv
  <1>3. PoolFollowsLock'
    <2>1. UNCHANGED <<lock, pool, pst>>
      BY <1>1, CallTakesOne
    <2> QED
      BY <2>1 DEF AloneInv, PoolFollowsLock
  <1>4. WithinLimit'
    <2>1. CASE conn' \in {conn, conn \ {DB!Conn(r)}}
      <3>1. conn' \in SUBSET conn
        BY <2>1
      <3>2. IsFiniteSet(conn) /\ Cardinality(conn) \in Nat /\ Cardinality(conn) <= MaxConns
        BY FS_CardinalityType DEF AloneInv, WithinLimit
      <3>3. IsFiniteSet(conn') /\ Cardinality(conn') <= Cardinality(conn)
        BY <3>1, <3>2, FS_Subset
      <3>4. Cardinality(conn') \in Nat
        BY <3>3, FS_CardinalityType
      <3> QED
        BY <3>2, <3>3, <3>4, ServiceAssumption DEF WithinLimit
    <2>2. CASE /\ tx[r].pc = "begin" /\ pst[tx[r].p] = "open"
               /\ Cardinality(DB!Held(tx[r].p)) < MaxConns
               /\ conn' = conn \cup {DB!Conn(r)}
      <3>1. IsFiniteSet(conn) /\ Cardinality(conn) \in Nat
        BY FS_CardinalityType DEF AloneInv, WithinLimit
      <3>2. DB!Held(tx[r].p) = conn
        <4>1. tx[r].p \in Alone!Pools
          BY <2>2 DEF AloneInv, DBInv, DBTypes, TxRecords, CallOK
        <4>2. tx[r].p = pool
          BY <2>2, <4>1 DEF AloneInv, PoolFollowsLock
        <4>3. \A x \in conn : x[2] = pool
          BY AllOfPool DEF AloneInv
        <4> QED
          BY <4>2, <4>3 DEF DB!Held
      <3>3. Cardinality(conn) < MaxConns
        BY <2>2, <3>2
      <3>4. IsFiniteSet(conn') /\ Cardinality(conn') <= Cardinality(conn) + 1
        <4>1. /\ IsFiniteSet(conn \cup {DB!Conn(r)})
              /\ Cardinality(conn \cup {DB!Conn(r)})
                     = IF DB!Conn(r) \in conn THEN Cardinality(conn) ELSE Cardinality(conn) + 1
          BY <3>1, FS_AddElement
        <4> QED
          BY <2>2, <3>1, <4>1
      <3>5. Cardinality(conn') \in Nat
        BY <3>4, FS_CardinalityType
      <3> QED
        BY <3>1, <3>3, <3>4, <3>5, ServiceAssumption DEF WithinLimit
    <2> QED
      BY <1>1, <2>1, <2>2, CallTakesOne
  <1> QED
    BY <1>2, <1>3, <1>4 DEF AloneInv

\* Every step of the database by itself preserves the invariant.
LEMMA AloneStep == AloneInv /\ [Alone!Next]_(Alone!vars) => AloneInv'
  <1> SUFFICES ASSUME AloneInv, [Alone!Next]_(Alone!vars) PROVE AloneInv'
    OBVIOUS
  <1>1. CASE UNCHANGED Alone!vars
    <2>1. UNCHANGED <<lock, pool, pst, tx, conn, server>>
      BY <1>1 DEF Alone!vars, Alone!dbvars
    <2>2. (\A r \in Requests : CallOK(tx[r], server[r]))'
      BY <2>1 DEF AloneInv, DBInv, CallOK
    <2>3. DBTypes(Alone!Pools)' /\ ConnsOK(Alone!Pools)' /\ PoolFollowsLock' /\ WithinLimit'
      BY <2>1 DEF AloneInv, DBInv, DBTypes, ConnsOK, PoolFollowsLock, WithinLimit
    <2> QED
      BY <2>2, <2>3 DEF AloneInv, DBInv
  <1>2. CASE Alone!Next
    BY <1>2, AloneStartStop, AloneCall DEF Alone!Next
  <1> QED
    BY <1>1, <1>2

\* The invariant holds in every state of the database by itself.
THEOREM AloneInvariance == Alone!Spec => []AloneInv
  BY AloneInit, AloneStep, PTL DEF Alone!Spec

\* Stopped and started any number of times under its calls, the database has one
\* pool that is not closed, and all calls together hold no more connections than
\* that pool has.
THEOREM RestartsKeepLimit == Alone!Spec => []Alone!OnePoolAtATime
  <1>1. AloneInv => Alone!OnePoolAtATime
    BY SameCount DEF AloneInv, PoolFollowsLock, WithinLimit, Alone!OnePoolAtATime
  <1> QED
    BY <1>1, AloneInvariance, PTL

\* Stopped and started any number of times, no call that has returned holds a
\* connection or leaves a transaction open, and a closed pool has its connections
\* back.
THEOREM RestartsLeaveNothing == Alone!Spec => []Alone!NoDanglingTx
  <1>1. AloneInv => Alone!NoDanglingTx
    <2> SUFFICES ASSUME AloneInv PROVE Alone!NoDanglingTx
      OBVIOUS
    <2>1. ASSUME NEW r \in Requests, tx[r].pc = "done"
          PROVE  Alone!Conn(r) \notin conn /\ server[r] # "open"
      <3>1. server[r] # "open"
        BY <2>1 DEF AloneInv, DBInv, CallOK
      <3>2. \A g \in Alone!Pools : <<r, g>> \notin conn
        BY <3>1 DEF AloneInv, DBInv, ConnsOK
      <3>3. conn \subseteq Requests \X Alone!Pools
        BY DEF AloneInv, DBInv, DBTypes
      <3> QED
        BY <3>1, <3>2, <3>3 DEF Alone!Conn
    <2>2. ASSUME NEW g \in Alone!Pools, pst[g] = "closed" PROVE Alone!Held(g) = {}
      BY <2>2 DEF AloneInv, DBInv, ConnsOK, Alone!Held
    <2> QED
      BY <2>1, <2>2 DEF Alone!NoDanglingTx
  <1> QED
    BY <1>1, AloneInvariance, PTL

\* Stopped and started any number of times, what WithTx returns is what the server
\* did.
THEOREM RestartsKeepResults == Alone!Spec => []Alone!ResultMatchesServer
  <1>1. AloneInv => Alone!ResultMatchesServer
    BY DEF AloneInv, DBInv, DBTypes, TxRecords, CallOK, Alone!ResultMatchesServer
  <1> QED
    BY <1>1, AloneInvariance, PTL

=============================================================================
