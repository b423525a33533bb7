--------------------------- MODULE NatsSubscriber ---------------------------
(***************************************************************************)
(* The NATS subscriber of pkg/broker/nats/subscriber.go: Start, Subscribe, *)
(* the message callback with its wait-group guard, processMessage, and     *)
(* Stop.  The server, the connection and the per-subscription delivery     *)
(* goroutine of nats.go are external: a subscription runs one callback at  *)
(* a time, Drain is asynchronous and lets buffered messages through, and a *)
(* JetStream consumer delivers a message until it is acknowledged.         *)
(*                                                                         *)
(* Data abstractions.  Each subscription has a subject of its own with the *)
(* messages Msgs, delivered in any order.  Connections are numbered, 0     *)
(* stands for the nil connection.                                          *)
(***************************************************************************)
EXTENDS Integers

CONSTANTS
    Subs,           \* subscriptions, each made by one Subscribe
    Msgs,           \* messages published on each subject
    NoMsg,          \* no message
    MaxRetries,     \* WithRetry(maxRetries, ...)
    MaxStarts       \* bound on the successful Starts

ASSUME SubscriberAssumption ==
    /\ NoMsg \notin Msgs
    /\ MaxRetries \in Nat
    /\ MaxStarts \in Nat

VARIABLES
    jetStream,  \* Subscriber.jetStream
    hasDLQ,     \* Subscriber.dlqPublisher # nil
    conn,       \* Subscriber.conn
    js,         \* Subscriber.js # nil
    recorded,   \* Subscriber.subs
    wg,         \* Subscriber.wg
    call,       \* call[s]: how far Subscribe has got
    subConn,    \* the connection Subscribe read
    cb,         \* where the callback of the subscription is
    cur,        \* the message the callback was given
    attempt,    \* failed handler calls for it
    stopPc,     \* where Stop is
    stopConn,   \* the connection Stop read
    todo        \* the subscriptions Stop has still to drain

\* nats.go and the server.
VARIABLES
    starts,     \* connections made so far
    draining,   \* connections being drained
    subSt,      \* state of the subscription in the client
    buf,        \* messages received and not yet given to the callback
    server      \* server[s][m]: "new", "sent" or "acked"

\* History.
VARIABLES
    settled     \* settled[s]: messages handled or dead-lettered

options   == <<jetStream, hasDLQ>>
fieldVars == <<conn, js, recorded, wg>>
cbVars    == <<cb, cur, attempt, settled>>
callVars  == <<call, subConn>>
stopVars  == <<stopPc, stopConn, todo>>
netVars   == <<starts, draining, subSt, buf, server>>
vars      == <<options, fieldVars, cbVars, callVars, stopVars, netVars>>

\* Callbacks past the guard, which the wait group counts.
Busy == {"handle", "retry", "dlq", "nodlq", "ack", "acking", "nak"}

\* NewSubscriber, with any combination of the options.
Init ==
    /\ jetStream \in BOOLEAN /\ hasDLQ \in BOOLEAN
    /\ conn = 0 /\ js = FALSE /\ recorded = {} /\ wg = 0
    /\ call = [s \in Subs |-> "idle"]
    /\ subConn = [s \in Subs |-> 0]
    /\ cb = [s \in Subs |-> "idle"]
    /\ cur = [s \in Subs |-> NoMsg]
    /\ attempt = [s \in Subs |-> 0]
    /\ stopPc = "idle" /\ stopConn = 0 /\ todo = {}
    /\ starts = 0
    /\ draining = {}
    /\ subSt = [s \in Subs |-> "none"]
    /\ buf = [s \in Subs |-> {}]
    /\ server = [s \in Subs |-> [m \in Msgs |-> "new"]]
    /\ settled = [s \in Subs |-> {}]

-----------------------------------------------------------------------------
(* Start and Subscribe.                                                    *)

\* A failed connect, or a failed JetStream context, leaves the fields nil.
Start ==
    /\ conn = 0
    /\ starts < MaxStarts
    /\ starts' = starts + 1
    /\ conn' = starts'
    /\ js' = jetStream
    /\ UNCHANGED <<options, recorded, wg, cbVars, callVars, stopVars, draining, subSt,
                   buf, server>>

\* Subscribe reads conn and js under the lock; a nil connection is an error.
SubscribeRead(s) ==
    /\ call[s] = "idle"
    /\ conn # 0
    /\ call' = [call EXCEPT ![s] = "read"]
    /\ subConn' = [subConn EXCEPT ![s] = conn]
    /\ UNCHANGED <<options, fieldVars, cbVars, stopVars, netVars>>

\* The subscription is made on the connection, unless that is draining by now.
SubscribeCreate(s) ==
    /\ call[s] = "read"
    /\ \/ /\ subConn[s] \notin draining
          /\ call' = [call EXCEPT ![s] = "created"]
          /\ subSt' = [subSt EXCEPT ![s] = "live"]
       \/ /\ call' = [call EXCEPT ![s] = "failed"]
          /\ UNCHANGED subSt
    /\ UNCHANGED <<options, fieldVars, cbVars, subConn, stopVars, starts, draining, buf, server>>

SubscribeRecord(s) ==
    /\ call[s] = "created"
    /\ recorded' = recorded \cup {s}
    /\ call' = [call EXCEPT ![s] = "done"]
    /\ UNCHANGED <<options, conn, js, wg, cbVars, subConn, stopVars, netVars>>

-----------------------------------------------------------------------------
(* The message callback.                                                   *)

CallbackBegin(s, m) ==
    /\ cb[s] = "idle"
    /\ m \in buf[s]
    /\ buf' = [buf EXCEPT ![s] = @ \ {m}]
    /\ cur' = [cur EXCEPT ![s] = m]
    /\ cb' = [cb EXCEPT ![s] = "guard"]
    /\ UNCHANGED <<options, fieldVars, attempt, settled, callVars, stopVars, starts,
                   draining, subSt, server>>

\* Under the lock: wg.Add(1) if there is a connection.
CallbackGuard(s) ==
    /\ cb[s] = "guard"
    /\ conn # 0
    /\ wg' = wg + 1
    /\ attempt' = [attempt EXCEPT ![s] = 0]
    /\ cb' = [cb EXCEPT ![s] = "handle"]
    /\ UNCHANGED <<options, conn, js, recorded, cur, settled, callVars, stopVars, netVars>>

\* After Stop has cleared the connection the message is dropped.
CallbackDropped(s) ==
    /\ cb[s] = "guard"
    /\ conn = 0
    /\ cb' = [cb EXCEPT ![s] = "idle"]
    /\ UNCHANGED <<options, fieldVars, cur, attempt, settled, callVars, stopVars, netVars>>

-----------------------------------------------------------------------------
(* processMessage.  Each `s.js != nil' reads the field without the lock,   *)
(* as a step of its own apart from the Ack or Nak that follows it, so a    *)
(* value Stop has overwritten in the meantime is acted upon.               *)

\* Mutation: wg.Done() is missing.
FinishNoDone(s) ==
    /\ cb' = [cb EXCEPT ![s] = "idle"]
    /\ UNCHANGED <<wg, stopPc>>

\* processMessage returns and wg.Done() runs, which wakes a Stop that waits when
\* it brings the counter to zero.
Finish(s) ==
    /\ cb' = [cb EXCEPT ![s] = "idle"]
    /\ wg' = wg - 1
    /\ stopPc' = IF stopPc = "wait" /\ wg' = 0 THEN "woken" ELSE stopPc

HandlerSucceeds(s) ==
    /\ cb[s] = "handle"
    /\ settled' = [settled EXCEPT ![s] = @ \cup {cur[s]}]
    /\ cb' = [cb EXCEPT ![s] = "ack"]
    /\ UNCHANGED <<options, fieldVars, cur, attempt, callVars, stopVars, netVars>>

HandlerFails(s) ==
    /\ cb[s] = "handle"
    /\ attempt' = [attempt EXCEPT ![s] = @ + 1]
    /\ \/ attempt[s] < MaxRetries /\ cb' = [cb EXCEPT ![s] = "retry"]
       \/ attempt[s] = MaxRetries /\ hasDLQ /\ cb' = [cb EXCEPT ![s] = "dlq"]
       \/ attempt[s] = MaxRetries /\ ~hasDLQ /\ cb' = [cb EXCEPT ![s] = "nodlq"]
    /\ UNCHANGED <<options, fieldVars, cur, settled, callVars, stopVars, netVars>>

\* Mutation: the backoff waits for the context only.
BackoffWaitsForContext(s) ==
    /\ cb[s] = "retry"
    /\ FALSE
    /\ UNCHANGED vars

\* The message's context is never cancelled, so only the timer ends a backoff.
BackoffElapses(s) ==
    /\ cb[s] = "retry"
    /\ cb' = [cb EXCEPT ![s] = "handle"]
    /\ UNCHANGED <<options, fieldVars, cur, attempt, settled, callVars, stopVars, netVars>>

\* Without a DLQ a JetStream message is Nak'd; a core message falls through.
NoDlq(s) ==
    /\ cb[s] = "nodlq"
    /\ cb' = [cb EXCEPT ![s] = IF js THEN "nak" ELSE "ack"]
    /\ UNCHANGED <<options, fieldVars, cur, attempt, settled, callVars, stopVars, netVars>>

DlqPublished(s) ==
    /\ cb[s] = "dlq"
    /\ settled' = [settled EXCEPT ![s] = @ \cup {cur[s]}]
    /\ cb' = [cb EXCEPT ![s] = "ack"]
    /\ UNCHANGED <<options, fieldVars, cur, attempt, callVars, stopVars, netVars>>

DlqFails(s) ==
    /\ cb[s] = "dlq"
    /\ \/ /\ js
          /\ cb' = [cb EXCEPT ![s] = "nak"]
          /\ UNCHANGED <<wg, stopPc>>
       \/ /\ ~js
          /\ Finish(s)
    /\ UNCHANGED <<options, conn, js, recorded, cur, attempt, settled, callVars, stopConn,
                   todo, netVars>>

\* The read of js that decides about the Ack.
AckRead(s) ==
    /\ cb[s] = "ack"
    /\ \/ /\ js
          /\ cb' = [cb EXCEPT ![s] = "acking"]
          /\ UNCHANGED <<wg, stopPc>>
       \/ /\ ~js
          /\ Finish(s)
    /\ UNCHANGED <<options, conn, js, recorded, cur, attempt, settled, callVars, stopConn,
                   todo, netVars>>

\* The acknowledgement reaches the server, or its error is only logged.
Tell(s, status) ==
    \/ server' = [server EXCEPT ![s][cur[s]] = status]
    \/ UNCHANGED server

Ack(s) ==
    /\ cb[s] = "acking"
    /\ Tell(s, "acked")
    /\ Finish(s)
    /\ UNCHANGED <<options, conn, js, recorded, cur, attempt, settled, callVars, stopConn,
                   todo, starts, draining, subSt, buf>>

\* Mutation: a failed message is acknowledged negatively with Ack.
NakAcks(s) ==
    /\ cb[s] = "nak"
    /\ Tell(s, "acked")
    /\ Finish(s)
    /\ UNCHANGED <<options, conn, js, recorded, cur, attempt, settled, callVars, stopConn,
                   todo, starts, draining, subSt, buf>>

\* A Nak has the server deliver the message again, unless it was acknowledged
\* on an earlier delivery.
Nak(s) ==
    /\ cb[s] = "nak"
    /\ \/ server[s][cur[s]] = "sent" /\ Tell(s, "new")
       \/ server[s][cur[s]] # "sent" /\ UNCHANGED server
    /\ Finish(s)
    /\ UNCHANGED <<options, conn, js, recorded, cur, attempt, settled, callVars, stopConn,
                   todo, starts, draining, subSt, buf>>

-----------------------------------------------------------------------------
(* Stop.                                                                   *)

StopRead ==
    /\ stopPc \in {"idle", "returned"}
    /\ conn # 0
    /\ stopConn' = conn
    /\ todo' = recorded
    /\ stopPc' = "drain"
    /\ UNCHANGED <<options, fieldVars, cbVars, callVars, netVars>>

\* sub.Drain(): no new messages; returns before the buffered ones are handled.
StopDrainSub(s) ==
    /\ stopPc = "drain"
    /\ s \in todo
    /\ todo' = todo \ {s}
    /\ subSt' = [subSt EXCEPT ![s] = IF @ = "live" THEN "draining" ELSE @]
    /\ UNCHANGED <<options, fieldVars, cbVars, callVars, stopPc, stopConn, starts,
                   draining, buf, server>>

\* wg.Wait() is called: with the counter at zero it returns at once.
StopDrained ==
    /\ stopPc = "drain"
    /\ todo = {}
    /\ stopPc' = IF wg = 0 THEN "drainConn" ELSE "wait"
    /\ UNCHANGED <<options, fieldVars, cbVars, callVars, stopConn, todo, netVars>>

\* The woken Wait looks at the counter again.  A callback of a buffered message,
\* let in since the Done that woke it, makes it panic (sync: WaitGroup is reused
\* before previous Wait has returned), which ends the process.
StopWoken ==
    /\ stopPc = "woken"
    /\ stopPc' = IF wg = 0 THEN "drainConn" ELSE "panicked"
    /\ UNCHANGED <<options, fieldVars, cbVars, callVars, stopConn, todo, netVars>>

\* conn.Drain() drains what is left of the connection's subscriptions.
StopDrainConn ==
    /\ stopPc = "drainConn"
    /\ draining' = draining \cup {stopConn}
    /\ subSt' = [s \in Subs |-> IF subConn[s] = stopConn /\ subSt[s] = "live"
                                THEN "draining" ELSE subSt[s]]
    /\ stopPc' = "clear"
    /\ UNCHANGED <<options, fieldVars, cbVars, callVars, stopConn, todo, starts, buf, server>>

\* The fields are cleared under the lock.
StopClear ==
    /\ stopPc = "clear"
    /\ conn' = 0
    /\ js' = FALSE
    /\ recorded' = {}
    /\ stopPc' = "returned"
    /\ UNCHANGED <<options, wg, cbVars, callVars, stopConn, todo, netVars>>

-----------------------------------------------------------------------------
(* The server and the client library (external).                           *)

Deliver(s, m) ==
    /\ subSt[s] = "live"
    /\ server[s][m] = "new"
    /\ server' = [server EXCEPT ![s][m] = "sent"]
    /\ buf' = [buf EXCEPT ![s] = @ \cup {m}]
    /\ UNCHANGED <<options, fieldVars, cbVars, callVars, stopVars, starts, draining, subSt>>

\* A JetStream message that is not acknowledged in time is delivered again,
\* even if its callback is still running.
AckWaitExpires(s, m) ==
    /\ jetStream
    /\ server[s][m] = "sent"
    /\ m \notin buf[s]
    /\ server' = [server EXCEPT ![s][m] = "new"]
    /\ UNCHANGED <<options, fieldVars, cbVars, callVars, stopVars, starts, draining, subSt, buf>>

-----------------------------------------------------------------------------
HandlerReturns(s) == HandlerSucceeds(s) \/ HandlerFails(s)

CallbackStep(s) ==
    \/ CallbackGuard(s) \/ CallbackDropped(s)
    \/ HandlerReturns(s) \/ BackoffElapses(s) \/ NoDlq(s)
    \/ DlqPublished(s) \/ DlqFails(s) \/ AckRead(s) \/ Ack(s) \/ Nak(s)

SubscribeStep(s) == SubscribeRead(s) \/ SubscribeCreate(s) \/ SubscribeRecord(s)

StopStep ==
    \/ \E s \in Subs : StopDrainSub(s)
    \/ StopDrained \/ StopWoken \/ StopDrainConn \/ StopClear

Running == stopPc # "panicked"

Next ==
    /\ Running
    /\ \/ Start
       \/ \E s \in Subs : SubscribeStep(s) \/ CallbackStep(s)
       \/ \E s \in Subs, m \in Msgs :
              CallbackBegin(s, m) \/ Deliver(s, m) \/ AckWaitExpires(s, m)
       \/ StopRead \/ StopStep

Safety == Init /\ [][Next]_vars

\* Callbacks and Stop are scheduled and handlers return; the client and the
\* server go on delivering.  Nothing is assumed of how soon a woken Stop runs.
Fairness ==
    /\ \A s \in Subs : WF_vars(Running /\ CallbackStep(s))
    /\ WF_vars(StopStep)
    /\ \A s \in Subs, m \in Msgs :
           /\ SF_vars(Running /\ CallbackBegin(s, m))
           /\ WF_vars(Running /\ Deliver(s, m))
           /\ WF_vars(Running /\ AckWaitExpires(s, m))

Spec == Safety /\ Fairness

-----------------------------------------------------------------------------
(* Properties.                                                             *)

\* The values of the subscriber, of the client and of the server.
TypeOK ==
    /\ jetStream \in BOOLEAN /\ hasDLQ \in BOOLEAN
    /\ conn \in 0..MaxStarts /\ js \in BOOLEAN /\ recorded \subseteq Subs /\ wg \in Nat
    /\ call \in [Subs -> {"idle", "read", "created", "failed", "done"}]
    /\ subConn \in [Subs -> 0..MaxStarts]
    /\ cb \in [Subs -> {"idle", "guard"} \cup Busy]
    /\ cur \in [Subs -> Msgs \cup {NoMsg}]
    /\ attempt \in [Subs -> 0..(1 + MaxRetries)]
    /\ stopPc \in {"idle", "drain", "wait", "woken", "panicked", "drainConn", "clear", "returned"}
    /\ stopConn \in 0..MaxStarts /\ todo \subseteq Subs
    /\ starts \in 0..MaxStarts /\ draining \subseteq 1..MaxStarts
    /\ subSt \in [Subs -> {"none", "live", "draining"}]
    /\ buf \in [Subs -> SUBSET Msgs]
    /\ server \in [Subs -> [Msgs -> {"new", "sent", "acked"}]]
    /\ settled \in [Subs -> SUBSET Msgs]

\* Through retries, redeliveries, DLQ failures and the unlocked reads of js
\* during Stop, the server is told to forget only messages that were handled or
\* dead-lettered.  Without a DLQ this needs that the subscriber is not started
\* again: a handler that Stop left behind can read js as nil at the Nak and, after
\* the next Start, as set at the Ack.
AckedOnlySettled ==
    hasDLQ \/ starts <= 1 =>
        \A s \in Subs, m \in Msgs : server[s][m] = "acked" => m \in settled[s]

\* Stop comes to an end when handlers do: it returns, or wg.Wait panics.  Messages
\* that Drain lets through, or that come in on a subscription made past Stop's copy,
\* may keep it waiting, but not for ever, unless there are two such subscriptions,
\* whose callbacks can take turns in keeping the counter above zero.
StopTerminates ==
    (stopPc = "drain") ~>
        \/ stopPc \in {"returned", "panicked"}
        \/ stopPc = "wait" /\ \E s, r \in Subs : s # r /\ subSt[s] = "live" /\ subSt[r] = "live"

\* A JetStream message that is not acknowledged reaches the callback again, as
\* long as its subscription is live and the process runs.
Redelivered ==
    \A s \in Subs, m \in Msgs :
        (jetStream /\ subSt[s] = "live" /\ server[s][m] # "acked") ~>
            \/ cb[s] # "idle" /\ cur[s] = m
            \/ server[s][m] = "acked"
            \/ subSt[s] # "live" \/ ~Running

\* When Stop returns, the handlers that were in flight have completed.
StopWaitsForHandlers ==
    stopPc = "returned" /\ conn = 0 => \A s \in Subs : cb[s] \notin Busy

=============================================================================
