------------------------------- MODULE Clients -------------------------------
(***************************************************************************)
(* The client components that share one pattern: a handle of a library is  *)
(* opened by Start and closed by Stop under the component's mutex, and a   *)
(* call copies the handle under the mutex and uses the copy after          *)
(* unlocking.  pkg/redis, pkg/s3, pkg/workflow (Client and the Worker on   *)
(* top of it), the Kafka Producer and the NATS Publisher in its two modes. *)
(* One behaviour is about one of them, `kind'.                             *)
(*                                                                         *)
(* Data abstractions.  A handle is the number of the Start that opened it  *)
(* (0 is nil).  A message is <<caller, try, i>>; messages of one caller    *)
(* with the same i carry the same key, if they carry one, so a later try   *)
(* is a retry, or another message with that key.  A refused Start and a    *)
(* Stop without a handle change nothing and are left out.                  *)
(***************************************************************************)
EXTENDS Integers, FiniteSets

CONSTANTS
    Callers,
    MaxStarts,      \* bound on the handles opened
    MaxBatch,       \* largest number of messages in one call
    MaxTries        \* bound on the calls of one caller (see Tries)

ASSUME ClientsAssumption ==
    MaxStarts \in Nat \ {0} /\ MaxBatch \in Nat \ {0} /\ MaxTries \in Nat \ {0}

Handles == 1..MaxStarts
Publishers == {"core", "jetstream"}
Kinds == {"redis", "s3", "temporal", "producer"} \cup Publishers

VARIABLES
    kind,       \* the component at hand
    lock,       \* its mutex: "free", or held by "start" or "stop"
    field,      \* the handle kept in its struct
    js,         \* the Publisher's JetStream context, by the Start it is from
    sdk,        \* sdk[g]: state of handle g in its library
    call,       \* call[c]: the call of caller c
    buf,        \* buf[g]: messages handle g has accepted and not yet sent
    sent,       \* messages written to the server's connection; in JetStream
                \* mode, stored by the server
    wfield,     \* the Worker's own handle, by its Start
    worker,     \* worker[w]: state of SDK worker w and the client it runs on
    wstop       \* what Worker.Stop waits for: 0 or an SDK worker

lifecycle == <<lock, field, js, sdk>>
traffic == <<call, buf, sent>>
workers == <<wfield, worker, wstop>>
vars == <<kind, lifecycle, traffic, workers>>

Init ==
    /\ kind \in Kinds
    /\ lock = "free" /\ field = 0 /\ js = 0
    /\ sdk = [g \in Handles |-> "none"]
    /\ call = [c \in Callers |-> [pc |-> "idle", h |-> 0, j |-> 0, try |-> 0,
                                  size |-> 0, done |-> 0, result |-> "none"]]
    /\ buf = [g \in Handles |-> {}]
    /\ sent = {}
    /\ wfield = 0 /\ wstop = 0
    /\ worker = [w \in Handles |-> [st |-> "none", on |-> 0, late |-> FALSE]]

-----------------------------------------------------------------------------
(* Start holds the mutex while it dials, pings or asks for the bucket.     *)

Unused(f, none) == {g \in Handles : f[g] = none /\ \A k \in 1..(g - 1) : f[k] # none}

StartBegin ==
    /\ lock = "free" /\ field = 0
    /\ Unused(sdk, "none") # {}
    /\ lock' = "start"
    /\ UNCHANGED <<kind, field, js, sdk, traffic, workers>>

\* The end of a Start of k: the handle is kept, or the Start fails and its
\* handle, if it had one by then, is left in state `failed'.
EndStart(k, failed, withJS) ==
    /\ kind \in k /\ lock = "start"
    /\ lock' = "free"
    /\ \E g \in Unused(sdk, "none") :
           \/ /\ sdk' = [sdk EXCEPT ![g] = "open"]
              /\ field' = g
              /\ js' = IF withJS THEN g ELSE js
           \/ \E st \in failed :
                  sdk' = [sdk EXCEPT ![g] = st] /\ UNCHANGED <<field, js>>
    /\ UNCHANGED <<kind, traffic, workers>>

\* Mutation: the client whose ping failed is not closed.
RedisStartLeaks == EndStart({"redis"}, {"open"}, FALSE)

RedisStart == EndStart({"redis"}, {"closed"}, FALSE)
S3Start == EndStart({"s3"}, {"none", "closed"}, FALSE)
TemporalStart == EndStart({"temporal"}, {"none"}, FALSE)
ProducerStart == EndStart({"producer"}, {}, FALSE)
PublisherStart ==
    \/ EndStart({"core"}, {"none"}, FALSE)
    \/ EndStart({"jetstream"}, {"none", "closed"}, TRUE)

-----------------------------------------------------------------------------
(* Stop.  The App stops the Client of a Worker after the Worker.           *)

\* Writer.Close refuses further writes before it waits for those under way.
StopBegin ==
    /\ lock = "free" /\ field # 0
    /\ kind = "temporal" => wfield = 0 /\ wstop = 0
    /\ lock' = "stop"
    /\ sdk' = IF kind = "producer" THEN [sdk EXCEPT ![field] = "closing"] ELSE sdk
    /\ UNCHANGED <<kind, field, js, traffic, workers>>

\* The end of a Stop of k: an error of the library changes what is returned
\* and nothing else.
EndStop(k, st) ==
    /\ kind \in k /\ lock = "stop"
    /\ lock' = "free"
    /\ sdk' = [sdk EXCEPT ![field] = st]
    /\ field' = 0
    /\ UNCHANGED <<kind, js, traffic, workers>>

\* Mutation: an error of Close returns without unlocking.
RedisStopKeepsLock ==
    /\ kind = "redis" /\ lock = "stop"
    /\ lock' \in {"free", "kept"}
    /\ sdk' = [sdk EXCEPT ![field] = "closed"]
    /\ field' = 0
    /\ UNCHANGED <<kind, js, traffic, workers>>

RedisStop == EndStop({"redis"}, "closed")
S3Stop == EndStop({"s3"}, "closed")
TemporalStop == EndStop({"temporal"}, "closed")

Writing(g) == {c \in Callers : call[c].pc = "write" /\ call[c].h = g}

\* Mutation: Close runs in a goroutine that Stop does not wait for.
ProducerStopAsync == EndStop({"producer"}, "closed")

\* Writer.Close waits, under the mutex, for the calls of WriteMessages and for
\* what they have queued.
ProducerStop ==
    /\ lock = "stop" => Writing(field) = {} /\ buf[field] = {}
    /\ EndStop({"producer"}, "closed")

\* Conn.Drain only begins to drain; it fails when the connection is being
\* re-established, and then closes it with what is buffered.
PublisherStop ==
    /\ kind \in Publishers /\ lock = "stop"
    /\ lock' = "free"
    /\ field' = 0 /\ js' = 0
    /\ \/ sdk' = [sdk EXCEPT ![field] = "draining"] /\ UNCHANGED buf
       \/ sdk' = [sdk EXCEPT ![field] = "closed"] /\ buf' = [buf EXCEPT ![field] = {}]
    /\ UNCHANGED <<kind, call, sent, workers>>

\* A draining connection is closed once its buffer is flushed, or dropped.
DrainEnds(g) ==
    /\ sdk[g] = "draining"
    /\ sdk' = [sdk EXCEPT ![g] = "closed"]
    /\ buf' = [buf EXCEPT ![g] = {}]
    /\ \/ sent' = sent \cup buf[g]
       \/ sent' = sent
    /\ UNCHANGED <<kind, lock, field, js, call, workers>>

-----------------------------------------------------------------------------
(* Calls.                                                                  *)

Msg(c, i) == <<c, call[c].try, i>>
Key(m) == <<m[1], m[3]>>
Batch(c) == {Msg(c, i) : i \in 1..call[c].size}

Return(c, r) == call' = [call EXCEPT ![c].pc = "idle", ![c].h = 0, ![c].j = 0, ![c].result = r]

\* Where nothing remembers earlier calls a second caller does for a second call.
Tries == IF kind \in {"producer", "core"} THEN 1 ELSE MaxTries

\* A caller makes a call, its first or another one after it has the result.
Call(c) ==
    /\ call[c].pc = "idle" /\ call[c].try < Tries
    /\ \E n \in 1..(IF kind \in Publishers \cup {"producer"} THEN MaxBatch ELSE 1) :
           call' = [call EXCEPT ![c] = [pc |-> "copy", h |-> 0, j |-> 0, size |-> n,
                                        try |-> @.try + 1, done |-> 0, result |-> "none"]]
    /\ UNCHANGED <<kind, lifecycle, buf, sent, workers>>

\* The handle is copied under the mutex; without one the call is refused.
CopyHandle(c) ==
    /\ call[c].pc = "copy" /\ lock = "free"
    /\ IF field = 0 THEN Return(c, "refused")
       ELSE call' = [call EXCEPT ![c].pc = "use", ![c].h = field, ![c].j = js]
    /\ UNCHANGED <<kind, lifecycle, buf, sent, workers>>

\* What a call of kind k gets from its copy, whatever has become of it since.
Use(c, k, live) ==
    /\ kind = k /\ call[c].pc = "use"
    /\ \E r \in {"ok", "error"} :
           (r = "ok" => sdk[call[c].h] \in live) /\ Return(c, r)
    /\ UNCHANGED <<kind, lifecycle, buf, sent, workers>>

RedisCall(c) == Use(c, "redis", {"open"})
\* The S3 client is stateless: a copy works after Stop as before.
S3Call(c) == Use(c, "s3", {"open", "closed"})
TemporalCall(c) == Use(c, "temporal", {"open"})

\* A publish hook fails: the Producer has written nothing of the batch yet,
\* the Publisher what came before.
HookFails(c) ==
    /\ kind \in Publishers \cup {"producer"} /\ call[c].pc = "use"
    /\ Return(c, "hook")
    /\ UNCHANGED <<kind, lifecycle, buf, sent, workers>>

\* PublishBatch and Publish of the Producer: all hooks, then one WriteMessages.
WriteMessages(c) ==
    /\ kind = "producer" /\ call[c].pc = "use"
    /\ IF sdk[call[c].h] # "open"
       THEN Return(c, "error") /\ UNCHANGED buf
       ELSE /\ call' = [call EXCEPT ![c].pc = "write"]
            /\ buf' = [buf EXCEPT ![call[c].h] = @ \cup Batch(c)]
    /\ UNCHANGED <<kind, lifecycle, sent, workers>>

\* Mutation: the errors of single messages are not looked at.
WriteReturnsNil(c) ==
    /\ call[c].pc = "write"
    /\ Return(c, "ok")
    /\ UNCHANGED <<kind, lifecycle, buf, sent, workers>>

\* WriteMessages returns nil once all of the batch is written.  Start leaves the
\* writer's RequiredAcks at RequireNone, so nobody waits for the broker, or hears
\* whether it took the messages.  It returns an error when some of the batch was
\* given up or the context ended, with any part of it written and the rest still
\* queued.
WriteReturns(c) ==
    /\ call[c].pc = "write"
    /\ \/ Batch(c) \subseteq sent /\ Return(c, "ok")
       \/ Return(c, "error")
    /\ UNCHANGED <<kind, lifecycle, buf, sent, workers>>

\* The library sends what it has accepted; messages may be given up.
Flush(g) ==
    /\ buf[g] # {}
    /\ buf' = [buf EXCEPT ![g] = {}]
    /\ \E m \in SUBSET buf[g] : sent' = sent \cup m
    /\ UNCHANGED <<kind, lifecycle, call, workers>>

\* After a message of PublishBatch went out: the next one copies the handle
\* again; after the last the call returns.
Advance(c) ==
    call' = [call EXCEPT ![c].done = @ + 1,
                         ![c].pc = IF call[c].done + 1 = call[c].size THEN "idle" ELSE "copy",
                         ![c].h = 0, ![c].j = 0,
                         ![c].result = IF call[c].done + 1 = call[c].size THEN "ok" ELSE @]

\* Publish in core mode: the message goes into the connection's buffer.  A
\* draining connection may still take it.
PublishCore(c) ==
    /\ kind = "core" /\ call[c].pc = "use" /\ call[c].j = 0
    /\ \/ /\ sdk[call[c].h] \in {"open", "draining"}
          /\ buf' = [buf EXCEPT ![call[c].h] = @ \cup {Msg(c, call[c].done + 1)}]
          /\ Advance(c)
       \/ Return(c, "error") /\ UNCHANGED buf
    /\ UNCHANGED <<kind, lifecycle, sent, workers>>

\* Publish in JetStream mode: the server stores the message and acknowledges it;
\* the acknowledgement may not come back.  A message whose MsgId it has seen is
\* acknowledged and not stored, if it has a MsgId at all (the key may be empty)
\* and the stream's dedupe window has not passed.
PublishJetStream(c) ==
    /\ kind = "jetstream" /\ call[c].pc = "use" /\ call[c].j # 0
    /\ LET m == Msg(c, call[c].done + 1)
           seen == \E o \in sent : Key(o) = Key(m)
           live == sdk[call[c].j] \in {"open", "draining"}
       IN \/ /\ live
             /\ sent' = sent \cup {m} \/ (seen /\ UNCHANGED sent)
             /\ Advance(c) \/ Return(c, "error")
          \/ UNCHANGED sent /\ Return(c, "error")
    /\ UNCHANGED <<kind, lifecycle, buf, workers>>

-----------------------------------------------------------------------------
(* The Worker of pkg/workflow.                                             *)

\* Start takes the Client's handle and starts an SDK worker on it; a failed
\* Start of the SDK worker leaves the field nil.
WorkerStart ==
    /\ kind = "temporal" /\ wfield = 0 /\ lock = "free" /\ field # 0
    /\ \E w \in Unused([v \in Handles |-> worker[v].st], "none") :
           \/ /\ worker' = [worker EXCEPT ![w].st = "running", ![w].on = field]
              /\ wfield' = w
           \/ worker' = [worker EXCEPT ![w].st = "stopped"] /\ UNCHANGED wfield
    /\ UNCHANGED <<kind, lifecycle, traffic, wstop>>

WorkerStop ==
    /\ wfield # 0 /\ wstop = 0
    /\ wfield' = 0 /\ wstop' = wfield
    /\ worker' = [worker EXCEPT ![wfield].st = "stopping"]
    /\ UNCHANGED <<kind, lifecycle, traffic>>

\* The goroutine's tw.Stop() returns once the tasks in flight are done.
SDKWorkerStopped(w) ==
    /\ worker[w].st = "stopping"
    /\ worker' = [worker EXCEPT ![w].st = "stopped"]
    /\ UNCHANGED <<kind, lifecycle, traffic, wfield, wstop>>

\* Mutation: Stop does not wait for the goroutine.
WorkerStopReturnsAtOnce ==
    /\ wstop # 0 /\ wstop' = 0
    /\ UNCHANGED <<kind, lifecycle, traffic, wfield, worker>>

\* The select of Stop: the worker has stopped, or the context's deadline passes.
WorkerStopReturns ==
    /\ wstop # 0 /\ wstop' = 0
    /\ \/ worker[wstop].st = "stopped" /\ UNCHANGED worker
       \/ worker' = [worker EXCEPT ![wstop].late = TRUE]
    /\ UNCHANGED <<kind, lifecycle, traffic, wfield>>

-----------------------------------------------------------------------------
StartEnds == RedisStart \/ S3Start \/ TemporalStart \/ ProducerStart \/ PublisherStart
StopEnds == RedisStop \/ S3Stop \/ TemporalStop \/ ProducerStop \/ PublisherStop

CallStep(c) ==
    \/ CopyHandle(c) \/ RedisCall(c) \/ S3Call(c) \/ TemporalCall(c) \/ HookFails(c)
    \/ WriteMessages(c) \/ WriteReturns(c) \/ PublishCore(c) \/ PublishJetStream(c)

LibraryStep ==
    \/ \E g \in Handles : DrainEnds(g) \/ Flush(g)
    \/ \E w \in Handles : SDKWorkerStopped(w)

Next ==
    \/ StartBegin \/ StartEnds \/ StopBegin \/ StopEnds
    \/ \E c \in Callers : Call(c) \/ CallStep(c)
    \/ WorkerStart \/ WorkerStop \/ WorkerStopReturns
    \/ LibraryStep

\* Calls and the library's goroutines run on, and dials, pings and writes have
\* timeouts; nobody has to start, stop or call anything.  A Go mutex does not
\* starve who waits for it, whoever else keeps taking it.
Fairness ==
    /\ WF_vars(StartEnds) /\ WF_vars(StopEnds) /\ WF_vars(WorkerStopReturns)
    /\ WF_vars(LibraryStep)
    /\ \A c \in Callers : WF_vars(CallStep(c)) /\ SF_vars(CopyHandle(c))

Spec == Init /\ [][Next]_vars /\ Fairness

-----------------------------------------------------------------------------
(* Properties.                                                             *)

\* Between Starts and Stops exactly the handle kept in the field is open: no
\* way out of a failed Start or Stop leaks one, none is closed and kept; and
\* a call never holds a JetStream context of another connection than its own.
HandlesAccounted ==
    /\ lock = "free" => \A g \in Handles : sdk[g] = "open" <=> g = field
    /\ lock = "free" => js = IF kind = "jetstream" THEN field ELSE 0
    /\ \A c \in Callers : call[c].j # 0 => call[c].j = call[c].h

\* When Stop of the Producer has returned, no write is under way on the closed
\* writer and nothing it had accepted is still queued.
StopFlushesProducer ==
    kind = "producer" /\ lock = "free" =>
        \A g \in Handles \ {field} : buf[g] = {} /\ Writing(g) = {}

\* What the result of a batch says.  Of the Producer: with nil all of it has been
\* written to the broker's connection (which is not to say that the broker has
\* it), with a failed hook or a refused call nothing of it was accepted; an error
\* says nothing, any part may have been written, where the comment of PublishBatch
\* promises all or none.  Of the Publisher: in core mode, whatever comes of the
\* call, only messages before the one that failed were accepted; in JetStream mode
\* each of these is in the stream, or one with its key from an earlier call is, and
\* of the rest at most the one that failed.
BatchOutcome ==
    \A c \in Callers :
        LET out == {m \in sent \cup UNION {buf[g] : g \in Handles} : m[1] = c /\ m[2] = call[c].try}
        IN /\ kind = "producer" /\ call[c].pc = "idle" =>
                  /\ call[c].result = "ok" => Batch(c) \subseteq sent
                  /\ call[c].result \in {"hook", "refused"} => out = {}
           /\ kind = "core" => out \subseteq {Msg(c, i) : i \in 1..call[c].done}
           /\ kind = "jetstream" =>
                  /\ \A i \in 1..call[c].done : \E m \in sent : Key(m) = <<c, i>>
                  /\ out \subseteq {Msg(c, i) : i \in 1..(call[c].done + 1)}

\* An SDK worker that still runs although its Worker has been stopped, or its
\* client closed, is one whose Stop reported that it timed out.
WorkerOutlived ==
    \A w \in Handles :
        worker[w].st \in {"running", "stopping"} =>
            \/ w \in {wfield, wstop} /\ sdk[worker[w].on] = "open"
            \/ worker[w].late

\* Every call, and every Start and Stop, returns, also when Stop waits for
\* writes while it holds the mutex that calls wait for.
CallsReturn ==
    /\ \A c \in Callers : (call[c].pc # "idle") ~> (call[c].pc = "idle")
    /\ (lock # "free") ~> (lock = "free")

=============================================================================
