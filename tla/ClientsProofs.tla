---------------------------- MODULE ClientsProofs ----------------------------
(***************************************************************************)
(* Proofs about Clients for every number of callers, handles, messages in  *)
(* a batch and calls; and about Discovery, the client of the registry, for *)
(* every number of instances, callers of Pick and Starts.                  *)
(***************************************************************************)
EXTENDS Clients, Discovery, TLAPS

Results == {"none", "ok", "error", "hook", "refused"}
CallRecords == [pc : {"idle", "copy", "use", "write"}, h : 0..MaxStarts, j : 0..MaxStarts,
                try : Nat, size : Nat, done : Nat, result : Results]
Messages == Callers \X Nat \X Nat
WorkerRecords == [st : {"none", "running", "stopping", "stopped"}, on : 0..MaxStarts,
                  late : BOOLEAN]

\* The values of the component, of its calls and of the library.
Types ==
    /\ kind \in Kinds /\ lock \in {"free", "start", "stop"}
    /\ field \in 0..MaxStarts /\ js \in 0..MaxStarts
    /\ sdk \in [Handles -> {"none", "open", "closing", "draining", "closed"}]
    /\ call \in [Callers -> CallRecords]
    /\ buf \in [Handles -> SUBSET Messages] /\ sent \subseteq Messages
    /\ wfield \in 0..MaxStarts /\ wstop \in 0..MaxStarts
    /\ worker \in [Handles -> WorkerRecords]

\* The handle in the field is the only open one, whoever holds the mutex.
FieldIsOpen ==
    /\ lock = "start" => field = 0
    /\ lock = "stop" => field # 0
    /\ \A g \in Handles : sdk[g] = "open" => g = field
    /\ field # 0 => sdk[field] = IF lock = "stop" /\ kind = "producer" THEN "closing"
                                                                      ELSE "open"
    /\ js = IF kind = "jetstream" THEN field ELSE 0

\* A call that uses a copy has one, and its JetStream context goes with it.
CopiesMatch ==
    \A c \in Callers :
        /\ call[c].pc \in {"use", "write"} => call[c].h # 0
        /\ call[c].j # 0 => call[c].j = call[c].h

\* Only the writer in the field has messages queued or calls under way.
OldWritersIdle ==
    kind = "producer" => \A g \in Handles :
        g # field => /\ buf[g] = {}
                     /\ \A c \in Callers : ~(call[c].pc = "write" /\ call[c].h = g)

\* The messages accepted: they wait in a buffer or were sent.
Accepted == sent \cup UNION {buf[g] : g \in Handles}

\* Nothing of the latest call of caller c has been accepted.
NothingOut(c) == \A m \in Accepted : ~(m[1] = c /\ m[2] = call[c].try)

\* No message is of a later call than its caller's latest.
NoneFromLater == \A m \in Accepted : m[2] <= call[m[1]].try

\* What the Producer has accepted of a call, at each point of it.
ProducerBatch ==
    kind = "producer" => \A c \in Callers :
        /\ \/ call[c].pc \in {"copy", "use"}
           \/ call[c].pc = "idle" /\ call[c].result \in {"hook", "refused"}
           => NothingOut(c)
        /\ call[c].pc = "idle" /\ call[c].result = "ok" => Batch(c) \subseteq sent

\* What the Publisher has accepted of a call in core mode.
CoreBatch ==
    kind = "core" => \A m \in Accepted :
        m[2] = call[m[1]].try => m[3] \in 1..call[m[1]].done

\* In JetStream mode nothing is buffered, the messages a call is done with are
\* stored, and of the others only the next one may be.
StreamBatch ==
    kind = "jetstream" =>
        /\ \A g \in Handles : buf[g] = {}
        /\ \A m \in sent : m[2] = call[m[1]].try => m[3] \in 1..(call[m[1]].done + 1)
        /\ \A c \in Callers : \A i \in 1..call[c].done : \E m \in sent : Key(m) = <<c, i>>

Batches == NoneFromLater /\ ProducerBatch /\ CoreBatch /\ StreamBatch

\* A Worker that runs, or that Stop waits for, runs on the client in the field,
\* which cannot be stopped meanwhile.
WorkersPlaced ==
    /\ wfield # 0 \/ wstop # 0 => kind = "temporal" /\ lock = "free" /\ field # 0
    /\ wfield # 0 => worker[wfield].on = field
    /\ wstop # 0 => worker[wstop].on = field
    /\ \A w \in Handles : /\ worker[w].st = "running" => w = wfield
                          /\ worker[w].st = "stopping" => w = wstop \/ worker[w].late

\* The conjunction that every step preserves.
IndInv ==
    Types /\ FieldIsOpen /\ CopiesMatch /\ OldWritersIdle /\ Batches /\ WorkersPlaced

-----------------------------------------------------------------------------
(* What the steps of a call do to its record.                              *)

\* Only the call of c may differ.
OthersKept(c) == \A d \in Callers \ {c} : call'[d] = call[d]

\* A return keeps what the call has achieved.
LEMMA ReturnEffect ==
    ASSUME Types, NEW c \in Callers, NEW r \in Results, Return(c, r)
    PROVE  /\ call' \in [Callers -> CallRecords] /\ OthersKept(c)
           /\ call'[c].pc = "idle" /\ call'[c].h = 0 /\ call'[c].j = 0 /\ call'[c].result = r
           /\ call'[c].try = call[c].try /\ call'[c].size = call[c].size
           /\ call'[c].done = call[c].done
  <1>1. call[c] \in CallRecords /\ 0 \in 0..MaxStarts
    BY ClientsAssumption DEF Types
  <1>2. call' = [call EXCEPT ![c] = [call[c] EXCEPT !.pc = "idle", !.h = 0, !.j = 0, !.result = r]]
    BY DEF Return, Types
  <1>3. [call[c] EXCEPT !.pc = "idle", !.h = 0, !.j = 0, !.result = r] \in CallRecords
    BY <1>1 DEF CallRecords
  <1> QED
    BY <1>1, <1>2, <1>3 DEF Types, OthersKept, CallRecords

\* A message has gone out.
LEMMA AdvanceEffect ==
    ASSUME Types, NEW c \in Callers, Advance(c)
    PROVE  /\ call' \in [Callers -> CallRecords] /\ OthersKept(c)
           /\ call'[c].pc \in {"idle", "copy"} /\ call'[c].h = 0 /\ call'[c].j = 0
           /\ call'[c].try = call[c].try /\ call'[c].size = call[c].size
           /\ call'[c].done = call[c].done + 1
  <1>1. call[c] \in CallRecords /\ 0 \in 0..MaxStarts
    BY ClientsAssumption DEF Types
  <1>2. PICK q \in {"idle", "copy"}, r \in Results :
            call' = [call EXCEPT ![c] = [call[c] EXCEPT !.done = call[c].done + 1,
                                             !.pc = q, !.h = 0, !.j = 0, !.result = r]]
    <2> DEFINE last == call[c].done + 1 = call[c].size
    <2>1. call[c].result \in Results
      BY <1>1 DEF CallRecords
    <2>2. (IF last THEN "idle" ELSE "copy") \in {"idle", "copy"}
          /\ (IF last THEN "ok" ELSE call[c].result) \in Results
      BY <2>1 DEF Results
    <2> QED
      BY <2>2 DEF Advance, Types
  <1>3. [call[c] EXCEPT !.done = call[c].done + 1, !.pc = q, !.h = 0, !.j = 0, !.result = r]
            \in CallRecords
    <2>1. call[c].done + 1 \in Nat
      BY <1>1 DEF CallRecords
    <2> QED
      BY <1>1, <1>2, <2>1 DEF CallRecords
  <1> QED
    BY <1>1, <1>2, <1>3 DEF Types, OthersKept, CallRecords

\* A new call begins with nothing done.
LEMMA CallEffect ==
    ASSUME Types, NEW c \in Callers, Call(c)
    PROVE  /\ call' \in [Callers -> CallRecords] /\ OthersKept(c)
           /\ call'[c].pc = "copy" /\ call'[c].h = 0 /\ call'[c].j = 0
           /\ call'[c].try = call[c].try + 1 /\ call'[c].done = 0
           /\ call'[c].result = "none"
  <1>1. call[c] \in CallRecords /\ 0 \in 0..MaxStarts
    BY ClientsAssumption DEF Types
  <1>2. PICK n \in Nat :
            call' = [call EXCEPT ![c] = [pc |-> "copy", h |-> 0, j |-> 0, size |-> n,
                                         try |-> call[c].try + 1, done |-> 0, result |-> "none"]]
    <2> DEFINE B == IF kind \in Publishers \cup {"producer"} THEN MaxBatch ELSE 1
    <2>1. B \in Nat
      BY ClientsAssumption
    <2>2. PICK n \in 1..B :
              call' = [call EXCEPT ![c] = [pc |-> "copy", h |-> 0, j |-> 0, size |-> n,
                                           try |-> call[c].try + 1, done |-> 0, result |-> "none"]]
      BY DEF Call, Types
    <2> HIDE DEF B
    <2>3. n \in Nat
      BY <2>1, <2>2
    <2> QED
      BY <2>2, <2>3, Zenon
  <1>3. [pc |-> "copy", h |-> 0, j |-> 0, size |-> n, try |-> call[c].try + 1, done |-> 0,
         result |-> "none"] \in CallRecords
    BY <1>1 DEF CallRecords, Results
  <1> QED
    BY <1>2, <1>3 DEF Types, OthersKept

\* The copy of the handle.
LEMMA CopyEffect ==
    ASSUME Types, NEW c \in Callers,
           call' = [call EXCEPT ![c].pc = "use", ![c].h = field, ![c].j = js]
    PROVE  /\ call' \in [Callers -> CallRecords] /\ OthersKept(c)
           /\ call'[c].pc = "use" /\ call'[c].h = field /\ call'[c].j = js
           /\ call'[c].try = call[c].try /\ call'[c].size = call[c].size
           /\ call'[c].done = call[c].done
  <1>1. call[c] \in CallRecords /\ field \in 0..MaxStarts /\ js \in 0..MaxStarts
    BY DEF Types
  <1>2. call' = [call EXCEPT ![c] = [call[c] EXCEPT !.pc = "use", !.h = field, !.j = js]]
    BY DEF Types
  <1>3. [call[c] EXCEPT !.pc = "use", !.h = field, !.j = js] \in CallRecords
    BY <1>1 DEF CallRecords
  <1> QED
    BY <1>1, <1>2, <1>3 DEF Types, OthersKept, CallRecords

\* WriteMessages is under way.
LEMMA WriteEffect ==
    ASSUME Types, NEW c \in Callers, call' = [call EXCEPT ![c].pc = "write"]
    PROVE  /\ call' \in [Callers -> CallRecords] /\ OthersKept(c)
           /\ call'[c].pc = "write" /\ call'[c].h = call[c].h /\ call'[c].j = call[c].j
           /\ call'[c].try = call[c].try /\ call'[c].size = call[c].size
           /\ call'[c].done = call[c].done
  <1>1. call[c] \in CallRecords
    BY DEF Types
  <1>2. call' = [call EXCEPT ![c] = [call[c] EXCEPT !.pc = "write"]]
    BY DEF Types
  <1>3. [call[c] EXCEPT !.pc = "write"] \in CallRecords
    BY <1>1 DEF CallRecords
  <1> QED
    BY <1>1, <1>2, <1>3 DEF Types, OthersKept, CallRecords

-----------------------------------------------------------------------------
(* The invariant.                                                          *)

\* A message is accepted when it is sent or in some buffer.
LEMMA AcceptedIs ==
    \A m : m \in Accepted <=> (m \in sent \/ \E g \in Handles : m \in buf[g])
  BY DEF Accepted

\* Before the first Start the inductive invariant holds.
LEMMA InitInv == Init => IndInv
  <1> SUFFICES ASSUME Init PROVE IndInv
    OBVIOUS
  <1> USE ClientsAssumption DEF Init
  <1>1. \A c \in Callers : call[c] \in CallRecords /\ call[c].pc = "idle" /\ call[c].j = 0
                           /\ call[c].done = 0 /\ call[c].result = "none"
    BY DEF CallRecords, Results
  <1>2. \A w \in Handles : worker[w] \in WorkerRecords /\ worker[w].st = "none"
    <2>1. FALSE \in BOOLEAN
      BY Zenon
    <2> QED
      BY <2>1 DEF WorkerRecords
  <1>3. Types
    <2>1. call \in [Callers -> CallRecords]
      BY <1>1
    <2>2. worker \in [Handles -> WorkerRecords]
      BY <1>2
    <2> QED
      BY <2>1, <2>2 DEF Types
  <1>4. FieldIsOpen /\ CopiesMatch /\ OldWritersIdle
    BY <1>1 DEF FieldIsOpen, CopiesMatch, OldWritersIdle
  <1>5. Accepted = {}
    BY DEF Accepted
  <1>6. Batches
    BY <1>1, <1>5 DEF Batches, NoneFromLater, ProducerBatch, CoreBatch, StreamBatch
  <1>7. WorkersPlaced
    BY <1>2 DEF WorkersPlaced
  <1> QED
    BY <1>3, <1>4, <1>6, <1>7 DEF IndInv

\* How a Start ends: a fresh handle is opened and kept, or left as it was or
\* closed; the JetStream context is of the same connection.
LEMMA StartEndsEffect ==
    ASSUME Types, StartEnds
    PROVE  /\ lock = "start" /\ lock' = "free" /\ UNCHANGED <<kind, traffic, workers>>
           /\ \E g \in Handles :
                  /\ sdk[g] = "none"
                  /\ \/ /\ sdk' = [sdk EXCEPT ![g] = "open"]
                        /\ field' = g
                        /\ js' = IF kind = "jetstream" THEN g ELSE js
                     \/ /\ \E st \in {"none", "closed"} : sdk' = [sdk EXCEPT ![g] = st]
                        /\ UNCHANGED <<field, js>>
  BY DEF StartEnds, RedisStart, S3Start, TemporalStart, ProducerStart, PublisherStart, EndStart,
         Unused

\* How a Stop ends, other than the Publisher's: the handle is closed, and a
\* writer has nothing queued or under way.
CloseStop == RedisStop \/ S3Stop \/ TemporalStop \/ ProducerStop

\* All four close the handle in the field and forget it.
LEMMA CloseStopEffect ==
    ASSUME CloseStop
    PROVE  /\ lock = "stop" /\ lock' = "free" /\ kind \notin Publishers
           /\ sdk' = [sdk EXCEPT ![field] = "closed"] /\ field' = 0
           /\ UNCHANGED <<kind, js, traffic, workers>>
           /\ kind = "producer" => Writing(field) = {} /\ buf[field] = {}
  BY DEF CloseStop, RedisStop, S3Stop, TemporalStop, ProducerStop, EndStop, Publishers

\* The steps of a call leave the component and the Worker alone.
LEMMA CallFrame ==
    ASSUME NEW c \in Callers, Call(c) \/ CallStep(c)
    PROVE  UNCHANGED <<kind, lifecycle, workers>>
  BY DEF Call, CallStep, CopyHandle, RedisCall, S3Call, TemporalCall, Use, HookFails,
         WriteMessages, WriteReturns, PublishCore, PublishJetStream

\* The steps of the Worker.
WorkerStep ==
    WorkerStart \/ WorkerStop \/ WorkerStopReturns \/ \E w \in Handles : SDKWorkerStopped(w)

\* They leave everything else alone.
LEMMA WorkerFrame ==
    ASSUME WorkerStep
    PROVE  UNCHANGED <<kind, lifecycle, traffic>>
  BY DEF WorkerStep, WorkerStart, WorkerStop, WorkerStopReturns, SDKWorkerStopped

\* Every step, by what it touches.
LEMMA StepKinds ==
    ASSUME [Next]_vars
    PROVE  \/ StartBegin \/ StartEnds \/ StopBegin \/ CloseStop \/ PublisherStop
           \/ \E c \in Callers : Call(c) \/ CallStep(c)
           \/ \E g \in Handles : DrainEnds(g) \/ Flush(g)
           \/ WorkerStep
           \/ UNCHANGED vars
  BY DEF Next, StopEnds, CloseStop, WorkerStep, LibraryStep

\* What the steps of a call change: the record of its caller, by one of five moves.
LEMMA CallMoves ==
    ASSUME NEW c \in Callers, Call(c) \/ CallStep(c)
    PROVE  \/ Call(c) /\ UNCHANGED <<buf, sent>>
           \/ \E r \in Results : Return(c, r)
           \/ /\ call[c].pc = "copy" /\ lock = "free" /\ field # 0
              /\ call' = [call EXCEPT ![c].pc = "use", ![c].h = field, ![c].j = js]
              /\ UNCHANGED <<buf, sent>>
           \/ /\ kind = "producer" /\ call[c].pc = "use" /\ sdk[call[c].h] = "open"
              /\ call' = [call EXCEPT ![c].pc = "write"]
              /\ UNCHANGED sent
           \/ /\ kind \in Publishers /\ call[c].pc = "use" /\ Advance(c)
  <1>1. CASE Call(c)
    BY <1>1 DEF Call
  <1>2. CASE CopyHandle(c) \/ HookFails(c)
    BY <1>2 DEF CopyHandle, HookFails, Results
  <1>3. CASE RedisCall(c) \/ S3Call(c) \/ TemporalCall(c)
    BY <1>3 DEF RedisCall, S3Call, TemporalCall, Use, Results
  <1>4. CASE WriteMessages(c) \/ WriteReturns(c)
    BY <1>4 DEF WriteMessages, WriteReturns, Results
  <1>5. CASE PublishCore(c) \/ PublishJetStream(c)
    BY <1>5 DEF PublishCore, PublishJetStream, Results, Publishers
  <1> QED
    BY <1>1, <1>2, <1>3, <1>4, <1>5 DEF CallStep

\* The record of a caller keeps its type, and the others' stay as they are.
LEMMA CallTyped ==
    ASSUME Types, NEW c \in Callers, Call(c) \/ CallStep(c)
    PROVE  call' \in [Callers -> CallRecords] /\ OthersKept(c)
  BY CallMoves, ReturnEffect, AdvanceEffect, CallEffect, CopyEffect, WriteEffect

\* The values keep their types.
LEMMA TypesStep == IndInv /\ [Next]_vars => Types'
  <1> SUFFICES ASSUME IndInv, [Next]_vars PROVE Types'
    OBVIOUS
  <1>t. Types
    BY DEF IndInv
  <1>z. 0 \in 0..MaxStarts /\ \A g \in Handles : g \in 0..MaxStarts
    BY ClientsAssumption DEF Handles
  <1>1. CASE StartBegin
    BY <1>1, <1>t DEF Types, StartBegin, traffic, workers
  <1>2. CASE StartEnds
    <2>1. PICK g \in Handles :
              \/ /\ sdk' = [sdk EXCEPT ![g] = "open"] /\ field' = g
                 /\ js' = IF kind = "jetstream" THEN g ELSE js
              \/ /\ \E st \in {"none", "closed"} : sdk' = [sdk EXCEPT ![g] = st]
                 /\ UNCHANGED <<field, js>>
      BY <1>2, <1>t, StartEndsEffect
    <2>2. UNCHANGED <<kind, traffic, workers>> /\ lock' = "free"
      BY <1>2, <1>t, StartEndsEffect
    <2> QED
      BY <2>1, <2>2, <1>t, <1>z DEF Types, traffic, workers
  <1>3. CASE StopBegin
    BY <1>3, <1>t DEF Types, StopBegin, traffic, workers
  <1>4. CASE CloseStop
    BY <1>4, <1>t, <1>z, CloseStopEffect DEF Types, traffic, workers
  <1>5. CASE PublisherStop
    BY <1>5, <1>t, <1>z DEF Types, PublisherStop, workers
  <1>6. ASSUME NEW c \in Callers, Call(c) \/ CallStep(c) PROVE Types'
    <2>1. UNCHANGED <<kind, lifecycle, workers>> /\ call' \in [Callers -> CallRecords]
      BY <1>6, <1>t, CallFrame, CallTyped
    <2>2. buf' \in [Handles -> SUBSET Messages] /\ sent' \subseteq Messages
      <3>1. call[c].try \in Nat /\ call[c].size \in Nat /\ call[c].done \in Nat
        BY <1>t DEF Types, CallRecords
      <3>2. Batch(c) \subseteq Messages /\ Msg(c, call[c].done + 1) \in Messages
        BY <3>1 DEF Batch, Msg, Messages
      <3>3. CASE UNCHANGED <<buf, sent>>
        BY <3>3, <1>t DEF Types
      <3>4. CASE WriteMessages(c) \/ PublishCore(c)
        BY <3>2, <3>4, <1>t DEF Types, WriteMessages, PublishCore
      <3>5. CASE PublishJetStream(c)
        BY <3>2, <3>5, <1>t DEF Types, PublishJetStream
      <3> QED
        BY <1>6, <3>3, <3>4, <3>5
        DEF Call, CallStep, CopyHandle, RedisCall, S3Call, TemporalCall, Use, HookFails,
            WriteReturns
    <2> QED
      BY <2>1, <2>2, <1>t DEF Types, lifecycle, workers
  <1>7. ASSUME NEW g \in Handles, DrainEnds(g) \/ Flush(g) PROVE Types'
    BY <1>7, <1>t DEF Types, DrainEnds, Flush, lifecycle, workers
  <1>8. CASE WorkerStep
    <2>1. wfield' \in 0..MaxStarts /\ wstop' \in 0..MaxStarts
      BY <1>8, <1>t, <1>z
      DEF Types, WorkerStep, WorkerStart, WorkerStop, WorkerStopReturns, SDKWorkerStopped, Unused
    <2>2. \/ worker' = worker
          \/ \E w \in Handles, s \in {"running", "stopped", "stopping"} :
                 worker' = [worker EXCEPT ![w] = [worker[w] EXCEPT !.st = s]]
          \/ \E w \in Handles :
                 worker' = [worker EXCEPT ![w] = [worker[w] EXCEPT !.st = "running", !.on = field]]
          \/ \E w \in Handles : worker' = [worker EXCEPT ![w] = [worker[w] EXCEPT !.late = TRUE]]
      <3>1. wfield # 0 => wfield \in Handles
        BY <1>t DEF Types, Handles
      <3>2. wstop # 0 => wstop \in Handles
        BY <1>t DEF Types, Handles
      <3> QED
        BY <1>8, <1>t, <3>1, <3>2
        DEF Types, WorkerStep, WorkerStart, WorkerStop, WorkerStopReturns, SDKWorkerStopped, Unused
    <2>3. worker' \in [Handles -> WorkerRecords]
      <3>1. field \in 0..MaxStarts /\ TRUE \in BOOLEAN
        BY <1>t DEF Types
      <3>2. \A w \in Handles : worker[w] \in WorkerRecords
        BY <1>t DEF Types
      <3>3. ASSUME NEW w \in Handles, NEW s \in {"running", "stopped", "stopping"}
            PROVE  /\ [worker[w] EXCEPT !.st = s] \in WorkerRecords
                   /\ [worker[w] EXCEPT !.st = "running", !.on = field] \in WorkerRecords
                   /\ [worker[w] EXCEPT !.late = TRUE] \in WorkerRecords
        BY <3>1, <3>2 DEF WorkerRecords
      <3>4. \/ worker' = worker
            \/ \E w \in Handles, v \in WorkerRecords : worker' = [worker EXCEPT ![w] = v]
        BY <2>2, <3>3
      <3> QED
        BY <3>4, <1>t DEF Types
    <2> QED
      BY <1>8, <2>1, <2>3, <1>t, WorkerFrame DEF Types, lifecycle, traffic
  <1>9. CASE UNCHANGED vars
    BY <1>9, <1>t DEF Types, vars, lifecycle, traffic, workers
  <1> QED
    BY <1>1, <1>2, <1>3, <1>4, <1>5, <1>6, <1>7, <1>8, <1>9, StepKinds

\* Start, Stop and a draining connection keep exactly the field's handle open.
LEMMA FieldStep == IndInv /\ [Next]_vars => FieldIsOpen'
  <1> SUFFICES ASSUME IndInv, [Next]_vars PROVE FieldIsOpen'
    OBVIOUS
  <1>t. Types /\ FieldIsOpen
    BY DEF IndInv
  <1>z. 0 \notin Handles /\ (field # 0 => field \in Handles)
    BY <1>t DEF Handles, Types
  <1>1. CASE StartBegin
    BY <1>1, <1>t DEF FieldIsOpen, StartBegin
  <1>2. CASE StartEnds
    <2>1. PICK g \in Handles :
              /\ sdk[g] = "none"
              /\ \/ /\ sdk' = [sdk EXCEPT ![g] = "open"] /\ field' = g
                    /\ js' = IF kind = "jetstream" THEN g ELSE js
                 \/ /\ \E st \in {"none", "closed"} : sdk' = [sdk EXCEPT ![g] = st]
                    /\ UNCHANGED <<field, js>>
      BY <1>2, <1>t, StartEndsEffect
    <2>2. kind' = kind /\ lock' = "free" /\ lock = "start"
      BY <1>2, <1>t, StartEndsEffect
    <2> QED
      BY <2>1, <2>2, <1>t, <1>z DEF Types, FieldIsOpen
  <1>3. CASE StopBegin
    BY <1>3, <1>t, <1>z DEF Types, FieldIsOpen, StopBegin
  <1>4. CASE CloseStop
    BY <1>4, <1>t, <1>z, CloseStopEffect DEF Types, FieldIsOpen, Publishers
  <1>5. CASE PublisherStop
    BY <1>5, <1>t, <1>z DEF Types, FieldIsOpen, PublisherStop
  <1>6. ASSUME NEW c \in Callers, Call(c) \/ CallStep(c) PROVE FieldIsOpen'
    BY <1>6, <1>t, CallFrame DEF FieldIsOpen, lifecycle
  <1>7. ASSUME NEW g \in Handles, DrainEnds(g) \/ Flush(g) PROVE FieldIsOpen'
    BY <1>7, <1>t, <1>z DEF Types, FieldIsOpen, DrainEnds, Flush, lifecycle
  <1>8. CASE WorkerStep
    BY <1>8, <1>t, WorkerFrame DEF FieldIsOpen, lifecycle
  <1>9. CASE UNCHANGED vars
    BY <1>9, <1>t DEF FieldIsOpen, vars, lifecycle
  <1> QED
    BY <1>1, <1>2, <1>3, <1>4, <1>5, <1>6, <1>7, <1>8, <1>9, StepKinds

\* A call copies the handle together with the context that goes with it.
LEMMA CopiesStep == IndInv /\ [Next]_vars => CopiesMatch'
  <1> SUFFICES ASSUME IndInv, [Next]_vars PROVE CopiesMatch'
    OBVIOUS
  <1>t. Types /\ FieldIsOpen /\ CopiesMatch
    BY DEF IndInv
  <1>1. CASE call' = call
    BY <1>1, <1>t DEF CopiesMatch
  <1>2. ASSUME NEW c \in Callers, Call(c) \/ CallStep(c) PROVE CopiesMatch'
    <2>1. /\ call'[c].pc \in {"use", "write"} => call'[c].h # 0
          /\ call'[c].j # 0 => call'[c].j = call'[c].h
      <3>1. CASE Call(c)
        BY <3>1, <1>t, CallEffect
      <3>2. CASE \E r \in Results : Return(c, r)
        BY <3>2, <1>t, ReturnEffect
      <3>3. CASE field # 0 /\ call' = [call EXCEPT ![c].pc = "use", ![c].h = field, ![c].j = js]
        BY <3>3, <1>t, CopyEffect DEF FieldIsOpen
      <3>4. CASE call[c].pc = "use" /\ call' = [call EXCEPT ![c].pc = "write"]
        BY <3>4, <1>t, WriteEffect DEF CopiesMatch
      <3>5. CASE Advance(c)
        BY <3>5, <1>t, AdvanceEffect
      <3> QED
        BY <1>2, <3>1, <3>2, <3>3, <3>4, <3>5, CallMoves
    <2>2. OthersKept(c)
      BY <1>2, <1>t, CallTyped
    <2> QED
      BY <2>1, <2>2, <1>t DEF CopiesMatch, OthersKept
  <1>3. CASE \/ StartBegin \/ StartEnds \/ StopBegin \/ CloseStop \/ PublisherStop
             \/ \E g \in Handles : DrainEnds(g) \/ Flush(g)
             \/ WorkerStep \/ UNCHANGED vars
    <2>1. call' = call
      BY <1>3, <1>t, StartEndsEffect, CloseStopEffect, WorkerFrame
      DEF StartBegin, StopBegin, PublisherStop, DrainEnds, Flush, vars, traffic
    <2> QED
      BY <2>1, <1>1
  <1> QED
    BY <1>2, <1>3, StepKinds

\* A writer is left with nothing queued and no call under way.
LEMMA WritersStep == IndInv /\ [Next]_vars => OldWritersIdle'
  <1> SUFFICES ASSUME IndInv, [Next]_vars PROVE OldWritersIdle'
    OBVIOUS
  <1>t. Types /\ FieldIsOpen /\ OldWritersIdle /\ CopiesMatch
    BY DEF IndInv
  <1>1. CASE StartBegin \/ StopBegin \/ WorkerStep \/ UNCHANGED vars
    <2>1. UNCHANGED <<kind, field, call, buf>>
      BY <1>1, WorkerFrame DEF StartBegin, StopBegin, vars, lifecycle, traffic
    <2> QED
      BY <2>1, <1>t DEF OldWritersIdle
  <1>2. CASE StartEnds
    <2>1. UNCHANGED <<kind, call, buf>> /\ field = 0
      BY <1>2, <1>t, StartEndsEffect DEF traffic, FieldIsOpen
    <2>2. 0 \notin Handles
      BY DEF Handles
    <2> QED
      BY <2>1, <2>2, <1>t DEF OldWritersIdle
  <1>3. CASE CloseStop
    <2>1. UNCHANGED <<kind, call, buf>> /\ field' = 0
          /\ (kind = "producer" => Writing(field) = {} /\ buf[field] = {})
      BY <1>3, CloseStopEffect DEF traffic
    <2> QED
      BY <2>1, <1>t DEF OldWritersIdle, Writing
  <1>4. CASE PublisherStop
    BY <1>4 DEF OldWritersIdle, PublisherStop, Publishers
  <1>5. ASSUME NEW c \in Callers, Call(c) \/ CallStep(c) PROVE OldWritersIdle'
    <2> SUFFICES ASSUME kind = "producer" PROVE OldWritersIdle'
      BY <1>5, CallFrame DEF OldWritersIdle
    <2>1. UNCHANGED <<kind, field>> /\ OthersKept(c)
      BY <1>5, <1>t, CallFrame, CallTyped DEF lifecycle
    <2>2. CASE call'[c].pc # "write" /\ buf' = buf
      BY <2>1, <2>2, <1>t DEF OldWritersIdle, OthersKept
    <2>3. CASE WriteMessages(c) /\ sdk[call[c].h] = "open"
      <3>1. call[c].h = field
        <4>1. call[c].h \in Handles
          BY <2>3, <1>t DEF WriteMessages, CopiesMatch, Types, CallRecords, Handles
        <4> QED
          BY <2>3, <4>1, <1>t DEF FieldIsOpen
      <3>2. call' = [call EXCEPT ![c].pc = "write"] /\ \A g \in Handles : g # field => buf'[g] = buf[g]
        BY <2>3, <3>1, <1>t DEF WriteMessages, Types
      <3>3. call'[c].h = field
        BY <3>1, <3>2, <1>t, WriteEffect
      <3> QED
        BY <2>1, <3>2, <3>3, <1>t DEF OldWritersIdle, OthersKept
    <2>4. CASE buf' = buf /\ (Call(c) \/ \E r \in Results : Return(c, r))
      BY <2>2, <2>4, <1>t, CallEffect, ReturnEffect
    <2>5. CASE CopyHandle(c)
      BY <2>2, <2>5, <1>t, CopyEffect, ReturnEffect DEF CopyHandle, Results
    <2> QED
      BY <1>5, <2>3, <2>4, <2>5
      DEF Call, CallStep, CopyHandle, RedisCall, S3Call, TemporalCall, Use, HookFails,
          WriteMessages, WriteReturns, PublishCore, PublishJetStream, Results
  <1>6. ASSUME NEW g \in Handles, DrainEnds(g) \/ Flush(g) PROVE OldWritersIdle'
    <2>1. UNCHANGED <<kind, field, call>> /\ buf' = [buf EXCEPT ![g] = {}]
      BY <1>6 DEF DrainEnds, Flush, lifecycle
    <2> QED
      BY <2>1, <1>t DEF OldWritersIdle, Types
  <1> QED
    BY <1>1, <1>2, <1>3, <1>4, <1>5, <1>6, StepKinds

\* Workers run on the client that is open, until their Stop returns.
LEMMA WorkersStep == IndInv /\ [Next]_vars => WorkersPlaced'
  <1> SUFFICES ASSUME IndInv, [Next]_vars PROVE WorkersPlaced'
    OBVIOUS
  <1>t. Types /\ FieldIsOpen /\ WorkersPlaced
    BY DEF IndInv
  <1>z. /\ 0 \notin Handles
        /\ wfield # 0 => wfield \in Handles
        /\ wstop # 0 => wstop \in Handles
    BY <1>t DEF Handles, Types
  <1>1. CASE StartBegin \/ StopBegin
    BY <1>1, <1>t DEF WorkersPlaced, StartBegin, StopBegin, workers
  <1>2. CASE StartEnds
    BY <1>2, <1>t, StartEndsEffect DEF WorkersPlaced, workers
  <1>3. CASE CloseStop
    BY <1>3, <1>t, CloseStopEffect DEF WorkersPlaced, workers
  <1>4. CASE PublisherStop
    BY <1>4, <1>t DEF WorkersPlaced, PublisherStop, workers
  <1>5. CASE \/ \E c \in Callers : Call(c) \/ CallStep(c)
             \/ \E g \in Handles : DrainEnds(g) \/ Flush(g)
             \/ UNCHANGED vars
    <2>1. UNCHANGED <<kind, lock, field, workers>>
      BY <1>5, CallFrame DEF DrainEnds, Flush, vars, lifecycle
    <2> QED
      BY <2>1, <1>t DEF WorkersPlaced, workers
  <1>6. CASE WorkerStart
    <2>1. UNCHANGED <<kind, lock, field, wstop>> /\ kind = "temporal" /\ wfield = 0
          /\ lock = "free" /\ field # 0
      BY <1>6 DEF WorkerStart, lifecycle
    <2>2. PICK w \in Handles :
              /\ worker[w].st = "none"
              /\ \/ /\ worker' = [worker EXCEPT ![w].st = "running", ![w].on = field]
                    /\ wfield' = w
                 \/ worker' = [worker EXCEPT ![w].st = "stopped"] /\ UNCHANGED wfield
      BY <1>6 DEF WorkerStart, Unused
    <2>3. \A v \in Handles : v # w => worker'[v] = worker[v]
      BY <2>2, <1>t DEF Types
    <2>4. \/ worker'[w].st = "running" /\ worker'[w].on = field /\ wfield' = w
          \/ /\ worker'[w].st = "stopped" /\ worker'[w].on = worker[w].on /\ wfield' = wfield
      BY <2>2, <1>t DEF Types, WorkerRecords
    <2>5. worker'[w].on = worker[w].on \/ worker'[w].on = field
      BY <2>4
    <2> QED
      BY <2>1, <2>2, <2>3, <2>4, <2>5, <1>t, <1>z DEF WorkersPlaced
  <1>7. CASE WorkerStop
    <2>1. UNCHANGED <<kind, lock, field>> /\ wfield \in Handles /\ wstop = 0 /\ wfield' = 0
          /\ wstop' = wfield
      BY <1>7, <1>z DEF WorkerStop, lifecycle
    <2>2. /\ \A v \in Handles : v # wfield => worker'[v] = worker[v]
          /\ worker'[wfield].st = "stopping" /\ worker'[wfield].on = worker[wfield].on
      BY <1>7, <2>1, <1>t DEF WorkerStop, Types, WorkerRecords
    <2> QED
      BY <2>1, <2>2, <1>t, <1>z DEF WorkersPlaced
  <1>8. CASE WorkerStopReturns
    <2>1. UNCHANGED <<kind, lock, field, wfield>> /\ wstop \in Handles /\ wstop' = 0
      BY <1>8, <1>z DEF WorkerStopReturns, lifecycle
    <2>2. /\ \A v \in Handles : v # wstop => worker'[v] = worker[v]
          /\ worker'[wstop].on = worker[wstop].on /\ worker'[wstop].st = worker[wstop].st
          /\ worker[wstop].st = "stopped" \/ worker'[wstop].late
      BY <1>8, <2>1, <1>t DEF WorkerStopReturns, Types, WorkerRecords
    <2> QED
      BY <2>1, <2>2, <1>t, <1>z DEF WorkersPlaced
  <1>9. ASSUME NEW w \in Handles, SDKWorkerStopped(w) PROVE WorkersPlaced'
    <2>1. UNCHANGED <<kind, lock, field, wfield, wstop>>
      BY <1>9 DEF SDKWorkerStopped, lifecycle
    <2>2. /\ \A v \in Handles : v # w => worker'[v] = worker[v]
          /\ worker'[w].on = worker[w].on /\ worker'[w].st = "stopped"
      BY <1>9, <1>t DEF SDKWorkerStopped, Types, WorkerRecords
    <2> QED
      BY <2>1, <2>2, <1>t, <1>z DEF WorkersPlaced
  <1> QED
    BY <1>1, <1>2, <1>3, <1>4, <1>5, <1>6, <1>7, <1>8, <1>9, StepKinds DEF WorkerStep

\* Accepted messages have a caller, a call and a place in the batch.
LEMMA AcceptedTyped ==
    ASSUME Types
    PROVE  /\ \A m \in Accepted : m[1] \in Callers /\ m[2] \in Nat /\ m[3] \in Nat
           /\ \A c \in Callers : /\ call[c].try \in Nat /\ call[c].size \in Nat
                                 /\ call[c].done \in Nat
  <1>1. Accepted \subseteq Messages
    BY AcceptedIs DEF Types
  <1> QED
    BY <1>1 DEF Types, Messages, CallRecords

\* Sending what is queued, or dropping it, adds nothing to what was accepted.
LEMMA SendingKeepsBatches ==
    ASSUME Types, Batches, UNCHANGED <<kind, call>>, sent \subseteq sent',
           Accepted' \subseteq Accepted,
           kind = "jetstream" => sent' = sent /\ \A g \in Handles : buf'[g] = {}
    PROVE  Batches'
  <1>1. NoneFromLater' /\ CoreBatch'
    BY DEF Batches, NoneFromLater, CoreBatch
  <1>2. ProducerBatch'
    <2>1. \A c \in Callers : /\ NothingOut(c) => NothingOut(c)'
                             /\ Batch(c)' = Batch(c)
      BY DEF NothingOut, Batch, Msg
    <2> QED
      BY <2>1 DEF Batches, ProducerBatch
  <1>3. StreamBatch'
    BY DEF Batches, StreamBatch
  <1> QED
    BY <1>1, <1>2, <1>3 DEF Batches

\* A step of a call that hands nothing to the library and is done with no more.
LEMMA QuietKeepsBatches ==
    ASSUME Types, Batches, NEW c \in Callers, UNCHANGED <<kind, buf, sent>>, OthersKept(c),
           call'[c].try = call[c].try, call'[c].size = call[c].size,
           call'[c].done = call[c].done,
           kind = "producer" =>
               /\ \/ call'[c].pc \in {"copy", "use"}
                  \/ call'[c].pc = "idle" /\ call'[c].result \in {"hook", "refused"}
                  => NothingOut(c)
               /\ call'[c].pc = "idle" /\ call'[c].result = "ok" => Batch(c) \subseteq sent
    PROVE  Batches'
  <1>1. Accepted' = Accepted
    BY DEF Accepted
  <1>2. \A d \in Callers : /\ call'[d].try = call[d].try /\ call'[d].done = call[d].done
                           /\ call'[d].size = call[d].size
    BY DEF OthersKept
  <1>3. NoneFromLater' /\ CoreBatch'
    BY <1>1, <1>2, AcceptedTyped DEF Batches, NoneFromLater, CoreBatch
  <1>4. ProducerBatch'
    <2>1. \A d \in Callers : NothingOut(d)' = NothingOut(d) /\ Batch(d)' = Batch(d)
      BY <1>1, <1>2 DEF NothingOut, Batch, Msg
    <2> QED
      BY <2>1 DEF Batches, ProducerBatch, OthersKept
  <1>5. StreamBatch'
    BY <1>2, AcceptedIs, AcceptedTyped DEF Batches, StreamBatch
  <1> QED
    BY <1>3, <1>4, <1>5 DEF Batches

\* A new call has a number of its own, under which nothing was accepted yet.
LEMMA CallKeepsBatches ==
    ASSUME Types, Batches, NEW c \in Callers, Call(c)
    PROVE  Batches'
  <1>e. /\ call'[c].pc = "copy" /\ call'[c].try = call[c].try + 1 /\ call'[c].done = 0
        /\ OthersKept(c)
    BY CallEffect
  <1>f. UNCHANGED <<kind, buf, sent>>
    BY DEF Call
  <1>1. Accepted' = Accepted
    BY <1>f DEF Accepted
  <1>2. \A m \in Accepted : m[1] = c => m[2] # call'[c].try /\ m[2] <= call'[c].try
    BY <1>e, AcceptedTyped DEF Batches, NoneFromLater
  <1>3. NoneFromLater'
    BY <1>e, <1>1, <1>2, AcceptedTyped DEF Batches, NoneFromLater, OthersKept
  <1>4. CoreBatch'
    BY <1>e, <1>f, <1>1, <1>2, AcceptedTyped DEF Batches, CoreBatch, OthersKept
  <1>5. ProducerBatch'
    <2>1. \A d \in Callers \ {c} : NothingOut(d)' = NothingOut(d) /\ Batch(d)' = Batch(d)
      BY <1>e, <1>1 DEF NothingOut, Batch, Msg, OthersKept
    <2>2. NothingOut(c)'
      BY <1>1, <1>2 DEF NothingOut
    <2> QED
      BY <1>e, <1>f, <2>1, <2>2 DEF Batches, ProducerBatch, OthersKept
  <1>6. StreamBatch'
    <2>1. \A m \in sent : m \in Accepted /\ m[1] \in Callers /\ m[2] <= call[m[1]].try
      BY AcceptedIs, AcceptedTyped DEF Batches, NoneFromLater
    <2>2. \A m \in sent : m[1] = c => m[2] # call'[c].try
      BY <2>1, <1>e, AcceptedTyped
    <2>3. kind = "jetstream" =>
              \A m \in sent : m[2] = call'[m[1]].try => m[3] \in 1..(call'[m[1]].done + 1)
      BY <2>1, <2>2, <1>e DEF Batches, StreamBatch, OthersKept
    <2> QED
      BY <2>3, <1>e, <1>f DEF Batches, StreamBatch, OthersKept
  <1> QED
    BY <1>3, <1>4, <1>5, <1>6 DEF Batches

\* What WriteMessages queues is of the call under way.
LEMMA WriteKeepsBatches ==
    ASSUME Types, Batches, NEW c \in Callers, kind = "producer", UNCHANGED <<kind, sent>>,
           call[c].h \in Handles, call' = [call EXCEPT ![c].pc = "write"],
           buf' = [buf EXCEPT ![call[c].h] = @ \cup Batch(c)]
    PROVE  Batches'
  <1>e. /\ call'[c].pc = "write" /\ call'[c].try = call[c].try /\ OthersKept(c)
        /\ call'[c].size = call[c].size
    BY WriteEffect
  <1>1. \A m \in Accepted' : m \in Accepted \/ m \in Batch(c)
    BY AcceptedIs DEF Types, Accepted
  <1>2. \A m \in Batch(c) : m[1] = c /\ m[2] = call[c].try
    BY DEF Batch, Msg
  <1>3. NoneFromLater'
    BY <1>e, <1>1, <1>2, AcceptedTyped DEF Batches, NoneFromLater, OthersKept
  <1>4. ProducerBatch'
    <2>1. \A d \in Callers \ {c} : (NothingOut(d) => NothingOut(d)') /\ Batch(d)' = Batch(d)
      BY <1>e, <1>1, <1>2 DEF NothingOut, Batch, Msg, OthersKept
    <2> QED
      BY <1>e, <2>1 DEF Batches, ProducerBatch, OthersKept
  <1>5. CoreBatch' /\ StreamBatch'
    BY DEF CoreBatch, StreamBatch
  <1> QED
    BY <1>3, <1>4, <1>5 DEF Batches

\* The message a core publish buffers is the next one of its batch.
LEMMA CoreKeepsBatches ==
    ASSUME Types, Batches, NEW c \in Callers, kind = "core", UNCHANGED <<kind, sent>>,
           call[c].h \in Handles, Advance(c),
           buf' = [buf EXCEPT ![call[c].h] = @ \cup {Msg(c, call[c].done + 1)}]
    PROVE  Batches'
  <1>e. /\ call'[c].try = call[c].try /\ OthersKept(c) /\ call'[c].done = call[c].done + 1
    BY AdvanceEffect
  <1>1. \A m \in Accepted' : m \in Accepted \/ m = Msg(c, call[c].done + 1)
    BY AcceptedIs DEF Types, Accepted
  <1>2. LET m == Msg(c, call[c].done + 1)
        IN  m[1] = c /\ m[2] = call[c].try /\ m[3] = call[c].done + 1
    BY DEF Msg
  <1>3. NoneFromLater'
    BY <1>e, <1>1, <1>2, AcceptedTyped DEF Batches, NoneFromLater, OthersKept
  <1>4. CoreBatch'
    BY <1>e, <1>1, <1>2, AcceptedTyped DEF Batches, CoreBatch, OthersKept
  <1>5. ProducerBatch' /\ StreamBatch'
    BY DEF ProducerBatch, StreamBatch
  <1> QED
    BY <1>3, <1>4, <1>5 DEF Batches

\* A JetStream publish stores its message, unless one with the same key is there,
\* and the call goes on only after that.
LEMMA StreamKeepsBatches ==
    ASSUME Types, Batches, NEW c \in Callers, PublishJetStream(c)
    PROVE  Batches'
  <1> DEFINE m == Msg(c, call[c].done + 1)
             seen == \E o \in sent : Key(o) = Key(m)
  <1>f. kind = "jetstream" /\ UNCHANGED <<kind, buf>>
    BY DEF PublishJetStream
  <1>1. /\ m[1] = c /\ m[2] = call[c].try /\ m[3] = call[c].done + 1
        /\ Key(m) = <<c, call[c].done + 1>>
    BY DEF Msg, Key
  <1>2. /\ sent' = sent \/ sent' = sent \cup {m}
        /\ \/ Advance(c) /\ ((seen /\ sent' = sent) \/ sent' = sent \cup {m})
           \/ Return(c, "error")
    BY DEF PublishJetStream
  <1>e. /\ call'[c].try = call[c].try /\ OthersKept(c)
        /\ \/ call'[c].done = call[c].done
           \/ /\ call'[c].done = call[c].done + 1
              /\ \E o \in sent' : Key(o) = <<c, call[c].done + 1>>
    <2>1. CASE Return(c, "error")
      BY <2>1, ReturnEffect DEF Results
    <2>2. CASE Advance(c) /\ ((seen /\ sent' = sent) \/ sent' = sent \cup {m})
      <3>1. \E o \in sent' : Key(o) = Key(m)
        BY <2>2
      <3> QED
        BY <2>2, <3>1, <1>1, AdvanceEffect
    <2> QED
      BY <1>2, <2>1, <2>2
  <1> HIDE DEF m
  <1>3. \A o \in Accepted' : o \in Accepted \/ o = m
    BY <1>2, <1>f DEF Accepted
  <1>4. NoneFromLater'
    BY <1>e, <1>1, <1>3, AcceptedTyped DEF Batches, NoneFromLater, OthersKept
  <1>5. StreamBatch'
    <2>1. \A o \in sent' : o[2] = call'[o[1]].try => o[3] \in 1..(call'[o[1]].done + 1)
      BY <1>1, <1>2, <1>e, <1>f, AcceptedIs, AcceptedTyped DEF Batches, StreamBatch, OthersKept
    <2>2. \A d \in Callers : \A i \in 1..call'[d].done : \E o \in sent' : Key(o) = <<d, i>>
      <3> SUFFICES ASSUME NEW d \in Callers, NEW i \in 1..call'[d].done
                   PROVE  \E o \in sent' : Key(o) = <<d, i>>
        OBVIOUS
      <3>1. CASE i \in 1..call[d].done
        BY <3>1, <1>2, <1>f DEF Batches, StreamBatch
      <3>2. CASE d = c /\ i = call[c].done + 1 /\ call'[c].done = call[c].done + 1
        BY <3>2, <1>e, AcceptedTyped
      <3> QED
        BY <3>1, <3>2, <1>e, AcceptedTyped DEF OthersKept
    <2> QED
      BY <2>1, <2>2, <1>f DEF Batches, StreamBatch
  <1>6. ProducerBatch' /\ CoreBatch'
    BY <1>f DEF ProducerBatch, CoreBatch
  <1> QED
    BY <1>4, <1>5, <1>6 DEF Batches

\* What has been accepted of each batch follows the call.
LEMMA BatchesStep == IndInv /\ [Next]_vars => Batches'
  <1> SUFFICES ASSUME IndInv, [Next]_vars PROVE Batches'
    OBVIOUS
  <1>t. Types /\ FieldIsOpen /\ CopiesMatch /\ Batches
    BY DEF IndInv
  <1>1. CASE StartBegin \/ StartEnds \/ StopBegin \/ CloseStop \/ WorkerStep \/ UNCHANGED vars
    <2>1. UNCHANGED <<kind, call, buf, sent>>
      BY <1>1, <1>t, StartEndsEffect, CloseStopEffect, WorkerFrame
      DEF StartBegin, StopBegin, vars, traffic
    <2>2. Accepted' = Accepted
      BY <2>1 DEF Accepted
    <2> QED
      BY <2>1, <2>2, <1>t, SendingKeepsBatches DEF Batches, StreamBatch
  <1>2. CASE PublisherStop
    <2>1. /\ UNCHANGED <<kind, call, sent>>
          /\ \A g \in Handles : buf'[g] \subseteq buf[g]
      BY <1>2, <1>t DEF PublisherStop, Types
    <2>2. Accepted' \subseteq Accepted
      BY <2>1 DEF Accepted
    <2> QED
      BY <2>1, <2>2, <1>t, SendingKeepsBatches DEF Batches, StreamBatch
  <1>3. ASSUME NEW g \in Handles, DrainEnds(g) \/ Flush(g) PROVE Batches'
    <2>1. /\ UNCHANGED <<kind, call>> /\ buf' = [buf EXCEPT ![g] = {}]
          /\ sent \subseteq sent' /\ sent' \subseteq sent \cup buf[g]
      BY <1>3 DEF DrainEnds, Flush
    <2>2. Accepted' \subseteq Accepted
      <3>1. \A k \in Handles : buf'[k] \subseteq buf[k]
        BY <2>1, <1>t DEF Types
      <3> QED
        BY <2>1, <3>1 DEF Accepted
    <2>3. kind = "jetstream" => sent' = sent /\ \A k \in Handles : buf'[k] = {}
      BY <2>1, <1>t DEF Types, Batches, StreamBatch
    <2> QED
      BY <2>1, <2>2, <2>3, <1>t, SendingKeepsBatches
  <1>4. ASSUME NEW c \in Callers, Call(c) \/ CallStep(c) PROVE Batches'
    <2>k. call[c].pc \in {"use", "write"} => call[c].h \in Handles
      BY <1>t DEF CopiesMatch, Types, CallRecords, Handles
    <2>o. OthersKept(c) /\ kind' = kind
      BY <1>4, <1>t, CallTyped, CallFrame
    <2>1. ASSUME NEW r \in Results, Return(c, r), UNCHANGED <<buf, sent>>,
                 kind = "producer" =>
                     /\ r \in {"hook", "refused"} => call[c].pc \in {"copy", "use"}
                     /\ r = "ok" => Batch(c) \subseteq sent
          PROVE  Batches'
      <3>1. /\ call'[c].pc = "idle" /\ call'[c].result = r /\ call'[c].try = call[c].try
            /\ call'[c].size = call[c].size /\ call'[c].done = call[c].done
        BY <2>1, <1>t, ReturnEffect
      <3>2. kind = "producer" /\ r \in {"hook", "refused"} => NothingOut(c)
        BY <2>1, <1>t DEF Batches, ProducerBatch
      <3> QED
        BY <2>1, <3>1, <3>2, <2>o, <1>t, QuietKeepsBatches
    <2>2. CASE Call(c)
      BY <2>2, <1>t, CallKeepsBatches
    <2>3. CASE CopyHandle(c)
      <3>1. CASE field = 0
        BY <2>1, <2>3, <3>1 DEF CopyHandle, Results
      <3>2. CASE field # 0
        <4>1. call' = [call EXCEPT ![c].pc = "use", ![c].h = field, ![c].j = js]
              /\ UNCHANGED <<buf, sent>> /\ call[c].pc = "copy"
          BY <2>3, <3>2 DEF CopyHandle
        <4>2. /\ call'[c].pc = "use" /\ call'[c].try = call[c].try
              /\ call'[c].size = call[c].size /\ call'[c].done = call[c].done
          BY <4>1, <1>t, CopyEffect
        <4>3. kind = "producer" => NothingOut(c)
          BY <4>1, <1>t DEF Batches, ProducerBatch
        <4> QED
          BY <4>1, <4>2, <4>3, <2>o, <1>t, QuietKeepsBatches
      <3> QED
        BY <3>1, <3>2
    <2>4. CASE RedisCall(c) \/ S3Call(c) \/ TemporalCall(c)
      BY <2>1, <2>4 DEF RedisCall, S3Call, TemporalCall, Use, Results
    <2>5. CASE HookFails(c)
      BY <2>1, <2>5 DEF HookFails, Results
    <2>6. CASE WriteMessages(c)
      <3>1. CASE Return(c, "error") /\ UNCHANGED buf
        BY <2>1, <2>6, <3>1 DEF WriteMessages, Results
      <3>2. CASE /\ call' = [call EXCEPT ![c].pc = "write"]
                 /\ buf' = [buf EXCEPT ![call[c].h] = @ \cup Batch(c)]
        <4>1. kind = "producer" /\ UNCHANGED <<kind, sent>> /\ call[c].pc = "use"
          BY <2>6 DEF WriteMessages
        <4> QED
          BY <4>1, <3>2, <2>k, <1>t, WriteKeepsBatches
      <3> QED
        BY <2>6, <3>1, <3>2 DEF WriteMessages
    <2>7. CASE WriteReturns(c)
      BY <2>1, <2>7 DEF WriteReturns, Results
    <2>8. CASE PublishCore(c)
      <3>1. CASE Return(c, "error") /\ UNCHANGED buf
        BY <2>1, <2>8, <3>1 DEF PublishCore, Results
      <3>2. CASE /\ buf' = [buf EXCEPT ![call[c].h] = @ \cup {Msg(c, call[c].done + 1)}]
                 /\ Advance(c)
        <4>1. kind = "core" /\ UNCHANGED <<kind, sent>> /\ call[c].pc = "use"
          BY <2>8 DEF PublishCore
        <4> QED
          BY <4>1, <3>2, <2>k, <1>t, CoreKeepsBatches
      <3> QED
        BY <2>8, <3>1, <3>2 DEF PublishCore
    <2>9. CASE PublishJetStream(c)
      BY <2>9, <1>t, StreamKeepsBatches
    <2> QED
      BY <1>4, <2>2, <2>3, <2>4, <2>5, <2>6, <2>7, <2>8, <2>9 DEF CallStep
  <1> QED
    BY <1>1, <1>2, <1>3, <1>4, StepKinds

-----------------------------------------------------------------------------
\* The inductive invariant holds throughout: for every component, number of
\* callers, of restarts and of messages in a batch.
THEOREM Invariance == Spec => []IndInv
  <1>1. IndInv /\ [Next]_vars => IndInv'
    BY TypesStep, FieldStep, CopiesStep, WritersStep, BatchesStep, WorkersStep DEF IndInv
  <1> QED
    BY InitInv, <1>1, PTL DEF Spec

\* No way through Start and Stop leaks a handle, or keeps one that is closed, and
\* no call uses the JetStream context of another connection than its own.
THEOREM NoHandleLeaks == Spec => []HandlesAccounted
  <1>1. IndInv => HandlesAccounted
    <2> SUFFICES ASSUME IndInv PROVE HandlesAccounted
      OBVIOUS
    <2>1. 0 \notin Handles
      BY DEF Handles
    <2> QED
      BY <2>1 DEF IndInv, FieldIsOpen, CopiesMatch, HandlesAccounted
  <1> QED
    BY Invariance, <1>1, PTL

\* Stop of the Producer returns only when the writer is flushed.
THEOREM ProducerFlushed == Spec => []StopFlushesProducer
  <1>1. IndInv => StopFlushesProducer
    BY DEF IndInv, OldWritersIdle, StopFlushesProducer, Writing
  <1> QED
    BY Invariance, <1>1, PTL

\* The result of PublishBatch says what it says of the messages that were sent:
\* nil that all were, a failed hook that none was, a failed Publish which.
THEOREM BatchResultTrue == Spec => []BatchOutcome
  <1>1. IndInv => BatchOutcome
    <2> SUFFICES ASSUME IndInv, NEW c \in Callers
                 PROVE  LET out == {m \in sent \cup UNION {buf[g] : g \in Handles} :
                                       m[1] = c /\ m[2] = call[c].try}
                        IN /\ kind = "producer" /\ call[c].pc = "idle" =>
                                  /\ call[c].result = "ok" => Batch(c) \subseteq sent
                                  /\ call[c].result \in {"hook", "refused"} => out = {}
                           /\ kind = "core" => out \subseteq {Msg(c, i) : i \in 1..call[c].done}
                           /\ kind = "jetstream" =>
                                  /\ \A i \in 1..call[c].done :
                                         \E m \in sent : Key(m) = <<c, i>>
                                  /\ out \subseteq {Msg(c, i) : i \in 1..(call[c].done + 1)}
      BY DEF BatchOutcome
    <2> DEFINE out == {m \in Accepted : m[1] = c /\ m[2] = call[c].try}
    <2>1. kind = "producer" /\ call[c].pc = "idle" =>
              /\ call[c].result = "ok" => Batch(c) \subseteq sent
              /\ call[c].result \in {"hook", "refused"} => out = {}
      BY DEF IndInv, Batches, ProducerBatch, NothingOut
    <2>2. kind = "core" => out \subseteq {Msg(c, i) : i \in 1..call[c].done}
      <3> SUFFICES ASSUME kind = "core", NEW m \in out
                   PROVE  m \in {Msg(c, i) : i \in 1..call[c].done}
        OBVIOUS
      <3>1. m \in Messages
        BY AcceptedIs DEF IndInv, Types
      <3>2. m = <<m[1], m[2], m[3]>>
        BY <3>1 DEF Messages
      <3>3. m[3] \in 1..call[c].done
        BY DEF IndInv, Batches, CoreBatch
      <3>4. m = Msg(c, m[3])
        BY <3>2 DEF Msg
      <3> QED
        BY <3>3, <3>4
    <2>3. kind = "jetstream" => \A i \in 1..call[c].done : \E m \in sent : Key(m) = <<c, i>>
      BY DEF IndInv, Batches, StreamBatch
    <2>4. kind = "jetstream" => out \subseteq {Msg(c, i) : i \in 1..(call[c].done + 1)}
      <3> SUFFICES ASSUME kind = "jetstream", NEW m \in out
                   PROVE  m \in {Msg(c, i) : i \in 1..(call[c].done + 1)}
        OBVIOUS
      <3>1. m \in sent
        BY AcceptedIs DEF IndInv, Batches, StreamBatch
      <3>2. m = <<m[1], m[2], m[3]>>
        BY <3>1 DEF IndInv, Types, Messages
      <3>3. m[3] \in 1..(call[c].done + 1)
        BY <3>1 DEF IndInv, Batches, StreamBatch
      <3>4. m = Msg(c, m[3])
        BY <3>2 DEF Msg
      <3> QED
        BY <3>3, <3>4
    <2> QED
      BY <2>1, <2>2, <2>3, <2>4 DEF Accepted
  <1> QED
    BY Invariance, <1>1, PTL

\* An SDK worker outlives its Worker or its client only when its Stop timed out.
THEOREM NoWorkerForgotten == Spec => []WorkerOutlived
  <1>1. IndInv => WorkerOutlived
    <2> SUFFICES ASSUME IndInv, NEW w \in Handles,
                        worker[w].st \in {"running", "stopping"}, ~worker[w].late
                 PROVE  w \in {wfield, wstop} /\ sdk[worker[w].on] = "open"
      BY DEF WorkerOutlived
    <2>1. w # 0 /\ w \in {wfield, wstop}
      BY DEF IndInv, WorkersPlaced, Handles
    <2>2. worker[w].on = field /\ field # 0 /\ lock = "free"
      BY <2>1 DEF IndInv, WorkersPlaced
    <2> QED
      BY <2>1, <2>2 DEF IndInv, FieldIsOpen
  <1> QED
    BY Invariance, <1>1, PTL

-----------------------------------------------------------------------------
(* Service discovery, the client of the registry (module Discovery).       *)

Lists == [at : Nat, inst : SUBSET Instances]

WatchRecords ==
    [pc : {"none", "query", "backoff", "send", "closed"}, wait : Nat, list : Lists,
     recv : {"none", "range", "store", "done"}, got : Lists, ctx : BOOLEAN, ok : BOOLEAN]

\* The goroutines are those of the Starts made so far, and while the resolver is
\* stopped those of a Start that succeeded have ended.
WatchesFollowRun ==
    /\ index \in Nat /\ watch \in [Watches -> WatchRecords]
    /\ run \in [n : 0..MaxWatches, st : {"stopped", "started", "waiting"}]
    /\ \A w \in Watches :
           /\ w > run.n => watch[w].pc = "none"
           /\ w <= run.n => watch[w].recv # "none"
           /\ w < run.n /\ watch[w].ok => watch[w].recv = "done"
           /\ w = run.n /\ run.st = "stopped" /\ watch[w].ok => watch[w].recv = "done"

\* A step of one goroutine of a Start, which neither revives the one that stores
\* nor forgets how Start ended.
LEMMA GoroutineStep ==
    ASSUME WatchesFollowRun, NEW w \in Watches, NEW r \in WatchRecords,
           watch' = [watch EXCEPT ![w] = r], UNCHANGED <<index, run>>,
           r.ok = watch[w].ok, watch[w].pc = "none" => r.pc = "none",
           watch[w].recv # "none" => r.recv # "none",
           watch[w].recv = "done" => r.recv = "done"
    PROVE  WatchesFollowRun'
  <1>1. watch' \in [Watches -> WatchRecords]
    BY DEF WatchesFollowRun
  <1>2. \A k \in Watches : watch'[k] = IF k = w THEN r ELSE watch[k]
    BY DEF WatchesFollowRun
  <1> QED
    BY <1>1, <1>2 DEF WatchesFollowRun

\* The lists that goroutines pass on are well-typed.
LEMMA ListTypes ==
    ASSUME index \in Nat
    PROVE  NoList \in Lists /\ Healthy \in Lists
  <1>1. {} \in SUBSET Instances /\ {i \in Instances : entry[i] = "passing"} \in SUBSET Instances
    OBVIOUS
  <1> QED
    BY <1>1 DEF NoList, Healthy, Lists

\* Watch and range loops keep the invariant.
LEMMA WatcherSteps ==
    ASSUME WatchesFollowRun, NEW w \in Watches, Consul(w) \/ Watcher(w)
    PROVE  WatchesFollowRun'
  <1> DEFINE o == watch[w]
  <1>0. o \in WatchRecords /\ index \in Nat /\ NoList \in Lists /\ Healthy \in Lists
    BY ListTypes DEF WatchesFollowRun
  <1>l. o.list \in Lists
    BY <1>0 DEF WatchRecords
  <1>1. UNCHANGED <<index, run>>
    BY DEF Consul, Watcher, WatchQuery, WatchQueryFails, WatchBackoff, WatchEnds,
           WatchSend, StoreUpdate, RangeEnds, Others, registry
  <1>2. PICK r : /\ watch' = [watch EXCEPT ![w] = r]
                 /\ \/ /\ o.pc = "query"
                       /\ r = [o EXCEPT !.pc = "send", !.wait = index, !.list = Healthy]
                    \/ o.pc = "query" /\ r = [o EXCEPT !.pc = "backoff"]
                    \/ o.pc = "backoff" /\ r = [o EXCEPT !.pc = "query"]
                    \/ /\ o.pc \in {"query", "backoff", "send"}
                       /\ r = [o EXCEPT !.pc = "closed", !.wait = 0, !.list = NoList]
                    \/ /\ o.pc = "send" /\ o.recv = "range"
                       /\ r = [o EXCEPT !.pc = "query", !.recv = "store", !.got = o.list,
                                        !.list = NoList]
                    \/ o.recv = "store" /\ r = [o EXCEPT !.recv = "range", !.got = NoList]
                    \/ o.recv = "range" /\ r = [o EXCEPT !.recv = "done"]
    BY DEF Consul, Watcher, WatchQuery, WatchQueryFails, WatchBackoff, WatchEnds,
           WatchSend, StoreUpdate, RangeEnds, Watch
  <1> HIDE DEF o
  <1>3. r \in WatchRecords
    <2>1. CASE r = [o EXCEPT !.pc = "send", !.wait = index, !.list = Healthy]
      BY <1>0, <2>1 DEF WatchRecords
    <2>2. CASE r = [o EXCEPT !.pc = "closed", !.wait = 0, !.list = NoList]
      BY <1>0, <2>2 DEF WatchRecords
    <2>3. CASE r = [o EXCEPT !.pc = "query", !.recv = "store", !.got = o.list, !.list = NoList]
      BY <1>0, <1>l, <2>3 DEF WatchRecords
    <2>4. CASE r = [o EXCEPT !.recv = "range", !.got = NoList]
      BY <1>0, <2>4 DEF WatchRecords
    <2>5. CASE \/ r = [o EXCEPT !.pc = "backoff"] \/ r = [o EXCEPT !.pc = "query"]
               \/ r = [o EXCEPT !.recv = "done"]
      BY <1>0, <2>5 DEF WatchRecords
    <2> QED
      BY <1>2, <2>1, <2>2, <2>3, <2>4, <2>5
  <1>4. /\ r.ok = o.ok /\ (o.pc = "none" => r.pc = "none")
        /\ (o.recv # "none" => r.recv # "none") /\ (o.recv = "done" => r.recv = "done")
    BY <1>0, <1>2 DEF WatchRecords
  <1> QED
    BY <1>1, <1>2, <1>3, <1>4, GoroutineStep DEF o

\* A Start comes only when those before it that succeeded have been waited for.
LEMMA RunSteps ==
    ASSUME WatchesFollowRun, Start \/ StartFails \/ StartContextEnds \/ Stop \/ StopReturns
    PROVE  WatchesFollowRun'
  <1>0. /\ run \in [n : 0..MaxWatches, st : {"stopped", "started", "waiting"}]
        /\ index \in Nat /\ watch \in [Watches -> WatchRecords] /\ Watches = 1..MaxWatches
        /\ MaxWatches \in Nat
    BY DiscoveryAssumption DEF WatchesFollowRun, Watches
  <1>1. PICK n \in 0..MaxWatches : run.n = n
    BY <1>0
  <1>2. CASE Start \/ StartFails
    <2>1. PICK c \in BOOLEAN, s \in {"started", "stopped"} :
              /\ Launch(c) /\ run' = [n |-> run.n + 1, st |-> s] /\ (s = "stopped" => ~c)
      <3>1. CASE Start
        BY <3>1, Zenon DEF Start
      <3>2. CASE StartFails
        BY <3>2, Zenon DEF StartFails
      <3> QED
        BY <1>2, <3>1, <3>2
    <2> DEFINE r == [NoWatch EXCEPT !.pc = "query", !.recv = "range", !.ctx = c, !.ok = c]
    <2>2. run.st = "stopped" /\ n < MaxWatches /\ watch' = [watch EXCEPT ![n + 1] = r] /\ index' = index
      BY <1>1, <2>1 DEF Launch, Watch, registry
    <2>3. r.recv = "range" /\ r.pc = "query" /\ r.ok = c
      BY DEF NoWatch
    <2>4. r \in WatchRecords
      BY <1>0, ListTypes DEF NoWatch, WatchRecords
    <2> HIDE DEF r
    <2>5. n + 1 \in Watches /\ watch' \in [Watches -> WatchRecords]
          /\ \A k \in Watches : watch'[k] = IF k = n + 1 THEN r ELSE watch[k]
      BY <1>0, <1>1, <2>2, <2>4
    <2>6. /\ run' \in [n : 0..MaxWatches, st : {"stopped", "started", "waiting"}]
          /\ run'.n = n + 1 /\ run'.st = s
      BY <1>0, <1>1, <2>1, <2>2
    <2>7. ASSUME NEW w \in Watches
          PROVE  /\ w > n + 1 => watch'[w].pc = "none"
                 /\ w <= n + 1 => watch'[w].recv # "none"
                 /\ w < n + 1 /\ watch'[w].ok => watch'[w].recv = "done"
                 /\ w = n + 1 /\ s = "stopped" => ~watch'[w].ok
      <3>1. CASE w = n + 1
        BY <1>0, <1>1, <2>1, <2>3, <2>5, <3>1
      <3>2. CASE w # n + 1
        <4>1. /\ watch'[w] = watch[w] /\ (w <= n + 1 => w <= n) /\ (w > n + 1 => w > n)
              /\ (w < n + 1 => w < n \/ w = n)
          BY <1>0, <1>1, <2>5, <3>2
        <4>2. /\ w > n => watch[w].pc = "none"
              /\ w <= n => watch[w].recv # "none"
              /\ w < n \/ w = n => (watch[w].ok => watch[w].recv = "done")
          BY <1>1, <2>2 DEF WatchesFollowRun
        <4> QED
          BY <4>1, <4>2, <3>2
      <3> QED
        BY <3>1, <3>2
    <2> QED
      BY <1>0, <2>2, <2>5, <2>6, <2>7 DEF WatchesFollowRun
  <1>3. CASE StartContextEnds \/ Stop
    <2> DEFINE r == [watch[n] EXCEPT !.ctx = FALSE]
    <2>1. /\ watch' = [watch EXCEPT ![n] = r] /\ index' = index
          /\ run' \in {run, [run EXCEPT !.st = "waiting"]} /\ run.st = "started"
      BY <1>1, <1>3 DEF StartContextEnds, Stop, registry
    <2>2. run' \in [n : 0..MaxWatches, st : {"stopped", "started", "waiting"}]
          /\ run'.n = n /\ run'.st \in {"started", "waiting"}
      BY <1>0, <1>1, <2>1
    <2>3. \A w \in Watches : /\ watch'[w] \in WatchRecords /\ watch'[w].ok = watch[w].ok
                               /\ watch'[w].pc = watch[w].pc /\ watch'[w].recv = watch[w].recv
      <3>1. ASSUME n \in Watches
            PROVE  /\ r \in WatchRecords /\ r.ok = watch[n].ok
                   /\ r.pc = watch[n].pc /\ r.recv = watch[n].recv
        <4>1. watch[n] \in WatchRecords
          BY <1>0, <3>1
        <4> QED
          BY <4>1 DEF WatchRecords
      <3> HIDE DEF r
      <3> QED
        BY <1>0, <2>1, <3>1
    <2>4. watch' \in [Watches -> WatchRecords]
      <3>1. watch' = [w \in Watches |-> watch'[w]]
        BY <1>0, <2>1
      <3> QED
        BY <2>3, <3>1
    <2>5. \A w \in Watches :
              /\ w > n => watch'[w].pc = "none"
              /\ w <= n => watch'[w].recv # "none"
              /\ w < n /\ watch'[w].ok => watch'[w].recv = "done"
      BY <1>1, <2>3 DEF WatchesFollowRun
    <2>6. index' \in Nat /\ run'.st # "stopped"
      BY <1>0, <2>1, <2>2
    <2> QED
      BY <2>2, <2>4, <2>5, <2>6 DEF WatchesFollowRun
  <1>4. CASE StopReturns
    <2>1. /\ Live = {} /\ index' = index /\ watch' = watch
          /\ run' = [run EXCEPT !.st = "stopped"]
      BY <1>4 DEF StopReturns, registry
    <2>2. run' \in [n : 0..MaxWatches, st : {"stopped", "started", "waiting"}]
          /\ run'.n = n /\ run'.st = "stopped"
      BY <1>0, <1>1, <2>1
    <2>3. \A w \in Watches : w <= n => watch[w].recv = "done"
      <3>1. \A w \in Watches : watch[w].recv \in {"none", "done"}
        BY <1>0, <2>1 DEF Live, WatchRecords
      <3> QED
        BY <1>1, <3>1 DEF WatchesFollowRun
    <2>4. \A w \in Watches : w < n \/ w = n => w <= n
      BY <1>0, <1>1
    <2> QED
      BY <1>0, <1>1, <2>1, <2>2, <2>3, <2>4 DEF WatchesFollowRun
  <1> QED
    BY <1>2, <1>3, <1>4

\* Lists are pushed into the resolver's cache by one goroutine at a time: those
\* of an earlier Start that succeeded have ended when a new one watches.
THEOREM OnePusher == ResolverSpec => []PushesInOrder
  <1>1. ResolverInit => WatchesFollowRun
    <2> SUFFICES ASSUME ResolverInit PROVE WatchesFollowRun
      OBVIOUS
    <2>1. index \in Nat /\ run = [n |-> 0, st |-> "stopped"]
          /\ watch = [w \in Watches |-> NoWatch]
      BY DEF ResolverInit
    <2>2. run \in [n : 0..MaxWatches, st : {"stopped", "started", "waiting"}] /\ run.n = 0
      BY <2>1, DiscoveryAssumption
    <2>3. NoWatch \in WatchRecords /\ NoWatch.pc = "none"
      <3>1. TRUE \in BOOLEAN
        OBVIOUS
      <3> QED
        BY <2>1, <3>1, ListTypes DEF NoWatch, WatchRecords
    <2>4. \A w \in Watches : w > 0
      BY DEF Watches
    <2> QED
      BY <2>1, <2>2, <2>3, <2>4, DiscoveryAssumption DEF WatchesFollowRun, Watches
  <1>2. WatchesFollowRun /\ [ResolverNext]_resolverVars => WatchesFollowRun'
    <2> SUFFICES ASSUME WatchesFollowRun, [ResolverNext]_resolverVars PROVE WatchesFollowRun'
      OBVIOUS
    <2>1. CASE \E w \in Watches : Consul(w) \/ Watcher(w)
      BY <2>1, WatcherSteps
    <2>2. CASE Start \/ StartFails \/ StartContextEnds \/ Stop \/ StopReturns
      BY <2>2, RunSteps
    <2>3. CASE Registry \/ Expire \/ UNCHANGED resolverVars \/ \E p \in Pickers : Pick(p)
      <3>1. UNCHANGED <<watch, run>>
        BY <2>3 DEF Registry, RegisterService, RegisterPasses, RegisterFails,
                    Deregister, CheckLapses, Change, Expire, Others, resolverVars, Pick,
                    PickReads, DiscoverAnswers, DiscoverFails, PickStores
      <3>2. index' \in Nat
        <4>1. index \in Nat
          BY DEF WatchesFollowRun
        <4> QED
          BY <2>3, <4>1 DEF Registry, RegisterService, RegisterPasses, RegisterFails,
                    Deregister, CheckLapses, Change, Expire, Others, resolverVars, Pick,
                    PickReads, DiscoverAnswers, DiscoverFails, PickStores, registry
      <3> QED
        BY <3>1, <3>2 DEF WatchesFollowRun
    <2> QED
      BY <2>1, <2>2, <2>3 DEF ResolverNext
  <1>3. WatchesFollowRun => PushesInOrder
    <2> SUFFICES ASSUME WatchesFollowRun, NEW w \in Watches, NEW k \in Watches,
                        w < k, watch[w].ok, watch[k].pc # "none"
                 PROVE  watch[w].recv = "done"
      BY DEF PushesInOrder
    <2>1. PICK n \in 0..MaxWatches : run.n = n
      BY DEF WatchesFollowRun
    <2>2. ~(k > n)
      BY <2>1 DEF WatchesFollowRun
    <2>3. w < n
      BY <2>1, <2>2, DiscoveryAssumption DEF Watches
    <2> QED
      BY <2>1, <2>3 DEF WatchesFollowRun
  <1> QED
    BY <1>1, <1>2, <1>3, PTL DEF ResolverSpec

=============================================================================
