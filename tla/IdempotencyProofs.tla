------------------------- MODULE IdempotencyProofs -------------------------
(***************************************************************************)
(* Proofs about Idempotency for any set of concurrent requests and any     *)
(* number of expiries.                                                     *)
(***************************************************************************)
EXTENDS Idempotency, FiniteSetTheorems, TLAPS

\* The handler of q has returned: its response is being written or was sent.
Finished(q) == pc[q] = "write" \/ [kind |-> "own", of |-> q] \in answer[q]

\* How far a request has got decides what it may have been answered.
RequestShape ==
    \A r \in Requests :
        /\ pc[r] \in {"handler", "set", "write"} => r \in ran
        /\ answer[r] # {} => pc[r] = "done"
        /\ \A a \in answer[r] :
               /\ a.kind = "own" => a.of \in ran
               /\ a.kind = "replay" => a.of \in ran /\ Finished(a.of)

\* What the store holds is the marker or the response of a finished handler.
EntryFinished == entry \in Requests => entry \in ran /\ Finished(entry)

\* Every run of the handler but one is paid for by an expiry; all of them are
\* while no entry is stored.
RunsPaidFor ==
    /\ IsFiniteSet(ran)
    /\ Cardinality(ran) <= 1 + expiries
    /\ entry = Absent => Cardinality(ran) <= expiries

\* A handler still within the lifetime of its entry.
Current(r) == Running(r) /\ r \notin outlived

\* There is at most one such handler, and while it runs the store holds its
\* marker or what a handler of an earlier lifetime has written over it.
OneCurrent ==
    \A r \in Requests :
        Current(r) => /\ entry # Absent
                      /\ entry \in Requests => entry \in outlived
                      /\ \A q \in Requests : Current(q) => q = r

\* The conjunction that every step preserves.
IndInv == TypeOK /\ RequestShape /\ EntryFinished /\ RunsPaidFor /\ OneCurrent

-----------------------------------------------------------------------------
\* The invariant holds before the first request.
LEMMA InitInv == Init => IndInv
  <1> SUFFICES ASSUME Init PROVE IndInv
    OBVIOUS
  <1> USE IdempotencyAssumption DEF Init
  <1>1. TypeOK
    BY DEF TypeOK
  <1>2. RequestShape /\ EntryFinished
    BY DEF RequestShape, EntryFinished
  <1>3. RunsPaidFor
    BY FS_EmptySet DEF RunsPaidFor
  <1>4. OneCurrent
    BY DEF OneCurrent, Current, Running
  <1> QED
    BY <1>1, <1>2, <1>3, <1>4 DEF IndInv

\* The store, the requests and their answers keep their types.
LEMMA TypeStep == IndInv /\ [Next]_vars => TypeOK'
  <1> SUFFICES ASSUME IndInv, [Next]_vars PROVE TypeOK'
    OBVIOUS
  <1> USE IdempotencyAssumption
  <1> USE DEF IndInv, TypeOK
  <1>1. ASSUME NEW r \in Requests, SetNXNew(r) PROVE TypeOK'
    BY <1>1 DEF SetNXNew
  <1>2. ASSUME NEW r \in Requests, SetNXExists(r) PROVE TypeOK'
    BY <1>2 DEF SetNXExists
  <1>3. ASSUME NEW r \in Requests, SetNXFails(r) PROVE TypeOK'
    BY <1>3 DEF SetNXFails, Reply
  <1>4. ASSUME NEW r \in Requests, HandlerReturns(r) PROVE TypeOK'
    BY <1>4 DEF HandlerReturns
  <1>5. ASSUME NEW r \in Requests, HandlerPanics(r) PROVE TypeOK'
    BY <1>5 DEF HandlerPanics, Reply
  <1>6. ASSUME NEW r \in Requests, SetResponse(r) PROVE TypeOK'
    BY <1>6 DEF SetResponse
  <1>7. ASSUME NEW r \in Requests, SetFails(r) PROVE TypeOK'
    BY <1>7 DEF SetFails
  <1>8. ASSUME NEW r \in Requests, WriteOwn(r) PROVE TypeOK'
    BY <1>8 DEF WriteOwn, Reply
  <1>9. ASSUME NEW r \in Requests, GetFails(r) PROVE TypeOK'
    BY <1>9 DEF GetFails, Reply
  <1>10. ASSUME NEW r \in Requests, GetCompleted(r) PROVE TypeOK'
    BY <1>10 DEF GetCompleted, Reply
  <1>11. ASSUME NEW r \in Requests, GetInProgress(r) PROVE TypeOK'
    BY <1>11 DEF GetInProgress, Reply
  <1>12. CASE Expire
    BY <1>12 DEF Expire
  <1>13. CASE UNCHANGED vars
    BY <1>13 DEF vars
  <1> QED
    BY <1>1, <1>2, <1>3, <1>4, <1>5, <1>6, <1>7, <1>8, <1>9, <1>10, <1>11,
       <1>12, <1>13
    DEF Next, Serve

\* A handler that has finished stays finished: a request is answered once.
LEMMA FinishedStable ==
    ASSUME IndInv, [Next]_vars, NEW q \in Requests, Finished(q)
    PROVE  Finished(q)'
  <1> USE DEF IndInv, TypeOK, RequestShape, Finished
  <1>1. CASE \E r \in Requests : Serve(r)
    <2>1. PICK r \in Requests : Serve(r)
      BY <1>1
    <2>2. pc[q] = "write" \/ pc[q] = "done"
      OBVIOUS
    <2>3. CASE r # q
      BY <2>1, <2>3 DEF Serve, SetNXNew, SetNXExists, SetNXFails, HandlerReturns,
            HandlerPanics, SetResponse, SetFails, WriteOwn, GetFails, GetCompleted,
            GetInProgress, Reply
    <2>4. CASE r = q
      <3>1. WriteOwn(q)
        BY <2>1, <2>2, <2>4 DEF Serve, SetNXNew, SetNXExists, SetNXFails, HandlerReturns,
              HandlerPanics, SetResponse, SetFails, GetFails, GetCompleted, GetInProgress
      <3> QED
        BY <3>1 DEF WriteOwn, Reply
    <2> QED
      BY <2>3, <2>4
  <1>2. CASE Expire
    BY <1>2 DEF Expire
  <1>3. CASE UNCHANGED vars
    BY <1>3 DEF vars
  <1> QED
    BY <1>1, <1>2, <1>3 DEF Next

\* A step adds to the runs and answers of the one request that takes it.
LEMMA RunsGrow == [Next]_vars => ran \subseteq ran'
  BY DEF Next, Serve, SetNXNew, SetNXExists, SetNXFails, HandlerReturns, HandlerPanics,
         SetResponse, SetFails, WriteOwn, GetFails, GetCompleted, GetInProgress, Expire, vars

\* Answers are given at the end, of what was run, and replayed when finished.
LEMMA ShapeStep == IndInv /\ [Next]_vars => RequestShape'
  <1> SUFFICES ASSUME IndInv, [Next]_vars PROVE RequestShape'
    OBVIOUS
  <1> USE IdempotencyAssumption DEF IndInv, TypeOK, RequestShape
  <1>a. \A q \in Requests : Finished(q) => Finished(q)'
    BY FinishedStable
  <1>b. ran \subseteq ran'
    BY RunsGrow
  \* What a request that takes no step keeps.
  <1>c. ASSUME NEW q \in Requests, pc'[q] = pc[q], answer'[q] = answer[q]
        PROVE  /\ pc'[q] \in {"handler", "set", "write"} => q \in ran'
               /\ answer'[q] # {} => pc'[q] = "done"
               /\ \A a \in answer'[q] :
                      /\ a.kind = "own" => a.of \in ran'
                      /\ a.kind = "replay" => a.of \in ran' /\ Finished(a.of)'
    <2>1. \A a \in answer[q] : a.of \in Requests
      OBVIOUS
    <2> QED
      BY <1>a, <1>b, <1>c, <2>1
  <1>1. CASE \E r \in Requests : Serve(r)
    <2>1. PICK r \in Requests : Serve(r)
      BY <1>1
    <2>2. \A q \in Requests \ {r} : pc'[q] = pc[q] /\ answer'[q] = answer[q]
      BY <2>1 DEF Serve, SetNXNew, SetNXExists, SetNXFails, HandlerReturns,
            HandlerPanics, SetResponse, SetFails, WriteOwn, GetFails, GetCompleted,
            GetInProgress, Reply
    <2>3. CASE GetCompleted(r)
      <3>1. PICK e \in Requests : e = entry
        BY <2>3 DEF GetCompleted
      <3>2. pc'[r] = "done" /\ answer'[r] = {[kind |-> "replay", of |-> e]}
        BY <2>3, <3>1 DEF GetCompleted, Reply
      <3>3. Finished(e)
        BY <3>1 DEF EntryFinished
      <3>4. e \in ran' /\ Finished(e)'
        BY <1>a, <1>b, <3>1, <3>3 DEF EntryFinished
      <3> QED
        BY <1>c, <2>2, <3>2, <3>4
    <2>4. CASE WriteOwn(r)
      <3>1. pc'[r] = "done" /\ answer'[r] = {[kind |-> "own", of |-> r]} /\ r \in ran
        BY <2>4 DEF WriteOwn, Reply
      <3> QED
        BY <1>b, <1>c, <2>2, <3>1
    <2>5. CASE SetNXFails(r) \/ HandlerPanics(r) \/ GetFails(r) \/ GetInProgress(r)
      <3>1. PICK k \in {"error", "conflict"} : answer'[r] = {[kind |-> k, of |-> r]}
        BY <2>5 DEF SetNXFails, HandlerPanics, GetFails, GetInProgress, Reply
      <3>2. pc'[r] = "done"
        BY <2>5 DEF SetNXFails, HandlerPanics, GetFails, GetInProgress, Reply
      <3> QED
        BY <1>c, <2>2, <3>1, <3>2
    <2>6. CASE SetNXNew(r) \/ SetNXExists(r) \/ HandlerReturns(r) \/ SetResponse(r) \/ SetFails(r)
      <3>1. answer' = answer /\ answer[r] = {}
        BY <2>6 DEF SetNXNew, SetNXExists, HandlerReturns, SetResponse, SetFails
      <3>2. pc'[r] \in {"handler", "set", "write"} => r \in ran'
        BY <2>6, <1>b DEF SetNXNew, SetNXExists, HandlerReturns, SetResponse, SetFails
      <3> QED
        BY <1>c, <2>2, <3>1, <3>2
    <2> QED
      BY <2>1, <2>3, <2>4, <2>5, <2>6 DEF Serve
  <1>2. CASE Expire \/ UNCHANGED vars
    BY <1>2, <1>c DEF Expire, vars
  <1> QED
    BY <1>1, <1>2 DEF Next

\* Only the response of a finished handler replaces the marker.
LEMMA EntryStep == IndInv /\ [Next]_vars => EntryFinished'
  <1> SUFFICES ASSUME IndInv, [Next]_vars PROVE EntryFinished'
    OBVIOUS
  <1> USE IdempotencyAssumption DEF IndInv, EntryFinished
  <1>1. ASSUME NEW r \in Requests, SetResponse(r) PROVE EntryFinished'
    BY <1>1 DEF SetResponse, Finished, TypeOK, RequestShape
  <1>2. CASE entry' = entry
    BY <1>2, FinishedStable, RunsGrow
  <1>3. CASE entry' \in {Absent, InProgress}
    BY <1>3
  <1>4. \/ \E r \in Requests : SetResponse(r)
        \/ entry' = entry
        \/ entry' \in {Absent, InProgress}
    BY DEF Next, Serve, SetNXNew, SetNXExists, SetNXFails, HandlerReturns, HandlerPanics,
           SetFails, WriteOwn, GetFails, GetCompleted, GetInProgress, Expire, vars
  <1> QED
    BY <1>1, <1>2, <1>3, <1>4

\* The handler is entered only where no entry is stored, and an expiry is the
\* only step that removes one.
LEMMA RunsStep == IndInv /\ [Next]_vars => RunsPaidFor'
  <1> SUFFICES ASSUME IndInv, [Next]_vars PROVE RunsPaidFor'
    OBVIOUS
  <1> USE IdempotencyAssumption DEF IndInv, TypeOK, RunsPaidFor
  <1>a. Cardinality(ran) \in Nat
    BY FS_CardinalityType
  <1>1. ASSUME NEW r \in Requests, SetNXNew(r) PROVE RunsPaidFor'
    <2>1. ran' = ran \cup {r} /\ entry = Absent /\ entry' # Absent /\ expiries' = expiries
      BY <1>1 DEF SetNXNew
    <2>2. /\ IsFiniteSet(ran')
          /\ Cardinality(ran') = IF r \in ran THEN Cardinality(ran) ELSE Cardinality(ran) + 1
      BY <2>1, FS_AddElement
    <2> QED
      BY <1>a, <2>1, <2>2
  <1>2. CASE Expire
    BY <1>2, <1>a DEF Expire
  <1>3. CASE ran' = ran /\ expiries' = expiries /\ (entry' = Absent => entry = Absent)
    BY <1>3
  <1>4. \/ \E r \in Requests : SetNXNew(r)
        \/ Expire
        \/ ran' = ran /\ expiries' = expiries /\ (entry' = Absent => entry = Absent)
    BY DEF Next, Serve, SetNXExists, SetNXFails, HandlerReturns, HandlerPanics, SetResponse,
           SetFails, WriteOwn, GetFails, GetCompleted, GetInProgress, vars
  <1> QED
    BY <1>1, <1>2, <1>3, <1>4

\* A handler becomes current only where nothing is stored, which leaves no room
\* for another; an expiry ends the time of all of them.
LEMMA CurrentStep == IndInv /\ [Next]_vars => OneCurrent'
  <1> SUFFICES ASSUME IndInv, [Next]_vars PROVE OneCurrent'
    OBVIOUS
  <1> USE IdempotencyAssumption DEF IndInv, TypeOK, OneCurrent, Current, Running
  <1>1. ASSUME NEW r \in Requests, SetNXNew(r) PROVE OneCurrent'
    BY <1>1 DEF SetNXNew
  <1>2. ASSUME NEW r \in Requests, SetResponse(r) PROVE OneCurrent'
    BY <1>2 DEF SetResponse
  <1>3. ASSUME NEW r \in Requests, SetNXFails(r) PROVE OneCurrent'
    BY <1>3 DEF SetNXFails, Reply
  <1>4. CASE Expire
    BY <1>4 DEF Expire
  <1>5. ASSUME NEW r \in Requests,
               \/ SetNXExists(r) \/ HandlerReturns(r) \/ HandlerPanics(r) \/ SetFails(r)
               \/ WriteOwn(r) \/ GetFails(r) \/ GetCompleted(r) \/ GetInProgress(r)
        PROVE  OneCurrent'
    <2>1. entry' = entry /\ outlived' = outlived
      BY <1>5 DEF SetNXExists, HandlerReturns, HandlerPanics, SetFails, WriteOwn, GetFails,
            GetCompleted, GetInProgress
    <2>2. \A q \in Requests : Running(q)' => Running(q)
      BY <1>5 DEF SetNXExists, HandlerReturns, HandlerPanics, SetFails, WriteOwn, GetFails,
            GetCompleted, GetInProgress, Reply
    <2> QED
      BY <2>1, <2>2
  <1>6. CASE UNCHANGED vars
    BY <1>6 DEF vars
  <1> QED
    BY <1>1, <1>2, <1>3, <1>4, <1>5, <1>6 DEF Next, Serve

-----------------------------------------------------------------------------
\* The invariant holds throughout, for any interleaving of requests, store
\* errors, panics and expiries.
THEOREM Invariance == Spec => []IndInv
  <1>1. IndInv /\ [Next]_vars => IndInv'
    BY TypeStep, ShapeStep, EntryStep, RunsStep, CurrentStep DEF IndInv
  <1> QED
    BY InitInv, <1>1, PTL DEF Spec

\* The handler is entered at most once per lifetime of the store's entry.
THEOREM HandlerRunsOnce == Spec => []OneRunPerLifetime
  <1>1. IndInv => OneRunPerLifetime
    BY DEF IndInv, RunsPaidFor, OneRunPerLifetime
  <1> QED
    BY Invariance, <1>1, PTL

\* Before the first expiry at most one request has entered the handler.
LEMMA OneRanBeforeExpiry ==
    ASSUME IndInv, expiries = 0, NEW a \in ran, NEW b \in ran
    PROVE  a = b
  <1>1. IsFiniteSet(ran) /\ Cardinality(ran) <= 1
    BY DEF IndInv, RunsPaidFor
  <1>2. Cardinality(ran) \in Nat
    BY <1>1, FS_CardinalityType
  <1>3. Cardinality(ran) # 0
    BY <1>1, FS_EmptySet
  <1>4. Cardinality(ran) = 1
    BY <1>1, <1>2, <1>3
  <1>5. PICK x : ran = {x}
    BY <1>1, <1>4, FS_Singleton
  <1> QED
    BY <1>5

\* Before the first expiry all clients that get a response get one and the same.
THEOREM OneResponse == Spec => []SameResponseWithinTTL
  <1>1. IndInv => SameResponseWithinTTL
    <2> SUFFICES ASSUME IndInv, expiries = 0,
                        NEW a \in Answers({"own", "replay"}),
                        NEW b \in Answers({"own", "replay"})
                 PROVE  a.of = b.of
      BY DEF SameResponseWithinTTL
    <2>1. a.of \in ran /\ b.of \in ran
      BY DEF Answers, IndInv, RequestShape
    <2> QED
      BY <2>1, OneRanBeforeExpiry
  <1> QED
    BY Invariance, <1>1, PTL

\* What a duplicate is answered with is the response of a handler that returned.
THEOREM FinishedReplays == Spec => []ReplaysAreFinished
  <1>1. IndInv => ReplaysAreFinished
    BY DEF ReplaysAreFinished, Answers, IndInv, RequestShape, Finished
  <1> QED
    BY Invariance, <1>1, PTL

\* A stored response stays until it expires: no step replaces it by the marker,
\* and a Set replaces it only if its handler, or the one whose response is
\* replaced, outlived its entry.
THEOREM ResponseKept == Spec => StoredResponseKept
  <1>1. IndInv /\ [Next]_vars => [KeepsResponse]_vars
    <2> SUFFICES ASSUME IndInv, Next, entry \in Requests
                 PROVE  \/ entry' \in {entry, Absent}
                        \/ entry' \in Requests /\ {entry, entry'} \cap outlived # {}
      BY DEF KeepsResponse
    <2>1. ASSUME NEW r \in Requests, SetResponse(r)
          PROVE  entry' \in Requests /\ {entry, entry'} \cap outlived # {}
      BY <2>1 DEF SetResponse, IndInv, OneCurrent, Current, Running
    <2>2. entry # Absent
      BY IdempotencyAssumption
    <2>3. \/ \E r \in Requests : SetResponse(r)
          \/ entry' \in {entry, Absent}
      BY <2>2 DEF Next, Serve, SetNXNew, SetNXExists, SetNXFails, HandlerReturns, HandlerPanics,
                  SetFails, WriteOwn, GetFails, GetCompleted, GetInProgress, Reply, Expire
    <2> QED
      BY <2>1, <2>3
  <1> QED
    BY Invariance, <1>1, PTL DEF Spec, StoredResponseKept

=============================================================================
