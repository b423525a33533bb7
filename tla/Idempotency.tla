---------------------------- MODULE Idempotency ----------------------------
(***************************************************************************)
(* IdempotencyMiddleware of pkg/server/idempotency.go: concurrent HTTP     *)
(* requests that carry the same Idempotency-Key, and the store behind the  *)
(* middleware (SetNX, Get and Set of pkg/redis, each atomic at the server, *)
(* each able to fail) with entries that expire.                            *)
(*                                                                         *)
(* Data abstractions.  One key: requests with different keys, or without   *)
(* one, do not meet.  The response computed for request r is r itself.     *)
(* The expiry of the entry may happen at any time, since nothing relates   *)
(* the TTL to how long a handler runs.                                     *)
(***************************************************************************)
EXTENDS Integers, FiniteSets

CONSTANTS
    Requests,
    Absent,         \* no entry is stored under the key
    InProgress,     \* the value "processing" is stored
    MaxExpiries     \* bound on the expiries of the entry

ASSUME IdempotencyAssumption ==
    /\ Absent \notin Requests /\ InProgress \notin Requests
    /\ Absent # InProgress
    /\ MaxExpiries \in Nat

VARIABLES
    entry,      \* what the store holds under the key
    pc,         \* where the middleware is for each request
    answer      \* answer[r]: what the client got, a set of at most one answer

\* History.
VARIABLES
    ran,        \* requests whose handler was entered
    expiries,   \* expiries so far
    outlived    \* requests under whose handler (or Set) the entry expired

vars == <<entry, pc, answer, ran, expiries, outlived>>

Init ==
    /\ entry = Absent
    /\ pc = [r \in Requests |-> "arrived"]
    /\ answer = [r \in Requests |-> {}]
    /\ ran = {}
    /\ expiries = 0
    /\ outlived = {}

\* The middleware is between its SetNX and its Set for r.
Running(r) == pc[r] \in {"handler", "set"}

Reply(r, kind, of) ==
    /\ pc' = [pc EXCEPT ![r] = "done"]
    /\ answer' = [answer EXCEPT ![r] = {[kind |-> kind, of |-> of]}]

-----------------------------------------------------------------------------
(* SetNX.                                                                  *)

\* Mutation: the key is looked up and written in two calls, so a request that
\* saw no finished response goes ahead.
SetNXNewUnguarded(r) ==
    /\ pc[r] = "arrived"
    /\ entry \in {Absent, InProgress}
    /\ entry' = InProgress
    /\ pc' = [pc EXCEPT ![r] = "handler"]
    /\ ran' = ran \cup {r}
    /\ UNCHANGED <<answer, expiries, outlived>>

\* SetNX stores "processing": this request runs the handler.
SetNXNew(r) ==
    /\ pc[r] = "arrived"
    /\ entry = Absent
    /\ entry' = InProgress
    /\ pc' = [pc EXCEPT ![r] = "handler"]
    /\ ran' = ran \cup {r}
    /\ UNCHANGED <<answer, expiries, outlived>>

SetNXExists(r) ==
    /\ pc[r] = "arrived"
    /\ entry # Absent
    /\ pc' = [pc EXCEPT ![r] = "get"]
    /\ UNCHANGED <<entry, answer, ran, expiries, outlived>>

\* Mutation: when the store fails the request is served without it.
SetNXFailsOpen(r) ==
    /\ pc[r] = "arrived"
    /\ pc' = [pc EXCEPT ![r] = "handler"]
    /\ ran' = ran \cup {r}
    /\ UNCHANGED <<entry, answer, expiries, outlived>>

\* An error of SetNX is answered with 500; the entry may have been stored
\* although the store's reply was lost.
SetNXFails(r) ==
    /\ pc[r] = "arrived"
    /\ Reply(r, "error", r)
    /\ \/ UNCHANGED entry
       \/ entry = Absent /\ entry' = InProgress
    /\ UNCHANGED <<ran, expiries, outlived>>

-----------------------------------------------------------------------------
(* The request that runs the handler.                                      *)

HandlerReturns(r) ==
    /\ pc[r] = "handler"
    /\ pc' = [pc EXCEPT ![r] = "set"]
    /\ UNCHANGED <<entry, answer, ran, expiries, outlived>>

\* Mutation: what a panicking handler wrote so far is stored as its response.
HandlerPanicsStored(r) ==
    /\ pc[r] = "handler"
    /\ Reply(r, "error", r)
    /\ entry' = r
    /\ UNCHANGED <<ran, expiries, outlived>>

\* A panic unwinds through the middleware: the entry stays as it is.
HandlerPanics(r) ==
    /\ pc[r] = "handler"
    /\ Reply(r, "error", r)
    /\ UNCHANGED <<entry, ran, expiries, outlived>>

\* Set overwrites whatever is stored by now.
SetResponse(r) ==
    /\ pc[r] = "set"
    /\ entry' = r
    /\ pc' = [pc EXCEPT ![r] = "write"]
    /\ UNCHANGED <<answer, ran, expiries, outlived>>

\* An error of Set is ignored (the request's context may be cancelled).
SetFails(r) ==
    /\ pc[r] = "set"
    /\ pc' = [pc EXCEPT ![r] = "write"]
    /\ UNCHANGED <<entry, answer, ran, expiries, outlived>>

WriteOwn(r) ==
    /\ pc[r] = "write"
    /\ Reply(r, "own", r)
    /\ UNCHANGED <<entry, ran, expiries, outlived>>

-----------------------------------------------------------------------------
(* The request that found the key: Get, then decode what was read.         *)

\* A store error, and an entry that expired since SetNX, are answered with 500.
GetFails(r) ==
    /\ pc[r] = "get"
    /\ Reply(r, "error", r)
    /\ UNCHANGED <<entry, ran, expiries, outlived>>

GetCompleted(r) ==
    /\ pc[r] = "get"
    /\ entry \in Requests
    /\ Reply(r, "replay", entry)
    /\ UNCHANGED <<entry, ran, expiries, outlived>>

GetInProgress(r) ==
    /\ pc[r] = "get"
    /\ entry = InProgress
    /\ Reply(r, "conflict", r)
    /\ UNCHANGED <<entry, ran, expiries, outlived>>

\* The TTL of the entry runs out.
Expire ==
    /\ entry # Absent
    /\ expiries < MaxExpiries
    /\ entry' = Absent
    /\ expiries' = expiries + 1
    /\ outlived' = outlived \cup {r \in Requests : Running(r)}
    /\ UNCHANGED <<pc, answer, ran>>

-----------------------------------------------------------------------------
Serve(r) ==
    \/ SetNXNew(r) \/ SetNXExists(r) \/ SetNXFails(r)
    \/ HandlerReturns(r) \/ HandlerPanics(r)
    \/ SetResponse(r) \/ SetFails(r) \/ WriteOwn(r)
    \/ GetFails(r) \/ GetCompleted(r) \/ GetInProgress(r)

Next == (\E r \in Requests : Serve(r)) \/ Expire

Spec == Init /\ [][Next]_vars

-----------------------------------------------------------------------------
(* Properties.                                                             *)

Answers(kinds) == {a \in UNION {answer[r] : r \in Requests} : a.kind \in kinds}

\* The values of the store, the requests and their answers.
TypeOK ==
    /\ entry \in Requests \cup {Absent, InProgress}
    /\ pc \in [Requests -> {"arrived", "handler", "set", "write", "get", "done"}]
    /\ answer \in [Requests -> SUBSET [kind : {"own", "replay", "conflict", "error"},
                                       of : Requests]]
    /\ ran \subseteq Requests
    /\ expiries \in 0..MaxExpiries
    /\ outlived \subseteq Requests

\* The handler runs once per lifetime of the entry: a duplicate runs it again
\* only if the entry expired in between, whatever store calls fail.
OneRunPerLifetime == Cardinality(ran) <= 1 + expiries

\* Until the entry expires, every client that gets a response (its own or a
\* replayed one) gets the same one.
SameResponseWithinTTL ==
    expiries = 0 => \A a, b \in Answers({"own", "replay"}) : a.of = b.of

\* A replayed response is one that a handler finished computing, never the
\* marker nor the result of a handler that panicked.
ReplaysAreFinished ==
    \A a \in Answers({"replay"}) :
        /\ a.of \in ran
        /\ \/ pc[a.of] = "write"
           \/ [kind |-> "own", of |-> a.of] \in answer[a.of]

\* What a step may do to a stored response.
KeepsResponse ==
    entry \in Requests => \/ entry' \in {entry, Absent}
                          \/ entry' \in Requests /\ {entry, entry'} \cap outlived # {}

\* Set writes over whatever is stored; still, a stored response is never replaced
\* by the marker, and by another response only if the entry expired while one of
\* the two was being computed: a handler that ended within the lifetime of its
\* entry neither overwrites such a response nor has its own overwritten by one.
StoredResponseKept == [][KeepsResponse]_vars

=============================================================================
