----------------------------- MODULE Discovery ------------------------------
(***************************************************************************)
(* Service discovery: the Resolver of pkg/discovery/resolver.go with its   *)
(* cache, its watcher goroutine and Pick, on the Registry of               *)
(* pkg/discovery/consul/registry.go with its watch goroutine, on Consul    *)
(* (external: entries, checks and the index of blocking queries).          *)
(*                                                                         *)
(* Data abstractions.  One service.  A list of instances carries the index *)
(* of the state of the registry it was read from.  Which instance          *)
(* round-robin takes from the list is left out.  The TTL of the cache may  *)
(* run out at any time.                                                    *)
(***************************************************************************)
EXTENDS Integers

CONSTANTS
    Instances,
    Pickers,        \* goroutines that call Pick
    MaxIndex,       \* bound on the changes in the registry
    MaxWatches      \* bound on the Starts of the resolver

ASSUME DiscoveryAssumption == MaxIndex \in Nat \ {0} /\ MaxWatches \in Nat \ {0}

Watches == 1..MaxWatches

VARIABLES
    entry,      \* entry[i]: "absent", "critical" or "passing" in Consul
    reg,        \* reg[i]: where Register is for instance i
    index       \* Consul's index: the number of changes so far

VARIABLES
    cache,      \* serviceCache.instances
    valid,      \* the cache is younger than its TTL
    pick,       \* pick[p]: the call of Pick of p
    watch,      \* watch[w]: the two goroutines of the w-th Start
    run         \* the resolver: number of Starts and state of Start and Stop

registry == <<entry, reg, index>>
resolverVars == <<registry, cache, valid, pick, watch, run>>

NoList == [at |-> 0, inst |-> {}]

\* What a query with the passing filter answers now.
Healthy == [at |-> index, inst |-> {i \in Instances : entry[i] = "passing"}]

NoWatch == [pc |-> "none", wait |-> 0, list |-> NoList, recv |-> "none", got |-> NoList,
            ctx |-> TRUE, ok |-> TRUE]

\* The resolver is new; other processes may be registering instances already.
ResolverInit ==
    /\ entry \in [Instances -> {"absent", "critical", "passing"}]
    /\ reg \in [Instances -> {"idle", "ttl"}]
    /\ index = 1
    /\ cache = NoList /\ valid = FALSE
    /\ pick = [p \in Pickers |-> [pc |-> "idle", list |-> NoList]]
    /\ watch = [w \in Watches |-> NoWatch]
    /\ run = [n |-> 0, st |-> "stopped"]

-----------------------------------------------------------------------------
(* The registry.  Every change of an entry moves the index on.             *)

Change(i, st) ==
    /\ index < MaxIndex
    /\ entry' = [entry EXCEPT ![i] = st]
    /\ index' = index + 1
    /\ UNCHANGED <<cache, valid, pick, watch, run>>

\* Register: the entry appears with a check that has not passed yet, or is
\* updated and keeps the state of its check ...
RegisterService(i) ==
    /\ reg[i] = "idle"
    /\ reg' = [reg EXCEPT ![i] = "ttl"]
    /\ Change(i, IF entry[i] = "absent" THEN "critical" ELSE entry[i])

\* ... and UpdateTTL makes it healthy; if that fails the entry stays behind.
RegisterPasses(i) ==
    /\ reg[i] = "ttl" /\ entry[i] # "absent"
    /\ reg' = [reg EXCEPT ![i] = "idle"]
    /\ Change(i, "passing")

RegisterFails(i) ==
    /\ reg[i] = "ttl"
    /\ reg' = [reg EXCEPT ![i] = "idle"]
    /\ UNCHANGED <<entry, index, cache, valid, pick, watch, run>>

\* Deregister, and Consul's removal of an entry that stayed critical.
Deregister(i) == entry[i] # "absent" /\ Change(i, "absent") /\ UNCHANGED reg

\* Nobody updates the check again before its 30 seconds are over.
CheckLapses(i) == entry[i] = "passing" /\ Change(i, "critical") /\ UNCHANGED reg

-----------------------------------------------------------------------------
(* The goroutine of Registry.Watch.                                        *)

Watch(w, r) == watch' = [watch EXCEPT ![w] = r]
Others == <<registry, pick, run>>

\* A blocking query answers with a newer state, or at its end with the same.
\* Only a changed index is sent.
WatchQuery(w) ==
    /\ watch[w].pc = "query" /\ watch[w].wait # index
    /\ Watch(w, [watch[w] EXCEPT !.pc = "send", !.wait = index, !.list = Healthy])
    /\ UNCHANGED <<Others, cache, valid>>

\* Mutation: the index is taken over from a query that failed.
WatchQueryFailsAdvances(w) ==
    /\ watch[w].pc = "query" /\ watch[w].ctx
    /\ Watch(w, [watch[w] EXCEPT !.pc = "backoff", !.wait = index])
    /\ UNCHANGED <<Others, cache, valid>>

\* A query that fails is repeated, with the old index, after the backoff.
WatchQueryFails(w) ==
    /\ watch[w].pc = "query" /\ watch[w].ctx
    /\ Watch(w, [watch[w] EXCEPT !.pc = "backoff"])
    /\ UNCHANGED <<Others, cache, valid>>

WatchBackoff(w) ==
    /\ watch[w].pc = "backoff"
    /\ Watch(w, [watch[w] EXCEPT !.pc = "query"])
    /\ UNCHANGED <<Others, cache, valid>>

\* Mutation: a query that fails is retried whatever the context says.
WatchEndsAtSend(w) ==
    /\ watch[w].pc = "send" /\ ~watch[w].ctx
    /\ Watch(w, [watch[w] EXCEPT !.pc = "closed", !.wait = 0, !.list = NoList])
    /\ UNCHANGED <<Others, cache, valid>>

\* The context is cancelled: the query fails, or the select takes this way,
\* and the channel is closed.
WatchEnds(w) ==
    /\ watch[w].pc \in {"query", "backoff", "send"} /\ ~watch[w].ctx
    /\ Watch(w, [watch[w] EXCEPT !.pc = "closed", !.wait = 0, !.list = NoList])
    /\ UNCHANGED <<Others, cache, valid>>

\* The channel is unbuffered: sender and receiver meet.
WatchSend(w) ==
    /\ watch[w].pc = "send" /\ watch[w].recv = "range"
    /\ Watch(w, [watch[w] EXCEPT !.pc = "query", !.recv = "store", !.got = watch[w].list,
                                 !.list = NoList])
    /\ UNCHANGED <<Others, cache, valid>>

-----------------------------------------------------------------------------
(* The goroutine of Resolver.Start.                                        *)

StoreUpdate(w) ==
    /\ watch[w].recv = "store"
    /\ cache' = watch[w].got /\ valid' = TRUE
    /\ Watch(w, [watch[w] EXCEPT !.recv = "range", !.got = NoList])
    /\ UNCHANGED Others

RangeEnds(w) ==
    /\ watch[w].recv = "range" /\ watch[w].pc = "closed"
    /\ Watch(w, [watch[w] EXCEPT !.recv = "done"])
    /\ UNCHANGED <<Others, cache, valid>>

-----------------------------------------------------------------------------
(* Start and Stop of the resolver.                                         *)

Launch(ctx) ==
    /\ run.st = "stopped" /\ run.n < MaxWatches
    /\ Watch(run.n + 1, [NoWatch EXCEPT !.pc = "query", !.recv = "range", !.ctx = ctx,
                                   !.ok = ctx])
    /\ UNCHANGED <<registry, pick, cache, valid>>

Start == Launch(TRUE) /\ run' = [n |-> run.n + 1, st |-> "started"]

\* Watch fails for a later service: the context is cancelled, and Start
\* returns without waiting for the goroutines it has begun.
StartFails == Launch(FALSE) /\ run' = [n |-> run.n + 1, st |-> "stopped"]

\* The watches run on the context that Start was given, which may end before
\* Stop is called: App.Run's own does.
StartContextEnds ==
    /\ run.st = "started" /\ watch[run.n].ctx
    /\ watch' = [watch EXCEPT ![run.n].ctx = FALSE]
    /\ UNCHANGED <<registry, pick, cache, valid, run>>

Stop ==
    /\ run.st = "started"
    /\ watch' = [watch EXCEPT ![run.n].ctx = FALSE]
    /\ run' = [run EXCEPT !.st = "waiting"]
    /\ UNCHANGED <<registry, pick, cache, valid>>

\* Mutation: Stop does not wait.
StopReturnsAtOnce ==
    /\ run.st = "waiting"
    /\ run' = [run EXCEPT !.st = "stopped"]
    /\ UNCHANGED <<registry, pick, cache, valid, watch>>

Live == {w \in Watches : watch[w].recv \in {"range", "store"}}

\* wg.Wait counts the goroutines of every Start.
StopReturns ==
    /\ run.st = "waiting" /\ Live = {}
    /\ run' = [run EXCEPT !.st = "stopped"]
    /\ UNCHANGED <<registry, pick, cache, valid, watch>>

\* The TTL of the cache runs out.
Expire ==
    /\ valid
    /\ valid' = FALSE
    /\ UNCHANGED <<Others, cache, watch>>

-----------------------------------------------------------------------------
(* Pick.                                                                   *)

SetPick(p, pc, l) == pick' = [pick EXCEPT ![p] = [pc |-> pc, list |-> l]]

\* Mutation: a filled cache is taken for valid.
PickReadsAnyAge(p) ==
    /\ pick[p].pc = "idle"
    /\ IF cache.inst # {} THEN SetPick(p, "idle", NoList)
       ELSE SetPick(p, "discover", NoList)
    /\ UNCHANGED <<registry, cache, valid, watch, run>>

\* A cache that is valid and not empty serves the call.
PickReads(p) ==
    /\ pick[p].pc = "idle"
    /\ IF valid /\ cache.inst # {} THEN SetPick(p, "idle", NoList)
       ELSE SetPick(p, "discover", NoList)
    /\ UNCHANGED <<registry, cache, valid, watch, run>>

\* Consul answers Discover; the answer takes its time to arrive.
DiscoverAnswers(p) ==
    /\ pick[p].pc = "discover"
    /\ SetPick(p, "store", Healthy)
    /\ UNCHANGED <<registry, cache, valid, watch, run>>

DiscoverFails(p) ==
    /\ pick[p].pc = "discover"
    /\ SetPick(p, "idle", NoList)
    /\ UNCHANGED <<registry, cache, valid, watch, run>>

\* The answer replaces the cache, whatever has been stored since.
PickStores(p) ==
    /\ pick[p].pc = "store"
    /\ cache' = pick[p].list /\ valid' = TRUE
    /\ SetPick(p, "idle", NoList)
    /\ UNCHANGED <<registry, watch, run>>

-----------------------------------------------------------------------------
Registry ==
    \E i \in Instances :
        \/ RegisterService(i) \/ RegisterPasses(i) \/ RegisterFails(i)
        \/ Deregister(i) \/ CheckLapses(i)

Consul(w) ==
    WatchQuery(w) \/ WatchQueryFails(w) \/ WatchBackoff(w) \/ WatchEnds(w) \/ WatchSend(w)

Watcher(w) == StoreUpdate(w) \/ RangeEnds(w)

Pick(p) == PickReads(p) \/ DiscoverAnswers(p) \/ DiscoverFails(p) \/ PickStores(p)

ResolverNext ==
    \/ Registry \/ Expire \/ Start \/ StartFails \/ StartContextEnds \/ Stop \/ StopReturns
    \/ \E w \in Watches : Consul(w) \/ Watcher(w)
    \/ \E p \in Pickers : Pick(p)

\* Goroutines run on, time passes for the cache, Pick goes on being called, and
\* Consul does not fail every Discover.  Nothing is assumed of the watch's
\* queries: they may fail for ever (but see WatchFollows).
ResolverFairness ==
    /\ WF_resolverVars(StopReturns) /\ WF_resolverVars(Expire)
    /\ \A w \in Watches :
           /\ WF_resolverVars(Watcher(w)) /\ WF_resolverVars(WatchBackoff(w))
           /\ WF_resolverVars(WatchSend(w) \/ WatchEnds(w))
    /\ \A p \in Pickers :
           /\ WF_resolverVars(PickReads(p)) /\ WF_resolverVars(PickStores(p))
           /\ SF_resolverVars(DiscoverAnswers(p))

ResolverSpec == ResolverInit /\ [][ResolverNext]_resolverVars /\ ResolverFairness

-----------------------------------------------------------------------------
(* Properties.                                                             *)

\* Lists are pushed into the cache by one goroutine at a time, so in the order
\* of the registry: before a new Start watches, the goroutines of an earlier
\* one have ended.  A Start that failed is the exception: nobody waits for its
\* goroutines, and one of them may still store an old list.
PushesInOrder ==
    \A w, k \in Watches :
        w < k /\ watch[w].ok /\ watch[k].pc # "none" => watch[w].recv = "done"

\* The answer of a slow Discover may overwrite a newer list, and a watch may
\* fail or be stopped, but once the registry has come to rest the cache, and
\* with it what Pick returns, becomes and stays the present state.
Converges == <>[](cache = Healthy)

\* A watch loses no change: if its queries do not fail for ever, then whichever of
\* them fail and whatever happens meanwhile, every change of the registry is in a
\* list that the resolver's goroutine receives, unless the watch ends first.
WatchFollows ==
    \A w \in Watches :
        SF_resolverVars(WatchQuery(w)) =>
            \A n \in 1..MaxIndex :
                (watch[w].pc # "none" /\ watch[w].wait < n /\ index = n) ~>
                    (watch[w].got.at >= n \/ ~watch[w].ctx)

\* Stop returns, and then no goroutine of the resolver or of the registry's
\* watch is left.
StopEndsWatch == (run.st = "waiting") ~> (run.st = "stopped" /\ Live = {})

=============================================================================
