------------------------------ MODULE Registry ------------------------------
(***************************************************************************)
(* The target registry (internal/target/registry.go): a cache of MySQL     *)
(* pools, one per connection configuration, filled through singleflight    *)
(* and emptied by Invalidate, by a failed Ping and by Close.               *)
(*                                                                         *)
(* A member of Call is one execution of getDatabase.  It starts at most    *)
(* one flight, and a flight creates at most one adapter, so the call that  *)
(* starts a flight also names the flight and the adapter it creates: the   *)
(* code compares adapters by identity only.  A member of Admin is one      *)
(* execution of Invalidate or of Close.  Every step below is one critical  *)
(* section of Registry.mu, one call of the adapter, or one operation of    *)
(* the singleflight group; between two of them other goroutines run.       *)
(***************************************************************************)
EXTENDS Naturals

CONSTANTS
    Call,        \* executions of getDatabase
    Admin,       \* executions of Invalidate or Close
    Config,      \* connection configurations: the cache keys
    Resource,    \* resource identifiers
    ResourceOf,  \* the ResourceID field of a configuration
    NoAdapter    \* the nil adapter

ASSUME ResourceOfAssumption == ResourceOf \in [Config -> Resource]
ASSUME NoAdapterAssumption == NoAdapter \notin Call

Adapter == Call
Flight == Call

VARIABLES
    closed,       \* Registry.closed
    cache,        \* Registry.cache: the adapter cached for a configuration
    recent,       \* the entry's lastPing is less than dbCachePingInterval old
    generations,  \* Registry.generations
    pc,           \* where a call stands in getDatabase
    config,       \* its configuration
    generation,   \* the generation it read
    instance,     \* the adapter it holds: entry.inst, later the flight's result
    joined,       \* the flight it waits for
    result,       \* what it returned
    fpc,          \* where a flight stands in connectAndCache
    flightErr,    \* the flight's error, "ok" when it has none
    flightVal,    \* the adapter the flight returns
    pool,         \* the state of an adapter's sql.DB
    apc,          \* where an Invalidate or Close stands
    stale         \* the adapters it removed from the cache and has yet to close

registryVars == <<closed, cache, recent, generations>>
callVars == <<pc, config, generation, instance, joined, result>>
flightVars == <<fpc, flightErr, flightVal>>
adminVars == <<apc, stale>>
vars == <<closed, cache, recent, generations, pc, config, generation, instance,
          joined, result, fpc, flightErr, flightVal, pool, apc, stale>>

CallPC == {"start", "ping", "mark", "remove", "release", "join", "wait",
           "check", "done"}
Result == {"none", "ok", "closed", "released", "ctx", "failed"}
FlightPC == {"none", "entry", "connect", "insert", "abort", "deliver", "done"}
FlightErr == {"none", "ok", "closed", "released", "failed"}
Pool == {"none", "open", "closed"}
AdminPC == {"idle", "closing", "done"}

TypeOK ==
    /\ closed \in BOOLEAN
    /\ cache \in [Config -> Adapter \cup {NoAdapter}]
    /\ recent \in [Config -> BOOLEAN]
    /\ generations \in [Resource -> Nat]
    /\ pc \in [Call -> CallPC]
    /\ config \in [Call -> Config]
    /\ generation \in [Call -> Nat]
    /\ instance \in [Call -> Adapter \cup {NoAdapter}]
    /\ joined \in [Call -> Flight \cup {NoAdapter}]
    /\ result \in [Call -> Result]
    /\ fpc \in [Flight -> FlightPC]
    /\ flightErr \in [Flight -> FlightErr]
    /\ flightVal \in [Flight -> Adapter \cup {NoAdapter}]
    /\ pool \in [Adapter -> Pool]
    /\ apc \in [Admin -> AdminPC]
    /\ stale \in [Admin -> SUBSET Adapter]

Init ==
    /\ closed = FALSE
    /\ cache = [k \in Config |-> NoAdapter]
    /\ recent = [k \in Config |-> FALSE]
    /\ generations = [r \in Resource |-> 0]
    /\ pc = [c \in Call |-> "start"]
    /\ config \in [Call -> Config]
    /\ generation = [c \in Call |-> 0]
    /\ instance = [c \in Call |-> NoAdapter]
    /\ joined = [c \in Call |-> NoAdapter]
    /\ result = [c \in Call |-> "none"]
    /\ fpc = [l \in Flight |-> "none"]
    /\ flightErr = [l \in Flight |-> "none"]
    /\ flightVal = [l \in Flight |-> NoAdapter]
    /\ pool = [i \in Adapter |-> "none"]
    /\ apc = [a \in Admin |-> "idle"]
    /\ stale = [a \in Admin |-> {}]

-----------------------------------------------------------------------------
(* getDatabase.                                                            *)

Goto(c, there) == pc' = [pc EXCEPT ![c] = there]

Return(c, what) ==
    /\ pc' = [pc EXCEPT ![c] = "done"]
    /\ result' = [result EXCEPT ![c] = what]

IsCurrent(k, i) == i # NoAdapter /\ cache[k] = i

GenerationOf(c) == generations[ResourceOf[config[c]]]

(* The context is already done when the call starts. *)
GetCancelled(c) ==
    /\ pc[c] = "start"
    /\ Return(c, "ctx")
    /\ UNCHANGED <<registryVars, config, generation, instance, joined,
                   flightVars, pool, adminVars>>

(* The first critical section finds the registry closed. *)
GetClosed(c) ==
    /\ pc[c] = "start"
    /\ closed
    /\ Return(c, "closed")
    /\ UNCHANGED <<registryVars, config, generation, instance, joined,
                   flightVars, pool, adminVars>>

(* The first critical section reads the entry and the generation.  The age *)
(* of the entry is looked at after the lock is released, so an entry that  *)
(* was recent under the lock may be pinged as well.                        *)
GetEntry(c) ==
    /\ pc[c] = "start"
    /\ ~closed
    /\ generation' = [generation EXCEPT ![c] = GenerationOf(c)]
    /\ instance' = [instance EXCEPT ![c] = cache[config[c]]]
    /\ \/ cache[config[c]] = NoAdapter /\ Goto(c, "join")
       \/ cache[config[c]] # NoAdapter /\ Goto(c, "ping")
       \/ cache[config[c]] # NoAdapter /\ recent[config[c]] /\ Goto(c, "check")
    /\ UNCHANGED <<registryVars, config, joined, result, flightVars, pool,
                   adminVars>>

(* Ping of a cached adapter succeeds, which a closed sql.DB cannot. *)
PingOk(c) ==
    /\ pc[c] = "ping"
    /\ pool[instance[c]] = "open"
    /\ Goto(c, "mark")
    /\ UNCHANGED <<registryVars, config, generation, instance, joined, result,
                   flightVars, pool, adminVars>>

(* Ping ends with context.Canceled or DeadlineExceeded, the caller's or    *)
(* that of the ping's own timeout: the entry stays in the cache.           *)
PingContextDone(c) ==
    /\ pc[c] = "ping"
    /\ Return(c, "ctx")
    /\ UNCHANGED <<registryVars, config, generation, instance, joined,
                   flightVars, pool, adminVars>>

(* Ping fails: the target refuses, or another goroutine closed the pool. *)
PingFailed(c) ==
    /\ pc[c] = "ping"
    /\ Goto(c, "remove")
    /\ UNCHANGED <<registryVars, config, generation, instance, joined, result,
                   flightVars, pool, adminVars>>

MarkHealthy(c) ==
    /\ pc[c] = "mark"
    /\ recent' = [recent EXCEPT ![config[c]] =
                    @ \/ IsCurrent(config[c], instance[c])]
    /\ Goto(c, "check")
    /\ UNCHANGED <<closed, cache, generations, config, generation, instance,
                   joined, result, flightVars, pool, adminVars>>

WithoutAdapter(k, i) ==
    [cache EXCEPT ![k] = IF @ = i THEN NoAdapter ELSE @]

RemoveIfCurrent(c) ==
    /\ pc[c] = "remove"
    /\ cache' = WithoutAdapter(config[c], instance[c])
    /\ Goto(c, "release")
    /\ UNCHANGED <<closed, recent, generations, config, generation, instance,
                   joined, result, flightVars, pool, adminVars>>

(* Mutant: the adapter is dropped without being closed. *)
PoolsWithout(i) == pool

PoolsAfterClose(i) == [pool EXCEPT ![i] = "closed"]

(* The adapter whose ping failed is closed, outside the lock. *)
CloseFailed(c) ==
    /\ pc[c] = "release"
    /\ pool' = PoolsAfterClose(instance[c])
    /\ Goto(c, "join")
    /\ UNCHANGED <<registryVars, config, generation, instance, joined, result,
                   flightVars, adminVars>>

(* Mutant: the group key leaves the generation out. *)
InFlightAnyGeneration(k, g) ==
    {l \in Flight : fpc[l] \notin {"none", "done"} /\ config[l] = k}

(* The flights the singleflight group still holds under the key of c. *)
InFlight(k, g) ==
    {l \in Flight : /\ fpc[l] \notin {"none", "done"}
                    /\ config[l] = k
                    /\ generation[l] = g}

(* DoChan joins the flight under key:generation, or starts one. *)
JoinFlight(c) ==
    /\ pc[c] = "join"
    /\ \/ \E l \in InFlight(config[c], generation[c]) :
             /\ joined' = [joined EXCEPT ![c] = l]
             /\ UNCHANGED fpc
       \/ /\ InFlight(config[c], generation[c]) = {}
          /\ joined' = [joined EXCEPT ![c] = c]
          /\ fpc' = [fpc EXCEPT ![c] = "entry"]
    /\ Goto(c, "wait")
    /\ UNCHANGED <<registryVars, config, generation, instance, result,
                   flightErr, flightVal, pool, adminVars>>

(* The context ends first: the call leaves, the flight goes on. *)
WaitCancelled(c) ==
    /\ pc[c] = "wait"
    /\ Return(c, "ctx")
    /\ UNCHANGED <<registryVars, config, generation, instance, joined,
                   flightVars, pool, adminVars>>

ReceiveError(c) ==
    /\ pc[c] = "wait"
    /\ fpc[joined[c]] = "done"
    /\ flightErr[joined[c]] # "ok"
    /\ Return(c, flightErr[joined[c]])
    /\ UNCHANGED <<registryVars, config, generation, instance, joined,
                   flightVars, pool, adminVars>>

ReceiveAdapter(c) ==
    /\ pc[c] = "wait"
    /\ fpc[joined[c]] = "done"
    /\ flightErr[joined[c]] = "ok"
    /\ instance' = [instance EXCEPT ![c] = flightVal[joined[c]]]
    /\ Goto(c, "check")
    /\ UNCHANGED <<registryVars, config, generation, joined, result,
                   flightVars, pool, adminVars>>

(* Mutant: the last look at the cache is skipped. *)
MayReturn(c) == TRUE

HoldsCurrent(c) == IsCurrent(config[c], instance[c])

(* databaseReturnError, and the return that follows it. *)
DatabaseReturnError(c) ==
    /\ pc[c] = "check"
    /\ \/ closed /\ Return(c, "closed")
       \/ ~closed /\ ~HoldsCurrent(c) /\ Return(c, "released")
       \/ ~closed /\ HoldsCurrent(c) /\ Return(c, "ok")
    /\ UNCHANGED <<registryVars, config, generation, instance, joined,
                   flightVars, pool, adminVars>>

-----------------------------------------------------------------------------
(* connectAndCache, run by the flight's own goroutine with a context that  *)
(* the callers cannot cancel.                                              *)

FlightEnds(l, there, err, val) ==
    /\ fpc' = [fpc EXCEPT ![l] = there]
    /\ flightErr' = [flightErr EXCEPT ![l] = err]
    /\ flightVal' = [flightVal EXCEPT ![l] = val]

(* Mutant: the generation is not compared. *)
AnyGeneration(l) == TRUE

SameGeneration(l) == GenerationOf(l) = generation[l]

(* Mutant: the flight does not look at the cache before it connects. *)
FoundNothing(l) == NoAdapter

(* The adapter that a flight finds cached already. *)
Found(l) == cache[config[l]]

FlightEntry(l) ==
    /\ fpc[l] = "entry"
    /\ \/ closed /\ FlightEnds(l, "deliver", "closed", NoAdapter)
       \/ /\ ~closed
          /\ ~SameGeneration(l)
          /\ FlightEnds(l, "deliver", "released", NoAdapter)
       \/ /\ ~closed
          /\ SameGeneration(l)
          /\ Found(l) # NoAdapter
          /\ FlightEnds(l, "deliver", "ok", Found(l))
       \/ /\ ~closed
          /\ SameGeneration(l)
          /\ Found(l) = NoAdapter
          /\ fpc' = [fpc EXCEPT ![l] = "connect"]
          /\ UNCHANGED <<flightErr, flightVal>>
    /\ UNCHANGED <<registryVars, callVars, pool, adminVars>>

(* Connect opens the adapter's pool, or fails within DialTimeout; then the *)
(* adapter holds no pool and closing it does nothing.                      *)
ConnectOk(l) ==
    /\ fpc[l] = "connect"
    /\ pool' = [pool EXCEPT ![l] = "open"]
    /\ fpc' = [fpc EXCEPT ![l] = "insert"]
    /\ UNCHANGED <<registryVars, callVars, flightErr, flightVal, adminVars>>

ConnectFailed(l) ==
    /\ fpc[l] = "connect"
    /\ FlightEnds(l, "deliver", "failed", NoAdapter)
    /\ UNCHANGED <<registryVars, callVars, pool, adminVars>>

FlightCaches(l) ==
    /\ cache' = [cache EXCEPT ![config[l]] = l]
    /\ recent' = [recent EXCEPT ![config[l]] = TRUE]
    /\ FlightEnds(l, "deliver", "ok", l)
    /\ UNCHANGED <<closed, generations>>

(* The critical section after the connect: the pool is cached, or it is    *)
(* given up because the registry closed, the generation moved on or the    *)
(* configuration has an adapter by now.                                    *)
FlightInsert(l) ==
    /\ fpc[l] = "insert"
    /\ \/ /\ closed
          /\ FlightEnds(l, "abort", "closed", NoAdapter)
          /\ UNCHANGED registryVars
       \/ /\ ~closed
          /\ ~SameGeneration(l)
          /\ FlightEnds(l, "abort", "released", NoAdapter)
          /\ UNCHANGED registryVars
       \/ /\ ~closed
          /\ SameGeneration(l)
          /\ cache[config[l]] # NoAdapter
          /\ FlightEnds(l, "abort", "ok", cache[config[l]])
          /\ UNCHANGED registryVars
       \/ /\ ~closed
          /\ SameGeneration(l)
          /\ cache[config[l]] = NoAdapter
          /\ FlightCaches(l)
    /\ UNCHANGED <<callVars, pool, adminVars>>

(* Mutant: the flight tries again instead. *)
FlightAbortAgain(l) ==
    /\ fpc[l] = "abort"
    /\ fpc' = [fpc EXCEPT ![l] = "insert"]
    /\ UNCHANGED <<registryVars, callVars, flightErr, flightVal, pool, adminVars>>

(* The pool that was not cached is closed, outside the lock. *)
FlightAbort(l) ==
    /\ fpc[l] = "abort"
    /\ pool' = PoolsAfterClose(l)
    /\ fpc' = [fpc EXCEPT ![l] = "deliver"]
    /\ UNCHANGED <<registryVars, callVars, flightErr, flightVal, adminVars>>

(* Mutant: the flight is forgotten and its waiters hear nothing. *)
FlightForgotten(l) ==
    /\ fpc[l] = "deliver"
    /\ fpc' = [fpc EXCEPT ![l] = "none"]
    /\ UNCHANGED <<registryVars, callVars, flightErr, flightVal, pool,
                   adminVars>>

(* singleflight forgets the flight and sends its result to every waiter. *)
FlightDeliver(l) ==
    /\ fpc[l] = "deliver"
    /\ fpc' = [fpc EXCEPT ![l] = "done"]
    /\ UNCHANGED <<registryVars, callVars, flightErr, flightVal, pool,
                   adminVars>>

-----------------------------------------------------------------------------
(* Invalidate and Close.                                                   *)

(* Mutant: empty entries are collected as well. *)
CachedOrNil(K) == {cache[k] : k \in K}

Cached(K) == {cache[k] : k \in K} \ {NoAdapter}

ConfigsOf(r) == {k \in Config : ResourceOf[k] = r}

GenerationsAfter(r) == [generations EXCEPT ![r] = @ + 1]

Invalidate(a, r) ==
    /\ apc[a] = "idle"
    /\ generations' = GenerationsAfter(r)
    /\ stale' = [stale EXCEPT ![a] = Cached(ConfigsOf(r))]
    /\ cache' = [k \in Config |->
                    IF k \in ConfigsOf(r) THEN NoAdapter ELSE cache[k]]
    /\ apc' = [apc EXCEPT ![a] = "closing"]
    /\ UNCHANGED <<closed, recent, callVars, flightVars, pool>>

Close(a) ==
    /\ apc[a] = "idle"
    /\ ~closed
    /\ closed' = TRUE
    /\ stale' = [stale EXCEPT ![a] = Cached(Config)]
    /\ cache' = [k \in Config |-> NoAdapter]
    /\ apc' = [apc EXCEPT ![a] = "closing"]
    /\ UNCHANGED <<recent, generations, callVars, flightVars, pool>>

CloseAgain(a) ==
    /\ apc[a] = "idle"
    /\ closed
    /\ apc' = [apc EXCEPT ![a] = "done"]
    /\ UNCHANGED <<registryVars, callVars, flightVars, pool, stale>>

(* The adapters taken from the cache are closed one by one, outside the    *)
(* lock.                                                                   *)
CloseStale(a, i) ==
    /\ apc[a] = "closing"
    /\ i \in stale[a]
    /\ pool' = PoolsAfterClose(i)
    /\ stale' = [stale EXCEPT ![a] = @ \ {i}]
    /\ UNCHANGED <<registryVars, callVars, flightVars, apc>>

AdminReturns(a) ==
    /\ apc[a] = "closing"
    /\ stale[a] = {}
    /\ apc' = [apc EXCEPT ![a] = "done"]
    /\ UNCHANGED <<registryVars, callVars, flightVars, pool, stale>>

(* Time passes: the last ping of an entry gets dbCachePingInterval old. *)
EntryAges(k) ==
    /\ recent[k]
    /\ recent' = [recent EXCEPT ![k] = FALSE]
    /\ UNCHANGED <<closed, cache, generations, callVars, flightVars, pool,
                   adminVars>>

-----------------------------------------------------------------------------
CallStep(c) ==
    \/ GetCancelled(c) \/ GetClosed(c) \/ GetEntry(c)
    \/ PingOk(c) \/ PingContextDone(c) \/ PingFailed(c)
    \/ MarkHealthy(c) \/ RemoveIfCurrent(c) \/ CloseFailed(c)
    \/ JoinFlight(c) \/ WaitCancelled(c) \/ ReceiveError(c)
    \/ ReceiveAdapter(c) \/ DatabaseReturnError(c)

FlightStep(l) ==
    \/ FlightEntry(l) \/ ConnectOk(l) \/ ConnectFailed(l)
    \/ FlightInsert(l) \/ FlightAbort(l) \/ FlightDeliver(l)

ReleaseStep(a) == AdminReturns(a) \/ \E i \in stale[a] : CloseStale(a, i)

AdminStep(a) ==
    \/ \E r \in Resource : Invalidate(a, r)
    \/ Close(a)
    \/ CloseAgain(a)
    \/ ReleaseStep(a)

(* Every call has returned and every flight and administrator is through. *)
Quiet ==
    /\ \A c \in Call : pc[c] = "done" /\ fpc[c] \in {"none", "done"}
    /\ \A a \in Admin : apc[a] = "done"
    /\ UNCHANGED vars

Next ==
    \/ \E c \in Call : CallStep(c)
    \/ \E l \in Flight : FlightStep(l)
    \/ \E a \in Admin : AdminStep(a)
    \/ \E k \in Config : EntryAges(k)
    \/ Quiet

Spec == Init /\ [][Next]_vars

(* Goroutines that can run do run; Ping and Connect end within their       *)
(* timeouts.  Nothing makes a context end, an administrator act or time    *)
(* pass between two pings.                                                 *)
CallProgress(c) ==
    \/ GetClosed(c) \/ GetEntry(c)
    \/ PingOk(c) \/ PingContextDone(c) \/ PingFailed(c)
    \/ MarkHealthy(c) \/ RemoveIfCurrent(c) \/ CloseFailed(c)
    \/ JoinFlight(c) \/ ReceiveError(c) \/ ReceiveAdapter(c)
    \/ DatabaseReturnError(c)

Fairness ==
    /\ \A c \in Call : WF_vars(CallProgress(c))
    /\ \A l \in Flight : WF_vars(FlightStep(l))
    /\ \A a \in Admin : WF_vars(ReleaseStep(a))

FairSpec == Spec /\ Fairness

-----------------------------------------------------------------------------
(* Properties.                                                             *)

(* Every path that closes an adapter has taken it out of the cache first.  *)
CachedIsOpen ==
    \A k \in Config : cache[k] # NoAdapter =>
        /\ pool[cache[k]] = "open"
        /\ \A a \in Admin : cache[k] \notin stale[a]
        /\ \A c \in Call : pc[c] = "release" => instance[c] # cache[k]

(* A connect that began before an Invalidate is never written back after   *)
(* it, and a closed registry caches nothing.                               *)
CachedIsOfGeneration ==
    \A k \in Config : cache[k] # NoAdapter =>
        /\ ~closed
        /\ config[cache[k]] = k
        /\ generation[cache[k]] = generations[ResourceOf[k]]

(* A pool in the cache is open, and nobody is about to close it.  It was   *)
(* connected with the configuration it is cached for, by a flight that     *)
(* began in the current generation of its resource.                        *)
CacheIsSound == CachedIsOpen /\ CachedIsOfGeneration

Orphaned(i) ==
    /\ pool[i] = "open"
    /\ fpc[i] # "insert"
    /\ \A k \in Config : cache[k] # i

(* No pool is lost: an open pool is cached, is in the hands of the flight  *)
(* that opened it, or is held by somebody whose next steps close it.       *)
NoLeak ==
    \A i \in Adapter : Orphaned(i) =>
        \/ fpc[i] = "abort"
        \/ \E a \in Admin : apc[a] = "closing" /\ i \in stale[a]
        \/ \E c \in Call : pc[c] = "release" /\ instance[c] = i

(* A target never carries two pools of one configuration and generation,   *)
(* however many calls find the cache empty and whenever they join: a       *)
(* second one opens only to replace a pool that failed its ping and is     *)
(* about to be closed.  Pools that an Invalidate or Close has left behind  *)
(* are no longer counted; they close on their way out.                     *)
OnePool ==
    \A i, j \in Adapter :
        /\ i # j
        /\ pool[i] = "open" /\ pool[j] = "open"
        /\ config[i] = config[j]
        /\ generation[i] = generation[j]
        => \/ closed
           \/ generation[i] # GenerationOf(i)
           \/ \E c \in Call : pc[c] = "release" /\ instance[c] \in {i, j}

(* A call fails with "released" only if its resource was invalidated after *)
(* it read the generation, or if the adapter it held failed another call's *)
(* ping: an old flight never fails a call of the new generation.           *)
ReleasedForAReason ==
    \A c \in Call : result[c] = "released" =>
        \/ generation[c] # GenerationOf(c)
        \/ /\ instance[c] # NoAdapter
           /\ \/ pool[instance[c]] = "closed"
              \/ \E d \in Call : pc[d] = "release" /\ instance[d] = instance[c]

(* Every call that has read the entry returns.                             *)
CallsReturn ==
    \A c \in Call : pc[c] # "start" ~> pc[c] = "done"

(* A pool that is open and not cached is closed in the end, and so is      *)
(* every pool of a closed registry, the ones still connecting included.    *)
OrphansAreClosed ==
    \A i \in Adapter :
        (Orphaned(i) \/ (closed /\ pool[i] = "open")) ~> pool[i] = "closed"
-----------------------------------------------------------------------------
(* The registry implements the promise of PoolCache.  flightVal[i] = i     *)
(* says that the flight of i has cached its own adapter.                   *)

LifeOf(i) ==
    IF flightVal[i] # i THEN "new"
    ELSE IF cache[config[i]] = i THEN "live"
    ELSE "retired"

AnswerOf(c) ==
    IF result[c] = "none" THEN "none"
    ELSE IF result[c] = "ok" THEN instance[c]
    ELSE "error"

BornOf(i) == IF flightVal[i] = i THEN generation[i] ELSE 0

Promise == INSTANCE PoolCache WITH
    shut <- closed,
    epoch <- generations,
    table <- cache,
    life <- [i \in Adapter |-> LifeOf(i)],
    born <- [i \in Adapter |-> BornOf(i)],
    answer <- [c \in Call |-> AnswerOf(c)]

(* Every behaviour of the registry is one of PoolCache: a pool is handed   *)
(* out only while it is the live one of its configuration and epoch, and   *)
(* once retired it is never cached or handed out again.                    *)
KeepsPromise == Promise!Spec
=============================================================================
