--------------------------- MODULE RegistryProofs ---------------------------
(***************************************************************************)
(* Proofs about Registry, for any sets of calls, administrators,           *)
(* configurations and resources.  IInv is inductive: one lemma for each of *)
(* its conjuncts says that every step keeps it, given the conjuncts it     *)
(* leans on, with a step of the proof for each action that can disturb it. *)
(* The last part shows that Registry implements PoolCache.                 *)
(***************************************************************************)
EXTENDS Registry, TLAPS

(* The inductive invariant behind the safety properties.  An adapter is    *)
(* known once its flight has cached it; until then only that flight can    *)
(* reach it, afterwards nothing opens it again.                            *)

Known(i) == flightVal[i] = i

(* What a call holds belongs to its configuration and generation. *)
CallShape ==
    \A c \in Call :
        /\ generation[c] <= GenerationOf(c)
        /\ pc[c] = "done" <=> result[c] # "none"
        /\ pc[c] \in {"ping", "mark", "remove", "release", "check"}
             => instance[c] # NoAdapter
        /\ pc[c] = "start" => joined[c] = NoAdapter
        /\ pc[c] = "wait" => joined[c] # NoAdapter
        /\ instance[c] # NoAdapter =>
             /\ Known(instance[c])
             /\ config[instance[c]] = config[c]
             /\ generation[instance[c]] = generation[c]
        /\ joined[c] # NoAdapter =>
             /\ fpc[joined[c]] # "none"
             /\ config[joined[c]] = config[c]
             /\ generation[joined[c]] = generation[c]

(* A flight runs only when its call has read the generation, and returns   *)
(* an adapter of its own configuration and generation.                     *)
FlightShape ==
    \A l \in Flight :
        /\ fpc[l] # "none" => pc[l] \in {"wait", "check", "done"}
        /\ fpc[l] \in {"none", "entry", "connect", "insert"}
             => flightErr[l] = "none" /\ flightVal[l] = NoAdapter
        /\ fpc[l] = "abort" => ~Known(l)
        /\ fpc[l] \in {"insert", "abort"} => pool[l] = "open"
        /\ pool[l] = "open" => Known(l) \/ fpc[l] \in {"insert", "abort"}
        /\ fpc[l] \in {"abort", "deliver", "done"} => flightErr[l] # "none"
        /\ flightErr[l] = "ok" => flightVal[l] # NoAdapter
        /\ flightErr[l] = "released" => generation[l] < GenerationOf(l)
        /\ flightVal[l] # NoAdapter =>
             /\ Known(flightVal[l])
             /\ config[flightVal[l]] = config[l]
             /\ generation[flightVal[l]] = generation[l]

(* Only known adapters are cached or waiting to be closed. *)
AdapterShape ==
    /\ \A k \in Config : cache[k] # NoAdapter => Known(cache[k])
    /\ \A a \in Admin : /\ \A i \in stale[a] : Known(i)
                        /\ apc[a] # "closing" => stale[a] = {}

(* A known adapter that left the cache did so for one of four reasons. *)
WhyNotCached ==
    \A i \in Adapter : Known(i) =>
        \/ cache[config[i]] = i
        \/ closed
        \/ generation[i] < GenerationOf(i)
        \/ pool[i] = "closed"
        \/ \E d \in Call : pc[d] = "release" /\ instance[d] = i

(* The singleflight group runs one flight per configuration and            *)
(* generation at a time.                                                   *)
OneFlight ==
    \A l, m \in Flight :
        /\ fpc[l] \notin {"none", "done"}
        /\ fpc[m] \notin {"none", "done"}
        /\ config[l] = config[m]
        /\ generation[l] = generation[m]
        => l = m

(* A flight whose generation still counts connects only while its          *)
(* configuration has no adapter, and so gives its pool up only when the    *)
(* registry closed or the generation moved on.                             *)
ConnectsWhenNeeded ==
    \A l \in Flight :
        \/ closed
        \/ generation[l] < GenerationOf(l)
        \/ /\ fpc[l] \in {"connect", "insert"} => cache[config[l]] = NoAdapter
           /\ fpc[l] # "abort"

IInv ==
    /\ TypeOK
    /\ CallShape
    /\ FlightShape
    /\ AdapterShape
    /\ WhyNotCached
    /\ CachedIsOpen
    /\ CachedIsOfGeneration
    /\ NoLeak
    /\ OneFlight
    /\ ConnectsWhenNeeded
    /\ ReleasedForAReason

USE ResourceOfAssumption, NoAdapterAssumption
USE DEF Adapter, Flight, registryVars, callVars, flightVars, adminVars
USE DEF CallPC, Result, FlightPC, FlightErr, Pool, AdminPC
USE DEF Goto, Return, IsCurrent, HoldsCurrent, GenerationOf, SameGeneration,
        FlightEnds, FlightCaches, InFlight, Found, PoolsAfterClose, WithoutAdapter,
        Cached, ConfigsOf, GenerationsAfter, Known, Orphaned

(* In the initial state the cache and every flight are empty.              *)
LEMMA InitIInv == Init => IInv
<1> SUFFICES ASSUME Init PROVE IInv
    OBVIOUS
<1>1. TypeOK
  <2>1. /\ closed \in BOOLEAN
        /\ cache \in [Config -> Adapter \cup {NoAdapter}]
        /\ recent \in [Config -> BOOLEAN]
        /\ generations \in [Resource -> Nat]
    BY DEF Init
  <2>2. /\ pc \in [Call -> CallPC]
        /\ config \in [Call -> Config]
        /\ generation \in [Call -> Nat]
        /\ instance \in [Call -> Adapter \cup {NoAdapter}]
        /\ joined \in [Call -> Flight \cup {NoAdapter}]
        /\ result \in [Call -> Result]
    BY DEF Init
  <2>3. /\ fpc \in [Flight -> FlightPC]
        /\ flightErr \in [Flight -> FlightErr]
        /\ flightVal \in [Flight -> Adapter \cup {NoAdapter}]
        /\ pool \in [Adapter -> Pool]
    BY DEF Init
  <2>4. /\ apc \in [Admin -> AdminPC]
        /\ stale \in [Admin -> SUBSET Adapter]
    BY DEF Init
  <2> QED
    BY <2>1, <2>2, <2>3, <2>4 DEF TypeOK
<1>2. CallShape
  <2>1. ASSUME NEW c \in Call
        PROVE  /\ config[c] \in Config
               /\ generation[c] = 0
               /\ GenerationOf(c) = 0
               /\ pc[c] = "start"
               /\ result[c] = "none"
               /\ instance[c] = NoAdapter
               /\ joined[c] = NoAdapter
    BY DEF Init
  <2>2. ASSUME NEW c \in Call
        PROVE  generation[c] <= GenerationOf(c)
    BY <2>1
  <2>3. ASSUME NEW c \in Call
        PROVE  pc[c] = "done" <=> result[c] # "none"
    BY <2>1
  <2>4. ASSUME NEW c \in Call
        PROVE  pc[c] \notin {"ping", "mark", "remove", "release", "check",
                             "wait"}
    BY <2>1
  <2> QED
    BY <2>1, <2>2, <2>3, <2>4, Zenon DEF CallShape
<1>3. FlightShape /\ AdapterShape /\ WhyNotCached
  BY DEF Init, FlightShape, AdapterShape, WhyNotCached
<1>4. CachedIsOpen /\ CachedIsOfGeneration /\ NoLeak
  BY DEF Init, CachedIsOpen, CachedIsOfGeneration, NoLeak
<1>5. OneFlight /\ ConnectsWhenNeeded /\ ReleasedForAReason
  BY DEF Init, OneFlight, ConnectsWhenNeeded, ReleasedForAReason
<1> QED
  BY <1>1, <1>2, <1>3, <1>4, <1>5 DEF IInv

(* Types.                                                                  *)
LEMMA TypeOKKept == IInv /\ [Next]_vars => TypeOK'
<1> SUFFICES ASSUME IInv, [Next]_vars PROVE TypeOK'
    OBVIOUS
<1> USE DEF IInv, TypeOK, CallShape
<1>1. ASSUME NEW c \in Call, CallStep(c) PROVE TypeOK'
  <2>1. CASE GetEntry(c)
    BY <2>1 DEF GetEntry
  <2>2. CASE MarkHealthy(c)
    BY <2>2 DEF MarkHealthy
  <2>3. CASE RemoveIfCurrent(c)
    BY <2>3 DEF RemoveIfCurrent
  <2>4. CASE CloseFailed(c)
    BY <2>4 DEF CloseFailed
  <2>5. CASE JoinFlight(c)
    BY <2>5 DEF JoinFlight
  <2>6. CASE ReceiveError(c)
    BY <2>6 DEF ReceiveError
  <2>7. CASE ReceiveAdapter(c)
    BY <2>7 DEF ReceiveAdapter
  <2> QED
    BY <1>1, <2>1, <2>2, <2>3, <2>4, <2>5, <2>6, <2>7 DEF CallStep,
      GetCancelled, GetClosed, PingOk, PingContextDone, PingFailed,
      WaitCancelled, DatabaseReturnError
<1>2. ASSUME NEW l \in Flight, FlightStep(l) PROVE TypeOK'
  <2>1. CASE FlightEntry(l)
    BY <2>1 DEF FlightEntry
  <2>2. CASE ConnectOk(l)
    BY <2>2 DEF ConnectOk
  <2>3. CASE FlightInsert(l)
    <3> USE <2>3 DEF FlightInsert
    <3>1. cache' \in [Config -> Adapter \cup {NoAdapter}]
      OBVIOUS
    <3>2. recent' \in [Config -> BOOLEAN]
      OBVIOUS
    <3>3. flightVal' \in [Flight -> Adapter \cup {NoAdapter}]
      OBVIOUS
    <3>4. fpc' \in [Flight -> FlightPC] /\ flightErr' \in [Flight -> FlightErr]
      OBVIOUS
    <3> QED
      BY <3>1, <3>2, <3>3, <3>4
  <2>4. CASE FlightAbort(l)
    BY <2>4 DEF FlightAbort
  <2> QED
    BY <1>2, <2>1, <2>2, <2>3, <2>4 DEF FlightStep, ConnectFailed,
      FlightDeliver
<1>3. ASSUME NEW a \in Admin, AdminStep(a) PROVE TypeOK'
  <2>1. ASSUME NEW r \in Resource, Invalidate(a, r) PROVE TypeOK'
    BY <2>1 DEF Invalidate
  <2>2. CASE Close(a)
    BY <2>2 DEF Close
  <2>3. ASSUME NEW i \in stale[a], CloseStale(a, i) PROVE TypeOK'
    BY <2>3 DEF CloseStale
  <2>4. CASE CloseAgain(a)
    BY <2>4 DEF CloseAgain
  <2>5. CASE AdminReturns(a)
    BY <2>5 DEF AdminReturns
  <2> QED
    BY <1>3, <2>1, <2>2, <2>3, <2>4, <2>5 DEF AdminStep, ReleaseStep
<1>4. ASSUME NEW k \in Config, EntryAges(k) PROVE TypeOK'
    BY <1>4 DEF EntryAges
<1>5. CASE UNCHANGED vars
    BY <1>5 DEF vars
<1> QED
    BY <1>1, <1>2, <1>3, <1>4, <1>5 DEF Next, Quiet

(* A call takes over the generation and the adapter it reads, and a        *)
(* flight's adapter is of the flight's configuration and generation.       *)
LEMMA CallShapeKept == IInv /\ [Next]_vars => CallShape'
<1> SUFFICES ASSUME IInv, [Next]_vars PROVE CallShape'
    OBVIOUS
<1> USE DEF IInv, TypeOK, CallShape, FlightShape, AdapterShape,
            CachedIsOfGeneration
<1>1. ASSUME NEW c \in Call, CallStep(c) PROVE CallShape'
  <2>1. CASE GetEntry(c)
    BY <2>1 DEF GetEntry
  <2>2. CASE JoinFlight(c)
    BY <2>2 DEF JoinFlight
  <2>3. CASE ReceiveError(c)
    BY <2>3 DEF ReceiveError
  <2>4. CASE ReceiveAdapter(c)
    BY <2>4 DEF ReceiveAdapter
  <2>5. CASE DatabaseReturnError(c)
    BY <2>5 DEF DatabaseReturnError
  <2> QED
    BY <1>1, <2>1, <2>2, <2>3, <2>4, <2>5 DEF CallStep, GetCancelled,
      GetClosed, PingOk, PingContextDone, PingFailed, MarkHealthy,
      RemoveIfCurrent, CloseFailed, WaitCancelled
<1>2. ASSUME NEW l \in Flight, FlightStep(l) PROVE CallShape'
  <2>1. CASE FlightEntry(l)
    BY <2>1 DEF FlightEntry
  <2>2. CASE FlightInsert(l)
    BY <2>2 DEF FlightInsert
  <2> QED
    BY <1>2, <2>1, <2>2 DEF FlightStep, ConnectOk, ConnectFailed,
      FlightAbort, FlightDeliver
<1>3. ASSUME NEW a \in Admin, AdminStep(a) PROVE CallShape'
  <2>1. ASSUME NEW r \in Resource, Invalidate(a, r) PROVE CallShape'
    BY <2>1 DEF Invalidate
  <2>2. CASE Close(a)
    BY <2>2 DEF Close
  <2>3. ASSUME NEW i \in stale[a], CloseStale(a, i) PROVE CallShape'
    BY <2>3 DEF CloseStale
  <2>4. CASE CloseAgain(a)
    BY <2>4 DEF CloseAgain
  <2>5. CASE AdminReturns(a)
    BY <2>5 DEF AdminReturns
  <2> QED
    BY <1>3, <2>1, <2>2, <2>3, <2>4, <2>5 DEF AdminStep, ReleaseStep
<1>4. ASSUME NEW k \in Config, EntryAges(k) PROVE CallShape'
    BY <1>4 DEF EntryAges
<1>5. CASE UNCHANGED vars
    BY <1>5 DEF vars
<1> QED
    BY <1>1, <1>2, <1>3, <1>4, <1>5 DEF Next, Quiet

(* A flight is started only by a call that waits; what it finds cached     *)
(* is of its own configuration and generation.                             *)
LEMMA FlightShapeKept == IInv /\ [Next]_vars => FlightShape'
<1> SUFFICES ASSUME IInv, [Next]_vars PROVE FlightShape'
    OBVIOUS
<1> USE DEF IInv, TypeOK, FlightShape, CallShape, AdapterShape,
            CachedIsOfGeneration
<1>1. ASSUME NEW c \in Call, CallStep(c) PROVE FlightShape'
  <2>1. CASE GetEntry(c)
    BY <2>1 DEF GetEntry
  <2>2. CASE JoinFlight(c)
    BY <2>2 DEF JoinFlight
  <2> QED
    BY <1>1, <2>1, <2>2 DEF CallStep, GetCancelled, GetClosed, PingOk,
      PingContextDone, PingFailed, MarkHealthy, RemoveIfCurrent,
      CloseFailed, WaitCancelled, ReceiveError, ReceiveAdapter,
      DatabaseReturnError
<1>2. ASSUME NEW l \in Flight, FlightStep(l) PROVE FlightShape'
  <2>1. CASE FlightEntry(l)
    BY <2>1 DEF FlightEntry
  <2>2. CASE FlightInsert(l)
    BY <2>2 DEF FlightInsert
  <2>3. CASE FlightAbort(l)
    BY <2>3 DEF FlightAbort
  <2> QED
    BY <1>2, <2>1, <2>2, <2>3 DEF FlightStep, ConnectOk, ConnectFailed,
      FlightDeliver
<1>3. ASSUME NEW a \in Admin, AdminStep(a) PROVE FlightShape'
  <2>1. ASSUME NEW r \in Resource, Invalidate(a, r) PROVE FlightShape'
    BY <2>1 DEF Invalidate
  <2>2. CASE Close(a)
    BY <2>2 DEF Close
  <2>3. ASSUME NEW i \in stale[a], CloseStale(a, i) PROVE FlightShape'
    BY <2>3 DEF CloseStale
  <2>4. CASE CloseAgain(a)
    BY <2>4 DEF CloseAgain
  <2>5. CASE AdminReturns(a)
    BY <2>5 DEF AdminReturns
  <2> QED
    BY <1>3, <2>1, <2>2, <2>3, <2>4, <2>5 DEF AdminStep, ReleaseStep
<1>4. ASSUME NEW k \in Config, EntryAges(k) PROVE FlightShape'
    BY <1>4 DEF EntryAges
<1>5. CASE UNCHANGED vars
    BY <1>5 DEF vars
<1> QED
    BY <1>1, <1>2, <1>3, <1>4, <1>5 DEF Next, Quiet

(* Only FlightInsert caches, and it makes the adapter known.               *)
LEMMA AdapterShapeKept == IInv /\ [Next]_vars => AdapterShape'
<1> SUFFICES ASSUME IInv, [Next]_vars PROVE AdapterShape'
    OBVIOUS
<1> USE DEF IInv, TypeOK, AdapterShape, FlightShape, CallShape
<1>1. ASSUME NEW c \in Call, CallStep(c) PROVE AdapterShape'
  <2>1. CASE RemoveIfCurrent(c)
    BY <2>1 DEF RemoveIfCurrent
  <2> QED
    BY <1>1, <2>1 DEF CallStep, GetCancelled, GetClosed, GetEntry, PingOk,
      PingContextDone, PingFailed, MarkHealthy, CloseFailed, JoinFlight,
      WaitCancelled, ReceiveError, ReceiveAdapter, DatabaseReturnError
<1>2. ASSUME NEW l \in Flight, FlightStep(l) PROVE AdapterShape'
  <2>1. CASE FlightEntry(l)
    BY <2>1 DEF FlightEntry
  <2>2. CASE FlightInsert(l)
    BY <2>2 DEF FlightInsert
  <2> QED
    BY <1>2, <2>1, <2>2 DEF FlightStep, ConnectOk, ConnectFailed,
      FlightAbort, FlightDeliver
<1>3. ASSUME NEW a \in Admin, AdminStep(a) PROVE AdapterShape'
  <2>1. ASSUME NEW r \in Resource, Invalidate(a, r) PROVE AdapterShape'
    BY <2>1 DEF Invalidate
  <2>2. CASE Close(a)
    BY <2>2 DEF Close
  <2>3. ASSUME NEW i \in stale[a], CloseStale(a, i) PROVE AdapterShape'
    BY <2>3 DEF CloseStale
  <2>4. CASE CloseAgain(a)
    BY <2>4 DEF CloseAgain
  <2>5. CASE AdminReturns(a)
    BY <2>5 DEF AdminReturns
  <2> QED
    BY <1>3, <2>1, <2>2, <2>3, <2>4, <2>5 DEF AdminStep, ReleaseStep
<1>4. ASSUME NEW k \in Config, EntryAges(k) PROVE AdapterShape'
    BY <1>4 DEF EntryAges
<1>5. CASE UNCHANGED vars
    BY <1>5 DEF vars
<1> QED
    BY <1>1, <1>2, <1>3, <1>4, <1>5 DEF Next, Quiet

(* An adapter leaves the cache by a failed ping, by Invalidate or by       *)
(* Close.                                                                  *)
LEMMA WhyNotCachedKept == IInv /\ [Next]_vars => WhyNotCached'
<1> SUFFICES ASSUME IInv, [Next]_vars PROVE WhyNotCached'
    OBVIOUS
<1> USE DEF IInv, TypeOK, WhyNotCached, CallShape, FlightShape,
            AdapterShape, CachedIsOfGeneration
<1>1. ASSUME NEW c \in Call, CallStep(c) PROVE WhyNotCached'
  <2>1. CASE GetEntry(c)
    BY <2>1 DEF GetEntry
  <2>2. CASE RemoveIfCurrent(c)
    BY <2>2 DEF RemoveIfCurrent
  <2>3. CASE CloseFailed(c)
    BY <2>3 DEF CloseFailed
  <2> QED
    BY <1>1, <2>1, <2>2, <2>3 DEF CallStep, GetCancelled, GetClosed,
        PingOk, PingContextDone, PingFailed, MarkHealthy, JoinFlight,
      WaitCancelled, ReceiveError, ReceiveAdapter, DatabaseReturnError
<1>2. ASSUME NEW l \in Flight, FlightStep(l) PROVE WhyNotCached'
  <2>1. CASE FlightEntry(l)
    BY <2>1 DEF FlightEntry
  <2>2. CASE FlightInsert(l)
    BY <2>2 DEF FlightInsert
  <2>3. CASE FlightAbort(l)
    BY <2>3 DEF FlightAbort
  <2> QED
    BY <1>2, <2>1, <2>2, <2>3 DEF FlightStep, ConnectOk, ConnectFailed,
      FlightDeliver
<1>3. ASSUME NEW a \in Admin, AdminStep(a) PROVE WhyNotCached'
  <2>1. ASSUME NEW r \in Resource, Invalidate(a, r) PROVE WhyNotCached'
    BY <2>1 DEF Invalidate
  <2>2. CASE Close(a)
    BY <2>2 DEF Close
  <2>3. ASSUME NEW i \in stale[a], CloseStale(a, i) PROVE WhyNotCached'
    BY <2>3 DEF CloseStale
  <2>4. CASE CloseAgain(a)
    BY <2>4 DEF CloseAgain
  <2>5. CASE AdminReturns(a)
    BY <2>5 DEF AdminReturns
  <2> QED
    BY <1>3, <2>1, <2>2, <2>3, <2>4, <2>5 DEF AdminStep, ReleaseStep
<1>4. ASSUME NEW k \in Config, EntryAges(k) PROVE WhyNotCached'
    BY <1>4 DEF EntryAges
<1>5. CASE UNCHANGED vars
    BY <1>5 DEF vars
<1> QED
    BY <1>1, <1>2, <1>3, <1>4, <1>5 DEF Next, Quiet

(* Whoever closes a known adapter has taken it out of the cache, and       *)
(* FlightInsert caches only an adapter nobody else can reach.              *)
LEMMA CachedIsOpenKept == IInv /\ [Next]_vars => CachedIsOpen'
<1> SUFFICES ASSUME IInv, [Next]_vars PROVE CachedIsOpen'
    OBVIOUS
<1> USE DEF IInv, TypeOK, CachedIsOpen, CallShape, FlightShape,
            AdapterShape, CachedIsOfGeneration
<1>1. ASSUME NEW c \in Call, CallStep(c) PROVE CachedIsOpen'
  <2>1. CASE GetEntry(c)
    BY <2>1 DEF GetEntry
  <2>2. CASE RemoveIfCurrent(c)
    BY <2>2 DEF RemoveIfCurrent
  <2>3. CASE CloseFailed(c)
    BY <2>3 DEF CloseFailed
  <2>4. CASE ReceiveAdapter(c)
    BY <2>4 DEF ReceiveAdapter
  <2>5. CASE PingFailed(c)
    BY <2>5 DEF PingFailed
  <2> QED
    BY <1>1, <2>1, <2>2, <2>3, <2>4, <2>5 DEF CallStep, GetCancelled,
      GetClosed, PingOk, PingContextDone, MarkHealthy, JoinFlight,
      WaitCancelled, ReceiveError, DatabaseReturnError
<1>2. ASSUME NEW l \in Flight, FlightStep(l) PROVE CachedIsOpen'
  <2>1. CASE FlightInsert(l)
    BY <2>1 DEF FlightInsert
  <2>2. CASE FlightAbort(l)
    BY <2>2 DEF FlightAbort
  <2> QED
    BY <1>2, <2>1, <2>2 DEF FlightStep, FlightEntry, ConnectOk,
      ConnectFailed, FlightDeliver
<1>3. ASSUME NEW a \in Admin, AdminStep(a) PROVE CachedIsOpen'
  <2>1. ASSUME NEW r \in Resource, Invalidate(a, r) PROVE CachedIsOpen'
    BY <2>1 DEF Invalidate
  <2>2. CASE Close(a)
    BY <2>2 DEF Close
  <2>3. ASSUME NEW i \in stale[a], CloseStale(a, i) PROVE CachedIsOpen'
    BY <2>3 DEF CloseStale
  <2>4. CASE CloseAgain(a)
    BY <2>4 DEF CloseAgain
  <2>5. CASE AdminReturns(a)
    BY <2>5 DEF AdminReturns
  <2> QED
    BY <1>3, <2>1, <2>2, <2>3, <2>4, <2>5 DEF AdminStep, ReleaseStep
<1>4. ASSUME NEW k \in Config, EntryAges(k) PROVE CachedIsOpen'
    BY <1>4 DEF EntryAges
<1>5. CASE UNCHANGED vars
    BY <1>5 DEF vars
<1> QED
    BY <1>1, <1>2, <1>3, <1>4, <1>5 DEF Next, Quiet

(* FlightInsert compares the generations under the lock that Invalidate    *)
(* advances them under.                                                    *)
LEMMA CachedIsOfGenerationKept == IInv /\ [Next]_vars => CachedIsOfGeneration'
<1> SUFFICES ASSUME IInv, [Next]_vars PROVE CachedIsOfGeneration'
    OBVIOUS
<1> USE DEF IInv, TypeOK, CachedIsOfGeneration, CallShape, FlightShape,
            AdapterShape
<1>1. ASSUME NEW c \in Call, CallStep(c) PROVE CachedIsOfGeneration'
  <2>1. CASE GetEntry(c)
    BY <2>1 DEF GetEntry
  <2>2. CASE RemoveIfCurrent(c)
    BY <2>2 DEF RemoveIfCurrent
  <2> QED
    BY <1>1, <2>1, <2>2 DEF CallStep, GetCancelled, GetClosed, PingOk,
      PingContextDone, PingFailed, MarkHealthy, CloseFailed, JoinFlight,
      WaitCancelled, ReceiveError, ReceiveAdapter, DatabaseReturnError
<1>2. ASSUME NEW l \in Flight, FlightStep(l) PROVE CachedIsOfGeneration'
  <2>1. CASE FlightInsert(l)
    BY <2>1 DEF FlightInsert
  <2> QED
    BY <1>2, <2>1 DEF FlightStep, FlightEntry, ConnectOk, ConnectFailed,
      FlightAbort, FlightDeliver
<1>3. ASSUME NEW a \in Admin, AdminStep(a) PROVE CachedIsOfGeneration'
  <2>1. ASSUME NEW r \in Resource, Invalidate(a, r) PROVE CachedIsOfGeneration'
    BY <2>1 DEF Invalidate
  <2>2. CASE Close(a)
    BY <2>2 DEF Close
  <2>3. ASSUME NEW i \in stale[a], CloseStale(a, i) PROVE CachedIsOfGeneration'
    BY <2>3 DEF CloseStale
  <2>4. CASE CloseAgain(a)
    BY <2>4 DEF CloseAgain
  <2>5. CASE AdminReturns(a)
    BY <2>5 DEF AdminReturns
  <2> QED
    BY <1>3, <2>1, <2>2, <2>3, <2>4, <2>5 DEF AdminStep, ReleaseStep
<1>4. ASSUME NEW k \in Config, EntryAges(k) PROVE CachedIsOfGeneration'
    BY <1>4 DEF EntryAges
<1>5. CASE UNCHANGED vars
    BY <1>5 DEF vars
<1> QED
    BY <1>1, <1>2, <1>3, <1>4, <1>5 DEF Next, Quiet

(* Every step that takes an open pool out of the cache, or gives it up,    *)
(* keeps it in hand until it is closed.                                    *)
LEMMA NoLeakKept == IInv /\ [Next]_vars => NoLeak'
<1> SUFFICES ASSUME IInv, [Next]_vars PROVE NoLeak'
    OBVIOUS
<1> USE DEF IInv, TypeOK, NoLeak, CallShape, FlightShape, AdapterShape
<1>1. ASSUME NEW c \in Call, CallStep(c) PROVE NoLeak'
  <2>1. CASE RemoveIfCurrent(c)
    BY <2>1 DEF RemoveIfCurrent
  <2>2. CASE CloseFailed(c)
    BY <2>2 DEF CloseFailed
  <2>3. CASE GetEntry(c)
    BY <2>3 DEF GetEntry
  <2>4. CASE ReceiveAdapter(c)
    BY <2>4 DEF ReceiveAdapter
  <2> QED
    BY <1>1, <2>1, <2>2, <2>3, <2>4 DEF CallStep, GetCancelled, GetClosed,
        PingOk, PingContextDone, PingFailed, MarkHealthy, JoinFlight,
      WaitCancelled, ReceiveError, DatabaseReturnError
<1>2. ASSUME NEW l \in Flight, FlightStep(l) PROVE NoLeak'
  <2>1. CASE FlightEntry(l)
    BY <2>1 DEF FlightEntry
  <2>2. CASE ConnectOk(l)
    BY <2>2 DEF ConnectOk
  <2>3. CASE ConnectFailed(l)
    BY <2>3 DEF ConnectFailed
  <2>4. CASE FlightInsert(l)
    BY <2>4 DEF FlightInsert
  <2>5. CASE FlightAbort(l)
    BY <2>5 DEF FlightAbort
  <2>6. CASE FlightDeliver(l)
    BY <2>6 DEF FlightDeliver
  <2> QED
    BY <1>2, <2>1, <2>2, <2>3, <2>4, <2>5, <2>6 DEF FlightStep
<1>3. ASSUME NEW a \in Admin, AdminStep(a) PROVE NoLeak'
  <2>1. ASSUME NEW r \in Resource, Invalidate(a, r) PROVE NoLeak'
    BY <2>1 DEF Invalidate
  <2>2. CASE Close(a)
    BY <2>2 DEF Close
  <2>3. ASSUME NEW i \in stale[a], CloseStale(a, i) PROVE NoLeak'
    BY <2>3 DEF CloseStale
  <2>4. CASE CloseAgain(a)
    BY <2>4 DEF CloseAgain
  <2>5. CASE AdminReturns(a)
    BY <2>5 DEF AdminReturns
  <2> QED
    BY <1>3, <2>1, <2>2, <2>3, <2>4, <2>5 DEF AdminStep, ReleaseStep
<1>4. ASSUME NEW k \in Config, EntryAges(k) PROVE NoLeak'
    BY <1>4 DEF EntryAges
<1>5. CASE UNCHANGED vars
    BY <1>5 DEF vars
<1> QED
    BY <1>1, <1>2, <1>3, <1>4, <1>5 DEF Next, Quiet

(* JoinFlight starts a flight only if there is none of its configuration   *)
(* and generation.                                                         *)
LEMMA OneFlightKept == IInv /\ [Next]_vars => OneFlight'
<1> SUFFICES ASSUME IInv, [Next]_vars PROVE OneFlight'
    OBVIOUS
<1> USE DEF IInv, TypeOK, OneFlight, CallShape, FlightShape
<1>1. ASSUME NEW c \in Call, CallStep(c) PROVE OneFlight'
  <2>1. CASE GetEntry(c)
    BY <2>1 DEF GetEntry
  <2>2. CASE JoinFlight(c)
    BY <2>2 DEF JoinFlight
  <2> QED
    BY <1>1, <2>1, <2>2 DEF CallStep, GetCancelled, GetClosed, PingOk,
      PingContextDone, PingFailed, MarkHealthy, RemoveIfCurrent,
      CloseFailed, WaitCancelled, ReceiveError, ReceiveAdapter,
      DatabaseReturnError
<1>2. ASSUME NEW l \in Flight, FlightStep(l) PROVE OneFlight'
  <2>1. CASE FlightDeliver(l)
    BY <2>1 DEF FlightDeliver
  <2> QED
    BY <1>2, <2>1 DEF FlightStep, FlightEntry, ConnectOk, ConnectFailed,
      FlightInsert, FlightAbort
<1>3. ASSUME NEW a \in Admin, AdminStep(a) PROVE OneFlight'
  <2>1. ASSUME NEW r \in Resource, Invalidate(a, r) PROVE OneFlight'
    BY <2>1 DEF Invalidate
  <2>2. CASE Close(a)
    BY <2>2 DEF Close
  <2>3. ASSUME NEW i \in stale[a], CloseStale(a, i) PROVE OneFlight'
    BY <2>3 DEF CloseStale
  <2>4. CASE CloseAgain(a)
    BY <2>4 DEF CloseAgain
  <2>5. CASE AdminReturns(a)
    BY <2>5 DEF AdminReturns
  <2> QED
    BY <1>3, <2>1, <2>2, <2>3, <2>4, <2>5 DEF AdminStep, ReleaseStep
<1>4. ASSUME NEW k \in Config, EntryAges(k) PROVE OneFlight'
    BY <1>4 DEF EntryAges
<1>5. CASE UNCHANGED vars
    BY <1>5 DEF vars
<1> QED
    BY <1>1, <1>2, <1>3, <1>4, <1>5 DEF Next, Quiet

(* Only the one flight of a configuration and generation fills the cache   *)
(* with an adapter of that generation, and then it no longer connects.     *)
LEMMA ConnectsWhenNeededKept == IInv /\ [Next]_vars => ConnectsWhenNeeded'
<1> SUFFICES ASSUME IInv, [Next]_vars PROVE ConnectsWhenNeeded'
    OBVIOUS
<1> USE DEF IInv, TypeOK, ConnectsWhenNeeded, CallShape, FlightShape
<1>1. ASSUME NEW c \in Call, CallStep(c) PROVE ConnectsWhenNeeded'
  <2>1. CASE GetEntry(c)
    BY <2>1 DEF GetEntry
  <2>2. CASE JoinFlight(c)
    BY <2>2 DEF JoinFlight
  <2>3. CASE RemoveIfCurrent(c)
    BY <2>3 DEF RemoveIfCurrent
  <2> QED
    BY <1>1, <2>1, <2>2, <2>3 DEF CallStep, GetCancelled, GetClosed, PingOk,
      PingContextDone, PingFailed, MarkHealthy, CloseFailed, WaitCancelled,
      ReceiveError, ReceiveAdapter, DatabaseReturnError
<1>2. ASSUME NEW l \in Flight, FlightStep(l) PROVE ConnectsWhenNeeded'
  <2>1. CASE FlightEntry(l)
    BY <2>1 DEF FlightEntry
  <2>2. CASE FlightInsert(l)
    <3>1. CASE FlightCaches(l) /\ SameGeneration(l)
      <4> SUFFICES ASSUME NEW m \in Flight
                   PROVE  (\/ closed
                           \/ generation[m] < GenerationOf(m)
                           \/ /\ fpc[m] \in {"connect", "insert"}
                                   => cache[config[m]] = NoAdapter
                              /\ fpc[m] # "abort")'
        OBVIOUS
      <4>1. CASE m = l
        BY <2>2, <3>1, <4>1 DEF FlightInsert
      <4>2. CASE m # l /\ config[m] # config[l]
        BY <2>2, <3>1, <4>2 DEF FlightInsert
      <4>3. CASE m # l /\ config[m] = config[l]
        <5>1. \/ generation[m] # generation[l]
              \/ fpc[m] \in {"none", "done"}
          BY <2>2, <4>3 DEF FlightInsert, OneFlight
        <5>2. generation[m] = generation[l] \/ generation[m] < GenerationOf(m)
          BY <3>1, <4>3
        <5> QED
          BY <2>2, <3>1, <4>3, <5>1, <5>2 DEF FlightInsert
      <4> QED
        BY <4>1, <4>2, <4>3
    <3> QED
      BY <2>2, <3>1 DEF FlightInsert
  <2> QED
    BY <1>2, <2>1, <2>2 DEF FlightStep, ConnectOk, ConnectFailed,
      FlightAbort, FlightDeliver
<1>3. ASSUME NEW a \in Admin, AdminStep(a) PROVE ConnectsWhenNeeded'
  <2>1. ASSUME NEW r \in Resource, Invalidate(a, r) PROVE ConnectsWhenNeeded'
    BY <2>1 DEF Invalidate
  <2>2. CASE Close(a)
    BY <2>2 DEF Close
  <2>3. ASSUME NEW i \in stale[a], CloseStale(a, i) PROVE ConnectsWhenNeeded'
    BY <2>3 DEF CloseStale
  <2>4. CASE CloseAgain(a)
    BY <2>4 DEF CloseAgain
  <2>5. CASE AdminReturns(a)
    BY <2>5 DEF AdminReturns
  <2> QED
    BY <1>3, <2>1, <2>2, <2>3, <2>4, <2>5 DEF AdminStep, ReleaseStep
<1>4. ASSUME NEW k \in Config, EntryAges(k) PROVE ConnectsWhenNeeded'
    BY <1>4 DEF EntryAges
<1>5. CASE UNCHANGED vars
    BY <1>5 DEF vars
<1> QED
    BY <1>1, <1>2, <1>3, <1>4, <1>5 DEF Next, Quiet

(* An error of a flight is reported to calls of its generation only.       *)
LEMMA ReleasedForAReasonKept == IInv /\ [Next]_vars => ReleasedForAReason'
<1> SUFFICES ASSUME IInv, [Next]_vars PROVE ReleasedForAReason'
    OBVIOUS
<1> USE DEF IInv, TypeOK, ReleasedForAReason, CallShape, FlightShape,
            AdapterShape, WhyNotCached
<1>1. ASSUME NEW c \in Call, CallStep(c) PROVE ReleasedForAReason'
  <2>1. CASE ReceiveError(c)
    BY <2>1 DEF ReceiveError
  <2>2. CASE DatabaseReturnError(c)
    BY <2>2 DEF DatabaseReturnError
  <2>3. CASE CloseFailed(c)
    BY <2>3 DEF CloseFailed
  <2> QED
    BY <1>1, <2>1, <2>2, <2>3 DEF CallStep, GetCancelled, GetClosed,
      GetEntry, PingOk, PingContextDone, PingFailed, MarkHealthy,
      RemoveIfCurrent, JoinFlight, WaitCancelled, ReceiveAdapter
<1>2. ASSUME NEW l \in Flight, FlightStep(l) PROVE ReleasedForAReason'
  <2>1. CASE FlightAbort(l)
    BY <2>1 DEF FlightAbort
  <2>2. CASE ConnectOk(l)
    BY <2>2 DEF ConnectOk
  <2> QED
    BY <1>2, <2>1, <2>2 DEF FlightStep, FlightEntry, ConnectFailed,
      FlightInsert, FlightDeliver
<1>3. ASSUME NEW a \in Admin, AdminStep(a) PROVE ReleasedForAReason'
  <2>1. ASSUME NEW r \in Resource, Invalidate(a, r) PROVE ReleasedForAReason'
    BY <2>1 DEF Invalidate
  <2>2. CASE Close(a)
    BY <2>2 DEF Close
  <2>3. ASSUME NEW i \in stale[a], CloseStale(a, i) PROVE ReleasedForAReason'
    BY <2>3 DEF CloseStale
  <2>4. CASE CloseAgain(a)
    BY <2>4 DEF CloseAgain
  <2>5. CASE AdminReturns(a)
    BY <2>5 DEF AdminReturns
  <2> QED
    BY <1>3, <2>1, <2>2, <2>3, <2>4, <2>5 DEF AdminStep, ReleaseStep
<1>4. ASSUME NEW k \in Config, EntryAges(k) PROVE ReleasedForAReason'
    BY <1>4 DEF EntryAges
<1>5. CASE UNCHANGED vars
    BY <1>5 DEF vars
<1> QED
    BY <1>1, <1>2, <1>3, <1>4, <1>5 DEF Next, Quiet

-----------------------------------------------------------------------------
(* IInv holds in every reachable state of the registry.                    *)
THEOREM Invariance == Spec => []IInv
<1>1. IInv /\ [Next]_vars => IInv'
  BY TypeOKKept, CallShapeKept, FlightShapeKept, AdapterShapeKept,
     WhyNotCachedKept, CachedIsOpenKept, CachedIsOfGenerationKept, NoLeakKept,
     OneFlightKept, ConnectsWhenNeededKept, ReleasedForAReasonKept DEF IInv
<1> QED
  BY <1>1, InitIInv, PTL DEF Spec

(* Every variable of the registry keeps its type.                          *)
THEOREM TypeCorrect == Spec => []TypeOK
<1>1. IInv => TypeOK
  BY DEF IInv
<1> QED
  BY <1>1, Invariance, PTL

(* A cached pool is open, nobody is about to close it, and a connect that  *)
(* began before an Invalidate is never cached after it.                    *)
THEOREM TheCacheIsSound == Spec => []CacheIsSound
<1>1. IInv => CacheIsSound
  BY DEF IInv, CacheIsSound
<1> QED
  BY <1>1, Invariance, PTL

(* No open pool is lost: it is cached or in the hands of its closer.       *)
THEOREM NoPoolLeaks == Spec => []NoLeak
<1>1. IInv => NoLeak
  BY DEF IInv
<1> QED
  BY <1>1, Invariance, PTL

(* Two open pools of one configuration and of the current generation: if   *)
(* both have been cached, only one still is, and the other one failed a    *)
(* ping; and a pool not cached yet belongs to the one flight, which        *)
(* connects only while nothing is cached.                                  *)
LEMMA OnePoolHolds == IInv => OnePool
<1> SUFFICES ASSUME IInv,
                    NEW i \in Adapter, NEW j \in Adapter, i # j,
                    pool[i] = "open", pool[j] = "open",
                    config[i] = config[j], generation[i] = generation[j],
                    ~closed, generation[i] = GenerationOf(i),
                    \A c \in Call : pc[c] = "release" => instance[c] \notin {i, j}
             PROVE  FALSE
  BY DEF OnePool
<1> USE DEF IInv, TypeOK
<1>1. ASSUME NEW k \in {i, j}
      PROVE  /\ k \in Adapter /\ k \in Flight /\ pool[k] = "open"
             /\ ~(generation[k] < GenerationOf(k))
             /\ \A c \in Call : ~(pc[c] = "release" /\ instance[c] = k)
  <2>1. /\ generation[i] \in Nat /\ GenerationOf(i) = generation[i]
        /\ generation[j] \in Nat /\ GenerationOf(j) = generation[j]
    OBVIOUS
  <2>2. ~(generation[k] < GenerationOf(k))
    <3>1. generation[k] \in Nat /\ GenerationOf(k) = generation[k]
      BY <2>1
    <3> QED
      BY <3>1
  <2>3. \A c \in Call : ~(pc[c] = "release" /\ instance[c] = k)
    OBVIOUS
  <2> QED
    BY <2>2, <2>3
<1>2. ASSUME NEW k \in {i, j} PROVE cache[config[k]] = k \/ fpc[k] = "insert"
  <2>1. Known(k) \/ fpc[k] \in {"insert", "abort"}
    BY <1>1 DEF FlightShape
  <2>2. fpc[k] # "abort"
    BY <1>1 DEF ConnectsWhenNeeded
  <2>3. Known(k) => cache[config[k]] = k
    BY <1>1 DEF WhyNotCached
  <2> QED
    BY <2>1, <2>2, <2>3
<1>3. ASSUME NEW k \in {i, j}, fpc[k] = "insert" PROVE cache[config[k]] = NoAdapter
  BY <1>1, <1>3 DEF ConnectsWhenNeeded
<1>4. fpc[i] = "insert" /\ fpc[j] = "insert"
  BY <1>2, <1>3
<1> QED
  BY <1>4 DEF OneFlight

(* However many cold calls there are, one generation of a configuration    *)
(* has one pool, but for one that failed its ping and is being closed.     *)
THEOREM ConnectsCoalesce == Spec => []OnePool
<1> QED
  BY OnePoolHolds, Invariance, PTL

(* No call is refused because of a flight of an older generation.          *)
THEOREM RefusalsAreJustified == Spec => []ReleasedForAReason
<1>1. IInv => ReleasedForAReason
  BY DEF IInv
<1> QED
  BY <1>1, Invariance, PTL

-----------------------------------------------------------------------------
(* The registry implements PoolCache: initial states map to initial        *)
(* states, and in a state of the inductive invariant every step maps to a  *)
(* step of PoolCache or to a stutter.  Only five steps are visible there:  *)
(* a call's return, a flight's insert, the removal of a current entry,     *)
(* Invalidate and Close.                                                   *)

HIDE DEF CallPC, Result, FlightPC, FlightErr, Pool, AdminPC

(* The initial states of the registry are initial states of PoolCache.     *)
LEMMA InitRefines == Init => Promise!Init
  BY DEF Init, Promise!Init, LifeOf, BornOf, AnswerOf

(* A step that changes neither the cache nor what the mapping says of an   *)
(* adapter or a call is a stutter.                                         *)
LEMMA Invisible ==
    ASSUME UNCHANGED <<closed, cache, generations>>,
           \A i \in Adapter : LifeOf(i)' = LifeOf(i),
           \A i \in Adapter : BornOf(i)' = BornOf(i),
           \A c \in Call : AnswerOf(c)' = AnswerOf(c)
    PROVE  UNCHANGED Promise!abstractVars
  BY DEF Promise!abstractVars

(* A call that returns an error refuses.                                   *)
LEMMA Refusal ==
    ASSUME IInv, NEW c \in Call, NEW err \in Result \ {"none", "ok"},
           pc[c] # "done", Return(c, err),
           UNCHANGED <<registryVars, config, generation, instance, flightVal>>
    PROVE  Promise!Refuse(c)
<1> USE DEF IInv, TypeOK, CallShape, Result
<1>1. result[c] = "none" /\ result' = [result EXCEPT ![c] = err]
  OBVIOUS
<1>2. \A i \in Adapter : LifeOf(i)' = LifeOf(i)
  BY DEF LifeOf
<1>3. \A d \in Call : AnswerOf(d)' = IF d = c THEN "error" ELSE AnswerOf(d)
  BY <1>1 DEF AnswerOf
<1>4. AnswerOf(c) = "none"
  BY <1>1 DEF AnswerOf
<1>5. \A i \in Adapter : BornOf(i)' = BornOf(i)
  BY DEF BornOf
<1>6. [d \in Call |-> AnswerOf(d)]' =
         [d \in Call |-> IF d = c THEN "error" ELSE AnswerOf(d)]
  BY <1>3
<1>7. [d \in Call |-> IF d = c THEN "error" ELSE AnswerOf(d)] =
         [[d \in Call |-> AnswerOf(d)] EXCEPT ![c] = "error"]
  OBVIOUS
<1>8. UNCHANGED <<[i \in Adapter |-> LifeOf(i)],
                [i \in Adapter |-> BornOf(i)]>>
  BY <1>2, <1>5
<1> QED
  BY <1>4, <1>6, <1>7, <1>8 DEF Promise!Refuse

(* The steps of a call.                                                    *)
LEMMA CallStepRefines ==
    ASSUME IInv, NEW c \in Call, CallStep(c)
    PROVE  [Promise!Next]_(Promise!abstractVars)
<1> USE DEF IInv, TypeOK, CallShape, FlightShape, AdapterShape
<1>1. ASSUME NEW err \in Result \ {"none", "ok"}, pc[c] # "done",
             Return(c, err),
             UNCHANGED <<registryVars, config, generation, instance,
                         flightVal>>
      PROVE  Promise!Next
  <2>1. Promise!Refuse(c)
    BY <1>1, Refusal
  <2> QED
    BY <2>1 DEF Promise!Next
<1>2. CASE GetCancelled(c) \/ GetClosed(c) \/ PingContextDone(c)
             \/ WaitCancelled(c)
  BY <1>1, <1>2 DEF Result, GetCancelled, GetClosed, PingContextDone,
     WaitCancelled
<1>3. CASE ReceiveError(c)
  <2>1. flightErr[joined[c]] \in Result \ {"none", "ok"}
    BY <1>3 DEF Result, FlightErr, ReceiveError
  <2>2. /\ pc[c] # "done"
        /\ Return(c, flightErr[joined[c]])
        /\ UNCHANGED <<registryVars, config, generation, instance, flightVal>>
    BY <1>3 DEF ReceiveError
  <2> QED
    BY <1>1, <2>1, <2>2
<1>4. CASE DatabaseReturnError(c)
  <2>1. CASE closed \/ ~HoldsCurrent(c)
    BY <1>1, <1>4, <2>1 DEF Result, DatabaseReturnError
  <2>2. CASE ~closed /\ HoldsCurrent(c)
    <3>1. /\ result[c] = "none"
          /\ result' = [result EXCEPT ![c] = "ok"]
          /\ UNCHANGED <<registryVars, config, generation, instance,
                         flightVal>>
      BY <1>4, <2>2 DEF DatabaseReturnError
    <3>2. \A i \in Adapter : LifeOf(i)' = LifeOf(i)
      BY <3>1 DEF LifeOf
    <3>3. \A d \in Call :
             AnswerOf(d)' = IF d = c THEN cache[config[c]] ELSE AnswerOf(d)
      BY <2>2, <3>1 DEF AnswerOf
    <3>4. AnswerOf(c) = "none"
      BY <3>1 DEF AnswerOf
    <3>5. /\ cache[config[c]] \in Adapter
          /\ LifeOf(cache[config[c]]) = "live"
          /\ BornOf(cache[config[c]]) = generations[ResourceOf[config[c]]]
      BY <1>4, <2>2 DEF LifeOf, BornOf, CachedIsOfGeneration
    <3>6. [d \in Call |-> AnswerOf(d)]' =
             [d \in Call |-> IF d = c THEN cache[config[c]] ELSE AnswerOf(d)]
      BY <3>3
    <3>7. \A i \in Adapter : BornOf(i)' = BornOf(i)
      BY <3>1 DEF BornOf
    <3>8. UNCHANGED <<[i \in Adapter |-> LifeOf(i)],
                      [i \in Adapter |-> BornOf(i)]>>
      BY <3>2, <3>7
    <3>9. [d \in Call |-> IF d = c THEN cache[config[c]] ELSE AnswerOf(d)] =
             [[d \in Call |-> AnswerOf(d)] EXCEPT ![c] = cache[config[c]]]
      OBVIOUS
    <3>10. Promise!Answer(c, config[c])
      BY <2>2, <3>1, <3>4, <3>5, <3>6, <3>9, <3>8 DEF Promise!Answer
    <3> QED
      BY <3>10 DEF Promise!Next
  <2> QED
    BY <2>1, <2>2
<1>5. CASE GetEntry(c)
  <2>1. \A i \in Adapter : LifeOf(i)' = LifeOf(i)
    BY <1>5 DEF LifeOf, GetEntry
  <2>2. \A i \in Adapter : BornOf(i)' = BornOf(i)
    BY <1>5 DEF BornOf, GetEntry
  <2>3. \A d \in Call : AnswerOf(d)' = AnswerOf(d)
    BY <1>5 DEF AnswerOf, GetEntry
  <2> QED
    BY <1>5, <2>1, <2>2, <2>3, Invisible DEF GetEntry
<1>6. CASE ReceiveAdapter(c)
  <2>1. \A i \in Adapter : LifeOf(i)' = LifeOf(i)
    BY <1>6 DEF LifeOf, ReceiveAdapter
  <2>2. \A i \in Adapter : BornOf(i)' = BornOf(i)
    BY <1>6 DEF BornOf, ReceiveAdapter
  <2>3. \A d \in Call : AnswerOf(d)' = AnswerOf(d)
    BY <1>6 DEF AnswerOf, ReceiveAdapter
  <2> QED
    BY <1>6, <2>1, <2>2, <2>3, Invisible DEF ReceiveAdapter
<1>7. CASE RemoveIfCurrent(c)
  <2>1. UNCHANGED <<closed, generations, config, generation, instance, result,
                    flightVal>>
    BY <1>7 DEF RemoveIfCurrent
  <2>2. \A i \in Adapter : BornOf(i)' = BornOf(i)
    BY <2>1 DEF BornOf
  <2>3. \A d \in Call : AnswerOf(d)' = AnswerOf(d)
    BY <2>1 DEF AnswerOf
  <2>4. CASE ~HoldsCurrent(c)
    <3>1. cache' = cache
      BY <1>7, <2>4 DEF RemoveIfCurrent, WithoutAdapter
    <3>2. \A i \in Adapter : LifeOf(i)' = LifeOf(i)
      BY <2>1, <3>1 DEF LifeOf
    <3> QED
      BY <2>1, <2>2, <2>3, <3>1, <3>2, Invisible
  <2>5. CASE HoldsCurrent(c)
    <3>1. cache' = [cache EXCEPT ![config[c]] = NoAdapter]
      BY <1>7, <2>5 DEF RemoveIfCurrent, WithoutAdapter
    <3>2. cache' = [k \in Config |->
                      IF k \in {config[c]} THEN NoAdapter ELSE cache[k]]
      BY <3>1
    <3>3. \A i \in Adapter :
             LifeOf(i)' = IF \E k \in {config[c]} : cache[k] = i
                          THEN "retired" ELSE LifeOf(i)
      BY <2>1, <2>5, <3>1 DEF LifeOf
    <3>4. Promise!RetireFailed(config[c])
      BY <2>1, <2>2, <2>3, <3>2, <3>3 DEF Promise!RetireFailed,
         Promise!Retire
    <3> QED
      BY <3>4 DEF Promise!Next
  <2> QED
    BY <2>4, <2>5
<1>8. CASE PingOk(c) \/ PingFailed(c) \/ MarkHealthy(c) \/ CloseFailed(c)
             \/ JoinFlight(c)
  <2>1. UNCHANGED <<closed, cache, generations, config, generation, instance,
                    result, flightVal>>
    BY <1>8 DEF PingOk, PingFailed, MarkHealthy, CloseFailed, JoinFlight
  <2>2. \A i \in Adapter : LifeOf(i)' = LifeOf(i) /\ BornOf(i)' = BornOf(i)
    BY <2>1 DEF LifeOf, BornOf
  <2>3. \A d \in Call : AnswerOf(d)' = AnswerOf(d)
    BY <2>1 DEF AnswerOf
  <2> QED
    BY <2>1, <2>2, <2>3, Invisible
<1> QED
  BY <1>2, <1>3, <1>4, <1>5, <1>6, <1>7, <1>8 DEF CallStep

(* The steps of a flight.                                                  *)
LEMMA FlightStepRefines ==
    ASSUME IInv, NEW l \in Flight, FlightStep(l)
    PROVE  [Promise!Next]_(Promise!abstractVars)
<1> USE DEF IInv, TypeOK, FlightShape, AdapterShape
<1>1. ASSUME UNCHANGED <<closed, cache, generations, config, generation,
                         instance, result>>,
             NEW val \in Adapter \cup {NoAdapter}, val # l, ~Known(l),
             flightVal' = [flightVal EXCEPT ![l] = val]
      PROVE  UNCHANGED Promise!abstractVars
  <2>1. \A i \in Adapter : LifeOf(i)' = LifeOf(i) /\ BornOf(i)' = BornOf(i)
    BY <1>1 DEF LifeOf, BornOf
  <2>2. \A d \in Call : AnswerOf(d)' = AnswerOf(d)
    BY <1>1 DEF AnswerOf
  <2> QED
    BY <1>1, <2>1, <2>2, Invisible
<1>2. ASSUME UNCHANGED <<closed, cache, generations, config, generation,
                         instance, result, flightVal>>
      PROVE  UNCHANGED Promise!abstractVars
  <2>1. \A i \in Adapter : LifeOf(i)' = LifeOf(i) /\ BornOf(i)' = BornOf(i)
    BY <1>2 DEF LifeOf, BornOf
  <2>2. \A d \in Call : AnswerOf(d)' = AnswerOf(d)
    BY <1>2 DEF AnswerOf
  <2> QED
    BY <1>2, <2>1, <2>2, Invisible
<1>3. CASE FlightEntry(l)
  <2>1. ~Known(l) /\ cache[config[l]] \in (Adapter \cup {NoAdapter}) \ {l}
    BY <1>3 DEF FlightEntry
  <2>2. CASE fpc' = [fpc EXCEPT ![l] = "connect"] /\ UNCHANGED flightVal
    BY <1>2, <1>3, <2>2 DEF FlightEntry
  <2>3. ASSUME NEW val \in {NoAdapter, cache[config[l]]},
               flightVal' = [flightVal EXCEPT ![l] = val]
        PROVE  UNCHANGED Promise!abstractVars
    BY <1>1, <1>3, <2>1, <2>3 DEF FlightEntry
  <2> QED
    BY <1>3, <2>2, <2>3 DEF FlightEntry
<1>4. CASE FlightInsert(l)
  <2>1. ~Known(l) /\ cache[config[l]] \in (Adapter \cup {NoAdapter}) \ {l}
    BY <1>4 DEF FlightInsert
  <2>2. CASE ~closed /\ SameGeneration(l) /\ cache[config[l]] = NoAdapter
    <3>1. /\ cache' = [cache EXCEPT ![config[l]] = l]
          /\ flightVal' = [flightVal EXCEPT ![l] = l]
          /\ UNCHANGED <<closed, generations, config, generation, instance,
                         result>>
      BY <1>4, <2>2 DEF FlightInsert
    <3>2. \A i \in Adapter :
             LifeOf(i)' = IF i = l THEN "live" ELSE LifeOf(i)
      BY <2>1, <2>2, <3>1 DEF LifeOf
    <3>3. \A i \in Adapter :
             BornOf(i)' = IF i = l THEN generations[ResourceOf[config[l]]]
                          ELSE BornOf(i)
      BY <2>2, <3>1 DEF BornOf
    <3>4. \A d \in Call : AnswerOf(d)' = AnswerOf(d)
      BY <3>1 DEF AnswerOf
    <3>5. LifeOf(l) = "new"
      BY <2>1 DEF LifeOf
    <3>6. [i \in Adapter |-> LifeOf(i)]' =
             [i \in Adapter |-> IF i = l THEN "live" ELSE LifeOf(i)]
      BY <3>2
    <3>7. [i \in Adapter |-> IF i = l THEN "live" ELSE LifeOf(i)] =
             [[i \in Adapter |-> LifeOf(i)] EXCEPT ![l] = "live"]
      OBVIOUS
    <3>8. [i \in Adapter |-> BornOf(i)]' =
             [i \in Adapter |-> IF i = l THEN generations[ResourceOf[config[l]]]
                               ELSE BornOf(i)]
      BY <3>3
    <3>9. [i \in Adapter |-> IF i = l THEN generations[ResourceOf[config[l]]]
                             ELSE BornOf(i)] =
             [[i \in Adapter |-> BornOf(i)] EXCEPT
                ![l] = generations[ResourceOf[config[l]]]]
      OBVIOUS
    <3>10. Promise!Publish(config[l], l)
      BY <2>2, <3>1, <3>4, <3>5, <3>6, <3>7, <3>8, <3>9 DEF Promise!Publish
    <3> QED
      BY <3>10 DEF Promise!Next
  <2>3. ASSUME NEW val \in {NoAdapter, cache[config[l]]},
               flightVal' = [flightVal EXCEPT ![l] = val],
               UNCHANGED registryVars
        PROVE  UNCHANGED Promise!abstractVars
    BY <1>1, <1>4, <2>1, <2>3 DEF FlightInsert
  <2> QED
    BY <1>4, <2>2, <2>3 DEF FlightInsert
<1>5. CASE ConnectFailed(l)
  <2>1. ~Known(l) /\ NoAdapter # l
    BY <1>5 DEF ConnectFailed
  <2>2. /\ flightVal' = [flightVal EXCEPT ![l] = NoAdapter]
        /\ UNCHANGED <<closed, cache, generations, config, generation,
                       instance, result>>
    BY <1>5 DEF ConnectFailed
  <2> QED
    BY <1>1, <2>1, <2>2
<1>6. CASE ConnectOk(l) \/ FlightAbort(l) \/ FlightDeliver(l)
  BY <1>2, <1>6 DEF ConnectOk, FlightAbort, FlightDeliver
<1> QED
  BY <1>3, <1>4, <1>5, <1>6 DEF FlightStep

(* The steps of an administrator.                                          *)
LEMMA AdminStepRefines ==
    ASSUME IInv, NEW a \in Admin, AdminStep(a)
    PROVE  [Promise!Next]_(Promise!abstractVars)
<1> USE DEF IInv, TypeOK, AdapterShape, CachedIsOfGeneration
<1>1. UNCHANGED <<config, generation, instance, result, flightVal>>
  BY DEF AdminStep, ReleaseStep, Invalidate, Close, CloseAgain, CloseStale,
     AdminReturns
<1>2. \A i \in Adapter : BornOf(i)' = BornOf(i)
  BY <1>1 DEF BornOf
<1>3. \A d \in Call : AnswerOf(d)' = AnswerOf(d)
  BY <1>1 DEF AnswerOf
<1>4. ASSUME NEW r \in Resource, Invalidate(a, r)
      PROVE  Promise!Next
  <2>1. \A i \in Adapter :
           LifeOf(i)' =
             IF \E k \in {j \in Config : ResourceOf[j] = r} : cache[k] = i
             THEN "retired" ELSE LifeOf(i)
    BY <1>4 DEF LifeOf, Invalidate, ConfigsOf
  <2>2. /\ closed' = closed
        /\ generations' = [generations EXCEPT ![r] = @ + 1]
        /\ cache' = [k \in Config |->
                       IF k \in {j \in Config : ResourceOf[j] = r}
                       THEN NoAdapter ELSE cache[k]]
    BY <1>4 DEF Invalidate, ConfigsOf, GenerationsAfter
  <2>3. Promise!RetireResource(r)
    BY <1>2, <1>3, <2>1, <2>2 DEF Promise!RetireResource, Promise!Retire
  <2> QED
    BY <2>3 DEF Promise!Next
<1>5. CASE Close(a)
  <2>1. \A i \in Adapter :
           LifeOf(i)' = IF \E k \in Config : cache[k] = i
                        THEN "retired" ELSE LifeOf(i)
    BY <1>5 DEF LifeOf, Close
  <2>2. /\ closed' = TRUE
        /\ generations' = generations
        /\ cache' = [k \in Config |->
                       IF k \in Config THEN NoAdapter ELSE cache[k]]
    BY <1>5 DEF Close
  <2>3. Promise!Shutdown
    BY <1>2, <1>3, <2>1, <2>2 DEF Promise!Shutdown, Promise!Retire
  <2> QED
    BY <2>3 DEF Promise!Next
<1>6. CASE CloseAgain(a) \/ ReleaseStep(a)
  <2>1. UNCHANGED <<closed, cache, generations>>
    BY <1>6 DEF CloseAgain, ReleaseStep, CloseStale, AdminReturns
  <2>2. \A i \in Adapter : LifeOf(i)' = LifeOf(i)
    BY <1>1, <2>1 DEF LifeOf
  <2> QED
    BY <1>2, <1>3, <2>1, <2>2, Invisible
<1> QED
  BY <1>4, <1>5, <1>6 DEF AdminStep

(* Every step of the registry is one of PoolCache or a stutter.            *)
LEMMA StepRefines ==
    IInv /\ [Next]_vars => [Promise!Next]_(Promise!abstractVars)
<1> SUFFICES ASSUME IInv, [Next]_vars
             PROVE  [Promise!Next]_(Promise!abstractVars)
    OBVIOUS
<1>1. CASE (\E k \in Config : EntryAges(k)) \/ UNCHANGED vars
  <2>1. UNCHANGED <<closed, cache, generations, config, generation, instance,
                    result, flightVal>>
    BY <1>1 DEF EntryAges, vars
  <2>2. \A i \in Adapter : LifeOf(i)' = LifeOf(i) /\ BornOf(i)' = BornOf(i)
    BY <2>1 DEF LifeOf, BornOf
  <2>3. \A d \in Call : AnswerOf(d)' = AnswerOf(d)
    BY <2>1 DEF AnswerOf
  <2> QED
    BY <2>1, <2>2, <2>3, Invisible
<1> QED
  BY <1>1, CallStepRefines, FlightStepRefines, AdminStepRefines DEF Next,
     Quiet

(* The registry implements PoolCache.                                      *)
THEOREM RegistryKeepsPromise == Spec => KeepsPromise
<1>1. Init => Promise!Init
  BY InitRefines
<1>2. IInv /\ [Next]_vars => [Promise!Next]_(Promise!abstractVars)
  BY StepRefines
<1> QED
  BY <1>1, <1>2, Invariance, PTL DEF Spec, KeepsPromise, Promise!Spec
=============================================================================
