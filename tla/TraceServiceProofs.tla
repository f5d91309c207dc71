-------------------------- MODULE TraceServiceProofs --------------------------
(***************************************************************************)
(* What the query and trace endpoints promise about stored traces, proved  *)
(* for every number of requests, readers and restarts and every capacity.  *)
(***************************************************************************)
EXTENDS TraceService, DataLemmas

-----------------------------------------------------------------------------
(* The trace cache: its operations keep its invariant. *)

\* The invariant that is inductive: EvictionLedger speaks of a cardinality, so the
\* set of issued traces must be known to be finite.
CacheInv == CacheTypeOK /\ CacheBounded /\ EvictionLedger /\ IsFiniteSet(issued)

\* Dropping from the front of an injective sequence down to the capacity leaves an
\* injective sequence within the capacity (the popitem loop of _store_trace).
LEMMA KeepNewestFits ==
  ASSUME NEW S, NEW s \in Seq(S), \A i, j \in DOMAIN s : s[i] = s[j] => i = j
  PROVE  /\ KeepNewest(s) \in Seq(S)
         /\ Overflow(s) \in Nat
         /\ Len(KeepNewest(s)) = Len(s) - Overflow(s)
         /\ Len(KeepNewest(s)) <= Capacity
         /\ \A i, j \in DOMAIN KeepNewest(s) : KeepNewest(s)[i] = KeepNewest(s)[j] => i = j
         /\ \A i \in DOMAIN KeepNewest(s) : \E j \in DOMAIN s : KeepNewest(s)[i] = s[j]
<1>1. Len(s) \in Nat /\ DOMAIN s = 1..Len(s)
  OBVIOUS
<1>2. Overflow(s) \in Nat /\ Overflow(s) <= Len(s) /\ Len(s) - Overflow(s) <= Capacity
  BY <1>1, CacheAssumption DEF Overflow
<1>3. \A i \in 1..(Len(s) - Overflow(s)) : i + Overflow(s) \in DOMAIN s /\ s[i + Overflow(s)] \in S
  BY <1>1, <1>2
<1>4. KeepNewest(s) \in Seq(S) /\ Len(KeepNewest(s)) = Len(s) - Overflow(s)
  BY <1>1, <1>2, <1>3 DEF KeepNewest
<1>5. DOMAIN KeepNewest(s) = 1..(Len(s) - Overflow(s))
  BY DEF KeepNewest
<1>6. ASSUME NEW i \in DOMAIN KeepNewest(s), NEW j \in DOMAIN KeepNewest(s),
             KeepNewest(s)[i] = KeepNewest(s)[j]
      PROVE  i = j
  <2>1. s[i + Overflow(s)] = s[j + Overflow(s)]
    BY <1>5, <1>6 DEF KeepNewest
  <2>2. i + Overflow(s) = j + Overflow(s)
    BY <2>1, <1>3, <1>5
  <2>3. QED
    BY <2>2, <1>2, <1>5
<1>7. \A i \in DOMAIN KeepNewest(s) : \E j \in DOMAIN s : KeepNewest(s)[i] = s[j]
  BY <1>3, <1>5 DEF KeepNewest
<1>8. QED
  BY <1>2, <1>4, <1>6, <1>7

\* An empty cache satisfies the invariant, at the start and after a restart.
LEMMA EmptyCache ==
  ASSUME traces = <<>>, evictions = 0, issued = {}, uses = <<>>
  PROVE  CacheInv
<1>1. CacheTypeOK
  BY DEF CacheTypeOK
<1>2. CacheBounded
  BY CacheAssumption DEF CacheBounded
<1>3. Cardinality(issued) = 0 /\ IsFiniteSet(issued)
  BY FS_EmptySet
<1>4. EvictionLedger
  BY <1>3 DEF EvictionLedger, Cached, Keys
<1>5. QED
  BY <1>1, <1>2, <1>3, <1>4 DEF CacheInv

\* Storing a new trace keeps the bound and accounts for what it evicts.
LEMMA StoreTraceKeeps ==
  ASSUME CacheInv, NEW t \in Trace, StoreTrace(t)
  PROVE  CacheInv'
<1> DEFINE s == Append(traces, t)
<1>1. /\ traces \in Seq(Trace) /\ evictions \in Nat /\ issued \subseteq Trace
      /\ uses \in Seq(Trace)
      /\ \A i, j \in DOMAIN traces : traces[i] = traces[j] => i = j
      /\ \A i \in DOMAIN traces : traces[i] \in issued
      /\ evictions = Cardinality(issued) - Len(traces)
      /\ IsFiniteSet(issued)
  BY DEF CacheInv, CacheTypeOK, CacheBounded, EvictionLedger, Cached, Keys
<1>2. t \notin issued /\ traces' = KeepNewest(s) /\ evictions' = evictions + Overflow(s)
      /\ issued' = issued \cup {t} /\ uses' = Append(uses, t)
  BY DEF StoreTrace
<1>3. s \in Seq(Trace) /\ Len(s) = Len(traces) + 1 /\ Len(traces) \in Nat
  BY <1>1
<1>4. \A i \in DOMAIN s : s[i] = IF i = Len(s) THEN t ELSE traces[i]
  BY <1>1, <1>3
<1>5. \A i \in DOMAIN s : i # Len(s) => i \in DOMAIN traces
  BY <1>1, <1>3
<1>6. \A i, j \in DOMAIN s : s[i] = s[j] => i = j
  BY <1>1, <1>2, <1>4, <1>5
<1>7. /\ KeepNewest(s) \in Seq(Trace)
      /\ Overflow(s) \in Nat
      /\ Len(KeepNewest(s)) = Len(s) - Overflow(s)
      /\ Len(KeepNewest(s)) <= Capacity
      /\ \A i, j \in DOMAIN KeepNewest(s) : KeepNewest(s)[i] = KeepNewest(s)[j] => i = j
      /\ \A i \in DOMAIN KeepNewest(s) : \E j \in DOMAIN s : KeepNewest(s)[i] = s[j]
  <2> HIDE DEF s
  <2>1. QED
    BY <1>3, <1>6, KeepNewestFits
<1>8. Cardinality(issued') = Cardinality(issued) + 1 /\ IsFiniteSet(issued')
  BY <1>1, <1>2, FS_AddElement
<1>9. Cardinality(issued) \in Nat
  BY <1>1, FS_CardinalityType
<1>10. CacheTypeOK'
  BY <1>1, <1>2, <1>7 DEF CacheTypeOK
<1>11. CacheBounded'
  BY <1>2, <1>7 DEF CacheBounded
<1>12. \A i \in DOMAIN KeepNewest(s) : KeepNewest(s)[i] \in issued \cup {t}
  BY <1>1, <1>4, <1>5, <1>7
<1>13. EvictionLedger'
  <2>1. Cached' \subseteq issued'
    BY <1>2, <1>12 DEF Cached, Keys
  <2>2. evictions' = Cardinality(issued') - Len(traces')
    BY <1>1, <1>2, <1>3, <1>7, <1>8, <1>9
  <2>3. QED
    BY <2>1, <2>2 DEF EvictionLedger
<1>14. QED
  BY <1>8, <1>10, <1>11, <1>13 DEF CacheInv

\* A lookup only reorders the entries.
LEMMA TouchTraceKeeps ==
  ASSUME CacheInv, NEW t, TouchTrace(t)
  PROVE  CacheInv'
<1>1. /\ traces \in Seq(Trace)
      /\ \A i, j \in DOMAIN traces : traces[i] = traces[j] => i = j
      /\ \A i \in DOMAIN traces : traces[i] \in issued
      /\ Len(traces) <= Capacity
      /\ evictions = Cardinality(issued) - Len(traces)
  BY DEF CacheInv, CacheTypeOK, CacheBounded, EvictionLedger, Cached, Keys
<1>2. /\ traces' = MoveToEnd(traces, t) /\ evictions' = evictions /\ issued' = issued
      /\ \E i \in DOMAIN traces : traces[i] = t
  BY DEF TouchTrace, Cached, Keys
<1>3. /\ traces' \in Seq(Trace)
      /\ Len(traces') = Len(traces)
      /\ \A i, j \in DOMAIN traces : traces'[i] = traces'[j] => i = j
      /\ \A i \in DOMAIN traces : \E j \in DOMAIN traces : traces'[i] = traces[j]
  BY <1>1, <1>2, MoveToEndPermutes
<1>4. DOMAIN traces' = DOMAIN traces
  BY <1>1, <1>3
<1>5. CacheTypeOK'
  <2>1. t \in Trace /\ uses' = Append(uses, t)
    BY <1>1, <1>2 DEF TouchTrace
  <2>2. QED
    BY <1>2, <1>3, <2>1 DEF CacheTypeOK, CacheInv
<1>6. CacheBounded'
  BY <1>1, <1>3, <1>4 DEF CacheBounded
<1>7. EvictionLedger'
  <2>1. \A i \in DOMAIN traces' : traces'[i] \in issued'
    BY <1>1, <1>2, <1>3, <1>4
  <2>2. QED
    BY <1>1, <1>2, <1>3, <2>1 DEF EvictionLedger, Cached, Keys
<1>8. QED
  BY <1>2, <1>5, <1>6, <1>7 DEF CacheInv

\* A step that leaves the cache alone.
LEMMA UnchangedCacheKeeps ==
  ASSUME CacheInv, UNCHANGED cacheVars
  PROVE  CacheInv'
BY DEF CacheInv, CacheTypeOK, CacheBounded, EvictionLedger, Cached, Keys, cacheVars

-----------------------------------------------------------------------------
(* The service. *)

\* How far a request is and whether its trace is stored agree.  CountedOnce needs
\* it: the counter moves with the request, the set it counts with the cache.
StoredAfterRunning ==
  /\ \A t \in Trace : request[t] = "stored" => t \in issued
  /\ \A t \in issued : request[t] \notin {"new", "running"}

ServiceInv ==
  /\ TypeOK
  /\ CacheInv
  /\ StoredAfterRunning
  /\ AnsweredIsDurable
  /\ CountedOnce

Counted == {t \in issued : request[t] # "stored"}

-----------------------------------------------------------------------------
\* A step of one request changes that request's state and no other's.
LEMMA MoveOne ==
  ASSUME request \in [Trace -> RequestState], NEW t \in Trace, NEW from,
         NEW to \in RequestState, Move(t, from, to)
  PROVE  /\ request' \in [Trace -> RequestState]
         /\ request[t] = from
         /\ \A u \in Trace : request'[u] = IF u = t THEN to ELSE request[u]
BY DEF Move

\* The invariant holds initially.
LEMMA ServiceInit == Init => ServiceInv
<1> SUFFICES ASSUME Init PROVE ServiceInv
  OBVIOUS
<1>1. CacheInv
  BY EmptyCache DEF Init, CacheInit
<1>2. TypeOK
  <2>1. CacheTypeOK
    BY <1>1 DEF CacheInv
  <2>2. reader \in [Reader -> ReaderState]
    BY ServiceAssumption DEF Init, ReaderState
  <2>3. QED
    BY <2>1, <2>2, ServiceAssumption DEF Init, TypeOK, RequestState
<1>3. StoredAfterRunning /\ AnsweredIsDurable
  BY DEF Init, CacheInit, StoredAfterRunning, AnsweredIsDurable
<1>4. CountedOnce
  <2>1. {t \in issued : request[t] # "stored"} = {}
    BY DEF Init, CacheInit
  <2>2. QED
    BY <2>1, FS_EmptySet DEF Init, CountedOnce
<1>5. QED
  BY <1>1, <1>2, <1>3, <1>4 DEF ServiceInv

\* The run of a request stores its trace: one more issued, none counted yet.
LEMMA RunStoresKeeps ==
  ASSUME ServiceInv, NEW t \in Trace, RunStores(t)
  PROVE  ServiceInv'
<1>1. CacheInv'
  BY StoreTraceKeeps DEF ServiceInv, RunStores
<1>2. /\ request' \in [Trace -> RequestState] /\ request[t] = "running"
      /\ \A u \in Trace : request'[u] = IF u = t THEN "stored" ELSE request[u]
  BY MoveOne DEF RunStores, ServiceInv, TypeOK, RequestState
<1>3. TypeOK'
  BY <1>1, <1>2 DEF RunStores, ServiceInv, TypeOK, serverVars, CacheInv
<1>4. issued' = issued \cup {t} /\ issued \subseteq Trace /\ t \notin issued
  BY DEF RunStores, StoreTrace, ServiceInv, TypeOK, CacheTypeOK
<1>5. StoredAfterRunning'
  BY <1>2, <1>4 DEF ServiceInv, StoredAfterRunning
<1>6. AnsweredIsDurable'
  BY <1>2 DEF RunStores, serverVars, ServiceInv, AnsweredIsDurable, TypeOK
<1>7. CountedOnce'
  <2>1. Counted' = Counted
    BY <1>2, <1>4 DEF Counted
  <2>2. QED
    BY <2>1 DEF ServiceInv, CountedOnce, Counted, RunStores
<1>8. QED
  BY <1>1, <1>3, <1>5, <1>6, <1>7 DEF ServiceInv

\* Observing counts exactly the trace that moves out of "stored".
LEMMA ObserveKeeps ==
  ASSUME ServiceInv, NEW t \in Trace, Observe(t)
  PROVE  ServiceInv'
<1> DEFINE to == IF redisClient THEN "observed" ELSE "answered"
<1>1. /\ request' \in [Trace -> RequestState] /\ request[t] = "stored"
      /\ \A u \in Trace : request'[u] = IF u = t THEN to ELSE request[u]
  <2>1. to \in RequestState /\ Move(t, "stored", to) /\ request \in [Trace -> RequestState]
    BY DEF Observe, RequestState, ServiceInv, TypeOK
  <2> HIDE DEF to
  <2>2. QED
    BY <2>1, MoveOne
<1>2. to \notin {"stored", "new", "running"}
  OBVIOUS
<1> HIDE DEF to
<1>3. CacheInv'
  BY UnchangedCacheKeeps DEF ServiceInv, Observe
<1>4. issued' = issued /\ issued \subseteq Trace /\ queries' = queries + 1 /\ queries \in Nat
  BY DEF Observe, cacheVars, ServiceInv, TypeOK, CacheTypeOK
<1>5. TypeOK'
  BY <1>1, <1>3, <1>4 DEF Observe, ServiceInv, TypeOK, serverVars, CacheInv
<1>6. StoredAfterRunning'
  BY <1>1, <1>2, <1>4 DEF ServiceInv, StoredAfterRunning
<1>7. AnsweredIsDurable'
  BY <1>1 DEF Observe, serverVars, ServiceInv, AnsweredIsDurable, TypeOK
<1>8. CountedOnce'
  <2>1. Counted' = Counted \cup {t} /\ t \notin Counted
    BY <1>1, <1>2, <1>4 DEF Counted, ServiceInv, StoredAfterRunning
  <2>2. IsFiniteSet(Counted)
    BY FS_Subset DEF Counted, ServiceInv, CacheInv
  <2>3. Cardinality(Counted') = Cardinality(Counted) + 1
    BY <2>1, <2>2, FS_AddElement
  <2>4. QED
    BY <1>4, <2>3 DEF ServiceInv, CountedOnce, Counted
<1>9. QED
  BY <1>3, <1>5, <1>6, <1>7, <1>8 DEF ServiceInv

\* The steps of a request that leave the counter and the set of issued traces
\* alone and do not move it into or out of "stored".
LEMMA OtherQueryKeeps ==
  ASSUME ServiceInv, NEW t \in Trace, NEW from \in RequestState, NEW to \in RequestState,
         Move(t, from, to), from # "stored",
         to \notin {"stored", "new"}, to = "running" => from = "new",
         issued' = issued, queries' = queries, CacheInv',
         redisClient' = redisClient, dropped' = dropped, restarts' = restarts, reader' = reader,
         \/ redis' = redis /\ durable' = durable /\ from # "answered"
         \/ redis' = redis \cup {t} /\ durable' = durable /\ from # "answered"
         \/ redis' = redis \cup {t} /\ durable' = durable \cup {t} /\ to = "answered"
  PROVE  ServiceInv'
<1>1. /\ request' \in [Trace -> RequestState] /\ request[t] = from
      /\ \A u \in Trace : request'[u] = IF u = t THEN to ELSE request[u]
  BY MoveOne DEF ServiceInv, TypeOK
<1>2. issued \subseteq Trace
  BY DEF ServiceInv, TypeOK, CacheTypeOK
<1>3. TypeOK'
  BY <1>1 DEF ServiceInv, TypeOK, CacheInv
<1>4. StoredAfterRunning'
  BY <1>1, <1>2 DEF ServiceInv, StoredAfterRunning
<1>5. AnsweredIsDurable'
  BY <1>1 DEF ServiceInv, AnsweredIsDurable, TypeOK
<1>6. CountedOnce'
  <2>1. Counted' = Counted
    BY <1>1, <1>2 DEF Counted
  <2>2. QED
    BY <2>1 DEF ServiceInv, CountedOnce, Counted
<1>7. QED
  BY <1>3, <1>4, <1>5, <1>6 DEF ServiceInv

\* Every step of a request keeps the invariant.
LEMMA QueryKeeps ==
  ASSUME ServiceInv, NEW t \in Trace, Query(t)
  PROVE  ServiceInv'
<1> USE DEF RequestState, serverVars
<1>1. CASE Begin(t)
  <2>1. CacheInv' /\ issued' = issued
    BY <1>1, UnchangedCacheKeeps DEF Begin, ServiceInv, cacheVars
  <2>2. QED
    BY <1>1, <2>1, OtherQueryKeeps DEF Begin
<1>2. CASE RunRaises(t)
  <2>1. CacheInv' /\ issued' = issued
    BY <1>2, UnchangedCacheKeeps DEF RunRaises, ServiceInv, cacheVars
  <2>2. QED
    BY <1>2, <2>1, OtherQueryKeeps DEF RunRaises
<1>3. CASE RunStores(t)
  BY <1>3, RunStoresKeeps
<1>4. CASE Observe(t)
  BY <1>4, ObserveKeeps
<1>5. CASE FetchOwn(t)
  <2>1. CacheInv' /\ issued' = issued
    BY <1>5, TouchTraceKeeps DEF FetchOwn, ServiceInv, TouchTrace
  <2>2. QED
    BY <1>5, <2>1, OtherQueryKeeps DEF FetchOwn
<1>6. CASE FetchEvicted(t)
  <2>1. CacheInv' /\ issued' = issued
    BY <1>6, UnchangedCacheKeeps DEF FetchEvicted, ServiceInv, cacheVars
  <2>2. QED
    BY <1>6, <2>1, OtherQueryKeeps DEF FetchEvicted
<1>7. CASE SetEx(t)
  <2>1. CacheInv' /\ issued' = issued
    BY <1>7, UnchangedCacheKeeps DEF SetEx, ServiceInv, cacheVars
  <2>2. QED
    BY <1>7, <2>1, OtherQueryKeeps DEF SetEx
<1>8. CASE SetExRaises(t)
  <2>1. CacheInv' /\ issued' = issued
    BY <1>8, UnchangedCacheKeeps DEF SetExRaises, ServiceInv, cacheVars
  <2>2. QED
    BY <1>8, <2>1, OtherQueryKeeps DEF SetExRaises
<1>9. QED
  BY <1>1, <1>2, <1>3, <1>4, <1>5, <1>6, <1>7, <1>8 DEF Query

\* The readers change nothing but the order of the cache and their own state.
LEMMA ReaderKeeps ==
  ASSUME ServiceInv, NEW d \in Reader, ReadRedis(d) \/ \E t \in Trace : ReadLocal(d, t)
  PROVE  ServiceInv'
<1>1. CacheInv' /\ issued' = issued
  <2>1. CASE ReadRedis(d)
    BY <2>1, UnchangedCacheKeeps DEF ReadRedis, ServiceInv, cacheVars
  <2>2. ASSUME NEW t \in Trace, ReadLocal(d, t) PROVE CacheInv' /\ issued' = issued
    <3>1. CASE TouchTrace(t)
      BY <3>1, TouchTraceKeeps DEF ServiceInv, TouchTrace
    <3>2. CASE UNCHANGED cacheVars
      BY <3>2, UnchangedCacheKeeps DEF ServiceInv, cacheVars
    <3>3. QED
      BY <2>2, <3>1, <3>2 DEF ReadLocal
  <2>3. QED
    BY <2>1, <2>2
<1>2. reader' \in [Reader -> ReaderState]
  BY ServiceAssumption DEF ReadRedis, ReadLocal, ServiceInv, TypeOK, ReaderState
<1>3. /\ redisClient' = redisClient /\ redis' = redis /\ dropped' = dropped /\ durable' = durable
      /\ restarts' = restarts /\ request' = request /\ queries' = queries
  BY DEF ReadRedis, ReadLocal, serverVars
<1>4. QED
  BY <1>1, <1>2, <1>3
     DEF ServiceInv, TypeOK, CacheInv, StoredAfterRunning, AnsweredIsDurable, CountedOnce

\* A restart keeps what Redis holds and what was answered, and empties the rest.
LEMMA RestartKeeps ==
  ASSUME ServiceInv, Restart
  PROVE  ServiceInv'
<1>1. traces' = <<>> /\ evictions' = 0 /\ issued' = {} /\ uses' = <<>>
  BY DEF Restart, ResetCache
<1>2. CacheInv'
  <2>1. CacheTypeOK'
    BY <1>1 DEF CacheTypeOK
  <2>2. CacheBounded'
    BY <1>1, CacheAssumption DEF CacheBounded
  <2>3. Cardinality(issued') = 0 /\ IsFiniteSet(issued')
    BY <1>1, FS_EmptySet
  <2>4. EvictionLedger'
    BY <1>1, <2>3 DEF EvictionLedger, Cached, Keys
  <2>5. QED
    BY <2>1, <2>2, <2>3, <2>4 DEF CacheInv
<1>3. /\ request' \in [Trace -> RequestState]
      /\ \A t \in Trace : request'[t] = IF request[t] \in InFlight THEN "lost" ELSE request[t]
      /\ queries' = 0
      /\ redis' = redis /\ dropped' = dropped /\ durable' = durable
  BY DEF Restart, ServiceInv, TypeOK, RequestState
<1>4. reader' \in [Reader -> ReaderState]
  BY DEF Restart, ServiceInv, TypeOK, ReaderState
<1>5. TypeOK'
  BY <1>2, <1>3, <1>4 DEF Restart, ServiceInv, TypeOK, CacheInv
<1>6. StoredAfterRunning'
  BY <1>1, <1>3 DEF StoredAfterRunning, InFlight
<1>7. AnsweredIsDurable'
  BY <1>3 DEF ServiceInv, TypeOK, AnsweredIsDurable, InFlight
<1>8. CountedOnce'
  <2>1. {t \in issued' : request'[t] # "stored"} = {}
    BY <1>1
  <2>2. QED
    BY <1>3, <2>1, FS_EmptySet DEF CountedOnce
<1>9. QED
  BY <1>2, <1>5, <1>6, <1>7, <1>8 DEF ServiceInv

\* Redis forgetting a key, and the steps that change nothing.
LEMMA RedisDropsKeeps ==
  ASSUME ServiceInv, NEW t \in Trace, RedisDrops(t)
  PROVE  ServiceInv'
<1>1. CacheInv'
  BY UnchangedCacheKeeps DEF ServiceInv, RedisDrops
<1>2. QED
  BY <1>1 DEF RedisDrops, ServiceInv, TypeOK, CacheInv, StoredAfterRunning, AnsweredIsDurable,
              CountedOnce, cacheVars

LEMMA StutterKeeps ==
  ASSUME ServiceInv, UNCHANGED serviceVars
  PROVE  ServiceInv'
<1>1. CacheInv'
  BY UnchangedCacheKeeps DEF ServiceInv, serviceVars
<1>2. QED
  BY <1>1 DEF ServiceInv, TypeOK, CacheInv, StoredAfterRunning, AnsweredIsDurable, CountedOnce,
              serviceVars, serverVars, cacheVars

\* ServiceInv is inductive.
LEMMA ServiceStep == ServiceInv /\ [Next]_serviceVars => ServiceInv'
<1> SUFFICES ASSUME ServiceInv, [Next]_serviceVars PROVE ServiceInv'
  OBVIOUS
<1>1. ASSUME NEW t \in Trace, Query(t) PROVE ServiceInv'
  BY <1>1, QueryKeeps
<1>2. ASSUME NEW t \in Trace, RedisDrops(t) PROVE ServiceInv'
  BY <1>2, RedisDropsKeeps
<1>3. ASSUME NEW d \in Reader, ReadRedis(d) \/ \E t \in Trace : ReadLocal(d, t)
      PROVE  ServiceInv'
  BY <1>3, ReaderKeeps
<1>4. CASE Restart
  BY <1>4, RestartKeeps
<1>5. CASE Quiet \/ UNCHANGED serviceVars
  BY <1>5, StutterKeeps DEF Quiet
<1>6. QED
  BY <1>1, <1>2, <1>3, <1>4, <1>5 DEF Next

-----------------------------------------------------------------------------
\* The invariant holds in every reachable state of the server.
THEOREM ServiceInvariant == Spec => []ServiceInv
<1>1. QED
  BY ServiceInit, ServiceStep, PTL DEF Spec

\* Every variable of the server keeps its type (api.py, agent.py).
THEOREM TypeCorrect == Spec => []TypeOK
<1>1. ServiceInv => TypeOK
  BY DEF ServiceInv
<1>2. QED
  BY <1>1, ServiceInvariant, PTL

\* The cache of EnergyAgent never exceeds trace_capacity and holds no trace twice.
THEOREM CacheStaysBounded == Spec => []CacheBounded
<1>1. ServiceInv => CacheBounded
  BY DEF ServiceInv, CacheInv
<1>2. QED
  BY <1>1, ServiceInvariant, PTL

\* The two gauges of trace_stats account for every trace this process stored.
THEOREM EvictionsAccounted == Spec => []EvictionLedger
<1>1. ServiceInv => EvictionLedger
  BY DEF ServiceInv, CacheInv
<1>2. QED
  BY <1>1, ServiceInvariant, PTL

\* A request that a process with Redis answered left its trace in Redis, whatever
\* the cache evicts and however often the process restarts.
THEOREM AnswersAreDurable == Spec => []AnsweredIsDurable
<1>1. ServiceInv => AnsweredIsDurable
  BY DEF ServiceInv
<1>2. QED
  BY <1>1, ServiceInvariant, PTL

\* service_metrics counts every stored run exactly once.
THEOREM QueriesCountedOnce == Spec => []CountedOnce
<1>1. ServiceInv => CountedOnce
  BY DEF ServiceInv
<1>2. QED
  BY <1>1, ServiceInvariant, PTL

\* GET /api/agent/traces/{trace_id} answers 404 for a trace that a process with
\* Redis answered only once Redis itself has dropped it.
THEOREM NoMissIsFalse == Spec => NoFalseMiss
<1> DEFINE A == \A d \in Reader :
                  reader[d].at # "missing" /\ reader'[d].at = "missing" /\ redisClient =>
                    reader'[d].trace \notin durable \/ reader'[d].trace \in dropped
<1>1. ASSUME ServiceInv, Next PROVE A
  <2> SUFFICES ASSUME NEW e \in Reader, reader[e].at # "missing",
                      reader'[e].at = "missing", redisClient
               PROVE  reader'[e].trace \notin durable \/ reader'[e].trace \in dropped
    OBVIOUS
  <2>1. reader \in [Reader -> ReaderState] /\ reader' # reader
    BY <1>1 DEF ServiceInv, TypeOK
  <2>2. PICK d \in Reader : ReadRedis(d) \/ (\E t \in Trace : ReadLocal(d, t)) \/ Restart
    BY <1>1, <2>1 DEF Next, Query, Begin, RunRaises, RunStores, Observe, FetchOwn, FetchEvicted,
                      SetEx, SetExRaises, RedisDrops, Quiet, serviceVars
  <2>3. CASE ReadRedis(d)
    <3>1. e = d /\ reader'[e].trace = reader[e].trace /\ reader[e].trace \notin redis
      BY <2>1, <2>3 DEF ReadRedis, ReaderState
    <3>2. QED
      BY <1>1, <3>1 DEF ServiceInv, AnsweredIsDurable
  <2>4. CASE \E t \in Trace : ReadLocal(d, t)
    <3>1. reader'[e].at \in {"found", "local"} \/ reader'[e] = reader[e]
      BY <2>1, <2>4 DEF ReadLocal, ReaderState
    <3>2. QED
      BY <3>1
  <2>5. CASE Restart
    <3>1. reader'[e].at = "raised" \/ reader'[e] = reader[e]
      BY <2>1, <2>5 DEF Restart, ReaderState
    <3>2. QED
      BY <3>1
  <2>6. QED
    BY <2>2, <2>3, <2>4, <2>5
<1>2. ServiceInv /\ [Next]_serviceVars => [A]_serviceVars
  BY <1>1
<1>3. QED
  BY <1>2, ServiceInvariant, PTL DEF Spec, NoFalseMiss

-----------------------------------------------------------------------------
(* The trace that is evicted is the least recently used one. *)

LastIn(q, t) == LET U == {i \in DOMAIN q : q[i] = t} IN
                CHOOSE i \in U : \A j \in U : j <= i

LEMMA LastInIs ==
  ASSUME NEW S, NEW q \in Seq(S), NEW t, \E i \in DOMAIN q : q[i] = t
  PROVE  /\ LastIn(q, t) \in DOMAIN q /\ q[LastIn(q, t)] = t
         /\ LastIn(q, t) \in Int /\ LastIn(q, t) <= Len(q)
         /\ \A j \in DOMAIN q : q[j] = t => j <= LastIn(q, t)
<1> DEFINE U == {i \in DOMAIN q : q[i] = t}
<1>1. Len(q) \in Nat /\ DOMAIN q = 1..Len(q)
  OBVIOUS
<1>2. U \subseteq Int /\ IsFiniteSet(U) /\ U # {}
  <2>1. IsFiniteSet(1..Len(q))
    BY <1>1, FS_Interval
  <2> QED  BY <1>1, <2>1, FS_Subset
<1>3. \E i \in U : \A j \in U : j <= i
  <2> HIDE DEF U
  <2> QED  BY <1>2, LeastExists
<1>4. LastIn(q, t) \in U /\ \A j \in U : j <= LastIn(q, t)
  BY <1>3 DEF LastIn
<1> QED  BY <1>1, <1>4

\* A use is the last use of its trace, and of no other.
LEMMA LastInAppend ==
  ASSUME NEW S, NEW q \in Seq(S), NEW t \in S
  PROVE  /\ Append(q, t) \in Seq(S) /\ Len(Append(q, t)) = Len(q) + 1
         /\ LastIn(Append(q, t), t) = Len(q) + 1
         /\ \A u : u # t /\ (\E i \in DOMAIN q : q[i] = u) => LastIn(Append(q, t), u) = LastIn(q, u)
<1> DEFINE r == Append(q, t)
           n == Len(q) + 1
<1>1. /\ Len(q) \in Nat /\ DOMAIN q = 1..Len(q) /\ r \in Seq(S) /\ Len(r) = n /\ DOMAIN r = 1..n
      /\ r[n] = t /\ \A i \in 1..Len(q) : r[i] = q[i]
  OBVIOUS
<1> HIDE DEF r
<1>2. n \in DOMAIN r
  BY <1>1
<1>3. LastIn(r, t) = n
  <2>1. LastIn(r, t) \in Int /\ LastIn(r, t) <= n /\ n <= LastIn(r, t)
    BY <1>1, <1>2, LastInIs
  <2> QED  BY <1>1, <2>1
<1>4. ASSUME NEW u, u # t, NEW i \in DOMAIN q, q[i] = u
      PROVE  LastIn(r, u) = LastIn(q, u)
  <2>1. /\ LastIn(q, u) \in DOMAIN q /\ q[LastIn(q, u)] = u
        /\ \A j \in DOMAIN q : q[j] = u => j <= LastIn(q, u)
    BY <1>4, LastInIs
  <2>2. \E j \in DOMAIN r : r[j] = u
    BY <1>1, <1>4
  <2>3. /\ LastIn(r, u) \in DOMAIN r /\ r[LastIn(r, u)] = u
        /\ \A j \in DOMAIN r : r[j] = u => j <= LastIn(r, u)
    BY <1>1, <2>2, LastInIs
  <2>4. LastIn(r, u) # n
    BY <1>1, <1>4, <2>3
  <2>5. LastIn(r, u) \in DOMAIN q /\ q[LastIn(r, u)] = u
    BY <1>1, <2>3, <2>4
  <2>6. LastIn(q, u) \in DOMAIN r /\ r[LastIn(q, u)] = u
    BY <1>1, <2>1
  <2>7. LastIn(r, u) <= LastIn(q, u) /\ LastIn(q, u) <= LastIn(r, u)
    BY <2>1, <2>3, <2>5, <2>6
  <2> QED  BY <1>1, <2>1, <2>3, <2>7
<1> QED  BY <1>1, <1>3, <1>4 DEF r

\* LeastRecentlyUsed needs it: a stored trace is cached unless the cache is full of
\* traces used after it.
RecencyInv ==
  /\ issued = {uses[i] : i \in DOMAIN uses}
  /\ \A i, j \in DOMAIN traces : i < j => LastIn(uses, traces[i]) < LastIn(uses, traces[j])
  /\ \A t \in issued \ Cached :
       /\ Len(traces) = Capacity
       /\ \A i \in DOMAIN traces : LastIn(uses, t) < LastIn(uses, traces[i])

LEMMA Uses ==
  ASSUME CacheTypeOK, RecencyInv, NEW t \in issued
  PROVE  /\ \E i \in DOMAIN uses : uses[i] = t
         /\ LastIn(uses, t) \in DOMAIN uses /\ LastIn(uses, t) \in Int
         /\ LastIn(uses, t) < Len(uses) + 1 /\ Len(uses) \in Nat
<1>1. uses \in Seq(Trace) /\ \E i \in DOMAIN uses : uses[i] = t
  BY DEF CacheTypeOK, RecencyInv
<1>2. Len(uses) \in Nat
  BY <1>1
<1>3. LastIn(uses, t) \in DOMAIN uses /\ LastIn(uses, t) \in Int /\ LastIn(uses, t) <= Len(uses)
  BY <1>1, LastInIs
<1> QED  BY <1>1, <1>2, <1>3

\* A step that uses trace t once more.
LEMMA UseKeeps ==
  ASSUME CacheTypeOK, RecencyInv, NEW t \in Trace, uses' = Append(uses, t)
  PROVE  /\ {uses'[i] : i \in DOMAIN uses'} = issued \cup {t}
         /\ \A u \in issued : u # t => LastIn(uses', u) = LastIn(uses, u)
         /\ \A u \in issued : u # t => LastIn(uses', u) < LastIn(uses', t)
         /\ LastIn(uses', t) \in Int
<1>1. uses \in Seq(Trace) /\ Len(uses) \in Nat /\ issued = {uses[i] : i \in DOMAIN uses}
  BY DEF CacheTypeOK, RecencyInv
<1>2. /\ LastIn(uses', t) = Len(uses) + 1
      /\ \A u : u # t /\ (\E i \in DOMAIN uses : uses[i] = u) => LastIn(uses', u) = LastIn(uses, u)
  BY <1>1, LastInAppend
<1>3. \A u \in issued : u # t => LastIn(uses', u) = LastIn(uses, u)
  BY <1>2, Uses
<1>4. \A u \in issued : u # t => LastIn(uses', u) < LastIn(uses', t)
  BY <1>2, <1>3, Uses
<1>5. {uses'[i] : i \in DOMAIN uses'} = issued \cup {t}
  <2>1. /\ DOMAIN uses' = 1..(Len(uses) + 1) /\ uses'[Len(uses) + 1] = t
        /\ DOMAIN uses = 1..Len(uses)
        /\ \A i \in 1..Len(uses) : uses'[i] = uses[i]
    BY <1>1
  <2>2. \A i \in DOMAIN uses' : i \in DOMAIN uses \/ i = Len(uses) + 1
    BY <1>1, <2>1
  <2>3. Len(uses) + 1 \in DOMAIN uses' /\ \A i \in DOMAIN uses : i \in DOMAIN uses'
    BY <1>1, <2>1
  <2> QED  BY <1>1, <2>1, <2>2, <2>3
<1> QED  BY <1>1, <1>2, <1>3, <1>4, <1>5

\* What is stored of a new trace: at most the oldest entry makes room.
LEMMA StoreKeepsRecency ==
  ASSUME CacheInv, RecencyInv, NEW t \in Trace, StoreTrace(t)
  PROVE  RecencyInv'
<1> DEFINE s == Append(traces, t)
           o == Overflow(s)
           n == Len(traces)
           last(u) == LastIn(uses, u)
           next(u) == LastIn(uses', u)
<1>1. /\ CacheTypeOK /\ traces \in Seq(Trace) /\ n <= Capacity
      /\ \A i \in DOMAIN traces : traces[i] \in issued
      /\ n \in Nat /\ DOMAIN traces = 1..n /\ Capacity \in Nat
  BY CacheAssumption DEF CacheInv, CacheTypeOK, CacheBounded, EvictionLedger, Cached, Keys
<1>2. /\ t \notin issued /\ traces' = KeepNewest(s) /\ issued' = issued \cup {t}
      /\ uses' = Append(uses, t)
  BY DEF StoreTrace
<1>3. /\ {uses'[i] : i \in DOMAIN uses'} = issued \cup {t}
      /\ \A u \in issued : next(u) = last(u) /\ next(u) < next(t)
      /\ next(t) \in Int /\ \A u \in issued : last(u) \in Int
  BY <1>1, <1>2, UseKeeps, Uses
<1>4. /\ Len(s) = n + 1 /\ s[n + 1] = t /\ \A i \in 1..n : s[i] = traces[i]
      /\ o \in {0, 1} /\ (o = 1 <=> n = Capacity)
  <2>1. Len(s) = n + 1 /\ s[n + 1] = t /\ \A i \in 1..n : s[i] = traces[i]
    BY <1>1
  <2>2. o = IF Len(s) > Capacity THEN Len(s) - Capacity ELSE 0
    BY DEF Overflow
  <2> HIDE DEF s, o, n
  <2> QED  BY <1>1, <2>1, <2>2
<1>5. /\ traces' = [i \in 1..(n + 1 - o) |-> s[i + o]]
  BY <1>2, <1>4 DEF KeepNewest
<1> HIDE DEF s, o, n, last, next
<1>6. /\ Len(traces') = n + 1 - o /\ DOMAIN traces' = 1..(n + 1 - o)
      /\ \A i \in 1..(n + 1 - o) : traces'[i] = s[i + o]
  BY <1>1, <1>4, <1>5
<1>7. \A i \in 1..(n + 1 - o) : /\ i = n + 1 - o => traces'[i] = t
                                /\ i # n + 1 - o => i + o \in 1..n /\ traces'[i] = traces[i + o]
                                                    /\ traces[i + o] \in issued
  <2>1. \A i \in 1..(n + 1 - o) : /\ i = n + 1 - o => i + o = n + 1
                                  /\ i # n + 1 - o => i + o \in 1..n
    BY <1>1, <1>4
  <2>2. \A i \in 1..n : traces[i] \in issued
    BY <1>1
  <2> QED  BY <1>4, <1>6, <2>1, <2>2
<1>8. \A i, j \in 1..n : i < j => last(traces[i]) < last(traces[j])
  BY <1>1 DEF RecencyInv, last
<1>9. ASSUME NEW i \in DOMAIN traces', NEW j \in DOMAIN traces', i < j
      PROVE  next(traces'[i]) < next(traces'[j])
  <2>1. i \in 1..(n + 1 - o) /\ j \in 1..(n + 1 - o) /\ i # n + 1 - o /\ n + 1 - o \in Int
    BY <1>1, <1>4, <1>6, <1>9
  <2>2. i + o \in 1..n /\ traces'[i] = traces[i + o] /\ traces[i + o] \in issued
    BY <1>7, <2>1
  <2>3. CASE j = n + 1 - o
    <3>1. traces'[j] = t
      BY <1>7, <2>1, <2>3
    <3> QED  BY <1>3, <2>2, <3>1
  <2>4. CASE j # n + 1 - o
    <3>1. j + o \in 1..n /\ traces'[j] = traces[j + o] /\ traces[j + o] \in issued
      BY <1>7, <2>1, <2>4
    <3>2. i + o < j + o
      BY <1>4, <1>9, <2>1
    <3>3. last(traces[i + o]) < last(traces[j + o])
      BY <1>8, <2>2, <3>1, <3>2
    <3> QED  BY <1>3, <2>2, <3>1, <3>3
  <2> QED  BY <2>3, <2>4
<1>10. ASSUME NEW u \in issued' \ Cached'
       PROVE  /\ Len(traces') = Capacity
              /\ \A i \in DOMAIN traces' : next(u) < next(traces'[i])
  <2>1. n + 1 - o \in 1..(n + 1 - o) /\ traces'[n + 1 - o] = t
    <3>1. n + 1 - o >= 1 /\ n + 1 - o \in Int
      BY <1>1, <1>4, CacheAssumption
    <3>2. n + 1 - o \in 1..(n + 1 - o)
      BY <3>1
    <3> QED  BY <1>7, <3>2
  <2>2. u # t /\ u \in issued /\ \A i \in DOMAIN traces' : traces'[i] # u
    BY <1>2, <1>6, <2>1, <1>10 DEF Cached, Keys
  <2>3. CASE u \notin Cached
    <3>1. n = Capacity /\ \A i \in 1..n : last(u) < last(traces[i])
      <4>1. u \in issued \ Cached
        BY <2>2, <2>3
      <4>2. Len(traces) = Capacity /\ \A i \in DOMAIN traces : last(u) < last(traces[i])
        BY <4>1 DEF RecencyInv, last
      <4> QED  BY <1>1, <4>2 DEF n
    <3>2. o = 1
      BY <1>4, <3>1
    <3>3. ASSUME NEW i \in DOMAIN traces' PROVE next(u) < next(traces'[i])
      <4>1. CASE i = n + 1 - o
        BY <1>3, <1>6, <1>7, <2>2, <4>1
      <4>2. CASE i # n + 1 - o
        <5>1. i + o \in 1..n /\ traces'[i] = traces[i + o] /\ traces[i + o] \in issued
          BY <1>6, <1>7, <4>2
        <5> QED  BY <1>3, <2>2, <3>1, <5>1
      <4> QED  BY <4>1, <4>2
    <3> QED  BY <1>1, <1>6, <3>1, <3>2, <3>3
  <2>4. CASE u \in Cached
    <3>1. PICK k \in 1..n : traces[k] = u
      BY <1>1, <2>4 DEF Cached, Keys
    <3>2. k <= o
      <4>1. SUFFICES ASSUME k > o PROVE FALSE
        BY <1>1, <1>4
      <4>2. k - o \in 1..(n + 1 - o) /\ k - o # n + 1 - o /\ k - o + o = k
        BY <1>1, <1>4, <4>1
      <4>3. traces'[k - o] = u
        BY <1>7, <3>1, <4>2
      <4> QED  BY <1>6, <2>2, <4>2, <4>3
    <3>3. o = 1 /\ k = 1 /\ n = Capacity
      BY <1>1, <1>4, <3>2
    <3>4. ASSUME NEW i \in DOMAIN traces' PROVE next(u) < next(traces'[i])
      <4>1. CASE i = n + 1 - o
        BY <1>3, <1>6, <1>7, <2>2, <4>1
      <4>2. CASE i # n + 1 - o
        <5>0. i \in 1..(n + 1 - o) /\ i >= 1 /\ i \in Int
          BY <1>1, <1>4, <1>6
        <5>1. i + o \in 1..n /\ traces'[i] = traces[i + o] /\ traces[i + o] \in issued /\ i >= 1 /\ i \in Int
          BY <1>7, <4>2, <5>0
        <5>2. k < i + o
          BY <3>3, <5>1
        <5>3. last(traces[k]) < last(traces[i + o])
          BY <1>8, <3>1, <5>1, <5>2
        <5> QED  BY <1>3, <2>2, <3>1, <5>1, <5>3
      <4> QED  BY <4>1, <4>2
    <3> QED  BY <1>1, <1>6, <3>3, <3>4
  <2> QED  BY <2>3, <2>4
<1> QED  BY <1>2, <1>3, <1>9, <1>10 DEF RecencyInv, next

\* A lookup makes its trace the most recent one.
LEMMA TouchKeepsRecency ==
  ASSUME CacheInv, RecencyInv, NEW t, TouchTrace(t)
  PROVE  RecencyInv'
<1> DEFINE n == Len(traces)
           p == CHOOSE i \in DOMAIN traces : traces[i] = t
           last(u) == LastIn(uses, u)
           next(u) == LastIn(uses', u)
<1>1. /\ CacheTypeOK /\ traces \in Seq(Trace) /\ n \in Nat /\ DOMAIN traces = 1..n
      /\ \A i \in 1..n : traces[i] \in issued /\ traces[i] \in Trace
      /\ \A i, j \in 1..n : traces[i] = traces[j] => i = j
  BY DEF CacheInv, CacheTypeOK, CacheBounded, EvictionLedger, Cached, Keys
<1>2. p \in 1..n /\ traces[p] = t /\ t \in Trace /\ t \in issued
  <2>1. \E i \in DOMAIN traces : traces[i] = t
    BY DEF TouchTrace, Cached, Keys
  <2> QED  BY <1>1, <2>1
<1>3. /\ uses' = Append(uses, t) /\ issued' = issued
      /\ traces' = [i \in 1..n |-> IF i < p THEN traces[i] ELSE IF i < n THEN traces[i + 1] ELSE t]
  BY <1>1 DEF TouchTrace, MoveToEnd
<1>4. /\ {uses'[i] : i \in DOMAIN uses'} = issued
      /\ \A u \in issued : u # t => next(u) = last(u) /\ next(u) < next(t)
      /\ next(t) \in Int /\ \A u \in issued : last(u) \in Int
  BY <1>1, <1>2, <1>3, UseKeeps, Uses
<1> HIDE DEF n, p, last, next
<1>5. Len(traces') = n /\ DOMAIN traces' = 1..n /\ traces'[n] = t
  BY <1>1, <1>2, <1>3
<1> DEFINE at(i) == IF i < p THEN i ELSE i + 1
<1>6. \A i \in 1..n : i # n => at(i) \in 1..n /\ traces'[i] = traces[at(i)] /\ at(i) # p
  BY <1>1, <1>2, <1>3
<1>7. \A i \in 1..n : i # n => /\ traces'[i] = traces[at(i)] /\ traces[at(i)] # t
                               /\ traces[at(i)] \in issued /\ at(i) \in 1..n
  BY <1>1, <1>2, <1>6
<1>8. \A i, j \in 1..n : i < j => last(traces[i]) < last(traces[j])
  BY <1>1 DEF RecencyInv, last
<1>9. ASSUME NEW i \in 1..n, NEW j \in 1..n, i < j
      PROVE  next(traces'[i]) < next(traces'[j])
  <2>1. i # n
    BY <1>1, <1>9
  <2>2. CASE j = n
    BY <1>4, <1>5, <1>7, <2>1, <2>2
  <2>3. CASE j # n
    <3>1. at(i) < at(j)
      BY <1>1, <1>2, <1>9
    <3>2. at(i) \in 1..n /\ at(j) \in 1..n
      BY <1>7, <2>1, <2>3
    <3> HIDE DEF at
    <3>3. last(traces[at(i)]) < last(traces[at(j)])
      BY <1>8, <3>1, <3>2
    <3> QED  BY <1>4, <1>7, <2>1, <2>3, <3>3
  <2> QED  BY <2>2, <2>3
<1>10. Cached \subseteq Cached'
  <2> SUFFICES ASSUME NEW k \in 1..n PROVE traces[k] \in Cached'
    BY <1>1 DEF Cached, Keys
  <2>1. CASE k = p
    BY <1>1, <1>2, <1>5, <2>1 DEF Cached, Keys
  <2>2. CASE k < p
    <3>1. traces'[k] = traces[k]
      BY <1>1, <1>2, <1>3, <2>2
    <3> QED  BY <1>5, <3>1 DEF Cached, Keys
  <2>3. CASE k > p
    <3>1. k - 1 \in 1..n /\ traces'[k - 1] = traces[k]
      BY <1>1, <1>2, <1>3, <2>3
    <3> QED  BY <1>5, <3>1 DEF Cached, Keys
  <2> QED  BY <1>1, <1>2, <2>1, <2>2, <2>3
<1>11. ASSUME NEW u \in issued' \ Cached'
       PROVE  /\ Len(traces') = Capacity
              /\ \A i \in DOMAIN traces' : next(u) < next(traces'[i])
  <2>1. u \in issued /\ u \notin Cached /\ u # t
    BY <1>1, <1>2, <1>3, <1>10, <1>11 DEF Cached, Keys
  <2>2. n = Capacity /\ \A i \in 1..n : last(u) < last(traces[i])
    BY <1>1, <2>1 DEF RecencyInv, n, last
  <2>3. ASSUME NEW i \in 1..n PROVE next(u) < next(traces'[i])
    <3>1. CASE i = n
      BY <1>4, <1>5, <2>1, <3>1
    <3>2. CASE i # n
      <4> HIDE DEF at
      <4> QED  BY <1>4, <1>7, <2>1, <2>2, <3>2
    <3> QED  BY <3>1, <3>2
  <2> QED  BY <1>5, <2>2, <2>3
<1> QED  BY <1>3, <1>4, <1>5, <1>9, <1>11 DEF RecencyInv, next

\* Every step of the service is an operation of the cache, or leaves it alone.
LEMMA CacheOperations ==
  ASSUME [Next]_serviceVars
  PROVE  \/ \E t \in Trace : StoreTrace(t) \/ TouchTrace(t)
         \/ ResetCache
         \/ UNCHANGED cacheVars
<1>1. ASSUME NEW t \in Trace, Query(t) \/ RedisDrops(t)
      PROVE  StoreTrace(t) \/ TouchTrace(t) \/ UNCHANGED cacheVars
  BY <1>1 DEF Query, Begin, RunRaises, RunStores, Observe, FetchOwn, FetchEvicted, SetEx, SetExRaises,
              RedisDrops
<1>2. ASSUME NEW d \in Reader, ReadRedis(d) \/ \E t \in Trace : ReadLocal(d, t)
      PROVE  (\E t \in Trace : TouchTrace(t)) \/ UNCHANGED cacheVars
  BY <1>2 DEF ReadRedis, ReadLocal
<1>3. Restart => ResetCache
  BY DEF Restart
<1>4. Quiet \/ UNCHANGED serviceVars => UNCHANGED cacheVars
  BY DEF Quiet, serviceVars
<1> QED  BY <1>1, <1>2, <1>3, <1>4 DEF Next

LEMMA EmptyRecency ==
  ASSUME traces = <<>>, issued = {}, uses = <<>>
  PROVE  RecencyInv
BY DEF RecencyInv

LEMMA RecencyStep == CacheInv /\ RecencyInv /\ [Next]_serviceVars => RecencyInv'
<1> SUFFICES ASSUME CacheInv, RecencyInv, [Next]_serviceVars PROVE RecencyInv'
  OBVIOUS
<1>1. ASSUME NEW t \in Trace, StoreTrace(t) PROVE RecencyInv'
  BY <1>1, StoreKeepsRecency
<1>2. ASSUME NEW t \in Trace, TouchTrace(t) PROVE RecencyInv'
  BY <1>2, TouchKeepsRecency
<1>3. CASE ResetCache
  BY <1>3 DEF ResetCache, RecencyInv
<1>4. CASE UNCHANGED cacheVars
  BY <1>4 DEF cacheVars, RecencyInv, Cached, Keys
<1> QED  BY <1>1, <1>2, <1>3, <1>4, CacheOperations

\* The traces used after the last use of a cached one are the entries behind it; the
\* traces used after that of an evicted one are at least all the entries.
LEMMA RecentIsCached == CacheInv /\ RecencyInv => LeastRecentlyUsed
<1> SUFFICES ASSUME CacheInv, RecencyInv PROVE LeastRecentlyUsed
  OBVIOUS
<1> DEFINE n == Len(traces)
           last(u) == LastIn(uses, u)
<1>1. /\ CacheTypeOK /\ traces \in Seq(Trace) /\ n \in Nat /\ DOMAIN traces = 1..n /\ n <= Capacity
      /\ \A i \in 1..n : traces[i] \in issued
      /\ \A i, j \in 1..n : traces[i] = traces[j] => i = j
      /\ IsFiniteSet(issued)
      /\ uses \in Seq(Trace) /\ Len(uses) \in Nat /\ DOMAIN uses = 1..Len(uses)
  BY DEF CacheInv, CacheTypeOK, CacheBounded, EvictionLedger, Cached, Keys
<1>2. \A u : LastUse(u) = last(u)
  BY DEF LastUse, LastIn
<1>3. \A u \in issued : last(u) \in DOMAIN uses /\ last(u) \in Int
  BY <1>1, Uses
<1>4. \A i, j \in 1..n : i < j => last(traces[i]) < last(traces[j])
  BY <1>1 DEF RecencyInv
<1>5. ASSUME NEW u \in issued
      PROVE  UsedSince(u) = {v \in issued : last(u) < last(v)}
  <2>1. ASSUME NEW v \in UsedSince(u) PROVE v \in issued /\ last(u) < last(v)
    <3>1. PICK j \in DOMAIN uses : j > last(u) /\ uses[j] = v
      BY <1>2 DEF UsedSince
    <3>2. v \in issued
      BY <3>1 DEF RecencyInv
    <3>3. j <= last(v)
      BY <1>1, <3>1, LastInIs
    <3> QED  BY <1>1, <1>3, <3>1, <3>2, <3>3
  <2>2. ASSUME NEW v \in issued, last(u) < last(v) PROVE v \in UsedSince(u)
    <3>1. \E i \in DOMAIN uses : uses[i] = v
      BY <1>1, Uses
    <3>2. last(v) \in DOMAIN uses /\ uses[last(v)] = v
      BY <1>1, <3>1, LastInIs
    <3>3. last(v) > last(u)
      BY <1>3, <2>2
    <3> HIDE DEF last
    <3> QED  BY <1>2, <3>2, <3>3 DEF UsedSince
  <2> QED  BY <2>1, <2>2
<1> HIDE DEF n, last
<1>6. ASSUME NEW i \in 1..n
      PROVE  Cardinality(UsedSince(traces[i])) < Capacity
  <2> DEFINE L == {traces[j] : j \in (i+1)..n}
  <2>1. UsedSince(traces[i]) \subseteq L
    <3> SUFFICES ASSUME NEW v \in issued, last(traces[i]) < last(v) PROVE v \in L
      BY <1>1, <1>5
    <3>1. v \in Cached
      <4>1. SUFFICES ASSUME v \notin Cached PROVE FALSE
        OBVIOUS
      <4>2. last(v) < last(traces[i])
        BY <1>1, <4>1 DEF RecencyInv, last
      <4>3. last(v) \in Int /\ last(traces[i]) \in Int
        BY <1>1, <1>3
      <4> QED  BY <4>2, <4>3
    <3>2. PICK j \in 1..n : traces[j] = v
      BY <1>1, <3>1 DEF Cached, Keys
    <3>3. ~ (j <= i)
      <4>1. last(traces[i]) \in Int /\ last(traces[j]) \in Int
        BY <1>1, <1>3
      <4>2. j # i /\ ~ (j < i)
        BY <1>4, <3>2, <4>1
      <4> QED  BY <1>1, <4>2
    <3>4. j \in (i+1)..n
      BY <1>1, <3>3
    <3> QED  BY <3>2, <3>4
  <2>2. IsFiniteSet((i+1)..n) /\ Cardinality((i+1)..n) < Capacity
    <3>1. IsFiniteSet((i+1)..n) /\ Cardinality((i+1)..n) = IF i + 1 > n THEN 0 ELSE n - (i + 1) + 1
      <4>1. i + 1 \in Int /\ n \in Int
        BY <1>1
      <4> QED  BY <4>1, FS_Interval
    <3> QED  BY <1>1, <3>1, CacheAssumption
  <2>3. IsFiniteSet(L) /\ Cardinality(L) = Cardinality((i+1)..n)
    <3> DEFINE J == (i+1)..n
    <3>1. \A a, b \in J : traces[a] = traces[b] => a = b
      BY <1>1
    <3>2. IsFiniteSet(J) /\ L = {traces[a] : a \in J}
      BY <2>2
    <3> HIDE DEF J, L
    <3>3. IsFiniteSet(L) /\ Cardinality(L) = Cardinality(J)
      BY <3>1, <3>2, DistinctImage
    <3> QED  BY <3>3 DEF J
  <2>4. Cardinality(UsedSince(traces[i])) <= Cardinality(L)
    BY <2>1, <2>3, FS_Subset
  <2>5. Cardinality(L) \in Nat /\ Cardinality(UsedSince(traces[i])) \in Nat
    BY <2>1, <2>3, FS_Subset, FS_CardinalityType
  <2> QED  BY <2>2, <2>3, <2>4, <2>5, CacheAssumption
<1>7. ASSUME NEW u \in issued, u \notin Cached
      PROVE  ~ (Cardinality(UsedSince(u)) < Capacity)
  <2>1. n = Capacity /\ \A i \in 1..n : last(u) < last(traces[i])
    BY <1>1, <1>7 DEF RecencyInv, n, last
  <2> DEFINE L == {traces[j] : j \in 1..n}
  <2>2. L \subseteq UsedSince(u)
    BY <1>1, <1>5, <2>1
  <2>3. IsFiniteSet(1..n) /\ Cardinality(1..n) = n
    BY <1>1, FS_Interval
  <2>4. IsFiniteSet(L) /\ Cardinality(L) = n
    BY <1>1, <2>3, DistinctImage
  <2>5. IsFiniteSet(UsedSince(u))
    BY <1>1, <1>5, FS_Subset
  <2>6. n <= Cardinality(UsedSince(u)) /\ Cardinality(UsedSince(u)) \in Nat
    BY <2>2, <2>4, <2>5, FS_Subset, FS_CardinalityType
  <2> QED  BY <1>1, <2>1, <2>6
<1>8. Cached = {t \in issued : Cardinality(UsedSince(t)) < Capacity}
  <2>1. Cached = {traces[i] : i \in 1..n}
    BY <1>1 DEF Cached, Keys
  <2> QED  BY <1>1, <1>6, <1>7, <2>1
<1>9. \A i, j \in DOMAIN traces : i < j => LastUse(traces[i]) < LastUse(traces[j])
  BY <1>1, <1>2, <1>4
<1> QED  BY <1>8, <1>9 DEF LeastRecentlyUsed

\* popitem(last=False) of an OrderedDict that lookups reorder is least-recently-used
\* eviction: the cache holds exactly the Capacity most recently used traces.
THEOREM EvictsTheLeastRecentlyUsed == Spec => []LeastRecentlyUsed
<1>1. Init => RecencyInv
  BY EmptyRecency DEF Init, CacheInit
<1>2. ServiceInv => CacheInv
  BY DEF ServiceInv
<1> QED  BY <1>1, <1>2, RecencyStep, RecentIsCached, ServiceInvariant, PTL DEF Spec
=============================================================================
