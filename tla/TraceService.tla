---------------------------- MODULE TraceService ----------------------------
(***************************************************************************)
(* The query and trace endpoints of api.py around EnergyAgent.run: request *)
(* threads of one server process, the process's bounded trace cache, its   *)
(* metrics, and an optional Redis that outlives the process, evicts and    *)
(* expires keys, and may fail any call.  EnergyAgent.run is one interval   *)
(* here, from Begin to the _store_trace it ends with.                      *)
(***************************************************************************)
EXTENDS TraceCache

CONSTANTS
  Reader,            \* threads that serve GET /api/agent/traces/{trace_id}
  RedisConfigured,   \* ENERGY_REDIS_URL is set
  MaxRestarts,       \* bound on process restarts
  MaxReads           \* bound on the reads of one reader

ASSUME ServiceAssumption ==
  /\ RedisConfigured \in BOOLEAN
  /\ MaxRestarts \in Nat
  /\ MaxReads \in Nat

VARIABLES
  redisClient,  \* redis_client is not None
  redis,        \* the traces Redis holds
  dropped,      \* history: traces that Redis evicted, expired or lost
  request,      \* the state of the request that makes each trace
  durable,      \* history: requests answered by a process with a Redis client
  queries,      \* service_metrics.queries, summed over the statuses
  reader,       \* the state of each reader
  restarts      \* number of restarts so far

serverVars == <<redisClient, redis, dropped, durable, restarts>>
serviceVars == <<cacheVars, serverVars, request, queries, reader>>

RequestState == {"new", "running", "stored", "observed", "fetched",
                 "answered", "raised", "evicted", "lost"}
ReaderState == [trace : Trace, at : {"idle", "local", "found", "missing", "raised"}, reads : 0..MaxReads]

\* Startup pings Redis once and goes without it for the life of the process if
\* the ping fails.
ConnectRedis(client) == RedisConfigured \/ ~client

Init ==
  /\ CacheInit
  /\ redisClient \in {b \in BOOLEAN : ConnectRedis(b)}
  /\ redis = {}
  /\ dropped = {}
  /\ request = [t \in Trace |-> "new"]
  /\ durable = {}
  /\ queries = 0
  /\ reader \in {[d \in Reader |-> [trace |-> t, at |-> "idle", reads |-> 0]] : t \in Trace}
  /\ restarts = 0

-----------------------------------------------------------------------------
(* query *)

Move(t, from, to) ==
  /\ request[t] = from
  /\ request' = [request EXCEPT ![t] = to]

Begin(t) ==
  /\ Move(t, "new", "running")
  /\ UNCHANGED <<cacheVars, serverVars, queries, reader>>

\* EnergyAgent.run raises (the planner's transport failed): nothing is stored.
RunRaises(t) ==
  /\ Move(t, "running", "raised")
  /\ UNCHANGED <<cacheVars, serverVars, queries, reader>>

\* The last step of EnergyAgent.run.
RunStores(t) ==
  /\ Move(t, "running", "stored")
  /\ StoreTrace(t)
  /\ UNCHANGED <<serverVars, queries, reader>>

\* Seeded fault: the response is counted after the Redis write instead.
ObserveLate(t) ==
  /\ Move(t, "stored", IF redisClient THEN "observed" ELSE "answered")
  /\ queries' = IF redisClient THEN queries ELSE queries + 1
  /\ UNCHANGED <<cacheVars, serverVars, reader>>

\* service_metrics.observe; without Redis the response follows.
Observe(t) ==
  /\ Move(t, "stored", IF redisClient THEN "observed" ELSE "answered")
  /\ queries' = queries + 1
  /\ UNCHANGED <<cacheVars, serverVars, reader>>

FetchOwn(t) ==
  /\ Move(t, "observed", "fetched")
  /\ TouchTrace(t)
  /\ UNCHANGED <<serverVars, queries, reader>>

\* RuntimeError: "newly created trace was unexpectedly evicted".
FetchEvicted(t) ==
  /\ t \notin Cached
  /\ Move(t, "observed", "evicted")
  /\ UNCHANGED <<cacheVars, serverVars, queries, reader>>

\* Seeded fault: a failing setex is logged and ignored.
SetExIgnored(t) ==
  /\ Move(t, "fetched", "answered")
  /\ redis' \in {redis, redis \cup {t}}
  /\ durable' = durable \cup {t}
  /\ UNCHANGED <<cacheVars, redisClient, dropped, restarts, queries, reader>>

SetEx(t) ==
  /\ Move(t, "fetched", "answered")
  /\ redis' = redis \cup {t}
  /\ durable' = durable \cup {t}
  /\ UNCHANGED <<cacheVars, redisClient, dropped, restarts, queries, reader>>

\* setex raises, before or after the server applied it; the client gets a 500.
SetExRaises(t) ==
  /\ Move(t, "fetched", "raised")
  /\ redis' \in {redis, redis \cup {t}}
  /\ UNCHANGED <<cacheVars, redisClient, dropped, durable, restarts, queries, reader>>

-----------------------------------------------------------------------------
(* trace *)

\* Seeded fault: a local miss is answered with 404 although Redis is there.
ReadLocalOnly(d, t) ==
  /\ reader[d].at # "local"
  /\ reader[d].reads < MaxReads
  /\ IF t \in Cached THEN TouchTrace(t) ELSE UNCHANGED cacheVars
  /\ reader' = [reader EXCEPT ![d] =
       [trace |-> t, reads |-> @.reads + 1, at |-> IF t \in Cached THEN "found" ELSE "missing"]]
  /\ UNCHANGED <<serverVars, request, queries>>

\* The lookup in the process's cache, the first half of the endpoint.
ReadLocal(d, t) ==
  /\ reader[d].at # "local"
  /\ reader[d].reads < MaxReads
  /\ IF t \in Cached THEN TouchTrace(t) ELSE UNCHANGED cacheVars
  /\ reader' = [reader EXCEPT ![d] =
       [trace |-> t, reads |-> @.reads + 1,
        at |-> IF t \in Cached THEN "found" ELSE IF redisClient THEN "local" ELSE "missing"]]
  /\ UNCHANGED <<serverVars, request, queries>>

\* The lookup in Redis after a local miss.
ReadRedis(d) ==
  /\ reader[d].at = "local"
  /\ \E a \in {IF reader[d].trace \in redis THEN "found" ELSE "missing", "raised"} :
       reader' = [reader EXCEPT ![d].at = a]
  /\ UNCHANGED <<cacheVars, serverVars, request, queries>>

-----------------------------------------------------------------------------
(* Redis and the process *)

\* allkeys-lru, the expiry of setex, or a restart of Redis.
RedisDrops(t) ==
  /\ t \in redis
  /\ redis' = redis \ {t}
  /\ dropped' = dropped \cup {t}
  /\ UNCHANGED <<cacheVars, redisClient, durable, restarts, request, queries, reader>>

InFlight == {"running", "stored", "observed", "fetched"}

\* The process dies and a new one starts: the cache, the counters and the requests
\* in flight are gone, Redis keeps its keys.
Restart ==
  /\ restarts < MaxRestarts
  /\ restarts' = restarts + 1
  /\ ResetCache
  /\ redisClient' \in {b \in BOOLEAN : ConnectRedis(b)}
  /\ request' = [t \in Trace |-> IF request[t] \in InFlight THEN "lost" ELSE request[t]]
  /\ reader' = [d \in Reader |-> IF reader[d].at = "local" THEN [reader[d] EXCEPT !.at = "raised"]
                                 ELSE reader[d]]
  /\ queries' = 0
  /\ UNCHANGED <<redis, dropped, durable>>

Query(t) ==
  \/ Begin(t) \/ RunRaises(t) \/ RunStores(t) \/ Observe(t)
  \/ FetchOwn(t) \/ FetchEvicted(t) \/ SetEx(t) \/ SetExRaises(t)

\* Nothing is in progress.
Quiet ==
  /\ \A t \in Trace : request[t] \notin InFlight \cup {"new"}
  /\ \A d \in Reader : reader[d].at # "local"
  /\ UNCHANGED serviceVars

Next ==
  \/ \E t \in Trace : Query(t) \/ RedisDrops(t)
  \/ \E d \in Reader : ReadRedis(d) \/ \E t \in Trace : ReadLocal(d, t)
  \/ Restart
  \/ Quiet

Spec == Init /\ [][Next]_serviceVars

-----------------------------------------------------------------------------
(* Properties *)

TypeOK ==
  /\ CacheTypeOK
  /\ redisClient \in BOOLEAN
  /\ redis \subseteq Trace
  /\ dropped \subseteq Trace
  /\ request \in [Trace -> RequestState]
  /\ durable \subseteq Trace
  /\ queries \in Nat
  /\ reader \in [Reader -> ReaderState]
  /\ restarts \in Nat

\* A request that a process with Redis answered left its trace in Redis: it is
\* there until Redis drops it, across evictions from the cache and restarts.
AnsweredIsDurable ==
  \A t \in durable : request[t] = "answered" /\ t \in redis \cup dropped

\* A read is answered 404 only if the trace is none that a process with Redis
\* answered and Redis still keeps, or if the reading process has no Redis.
NoFalseMiss ==
  [][\A d \in Reader :
       reader[d].at # "missing" /\ reader'[d].at = "missing" /\ redisClient =>
         reader'[d].trace \notin durable \/ reader'[d].trace \in dropped]_serviceVars

\* Every run of this process that stored a trace is counted once, when it leaves
\* the state "stored", whether or not its response is then sent.
CountedOnce == queries = Cardinality({t \in issued : request[t] # "stored"})
=============================================================================
