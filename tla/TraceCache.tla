------------------------------ MODULE TraceCache ------------------------------
(***************************************************************************)
(* The bounded trace cache of EnergyAgent: an OrderedDict under one lock,  *)
(* its first entry the least recently used.  Each operation holds the lock *)
(* from its first to its last statement, so each is one action.            *)
(***************************************************************************)
EXTENDS OrderedDict, FiniteSets

CONSTANTS
  Trace,       \* trace identifiers: uuid4, never issued twice
  Capacity     \* trace_capacity

ASSUME CacheAssumption == Capacity \in Nat \ {0}

VARIABLES
  traces,      \* the keys of the OrderedDict, least recently used first
  evictions,   \* trace_evictions
  issued,      \* history: every trace this process has stored
  uses         \* history: the traces stored or found, in order

cacheVars == <<traces, evictions, issued, uses>>

Cached == Keys(traces)

\* Seeded fault: an entry too many is let in.
KeepNewestOffByOne(s) == IF Len(s) > Capacity + 1 THEN Tail(s) ELSE s

\* The loop of popitem(last=False) down to the capacity.
Overflow(s) == IF Len(s) > Capacity THEN Len(s) - Capacity ELSE 0
KeepNewest(s) == [i \in 1..(Len(s) - Overflow(s)) |-> s[i + Overflow(s)]]

CacheInit ==
  /\ traces = <<>>
  /\ evictions = 0
  /\ issued = {}
  /\ uses = <<>>

\* Seeded fault: the counter misses the entry that makes room for the newest.
StoreTraceUncounted(t) ==
  /\ t \notin issued
  /\ traces' = KeepNewest(Append(traces, t))
  /\ evictions' = evictions
  /\ issued' = issued \cup {t}
  /\ uses' = Append(uses, t)

\* _store_trace of a new trace.
StoreTrace(t) ==
  /\ t \notin issued
  /\ traces' = KeepNewest(Append(traces, t))
  /\ evictions' = evictions + Overflow(Append(traces, t))
  /\ issued' = issued \cup {t}
  /\ uses' = Append(uses, t)

\* Seeded fault: a lookup leaves the order alone.
TouchNothing(t) ==
  /\ t \in Cached
  /\ uses' = Append(uses, t)
  /\ UNCHANGED <<traces, evictions, issued>>

\* get_trace that finds the trace.
TouchTrace(t) ==
  /\ t \in Cached
  /\ traces' = MoveToEnd(traces, t)
  /\ uses' = Append(uses, t)
  /\ UNCHANGED <<evictions, issued>>

\* A new process starts with an empty cache.
ResetCache ==
  /\ traces' = <<>>
  /\ evictions' = 0
  /\ issued' = {}
  /\ uses' = <<>>

-----------------------------------------------------------------------------
CacheTypeOK ==
  /\ traces \in Seq(Trace)
  /\ evictions \in Nat
  /\ issued \subseteq Trace
  /\ uses \in Seq(Trace)

\* The cache never holds more traces than its capacity, nor one twice.
CacheBounded ==
  /\ Len(traces) <= Capacity
  /\ \A i, j \in DOMAIN traces : traces[i] = traces[j] => i = j

\* Entries and evictions account for every trace stored (the two gauges that
\* trace_stats exports): none is dropped uncounted, none counted twice.
EvictionLedger ==
  /\ Cached \subseteq issued
  /\ evictions = Cardinality(issued) - Len(traces)

LastUse(t) == LET U == {i \in DOMAIN uses : uses[i] = t} IN
              CHOOSE i \in U : \A j \in U : j <= i

\* The traces used after the last use of t.
UsedSince(t) == {uses[i] : i \in {j \in DOMAIN uses : j > LastUse(t)}}

\* The cache holds exactly the Capacity most recently used traces, the order of
\* its entries is the order of their last uses: an evicted trace is one that at
\* least Capacity others were used after.
LeastRecentlyUsed ==
  /\ Cached = {t \in issued : Cardinality(UsedSince(t)) < Capacity}
  /\ \A i, j \in DOMAIN traces : i < j => LastUse(traces[i]) < LastUse(traces[j])
=============================================================================
