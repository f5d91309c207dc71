-------------------------- MODULE OfflineDataProofs --------------------------
(***************************************************************************)
(* The data the service is given: the releases of its evidence and the     *)
(* market data of the batch jobs.                                          *)
(*                                                                         *)
(* For every set of releases: a serving process searches its own release,  *)
(* all of it; filled indices are kept; and local search on a filled index  *)
(* is explained by a failed call.                                          *)
(*                                                                         *)
(* For every archive, number of days and schedule of any number of jobs:   *)
(* what the validator calls complete is an unbroken run of intervals, and  *)
(* the grid of the requested days if the archives were of their days; the  *)
(* final manifest of a repair that had its file alone counts the data it   *)
(* has the hash of; and a merge that is complete has each interval once.   *)
(***************************************************************************)
EXTENDS EvidenceRelease, MarketIngest, DataLemmas

-----------------------------------------------------------------------------
(* Evidence releases.                                                       *)

\* What an alias of one index reaches, and how many documents that are.
LEMMA ReachedOfOne ==
  ASSUME NEW r \in Release, alias = {r}, indexed[r] \subseteq Documents[r]
  PROVE  /\ Reached = {r} \X indexed[r]
         /\ Cardinality(Reached) = Cardinality(indexed[r])
<1>1. Documents[r] \subseteq Chunk /\ IsFiniteSet(Documents[r])
  BY ReleaseAssumption
<1>2. Reached = {r} \X indexed[r]
  BY <1>1 DEF Reached
<1>3. IsFiniteSet(indexed[r])
  BY <1>1, FS_Subset
<1>4. ExistsBijection(indexed[r], {r} \X indexed[r])
  <2> DEFINE f == [c \in indexed[r] |-> <<r, c>>]
  <2>1. f \in Bijection(indexed[r], {r} \X indexed[r])
    <3>1. f \in [indexed[r] -> {r} \X indexed[r]]
      OBVIOUS
    <3>2. IsInjective(f)
      BY DEF IsInjective
    <3>3. \A d \in {r} \X indexed[r] : \E c \in indexed[r] : f[c] = d
      OBVIOUS
    <3> QED  BY <3>1, <3>2, <3>3 DEF Bijection, Injection, Surjection
  <2> QED  BY <2>1 DEF ExistsBijection
<1> QED  BY <1>2, <1>3, <1>4, FS_Bijection

\* The count tells whether the index is filled: it cannot be reached by other documents.
LEMMA CountTells ==
  ASSUME NEW r \in Release, alias = {r}, release = r, indexed[r] \subseteq Documents[r]
  PROVE  CountMatches <=> indexed[r] = Documents[r]
<1>1. CountMatches <=> Cardinality(indexed[r]) = Cardinality(Documents[r])
  BY ReachedOfOne DEF CountMatches
<1>2. IsFiniteSet(Documents[r])
  BY ReleaseAssumption
<1>3. Cardinality(Documents[r]) = Cardinality(indexed[r]) => Documents[r] = indexed[r]
  BY <1>2, FS_Subset
<1> QED  BY <1>1, <1>3

-----------------------------------------------------------------------------
\* What a starting process has achieved by the time it is at each of its calls.
Achieved ==
  /\ \A r \in Release \ created : indexed[r] = {}
  /\ at \in {"bulk", "switch", "count", "serving"} => release \in created
  /\ at = "bulk" => indexed[release] = {}
  /\ at \in {"count", "serving"} => alias = {release}
  /\ at = "serving" => indexed[release] = Documents[release]

IndexFunction == indexed \in [Release -> SUBSET Chunk]

ReleaseInv == IndexFunction /\ TypeOK /\ Achieved /\ FallbackIsExplained

LEMMA ReleaseInit == Init => ReleaseInv
BY ReleaseAssumption DEF Init, ReleaseInv, IndexFunction, TypeOK, Achieved, FallbackIsExplained, Starting

LEMMA ReleaseNext == ReleaseInv /\ [Next]_releaseVars => ReleaseInv'
<1> SUFFICES ASSUME ReleaseInv, [Next]_releaseVars PROVE ReleaseInv'
  OBVIOUS
<1> USE DEF ReleaseInv, IndexFunction, TypeOK, Achieved, FallbackIsExplained, Starting
<1>0. /\ Documents \in [Release -> SUBSET Chunk]
      /\ \A r \in Release : Documents[r] # {}
  BY ReleaseAssumption
<1>1. CASE Start
  BY <1>1, <1>0 DEF Start
<1>2. CASE CreateIndex
  BY <1>2, <1>0 DEF CreateIndex
<1>3. CASE BulkIndex
  BY <1>3, <1>0 DEF BulkIndex
<1>4. CASE BulkErrors
  BY <1>4, <1>0 DEF BulkErrors
<1>5. CASE SwitchAlias
  <2>1. alias' = {release}
    BY <1>5 DEF SwitchAlias
  <2> QED  BY <1>5, <1>0, <2>1 DEF SwitchAlias
<1>6. CASE CountIndex
  <2>1. CountMatches <=> indexed[release] = Documents[release]
    BY <1>6, CountTells DEF CountIndex
  <2> QED  BY <1>6, <1>0, <2>1 DEF CountIndex
<1>7. CASE CallFails
  BY <1>7, <1>0 DEF CallFails
<1>8. CASE Stop
  BY <1>8, <1>0 DEF Stop
<1>9. CASE UNCHANGED releaseVars
  BY <1>9, <1>0 DEF releaseVars
<1> QED  BY <1>1, <1>2, <1>3, <1>4, <1>5, <1>6, <1>7, <1>8, <1>9 DEF Next, Step

THEOREM ReleaseInvariant == Spec => []ReleaseInv
BY ReleaseInit, ReleaseNext, PTL DEF Spec

\* The releases, the indices and the alias keep their types: the alias never points to
\* an index that was not created, and an index holds only documents of its release.
THEOREM ReleaseTypeCorrect == Spec => []TypeOK
BY ReleaseInvariant, PTL DEF ReleaseInv

\* Whatever crashed or failed before, a process in service searches through the alias
\* exactly the documents of its own release.
THEOREM ServesItsRelease == Spec => []ServingIsComplete
<1>1. ReleaseInv => ServingIsComplete
  <2> SUFFICES ASSUME ReleaseInv, at = "serving"
               PROVE  Reached = {release} \X Documents[release] /\ HealthyIndex
    BY DEF ServingIsComplete
  <2>1. /\ release \in Release
        /\ alias = {release}
        /\ indexed[release] = Documents[release]
    BY DEF ReleaseInv, TypeOK, Achieved
  <2> QED  BY <2>1, ReachedOfOne, CountTells DEF HealthyIndex
<1> QED  BY <1>1, ReleaseInvariant, PTL

\* A process whose release was filled once falls back to its local index only after a
\* failed call: the count cannot reject a filled index.
THEOREM FallbackExplained == Spec => []FallbackIsExplained
BY ReleaseInvariant, PTL DEF ReleaseInv

\* No start of any release, rollbacks included, touches the filled index of any.
THEOREM FilledIndicesStay == Spec => FilledIndexIsKept
<1>1. ReleaseInv /\ [Next]_releaseVars =>
        [\A r \in created : indexed[r] = Documents[r] =>
           r \in created' /\ indexed'[r] = Documents[r]]_releaseVars
  <2> SUFFICES ASSUME ReleaseInv, Next, NEW r \in created, indexed[r] = Documents[r]
               PROVE  r \in created' /\ indexed'[r] = Documents[r]
    OBVIOUS
  <2> USE DEF ReleaseInv, IndexFunction, TypeOK, Achieved
  <2>1. r \in Release /\ Documents[r] # {}
    BY ReleaseAssumption
  <2>2. CASE at = "bulk" /\ (BulkIndex \/ BulkErrors)
    <3>1. r # release
      BY <2>1, <2>2
    <3> QED  BY <2>1, <2>2, <3>1 DEF BulkIndex, BulkErrors
  <2>3. CASE UNCHANGED indexed /\ created \subseteq created'
    BY <2>3
  <2> QED  BY <2>2, <2>3 DEF Next, Step, Start, CreateIndex, BulkIndex, BulkErrors, SwitchAlias,
                             CountIndex, CallFails, Stop
<1> QED  BY <1>1, ReleaseInvariant, PTL DEF Spec, FilledIndexIsKept

-----------------------------------------------------------------------------
(* Market data: tables of rows.                                             *)

Row == [t : Int, region : Region, day : Int, intervention : BOOLEAN]
IsTable(rows) == IsFiniteSet(rows) /\ rows \subseteq Row

LEMMA IngestConstants ==
  /\ HistoryDays \in Nat /\ HistoryDays > 0 /\ Days \in Nat /\ Slots \in Nat /\ Slots > 0
  /\ Requested \in Nat /\ Requested > 0
  /\ RepairDay \in Int
  /\ IsFiniteSet(Region) /\ Cardinality(Region) \in Nat
  /\ DayRows \in Nat
<1>1. /\ HistoryDays \in Nat /\ Days \in Nat /\ Slots \in Nat /\ Slots > 0
      /\ 0 < HistoryDays /\ HistoryDays < Days /\ IsFiniteSet(Region) /\ RepairDay \in HistoryDays + 1 .. Days
  BY IngestAssumption
<1>2. Cardinality(Region) \in Nat
  BY <1>1, FS_CardinalityType
<1> QED  BY <1>1, <1>2 DEF Requested, DayRows

LEMMA EmptyTable == IsTable({})
BY FS_EmptySet DEF IsTable

LEMMA PartOfTable ==
  ASSUME NEW rows, IsTable(rows), NEW part \in SUBSET rows
  PROVE  IsTable(part)
BY FS_Subset DEF IsTable

LEMMA UnionOfTables ==
  ASSUME NEW rows, IsTable(rows), NEW more, IsTable(more)
  PROVE  IsTable(rows \cup more)
BY FS_Union DEF IsTable

LEMMA ParseTable ==
  ASSUME NEW records, IsArchive(records), NEW d \in Int
  PROVE  IsTable(Parse(records, d))
<1> DEFINE S == {y \in records : y.priced}
           f == [x \in S |-> [t |-> x.t, region |-> x.region, day |-> d,
                              intervention |-> x.intervention]]
<1>1. IsFiniteSet(S)
  BY FS_Subset DEF IsArchive
<1>2. IsFiniteSet({f[x] : x \in S})
  <2> HIDE DEF f, S
  <2> QED  BY <1>1, ImageIsFinite
<1>3. Parse(records, d) = {f[x] : x \in S}
  BY DEF Parse
<1>4. \A x \in S : f[x] \in Row
  BY DEF IsArchive, Row
<1> QED  BY <1>2, <1>3, <1>4 DEF IsTable

LEMMA ParseMonthlyTable ==
  ASSUME NEW records, IsArchive(records), NEW first \in Int, NEW last \in Int
  PROVE  /\ IsTable(ParseMonthly(records, first, last))
         /\ \A w \in ParseMonthly(records, first, last) :
              /\ w.day = DayOf(w.t) /\ ~ w.intervention
              /\ (first - 1) * Slots < w.t /\ w.t <= last * Slots
<1> DEFINE S == {y \in records : /\ ~ y.intervention
                                 /\ (first - 1) * Slots < y.t /\ y.t <= last * Slots}
           f == [x \in S |-> [t |-> x.t, region |-> x.region, day |-> DayOf(x.t),
                              intervention |-> FALSE]]
<1>1. IsFiniteSet(S)
  BY FS_Subset DEF IsArchive
<1>2. IsFiniteSet({f[x] : x \in S})
  <2> HIDE DEF f, S
  <2> QED  BY <1>1, ImageIsFinite
<1>3. ParseMonthly(records, first, last) = {f[x] : x \in S}
  BY DEF ParseMonthly
<1>4. \A x \in S : DayOf(x.t) \in Int
  BY IngestConstants DEF IsArchive, DayOf
<1>5. \A x \in S : /\ f[x] \in Row /\ f[x].day = DayOf(f[x].t) /\ ~ f[x].intervention
                   /\ (first - 1) * Slots < f[x].t /\ f[x].t <= last * Slots
  <2> SUFFICES ASSUME NEW x \in S
               PROVE  /\ f[x] \in Row /\ f[x].day = DayOf(f[x].t) /\ ~ f[x].intervention
                      /\ (first - 1) * Slots < f[x].t /\ f[x].t <= last * Slots
    OBVIOUS
  <2>1. f[x].t = x.t /\ f[x].day = DayOf(x.t) /\ ~ f[x].intervention
    OBVIOUS
  <2>2. f[x] \in Row
    BY <1>4 DEF IsArchive, Row
  <2> QED  BY <2>1, <2>2
<1> HIDE DEF f, S
<1> QED  BY <1>2, <1>3, <1>5 DEF IsTable

\* The standard rows of a region: with as many on each of some days, and no key twice,
\* they have as many intervals.
LEMMA RegionRows ==
  ASSUME NEW rows, IsTable(rows), NEW r \in Region, NEW D, IsFiniteSet(D),
         \A w \in Standard(rows) : w.day \in D,
         \A d \in D : CountOf(rows, d, r) = Slots,
         \A v, w \in Standard(rows) : v.t = w.t /\ v.region = w.region => v = w
  PROVE  /\ Cardinality(OfRegion(Standard(rows), r)) = Cardinality(D) * Slots
         /\ IsFiniteSet(Times(rows, r)) /\ Times(rows, r) \subseteq Int
         /\ Cardinality(Times(rows, r)) = Cardinality(D) * Slots
<1> DEFINE S == OfRegion(Standard(rows), r)
           day == [w \in S |-> w.day]
           time == [w \in S |-> w.t]
<1>1. IsFiniteSet(S) /\ S \subseteq Row /\ S \subseteq Standard(rows)
  <2>1. S \in SUBSET rows
    BY DEF OfRegion, Standard
  <2> QED  BY <2>1, FS_Subset DEF IsTable, OfRegion
<1>2. Cardinality(S) = Cardinality(D) * Slots
  <2>1. \A w \in S : day[w] \in D
    BY <1>1
  <2>2. \A d \in D : Cardinality({w \in S : day[w] = d}) = Slots
    <3> SUFFICES ASSUME NEW d \in D PROVE Cardinality({w \in S : day[w] = d}) = Slots
      OBVIOUS
    <3>1. {w \in S : day[w] = d} = OfRegion(OfDay(Standard(rows), d), r)
      BY DEF OfRegion, OfDay
    <3> QED  BY <3>1 DEF CountOf
  <2>3. Slots \in Nat
    BY IngestConstants
  <2> HIDE DEF S, day
  <2> QED  BY <1>1, <2>1, <2>2, <2>3, Classes
<1>3. Times(rows, r) = {time[w] : w \in S}
  BY DEF Times
<1>4. \A v, w \in S : time[v] = time[w] => v = w
  BY <1>1 DEF OfRegion
<1>5. \A w \in S : time[w] \in Int
  BY <1>1 DEF Row
<1> HIDE DEF time
<1>6. IsFiniteSet({time[w] : w \in S}) /\ Cardinality({time[w] : w \in S}) = Cardinality(S)
  <2> HIDE DEF S
  <2> QED  BY <1>1, <1>4, DistinctImage
<1> QED  BY <1>2, <1>3, <1>5, <1>6

LEMMA CompleteCounts ==
  ASSUME NEW rows, NEW D, Incomplete(rows, D) = {}
  PROVE  \A d \in D, r \in Region : CountOf(rows, d, r) = Slots
<1> SUFFICES ASSUME NEW d \in D, NEW r \in Region PROVE CountOf(rows, d, r) = Slots
  OBVIOUS
<1>1. <<d, r>> \in D \X Region /\ <<d, r>>[1] = d /\ <<d, r>>[2] = r
  OBVIOUS
<1> QED  BY <1>1, Zenon DEF Incomplete

\* Rows without a duplicate key are told apart by interval and region.
LEMMA DistinctKeys ==
  ASSUME NEW rows, IsTable(rows), ~ DuplicateKeys(rows)
  PROVE  \A v, w \in Standard(rows) : v.t = w.t /\ v.region = w.region => v = w
<1> DEFINE S == Standard(rows)
           key == [w \in S |-> <<w.t, w.region>>]
<1>1. IsFiniteSet(S)
  BY FS_Subset DEF IsTable, Standard
<1>2. RowKeys(rows) = {key[w] : w \in S}
  BY DEF RowKeys
<1>3. Cardinality({key[w] : w \in S}) = Cardinality(S)
  BY <1>2 DEF DuplicateKeys
<1>4. \A v, w \in S : key[v] = key[w] => v = w
  <2> HIDE DEF key, S
  <2> QED  BY <1>1, <1>3, ImageIsFinite
<1> QED  BY <1>4

\* What the validator calls complete is an unbroken run of intervals: see CompleteIsGrid.
LEMMA ValidationIsUnbroken ==
  ASSUME NEW rows, IsTable(rows), NEW manifest, manifest.requested = Requested,
         Validation(rows, manifest)
  PROVE  IsUnbroken(rows, Requested)
<1> DEFINE D == ObservedDays(rows)
           S == Standard(rows)
<1>1. /\ Cardinality(D) = Requested /\ Incomplete(rows, D) = {}
      /\ ~ DuplicateKeys(rows) /\ ~ HasGap(rows)
  BY DEF Validation
<1>2. IsFiniteSet(S) /\ S \subseteq Row
  BY FS_Subset DEF IsTable, Standard
<1>3. D = {w.day : w \in S}
  <2>1. ASSUME NEW w \in S PROVE w.day \in D
    <3>1. <<w.day, w.region>> \in RegionDays(rows) /\ <<w.day, w.region>>[1] = w.day
      BY DEF RegionDays
    <3> QED  BY <3>1, Zenon DEF ObservedDays
  <2>2. ASSUME NEW d \in D PROVE \E w \in S : d = w.day
    <3>1. PICK c \in RegionDays(rows) : d = c[1]
      BY Zenon DEF ObservedDays
    <3>2. PICK w \in S : c = <<w.day, w.region>>
      BY Zenon DEF RegionDays
    <3> QED  BY <3>1, <3>2
  <2> HIDE DEF D, S
  <2> QED  BY <2>1, <2>2
<1>4. IsFiniteSet(D)
  <2> DEFINE day == [w \in S |-> w.day]
  <2>1. D = {day[w] : w \in S}
    BY <1>3
  <2>2. IsFiniteSet({day[w] : w \in S})
    <3> HIDE DEF day, S
    <3> QED  BY <1>2, ImageIsFinite
  <2> QED  BY <2>1, <2>2
<1>5. \A d \in D, r \in Region : CountOf(rows, d, r) = Slots
  BY <1>1, CompleteCounts
<1> SUFFICES ASSUME NEW r \in Region
             PROVE  \E a \in Times(rows, r) :
                      /\ Times(rows, r) = a .. a + Requested * Slots - 1
                      /\ Cardinality(OfRegion(Standard(rows), r)) = Requested * Slots
  BY DEF IsUnbroken
<1> DEFINE T == Times(rows, r)
<1>6. \A v, w \in S : v.t = w.t /\ v.region = w.region => v = w
  BY <1>1, DistinctKeys
<1>7. /\ Cardinality(OfRegion(S, r)) = Requested * Slots
      /\ IsFiniteSet(T) /\ T \subseteq Int /\ Cardinality(T) = Requested * Slots
  <2>1. \A w \in S : w.day \in D
    BY <1>3
  <2> HIDE DEF D
  <2> QED  BY <1>1, <1>4, <1>5, <1>6, <2>1, RegionRows
<1>8. T # {}
  <2>1. Requested * Slots # 0
    BY IngestConstants
  <2> HIDE DEF T
  <2> QED  BY <1>7, <2>1, FS_EmptySet
<1>9. Max(T) \in T /\ \A j \in T : j <= Max(T)
  <2> HIDE DEF T
  <2>1. \E m \in T : \A j \in T : j <= m
    BY <1>7, <1>8, LeastExists
  <2>2. \E m \in T : \A j \in T : m >= j
    BY <1>7, <2>1
  <2>3. Max(T) \in T /\ \A j \in T : Max(T) >= j
    BY <2>2 DEF Max
  <2> QED  BY <1>7, <2>3
<1>10. \A t \in T : t # Max(T) => t + 1 \in T
  BY <1>1 DEF HasGap
<1>11. \E a \in T : T = a .. a + Cardinality(T) - 1
  <2> HIDE DEF T
  <2> QED  BY <1>7, <1>8, <1>9, <1>10, Unbroken
<1> HIDE DEF T
<1>12. \E a \in T : T = a .. a + Requested * Slots - 1
  BY <1>7, <1>11
<1> QED  BY <1>7, <1>12 DEF T

\* The intervals of the days first .. last.
LEMMA DaysOfIntervals ==
  ASSUME NEW first \in Int, NEW last \in Int, NEW k \in Nat \ {0}, NEW t \in Int
  PROVE  /\ (t - 1) \div k + 1 \in Int
         /\ (t - 1) \div k + 1 \in first .. last <=> (first - 1) * k < t /\ t <= last * k
<1> DEFINE q == (t - 1) \div k
<1>1. q \in Int /\ k * q <= t - 1 /\ t - 1 < k * (q + 1)
  OBVIOUS
<1> HIDE DEF q
<1>2. first <= q + 1 <=> (first - 1) * k < t
  <2>1. CASE first <= q + 1
    <3>1. k * (first - 1) <= k * q
      BY <1>1, <2>1
    <3>2. k * (first - 1) = (first - 1) * k
      OBVIOUS
    <3> QED  BY <1>1, <2>1, <3>1, <3>2
  <2>2. CASE q + 1 <= first - 1
    <3>1. k * (q + 1) <= k * (first - 1)
      BY <1>1, <2>2
    <3>2. k * (first - 1) = (first - 1) * k
      OBVIOUS
    <3> QED  BY <1>1, <2>2, <3>1, <3>2
  <2> QED  BY <1>1, <2>1, <2>2
<1>3. q + 1 <= last <=> t <= last * k
  <2>1. CASE q + 1 <= last
    <3>1. k * (q + 1) <= k * last
      BY <1>1, <2>1
    <3>2. k * last = last * k
      OBVIOUS
    <3> QED  BY <1>1, <2>1, <3>1, <3>2
  <2>2. CASE last <= q
    <3>1. k * last <= k * q
      BY <1>1, <2>2
    <3>2. k * last = last * k
      OBVIOUS
    <3> QED  BY <1>1, <2>2, <3>1, <3>2
  <2> QED  BY <1>1, <2>1, <2>2
<1> QED  BY <1>1, <1>2, <1>3 DEF q

\* The rows of the daily ingest and of its repair are of the requested days, by their
\* archives at least.
OfRequested(rows) == \A w \in rows : w.day \in HistoryDays + 1 .. Days

\* If the archives were of their days, the unbroken run is that of the requested days.
LEMMA UnbrokenIsGrid ==
  ASSUME NEW rows, IsTable(rows), OfRequested(rows), IsUnbroken(rows, Requested),
         OnTheirDay(rows)
  PROVE  IsGrid(rows, HistoryDays + 1, Days)
<1> DEFINE low == HistoryDays * Slots
           high == Days * Slots
           n == Requested * Slots
<1>1. /\ HistoryDays \in Nat /\ Days \in Nat /\ Slots \in Nat \ {0}
      /\ low \in Nat /\ high \in Nat /\ n \in Nat /\ n = high - low
  BY IngestConstants DEF Requested
<1>2. ASSUME NEW r \in Region
      PROVE  /\ Times(rows, r) = low + 1 .. high
             /\ Cardinality(OfRegion(Standard(rows), r)) = n
  <2>1. PICK a \in Times(rows, r) :
          /\ Times(rows, r) = a .. a + n - 1
          /\ Cardinality(OfRegion(Standard(rows), r)) = n
    BY DEF IsUnbroken
  <2>2. ASSUME NEW t \in Times(rows, r) PROVE t \in Int /\ low < t /\ t <= high
    <3>1. PICK w \in OfRegion(Standard(rows), r) : t = w.t
      BY DEF Times
    <3>2. w \in Standard(rows) /\ w \in rows
      BY DEF OfRegion, Standard
    <3>3. t \in Int
      BY <3>1, <3>2 DEF IsTable, Row
    <3>4. DayOf(t) \in HistoryDays + 1 .. Days
      BY <3>1, <3>2 DEF OnTheirDay, OfRequested
    <3>5. ((HistoryDays + 1) - 1) * Slots < t /\ t <= Days * Slots
      <4>1. HistoryDays + 1 \in Int /\ Days \in Int
        BY <1>1
      <4> QED  BY <1>1, <3>3, <3>4, <4>1, DaysOfIntervals DEF DayOf
    <3> QED  BY <1>1, <3>3, <3>5
  <2>3. a \in Int /\ low < a
    BY <2>2
  <2>4. a + n - 1 <= high
    <3>1. CASE n = 0
      BY <1>1, <2>1, <2>3, <3>1
    <3>2. CASE n > 0
      <4>1. a + n - 1 \in Times(rows, r)
        BY <1>1, <2>1, <2>3, <3>2
      <4> QED  BY <2>2, <4>1
    <3> QED  BY <1>1, <3>1, <3>2
  <2>5. a = low + 1
    BY <1>1, <2>3, <2>4
  <2> QED  BY <1>1, <2>1, <2>5
<1>3. /\ ((HistoryDays + 1) - 1) * Slots + 1 = low + 1 /\ Days * Slots = high
      /\ (Days - (HistoryDays + 1) + 1) * Slots = n
  BY <1>1 DEF Requested
<1> HIDE DEF low, high, n
<1> QED  BY <1>2, <1>3 DEF IsGrid

\* The history that is called complete is the grid of its days: a row lies on the day its
\* interval ends, so that neither its key nor its day can be wrong.
LEMMA HistoryIsGrid ==
  ASSUME NEW records, IsArchive(records),
         Incomplete(ParseMonthly(records, 1, HistoryDays), 1 .. HistoryDays) = {}
  PROVE  IsGrid(ParseMonthly(records, 1, HistoryDays), 1, HistoryDays)
<1> DEFINE rows == ParseMonthly(records, 1, HistoryDays)
           D == 1 .. HistoryDays
           n == HistoryDays * Slots
<1>0. HistoryDays \in Nat /\ Slots \in Nat \ {0} /\ n \in Nat /\ n > 0
  BY IngestConstants
<1>1. /\ IsTable(rows)
      /\ \A w \in rows : /\ w.day = DayOf(w.t) /\ ~ w.intervention
                         /\ 0 < w.t /\ w.t <= n
  <2>1. (1 - 1) * Slots = 0
    BY <1>0
  <2>2. 1 \in Int /\ HistoryDays \in Int
    BY <1>0
  <2> QED  BY <2>1, <2>2, ParseMonthlyTable
<1>2. Incomplete(rows, D) = {}
  OBVIOUS
<1> HIDE DEF rows
<1>3. Standard(rows) = rows
  BY <1>1 DEF Standard
<1>4. \A w \in rows : w \in Row /\ w.t \in Int /\ w.day \in D
  <2> SUFFICES ASSUME NEW w \in rows PROVE w \in Row /\ w.t \in Int /\ w.day \in D
    OBVIOUS
  <2>1. w \in Row /\ w.t \in Int
    BY <1>1 DEF IsTable, Row
  <2>2. DayOf(w.t) \in D
    <3>1. 1 \in Int /\ HistoryDays \in Int /\ (1 - 1) * Slots < w.t /\ w.t <= HistoryDays * Slots
      BY <1>0, <1>1, <2>1
    <3> QED  BY <1>0, <2>1, <3>1, DaysOfIntervals DEF DayOf
  <2> QED  BY <1>1, <2>1, <2>2
<1>5. \A v, w \in rows : v.t = w.t /\ v.region = w.region => v = w
  <2> SUFFICES ASSUME NEW v \in rows, NEW w \in rows, v.t = w.t, v.region = w.region
               PROVE  v = w
    OBVIOUS
  <2>1. v.day = w.day
    BY <1>1
  <2>2. v.intervention = w.intervention
    BY <1>1, <1>4 DEF Row
  <2> QED  BY <1>4, <2>1, <2>2 DEF Row
<1>6. \A d \in D, r \in Region : CountOf(rows, d, r) = Slots
  BY <1>2, CompleteCounts
<1> SUFFICES ASSUME NEW r \in Region
             PROVE  /\ Times(rows, r) = 1 .. n
                    /\ Cardinality(OfRegion(Standard(rows), r)) = n
  <2>1. (1 - 1) * Slots + 1 = 1 /\ (HistoryDays - 1 + 1) * Slots = n
    BY <1>0
  <2> QED  BY <2>1 DEF IsGrid, rows
<1> DEFINE T == Times(rows, r)
<1>7. /\ Cardinality(OfRegion(Standard(rows), r)) = n
      /\ IsFiniteSet(T) /\ Cardinality(T) = n
  <2>1. IsFiniteSet(D) /\ Cardinality(D) = HistoryDays
    <3>1. 1 \in Int /\ HistoryDays \in Int
      BY <1>0
    <3> QED  BY <1>0, <3>1, FS_Interval
  <2> HIDE DEF D
  <2> QED  BY <1>1, <1>3, <1>4, <1>5, <1>6, <2>1, RegionRows
<1>8. T \in SUBSET (1 .. n)
  BY <1>1, <1>3, <1>4, <1>0 DEF Times, OfRegion
<1>9. T = 1 .. n
  <2>1. IsFiniteSet(1 .. n) /\ Cardinality(1 .. n) = n
    <3>1. 1 \in Int /\ n \in Int
      BY <1>0
    <3> HIDE DEF n
    <3> QED  BY <1>0, <3>1, FS_Interval
  <2> HIDE DEF T
  <2> QED  BY <1>7, <1>8, <2>1, FS_Subset
<1> QED  BY <1>7, <1>9

KeysDiffer(rows) ==
  \A v, w \in rows : v.t = w.t /\ v.region = w.region /\ v.intervention = w.intervention => v = w

\* As many keys as both tables have rows: no key is of two rows.
LEMMA UniqueTells ==
  ASSUME NEW rows, IsTable(rows), NEW more, IsTable(more), Unique(rows, more)
  PROVE  KeysDiffer(rows \cup more)
<1> DEFINE all == rows \cup more
           full == [w \in all |-> <<w.t, w.region, w.intervention>>]
<1>1. IsFiniteSet(all)
  BY FS_Union DEF IsTable
<1>2. {<<w.t, w.region, w.intervention>> : w \in all} = {full[w] : w \in all}
  OBVIOUS
<1>3. Cardinality({full[w] : w \in all}) = Cardinality(rows) + Cardinality(more)
  BY <1>2 DEF Unique
<1>4. Cardinality({full[w] : w \in all}) <= Cardinality(all)
  <2> HIDE DEF full, all
  <2> QED  BY <1>1, ImageIsFinite
<1>5. /\ Cardinality(all) = Cardinality(rows) + Cardinality(more) - Cardinality(rows \cap more)
      /\ Cardinality(rows) \in Nat /\ Cardinality(more) \in Nat
      /\ Cardinality(rows \cap more) \in Nat
  <2>1. IsFiniteSet(rows) /\ IsFiniteSet(more)
    BY DEF IsTable
  <2>2. IsFiniteSet(rows \cap more)
    BY <2>1, FS_Intersection
  <2> QED  BY <2>1, <2>2, FS_Union, FS_CardinalityType
<1>6. Cardinality({full[w] : w \in all}) = Cardinality(all)
  <2> HIDE DEF full, all
  <2> QED  BY <1>3, <1>4, <1>5
<1>7. \A v, w \in all : full[v] = full[w] => v = w
  <2> HIDE DEF full, all
  <2> QED  BY <1>1, <1>6, ImageIsFinite
<1> QED  BY <1>7 DEF KeysDiffer

\* A complete merge: every key is of one of its rows, and each day and region has all of
\* its intervals.
LEMMA MergeIsUnique ==
  ASSUME NEW all, IsTable(all), KeysDiffer(all), Incomplete(all, 1 .. Days) = {},
         ObservedDays(all) \subseteq 1 .. Days
  PROVE  Cardinality(RowKeys(all)) = Days * DayRows
<1> DEFINE S == Standard(all)
           D == 1 .. Days
           key == [w \in S |-> <<w.t, w.region>>]
           class == [w \in S |-> <<w.day, w.region>>]
<1>2. S \in SUBSET all /\ IsFiniteSet(S)
  BY FS_Subset DEF IsTable, Standard
<1>4. \A v, w \in S : key[v] = key[w] => v = w
  <2> SUFFICES ASSUME NEW v \in S, NEW w \in S, key[v] = key[w] PROVE v = w
    OBVIOUS
  <2>1. v.t = w.t /\ v.region = w.region /\ v \in all /\ w \in all
    BY <1>2
  <2>2. v.intervention = w.intervention
    BY <2>1 DEF Standard, IsTable, Row
  <2> QED  BY <2>1, <2>2 DEF KeysDiffer
<1>5. Cardinality(RowKeys(all)) = Cardinality(S)
  <2>1. RowKeys(all) = {key[w] : w \in S}
    BY DEF RowKeys
  <2>2. Cardinality({key[w] : w \in S}) = Cardinality(S)
    <3> HIDE DEF key, S
    <3> QED  BY <1>2, <1>4, DistinctImage
  <2> QED  BY <2>1, <2>2
<1>6. \A w \in S : class[w] \in D \X Region
  <2> SUFFICES ASSUME NEW w \in S PROVE <<w.day, w.region>> \in D \X Region
    BY Zenon
  <2>1. <<w.day, w.region>> \in RegionDays(all) /\ <<w.day, w.region>>[1] = w.day
    BY DEF RegionDays
  <2>2. w.day \in ObservedDays(all)
    BY <2>1, Zenon DEF ObservedDays
  <2>3. w.region \in Region
    BY <1>2 DEF IsTable, Row
  <2> QED  BY <2>2, <2>3
<1>7. \A c \in D \X Region : Cardinality({w \in S : class[w] = c}) = Slots
  <2> SUFFICES ASSUME NEW d \in D, NEW r \in Region
               PROVE  Cardinality({w \in S : class[w] = <<d, r>>}) = Slots
    <3>1. \A c \in D \X Region : c = <<c[1], c[2]>> /\ c[1] \in D /\ c[2] \in Region
      OBVIOUS
    <3> HIDE DEF class, S, D
    <3> QED  BY <3>1
  <2>1. {w \in S : class[w] = <<d, r>>} = OfRegion(OfDay(S, d), r)
    BY DEF OfRegion, OfDay
  <2>2. CountOf(all, d, r) = Slots
    BY CompleteCounts
  <2> QED  BY <2>1, <2>2 DEF CountOf
<1>8. IsFiniteSet(D \X Region) /\ Cardinality(D \X Region) = Days * Cardinality(Region)
  <2>1. 1 \in Int /\ Days \in Nat /\ Days \in Int /\ IsFiniteSet(Region)
    BY IngestConstants
  <2>2. IsFiniteSet(D) /\ Cardinality(D) = Days
    BY <2>1, FS_Interval
  <2> HIDE DEF D
  <2> QED  BY <2>1, <2>2, FS_Product
<1>9. Cardinality(S) = (Days * Cardinality(Region)) * Slots
  <2>1. Slots \in Nat
    BY IngestConstants
  <2> HIDE DEF class, S, D
  <2> QED  BY <1>2, <1>6, <1>7, <1>8, <2>1, Classes
<1>10. (Days * Cardinality(Region)) * Slots = Days * DayRows
  BY IngestConstants DEF DayRows
<1> QED  BY <1>5, <1>9, <1>10

-----------------------------------------------------------------------------
(* Market data: the jobs.                                                   *)

JobFields == {"at", "day", "failed", "held", "full", "hold"}
FinalFields == {"complete", "requested", "failed", "rows", "hash", "reconciled", "alone"}
DataFiles == {"raw", "repaired", "history", "merged"}

\* A final manifest that counts the data it has the hash of, if its repair was alone.
CountsItsData(m) ==
  /\ DOMAIN m = FinalFields
  /\ m.requested = Requested
  /\ m.reconciled => m.rows = Requested * DayRows
  /\ m.alone => m.hash.is = "whole" /\ m.rows = Cardinality(m.hash.content)

\* Data that the validator may call complete.
IsCovered(rows) ==
  IsUnbroken(rows, Requested) /\ (OnTheirDay(rows) => IsGrid(rows, HistoryDays + 1, Days))

\* What a file f may have: the data are tables, and the manifests and the report say
\* what is true.
ContentOK(f, c) ==
  /\ f \in DataFiles => IsTable(c)
  /\ f \in {"raw", "repaired"} => OfRequested(c)
  /\ f = "run" => c.requested = Requested
  /\ f = "final" => CountsItsData(c)
  /\ f = "coverage" /\ c.complete => IsCovered(c.checked)
  /\ f = "historyRun" /\ c.complete /\ c.alone =>
       c.hash.is = "whole" /\ IsGrid(c.hash.content, 1, HistoryDays)
  /\ f = "mergedRun" /\ c.complete /\ c.alone =>
       c.hash.is = "whole" /\ Cardinality(RowKeys(c.hash.content)) = Days * DayRows

FileOK(f, v) ==
  /\ v.is \in {"absent", "torn", "whole"}
  /\ v.is = "whole" => ContentOK(f, v.content)

\* The steps at which a job writes its data, and those at which it has a hold on it.
OpenSteps == {"day", "write", "abort"}
HoldSteps == OpenSteps \cup {"manifest"}

StepsOf(script) ==
  {"waiting", "ended"} \cup
    CASE script = "ingest"   -> {"open", "day", "manifest", "validate", "report"}
      [] script = "gate"     -> {"validate", "report"}
      [] script = "repair"   -> {"open", "write", "abort", "manifest", "validate", "report"}
      [] script = "finalize" -> {"reconcile", "replace"}
      [] script = "history"  -> {"open", "write", "manifest"}
      [] script = "merge"    -> {"open", "write", "manifest"}

\* A state v that a job of a script may be in: what it holds until its next write.
JobOK(script, v) ==
  /\ DOMAIN v = JobFields
  /\ v.hold \in Hold
  /\ v.at \in StepsOf(script)
  /\ v.hold # "none" <=> v.at \in HoldSteps
  /\ v.at = "waiting" => v = Idle
  /\ v.at = "ended" => v = Over
  /\ script # "finalize" => IsTable(v.held)
  /\ script \in {"ingest", "gate", "repair"} => OfRequested(v.held)
  /\ v.at = "day" => v.day \in Int /\ HistoryDays < v.day
  /\ v.at = "replace" => CountsItsData(v.held) /\ v.held.rows = Requested * DayRows
  /\ script = "history" /\ v.at \in {"write", "manifest"}
       /\ Incomplete(v.held, 1 .. HistoryDays) = {} => IsGrid(v.held, 1, HistoryDays)
  /\ script = "merge" /\ v.at \in {"write", "manifest"} => KeysDiffer(v.held)

\* A job with the sole hold on its data is the only one that writes it, and from its
\* last row to its manifest the file is what it wrote.
SoleOK ==
  \A j \in Job : job[j].hold = "sole" =>
    /\ Writers(Output(j)) \subseteq {j}
    /\ job[j].at = "manifest" => file[Output(j)] = Content(job[j].held)

Shaped == job = [j \in Job |-> job[j]] /\ file = [f \in Files |-> file[f]]

IngestInv ==
  /\ Shaped
  /\ \A f \in Files : FileOK(f, file[f])
  /\ \A j \in Job : JobOK(Script[j], job[j])
  /\ SoleOK

-----------------------------------------------------------------------------
\* One job moves, one file is written.
Moves(j) ==
  /\ job' = [k \in Job |-> job'[k]]
  /\ \A k \in Job \ {j} : job'[k] = job[k]
  /\ DOMAIN job'[j] = JobFields

Writes(f, v) ==
  /\ file' = [g \in Files |-> file'[g]]
  /\ \A g \in Files \ {f} : file'[g] = file[g]
  /\ file'[f] = v

LEMMA GotoMoves ==
  ASSUME IngestInv, NEW j \in Job, NEW s, Goto(j, s)
  PROVE  Moves(j) /\ job'[j] = [job[j] EXCEPT !.at = s]
BY DEF IngestInv, Shaped, JobOK, JobFields, Goto, Moves

LEMMA GotoWithMoves ==
  ASSUME IngestInv, NEW j \in Job, NEW s, NEW h, GotoWith(j, s, h)
  PROVE  /\ Moves(j)
         /\ job'[j].at = s /\ job'[j].held = h /\ job'[j].hold = job[j].hold
BY DEF IngestInv, Shaped, JobOK, JobFields, GotoWith, Moves

\* A job without a hold that holds nothing, too.
LEMMA EmptyHanded ==
  ASSUME NEW script \in Scripts, NEW s \in StepsOf(script) \ HoldSteps,
         s \notin {"waiting", "ended", "replace"}
  PROVE  JobOK(script, [Idle EXCEPT !.at = s]) /\ [Idle EXCEPT !.at = s].hold = "none"
<1> DEFINE v == [Idle EXCEPT !.at = s]
<1>1. /\ DOMAIN v = JobFields /\ v.hold = "none" /\ v.at = s /\ v.held = {}
  BY DEF Idle, JobFields
<1>2. IsTable(v.held) /\ OfRequested(v.held)
  BY <1>1, EmptyTable DEF OfRequested
<1> HIDE DEF v
<1>3. JobOK(script, v)
  BY <1>1, <1>2 DEF JobOK, Hold, HoldSteps, OpenSteps
<1> QED  BY <1>1, <1>3 DEF v

LEMMA IdleOK ==
  ASSUME NEW script \in Scripts
  PROVE  JobOK(script, Idle) /\ JobOK(script, Over) /\ Over.hold = "none" /\ Over.at = "ended"
<1>1. /\ DOMAIN Idle = JobFields /\ Idle.hold = "none" /\ Idle.at = "waiting" /\ Idle.held = {}
      /\ DOMAIN Over = JobFields /\ Over.hold = "none" /\ Over.at = "ended" /\ Over.held = {}
  BY DEF Idle, Over, JobFields
<1>2. IsTable({}) /\ OfRequested({})
  BY EmptyTable DEF OfRequested
<1> QED  BY <1>1, <1>2 DEF JobOK, Hold, HoldSteps, OpenSteps, StepsOf

LEMMA EndsMoves ==
  ASSUME IngestInv, NEW j \in Job, Ends(j)
  PROVE  Moves(j) /\ job'[j] = Over /\ JobOK(Script[j], job'[j]) /\ job'[j].hold = "none"
<1>1. job'[j] = Over
  BY DEF IngestInv, Shaped, Ends
<1>2. Script[j] \in Scripts
  BY IngestAssumption
<1>3. JobOK(Script[j], Over) /\ Over.hold = "none"
  BY <1>2, IdleOK
<1> QED  BY <1>1, <1>3 DEF IngestInv, Shaped, Ends, Moves, JobOK

LEMMA WriteWrites ==
  ASSUME IngestInv, NEW f \in Files, NEW v, file' = [file EXCEPT ![f] = v]
  PROVE  Writes(f, v)
BY DEF IngestInv, Shaped, Writes

LEMMA NothingWritten ==
  ASSUME IngestInv, UNCHANGED file, NEW f \in Files
  PROVE  Writes(f, file[f]) /\ FileOK(f, file[f])
BY DEF IngestInv, Shaped, Writes

LEMMA TornOK ==
  ASSUME NEW f
  PROVE  FileOK(f, Torn) /\ FileOK(f, Absent)
BY DEF FileOK, Torn, Absent

LEMMA OutputFiles ==
  ASSUME NEW j \in Job
  PROVE  /\ Output(j) \in DataFiles \cup {"none"} /\ DataFiles \subseteq Files
         /\ Script[j] \in Scripts
         /\ Script[j] = "ingest" <=> Output(j) = "raw"
         /\ Script[j] = "repair" <=> Output(j) = "repaired"
         /\ Script[j] = "history" <=> Output(j) = "history"
         /\ Script[j] = "merge" <=> Output(j) = "merged"
<1>1. Script[j] \in Scripts
  BY IngestAssumption
<1> QED  BY <1>1 DEF Output, DataFiles, Files, Scripts

\* A step of one job that writes one file, if it writes data with a hold on it only.
LEMMA OneStep ==
  ASSUME IngestInv, NEW j \in Job, Moves(j), JobOK(Script[j], job'[j]),
         job'[j].hold \in {"none", job[j].hold},
         job'[j].at \in OpenSteps => job[j].at \in OpenSteps,
         NEW f \in Files, NEW v, Writes(f, v), FileOK(f, v),
         f \in DataFiles => v = file[f] \/ j \in Writers(f),
         job'[j].hold = "sole" /\ job'[j].at = "manifest" =>
           file'[Output(j)] = Content(job'[j].held)
  PROVE  IngestInv'
<1>1. ASSUME NEW k \in Job, job'[k].hold = "sole"
      PROVE  /\ (Writers(Output(k)))' \subseteq {k}
             /\ job'[k].at = "manifest" => file'[Output(k)] = Content(job'[k].held)
  <2>1. job[k].hold = "sole"
    BY <1>1 DEF Moves
  <2>2. Writers(Output(k)) \subseteq {k}
    BY <2>1 DEF IngestInv, SoleOK
  <2>3. \A o \in Job : (Output(o))' = Output(o)
    BY DEF Output
  <2>4. (Writers(Output(k)))' \subseteq Writers(Output(k))
    <3> SUFFICES ASSUME NEW o \in (Writers(Output(k)))' PROVE o \in Writers(Output(k))
      OBVIOUS
    <3>1. /\ o \in Job /\ Output(o) = Output(k) /\ job'[o].hold \in {"sole", "shared"}
          /\ job'[o].at \in OpenSteps
      BY <2>3 DEF Writers, OpenSteps
    <3>2. job[o].hold \in {"sole", "shared"} /\ job[o].at \in OpenSteps
      BY <3>1 DEF Moves
    <3> QED  BY <3>1, <3>2 DEF Writers, OpenSteps
  <2>5. ASSUME job'[k].at = "manifest", k # j
        PROVE  file'[Output(k)] = Content(job'[k].held)
    <3>1. job[k].at = "manifest" /\ job'[k] = job[k]
      BY <2>5 DEF Moves
    <3>2. file[Output(k)] = Content(job[k].held)
      BY <2>1, <3>1 DEF IngestInv, SoleOK
    <3>3. Output(k) \in DataFiles /\ Output(k) \in Files
      <4>1. job[k].at \in StepsOf(Script[k])
        BY DEF IngestInv, JobOK
      <4>2. Script[k] \in Scripts
        BY IngestAssumption
      <4> QED  BY <3>1, <4>1, <4>2 DEF StepsOf, Scripts, Output, DataFiles, Files
    <3>4. CASE Output(k) # f
      BY <3>1, <3>2, <3>3, <3>4 DEF Writes
    <3>5. CASE Output(k) = f
      <4>1. j \notin Writers(f)
        BY <2>2, <2>5, <3>5
      <4> QED  BY <3>1, <3>2, <3>3, <3>5, <4>1 DEF Writes
    <3> QED  BY <3>4, <3>5
  <2>6. k = j /\ job'[k].at = "manifest" => file'[Output(k)] = Content(job'[k].held)
    BY <1>1
  <2> QED  BY <2>2, <2>4, <2>5, <2>6
<1>2. SoleOK'
  BY <1>1, Zenon DEF SoleOK, Output
<1> QED  BY <1>2 DEF IngestInv, Shaped, Moves, Writes

\* Steps that write no data.
LEMMA PlainStep ==
  ASSUME IngestInv, NEW j \in Job, Moves(j), JobOK(Script[j], job'[j]),
         job'[j].hold = "none",
         NEW f \in Files \ DataFiles, NEW v, Writes(f, v), FileOK(f, v)
  PROVE  IngestInv'
<1>1. job'[j].at \notin OpenSteps
  BY DEF JobOK, HoldSteps
<1> QED  BY <1>1, OneStep

LEMMA UnwrittenStep ==
  ASSUME IngestInv, UNCHANGED file, NEW j \in Job, Moves(j), JobOK(Script[j], job'[j]),
         job'[j].hold = "none"
  PROVE  IngestInv'
<1>1. "run" \in Files \ DataFiles
  BY DEF Files, DataFiles
<1> QED  BY <1>1, NothingWritten, PlainStep

\* The holds that a step of another job takes away.
LEMMA HoldLost ==
  ASSUME NEW script, NEW v, JobOK(script, v), v.hold # "none",
         NEW h \in {"shared", "removed"}, NEW w, w = [v EXCEPT !.hold = h]
  PROVE  JobOK(script, w) /\ w.hold = h /\ w.at = v.at
<1>1. /\ DOMAIN w = JobFields /\ w.hold = h /\ w.at = v.at /\ w.day = v.day
      /\ w.held = v.held
  BY DEF JobOK, JobFields
<1>2. v.at \in HoldSteps
  BY DEF JobOK
<1> QED  BY <1>1, <1>2 DEF JobOK, Hold, HoldSteps, OpenSteps

\* What a job writes is torn when it opens its file, and nobody else's alone then.
LEMMA OpensKeeps ==
  ASSUME IngestInv, NEW j \in Job, job[j].at = "open", NEW v, Opens(j, v),
         v.at \in OpenSteps, \A h \in {"sole", "shared"} : JobOK(Script[j], [v EXCEPT !.hold = h])
  PROVE  IngestInv'
<1> DEFINE f == Output(j)
           others == {k \in Job \ {j} : Output(k) = f /\ job[k].hold \in {"sole", "shared"}}
           h == IF Writers(f) = {} THEN "sole" ELSE "shared"
<1>1. f \in DataFiles /\ f \in Files
  <2>1. job[j].at \in StepsOf(Script[j]) /\ Script[j] \in Scripts
    BY IngestAssumption DEF IngestInv, JobOK
  <2> QED  BY <2>1 DEF StepsOf, Scripts, Output, DataFiles, Files
<1>2. /\ job' = [k \in Job |-> IF k = j THEN [v EXCEPT !.hold = h]
                              ELSE IF k \in others THEN [job[k] EXCEPT !.hold = "shared"]
                              ELSE job[k]]
      /\ file' = [file EXCEPT ![f] = Torn]
  BY DEF Opens
<1>3. /\ job'[j] = [v EXCEPT !.hold = h] /\ h \in {"sole", "shared"}
      /\ \A k \in others : job'[k] = [job[k] EXCEPT !.hold = "shared"]
      /\ \A k \in Job \ {j} : k \notin others => job'[k] = job[k]
      /\ job' = [k \in Job |-> job'[k]]
  BY <1>2
<1>4. Writes(f, Torn)
  BY <1>1, <1>2, WriteWrites
<1>5. /\ JobOK(Script[j], job'[j]) /\ job'[j].at \in OpenSteps /\ job'[j].hold = h
  <2>1. DOMAIN v = JobFields
    <3>1. DOMAIN [v EXCEPT !.hold = "sole"] = JobFields
      BY DEF JobOK
    <3> QED  BY <3>1
  <2> QED  BY <1>3, <2>1 DEF JobFields
<1>6. \A k \in others : /\ k # j /\ k \in Job
                        /\ job'[k].hold = "shared" /\ job'[k].at = job[k].at
                        /\ JobOK(Script[k], job'[k])
  <2> SUFFICES ASSUME NEW k \in others
               PROVE  job'[k].hold = "shared" /\ job'[k].at = job[k].at /\ JobOK(Script[k], job'[k])
    OBVIOUS
  <2>1. k \in Job /\ JobOK(Script[k], job[k]) /\ job[k].hold # "none"
    BY DEF IngestInv
  <2> DEFINE script == Script[k]
             old == job[k]
             new == job'[k]
  <2>2. new = [old EXCEPT !.hold = "shared"] /\ JobOK(script, old) /\ old.hold # "none"
    BY <1>3, <2>1
  <2>3. new.hold = "shared" /\ new.at = old.at /\ JobOK(script, new)
    <3> HIDE DEF script, old, new
    <3> QED  BY <2>2, HoldLost
  <2> QED  BY <2>1, <2>3
<1> HIDE DEF h
<1>7. ASSUME NEW k \in Job, job'[k].hold = "sole"
      PROVE  /\ (Writers(Output(k)))' \subseteq {k}
             /\ job'[k].at = "manifest" => file'[Output(k)] = Content(job'[k].held)
  <2>0. \A o \in Job : (Output(o))' = Output(o)
    BY DEF Output
  <2>1. CASE k = j
    <3>1. Writers(f) = {}
      BY <1>5, <1>7, <2>1 DEF h
    <3>2. \A o \in others : job[o].at \notin OpenSteps
      BY <3>1 DEF Writers, OpenSteps
    <3>3. ASSUME NEW o \in (Writers(f))', o # j PROVE FALSE
      <4>1. o \in Job /\ Output(o) = f /\ job'[o].hold \in {"sole", "shared"} /\ job'[o].at \in OpenSteps
        BY <2>0, <3>3 DEF Writers, OpenSteps
      <4>2. o \in others
        BY <1>3, <3>3, <4>1
      <4> QED  BY <1>6, <3>2, <4>1, <4>2
    <3>4. job'[j].at # "manifest"
      BY <1>5 DEF OpenSteps
    <3> HIDE DEF f
    <3> QED  BY <2>0, <2>1, <3>3, <3>4 DEF f
  <2>2. CASE k # j
    <3>1. k \notin others
      BY <1>6, <1>7
    <3>2. job'[k] = job[k] /\ job[k].hold = "sole" /\ Output(k) # f
      BY <1>3, <1>7, <2>2, <3>1
    <3>3. /\ Writers(Output(k)) \subseteq {k}
          /\ job[k].at = "manifest" => file[Output(k)] = Content(job[k].held)
      BY <3>2 DEF IngestInv, SoleOK
    <3>4. ASSUME NEW o \in (Writers(Output(k)))' PROVE o \in Writers(Output(k))
      <4>1. /\ o \in Job /\ Output(o) = Output(k) /\ job'[o].hold \in {"sole", "shared"}
            /\ job'[o].at \in OpenSteps
        BY <2>0, <3>4 DEF Writers, OpenSteps
      <4>2. o # j /\ o \notin others
        BY <3>2, <4>1
      <4> QED  BY <1>3, <4>1, <4>2 DEF Writers, OpenSteps
    <3>5. job[k].at = "manifest" => Output(k) \in Files
      BY OutputFiles DEF IngestInv, JobOK, StepsOf, Scripts, Output, Files
    <3> QED  BY <1>4, <3>2, <3>3, <3>4, <3>5 DEF Writes
  <2> QED  BY <2>1, <2>2
<1>8. SoleOK'
  BY <1>7, Zenon DEF SoleOK, Output
<1>9. \A g \in Files : FileOK(g, file'[g])
  BY <1>4, TornOK DEF Writes, IngestInv
<1>10. \A k \in Job : JobOK(Script[k], job'[k])
  BY <1>3, <1>5, <1>6 DEF IngestInv
<1> QED  BY <1>3, <1>4, <1>8, <1>9, <1>10 DEF IngestInv, Shaped, Writes

\* A job that is through with its data goes on to its manifest.
LEMMA ClosesKeeps ==
  ASSUME IngestInv, NEW j \in Job, job[j].at \in {"day", "write"},
         Closes(j, job[j].held), Goto(j, "manifest")
  PROVE  IngestInv'
<1> DEFINE me == job[j]
           f == Output(j)
<1>1. JobOK(Script[j], me) /\ me.hold # "none" /\ Script[j] \in Scripts
  BY IngestAssumption DEF IngestInv, JobOK, HoldSteps, OpenSteps
<1>2. f \in DataFiles /\ f \in Files /\ Script[j] \in {"ingest", "repair", "history", "merge"}
  BY <1>1 DEF JobOK, StepsOf, Scripts, Output, DataFiles, Files
<1>3. Moves(j) /\ job'[j] = [me EXCEPT !.at = "manifest"]
  BY GotoMoves
<1>4. /\ job'[j].at = "manifest" /\ job'[j].hold = me.hold /\ job'[j].held = me.held
      /\ DOMAIN job'[j] = JobFields
  BY <1>1, <1>3 DEF JobOK, JobFields
<1>5. JobOK(Script[j], job'[j])
  BY <1>1, <1>2, <1>4 DEF JobOK, StepsOf, HoldSteps, OpenSteps
<1>6. me.hold = "removed" \/ j \in Writers(f)
  BY <1>1 DEF JobOK, Hold, Writers
<1>7. FileOK(f, Content(me.held))
  <2>1. IsTable(me.held) /\ (f \in {"raw", "repaired"} => OfRequested(me.held))
    BY <1>1, <1>2 DEF JobOK, Output
  <2> QED  BY <1>2, <2>1 DEF FileOK, ContentOK, Content, DataFiles
<1>8. CASE me.hold # "removed" /\ Write(f, me.held)
  <2>1. Writes(f, Content(me.held))
    BY <1>2, <1>8, WriteWrites DEF Write
  <2>2. file'[f] = Content(job'[j].held) /\ j \in Writers(f)
    BY <1>4, <1>6, <1>8, <2>1 DEF Writes
  <2> HIDE DEF f
  <2> QED  BY <1>2, <1>3, <1>4, <1>5, <1>7, <2>1, <2>2, OneStep DEF OpenSteps, f
<1>9. CASE me.hold = "shared" /\ file' = [file EXCEPT ![f] = Torn]
  <2>1. Writes(f, Torn)
    BY <1>2, <1>9, WriteWrites
  <2> QED  BY <1>2, <1>3, <1>4, <1>5, <1>6, <1>9, <2>1, TornOK, OneStep DEF OpenSteps
<1>10. CASE me.hold = "removed" /\ UNCHANGED file
  BY <1>2, <1>3, <1>4, <1>5, <1>10, NothingWritten, OneStep DEF OpenSteps
<1> QED  BY <1>8, <1>9, <1>10 DEF Closes

LEMMA IngestStarts == IngestInit => IngestInv
<1> SUFFICES ASSUME IngestInit PROVE IngestInv
  OBVIOUS
<1>1. Shaped
  BY DEF IngestInit, Shaped
<1>2. \A f \in Files : FileOK(f, file[f])
  BY TornOK DEF IngestInit
<1>3. \A j \in Job : JobOK(Script[j], job[j]) /\ job[j].hold # "sole"
  <2>1. \A j \in Job : Script[j] \in Scripts /\ job[j] = Idle
    BY IngestAssumption DEF IngestInit
  <2> QED  BY <2>1, IdleOK DEF Idle
<1> QED  BY <1>1, <1>2, <1>3 DEF IngestInv, SoleOK

\* Submissions: the files of the directory a script removes are absent then.
LEMMA SubmitKeeps ==
  ASSUME IngestInv, NEW j \in Job, Submit(j)
  PROVE  IngestInv'
<1>1. /\ Script[j] \in Scripts /\ job[j].at = "waiting" /\ job[j] = Idle
      /\ job[j].hold = "none"
  BY IngestAssumption DEF IngestInv, JobOK, Submit, At, Idle
<1> DEFINE lost == {k \in Job : Output(k) \in Emptied(j) /\ job[k].hold # "none"}
<1>2. /\ job' = [k \in Job |-> IF k = j THEN [Idle EXCEPT !.at = FirstStep(j)]
                              ELSE IF k \in lost THEN [job[k] EXCEPT !.hold = "removed"]
                              ELSE job[k]]
      /\ file' = [f \in Files |-> IF f \in Emptied(j) THEN Absent ELSE file[f]]
  BY DEF Submit
<1>3. /\ job'[j] = [Idle EXCEPT !.at = FirstStep(j)]
      /\ \A k \in lost : k # j => job'[k] = [job[k] EXCEPT !.hold = "removed"]
      /\ \A k \in Job \ {j} : k \notin lost => job'[k] = job[k]
      /\ job' = [k \in Job |-> job'[k]]
  BY <1>2
<1>4. JobOK(Script[j], job'[j]) /\ job'[j].hold = "none"
  <2>1. FirstStep(j) \in StepsOf(Script[j]) \ HoldSteps
        /\ FirstStep(j) \notin {"waiting", "ended", "replace"}
    BY <1>1 DEF FirstStep, StepsOf, HoldSteps, OpenSteps, Scripts
  <2> QED  BY <1>1, <1>3, <2>1, EmptyHanded
<1>5. \A k \in lost : /\ k # j /\ k \in Job /\ JobOK(Script[k], job'[k])
                      /\ job'[k].hold = "removed"
  <2> SUFFICES ASSUME NEW k \in lost
               PROVE  k # j /\ JobOK(Script[k], job'[k]) /\ job'[k].hold = "removed"
    OBVIOUS
  <2>1. k \in Job /\ k # j /\ JobOK(Script[k], job[k]) /\ job[k].hold # "none"
    BY <1>1 DEF IngestInv
  <2> DEFINE script == Script[k]
             old == job[k]
             new == job'[k]
  <2>2. new = [old EXCEPT !.hold = "removed"] /\ JobOK(script, old) /\ old.hold # "none"
    BY <1>3, <2>1
  <2>3. new.hold = "removed" /\ new.at = old.at /\ JobOK(script, new)
    <3> HIDE DEF script, old, new
    <3> QED  BY <2>2, HoldLost
  <2> QED  BY <2>1, <2>3
<1>6. \A f \in Files : FileOK(f, file'[f])
  BY <1>2, TornOK DEF IngestInv
<1>7. \A k \in Job : JobOK(Script[k], job'[k])
  BY <1>3, <1>4, <1>5 DEF IngestInv
<1>8. ASSUME NEW k \in Job, job'[k].hold = "sole"
      PROVE  /\ (Writers(Output(k)))' \subseteq {k}
             /\ job'[k].at = "manifest" => file'[Output(k)] = Content(job'[k].held)
  <2>1. k # j /\ k \notin lost
    BY <1>4, <1>5, <1>8
  <2>2. job'[k] = job[k] /\ Output(k) \notin Emptied(j)
    BY <1>3, <1>8, <2>1
  <2>3. /\ Writers(Output(k)) \subseteq {k}
        /\ job[k].at = "manifest" => file[Output(k)] = Content(job[k].held)
    BY <1>8, <2>2 DEF IngestInv, SoleOK
  <2>4. ASSUME NEW o \in (Writers(Output(k)))' PROVE o \in Writers(Output(k))
    <3>1. /\ o \in Job /\ Output(o) = Output(k) /\ job'[o].hold \in {"sole", "shared"}
          /\ job'[o].at \in OpenSteps
      BY <2>4 DEF Writers, OpenSteps, Output
    <3>2. o # j /\ o \notin lost
      BY <1>4, <1>5, <3>1
    <3> QED  BY <1>3, <3>1, <3>2 DEF Writers, OpenSteps
  <2>5. job[k].at = "manifest" => Output(k) \in Files
    BY OutputFiles DEF IngestInv, JobOK, StepsOf, Scripts, Output, Files
  <2> QED  BY <1>2, <2>2, <2>3, <2>4, <2>5
<1>9. SoleOK'
  BY <1>8, Zenon DEF SoleOK, Output
<1> QED  BY <1>2, <1>3, <1>6, <1>7, <1>9 DEF IngestInv, Shaped

LEMMA KillKeeps ==
  ASSUME IngestInv, NEW j \in Job, Kill(j)
  PROVE  IngestInv'
<1>1. Moves(j) /\ JobOK(Script[j], job'[j]) /\ job'[j] = Over /\ job'[j].hold = "none"
  BY EndsMoves DEF Kill
<1>2. job'[j].at = "ended"
  BY <1>1, IdleOK, OutputFiles
<1>3. CASE UNCHANGED file
  BY <1>1, <1>3, UnwrittenStep
<1>4. CASE \E f \in Writing(j) : file' = [file EXCEPT ![f] = Torn]
  <2>1. PICK f \in Writing(j) : file' = [file EXCEPT ![f] = Torn]
    BY <1>4
  <2>2. f \in Files /\ (f \in DataFiles => j \in Writers(f))
    <3>1. CASE At(j, "manifest") /\ f = Manifest(j)
      BY <3>1 DEF Manifest, Files, DataFiles
    <3>3. CASE f = "coverage"
      BY <3>3 DEF Files, DataFiles
    <3>2. CASE j \in Writers(Output(j)) /\ f = Output(j)
      <4>1. job[j].at \in StepsOf(Script[j]) /\ job[j].at \in OpenSteps
        BY <3>2 DEF IngestInv, JobOK, Writers, OpenSteps
      <4> QED  BY <3>2, <4>1, OutputFiles DEF StepsOf, Scripts, OpenSteps, Output, Files
    <3> QED  BY <2>1, <3>1, <3>2, <3>3 DEF Writing
  <2>3. Writes(f, Torn)
    BY <2>1, <2>2, WriteWrites
  <2> QED  BY <1>1, <1>2, <2>2, <2>3, TornOK, OneStep DEF OpenSteps
<1> QED  BY <1>3, <1>4 DEF Kill

LEMMA DailyKeeps ==
  ASSUME IngestInv, NEW j \in Job, DailyNext(j)
  PROVE  IngestInv'
<1> DEFINE me == job[j]
<1>1. JobOK(Script[j], me) /\ Script[j] \in Scripts
  BY IngestAssumption DEF IngestInv
<1>2. HistoryDays \in Nat /\ Days \in Nat
  BY IngestConstants
<1>3. me.at = "day" => Script[j] = "ingest"
  BY <1>1 DEF JobOK, StepsOf, Scripts
<1>4. CASE IngestOpen(j)
  <2> DEFINE v == [me EXCEPT !.at = "day", !.day = HistoryDays + 1]
  <2>1. Opens(j, v) /\ me.at = "open" /\ Script[j] = "ingest"
    BY <1>4 DEF IngestOpen, At, Runs
  <2>2. \A h \in {"sole", "shared"} : JobOK(Script[j], [v EXCEPT !.hold = h])
    <3> SUFFICES ASSUME NEW h \in {"sole", "shared"}
                 PROVE  JobOK(Script[j], [v EXCEPT !.hold = h])
      OBVIOUS
    <3> DEFINE w == [v EXCEPT !.hold = h]
    <3>1. /\ DOMAIN w = JobFields /\ w.hold = h /\ w.at = "day" /\ w.day = HistoryDays + 1
          /\ w.held = me.held
      BY <1>1 DEF JobOK, JobFields
    <3>2. w.day \in Int /\ HistoryDays < w.day
      BY <1>2, <3>1
    <3>3. IsTable(w.held) /\ OfRequested(w.held)
      BY <1>1, <2>1, <3>1 DEF JobOK
    <3> HIDE DEF w
    <3>4. JobOK(Script[j], w)
      BY <2>1, <3>1, <3>2, <3>3 DEF JobOK, StepsOf, Hold, HoldSteps, OpenSteps
    <3> QED  BY <3>4 DEF w
  <2>3. v.at \in OpenSteps
    BY <1>1 DEF JobOK, JobFields, OpenSteps
  <2> HIDE DEF v
  <2> QED  BY <2>1, <2>2, <2>3, OpensKeeps
<1>5. CASE IngestDay(j)
  <2>1. PICK records \in Archive[me.day] :
          job' = [job EXCEPT
            ![j].day = me.day + 1,
            ![j].held = @ \cup Parse(records, me.day),
            ![j].full = @ + (IF Cardinality(Standard(Parse(records, me.day))) = DayRows
                             THEN 1 ELSE 0)]
    BY <1>5, Zenon DEF IngestDay
  <2>2. me.at = "day" /\ me.day \in HistoryDays + 1 .. Days /\ me.hold # "none"
    BY <1>1, <1>2, <1>5 DEF IngestDay, At, JobOK, HoldSteps, OpenSteps
  <2>3. IsTable(Parse(records, me.day)) /\ OfRequested(Parse(records, me.day))
    <3>1. IsArchive(records) /\ me.day \in Int
      BY <2>2, IngestAssumption
    <3> QED  BY <2>2, <3>1, ParseTable DEF OfRequested, Parse
  <2>4. /\ Moves(j) /\ job'[j].at = "day" /\ job'[j].hold = me.hold
        /\ job'[j].held = me.held \cup Parse(records, me.day)
        /\ job'[j].day = me.day + 1
    BY <1>1, <2>1, <2>2 DEF IngestInv, Shaped, Moves, JobFields, JobOK
  <2>5. IsTable(job'[j].held) /\ OfRequested(job'[j].held)
    <3>1. IsTable(me.held) /\ OfRequested(me.held)
      BY <1>1, <1>3, <2>2 DEF JobOK
    <3> QED  BY <2>3, <2>4, <3>1, UnionOfTables DEF OfRequested
  <2>6. JobOK(Script[j], job'[j])
    <3>1. me.day + 1 \in Int /\ HistoryDays < me.day + 1
      BY <1>2, <2>2
    <3> QED  BY <1>1, <1>3, <2>2, <2>4, <2>5, <3>1
             DEF JobOK, StepsOf, Moves, HoldSteps, OpenSteps
  <2>7. "run" \in Files \ DataFiles /\ UNCHANGED file
    BY <1>5 DEF Files, DataFiles, IngestDay
  <2> QED  BY <2>2, <2>4, <2>6, <2>7, NothingWritten, OneStep
<1>6. CASE IngestDayFails(j)
  <2>1. me.at = "day" /\ me.day <= Days /\ me.hold # "none" /\ me.day \in Int /\ HistoryDays < me.day
    BY <1>1, <1>6 DEF IngestDayFails, At, JobOK, HoldSteps, OpenSteps
  <2>2. /\ Moves(j) /\ job'[j].at = "day" /\ job'[j].held = me.held
        /\ job'[j].hold = me.hold /\ job'[j].day \in {me.day + 1, Days + 1}
    BY <1>1, <1>6, <2>1 DEF IngestDayFails, IngestInv, Shaped, Moves, JobFields, JobOK
  <2>3. JobOK(Script[j], job'[j])
    <3>1. \A d \in {me.day + 1, Days + 1} : d \in Int /\ HistoryDays < d
      BY <1>2, <2>1
    <3> QED  BY <1>1, <1>3, <2>1, <2>2, <3>1 DEF JobOK, StepsOf, Moves, HoldSteps, OpenSteps
  <2>4. "run" \in Files \ DataFiles /\ UNCHANGED file
    BY <1>6 DEF Files, DataFiles, IngestDayFails
  <2> QED  BY <2>1, <2>2, <2>3, <2>4, NothingWritten, OneStep
<1>7. CASE IngestClose(j)
  BY <1>7, ClosesKeeps DEF IngestClose, At
<1>8. CASE IngestManifest(j)
  <2>1. CASE file["raw"] = Absent
    <3>1. Ends(j) /\ UNCHANGED file
      BY <1>8, <2>1, Zenon DEF IngestManifest
    <3> QED  BY <3>1, EndsMoves, UnwrittenStep
  <2>2. CASE file["raw"] # Absent
    <3>1. PICK c : Write("run", c) /\ c.requested = Requested
      BY <1>8, <2>2 DEF IngestManifest
    <3>2. Moves(j) /\ JobOK(Script[j], job'[j]) /\ job'[j].hold = "none"
      <4>1. CASE Ends(j)
        BY <4>1, EndsMoves
      <4>2. CASE job' = [job EXCEPT ![j] = [Idle EXCEPT !.at = "validate"]]
        <5>1. job'[j] = [Idle EXCEPT !.at = "validate"]
          BY <4>2 DEF IngestInv, Shaped
        <5>2. "validate" \in StepsOf(Script[j]) \ HoldSteps
          BY <1>8 DEF IngestManifest, Runs, StepsOf, HoldSteps, OpenSteps
        <5>3. JobOK(Script[j], job'[j]) /\ job'[j].hold = "none"
          BY <1>1, <5>1, <5>2, EmptyHanded
        <5> QED  BY <4>2, <5>3 DEF IngestInv, Shaped, Moves, JobOK
      <4> QED  BY <1>8, <2>2, <4>1, <4>2 DEF IngestManifest
    <3>3. "run" \in Files \ DataFiles /\ FileOK("run", Content(c))
      BY <3>1 DEF FileOK, ContentOK, Content, Files, DataFiles
    <3>4. Writes("run", Content(c))
      BY <3>1, <3>3, WriteWrites DEF Write
    <3> QED  BY <3>2, <3>3, <3>4, PlainStep
  <2> QED  BY <2>1, <2>2
<1> QED  BY <1>4, <1>5, <1>6, <1>7, <1>8 DEF DailyNext

\* The data of the ingest with another day is a table of the requested days, too.
LEMMA RepairedTable ==
  ASSUME NEW rows, IsTable(rows), OfRequested(rows), NEW records, IsArchive(records)
  PROVE  LET repaired == Repaired(rows, ParseMonthly(records, RepairDay, RepairDay))
         IN IsTable(repaired) /\ OfRequested(repaired)
<1> DEFINE more == ParseMonthly(records, RepairDay, RepairDay)
<1>1. /\ RepairDay \in HistoryDays + 1 .. Days /\ RepairDay \in Int
      /\ Slots \in Nat \ {0}
  BY IngestAssumption, IngestConstants
<1>2. /\ IsTable(more)
      /\ \A w \in more : /\ w.day = DayOf(w.t) /\ (RepairDay - 1) * Slots < w.t
                         /\ w.t <= RepairDay * Slots
  BY <1>1, ParseMonthlyTable
<1> HIDE DEF more
<1>3. \A w \in more : w.day = RepairDay
  <2> SUFFICES ASSUME NEW w \in more PROVE w.day = RepairDay
    OBVIOUS
  <2>1. w.t \in Int
    BY <1>2 DEF IsTable, Row
  <2>2. DayOf(w.t) \in RepairDay .. RepairDay /\ DayOf(w.t) \in Int
    BY <1>1, <1>2, <2>1, DaysOfIntervals DEF DayOf
  <2> QED  BY <1>1, <1>2, <2>2
<1>4. IsTable(rows \ OfDay(rows, RepairDay))
  <2>1. rows \ OfDay(rows, RepairDay) \in SUBSET rows
    OBVIOUS
  <2> QED  BY <2>1, PartOfTable
<1>5. IsTable(Repaired(rows, more))
  BY <1>2, <1>4, UnionOfTables DEF Repaired
<1>6. OfRequested(Repaired(rows, more))
  BY <1>1, <1>3 DEF OfRequested, Repaired
<1> QED  BY <1>5, <1>6 DEF more

LEMMA RepairKeeps ==
  ASSUME IngestInv, NEW j \in Job, RepairNext(j)
  PROVE  IngestInv'
<1> DEFINE me == job[j]
<1>0. {"raw", "run", "repaired", "final"} \subseteq Files /\ "final" \in Files \ DataFiles
  BY DEF Files, DataFiles
<1>1. JobOK(Script[j], me) /\ Script[j] \in Scripts
  BY IngestAssumption DEF IngestInv
<1>2. Readable("raw") => IsTable(Read("raw")) /\ OfRequested(Read("raw"))
  BY <1>0 DEF IngestInv, FileOK, ContentOK, DataFiles, Readable, Read
<1>3. CASE RepairOpen(j)
  <2>0. me.at = "open" /\ Script[j] = "repair"
    BY <1>3 DEF RepairOpen, At, Runs
  <2>1. PICK records \in Monthly :
          Opens(j, IF Readable("raw")
                   THEN [me EXCEPT !.at = "write",
                           !.held = Repaired(Read("raw"),
                                             ParseMonthly(records, RepairDay, RepairDay))]
                   ELSE [me EXCEPT !.at = "abort"])
    BY <1>3, Zenon DEF RepairOpen
  <2> DEFINE rows == Repaired(Read("raw"), ParseMonthly(records, RepairDay, RepairDay))
             v == IF Readable("raw") THEN [me EXCEPT !.at = "write", !.held = rows]
                  ELSE [me EXCEPT !.at = "abort"]
  <2>2. Readable("raw") => IsTable(rows) /\ OfRequested(rows)
    <3>1. IsArchive(records)
      BY IngestAssumption
    <3> QED  BY <1>2, <3>1, RepairedTable
  <2>3. IsTable(me.held) /\ OfRequested(me.held) /\ DOMAIN me = JobFields
    BY <1>1, <2>0 DEF JobOK
  <2>4. Opens(j, v)
    BY <2>1
  <2> HIDE DEF rows
  <2>5. /\ DOMAIN v = JobFields /\ v.at \in {"write", "abort"}
        /\ IsTable(v.held) /\ OfRequested(v.held)
    BY <2>2, <2>3 DEF JobFields
  <2> HIDE DEF v
  <2>6. ASSUME NEW h \in {"sole", "shared"} PROVE JobOK(Script[j], [v EXCEPT !.hold = h])
    <3> DEFINE w == [v EXCEPT !.hold = h]
    <3>1. /\ DOMAIN w = JobFields /\ w.hold = h /\ w.at \in {"write", "abort"}
          /\ IsTable(w.held) /\ OfRequested(w.held)
      BY <2>5 DEF JobFields
    <3> HIDE DEF w
    <3>2. JobOK(Script[j], w)
      BY <2>0, <3>1 DEF JobOK, StepsOf, Hold, HoldSteps, OpenSteps
    <3> QED  BY <3>2 DEF w
  <2>7. v.at \in OpenSteps
    BY <2>5 DEF OpenSteps
  <2> QED  BY <2>0, <2>4, <2>6, <2>7, OpensKeeps
<1>4. CASE RepairClose(j)
  BY <1>4, ClosesKeeps DEF RepairClose, At
<1>5. CASE RepairOfTorn(j)
  <2>1. /\ me.at = "abort" /\ Script[j] = "repair" /\ me.hold # "none" /\ me.hold \in Hold
        /\ Output(j) = "repaired"
    BY <1>1, <1>5 DEF RepairOfTorn, At, JobOK, StepsOf, Scripts, HoldSteps, OpenSteps, Output
  <2>2. /\ Moves(j) /\ JobOK(Script[j], job'[j]) /\ job'[j].hold = "none"
        /\ job'[j].at \notin OpenSteps
    BY <1>5, EndsMoves DEF RepairOfTorn, JobOK, HoldSteps
  <2>3. CASE me.hold = "removed"
    BY <1>5, <2>2, <2>3, UnwrittenStep DEF RepairOfTorn
  <2>4. CASE me.hold # "removed"
    <3>1. Writes("repaired", Torn)
      BY <1>0, <1>5, <2>4, WriteWrites DEF RepairOfTorn
    <3>2. j \in Writers("repaired")
      BY <2>1, <2>4 DEF Writers, Hold
    <3> QED  BY <1>0, <2>2, <3>1, <3>2, TornOK, OneStep
  <2> QED  BY <2>3, <2>4
<1>6. CASE RepairFails(j)
  BY <1>6, EndsMoves, UnwrittenStep DEF RepairFails
<1>7. CASE RepairManifest(j)
  <2>1. CASE ~ (Readable("run") /\ file["repaired"] # Absent)
    BY <1>7, <2>1, EndsMoves, UnwrittenStep DEF RepairManifest
  <2>2. CASE Readable("run") /\ file["repaired"] # Absent
    <3> DEFINE m == [complete |-> TRUE, requested |-> Read("run").requested,
                     failed |-> Read("run").failed, rows |-> Cardinality(me.held),
                     hash |-> file["repaired"], reconciled |-> FALSE,
                     alone |-> me.hold = "sole"]
    <3>1. /\ Write("final", m) /\ job' = [job EXCEPT ![j] = [Idle EXCEPT !.at = "validate"]]
          /\ me.at = "manifest" /\ Script[j] = "repair"
      BY <1>7, <2>2 DEF RepairManifest, At, Runs
    <3>2. me.hold = "sole" => file["repaired"] = Content(me.held)
      BY <3>1, OutputFiles DEF IngestInv, SoleOK
    <3>3. Read("run").requested = Requested
      BY <1>0, <2>2 DEF IngestInv, FileOK, ContentOK, Readable, Read
    <3>4. CountsItsData(m)
      <4>1. me.hold = "sole" =>
              file["repaired"].is = "whole" /\ file["repaired"].content = me.held
        BY <3>2 DEF Content
      <4> QED  BY <3>3, <4>1 DEF CountsItsData, FinalFields
    <3> HIDE DEF m
    <3>5. Writes("final", Content(m)) /\ FileOK("final", Content(m))
      BY <1>0, <3>1, <3>4, WriteWrites DEF Write, FileOK, ContentOK, Content, DataFiles
    <3>6. Moves(j) /\ JobOK(Script[j], job'[j]) /\ job'[j].hold = "none"
      <4>1. job'[j] = [Idle EXCEPT !.at = "validate"]
        BY <3>1 DEF IngestInv, Shaped
      <4>2. "validate" \in StepsOf(Script[j]) \ HoldSteps
        BY <3>1 DEF StepsOf, HoldSteps, OpenSteps
      <4>3. JobOK(Script[j], job'[j]) /\ job'[j].hold = "none"
        BY <1>1, <4>1, <4>2, EmptyHanded
      <4> QED  BY <3>1, <4>3 DEF IngestInv, Shaped, Moves, JobOK
    <3> QED  BY <1>0, <3>5, <3>6, PlainStep
  <2> QED  BY <2>1, <2>2
<1> QED  BY <1>3, <1>4, <1>5, <1>6, <1>7 DEF RepairNext

LEMMA ValidateKeeps ==
  ASSUME IngestInv, NEW j \in Job, ValidateNext(j)
  PROVE  IngestInv'
<1> DEFINE me == job[j]
<1>0. /\ "coverage" \in Files \ DataFiles /\ "run" \in Files
      /\ Target(j) \in Files /\ Target(j) \in {"raw", "repaired"}
  BY DEF Files, Target, DataFiles
<1>1. JobOK(Script[j], me) /\ Script[j] \in Scripts
  BY IngestAssumption DEF IngestInv
<1>2. CASE Validate(j)
  <2>1. me.at = "validate" /\ me.hold = "none" /\ DOMAIN me = JobFields
    BY <1>1, <1>2 DEF Validate, At, JobOK, HoldSteps, OpenSteps
  <2>2. Moves(j) /\ JobOK(Script[j], job'[j]) /\ job'[j].hold = "none"
    <3>1. CASE Readable(Target(j))
      <4>1. /\ Moves(j)
            /\ job'[j].at = "report" /\ job'[j].held = Read(Target(j)) /\ job'[j].hold = me.hold
        BY <1>2, <3>1, GotoWithMoves DEF Validate
      <4>2. IsTable(Read(Target(j))) /\ OfRequested(Read(Target(j)))
        BY <1>0, <3>1 DEF IngestInv, FileOK, ContentOK, Readable, Read, DataFiles
      <4>3. DOMAIN job'[j] = JobFields /\ job'[j].hold = "none"
        BY <2>1, <4>1 DEF Moves
      <4>4. "report" \in StepsOf(Script[j])
        BY <1>1, <2>1 DEF JobOK, StepsOf, Scripts
      <4>5. JobOK(Script[j], job'[j])
        BY <4>1, <4>2, <4>3, <4>4 DEF JobOK, Hold, HoldSteps, OpenSteps
      <4> QED  BY <4>1, <4>3, <4>5
    <3>2. CASE ~ Readable(Target(j))
      BY <1>2, <3>2, EndsMoves DEF Validate
    <3> QED  BY <3>1, <3>2
  <2> QED  BY <1>2, <2>2, UnwrittenStep DEF Validate
<1>3. CASE Report(j)
  <2>1. Moves(j) /\ JobOK(Script[j], job'[j]) /\ job'[j].hold = "none"
    BY <1>3, EndsMoves DEF Report
  <2>2. CASE ~ (Readable("run") /\ Readable(Target(j)))
    BY <1>3, <2>1, <2>2, UnwrittenStep DEF Report
  <2>3. CASE Readable("run") /\ Readable(Target(j))
    <3> DEFINE c == [complete |-> Validation(me.held, Read("run")),
                     observed |-> Cardinality(ObservedDays(me.held)),
                     rows |-> Cardinality(me.held),
                     hash |-> file[Target(j)],
                     checked |-> me.held]
    <3>1. Write("coverage", c)
      BY <1>3, <2>3 DEF Report
    <3>2. Read("run").requested = Requested
      BY <1>0, <2>3 DEF IngestInv, FileOK, ContentOK, Readable, Read
    <3>3. IsTable(me.held) /\ OfRequested(me.held)
      <4>1. Script[j] \in {"ingest", "gate", "repair"}
        BY <1>1, <1>3 DEF Report, At, JobOK, StepsOf, Scripts
      <4> QED  BY <1>1, <4>1 DEF JobOK
    <3>4. c.complete => IsCovered(c.checked)
      <4>1. c.complete = Validation(me.held, Read("run")) /\ c.checked = me.held
        OBVIOUS
      <4>2. Validation(me.held, Read("run")) => IsUnbroken(me.held, Requested)
        BY <3>2, <3>3, ValidationIsUnbroken
      <4>3. IsUnbroken(me.held, Requested) => IsCovered(me.held)
        BY <3>3, UnbrokenIsGrid DEF IsCovered
      <4> QED  BY <4>1, <4>2, <4>3
    <3> HIDE DEF c
    <3>5. Writes("coverage", Content(c)) /\ FileOK("coverage", Content(c))
      BY <1>0, <3>1, <3>4, WriteWrites DEF Write, FileOK, ContentOK, Content, DataFiles
    <3> QED  BY <1>0, <2>1, <3>5, PlainStep
  <2> QED  BY <2>2, <2>3
<1> QED  BY <1>2, <1>3 DEF ValidateNext

LEMMA FinalizeKeeps ==
  ASSUME IngestInv, NEW j \in Job, FinalizeNext(j)
  PROVE  IngestInv'
<1> DEFINE me == job[j]
<1>0. "final" \in Files \ DataFiles
  BY DEF Files, DataFiles
<1>1. JobOK(Script[j], me) /\ Script[j] \in Scripts
  BY IngestAssumption DEF IngestInv
<1>2. CASE Reconcile(j)
  <2>1. CASE Ends(j)
    BY <1>2, <2>1, EndsMoves, UnwrittenStep DEF Reconcile
  <2>2. CASE /\ Readable("final")
             /\ MayReconcile(Read("final"), Read("coverage"), file["repaired"])
             /\ GotoWith(j, "replace", Read("final"))
    <3>1. CountsItsData(Read("final"))
      BY <1>0, <2>2 DEF IngestInv, FileOK, ContentOK, Readable, Read
    <3>2. Read("final").rows = Requested * DayRows
      BY <2>2, <3>1 DEF MayReconcile, CountsItsData
    <3>3. /\ Moves(j)
          /\ job'[j].at = "replace" /\ job'[j].held = Read("final") /\ job'[j].hold = me.hold
      BY <2>2, GotoWithMoves
    <3>4. Script[j] = "finalize" /\ me.hold = "none"
      BY <1>1, <1>2 DEF Reconcile, At, JobOK, StepsOf, Scripts, HoldSteps, OpenSteps
    <3>5. DOMAIN job'[j] = JobFields /\ job'[j].hold = "none"
      BY <3>3, <3>4 DEF Moves
    <3>6. JobOK(Script[j], job'[j])
      BY <3>1, <3>2, <3>3, <3>4, <3>5 DEF JobOK, StepsOf, Hold, HoldSteps, OpenSteps
    <3> QED  BY <1>2, <3>3, <3>5, <3>6, UnwrittenStep DEF Reconcile
  <2> QED  BY <1>2, <2>1, <2>2 DEF Reconcile
<1>3. CASE ReplaceManifest(j)
  <2> DEFINE m == [me.held EXCEPT !.reconciled = TRUE]
  <2>1. Write("final", m) /\ CountsItsData(me.held) /\ me.held.rows = Requested * DayRows
    BY <1>1, <1>3 DEF ReplaceManifest, At, JobOK
  <2>2. CountsItsData(m)
    <3>1. /\ DOMAIN m = FinalFields /\ m.requested = me.held.requested
          /\ m.rows = me.held.rows /\ m.hash = me.held.hash /\ m.alone = me.held.alone
      BY <2>1 DEF CountsItsData, FinalFields
    <3> QED  BY <2>1, <3>1 DEF CountsItsData
  <2> HIDE DEF m
  <2>3. Writes("final", Content(m)) /\ FileOK("final", Content(m))
    BY <1>0, <2>1, <2>2, WriteWrites DEF Write, FileOK, ContentOK, Content, DataFiles
  <2> QED  BY <1>0, <1>3, <2>3, EndsMoves, PlainStep DEF ReplaceManifest
<1> QED  BY <1>2, <1>3 DEF FinalizeNext

LEMMA HistoryKeeps ==
  ASSUME IngestInv, NEW j \in Job, HistoryNext(j)
  PROVE  IngestInv'
<1> DEFINE me == job[j]
<1>1. JobOK(Script[j], me) /\ Script[j] \in Scripts
  BY IngestAssumption DEF IngestInv
<1>2. CASE HistoryOpen(j)
  <2>1. PICK records \in Monthly :
          LET rows == ParseMonthly(records, 1, HistoryDays)
          IN Opens(j, [me EXCEPT !.at = "write", !.held = rows,
                                 !.full = IF Unpriced(records, rows) THEN 0 ELSE 1])
    BY <1>2, Zenon DEF HistoryOpen
  <2> DEFINE rows == ParseMonthly(records, 1, HistoryDays)
             v == [me EXCEPT !.at = "write", !.held = rows,
                             !.full = IF Unpriced(records, rows) THEN 0 ELSE 1]
  <2>2. Opens(j, v) /\ me.at = "open" /\ Script[j] = "history" /\ DOMAIN me = JobFields
    BY <1>1, <1>2, <2>1 DEF HistoryOpen, At, Runs, JobOK
  <2>3. IsTable(rows) /\ (Incomplete(rows, 1 .. HistoryDays) = {} => IsGrid(rows, 1, HistoryDays))
    <3>1. IsArchive(records) /\ 1 \in Int /\ HistoryDays \in Int
      BY IngestAssumption, IngestConstants
    <3> QED  BY <3>1, ParseMonthlyTable, HistoryIsGrid
  <2> HIDE DEF rows
  <2>4. DOMAIN v = JobFields /\ v.at = "write" /\ v.held = rows
    BY <2>2 DEF JobFields
  <2> HIDE DEF v
  <2>5. ASSUME NEW h \in {"sole", "shared"} PROVE JobOK(Script[j], [v EXCEPT !.hold = h])
    <3> DEFINE w == [v EXCEPT !.hold = h]
    <3>1. DOMAIN w = JobFields /\ w.hold = h /\ w.at = "write" /\ w.held = rows
      BY <2>4 DEF JobFields
    <3> HIDE DEF w
    <3>2. JobOK(Script[j], w)
      BY <2>2, <2>3, <3>1 DEF JobOK, StepsOf, Hold, HoldSteps, OpenSteps
    <3> QED  BY <3>2 DEF w
  <2>6. v.at \in OpenSteps
    BY <2>4 DEF OpenSteps
  <2> QED  BY <2>2, <2>5, <2>6, OpensKeeps
<1>3. CASE HistoryClose(j)
  BY <1>3, ClosesKeeps DEF HistoryClose, At
<1>4. CASE HistoryManifest(j)
  <2>1. CASE file["history"] = Absent
    BY <1>4, <2>1, EndsMoves, UnwrittenStep DEF HistoryManifest
  <2>2. CASE file["history"] # Absent
    <3> DEFINE c == [complete |-> Incomplete(me.held, 1 .. HistoryDays) = {} /\ me.full = 1,
                     requested |-> HistoryDays, failed |-> 0,
                     rows |-> Cardinality(me.held), hash |-> file["history"],
                     alone |-> me.hold = "sole"]
    <3>1. Write("historyRun", c) /\ Ends(j) /\ me.at = "manifest" /\ Script[j] = "history"
      BY <1>4, <2>2 DEF HistoryManifest, At, Runs
    <3>2. me.hold = "sole" => file["history"] = Content(me.held)
      BY <3>1, OutputFiles DEF IngestInv, SoleOK
    <3>3. c.complete /\ c.alone =>
            c.hash.is = "whole" /\ IsGrid(c.hash.content, 1, HistoryDays)
      <4>1. c.complete => Incomplete(me.held, 1 .. HistoryDays) = {}
        OBVIOUS
      <4>2. c.alone => me.hold = "sole"
        OBVIOUS
      <4>3. me.hold = "sole" => c.hash = Content(me.held)
        BY <3>2
      <4>4. Incomplete(me.held, 1 .. HistoryDays) = {} => IsGrid(me.held, 1, HistoryDays)
        BY <1>1, <3>1 DEF JobOK
      <4> HIDE DEF c
      <4> QED  BY <4>1, <4>2, <4>3, <4>4 DEF Content
    <3> HIDE DEF c
    <3>4. "historyRun" \in Files \ DataFiles /\ FileOK("historyRun", Content(c))
      BY <3>3 DEF FileOK, ContentOK, Content, Files, DataFiles
    <3>5. Writes("historyRun", Content(c))
      BY <3>1, <3>4, WriteWrites DEF Write
    <3> QED  BY <3>1, <3>4, <3>5, EndsMoves, PlainStep
  <2> QED  BY <2>1, <2>2
<1> QED  BY <1>2, <1>3, <1>4 DEF HistoryNext

LEMMA MergeKeeps ==
  ASSUME IngestInv, NEW j \in Job, MergeNext(j)
  PROVE  IngestInv'
<1> DEFINE me == job[j]
<1>0. {"history", "repaired", "mergedRun"} \subseteq Files /\ "mergedRun" \notin DataFiles
  BY DEF Files, DataFiles
<1>1. JobOK(Script[j], me) /\ Script[j] \in Scripts
  BY IngestAssumption DEF IngestInv
<1>2. CASE MergeOpen(j)
  <2>1. CASE Ends(j) /\ UNCHANGED file
    BY <2>1, EndsMoves, UnwrittenStep
  <2>2. CASE /\ Readable("history") /\ Readable("repaired")
             /\ Unique(Read("history"), Read("repaired"))
             /\ Opens(j, [me EXCEPT !.at = "write",
                                    !.held = Read("history") \cup Read("repaired")])
    <3> DEFINE all == Read("history") \cup Read("repaired")
               v == [me EXCEPT !.at = "write", !.held = all]
    <3>1. IsTable(Read("history")) /\ IsTable(Read("repaired"))
      BY <1>0, <2>2 DEF IngestInv, FileOK, ContentOK, DataFiles, Readable, Read
    <3>2. IsTable(all) /\ KeysDiffer(all)
      BY <2>2, <3>1, UnionOfTables, UniqueTells
    <3>3. Opens(j, v) /\ me.at = "open" /\ Script[j] = "merge" /\ DOMAIN me = JobFields
      BY <1>1, <1>2, <2>2 DEF MergeOpen, At, Runs, JobOK
    <3> HIDE DEF all
    <3>4. DOMAIN v = JobFields /\ v.at = "write" /\ v.held = all
      BY <3>3 DEF JobFields
    <3> HIDE DEF v
    <3>5. ASSUME NEW h \in {"sole", "shared"} PROVE JobOK(Script[j], [v EXCEPT !.hold = h])
      <4> DEFINE w == [v EXCEPT !.hold = h]
      <4>1. DOMAIN w = JobFields /\ w.hold = h /\ w.at = "write" /\ w.held = all
        BY <3>4 DEF JobFields
      <4> HIDE DEF w
      <4>2. JobOK(Script[j], w)
        BY <3>2, <3>3, <4>1 DEF JobOK, StepsOf, Hold, HoldSteps, OpenSteps
      <4> QED  BY <4>2 DEF w
    <3>6. v.at \in OpenSteps
      BY <3>4 DEF OpenSteps
    <3> QED  BY <3>3, <3>5, <3>6, OpensKeeps
  <2> QED  BY <1>2, <2>1, <2>2 DEF MergeOpen
<1>3. CASE MergeClose(j)
  BY <1>3, ClosesKeeps DEF MergeClose, At
<1>4. CASE MergeManifest(j)
  <2> DEFINE c == [complete |-> /\ Incomplete(me.held, 1 .. Days) = {}
                                /\ ObservedDays(me.held) \subseteq 1 .. Days,
                   rows |-> Cardinality(me.held), hash |-> file["merged"],
                   alone |-> me.hold = "sole"]
  <2>1. Write("mergedRun", c) /\ Ends(j) /\ me.at = "manifest" /\ Script[j] = "merge"
    BY <1>4 DEF MergeManifest, At, Runs
  <2>2. me.hold = "sole" => file["merged"] = Content(me.held)
    BY <2>1, OutputFiles DEF IngestInv, SoleOK
  <2>3. c.complete /\ c.alone =>
          c.hash.is = "whole" /\ Cardinality(RowKeys(c.hash.content)) = Days * DayRows
    <3>1. IsTable(me.held) /\ KeysDiffer(me.held)
      BY <1>1, <2>1 DEF JobOK
    <3>2. c.complete => /\ Incomplete(me.held, 1 .. Days) = {}
                        /\ ObservedDays(me.held) \subseteq 1 .. Days
      OBVIOUS
    <3>3. c.alone => c.hash.is = "whole" /\ c.hash.content = me.held
      <4>1. c.alone => me.hold = "sole"
        OBVIOUS
      <4>2. me.hold = "sole" => c.hash = Content(me.held)
        BY <2>2
      <4> HIDE DEF c
      <4> QED  BY <4>1, <4>2 DEF Content
    <3> HIDE DEF c
    <3> QED  BY <3>1, <3>2, <3>3, MergeIsUnique
  <2> HIDE DEF c
  <2>4. Writes("mergedRun", Content(c)) /\ FileOK("mergedRun", Content(c))
    BY <1>0, <2>1, <2>3, WriteWrites DEF Write, FileOK, ContentOK, Content, DataFiles
  <2> QED  BY <1>0, <2>1, <2>4, EndsMoves, PlainStep
<1> QED  BY <1>2, <1>3, <1>4 DEF MergeNext

LEMMA IngestStep == IngestInv /\ [IngestNext]_ingestVars => IngestInv'
<1> SUFFICES ASSUME IngestInv, [IngestNext]_ingestVars PROVE IngestInv'
  OBVIOUS
<1>1. ASSUME NEW j \in Job,
             \/ Submit(j) \/ Kill(j) \/ DailyNext(j) \/ RepairNext(j) \/ ValidateNext(j)
             \/ FinalizeNext(j) \/ HistoryNext(j) \/ MergeNext(j)
      PROVE  IngestInv'
  BY <1>1, SubmitKeeps, KillKeeps, DailyKeeps, RepairKeeps, ValidateKeeps, FinalizeKeeps,
     HistoryKeeps, MergeKeeps
<1>2. CASE UNCHANGED ingestVars
  BY <1>2, Zenon DEF ingestVars, IngestInv, Shaped, SoleOK, Writers, Output
<1> QED  BY <1>1, <1>2 DEF IngestNext

THEOREM IngestInvariant == IngestSpec => []IngestInv
BY IngestStarts, IngestStep, PTL DEF IngestSpec

\* Files and jobs keep their shape, and a job that waits, or ended, holds nothing.
THEOREM IngestTypeCorrect == IngestSpec => []IngestTypeOK
<1>1. IngestInv => IngestTypeOK
  BY DEF IngestInv, Shaped, FileOK, JobOK, IngestTypeOK
<1> QED  BY <1>1, IngestInvariant, PTL

\* Whatever the archives held, and however any number of jobs of each script were
\* submitted, overlapped and were killed: the data the validator calls complete is in
\* each region an unbroken run of as many intervals as the requested days have, and the
\* grid of these very days if the archives were of the days they are named for; the
\* history its ingest calls complete, and wrote alone, is the grid of its days.
THEOREM CompleteDataIsTheGrid == IngestSpec => []CompleteIsGrid
<1>1. IngestInv => CompleteIsGrid
  <2>1. "coverage" \in Files /\ "historyRun" \in Files
    BY DEF Files
  <2> QED  BY <2>1 DEF IngestInv, FileOK, ContentOK, IsCovered, CompleteIsGrid, Readable, Read
<1> QED  BY <1>1, IngestInvariant, PTL

\* However many repairs overlap: the final manifest is reconciled only with the requested
\* number of rows, and that of a repair which had its file alone until its manifest counts
\* the rows of the data it has the hash of.
THEOREM ManifestsCountTheirData == IngestSpec => []ManifestCountsItsData
<1>1. IngestInv => ManifestCountsItsData
  <2>1. "final" \in Files
    BY DEF Files
  <2> QED  BY <2>1 DEF IngestInv, FileOK, ContentOK, CountsItsData, ManifestCountsItsData,
                       Readable, Read
<1> QED  BY <1>1, IngestInvariant, PTL

\* A merge called complete, which wrote its file alone, has each interval of each region
\* exactly once.
THEOREM MergesAreUnique == IngestSpec => []MergedIsUnique
<1>1. IngestInv => MergedIsUnique
  <2>1. "mergedRun" \in Files
    BY DEF Files
  <2> QED  BY <2>1 DEF IngestInv, FileOK, ContentOK, MergedIsUnique, Readable, Read
<1> QED  BY <1>1, IngestInvariant, PTL
=============================================================================
