---------------------------- MODULE MCMarketIngest ----------------------------
(* An instance of MarketIngest for TLC: what the archives may hold.           *)
EXTENDS MarketIngest

CONSTANTS r1, r2, i1, i2, g1, p1, p2, f1, h1, h2, m1, m2

Record(t, r) == [t |-> t, region |-> r, intervention |-> FALSE, priced |-> TRUE]
DayFrom(d, offset) ==
  {Record(t, r) : t \in (d - 1) * Slots + 1 + offset .. d * Slots + offset, r \in Region}

\* Whole; dated by the start of the interval.
Whole(d) == DayFrom(d, 0)
Early(d) == DayFrom(d, -1)
\* One region has an interval too few and the other one too many.
Uneven(d) == (Whole(d) \ {Record(d * Slots, r1)}) \cup {Record(d * Slots + 1, r2)}
\* A region has a price missing, and an interval has a row of an intervention.
Unpaid(d) == {[x EXCEPT !.priced = x # Record(d * Slots, r1)] : x \in Whole(d)}
Intervened(d) == Whole(d) \cup {[Record(d * Slots, r1) EXCEPT !.intervention = TRUE]}

MCArchive ==
  [d \in 1 .. Days |-> IF d = RepairDay THEN {Unpaid(d), Early(d)}
                      ELSE {Whole(d), Early(d), Uneven(d), Intervened(d)}]
AllOf(A(_)) == UNION {A(d) : d \in 1 .. Days}
MCMonthly ==
  {AllOf(Whole) \cup AllOf(Early) \cup DayFrom(Days, 1), AllOf(Unpaid),
   Uneven(1) \cup UNION {Whole(d) : d \in 2 .. Days}}

\* Two jobs of each script that writes a file over several steps, one of the others.
MCJob == {i1, i2, g1, p1, p2, f1, h1, h2, m1, m2}
MCScript ==
  [j \in MCJob |-> CASE j \in {i1, i2} -> "ingest"  [] j = g1 -> "gate"
                     [] j \in {p1, p2} -> "repair"  [] j = f1 -> "finalize"
                     [] j \in {h1, h2} -> "history" [] OTHER -> "merge"]

\* The jobs that a behaviour submits are those of one of these sets; of two jobs of one
\* script, which differ in their name only, the first is submitted first.
Mixes ==
  {{i1, g1, p1, p2, f1},   \* the daily data: a gate, and repairs that overlap
   {i1, i2, g1},           \* ingests that overlap
   {i1, p1, h1, m1, m2},   \* the two periods, and merges that overlap
   {h1, h2}}               \* histories that overlap
Submitted == {j \in Job : ~ At(j, "waiting")}
SubmittedAsMixed ==
  /\ \E mix \in Mixes : Submitted \subseteq mix
  /\ \A pair \in {<<i1, i2>>, <<p1, p2>>, <<h1, h2>>, <<m1, m2>>} :
       pair[2] \in Submitted => pair[1] \in Submitted
==============================================================================
