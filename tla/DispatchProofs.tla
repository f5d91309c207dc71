---------------------------- MODULE DispatchProofs ----------------------------
(***************************************************************************)
(* For every battery, price, window and tail length: the schedules of both *)
(* planners are physical, they end in the terminal state up to what the    *)
(* threshold rule may trade in the last interval, and none settles for     *)
(* more than the oracle.  For any number of days and folds: no selection,  *)
(* interval or schedule of the walk forward rests on a day to come.        *)
(***************************************************************************)
EXTENDS BatteryDispatch, WalkForward, DataLemmas

LEMMA ShareBounds ==
  ASSUME NEW e \in Nat, NEW left \in Nat \ {0}
  PROVE  Share(e, left) \in 0 .. e /\ Share(e, 1) = e
BY DEF Share

\* One step of the threshold rule, whatever the price and however long the tail.
LEMMA StepIsPhysical ==
  ASSUME NEW b, BatterySpec(b), NEW now \in b.minimum .. b.maximum, NEW price \in Int,
         NEW left \in Nat \ {0}, NEW low \in Int, NEW high \in Int, low < high
  PROVE  LET stored == Stored(b, now, price, left, low)
             taken == Taken(b, now, price, left, high)
         IN /\ stored \in Nat /\ taken \in Nat
            /\ stored = 0 \/ taken = 0
            /\ now + stored - taken \in b.minimum .. b.maximum
<1> DEFINE in == RuleCharge(b, now, price, low)
           out == RuleDischarge(b, now, price, high)
<1>0. /\ b.minimum \in Nat /\ b.maximum \in Nat /\ now \in Int
      /\ b.terminal \in b.minimum .. b.maximum
      /\ Rated(b).charge \in Nat /\ Rated(b).discharge \in Nat
  BY DEF BatterySpec, Rated
<1>1. in \in 0 .. (b.maximum - now)
  BY <1>0 DEF RuleCharge, Smaller
<1>2. out \in 0 .. (now - b.minimum)
  BY <1>0 DEF RuleDischarge, Smaller
<1>3. in = 0 \/ out = 0
  BY DEF RuleCharge, RuleDischarge
<1> HIDE DEF in, out
<1>4. CASE Below(b, now, left)
  <2>1. Share(b.terminal - now, left) \in 0 .. (b.terminal - now)
    BY <1>0, <1>4, ShareBounds DEF Below
  <2>2. ~Above(b, now, left)
    BY <1>0, <1>4 DEF Above, Below
  <2>3. /\ Stored(b, now, price, left, low) = Larger(in, Share(b.terminal - now, left))
        /\ Taken(b, now, price, left, high) = 0
    BY <1>4, <2>2 DEF Stored, Taken, in
  <2> QED  BY <1>0, <1>1, <2>1, <2>3 DEF Larger
<1>5. CASE Above(b, now, left)
  <2>1. Share(now - b.terminal, left) \in 0 .. (now - b.terminal)
    BY <1>0, <1>5, ShareBounds DEF Above
  <2>2. ~Below(b, now, left)
    BY <1>0, <1>5 DEF Above, Below
  <2>3. /\ Stored(b, now, price, left, low) = 0
        /\ Taken(b, now, price, left, high) = Larger(out, Share(now - b.terminal, left))
    BY <1>5, <2>2 DEF Stored, Taken, out
  <2> QED  BY <1>0, <1>2, <2>1, <2>3 DEF Larger
<1>6. CASE ~Below(b, now, left) /\ ~Above(b, now, left)
  <2>1. Stored(b, now, price, left, low) = in /\ Taken(b, now, price, left, high) = out
    BY <1>6 DEF Stored, Taken, in, out
  <2> QED  BY <1>0, <1>1, <1>2, <1>3, <2>1
<1> QED  BY <1>4, <1>5, <1>6

\* The last step: the share that is still to move is all of it.
LEMMA LastStepEnds ==
  ASSUME NEW b, BatterySpec(b), NEW now \in b.minimum .. b.maximum, NEW price \in Int,
         NEW low \in Int, NEW high \in Int, low < high
  PROVE  LET error == now + Stored(b, now, price, 1, low) - Taken(b, now, price, 1, high) - b.terminal
         IN /\ error \in -Rated(b).discharge .. Rated(b).charge
            /\ low < price /\ price < high => error = 0
<1> DEFINE in == RuleCharge(b, now, price, low)
           out == RuleDischarge(b, now, price, high)
<1>0. /\ b.minimum \in Nat /\ b.maximum \in Nat /\ now \in Int
      /\ b.terminal \in Nat
      /\ Rated(b).charge \in Nat /\ Rated(b).discharge \in Nat
  BY DEF BatterySpec, Rated
<1>1. in \in 0 .. Rated(b).charge /\ (low < price => in = 0)
  BY <1>0 DEF RuleCharge, Smaller
<1>2. out \in 0 .. Rated(b).discharge /\ (price < high => out = 0)
  BY <1>0 DEF RuleDischarge, Smaller
<1>3. in = 0 \/ out = 0
  BY DEF RuleCharge, RuleDischarge
<1>4. Forced(1)
  BY DispatchAssumption DEF Forced
<1> HIDE DEF in, out
<1>5. CASE now < b.terminal
  <2>1. Share(b.terminal - now, 1) = b.terminal - now
    BY <1>0, <1>5, ShareBounds
  <2>2. /\ Stored(b, now, price, 1, low) = Larger(in, b.terminal - now)
        /\ Taken(b, now, price, 1, high) = 0
    BY <1>0, <1>4, <1>5, <2>1 DEF Stored, Taken, Below, Above, in
  <2> QED  BY <1>0, <1>1, <1>5, <2>2 DEF Larger
<1>6. CASE now > b.terminal
  <2>1. Share(now - b.terminal, 1) = now - b.terminal
    BY <1>0, <1>6, ShareBounds
  <2>2. /\ Stored(b, now, price, 1, low) = 0
        /\ Taken(b, now, price, 1, high) = Larger(out, now - b.terminal)
    BY <1>0, <1>4, <1>6, <2>1 DEF Stored, Taken, Below, Above, out
  <2> QED  BY <1>0, <1>2, <1>6, <2>2 DEF Larger
<1>7. CASE now = b.terminal
  <2>1. Stored(b, now, price, 1, low) = in /\ Taken(b, now, price, 1, high) = out
    BY <1>0, <1>7 DEF Stored, Taken, Below, Above, in, out
  <2> QED  BY <1>0, <1>1, <1>2, <1>3, <1>7, <2>1
<1> QED  BY <1>0, <1>5, <1>6, <1>7

\* A schedule of the MILP meets its bounds and its terminal state.
LEMMA FeasibleIsPhysical ==
  ASSUME NEW b \in Battery, NEW n \in 1 .. MaxIntervals, NEW s \in Feasible[b][n]
  PROVE  /\ s \in Seq(Int) /\ Len(s) = n + 1
         /\ \A i \in DOMAIN s : s[i] \in b.minimum .. b.maximum
         /\ s[n + 1] = b.terminal
         /\ \A t \in 1 .. n : s[t + 1] - s[t] \in -Rated(b).discharge .. Rated(b).charge
<1> DEFINE Path(mid) ==
      [t \in 1 .. n + 1 |-> IF t = 1 THEN b.initial ELSE IF t = n + 1 THEN b.terminal ELSE mid[t]]
<1>0. /\ b.minimum \in Nat /\ b.maximum \in Nat
      /\ b.initial \in b.minimum .. b.maximum /\ b.terminal \in b.minimum .. b.maximum
      /\ MaxIntervals \in Nat /\ n \in Nat /\ n # 0
  BY DispatchAssumption DEF BatterySpec
<1>1. PICK mid \in [2 .. n -> b.minimum .. b.maximum] : s = Path(mid)
  BY DEF Feasible
<1>2. \A t \in 1 .. n + 1 : s[t] \in b.minimum .. b.maximum
  BY <1>0, <1>1
<1>3. s \in [1 .. n + 1 -> Int]
  BY <1>0, <1>1, <1>2
<1>4. s \in Seq(Int) /\ Len(s) = n + 1
  BY <1>0, <1>3
<1>5. s[n + 1] = b.terminal
  BY <1>0, <1>1
<1>6. \A t \in 1 .. n : s[t + 1] - s[t] \in -Rated(b).discharge .. Rated(b).charge
  BY DEF Feasible
<1> QED  BY <1>2, <1>3, <1>4, <1>5, <1>6

LEMMA DifferencesExclude ==
  ASSUME NEW n \in Nat, NEW s \in Seq(Int), Len(s) = n + 1
  PROVE  /\ Rises(s) \in Seq(Int) /\ Falls(s) \in Seq(Int)
         /\ Len(Rises(s)) = n /\ Len(Falls(s)) = n
         /\ \A t \in 1 .. n : /\ Rises(s)[t] >= 0 /\ Falls(s)[t] >= 0
                              /\ Rises(s)[t] = 0 \/ Falls(s)[t] = 0
                              /\ Rises(s)[t] = Larger(0, s[t + 1] - s[t])
                              /\ Falls(s)[t] = Larger(0, s[t] - s[t + 1])
<1> DEFINE rise(t) == Larger(0, s[t + 1] - s[t])
           fall(t) == Larger(0, s[t] - s[t + 1])
<1>1. ASSUME NEW t \in 1 .. n
      PROVE  /\ rise(t) \in Nat /\ fall(t) \in Nat
             /\ rise(t) = 0 \/ fall(t) = 0
  <2>1. s[t] \in Int /\ s[t + 1] \in Int
    OBVIOUS
  <2> QED  BY <2>1 DEF Larger
<1>2. Len(s) - 1 = n
  OBVIOUS
<1>3. Rises(s) = [t \in 1 .. n |-> rise(t)] /\ Falls(s) = [t \in 1 .. n |-> fall(t)]
  BY <1>2 DEF Rises, Falls
<1> HIDE DEF rise, fall
<1>4. Rises(s) \in [1 .. n -> Int] /\ Falls(s) \in [1 .. n -> Int]
  BY <1>1, <1>3
<1>5. \A t \in 1 .. n : /\ Rises(s)[t] >= 0 /\ Falls(s)[t] >= 0
                        /\ Rises(s)[t] = 0 \/ Falls(s)[t] = 0
                        /\ Rises(s)[t] = rise(t) /\ Falls(s)[t] = fall(t)
  BY <1>1, <1>3
<1>6. /\ Rises(s) \in Seq(Int) /\ Len(Rises(s)) = n
      /\ Falls(s) \in Seq(Int) /\ Len(Falls(s)) = n
  BY <1>4
<1> QED  BY <1>5, <1>6 DEF rise, fall

\* An even share of what is within reach is within rated power, and so is what remains.
LEMMA ShareWithinReach ==
  ASSUME NEW e \in Nat, NEW left \in Nat \ {0}, NEW r \in Nat \ {0}, e <= left * r
  PROVE  Share(e, left) <= r /\ e - Share(e, left) <= (left - 1) * r
<1> DEFINE q == e \div left
           m == e % left
<1>1. q \in Nat /\ m \in 0 .. left - 1 /\ e = left * q + m
  OBVIOUS
<1> HIDE DEF q, m
<1>2. q <= r
  <2>1. SUFFICES ASSUME q >= r + 1 PROVE FALSE
    BY <1>1
  <2>2. left * q >= left * (r + 1)
    BY <1>1, <2>1
  <2> QED  BY <1>1, <2>2
<1>3. e - q <= (left - 1) * r
  <2>1. CASE q = r
    BY <1>1, <2>1
  <2>2. CASE q <= r - 1
    <3>1. (left - 1) * (q + 1) <= (left - 1) * r
      BY <1>1, <2>2
    <3>2. left * q + m - q <= (left - 1) * (q + 1)
      BY <1>1
    <3> QED  BY <1>1, <3>1, <3>2
  <2> QED  BY <1>1, <1>2, <2>1, <2>2
<1> QED  BY <1>2, <1>3 DEF Share, q

\* The distance to the terminal state, and what k intervals at power r can move.
Reaches(now, b, k) == /\ b.terminal - now <= k * b.rate
                      /\ now - b.terminal <= k * b.rate

\* A battery without losses that can reach the terminal state stays able to, and is never
\* forced beyond rated power.
LEMMA TailStepWithinReach ==
  ASSUME NEW b, BatterySpec(b), b.k = 1, NEW now \in b.minimum .. b.maximum, NEW price \in Int,
         NEW left \in 1 .. TailIntervals, NEW low \in Int, NEW high \in Int, low < high,
         Reaches(now, b, left)
  PROVE  LET stored == Stored(b, now, price, left, low)
             taken == Taken(b, now, price, left, high)
         IN /\ stored <= b.rate /\ taken <= b.rate
            /\ left > 1 => Reaches(now + stored - taken, b, left - 1)
<1> DEFINE in == RuleCharge(b, now, price, low)
           out == RuleDischarge(b, now, price, high)
           reach == (left - 1) * b.rate
<1>0. /\ b.minimum \in Nat /\ b.maximum \in Nat /\ now \in Int
      /\ b.terminal \in Nat /\ b.rate \in Nat \ {0}
      /\ Rated(b).charge = b.rate /\ Rated(b).discharge = b.rate
      /\ TailIntervals \in Nat /\ left \in Nat \ {0} /\ Forced(left)
  BY DispatchAssumption DEF BatterySpec, Rated, Forced
<1>1. in \in 0 .. b.rate
  BY <1>0 DEF RuleCharge, Smaller
<1>2. out \in 0 .. b.rate
  BY <1>0 DEF RuleDischarge, Smaller
<1>3. in = 0 \/ out = 0
  BY DEF RuleCharge, RuleDischarge
<1>4. reach \in Nat /\ (left > 1 => b.rate <= reach)
  BY <1>0
<1> HIDE DEF in, out, reach
<1>5. CASE now < b.terminal
  <2> DEFINE share == Share(b.terminal - now, left)
  <2>1. /\ share \in 0 .. (b.terminal - now) /\ share <= b.rate
        /\ b.terminal - now - share <= reach
    <3> DEFINE e == b.terminal - now
    <3>1. e \in Nat /\ e <= left * b.rate
      BY <1>0, <1>5 DEF Reaches
    <3> HIDE DEF e
    <3>2. Share(e, left) \in 0 .. e
      BY <1>0, <3>1, ShareBounds
    <3>3. Share(e, left) <= b.rate /\ e - Share(e, left) <= (left - 1) * b.rate
      BY <1>0, <3>1, ShareWithinReach
    <3> QED  BY <3>2, <3>3 DEF e, reach
  <2>2. /\ Stored(b, now, price, left, low) = Larger(in, share)
        /\ Taken(b, now, price, left, high) = 0
    <3>1. Below(b, now, left) /\ ~Above(b, now, left)
      BY <1>0, <1>5 DEF Below, Above
    <3> QED  BY <3>1 DEF Stored, Taken, in
  <2> HIDE DEF share
  <2>3. /\ Larger(in, share) <= b.rate
        /\ left > 1 => /\ b.terminal - (now + Larger(in, share)) <= reach
                       /\ (now + Larger(in, share)) - b.terminal <= reach
    BY <1>0, <1>1, <1>4, <1>5, <2>1 DEF Larger
  <2>4. Larger(in, share) \in Int
    BY <1>1, <2>1 DEF Larger
  <2>5. now + Larger(in, share) - 0 = now + Larger(in, share)
    BY <1>0, <2>4
  <2> QED  BY <1>0, <2>2, <2>3, <2>5 DEF Reaches, reach
<1>6. CASE now > b.terminal
  <2> DEFINE share == Share(now - b.terminal, left)
  <2>1. /\ share \in 0 .. (now - b.terminal) /\ share <= b.rate
        /\ now - b.terminal - share <= reach
    <3> DEFINE e == now - b.terminal
    <3>1. e \in Nat /\ e <= left * b.rate
      BY <1>0, <1>6 DEF Reaches
    <3> HIDE DEF e
    <3>2. Share(e, left) \in 0 .. e
      BY <1>0, <3>1, ShareBounds
    <3>3. Share(e, left) <= b.rate /\ e - Share(e, left) <= (left - 1) * b.rate
      BY <1>0, <3>1, ShareWithinReach
    <3> QED  BY <3>2, <3>3 DEF e, reach
  <2>2. /\ Stored(b, now, price, left, low) = 0
        /\ Taken(b, now, price, left, high) = Larger(out, share)
    <3>1. Above(b, now, left) /\ ~Below(b, now, left)
      BY <1>0, <1>6 DEF Below, Above
    <3> QED  BY <3>1 DEF Stored, Taken, out
  <2> HIDE DEF share
  <2>3. /\ Larger(out, share) <= b.rate
        /\ left > 1 => /\ b.terminal - (now - Larger(out, share)) <= reach
                       /\ (now - Larger(out, share)) - b.terminal <= reach
    BY <1>0, <1>2, <1>4, <1>6, <2>1 DEF Larger
  <2>4. Larger(out, share) \in Int
    BY <1>2, <2>1 DEF Larger
  <2>5. now + 0 - Larger(out, share) = now - Larger(out, share)
    BY <1>0, <2>4
  <2> QED  BY <1>0, <2>2, <2>3, <2>5 DEF Reaches, reach
<1>7. CASE now = b.terminal
  <2>1. Stored(b, now, price, left, low) = in /\ Taken(b, now, price, left, high) = out
    BY <1>0, <1>7 DEF Stored, Taken, Below, Above, in, out
  <2> QED  BY <1>0, <1>1, <1>2, <1>3, <1>4, <1>7, <2>1 DEF Reaches, reach
<1> QED  BY <1>0, <1>5, <1>6, <1>7

-----------------------------------------------------------------------------
(* The inductive invariant *)

ScheduleTypeOK ==
  /\ request \in Request
  /\ snapshot \in Snapshots /\ actual \in Actuals
  /\ history \in [rows : HistoryRows, quartiles : Quartiles]
  /\ at \in {"request", "signal", "threshold", "planned", "answered", "failed"}
  /\ signal \in Seq(Price)
  /\ soc \in Seq(Int) /\ charge \in Seq(Int) /\ discharge \in Seq(Int)
  /\ Len(charge) = Len(discharge)

Planned == {"planned", "answered"}

\* What each stage has made of the schedule.
Progress ==
  /\ at \in {"request", "signal"} => soc = <<>> /\ charge = <<>> /\ discharge = <<>>
  /\ at = "threshold" => /\ request.objective = "threshold_rule" /\ ValidThresholds
                         /\ Len(charge) <= Len(signal)
  /\ at \in Planned => Len(charge) = Len(signal)
  /\ at \in Planned \cup {"threshold"} => Len(soc) = Len(charge) + 1

\* Once every interval is planned, the error is bounded, though the loop has not noticed.
EndBounded ==
  at \in Planned \cup {"threshold"} /\ Len(charge) = Len(signal) =>
    LET b == request.battery
        error == soc[Len(soc)] - b.terminal
    IN /\ error \in -Rated(b).discharge .. Rated(b).charge
       /\ request.objective # "threshold_rule" \/ LastPriceBetween => error = 0

\* In the tail, what is left to move is within reach of a well sized battery.
TailReach ==
  LET left == Len(signal) - Len(charge) IN
  at = "threshold" /\ WellSized(request.battery, Len(signal)) /\ left \in 1 .. TailIntervals =>
    Reaches(soc[Len(soc)], request.battery, left)

DispatchInv ==
  ScheduleTypeOK /\ Progress /\ ScheduleIsPhysical /\ EndBounded /\ TailReach /\ RatingRespected

LEMMA DispatchInit == Init => DispatchInv
BY DispatchAssumption
   DEF Init, DispatchInv, ScheduleTypeOK, Progress, ScheduleIsPhysical, EndBounded, TailReach,
       RatingRespected, Planned

\* Every step but those of the planners keeps the schedule.
LEMMA KeepsSchedule ==
  ASSUME DispatchInv, UNCHANGED <<inputs, signal, schedule>>, at' \in {"planned", "answered", "failed"},
         at' \in Planned => at \in Planned \/ (at = "threshold" /\ Len(charge) = Len(signal))
  PROVE  DispatchInv'
<1> USE DEF inputs, schedule
<1>1. ScheduleTypeOK'
  BY DEF DispatchInv, ScheduleTypeOK
<1>2. Progress'
  BY DEF DispatchInv, Progress, Planned
<1>3. ScheduleIsPhysical' /\ RatingRespected'
  BY DEF DispatchInv, ScheduleIsPhysical, RatingRespected
<1>4. EndBounded'
  BY DEF DispatchInv, EndBounded, LastPriceBetween, Planned
<1>5. TailReach'
  BY DEF TailReach
<1> QED  BY <1>1, <1>2, <1>3, <1>4, <1>5 DEF DispatchInv

LEMMA TakesSignal ==
  ASSUME DispatchInv, at = "request", NEW prices \in Seq(Price), TakeSignal(prices)
  PROVE  DispatchInv'
<1> USE DEF TakeSignal, inputs, schedule
<1>1. soc = <<>> /\ charge = <<>> /\ discharge = <<>>
  BY DEF DispatchInv, Progress
<1>2. ScheduleTypeOK'
  BY DEF DispatchInv, ScheduleTypeOK
<1>3. Progress' /\ ScheduleIsPhysical' /\ RatingRespected' /\ EndBounded' /\ TailReach'
  BY <1>1 DEF Progress, ScheduleIsPhysical, RatingRespected, EndBounded, TailReach, Planned
<1> QED  BY <1>2, <1>3 DEF DispatchInv

LEMMA OptimisePreserves ==
  ASSUME DispatchInv, Optimise
  PROVE  DispatchInv'
<1> DEFINE b == request.battery
           n == Len(signal)
<1>1. PICK s \in Optimal(b, signal, request.cost) :
        soc' = s /\ charge' = Rises(s) /\ discharge' = Falls(s)
  BY DEF Optimise
<1>2. /\ b \in Battery /\ n \in 1 .. MaxIntervals /\ BatterySpec(b)
      /\ b.minimum \in Nat /\ b.maximum \in Nat
      /\ Rated(b).charge \in Nat /\ Rated(b).discharge \in Nat
  BY DispatchAssumption DEF DispatchInv, ScheduleTypeOK, Request, Optimise, Solvable, BatterySpec, Rated
<1>3. s \in Feasible[b][n]
  BY <1>1 DEF Optimal
<1> HIDE DEF n, b
<1>40. n \in Nat /\ n # 0
  BY <1>2, DispatchAssumption
<1>4. /\ s \in Seq(Int) /\ Len(s) = n + 1
      /\ \A i \in DOMAIN s : s[i] \in b.minimum .. b.maximum
      /\ s[n + 1] = b.terminal
      /\ \A t \in 1 .. n : s[t + 1] - s[t] \in -Rated(b).discharge .. Rated(b).charge
  BY <1>2, <1>3, FeasibleIsPhysical
<1>5. /\ Rises(s) \in Seq(Int) /\ Falls(s) \in Seq(Int)
      /\ Len(Rises(s)) = n /\ Len(Falls(s)) = n
      /\ \A t \in 1 .. n : /\ Rises(s)[t] >= 0 /\ Falls(s)[t] >= 0
                           /\ Rises(s)[t] = 0 \/ Falls(s)[t] = 0
                           /\ Rises(s)[t] = Larger(0, s[t + 1] - s[t])
                           /\ Falls(s)[t] = Larger(0, s[t] - s[t + 1])
  BY <1>4, <1>40, DifferencesExclude
<1>6. /\ UNCHANGED <<inputs, signal>> /\ at' = "planned"
      /\ request.objective # "threshold_rule"
  BY DEF Optimise
<1>7. ScheduleTypeOK'
  BY <1>1, <1>4, <1>5, <1>6 DEF DispatchInv, ScheduleTypeOK, inputs
<1>8. Progress'
  BY <1>1, <1>4, <1>40, <1>5, <1>6 DEF Progress, Planned, n
<1>9. ScheduleIsPhysical'
  BY <1>1, <1>4, <1>5, <1>6 DEF ScheduleIsPhysical, b, inputs
<1>10. EndBounded'
  <2>1. soc'[Len(soc')] = b.terminal /\ b.terminal \in Int
    BY <1>1, <1>2, <1>4 DEF BatterySpec
  <2> QED  BY <1>2, <1>6, <2>1 DEF EndBounded, b, inputs
<1>11. TailReach'
  BY <1>6 DEF TailReach
<1>12. RatingRespected'
  <2>1. ASSUME NEW t \in 1 .. n
        PROVE  Rises(s)[t] <= Rated(b).charge /\ Falls(s)[t] <= Rated(b).discharge
    <3>1. s[t] \in Int /\ s[t + 1] \in Int
      BY <1>4, <1>40
    <3>2. /\ s[t + 1] - s[t] <= Rated(b).charge /\ s[t] - s[t + 1] <= Rated(b).discharge
      BY <1>2, <1>4, <3>1
    <3>3. /\ Rises(s)[t] = Larger(0, s[t + 1] - s[t]) /\ Falls(s)[t] = Larger(0, s[t] - s[t + 1])
      BY <1>5
    <3> QED  BY <1>2, <3>1, <3>2, <3>3 DEF Larger
  <2> QED  BY <1>1, <1>5, <1>6, <2>1 DEF RatingRespected, b, inputs
<1> QED  BY <1>7, <1>8, <1>9, <1>10, <1>11, <1>12 DEF DispatchInv

LEMMA StartThresholdPreserves ==
  ASSUME DispatchInv, StartThreshold
  PROVE  DispatchInv'
<1> DEFINE b == request.battery
<1>1. /\ b \in Battery /\ BatterySpec(b)
      /\ b.initial \in b.minimum .. b.maximum /\ b.terminal \in b.minimum .. b.maximum
      /\ {b.initial, b.minimum, b.maximum, b.terminal} \subseteq Nat /\ b.rate \in Nat \ {0}
  BY DispatchAssumption DEF DispatchInv, ScheduleTypeOK, Request, BatterySpec
<1>2. /\ charge = <<>> /\ discharge = <<>> /\ signal \in Seq(Price) /\ signal # <<>>
      /\ UNCHANGED <<inputs, signal, charge, discharge>>
      /\ soc' = <<b.initial>> /\ at' = "threshold"
      /\ request.objective = "threshold_rule" /\ ValidThresholds
  BY DEF DispatchInv, Progress, ScheduleTypeOK, StartThreshold, ValidThresholds
<1>3. Len(signal) \in Nat /\ Len(signal) # 0
  BY <1>2
<1> HIDE DEF b
<1>4. ScheduleTypeOK'
  BY <1>1, <1>2 DEF DispatchInv, ScheduleTypeOK, inputs
<1>5. Progress'
  BY <1>2, <1>3 DEF Progress, Planned, ValidThresholds, inputs
<1>6. ScheduleIsPhysical' /\ RatingRespected'
  BY <1>1, <1>2 DEF ScheduleIsPhysical, RatingRespected, b, inputs
<1>7. EndBounded'
  BY <1>2, <1>3 DEF EndBounded
<1>8. TailReach'
  <2> SUFFICES ASSUME WellSized(b, Len(signal)), Len(signal) \in 1 .. TailIntervals
               PROVE  Reaches(b.initial, b, Len(signal))
    BY <1>2 DEF TailReach, b, inputs
  <2>1. b.maximum - b.minimum <= Len(signal) * b.rate
    BY <1>3, DispatchAssumption DEF WellSized, Smaller
  <2>2. Len(signal) * b.rate \in Int
    BY <1>1, <1>3
  <2> QED  BY <1>1, <2>1, <2>2 DEF Reaches
<1> QED  BY <1>4, <1>5, <1>6, <1>7, <1>8 DEF DispatchInv

LEMMA Appended ==
  ASSUME NEW s \in Seq(Int), NEW x \in Int
  PROVE  /\ Append(s, x) \in Seq(Int) /\ Len(Append(s, x)) = Len(s) + 1
         /\ \A i \in 1 .. Len(s) : Append(s, x)[i] = s[i]
         /\ Append(s, x)[Len(s) + 1] = x
OBVIOUS

LEMMA ThresholdStepPreserves ==
  ASSUME DispatchInv, ThresholdStep
  PROVE  DispatchInv'
<1> DEFINE b == request.battery
           n == Len(charge)
           now == soc[Len(soc)]
           price == signal[Len(soc)]
           left == Len(signal) - n
           low == history.quartiles[1]
           high == history.quartiles[2]
           stored == Stored(b, now, price, left, low)
           taken == Taken(b, now, price, left, high)
<1>1. /\ b \in Battery /\ BatterySpec(b)
      /\ {b.minimum, b.maximum, b.terminal} \subseteq Nat /\ b.rate \in Nat \ {0}
      /\ Rated(b).charge \in Nat /\ Rated(b).discharge \in Nat
  BY DispatchAssumption DEF DispatchInv, ScheduleTypeOK, Request, BatterySpec, Rated
<1>2. /\ low \in Int /\ high \in Int /\ low < high
      /\ request.objective = "threshold_rule"
  BY DispatchAssumption DEF DispatchInv, ScheduleTypeOK, Progress, ThresholdStep, ValidThresholds
<1>3. /\ n \in Nat /\ Len(soc) = n + 1 /\ Len(discharge) = n /\ Len(signal) \in Nat
      /\ n < Len(signal)
      /\ soc \in Seq(Int) /\ charge \in Seq(Int) /\ discharge \in Seq(Int) /\ signal \in Seq(Price)
  BY DEF DispatchInv, ScheduleTypeOK, Progress, ThresholdStep
<1>4. /\ left \in Nat \ {0} /\ price \in Int
      /\ now \in b.minimum .. b.maximum
      /\ TailIntervals \in Nat \ {0}
  <2>1. left \in Nat \ {0}
    BY <1>3
  <2>2. Len(soc) \in 1 .. Len(signal) /\ Len(soc) \in DOMAIN soc
    BY <1>3
  <2>3. price \in Price
    BY <1>3, <2>2
  <2>4. now \in b.minimum .. b.maximum
    BY <2>2 DEF DispatchInv, ScheduleIsPhysical
  <2> QED  BY <2>1, <2>3, <2>4, DispatchAssumption
<1>5. /\ at = "threshold" /\ UNCHANGED <<inputs, at, signal>>
      /\ charge' = Append(charge, stored)
      /\ discharge' = Append(discharge, taken)
      /\ soc' = Append(soc, now + stored - taken)
  BY DEF ThresholdStep
<1> HIDE DEF b, n, now, price, left, low, high
<1>6. /\ stored \in Nat /\ taken \in Nat
      /\ stored = 0 \/ taken = 0
      /\ now + stored - taken \in b.minimum .. b.maximum
  BY <1>1, <1>2, <1>4, StepIsPhysical
<1>7. left = 1 => LET error == now + stored - taken - b.terminal
                  IN /\ error \in -Rated(b).discharge .. Rated(b).charge
                     /\ low < price /\ price < high => error = 0
  BY <1>1, <1>2, <1>4, LastStepEnds
<1>8. b.k = 1 /\ left <= TailIntervals /\ Reaches(now, b, left) =>
        /\ stored <= b.rate /\ taken <= b.rate
        /\ left > 1 => Reaches(now + stored - taken, b, left - 1)
  <2> SUFFICES ASSUME b.k = 1, left <= TailIntervals, Reaches(now, b, left)
               PROVE  /\ stored <= b.rate /\ taken <= b.rate
                      /\ left > 1 => Reaches(now + stored - taken, b, left - 1)
    OBVIOUS
  <2>1. left \in 1 .. TailIntervals
    BY <1>4
  <2> QED  BY <1>1, <1>2, <1>4, <2>1, TailStepWithinReach
<1>17. left > TailIntervals => stored <= Rated(b).charge /\ taken <= Rated(b).discharge
  <2> SUFFICES ASSUME left > TailIntervals
               PROVE  stored <= Rated(b).charge /\ taken <= Rated(b).discharge
    OBVIOUS
  <2>1. ~Forced(left)
    BY <1>4, DispatchAssumption DEF Forced
  <2>2. stored = RuleCharge(b, now, price, low) /\ taken = RuleDischarge(b, now, price, high)
    BY <2>1 DEF Stored, Taken, Below, Above
  <2> QED  BY <1>1, <1>2, <1>4, <2>2 DEF RuleCharge, RuleDischarge, Smaller
<1> HIDE DEF stored, taken
<1>9. /\ charge' \in Seq(Int) /\ Len(charge') = n + 1
      /\ discharge' \in Seq(Int) /\ Len(discharge') = n + 1
      /\ soc' \in Seq(Int) /\ Len(soc') = n + 2
      /\ \A t \in 1 .. n : charge'[t] = charge[t] /\ discharge'[t] = discharge[t]
      /\ charge'[n + 1] = stored /\ discharge'[n + 1] = taken
      /\ \A i \in 1 .. n + 1 : soc'[i] = soc[i]
      /\ soc'[n + 2] = now + stored - taken
  BY <1>1, <1>3, <1>4, <1>5, <1>6, Appended DEF n
<1>10. ScheduleTypeOK'
  BY <1>5, <1>9 DEF DispatchInv, ScheduleTypeOK, inputs
<1>11. Progress'
  BY <1>3, <1>5, <1>9 DEF DispatchInv, Progress, ValidThresholds, inputs, Planned
<1>12. ScheduleIsPhysical'
  <2>1. ASSUME NEW i \in 1 .. n + 2 PROVE soc'[i] \in b.minimum .. b.maximum
    <3>1. i = n + 2 \/ i \in 1 .. n + 1
      BY <1>3
    <3>2. ASSUME i \in 1 .. n + 1 PROVE soc[i] \in b.minimum .. b.maximum
      <4>1. i \in DOMAIN soc
        BY <1>3, <3>2
      <4> QED  BY <4>1 DEF DispatchInv, ScheduleIsPhysical, b
    <3>3. CASE i \in 1 .. n + 1
      BY <1>9, <3>2, <3>3
    <3>4. CASE i = n + 2
      BY <1>6, <1>9, <3>4
    <3> QED  BY <3>1, <3>3, <3>4
  <2>2. ASSUME NEW t \in 1 .. n + 1
        PROVE  charge'[t] >= 0 /\ discharge'[t] >= 0 /\ (charge'[t] = 0 \/ discharge'[t] = 0)
    <3>1. t = n + 1 \/ t \in 1 .. n
      BY <1>3
    <3>2. ASSUME t \in 1 .. n
          PROVE  charge[t] >= 0 /\ discharge[t] >= 0 /\ (charge[t] = 0 \/ discharge[t] = 0)
      <4>1. t \in DOMAIN charge
        BY <1>3, <3>2 DEF n
      <4> QED  BY <4>1 DEF DispatchInv, ScheduleIsPhysical
    <3>3. CASE t \in 1 .. n
      <4>1. charge'[t] = charge[t] /\ discharge'[t] = discharge[t]
        BY <1>9, <3>3
      <4> QED  BY <3>2, <3>3, <4>1
    <3>4. CASE t = n + 1
      <4>1. charge'[t] = stored /\ discharge'[t] = taken
        BY <1>9, <3>4
      <4> QED  BY <1>6, <4>1
    <3> QED  BY <3>1, <3>3, <3>4
  <2>3. DOMAIN soc' = 1 .. n + 2 /\ DOMAIN charge' = 1 .. n + 1 /\ request' = request
    BY <1>5, <1>9 DEF inputs
  <2> QED  BY <2>1, <2>2, <2>3 DEF ScheduleIsPhysical, b
<1>13. EndBounded'
  <2> DEFINE end == now + stored - taken
  <2>1. /\ request' = request /\ history' = history /\ signal' = signal
        /\ soc'[Len(soc')] = end /\ Len(charge') = n + 1
    BY <1>5, <1>9 DEF inputs
  <2>2. ASSUME n + 1 = Len(signal)
        PROVE  /\ end - b.terminal \in -Rated(b).discharge .. Rated(b).charge
               /\ LastPriceBetween => end - b.terminal = 0
    <3>1. left = 1 /\ price = signal[Len(signal)]
      BY <1>3, <2>2 DEF left, price
    <3>2. LastPriceBetween => low < price /\ price < high
      BY <3>1 DEF LastPriceBetween, low, high
    <3>3. /\ end - b.terminal \in -Rated(b).discharge .. Rated(b).charge
          /\ low < price /\ price < high => end - b.terminal = 0
      BY <1>1, <1>4, <1>6, <1>7, <3>1
    <3> QED  BY <3>2, <3>3
  <2> HIDE DEF end
  <2>3. LastPriceBetween' <=> LastPriceBetween
    BY <2>1 DEF LastPriceBetween
  <2>4. EndBounded' <=>
          (at' \in Planned \cup {"threshold"} /\ n + 1 = Len(signal) =>
             /\ end - b.terminal \in -Rated(b).discharge .. Rated(b).charge
             /\ request.objective # "threshold_rule" \/ LastPriceBetween => end - b.terminal = 0)
    BY <2>1, <2>3 DEF EndBounded, b, Planned
  <2> QED  BY <1>2, <2>2, <2>4
<1>14. WellSized(b, Len(signal)) /\ left <= TailIntervals => b.k = 1 /\ Reaches(now, b, left)
  BY <1>3, <1>4, <1>5 DEF DispatchInv, TailReach, WellSized, left, now, n, b
<1>15. TailReach'
  <2> SUFFICES ASSUME WellSized(b, Len(signal)), left - 1 \in 1 .. TailIntervals
               PROVE  Reaches(now + stored - taken, b, left - 1)
    <3>1. Len(signal)' - Len(charge)' = left - 1
      BY <1>3, <1>5, <1>9 DEF left
    <3> QED  BY <1>5, <1>9, <3>1 DEF TailReach, inputs, b
  <2>1. CASE left <= TailIntervals
    BY <1>4, <1>8, <1>14, <2>1
  <2>2. CASE left > TailIntervals
    <3> DEFINE next == now + stored - taken
    <3>1. left - 1 = TailIntervals /\ TailIntervals \in Nat
      BY <1>4, <2>2, DispatchAssumption
    <3>2. b.maximum - b.minimum <= (left - 1) * b.rate
      BY <1>3, <1>4, <3>1 DEF WellSized, Smaller, left
    <3>3. next \in b.minimum .. b.maximum /\ b.terminal \in b.minimum .. b.maximum
      BY <1>1, <1>6 DEF BatterySpec
    <3>4. (left - 1) * b.rate \in Int
      BY <1>1, <1>4
    <3> QED  BY <1>1, <3>2, <3>3, <3>4 DEF Reaches
  <2> QED  BY <1>4, <2>1, <2>2, DispatchAssumption
<1>16. RatingRespected'
  <2> SUFFICES ASSUME WellSized(b, Len(signal)), NEW t \in 1 .. n + 1
               PROVE  charge'[t] <= Rated(b).charge /\ discharge'[t] <= Rated(b).discharge
    <3>1. DOMAIN charge' = 1 .. n + 1 /\ request' = request /\ signal' = signal
      BY <1>5, <1>9 DEF inputs
    <3> QED  BY <1>2, <3>1 DEF RatingRespected, b
  <2>1. stored <= Rated(b).charge /\ taken <= Rated(b).discharge
    <3>1. b.k = 1 => Rated(b).charge = b.rate /\ Rated(b).discharge = b.rate
      BY <1>1 DEF Rated
    <3> QED  BY <1>4, <1>8, <1>17, <1>14, <3>1, DispatchAssumption
  <2>2. t = n + 1 \/ t \in 1 .. n
    BY <1>3
  <2>3. ASSUME t \in 1 .. n PROVE charge[t] <= Rated(b).charge /\ discharge[t] <= Rated(b).discharge
    <3>1. t \in DOMAIN charge
      BY <1>3, <2>3 DEF n
    <3> QED  BY <3>1 DEF DispatchInv, RatingRespected, b
  <2>4. CASE t \in 1 .. n
    <3>1. charge'[t] = charge[t] /\ discharge'[t] = discharge[t]
      BY <1>9, <2>4
    <3> QED  BY <2>3, <2>4, <3>1
  <2>5. CASE t = n + 1
    <3>1. charge'[t] = stored /\ discharge'[t] = taken
      BY <1>9, <2>5
    <3> QED  BY <2>1, <3>1
  <2> QED  BY <2>2, <2>4, <2>5
<1> QED  BY <1>10, <1>11, <1>12, <1>13, <1>15, <1>16 DEF DispatchInv

LEMMA DispatchNext == DispatchInv /\ [Next]_vars => DispatchInv'
<1> SUFFICES ASSUME DispatchInv, [Next]_vars PROVE DispatchInv'
  OBVIOUS
<1>0. /\ request.length \in Nat /\ snapshot \in Seq(Price) /\ actual \in Seq(Price)
  BY DispatchAssumption DEF DispatchInv, ScheduleTypeOK, Request
<1>1. CASE FromActuals
  BY <1>0, <1>1, TakesSignal DEF FromActuals
<1>2. CASE FromSnapshot
  <2>1. SubSeq(snapshot, 1, request.length) \in Seq(Price)
    BY <1>0, <1>2 DEF FromSnapshot, Matches
  <2> QED  BY <1>2, <2>1, TakesSignal DEF FromSnapshot
<1>3. CASE FromHistory
  <2>1. PICK prices \in [1 .. request.length -> Price] : at = "request" /\ TakeSignal(prices)
    BY <1>3 DEF FromHistory
  <2>2. prices \in Seq(Price)
    BY <1>0
  <2> QED  BY <2>1, <2>2, TakesSignal
<1>4. CASE NoSignal
  BY <1>4, KeepsSchedule DEF NoSignal, Planned
<1>5. CASE Optimise
  BY <1>5, OptimisePreserves
<1>6. CASE StartThreshold
  BY <1>6, StartThresholdPreserves
<1>7. CASE CannotPlan
  BY <1>7, KeepsSchedule DEF CannotPlan, Planned
<1>8. CASE ThresholdStep
  BY <1>8, ThresholdStepPreserves
<1>9. CASE EndThreshold
  BY <1>9, KeepsSchedule DEF EndThreshold, Planned
<1>10. CASE AnswerPlan
  BY <1>10, KeepsSchedule DEF AnswerPlan, Planned
<1>11. CASE Replay
  BY <1>11, KeepsSchedule DEF Replay, Planned
<1>12. CASE CannotReplay
  BY <1>12, KeepsSchedule DEF CannotReplay, Planned
<1>13. CASE UNCHANGED vars
  BY <1>13 DEF vars, inputs, schedule, DispatchInv, ScheduleTypeOK, Progress, ScheduleIsPhysical,
               EndBounded, TailReach, RatingRespected, LastPriceBetween, ValidThresholds
<1> QED
  BY <1>1, <1>2, <1>3, <1>4, <1>5, <1>6, <1>7, <1>8, <1>9, <1>10, <1>11, <1>12, <1>13
     DEF Next, Ended

LEMMA DispatchInvariant == Spec => []DispatchInv
BY DispatchInit, DispatchNext, PTL DEF Spec

\* For every battery, price and tail length, whatever the prices do: both planners keep the
\* state of charge within its bounds and never charge and discharge in one interval.
THEOREM SchedulesArePhysical == Spec => []ScheduleIsPhysical
<1>1. DispatchInv => ScheduleIsPhysical
  BY DEF DispatchInv
<1> QED  BY <1>1, DispatchInvariant, PTL

\* For every battery and window: a finished schedule misses the terminal state by no more
\* than one interval at rated power, and only under the rule when the last price trades.
THEOREM TerminalErrorIsBounded == Spec => []TerminalErrorBounded
<1>1. DispatchInv => TerminalErrorBounded
  BY DEF DispatchInv, Progress, EndBounded, TerminalErrorBounded, Planned
<1> QED  BY <1>1, DispatchInvariant, PTL

\* For every length of the forced tail and of the window: a lossless battery that can
\* cross its range within both is never forced beyond rated power, and the MILP never is.
THEOREM RatingIsRespected == Spec => []RatingRespected
<1>1. DispatchInv => RatingRespected
  BY DEF DispatchInv
<1> QED  BY <1>1, DispatchInvariant, PTL

-----------------------------------------------------------------------------
(* The settlement.                                                          *)

LEMMA NetIsInteger ==
  ASSUME NEW b \in Battery, NEW n \in Nat, NEW in \in Seq(Int), NEW out \in Seq(Int),
         NEW prices \in Seq(Price), NEW cost \in Nat,
         Len(in) = n, Len(out) = n, Len(prices) = n
  PROVE  NetMargin(in, out, prices, b, cost) \in Int
<1> DEFINE f == [t \in DOMAIN in |-> (out[t] - b.k * b.k * in[t]) * prices[t] - cost * out[t]]
<1>1. DOMAIN f = 1 .. n /\ IsFiniteSet(1 .. n)
  <2>1. 1 \in Int /\ n \in Int
    OBVIOUS
  <2> QED  BY <2>1, FS_Interval
<1>2. \A t \in 1 .. n : f[t] \in Int
  <2> SUFFICES ASSUME NEW t \in 1 .. n PROVE f[t] \in Int
    OBVIOUS
  <2>1. in[t] \in Int /\ out[t] \in Int /\ prices[t] \in Price
    OBVIOUS
  <2>5. BatterySpec(b) /\ Price \subseteq Int
    BY DispatchAssumption
  <2>6. b.k \in Nat
    BY <2>5 DEF BatterySpec
  <2> DEFINE i == in[t]
             o == out[t]
             p == prices[t]
             k == b.k
  <2>2. i \in Int /\ o \in Int /\ p \in Int /\ k \in Int /\ cost \in Int
    <3>1. p \in Int
      <4> HIDE DEF p
      <4> QED  BY <2>1, <2>5 DEF p
    <3>2. k \in Int
      BY <2>6
    <3> QED  BY <2>1, <3>1, <3>2
  <2>3. f[t] = (o - k * k * i) * p - cost * o
    BY <1>1
  <2> HIDE DEF i, o, p, k, f
  <2>4. (o - k * k * i) * p - cost * o \in Int
    BY <2>2
  <2> QED  BY <2>3, <2>4
<1> HIDE DEF f
<1>3. SumFunction(f) \in Int
  BY <1>1, <1>2, SumIsInteger
<1> QED  BY <1>3 DEF NetMargin, f

LEMMA NetOfIsInteger ==
  ASSUME NEW b \in Battery, NEW n \in 1 .. MaxIntervals, NEW s \in Feasible[b][n],
         NEW prices \in Seq(Price), NEW cost \in Nat, Len(prices) = n
  PROVE  NetOf(s, prices, b, cost) \in Int
<1>1. n \in Nat /\ s \in Seq(Int) /\ Len(s) = n + 1
  BY FeasibleIsPhysical, DispatchAssumption
<1>2. Rises(s) \in Seq(Int) /\ Falls(s) \in Seq(Int) /\ Len(Rises(s)) = n /\ Len(Falls(s)) = n
  BY <1>1, DifferencesExclude
<1> QED  BY <1>1, <1>2, NetIsInteger DEF NetOf

\* There is an optimum, and no feasible schedule earns more.
LEMMA OracleIsBest ==
  ASSUME NEW b \in Battery, NEW prices \in Seq(Price), NEW cost \in Nat,
         Solvable(b, Len(prices))
  PROVE  \E best \in Int :
           /\ Optimal(b, prices, cost) # {}
           /\ \A s \in Optimal(b, prices, cost) : NetOf(s, prices, b, cost) = best
           /\ \A s \in Feasible[b][Len(prices)] : NetOf(s, prices, b, cost) <= best
<1> DEFINE n == Len(prices)
           paths == Feasible[b][n]
           net == [s \in paths |-> NetOf(s, prices, b, cost)]
           K == {NetOf(s, prices, b, cost) : s \in paths}
<1>1. n \in 1 .. MaxIntervals /\ paths # {} /\ n \in Nat
  BY DispatchAssumption DEF Solvable
<1>2. \A s \in paths : net[s] \in Int /\ net[s] = NetOf(s, prices, b, cost)
  BY <1>1, NetOfIsInteger
<1>3. IsFiniteSet(paths)
  <2> DEFINE D == 1 .. n + 1
             R == b.minimum .. b.maximum
  <2>1. b.minimum \in Int /\ b.maximum \in Int /\ 1 \in Int /\ n + 1 \in Int
    BY <1>1, DispatchAssumption DEF BatterySpec
  <2>2. IsFiniteSet(D) /\ IsFiniteSet(R)
    BY <2>1, FS_Interval
  <2>3. paths \in SUBSET [D -> R]
    <3> SUFFICES ASSUME NEW s \in paths PROVE s \in [D -> R]
      OBVIOUS
    <3>1. s \in Seq(Int) /\ Len(s) = n + 1 /\ \A i \in DOMAIN s : s[i] \in R
      BY <1>1, FeasibleIsPhysical
    <3>2. DOMAIN s = D /\ s = [i \in D |-> s[i]]
      BY <3>1
    <3> HIDE DEF D, R
    <3> QED  BY <3>1, <3>2
  <2> HIDE DEF D, R
  <2> QED  BY <2>2, <2>3, FunctionsAreFinite, FS_Subset
<1>4. IsFiniteSet({net[s] : s \in paths})
  <2> HIDE DEF net, paths
  <2> QED  BY <1>3, ImageIsFinite
<1>5. K = {net[s] : s \in paths}
  OBVIOUS
<1>6. \E k \in K : \A j \in K : j <= k
  <2>1. K \subseteq Int /\ K # {} /\ IsFiniteSet(K)
    BY <1>1, <1>2, <1>4, <1>5
  <2> HIDE DEF K
  <2> QED  BY <2>1, LeastExists
<1>7. Max(K) \in K /\ \A j \in K : j <= Max(K)
  <2>1. \E k \in K : \A j \in K : k >= j
    <3>1. K \subseteq Int
      BY <1>2
    <3> HIDE DEF K
    <3> QED  BY <1>6, <3>1
  <2> HIDE DEF K
  <2>2. Max(K) \in K /\ \A j \in K : Max(K) >= j
    BY <2>1, Zenon DEF Max
  <2>3. K \subseteq Int
    BY <1>2 DEF K
  <2> QED  BY <2>2, <2>3
<1>8. Optimal(b, prices, cost) = {s \in paths : NetOf(s, prices, b, cost) = Max(K)}
  BY DEF Optimal
<1>9. PICK s \in paths : NetOf(s, prices, b, cost) = Max(K)
  BY <1>7
<1> DEFINE best == Max(K)
<1>10. best \in Int
  BY <1>2, <1>7
<1>11. \A t \in paths : NetOf(t, prices, b, cost) <= best
  BY <1>7
<1> HIDE DEF best, paths
<1>12. \A t \in Optimal(b, prices, cost) : NetOf(t, prices, b, cost) = best
  BY <1>8 DEF best
<1>13. s \in Optimal(b, prices, cost)
  BY <1>8, <1>9
<1> QED  BY <1>10, <1>11, <1>12, <1>13 DEF paths

\* The schedule moves the state of charge; perfect foresight plans on the realised prices;
\* the MILP's schedule is an optimum for its signal.
Accounted ==
  /\ \A t \in DOMAIN charge : charge[t] - discharge[t] = soc[t + 1] - soc[t]
  /\ at \notin {"request", "failed"} /\ request.objective = "perfect_foresight" => signal = actual
  /\ at \in Planned /\ request.objective # "threshold_rule" =>
       soc \in Optimal(request.battery, signal, request.cost)

RegretInv == DispatchInv /\ Accounted /\ RegretIsSound

LEMMA OneSided ==
  ASSUME NEW c \in Int, NEW d \in Int, NEW x \in Int, NEW y \in Int,
         c - d = y - x, c >= 0, d >= 0, c = 0 \/ d = 0
  PROVE  c = Larger(0, y - x) /\ d = Larger(0, x - y)
BY DEF Larger

\* The differences of the states of charge are the schedule.
LEMMA ScheduleIsItsPath ==
  ASSUME DispatchInv, Accounted, at \in Planned
  PROVE  charge = Rises(soc) /\ discharge = Falls(soc)
<1> DEFINE n == Len(charge)
<1>1. /\ n \in Nat /\ Len(discharge) = n /\ Len(soc) = n + 1 /\ soc \in Seq(Int)
      /\ charge \in Seq(Int) /\ discharge \in Seq(Int)
  BY DEF DispatchInv, ScheduleTypeOK, Progress
<1> HIDE DEF n
<1>2. /\ Rises(soc) \in Seq(Int) /\ Falls(soc) \in Seq(Int)
      /\ Len(Rises(soc)) = n /\ Len(Falls(soc)) = n
      /\ \A t \in 1 .. n : /\ Rises(soc)[t] = Larger(0, soc[t + 1] - soc[t])
                           /\ Falls(soc)[t] = Larger(0, soc[t] - soc[t + 1])
  BY <1>1, DifferencesExclude
<1>3. ASSUME NEW t \in 1 .. n
      PROVE  charge[t] = Rises(soc)[t] /\ discharge[t] = Falls(soc)[t]
  <2>1. t \in DOMAIN charge
    BY <1>1 DEF n
  <2>2. /\ charge[t] - discharge[t] = soc[t + 1] - soc[t]
        /\ charge[t] >= 0 /\ discharge[t] >= 0 /\ (charge[t] = 0 \/ discharge[t] = 0)
    BY <2>1 DEF Accounted, DispatchInv, ScheduleIsPhysical
  <2>3. charge[t] \in Int /\ discharge[t] \in Int /\ soc[t + 1] \in Int /\ soc[t] \in Int
    <3>1. DOMAIN charge = 1 .. n /\ DOMAIN discharge = 1 .. n /\ DOMAIN soc = 1 .. n + 1
      BY <1>1 DEF n
    <3>2. t \in 1 .. n + 1 /\ t + 1 \in 1 .. n + 1
      BY <1>1
    <3> QED  BY <1>1, <3>1, <3>2
  <2>4. /\ Rises(soc)[t] = Larger(0, soc[t + 1] - soc[t])
        /\ Falls(soc)[t] = Larger(0, soc[t] - soc[t + 1])
    BY <1>2
  <2> QED  BY <2>2, <2>3, <2>4, OneSided
<1>4. /\ charge = [t \in 1 .. n |-> charge[t]] /\ discharge = [t \in 1 .. n |-> discharge[t]]
      /\ Rises(soc) = [t \in 1 .. n |-> Rises(soc)[t]]
      /\ Falls(soc) = [t \in 1 .. n |-> Falls(soc)[t]]
  BY <1>1, <1>2 DEF n
<1> QED  BY <1>3, <1>4

LEMMA ReplayIsSound == RegretInv /\ Replay => RegretIsSound'
<1> SUFFICES ASSUME RegretInv, Replay PROVE RegretIsSound'
  OBVIOUS
<1> DEFINE b == request.battery
           cost == request.cost
           O == Optimal(b, actual, cost)
           oracle == CHOOSE s \in O : TRUE
           n == Len(actual)
<1>1. /\ at = "planned" /\ at' = "answered" /\ Solvable(b, n) /\ n = request.length
      /\ settled' = [margin |-> Realized, regret |-> NetOf(oracle, actual, b, cost) - Realized]
      /\ UNCHANGED <<request, snapshot, actual, history, signal, soc, charge, discharge>>
  BY DEF Replay, inputs, schedule
<1>2. b \in Battery /\ cost \in Nat /\ actual \in Seq(Price)
  BY DispatchAssumption DEF RegretInv, DispatchInv, ScheduleTypeOK, Request
<1>3. PICK best \in Int : /\ O # {}
                          /\ \A s \in O : NetOf(s, actual, b, cost) = best
                          /\ \A s \in Feasible[b][n] : NetOf(s, actual, b, cost) <= best
  BY <1>1, <1>2, OracleIsBest
<1>4. NetOf(oracle, actual, b, cost) = best
  <2>1. oracle \in O
    BY <1>3
  <2> QED  BY <1>3, <2>1
<1>5. Realized = NetOf(soc, actual, b, cost)
  BY <1>1, ScheduleIsItsPath DEF RegretInv, Realized, NetOf, Planned
<1>6. settled'.regret = best - NetOf(soc, actual, b, cost)
  BY <1>1, <1>4, <1>5
<1>7. soc \in Feasible[b][n] => settled'.regret >= 0
  <2>1. soc \in Feasible[b][n] => NetOf(soc, actual, b, cost) \in Int
    BY <1>1, <1>2, NetOfIsInteger DEF Solvable
  <2> QED  BY <1>3, <1>6, <2>1
<1>8. request.objective = "perfect_foresight" => settled'.regret = 0
  <2>1. request.objective = "perfect_foresight" => soc \in O
    BY <1>1 DEF RegretInv, Accounted, Planned
  <2> QED  BY <1>3, <1>6, <2>1
<1> QED  BY <1>1, <1>7, <1>8 DEF RegretIsSound

\* Steps that keep the schedule.
LEMMA KeepsAccount ==
  ASSUME Accounted, UNCHANGED <<inputs, signal, schedule>>,
         at' \notin {"request", "failed"} => at \notin {"request", "failed"},
         at' \in Planned => at \in Planned \/ request.objective = "threshold_rule"
  PROVE  Accounted'
BY DEF Accounted, inputs, schedule

LEMMA TakesAccount ==
  ASSUME RegretInv, at = "request", NEW prices, TakeSignal(prices),
         request.objective = "perfect_foresight" => prices = actual
  PROVE  Accounted' /\ RegretIsSound'
<1>1. charge = <<>>
  BY DEF RegretInv, DispatchInv, Progress
<1>2. /\ charge' = <<>> /\ at' = "signal" /\ signal' = prices
      /\ UNCHANGED inputs
  BY <1>1 DEF TakeSignal, schedule
<1> QED  BY <1>2 DEF Accounted, RegretIsSound, inputs, Planned

\* What the store gains is its rise less its fall.
LEMMA RiseLessFall ==
  \A x, y \in Int : Larger(0, y - x) - Larger(0, x - y) = y - x
BY DEF Larger

LEMMA OptimiseAccounts == RegretInv /\ Optimise => Accounted'
<1> SUFFICES ASSUME RegretInv, Optimise PROVE Accounted'
  OBVIOUS
<1> DEFINE b == request.battery
           n == Len(signal)
<1>1. PICK s \in Optimal(b, signal, request.cost) :
        soc' = s /\ charge' = Rises(s) /\ discharge' = Falls(s)
  BY DEF Optimise
<1>2. b \in Battery /\ n \in 1 .. MaxIntervals /\ n \in Nat
  BY DispatchAssumption DEF RegretInv, DispatchInv, ScheduleTypeOK, Request, Optimise, Solvable
<1>3. s \in Feasible[b][n]
  BY <1>1 DEF Optimal
<1>4. at = "signal" /\ at' = "planned" /\ UNCHANGED <<request, actual, signal>>
  BY DEF Optimise, inputs
<1> HIDE DEF b, n
<1>5. s \in Seq(Int) /\ Len(s) = n + 1
  BY <1>2, <1>3, FeasibleIsPhysical
<1>6. /\ Len(Rises(s)) = n /\ Rises(s) \in Seq(Int)
      /\ \A t \in 1 .. n : /\ Rises(s)[t] = Larger(0, s[t + 1] - s[t])
                           /\ Falls(s)[t] = Larger(0, s[t] - s[t + 1])
  BY <1>2, <1>5, DifferencesExclude
<1>7. ASSUME NEW t \in 1 .. n PROVE Rises(s)[t] - Falls(s)[t] = s[t + 1] - s[t]
  <2>1. s[t] \in Int /\ s[t + 1] \in Int
    BY <1>2, <1>5
  <2>2. Rises(s)[t] = Larger(0, s[t + 1] - s[t]) /\ Falls(s)[t] = Larger(0, s[t] - s[t + 1])
    BY <1>6
  <2> QED  BY <2>1, <2>2, RiseLessFall
<1>8. \A t \in DOMAIN charge' : charge'[t] - discharge'[t] = soc'[t + 1] - soc'[t]
  BY <1>1, <1>6, <1>7
<1> QED  BY <1>1, <1>4, <1>8 DEF RegretInv, Accounted, b

LEMMA ThresholdAccounts == RegretInv /\ ThresholdStep => Accounted'
<1> SUFFICES ASSUME RegretInv, ThresholdStep PROVE Accounted'
  OBVIOUS
<1> DEFINE n == Len(charge)
           now == soc[Len(soc)]
           stored == Stored(request.battery, now, signal[Len(soc)], Len(signal) - n, history.quartiles[1])
           taken == Taken(request.battery, now, signal[Len(soc)], Len(signal) - n, history.quartiles[2])
<1>1. /\ at = "threshold" /\ UNCHANGED <<request, actual, at, signal>>
      /\ charge' = Append(charge, stored)
      /\ discharge' = Append(discharge, taken)
      /\ soc' = Append(soc, now + stored - taken)
  BY DEF ThresholdStep, inputs
<1>2. /\ n \in Nat /\ Len(soc) = n + 1 /\ Len(discharge) = n
      /\ soc \in Seq(Int) /\ charge \in Seq(Int) /\ discharge \in Seq(Int)
  BY <1>1 DEF RegretInv, DispatchInv, ScheduleTypeOK, Progress
<1>3. soc' \in Seq(Int) /\ charge' \in Seq(Int) /\ discharge' \in Seq(Int)
      /\ Len(charge') = n + 1 /\ Len(discharge') = n + 1
  <2>1. DispatchInv'
    BY ThresholdStepPreserves DEF RegretInv
  <2>2. Len(charge') = n + 1 /\ Len(discharge') = n + 1
    BY <1>1, <1>2
  <2> QED  BY <2>1, <2>2 DEF DispatchInv, ScheduleTypeOK
<1> HIDE DEF stored, taken, now, n
<1>4. /\ \A t \in 1 .. n : charge'[t] = charge[t] /\ discharge'[t] = discharge[t]
      /\ charge'[n + 1] = stored /\ discharge'[n + 1] = taken
      /\ \A i \in 1 .. n + 1 : soc'[i] = soc[i]
      /\ soc'[n + 2] = now + stored - taken /\ soc[n + 1] = now
  BY <1>1, <1>2 DEF n, now
<1>5. stored \in Int /\ taken \in Int /\ now \in Int
  <2>1. n + 1 \in DOMAIN charge' /\ n + 1 \in DOMAIN discharge' /\ n + 1 \in DOMAIN soc
    BY <1>2, <1>3
  <2> QED  BY <1>2, <1>3, <1>4, <2>1
<1>6. ASSUME NEW t \in 1 .. n + 1 PROVE charge'[t] - discharge'[t] = soc'[t + 1] - soc'[t]
  <2>1. CASE t = n + 1
    BY <1>2, <1>4, <1>5, <2>1
  <2>2. CASE t \in 1 .. n
    <3>1. charge[t] - discharge[t] = soc[t + 1] - soc[t]
      <4>1. t \in DOMAIN charge
        BY <1>2, <2>2 DEF n
      <4> QED  BY <4>1 DEF RegretInv, Accounted
    <3>2. t \in 1 .. n + 1 /\ t + 1 \in 1 .. n + 1
      BY <1>2, <2>2
    <3> QED  BY <1>4, <2>2, <3>1, <3>2
  <2> QED  BY <1>2, <2>1, <2>2
<1>7. DOMAIN charge' = 1 .. n + 1
  BY <1>3
<1> QED  BY <1>1, <1>6, <1>7 DEF RegretInv, Accounted, Planned

LEMMA RegretNext == RegretInv /\ [Next]_vars => RegretInv'
<1> SUFFICES ASSUME RegretInv, [Next]_vars PROVE Accounted' /\ RegretIsSound'
  BY DispatchNext DEF RegretInv
<1> USE DEF Planned
<1>0. Accounted
  BY DEF RegretInv
<1>1. CASE FromActuals
  BY <1>1, TakesAccount DEF FromActuals
<1>2. CASE FromSnapshot
  BY <1>2, TakesAccount DEF FromSnapshot
<1>3. CASE FromHistory
  <2>1. PICK prices : TakeSignal(prices) /\ at = "request" /\ request.objective # "perfect_foresight"
    BY <1>3 DEF FromHistory
  <2> QED  BY <2>1, TakesAccount
<1>4. CASE NoSignal \/ CannotPlan \/ CannotReplay
  <2>1. UNCHANGED <<inputs, signal, schedule>> /\ at' = "failed"
    BY <1>4 DEF NoSignal, CannotPlan, CannotReplay
  <2> QED  BY <1>0, <2>1, KeepsAccount DEF RegretIsSound
<1>5. CASE Optimise
  BY <1>5, OptimiseAccounts DEF Optimise, RegretIsSound
<1>6. CASE StartThreshold
  <2>1. /\ at' = "threshold" /\ charge' = charge /\ UNCHANGED inputs /\ signal' = signal
        /\ request.objective = "threshold_rule" /\ charge = <<>>
    BY <1>6 DEF StartThreshold, RegretInv, DispatchInv, Progress
  <2> QED  BY <2>1 DEF Accounted, RegretIsSound, inputs
<1>7. CASE ThresholdStep
  BY <1>7, ThresholdAccounts DEF ThresholdStep, RegretIsSound
<1>8. CASE EndThreshold
  <2>1. UNCHANGED <<inputs, signal, schedule>> /\ at' = "planned" /\ request.objective = "threshold_rule"
        /\ at = "threshold"
    BY <1>8 DEF EndThreshold, RegretInv, DispatchInv, Progress
  <2> QED  BY <1>0, <2>1, KeepsAccount DEF RegretIsSound
<1>9. CASE AnswerPlan
  <2>1. UNCHANGED <<inputs, signal, schedule>> /\ at = "planned" /\ at' = "answered"
        /\ request.settlement = "plan"
    BY <1>9 DEF AnswerPlan
  <2>2. RegretIsSound'
    BY <2>1 DEF RegretIsSound, inputs
  <2> QED  BY <1>0, <2>1, <2>2, KeepsAccount
<1>10. CASE Replay
  <2>1. UNCHANGED <<inputs, signal, schedule>> /\ at = "planned" /\ at' = "answered"
    BY <1>10 DEF Replay
  <2> QED  BY <1>0, <1>10, <2>1, KeepsAccount, ReplayIsSound
<1>11. CASE UNCHANGED vars
  <2>1. UNCHANGED <<inputs, signal, schedule, at, settled>>
    BY <1>11 DEF vars
  <2>2. RegretIsSound'
    BY <2>1 DEF RegretInv, RegretIsSound, inputs, schedule
  <2> QED  BY <1>0, <2>1, <2>2, KeepsAccount
<1> QED
  BY <1>1, <1>2, <1>3, <1>4, <1>5, <1>6, <1>7, <1>8, <1>9, <1>10, <1>11 DEF Next, Ended

\* For every battery, price and window: in a replay the oracle is never beaten by a schedule
\* that meets its constraints, and perfect foresight has no regret.
THEOREM RegretsAreSound == Spec => []RegretIsSound
<1>1. Init => RegretInv
  BY DispatchInit DEF RegretInv, Accounted, RegretIsSound, Init, Planned
<1>2. RegretInv => RegretIsSound
  BY DEF RegretInv
<1> QED  BY <1>1, <1>2, RegretNext, PTL DEF Spec

\* The type of a settlement needs it: what is planned is as long as the window.
Windowed ==
  /\ at \notin {"request", "failed"} => Len(signal) = request.length
  /\ settled \in [margin : Int, regret : Int]

\* Settling adds up as many intervals as were planned.
LEMMA ReplayIsTyped == RegretInv /\ Windowed /\ Replay => Windowed'
<1> SUFFICES ASSUME RegretInv, Windowed, Replay PROVE Windowed'
  OBVIOUS
<1> DEFINE b == request.battery
           cost == request.cost
           oracle == CHOOSE s \in Optimal(b, actual, cost) : TRUE
           n == Len(actual)
<1>1. /\ at = "planned" /\ Solvable(b, n) /\ n = request.length
      /\ settled' = [margin |-> Realized, regret |-> NetOf(oracle, actual, b, cost) - Realized]
      /\ request' = request /\ signal' = signal
  BY DEF Replay, inputs, schedule
<1>2. b \in Battery /\ cost \in Nat /\ actual \in Seq(Price) /\ n \in Nat
  <2>1. b \in Battery /\ cost \in Nat /\ actual \in Seq(Price)
    BY DispatchAssumption DEF RegretInv, DispatchInv, ScheduleTypeOK, Request
  <2> QED  BY <2>1
<1>3. Realized \in Int
  <2>1. /\ charge \in Seq(Int) /\ discharge \in Seq(Int)
        /\ Len(charge) = n /\ Len(discharge) = n
    BY <1>1 DEF RegretInv, DispatchInv, ScheduleTypeOK, Progress, Planned, Windowed
  <2> HIDE DEF n, b, cost
  <2>2. NetMargin(charge, discharge, actual, b, cost) \in Int
    BY <1>2, <2>1, NetIsInteger DEF n
  <2> QED  BY <2>2 DEF Realized, b, cost
<1>4. NetOf(oracle, actual, b, cost) \in Int
  <2>1. PICK best \in Int : /\ Optimal(b, actual, cost) # {}
                            /\ \A s \in Optimal(b, actual, cost) : NetOf(s, actual, b, cost) = best
    BY <1>1, <1>2, OracleIsBest
  <2>2. oracle \in Optimal(b, actual, cost)
    BY <2>1
  <2> QED  BY <2>1, <2>2
<1> HIDE DEF oracle, b, cost, n
<1> QED  BY <1>1, <1>3, <1>4 DEF Windowed, oracle, b, cost, n

LEMMA WindowedNext == RegretInv /\ Windowed /\ [Next]_vars => Windowed'
<1> SUFFICES ASSUME RegretInv, Windowed, [Next]_vars PROVE Windowed'
  OBVIOUS
<1>1. CASE FromActuals
  BY <1>1 DEF FromActuals, TakeSignal, inputs, Windowed
<1>2. CASE FromSnapshot
  <2>1. /\ snapshot \in Seq(Price) /\ request.length \in Nat /\ Len(snapshot) >= request.length
        /\ signal' = SubSeq(snapshot, 1, request.length)
        /\ request' = request /\ settled' = settled
    BY <1>2, DispatchAssumption DEF FromSnapshot, Matches, TakeSignal, inputs, RegretInv, DispatchInv,
                                    ScheduleTypeOK, Request
  <2>2. Len(signal') = request.length
    BY <2>1
  <2> QED  BY <2>1, <2>2 DEF Windowed
<1>3. CASE FromHistory
  <2>1. PICK prices \in [1 .. request.length -> Price] : TakeSignal(prices)
    BY <1>3 DEF FromHistory
  <2>2. request.length \in Nat
    BY DispatchAssumption DEF RegretInv, DispatchInv, ScheduleTypeOK, Request
  <2>3. Len(prices) = request.length
    BY <2>1, <2>2
  <2> QED  BY <2>1, <2>3 DEF TakeSignal, inputs, Windowed
<1>4. CASE NoSignal \/ CannotPlan \/ CannotReplay
  BY <1>4 DEF NoSignal, CannotPlan, CannotReplay, inputs, Windowed
<1>5. CASE Optimise \/ StartThreshold \/ ThresholdStep \/ EndThreshold \/ AnswerPlan
  BY <1>5 DEF Optimise, StartThreshold, ThresholdStep, EndThreshold, AnswerPlan, inputs, Windowed
<1>6. CASE Replay
  BY <1>6, ReplayIsTyped
<1>7. CASE UNCHANGED vars
  BY <1>7 DEF vars, inputs, Windowed
<1> QED
  BY <1>1, <1>2, <1>3, <1>4, <1>5, <1>6, <1>7 DEF Next, Ended

\* For every battery, price and window: the arrays of a schedule stay aligned, and a
\* settlement adds up whole intervals of it.
THEOREM DispatchTypeCorrect == Spec => []TypeOK
<1>1. Init => RegretInv /\ Windowed
  BY DispatchInit DEF RegretInv, Accounted, RegretIsSound, Init, Planned, Windowed, NotSettled
<1>2. RegretInv /\ Windowed => TypeOK
  BY DEF RegretInv, DispatchInv, ScheduleTypeOK, Progress, Planned, Windowed, TypeOK
<1> QED  BY <1>1, <1>2, RegretNext, WindowedNext, PTL DEF Spec

-----------------------------------------------------------------------------
(* Out-of-time evaluation: rows and days.                                   *)

LEMMA WalkConstants ==
  /\ Slots \in Nat /\ Slots > 0 /\ Days \in Nat /\ Short \in Nat /\ Short > 0
  /\ {MinTrain, CalDays, TestDays, MinDays, Context} \subseteq Nat
  /\ DOMAIN SeasonOf \subseteq Int /\ IsFiniteSet(DOMAIN SeasonOf)
<1>1. /\ {Slots, Days, Short, MinTrain, CalDays, TestDays, MinDays, Context} \subseteq Nat
      /\ 1 < Short /\ Short <= Slots /\ DOMAIN SeasonOf \in SUBSET (1 .. Days)
  BY WalkAssumption
<1>2. 1 \in Int /\ Days \in Int /\ IsFiniteSet(1 .. Days)
  BY <1>1, FS_Interval
<1>3. IsFiniteSet(DOMAIN SeasonOf)
  BY <1>1, <1>2, FS_Subset
<1> QED  BY <1>1, <1>3

\* The rows are numbered by time.
Numbered ==
  /\ times \in Seq(1 .. Days * Slots)
  /\ \A i, j \in Rows : i < j => times[i] < times[j]

\* A day has the Slots intervals that end with its last one.
LEMMA DayBounds ==
  ASSUME NEW t \in Int, NEW d \in Int
  PROVE  /\ Day(t) \in Int
         /\ Day(t) = d <=> FirstOf(d) <= t /\ t <= d * Slots
         /\ FirstOf(d) \in Int /\ FirstOf(d + 1) = d * Slots + 1
<1> DEFINE q == (t - 1) \div Slots
<1>0. Slots \in Nat \ {0}
  BY WalkConstants
<1>1. q \in Int /\ Slots * q <= t - 1 /\ t - 1 < Slots * (q + 1)
  BY <1>0
<1> HIDE DEF q
<1>2. FirstOf(d) = (d - 1) * Slots + 1 /\ FirstOf(d) \in Int /\ FirstOf(d + 1) = d * Slots + 1
  BY <1>0 DEF FirstOf
<1>3. ASSUME q + 1 = d PROVE FirstOf(d) <= t /\ t <= d * Slots
  <2>1. q = d - 1
    BY <1>1, <1>3
  <2>2. Slots * q = (d - 1) * Slots /\ Slots * (q + 1) = d * Slots
    BY <1>0, <2>1
  <2>3. Slots * q \in Int /\ Slots * (q + 1) \in Int
    BY <1>0, <1>1
  <2> HIDE DEF q
  <2> QED  BY <1>1, <1>2, <2>2, <2>3
<1>4. ASSUME FirstOf(d) <= t, t <= d * Slots PROVE q + 1 = d
  <2>1. (d - 1) * Slots <= t - 1 /\ t - 1 < d * Slots
    BY <1>0, <1>2, <1>4
  <2>2. CASE q + 1 < d
    <3>1. Slots * (q + 1) <= Slots * (d - 1)
      BY <1>0, <1>1, <2>2
    <3>2. Slots * (d - 1) = (d - 1) * Slots
      BY <1>0
    <3> QED  BY <1>0, <1>1, <2>1, <3>1, <3>2
  <2>3. CASE q + 1 > d
    <3>1. Slots * d <= Slots * q
      BY <1>0, <1>1, <2>3
    <3>2. Slots * d = d * Slots
      BY <1>0
    <3> QED  BY <1>0, <1>1, <2>1, <3>1, <3>2
  <2> QED  BY <1>1, <2>2, <2>3
<1> QED  BY <1>1, <1>2, <1>3, <1>4 DEF Day, q

LEMMA RowTimes ==
  ASSUME Numbered
  PROVE  /\ Rows \subseteq Int /\ IsFiniteSet(Rows) /\ Rows = 1 .. Len(times) /\ Len(times) \in Nat
         /\ \A i \in Rows : /\ times[i] \in Int /\ times[i] \in 1 .. Days * Slots
                            /\ Day(times[i]) \in Int
         /\ \A i, j \in Rows : times[i] = times[j] => i = j
         /\ \A i, j \in Rows : times[i] < times[j] => i < j
<1>1. Rows = 1 .. Len(times) /\ Len(times) \in Nat
  BY DEF Numbered, Rows
<1>2. IsFiniteSet(1 .. Len(times))
  <2>1. 1 \in Int /\ Len(times) \in Int
    BY <1>1
  <2> QED  BY <2>1, FS_Interval
<1>3. \A i \in Rows : times[i] \in 1 .. Days * Slots /\ times[i] \in Int
  <2> DEFINE N == Days * Slots
  <2>1. N \in Nat
    BY WalkConstants
  <2>2. times \in Seq(1 .. N)
    BY DEF Numbered
  <2> HIDE DEF N
  <2>3. \A i \in Rows : times[i] \in 1 .. N /\ times[i] \in Int
    BY <1>1, <2>1, <2>2
  <2> QED  BY <2>3 DEF N
<1>4. \A i \in Rows : Day(times[i]) \in Int
  <2> SUFFICES ASSUME NEW i \in Rows PROVE Day(times[i]) \in Int
    OBVIOUS
  <2>1. times[i] \in Int /\ 0 \in Int
    BY <1>3
  <2> QED  BY <2>1, DayBounds
<1>5. ASSUME NEW i \in Rows, NEW j \in Rows
      PROVE  (times[i] = times[j] => i = j) /\ (times[i] < times[j] => i < j)
  <2>1. i \in Int /\ j \in Int /\ times[i] \in Int /\ times[j] \in Int
    BY <1>1, <1>3
  <2>2. (i < j => times[i] < times[j]) /\ (j < i => times[j] < times[i])
    BY DEF Numbered
  <2> QED  BY <2>1, <2>2
<1> QED  BY <1>1, <1>2, <1>3, <1>4, <1>5

\* A day of which Slots rows are in S has all of its rows in S.
LEMMA WholeDays ==
  ASSUME Numbered, NEW S \in SUBSET Rows, NEW d \in CompleteDays(S)
  PROVE  /\ RowsOfDay(Rows, d) \subseteq S
         /\ d \in 1 .. Days
         /\ Cardinality(RowsOfDay(Rows, d)) = Slots
         /\ IsFiniteSet(RowsOfDay(Rows, d)) /\ RowsOfDay(Rows, d) # {}
         /\ \A i \in RowsOfDay(Rows, d) : FirstOf(d) <= times[i] /\ times[i] <= d * Slots
<1> DEFINE T == RowsOfDay(S, d)
<1>0. Slots \in Nat /\ Slots > 0 /\ Days \in Nat
  BY WalkConstants
<1>1. PICK k \in S : d = Day(times[k])
  BY DEF CompleteDays
<1>2. d \in Int /\ Cardinality(T) = Slots
  BY <1>1, RowTimes DEF CompleteDays
<1>3. T \in SUBSET Rows /\ T \in SUBSET S /\ IsFiniteSet(T)
  BY RowTimes, FS_Subset DEF RowsOfDay
<1>4. \A i \in Rows : Day(times[i]) = d <=> FirstOf(d) <= times[i] /\ times[i] <= d * Slots
  BY <1>2, DayBounds, RowTimes
<1>5. d \in 1 .. Days
  <2>1. times[k] \in 1 .. Days * Slots /\ FirstOf(d) <= times[k] /\ times[k] <= d * Slots
    BY <1>1, <1>4, RowTimes
  <2>2. (d - 1) * Slots < Days * Slots /\ 0 < d * Slots
    BY <1>0, <1>2, <2>1 DEF FirstOf
  <2>3. d - 1 < Days
    <3>1. Days <= d - 1 => Days * Slots <= (d - 1) * Slots
      BY <1>0, <1>2
    <3> QED  BY <1>0, <1>2, <2>2, <3>1
  <2>4. 0 < d
    <3>1. d <= 0 => d * Slots <= 0
      BY <1>0, <1>2
    <3> QED  BY <1>0, <1>2, <2>2, <3>1
  <2> QED  BY <1>0, <1>2, <2>3, <2>4
<1>6. {times[i] : i \in T} = FirstOf(d) .. d * Slots
  <2> DEFINE I == FirstOf(d) .. d * Slots
  <2>1. Cardinality({times[i] : i \in T}) = Slots
    <3>1. \A i, j \in T : times[i] = times[j] => i = j
      BY <1>3, RowTimes
    <3> HIDE DEF T
    <3> QED  BY <1>2, <1>3, <3>1, DistinctImage
  <2>2. IsFiniteSet(I) /\ Cardinality(I) = Slots
    <3>1. FirstOf(d) \in Int /\ d * Slots \in Int /\ d * Slots - FirstOf(d) + 1 = Slots
      BY <1>0, <1>2 DEF FirstOf
    <3> QED  BY <1>0, <3>1, FS_Interval
  <2>3. {times[i] : i \in T} \in SUBSET I
    <3>1. \A i \in T : times[i] \in Int /\ FirstOf(d) <= times[i] /\ times[i] <= d * Slots
      BY <1>3, <1>4, RowTimes DEF RowsOfDay
    <3> QED  BY <3>1
  <2> HIDE DEF I, T
  <2> QED  BY <2>1, <2>2, <2>3, FS_Subset DEF I
<1>7. RowsOfDay(Rows, d) = T
  <2> SUFFICES ASSUME NEW i \in Rows, Day(times[i]) = d PROVE i \in T
    BY <1>3 DEF RowsOfDay
  <2>1. times[i] \in FirstOf(d) .. d * Slots
    BY <1>0, <1>2, <1>4, RowTimes DEF FirstOf
  <2>2. PICK j \in T : times[j] = times[i]
    BY <1>6, <2>1
  <2> QED  BY <1>3, <2>2, RowTimes
<1>8. T # {}
  BY <1>0, <1>2, FS_EmptySet
<1>9. \A i \in T : FirstOf(d) <= times[i] /\ times[i] <= d * Slots
  BY <1>3, <1>4 DEF RowsOfDay
<1> QED  BY <1>2, <1>3, <1>5, <1>7, <1>8, <1>9

-----------------------------------------------------------------------------
(* Out-of-time evaluation: what values are computed from.                   *)

\* The prices of rows only, all of them before a time.
Past(sources, t) == sources \subseteq TimesOf(Rows) /\ \A u \in sources : u < t

LEMMA PastUnion ==
  ASSUME NEW A, NEW B, NEW t, Past(A, t), Past(B, t)
  PROVE  Past(A \cup B, t)
BY DEF Past

LEMMA PastLater ==
  ASSUME Numbered, NEW A, NEW t \in Int, NEW u \in Int, t <= u, Past(A, t)
  PROVE  Past(A, u)
<1>1. \A s \in A : s \in Int
  BY RowTimes DEF Past, TimesOf
<1> QED  BY <1>1 DEF Past

LEMMA PastRows ==
  ASSUME Numbered, NEW S \in SUBSET Rows, NEW t \in Int, \A i \in S : times[i] < t
  PROVE  Past(TimesOf(S), t)
BY DEF Past, TimesOf

\* The features of a row are prices of earlier rows.
LEMMA FeaturesArePast ==
  ASSUME Numbered, NEW i \in Rows
  PROVE  Past(FeaturesOf(i), times[i])
<1> DEFINE F == IF protocol = "chronos" THEN DayAheadRows(i) ELSE FeatureRows(i)
<1>1. i \in Int /\ Slots \in Nat /\ Slots > 0 /\ Short \in Nat /\ Short > 0
  BY RowTimes, WalkConstants
<1>2. \A k \in FeatureRows(i) : k \in Int /\ k < i
  BY <1>1 DEF FeatureRows
<1>3. \A k \in DayAheadRows(i) : k \in Int /\ k < i
  BY <1>1 DEF DayAheadRows
<1>4. \A k \in F : k < i
  BY <1>2, <1>3
<1> HIDE DEF F
<1>5. F \cap Rows \in SUBSET Rows /\ \A k \in F \cap Rows : times[k] < times[i]
  BY <1>4 DEF Numbered
<1>6. times[i] \in Int
  BY RowTimes
<1> QED  BY <1>5, <1>6, PastRows DEF FeaturesOf, F

LEMMA FitIsPast ==
  ASSUME Numbered, NEW S \in SUBSET Rows, NEW t \in Int, \A i \in S : times[i] < t
  PROVE  Past(FitOn(S), t)
<1> SUFFICES ASSUME NEW i \in S PROVE Past(FeaturesOf(i) \cup {times[i]}, t)
  BY DEF Past, FitOn
<1>1. times[i] \in Int /\ times[i] <= t /\ i \in Rows
  BY RowTimes
<1>2. Past(FeaturesOf(i), t)
  BY <1>1, FeaturesArePast, PastLater
<1>3. Past({times[i]}, t)
  BY DEF Past, TimesOf
<1> QED  BY <1>2, <1>3, PastUnion

LEMMA ForecastIsPast ==
  ASSUME Numbered, NEW S \in SUBSET Rows, NEW t \in Int, Past(model, t),
         \A i \in S : times[i] <= t
  PROVE  Past(ForecastOf(S), t)
<1>1. ASSUME NEW i \in S PROVE Past(FeaturesOf(i), t)
  <2>1. times[i] \in Int /\ times[i] <= t /\ i \in Rows
    BY RowTimes
  <2> QED  BY <2>1, FeaturesArePast, PastLater
<1> QED  BY <1>1 DEF Past, ForecastOf

LEMMA ResidualsArePast ==
  ASSUME Numbered, NEW S \in SUBSET Rows, NEW t \in Int, Past(model, t),
         \A i \in S : times[i] < t
  PROVE  Past(ResidualsOf(S), t)
<1>1. \A i \in S : times[i] <= t
  BY RowTimes
<1> QED  BY <1>1, ForecastIsPast, PastRows, PastUnion DEF ResidualsOf

LEMMA ContextIsPast ==
  ASSUME Numbered, NEW d \in Int
  PROVE  /\ Past(ContextOf(d), FirstOf(d))
         /\ \A t \in ContextOf(d) : Day(t) < d
<1>1. FirstOf(d) \in Int
  <2>1. 0 \in Int
    OBVIOUS
  <2> QED  BY <2>1, DayBounds
<1>2. ContextRows(d) \in SUBSET Rows /\ \A i \in ContextRows(d) : times[i] < FirstOf(d)
  BY DEF ContextRows, Before
<1>3. Past(ContextOf(d), FirstOf(d))
  BY <1>1, <1>2, PastRows DEF ContextOf
<1>4. ASSUME NEW t \in ContextOf(d) PROVE Day(t) < d
  <2>1. t \in Int /\ t < FirstOf(d)
    BY <1>3, RowTimes DEF Past, TimesOf
  <2> DEFINE e == Day(t)
  <2>2. e \in Int /\ FirstOf(e) <= t /\ t <= e * Slots
    <3>1. Day(t) \in Int /\ 0 \in Int
      BY <2>1, DayBounds
    <3> QED  BY <2>1, <3>1, DayBounds
  <2> HIDE DEF e
  <2>3. FirstOf(d) = (d - 1) * Slots + 1 /\ FirstOf(e) = (e - 1) * Slots + 1
        /\ Slots \in Nat /\ Slots > 0
    BY WalkConstants DEF FirstOf
  <2>4. CASE e >= d
    <3>1. (e - 1) * Slots >= (d - 1) * Slots
      BY <2>2, <2>3, <2>4
    <3> QED  BY <2>1, <2>2, <2>3, <3>1
  <2> QED  BY <2>2, <2>4 DEF e
<1> QED  BY <1>3, <1>4

-----------------------------------------------------------------------------
(* Out-of-time evaluation: windows.                                         *)

\* The calibration of a fold ends where its test begins, and starts no later.
Aligned(f) == f.calibration \in Int /\ f.test \in Int /\ f.calibration <= f.test

LEMMA WindowRows ==
  ASSUME NEW first, NEW last
  PROVE  /\ Between(first, last) \in SUBSET Rows
         /\ Window(first, last) \in SUBSET Rows
         /\ \A i \in Window(first, last) : first <= times[i] /\ times[i] < last /\ i > Lag
         /\ \A i \in Between(first, last) : first <= times[i] /\ times[i] < last
BY DEF Window, Between, Featured

LEMMA TerminalAligned ==
  ASSUME Numbered, protocol # "chronos", Featured # {}, NEW f,
         f.calibration = times[Lag + (Cardinality(Featured) * 70) \div 100 + 1],
         f.test = times[Lag + (Cardinality(Featured) * 85) \div 100 + 1]
  PROVE  Aligned(f)
<1> DEFINE n == Cardinality(Featured)
           a == (n * 70) \div 100
           b == (n * 85) \div 100
<1>0. /\ Lag = Slots /\ Slots \in Nat /\ Len(times) \in Nat /\ Rows = 1 .. Len(times)
  BY RowTimes, WalkConstants DEF Lag
<1>1. Featured = Slots + 1 .. Len(times)
  BY <1>0 DEF Featured
<1>2. Slots < Len(times) /\ n = Len(times) - Slots
  <2>1. Slots < Len(times)
    BY <1>0, <1>1
  <2>2. Slots + 1 \in Int /\ Len(times) \in Int
    BY <1>0
  <2>3. Cardinality(Slots + 1 .. Len(times)) = Len(times) - (Slots + 1) + 1
    BY <1>0, <2>1, <2>2, FS_Interval
  <2> QED  BY <1>0, <1>1, <2>1, <2>3
<1>3. n \in Nat /\ n > 0
  BY <1>0, <1>2
<1> HIDE DEF n
<1>4. a \in Nat /\ b \in Nat /\ a <= b /\ b < n
  BY <1>3
<1> HIDE DEF a, b
<1>5. Slots + a + 1 \in Rows /\ Slots + b + 1 \in Rows /\ Slots + a + 1 <= Slots + b + 1
  BY <1>0, <1>2, <1>4
<1>6. times[Slots + a + 1] \in Int /\ times[Slots + b + 1] \in Int
      /\ times[Slots + a + 1] <= times[Slots + b + 1]
  <2> DEFINE x == Slots + a + 1
             y == Slots + b + 1
  <2>1. x \in Rows /\ y \in Rows /\ x \in Int /\ y \in Int /\ x <= y
    BY <1>0, <1>4, <1>5
  <2> HIDE DEF x, y
  <2>2. times[x] \in Int /\ times[y] \in Int /\ (x < y => times[x] < times[y])
    BY <2>1, RowTimes DEF Numbered
  <2>3. times[x] <= times[y]
    BY <2>1, <2>2
  <2> QED  BY <2>2, <2>3 DEF x, y
<1> QED  BY <1>0, <1>6 DEF Aligned, a, b, n

LEMMA SeasonAligned ==
  ASSUME NEW d \in Int
  PROVE  Aligned(FoldAt(d))
<1>1. CalDays \in Nat /\ Slots \in Nat
  BY WalkConstants
<1>2. (d - CalDays - 1) * Slots <= (d - 1) * Slots
  BY <1>1
<1>3. FirstOf(d - CalDays) \in Int /\ FirstOf(d) \in Int /\ FirstOf(d - CalDays) <= FirstOf(d)
  BY <1>1, <1>2 DEF FirstOf
<1> QED  BY <1>3 DEF Aligned, FoldAt

LEMMA IntegerSequence ==
  ASSUME NEW D \in SUBSET Int, NEW s \in Seq(D)
  PROVE  Len(s) \in Nat /\ s \in Seq(Int) /\ \A k \in 1 .. Len(s) : s[k] \in Int
<1> DEFINE n == Len(s)
<1>1. n \in Nat /\ s \in [1 .. n -> D]
  OBVIOUS
<1>2. s \in [1 .. n -> Int] /\ \A k \in 1 .. n : s[k] \in Int
  <2> HIDE DEF n
  <2> QED  BY <1>1
<1> QED  BY <1>1, <1>2

\* The folds, when any row has features.
AlignedFolds == {f \in [name : Int, calibration : Int, test : Int, end : Int] : Aligned(f)}

LEMMA FoldsAligned ==
  ASSUME Numbered, protocol \in Protocols
  PROVE  Featured # {} => Folds \in Seq(AlignedFolds)
<1> SUFFICES ASSUME Featured # {} PROVE Folds \in Seq(AlignedFolds)
  OBVIOUS
<1>1. CASE protocol = "terminal"
  <2> DEFINE f == [name |-> 0, calibration |-> times[Lag + (Cardinality(Featured) * 70) \div 100 + 1],
                   test |-> times[Lag + (Cardinality(Featured) * 85) \div 100 + 1],
                   end |-> times[Len(times)] + 1]
  <2>1. Folds = <<f>>
    BY <1>1 DEF Folds, TerminalFold
  <2>2. /\ f.calibration = times[Lag + (Cardinality(Featured) * 70) \div 100 + 1]
        /\ f.test = times[Lag + (Cardinality(Featured) * 85) \div 100 + 1]
    OBVIOUS
  <2>3. Aligned(f)
    <3> HIDE DEF f
    <3> QED  BY <1>1, <2>2, TerminalAligned
  <2>4. times[Len(times)] + 1 \in Int
    <3>1. Len(times) \in Rows
      BY RowTimes DEF Featured
    <3> QED  BY <3>1, RowTimes
  <2>5. f \in AlignedFolds
    BY <2>3, <2>4 DEF AlignedFolds, Aligned
  <2> HIDE DEF f
  <2> QED  BY <2>1, <2>5
<1>2. CASE protocol = "chronos"
  <2> DEFINE days == InOrder(CompleteDays(Rows))
             n == Len(days)
  <2>0. TestDays \in Nat /\ CalDays \in Nat /\ Slots \in Nat
    BY WalkConstants
  <2>1. IsFiniteSet(CompleteDays(Rows)) /\ CompleteDays(Rows) \subseteq Int
    <3>1. {Day(times[r]) : r \in Rows} = {[i \in Rows |-> Day(times[i])][r] : r \in Rows}
      OBVIOUS
    <3>2. IsFiniteSet({Day(times[i]) : i \in Rows})
      <4> DEFINE g == [i \in Rows |-> Day(times[i])]
      <4>1. IsFiniteSet(Rows)
        BY RowTimes
      <4>2. IsFiniteSet({g[i] : i \in Rows})
        <5> HIDE DEF g
        <5> QED  BY <4>1, ImageIsFinite
      <4> QED  BY <3>1, <4>2
    <3>3. CompleteDays(Rows) \in SUBSET {Day(times[i]) : i \in Rows}
      BY DEF CompleteDays
    <3> QED  BY <3>2, <3>3, FS_Subset, RowTimes
  <2>2. /\ days \in Seq(Int) /\ n \in Nat
        /\ \A i, j \in 1 .. n : i < j => days[i] < days[j]
    <3>1. /\ days \in Seq(CompleteDays(Rows)) /\ n = Cardinality(CompleteDays(Rows))
          /\ \A i, j \in 1 .. Cardinality(CompleteDays(Rows)) : i < j => days[i] < days[j]
      BY <2>1, InOrderSorts
    <3> DEFINE D == CompleteDays(Rows)
               c == Cardinality(D)
    <3>2. n = c /\ days \in Seq(D) /\ D \subseteq Int
      BY <2>1, <3>1
    <3>3. \A i, j \in 1 .. c : i < j => days[i] < days[j]
      BY <3>1
    <3>4. Len(days) = n
      OBVIOUS
    <3> HIDE DEF days, n, D, c
    <3>5. days \in Seq(Int) /\ n \in Nat
      BY <3>2, <3>4, IntegerSequence
    <3> QED  BY <3>2, <3>3, <3>5
  <2>3. CASE n < TestDays + CalDays
    <3>1. Folds = <<>>
      BY <1>2, <2>3 DEF Folds, ChronosFold
    <3> QED  BY <3>1
  <2>4. CASE ~ (n < TestDays + CalDays)
    <3> DEFINE a == n - TestDays - CalDays + 1
               b == n - TestDays + 1
               f == [name |-> 0, calibration |-> FirstOf(days[a]), test |-> FirstOf(days[b]),
                     end |-> FirstOf(days[n] + 1)]
    <3>1. Folds = <<f>>
      BY <1>2, <2>4 DEF Folds, ChronosFold
    <3>2. a \in Int /\ b \in Int /\ 1 <= a /\ a <= b /\ b <= n + 1 /\ (TestDays > 0 => b <= n)
      BY <2>0, <2>2, <2>4
    <3>3. TestDays > 0
      BY WalkAssumption
    <3>4. a \in 1 .. n /\ b \in 1 .. n
      BY <2>2, <3>2, <3>3
    <3>5. days[a] \in Int /\ days[b] \in Int /\ days[a] <= days[b]
      <4> HIDE DEF days, n, a, b
      <4>1. days[a] \in Int /\ days[b] \in Int
        BY <2>2, <3>4 DEF n
      <4>2. a < b => days[a] < days[b]
        BY <2>2, <3>4
      <4> QED  BY <3>2, <4>1, <4>2
    <3>6. Aligned(f)
      <4> DEFINE x == days[a]
                 y == days[b]
      <4>1. x \in Int /\ y \in Int /\ x <= y
        BY <3>5
      <4>2. f.calibration = FirstOf(x) /\ f.test = FirstOf(y)
        OBVIOUS
      <4> HIDE DEF x, y, f
      <4>3. (x - 1) * Slots <= (y - 1) * Slots
        BY <2>0, <4>1
      <4>4. FirstOf(x) \in Int /\ FirstOf(y) \in Int /\ FirstOf(x) <= FirstOf(y)
        BY <2>0, <4>1, <4>3 DEF FirstOf
      <4> QED  BY <4>2, <4>4 DEF Aligned
    <3>7. FirstOf(days[n] + 1) \in Int
      <4> DEFINE x == days[n]
      <4>1. x \in Int
        BY <2>2, <3>4
      <4> HIDE DEF x
      <4>2. FirstOf(x + 1) \in Int
        BY <2>0, <4>1 DEF FirstOf
      <4> QED  BY <4>2 DEF x
    <3>8. f \in AlignedFolds
      <4>1. f.end \in Int /\ f.calibration \in Int /\ f.test \in Int
        BY <3>6, <3>7 DEF Aligned
      <4> QED  BY <3>6, <4>1 DEF AlignedFolds
    <3> HIDE DEF f
    <3> QED  BY <3>1, <3>8
  <2> QED  BY <2>3, <2>4
<1>3. CASE protocol \in {"seasonal", "weighted"}
  <2>1. Folds = SeasonalFolds
    BY <1>3 DEF Folds
  <2> DEFINE fit == {d \in DOMAIN SeasonOf : FoldFits(d)}
             n == Cardinality(fit)
  <2>2. IsFiniteSet(fit) /\ fit \subseteq Int
    <3>1. fit \in SUBSET DOMAIN SeasonOf
      OBVIOUS
    <3> HIDE DEF fit
    <3> QED  BY <3>1, WalkConstants, FS_Subset
  <2>3. n \in Nat /\ \A k \in 1 .. n : InOrder(fit)[k] \in Int
    <3>1. n \in Nat /\ InOrder(fit) \in Seq(fit) /\ Len(InOrder(fit)) = n
      <4> HIDE DEF fit
      <4> QED  BY <2>2, InOrderSorts
    <3> DEFINE s == InOrder(fit)
    <3>3. s \in Seq(fit) /\ Len(s) = n /\ fit \subseteq Int
      BY <2>2, <3>1
    <3> HIDE DEF fit, n, s
    <3>2. \A k \in 1 .. n : s[k] \in Int
      BY <3>3, IntegerSequence
    <3> QED  BY <3>1, <3>2 DEF s
  <2>4. \A d \in Int : FoldAt(d) \in AlignedFolds
    <3> SUFFICES ASSUME NEW d \in Int PROVE FoldAt(d) \in AlignedFolds
      OBVIOUS
    <3>1. Aligned(FoldAt(d))
      BY SeasonAligned
    <3>2. FoldAt(d).end \in Int
      BY WalkConstants DEF FoldAt, FirstOf
    <3> QED  BY <3>1, <3>2 DEF AlignedFolds, Aligned, FoldAt
  <2> DEFINE s == [k \in 1 .. n |-> FoldAt(InOrder(fit)[k])]
  <2>5. SeasonalFolds = <<>> \/ SeasonalFolds = s
    BY DEF SeasonalFolds
  <2>6. \A k \in 1 .. n : FoldAt(InOrder(fit)[k]) \in AlignedFolds
    BY <2>3, <2>4
  <2>7. s \in Seq(AlignedFolds)
    <3> HIDE DEF n, fit
    <3> QED  BY <2>3, <2>6
  <2>8. <<>> \in Seq(AlignedFolds)
    OBVIOUS
  <2> HIDE DEF s
  <2> QED  BY <2>1, <2>5, <2>7, <2>8
<1> QED  BY <1>1, <1>2, <1>3 DEF Protocols

-----------------------------------------------------------------------------
(* Out-of-time evaluation: whole days of residuals.                         *)

\* The first half of some days is before the others.
LEMMA HalvesAreOrdered ==
  ASSUME NEW D, D \subseteq Int, IsFiniteSet(D), NEW b \in FirstHalf(D), NEW v \in D \ FirstHalf(D)
  PROVE  b < v
<1> SUFFICES ASSUME ~ (b < v) PROVE FALSE
  OBVIOUS
<1> DEFINE below(d) == {e \in D : e < d}
           half == Cardinality(D) \div 2
<1>1. b \in D /\ Cardinality(below(b)) < half /\ v \in D /\ ~ (Cardinality(below(v)) < half)
  BY DEF FirstHalf
<1>2. below(v) \in SUBSET below(b)
  <2>1. b \in Int /\ v \in Int /\ v <= b
    BY <1>1
  <2>2. \A e \in D : e < v => e < b
    BY <2>1
  <2> QED  BY <2>2
<1>3. below(b) \in SUBSET D /\ Cardinality(D) \in Nat
  BY FS_CardinalityType
<1>4. IsFiniteSet(below(b))
  BY <1>3, FS_Subset
<1>5. Cardinality(below(v)) <= Cardinality(below(b)) /\ IsFiniteSet(below(v))
  BY <1>2, <1>4, FS_Subset
<1>6. Cardinality(below(v)) \in Nat /\ Cardinality(below(b)) \in Nat
  BY <1>4, <1>5, FS_CardinalityType
<1> HIDE DEF below, half
<1>7. half \in Int
  BY <1>3 DEF half
<1> QED  BY <1>1, <1>5, <1>6, <1>7

\* A set of whole days has Slots rows for each.
Whole(D) ==
  \A d \in D : d \in 1 .. Days /\ Cardinality(RowsOfDay(Rows, d)) = Slots

LEMMA CountOfDays ==
  ASSUME Numbered, NEW D, IsFiniteSet(D), Whole(D)
  PROVE  /\ RowsOfDays(D) \in SUBSET Rows /\ RowsOfDays(D) \subseteq Int
         /\ IsFiniteSet(RowsOfDays(D)) /\ Cardinality(RowsOfDays(D)) = Cardinality(D) * Slots
<1> DEFINE S == RowsOfDays(D)
           class == [i \in S |-> Day(times[i])]
<1>1. S \in SUBSET Rows /\ S \subseteq Int
  BY RowTimes DEF RowsOfDays
<1>2. IsFiniteSet(S)
  BY <1>1, RowTimes, FS_Subset
<1>3. Slots \in Nat
  BY WalkConstants
<1>4. \A i \in S : class[i] \in D
  BY DEF RowsOfDays
<1>5. ASSUME NEW d \in D PROVE Cardinality({i \in S : class[i] = d}) = Slots
  <2>1. {i \in S : class[i] = d} = RowsOfDay(Rows, d)
    BY DEF RowsOfDays, RowsOfDay
  <2> QED  BY <2>1 DEF Whole
<1> HIDE DEF class, S
<1>6. Cardinality(S) = Cardinality(D) * Slots
  BY <1>2, <1>3, <1>4, <1>5, Classes
<1> QED  BY <1>1, <1>2, <1>6 DEF S

LEMMA DaysFollowTime ==
  ASSUME NEW t \in Int, NEW u \in Int, t <= u
  PROVE  Day(t) \in Int /\ Day(u) \in Int /\ Day(t) <= Day(u)
<1> DEFINE d == Day(t)
           e == Day(u)
<1>1. d \in Int /\ e \in Int
  <2>1. 0 \in Int
    OBVIOUS
  <2> QED  BY <2>1, DayBounds
<1>2. FirstOf(d) <= t /\ u <= e * Slots
  BY <1>1, DayBounds
<1> HIDE DEF d, e
<1>3. (d - 1) * Slots < e * Slots /\ Slots \in Nat
  BY <1>1, <1>2, WalkConstants DEF FirstOf
<1>4. e <= d - 1 => e * Slots <= (d - 1) * Slots
  BY <1>1, <1>3
<1>5. d <= e
  <2> DEFINE x == (d - 1) * Slots
             y == e * Slots
  <2>1. x \in Int /\ y \in Int /\ x < y /\ (e <= d - 1 => y <= x)
    BY <1>1, <1>3, <1>4
  <2> HIDE DEF x, y
  <2> QED  BY <1>1, <2>1
<1> QED  BY <1>1, <1>5 DEF d, e

\* The position of a row among the rows of whole days lies in the slots of its day.
LEMMA PositionInDay ==
  ASSUME Numbered, NEW D, IsFiniteSet(D), Whole(D), NEW r \in RowsOfDays(D), NEW j,
         j = Cardinality({e \in D : e <= Day(times[r])})
  PROVE  /\ j \in Nat
         /\ (j - 1) * Slots < Cardinality({u \in RowsOfDays(D) : u <= r})
         /\ Cardinality({u \in RowsOfDays(D) : u <= r}) <= j * Slots
<1> DEFINE S == RowsOfDays(D)
           d == Day(times[r])
           To == {e \in D : e <= d}
           Before1 == {e \in D : e < d}
           Up == {u \in S : u <= r}
<1>1. S \in SUBSET Rows /\ S \subseteq Int /\ IsFiniteSet(S) /\ Slots \in Nat
  BY CountOfDays, WalkConstants
<1>2. \A u \in S : times[u] \in Int /\ Day(times[u]) \in Int /\ Day(times[u]) \in D
  BY <1>1, RowTimes DEF RowsOfDays
<1>3. d \in D /\ d \in Int /\ r \in S /\ D \subseteq Int
  BY <1>2 DEF Whole
<1>4. ASSUME NEW u \in S, u <= r PROVE Day(times[u]) <= d
  <2>1. u \in Rows /\ r \in Rows /\ (u < r \/ u = r)
    BY <1>1, <1>3, <1>4
  <2>2. times[u] <= times[r]
    BY <1>2, <1>3, <2>1 DEF Numbered
  <2> QED  BY <1>2, <1>3, <2>2, DaysFollowTime
<1>5. ASSUME NEW u \in S, Day(times[u]) < d PROVE u < r
  <2>1. u \in Rows /\ r \in Rows /\ u \in Int /\ r \in Int
    BY <1>1, <1>3
  <2>2. r <= u => times[r] <= times[u]
    BY <1>2, <1>3, <2>1 DEF Numbered
  <2>3. times[r] <= times[u] => d <= Day(times[u])
    BY <1>2, <1>3, DaysFollowTime
  <2> QED  BY <1>2, <1>3, <1>5, <2>1, <2>2, <2>3
<1>6. /\ To \in SUBSET D /\ Before1 \in SUBSET D /\ IsFiniteSet(To) /\ IsFiniteSet(Before1)
      /\ Whole(To) /\ Whole(Before1)
  <2>1. To \in SUBSET D /\ Before1 \in SUBSET D
    OBVIOUS
  <2> QED  BY <2>1, FS_Subset DEF Whole
<1>7. Cardinality(To) = Cardinality(Before1) + 1 /\ Cardinality(Before1) \in Nat
  <2>1. To = Before1 \cup {d} /\ d \notin Before1
    <3> HIDE DEF d
    <3>1. \A e \in D : e <= d <=> e < d \/ e = d
      BY <1>3
    <3>2. ~ (d < d)
      BY <1>3
    <3> QED  BY <1>3, <3>1, <3>2
  <2> HIDE DEF To, Before1, d
  <2> QED  BY <1>6, <2>1, FS_AddElement, FS_CardinalityType
<1>8. /\ IsFiniteSet(RowsOfDays(To)) /\ Cardinality(RowsOfDays(To)) = j * Slots
      /\ IsFiniteSet(RowsOfDays(Before1)) /\ Cardinality(RowsOfDays(Before1)) = (j - 1) * Slots
      /\ j \in Nat
  <2>1. j = Cardinality(To) /\ j - 1 = Cardinality(Before1)
    BY <1>7
  <2> HIDE DEF To, Before1
  <2> QED  BY <1>6, <1>7, <2>1, CountOfDays
<1>9. IsFiniteSet(Up) /\ Cardinality(Up) \in Nat /\ Cardinality(Up) <= j * Slots
  <2>1. Up \in SUBSET RowsOfDays(To)
    BY <1>2, <1>4, <1>1 DEF RowsOfDays
  <2> HIDE DEF Up, To
  <2>2. IsFiniteSet(Up) /\ Cardinality(Up) <= Cardinality(RowsOfDays(To))
    BY <1>8, <2>1, FS_Subset
  <2> QED  BY <1>8, <2>2, FS_CardinalityType
<1>10. (j - 1) * Slots + 1 <= Cardinality(Up)
  <2> DEFINE L == RowsOfDays(Before1)
  <2>1. L \cup {r} \in SUBSET Up
    <3>1. \A u \in L : u \in S /\ Day(times[u]) < d
      BY DEF RowsOfDays
    <3>2. \A u \in L : u <= r
      BY <1>1, <1>3, <1>5, <3>1
    <3> QED  BY <1>1, <1>3, <3>1, <3>2
  <2>2. r \notin L
    BY <1>3 DEF RowsOfDays
  <2>3. IsFiniteSet(L) /\ Cardinality(L) = (j - 1) * Slots
    BY <1>8
  <2> HIDE DEF L, Up
  <2>4. Cardinality(L \cup {r}) = (j - 1) * Slots + 1
    BY <2>2, <2>3, FS_AddElement
  <2>5. Cardinality(L \cup {r}) <= Cardinality(Up)
    BY <1>9, <2>1, FS_Subset
  <2> QED  BY <2>4, <2>5
<1>11. (j - 1) * Slots \in Int /\ j * Slots \in Int
  BY <1>1, <1>8
<1> HIDE DEF Up, S
<1>12. (j - 1) * Slots < Cardinality(Up)
  <2> DEFINE x == (j - 1) * Slots
             y == Cardinality(Up)
  <2>1. x \in Int /\ y \in Int /\ x + 1 <= y
    BY <1>9, <1>10, <1>11
  <2> HIDE DEF x, y
  <2>2. x < y
    BY <2>1
  <2> QED  BY <2>2 DEF x, y
<1> QED  BY <1>8, <1>9, <1>12 DEF Up, S

LEMMA ExactDivision ==
  ASSUME NEW m \in Nat, NEW k \in Nat \ {0}
  PROVE  (m * k) % k = 0 /\ (m * k) \div k = m
<1> DEFINE N == m * k
           q == N \div k
           r == N % k
<1>1. N \in Nat
  OBVIOUS
<1> HIDE DEF N
<1>2. q \in Int /\ r \in 0 .. k - 1 /\ N = k * q + r
  BY <1>1
<1> HIDE DEF q, r
<1>3. k * q + r = m * k
  BY <1>2 DEF N
<1>4. k * q <= m * k /\ m * k < k * q + k
  BY <1>2, <1>3
<1>5. ~ (q < m)
  <2>1. q < m => k * (q + 1) <= m * k
    BY <1>2
  <2>2. k * (q + 1) = k * q + k
    BY <1>2
  <2> QED  BY <1>2, <1>4, <2>1, <2>2
<1>6. ~ (m < q)
  <2>1. m < q => k * (m + 1) <= k * q
    BY <1>2
  <2>2. k * (m + 1) = m * k + k
    OBVIOUS
  <2> QED  BY <1>2, <1>4, <2>1, <2>2
<1>7. q = m
  BY <1>2, <1>5, <1>6
<1>8. r = 0
  BY <1>2, <1>3, <1>7
<1> QED  BY <1>7, <1>8 DEF q, r, N

\* residual_price_scenarios on whole days: the cuts are the days.
LEMMA PathsAreDays ==
  ASSUME Numbered, NEW D, IsFiniteSet(D), Whole(D), NEW p \in PathsOf(RowsOfDays(D))
  PROVE  IsDay(p)
<1> DEFINE S == RowsOfDays(D)
           N == Cardinality(S)
           m == Cardinality(D)
           row == InOrder(S)
           rank(d) == Cardinality({e \in D : e <= d})
<1>0. Slots \in Nat \ {0} /\ m \in Nat
  BY WalkConstants, FS_CardinalityType
<1>1. S \in SUBSET Rows /\ S \subseteq Int /\ IsFiniteSet(S) /\ N = m * Slots
  BY CountOfDays
<1>2. N % Slots = 0 /\ N \div Slots = m
  <2> HIDE DEF m, N
  <2> QED  BY <1>0, <1>1, ExactDivision
<1>3. PICK n \in 1 .. m : p = {row[0 + (n - 1) * Slots + k] : k \in 1 .. Slots}
  BY <1>2 DEF PathsOf
<1> DEFINE place(k) == (n - 1) * Slots + k
<1>4. \A k \in 1 .. Slots : place(k) \in 1 .. N /\ place(k) \in Int
  <2> SUFFICES ASSUME NEW k \in 1 .. Slots PROVE place(k) \in 1 .. N
    OBVIOUS
  <2>1. 0 <= (n - 1) * Slots /\ n * Slots <= m * Slots /\ n * Slots = (n - 1) * Slots + Slots
    BY <1>0
  <2>2. (n - 1) * Slots \in Int /\ n * Slots \in Int /\ m * Slots \in Int
    BY <1>0
  <2> DEFINE x == (n - 1) * Slots
             y == m * Slots
  <2>3. x \in Int /\ y \in Int /\ 0 <= x /\ x + Slots <= y /\ N = y /\ place(k) = x + k
    BY <1>1, <2>1, <2>2
  <2> HIDE DEF x, y, place, N
  <2> QED  BY <1>0, <2>3
<1>5. p = {row[place(k)] : k \in 1 .. Slots}
  <2>1. \A k \in 1 .. Slots : 0 + (n - 1) * Slots + k = place(k)
    BY <1>0
  <2> HIDE DEF row, S
  <2> QED  BY <1>3, <2>1
<1>6. \A k \in 1 .. Slots : /\ row[place(k)] \in S
                            /\ Cardinality({u \in S : u <= row[place(k)]}) = place(k)
  <2> HIDE DEF S, place
  <2> QED  BY <1>1, <1>4, RankOfPosition
<1>7. ASSUME NEW k \in 1 .. Slots PROVE rank(Day(times[row[place(k)]])) = n
  <2> DEFINE r == row[place(k)]
             j == rank(Day(times[r]))
             x == (n - 1) * Slots
  <2>1. r \in S /\ Cardinality({u \in S : u <= r}) = x + k
    BY <1>6
  <2>2. j \in Nat /\ (j - 1) * Slots < x + k /\ x + k <= j * Slots
    <3> HIDE DEF r, x
    <3> QED  BY <2>1, PositionInDay DEF S
  <2> HIDE DEF j, r
  <2>3. n \in Int /\ n * Slots = x + Slots /\ x \in Int
    BY <1>0
  <2>4. ~ (j < n)
    <3>1. j < n => j * Slots <= (n - 1) * Slots
      BY <1>0, <2>2
    <3> DEFINE y == j * Slots
    <3>2. y \in Int /\ (j < n => y <= x) /\ x + k <= y
      BY <1>0, <2>2, <3>1
    <3> HIDE DEF x, y
    <3> QED  BY <2>3, <3>2
  <2>5. ~ (n < j)
    <3>1. n < j => n * Slots <= (j - 1) * Slots
      BY <1>0, <2>2
    <3> DEFINE y == (j - 1) * Slots
               z == n * Slots
    <3>2. y \in Int /\ (n < j => z <= y) /\ y < x + k /\ z = x + Slots
      BY <1>0, <2>2, <2>3, <3>1
    <3> HIDE DEF x, y, z
    <3> QED  BY <1>0, <2>3, <3>2
  <2>6. j = n
    BY <2>2, <2>3, <2>4, <2>5
  <2> QED  BY <2>6 DEF j, r
<1>8. \A i \in S : Day(times[i]) \in D /\ Day(times[i]) \in Int
  BY <1>1, RowTimes DEF RowsOfDays
<1> DEFINE d == Day(times[row[place(1)]])
<1>9. d \in D /\ d \in Int /\ rank(d) = n /\ 1 \in 1 .. Slots
  <2>1. 1 \in 1 .. Slots
    BY <1>0
  <2>2. row[place(1)] \in S
    BY <1>6, <2>1
  <2>3. rank(Day(times[row[place(1)]])) = n
    BY <1>7, <2>1
  <2> QED  BY <1>8, <2>1, <2>2, <2>3
<1>10. ASSUME NEW e \in D, rank(e) = rank(d) PROVE e = d
  <2>1. e \in Int /\ D \subseteq Int
    BY DEF Whole
  <2> DEFINE To(a) == {b \in D : b <= a}
  <2>2. IsFiniteSet(To(e)) /\ IsFiniteSet(To(d))
    <3>1. To(e) \in SUBSET D /\ To(d) \in SUBSET D
      OBVIOUS
    <3> QED  BY <3>1, FS_Subset
  <2>3. CASE e <= d
    <3>1. To(e) \in SUBSET To(d)
      <4> HIDE DEF d
      <4>1. \A b \in D : b <= e => b <= d
        BY <1>9, <2>1, <2>3
      <4> QED  BY <4>1
    <3>2. To(e) = To(d)
      <4>1. Cardinality(To(e)) = Cardinality(To(d))
        BY <1>10
      <4> HIDE DEF To
      <4> QED  BY <2>2, <3>1, <4>1, FS_Subset
    <3>3. d <= e
      <4> HIDE DEF d
      <4> QED  BY <1>9, <3>2
    <3> HIDE DEF d
    <3> QED  BY <1>9, <2>1, <2>3, <3>3
  <2>4. CASE d <= e
    <3>1. To(d) \in SUBSET To(e)
      <4> HIDE DEF d
      <4>1. \A b \in D : b <= d => b <= e
        BY <1>9, <2>1, <2>4
      <4> QED  BY <4>1
    <3>2. To(e) = To(d)
      <4>1. Cardinality(To(e)) = Cardinality(To(d))
        BY <1>10
      <4> HIDE DEF To
      <4> QED  BY <2>2, <3>1, <4>1, FS_Subset
    <3>3. e <= d
      <4> HIDE DEF d
      <4> QED  BY <2>1, <3>2
    <3> HIDE DEF d
    <3> QED  BY <1>9, <2>1, <2>4, <3>3
  <2> HIDE DEF d
  <2> QED  BY <1>9, <2>1, <2>3, <2>4
<1>11. p \in SUBSET RowsOfDay(Rows, d)
  <2> SUFFICES ASSUME NEW k \in 1 .. Slots
               PROVE  row[place(k)] \in Rows /\ Day(times[row[place(k)]]) = d
    BY <1>5 DEF RowsOfDay
  <2> DEFINE e == Day(times[row[place(k)]])
  <2>1. e \in D /\ rank(e) = n /\ row[place(k)] \in Rows
    BY <1>1, <1>6, <1>7, <1>8
  <2> HIDE DEF d, e
  <2>2. e = d
    BY <1>9, <1>10, <2>1
  <2> QED  BY <2>1, <2>2 DEF e
<1>12. Cardinality(p) = Slots
  <2> DEFINE f == [k \in 1 .. Slots |-> row[place(k)]]
  <2>1. \A a, b \in 1 .. Slots : f[a] = f[b] => a = b
    <3> SUFFICES ASSUME NEW a \in 1 .. Slots, NEW b \in 1 .. Slots, row[place(a)] = row[place(b)]
                 PROVE  a = b
      OBVIOUS
    <3>1. place(a) = place(b)
      BY <1>6
    <3>2. (n - 1) * Slots \in Int
      BY <1>0
    <3> QED  BY <1>0, <3>1, <3>2
  <2>2. 1 \in Int /\ Slots \in Int /\ Slots > 0
    BY <1>0
  <2>3. IsFiniteSet(1 .. Slots) /\ Cardinality(1 .. Slots) = Slots
    BY <2>2, FS_Interval
  <2>4. p = {f[k] : k \in 1 .. Slots}
    BY <1>5
  <2> DEFINE I == 1 .. Slots
  <2>5. /\ \A a, b \in I : f[a] = f[b] => a = b
        /\ IsFiniteSet(I) /\ Cardinality(I) = Slots /\ p = {f[k] : k \in I}
    BY <2>1, <2>3, <2>4
  <2> HIDE DEF f, I
  <2> QED  BY <2>5, DistinctImage
<1>13. /\ IsFiniteSet(RowsOfDay(Rows, d)) /\ Cardinality(RowsOfDay(Rows, d)) = Slots
       /\ d \in 1 .. Days
  <2> HIDE DEF d
  <2>1. RowsOfDay(Rows, d) \in SUBSET Rows
    BY DEF RowsOfDay
  <2> QED  BY <1>9, <2>1, RowTimes, FS_Subset DEF Whole
<1> HIDE DEF d
<1>14. p = RowsOfDay(Rows, d)
  BY <1>11, <1>12, <1>13, FS_Subset
<1> QED  BY <1>12, <1>13, <1>14 DEF IsDay

-----------------------------------------------------------------------------
(* Out-of-time evaluation: the invariant.                                   *)

\* What the fold under way has computed: the model from prices before the test window,
\* the scores from prices before each row that still waits for its interval.
FoldOnline ==
  fold # <<>> /\ step # "fit" =>
    /\ Featured # {}
    /\ Past(model, This.test)
    /\ step = "emit" => \A i \in ToEmit : Past(scores, times[i])

\* What the selection has seen.
ChosenBlind ==
  /\ fold # <<>> => Past(chosen.sources, This.test)
  /\ \A b \in chosen.bank, v \in chosen.validation : b < v
  /\ step # "next" => \A p \in chosen.paths : IsDay(p)

\* What the intervals and the schedules have seen.
EmittedOnline ==
  \A e \in emitted : e.row \in Rows /\ Past(e.sources, times[e.row])

PlannedOnline ==
  \A x \in planned :
    /\ x.day \in 1 .. Days
    /\ Past(x.sources, x.day * Slots)
    /\ protocol = "chronos" /\ x.policy # "lightgbm" => \A t \in x.sources : Day(t) < x.day

WalkInv ==
  /\ protocol \in Protocols /\ Numbered
  /\ step \in {"fit", "calibrate", "emit", "select", "plan", "next", "raised"}
  /\ Featured # {} => fold \in Seq(AlignedFolds)
  /\ {model, scores, chosen.sources} \subseteq SUBSET TimesOf(Rows)
  /\ FoldOnline /\ ChosenBlind /\ EmittedOnline /\ PlannedOnline

LEMMA SameRows ==
  ASSUME protocol' = protocol, times' = times
  PROVE  /\ Rows' = Rows /\ Featured' = Featured /\ TimesOf(Rows)' = TimesOf(Rows)
         /\ Numbered => Numbered'
         /\ \A p : IsDay(p)' <=> IsDay(p)
<1>1. Rows' = Rows /\ TimesOf(Rows)' = TimesOf(Rows)
  BY DEF Rows, TimesOf
<1>2. Featured' = Featured
  BY <1>1 DEF Featured, Lag
<1>3. Numbered => Numbered'
  BY <1>1 DEF Numbered
<1>4. \A p : IsDay(p)' <=> IsDay(p)
  BY <1>1 DEF IsDay, RowsOfDay, Day
<1> QED  BY <1>1, <1>2, <1>3, <1>4

LEMMA ThisAligned ==
  ASSUME WalkInv, fold # <<>>, Featured # {}
  PROVE  /\ This.calibration \in Int /\ This.test \in Int /\ This.calibration <= This.test
         /\ fold \in Seq(AlignedFolds)
<1>1. fold \in Seq(AlignedFolds)
  BY DEF WalkInv
<1>2. Head(fold) \in AlignedFolds
  BY <1>1
<1> QED  BY <1>1, <1>2 DEF This, AlignedFolds, Aligned

\* The rows of the complete days of a window are rows of the window.
LEMMA WindowDays ==
  ASSUME Numbered, NEW S \in SUBSET Rows
  PROVE  /\ IsFiniteSet(CompleteDays(S)) /\ CompleteDays(S) \subseteq Int
         /\ Whole(CompleteDays(S))
         /\ RowsOfDays(CompleteDays(S)) \subseteq S
<1>1. \A d \in CompleteDays(S) : /\ d \in 1 .. Days
                                 /\ Cardinality(RowsOfDay(Rows, d)) = Slots
                                 /\ RowsOfDay(Rows, d) \subseteq S
  BY WholeDays
<1>2. CompleteDays(S) \in SUBSET (1 .. Days)
  BY <1>1
<1>3. 1 \in Int /\ Days \in Int
  BY WalkConstants
<1>4. IsFiniteSet(CompleteDays(S))
  BY <1>2, <1>3, FS_Interval, FS_Subset
<1>5. Whole(CompleteDays(S))
  BY <1>1 DEF Whole
<1>6. RowsOfDays(CompleteDays(S)) \subseteq S
  <2> SUFFICES ASSUME NEW i \in Rows, Day(times[i]) \in CompleteDays(S) PROVE i \in S
    BY DEF RowsOfDays
  <2>1. i \in RowsOfDay(Rows, Day(times[i]))
    BY DEF RowsOfDay
  <2> QED  BY <1>1, <2>1
<1> QED  BY <1>2, <1>4, <1>5, <1>6

\* The windows of the fold under way.
LEMMA WindowsOfFold ==
  ASSUME WalkInv, fold # <<>>, Featured # {}
  PROVE  /\ Numbered /\ This.test \in Int
         /\ Train(This) \in SUBSET Rows /\ \A i \in Train(This) : times[i] < This.test
         /\ Calibration(This) \in SUBSET Rows /\ \A i \in Calibration(This) : times[i] < This.test
         /\ Test(This) \in SUBSET Rows
         /\ \A i \in Test(This) : This.test <= times[i] /\ i > Lag
<1>1. /\ This.calibration \in Int /\ This.test \in Int /\ This.calibration <= This.test
      /\ Numbered
  BY ThisAligned DEF WalkInv
<1>2. /\ Calibration(This) \in SUBSET Rows /\ \A i \in Calibration(This) : times[i] < This.test
      /\ Test(This) \in SUBSET Rows
      /\ \A i \in Test(This) : This.test <= times[i] /\ i > Lag
  BY WindowRows DEF Calibration, Test
<1>3. Train(This) \in SUBSET Rows /\ \A i \in Train(This) : times[i] < This.test
  <2>1. CASE protocol = "chronos"
    BY <2>1, WindowRows DEF Train
  <2>2. CASE protocol # "chronos"
    <3>1. Train(This) = Between(0, This.calibration)
      BY <2>2 DEF Train
    <3>2. /\ Between(0, This.calibration) \in SUBSET Rows
          /\ \A i \in Between(0, This.calibration) : times[i] < This.calibration
      BY WindowRows
    <3>3. \A i \in Between(0, This.calibration) : times[i] \in Int
      BY <1>1, <3>2, RowTimes
    <3> QED  BY <1>1, <3>1, <3>2, <3>3
  <2> QED  BY <2>1, <2>2
<1> QED  BY <1>1, <1>2, <1>3

LEMMA WalkInitInv == WalkInit => WalkInv
<1> SUFFICES ASSUME WalkInit PROVE WalkInv
  OBVIOUS
<1>1. PICK g \in Gaps : times = InOrder((1 .. Days * Slots) \ g)
  BY DEF WalkInit
<1> DEFINE N == Days * Slots
           S == (1 .. N) \ g
<1>2. Numbered
  <2>1. N \in Nat
    BY WalkConstants
  <2>2. S \subseteq 1 .. N /\ S \subseteq Int /\ IsFiniteSet(S)
    <3>1. 1 \in Int /\ N \in Int /\ S \in SUBSET (1 .. N)
      BY <2>1
    <3>2. IsFiniteSet(1 .. N)
      BY <3>1, FS_Interval
    <3> QED  BY <3>1, <3>2, FS_Subset
  <2>3. times = InOrder(S)
    BY <1>1
  <2> HIDE DEF S, N
  <2>4. /\ times \in Seq(S) /\ Len(times) \in Nat
        /\ \A i, j \in 1 .. Len(times) : i < j => times[i] < times[j]
    BY <2>2, <2>3, InOrderSorts
  <2>5. times \in Seq(1 .. N)
    <3> DEFINE n == Len(times)
    <3>1. n \in Nat /\ times \in [1 .. n -> S]
      BY <2>4
    <3> DEFINE I == 1 .. N
    <3>2. S \subseteq I
      BY <2>2
    <3> HIDE DEF I
    <3>3. times \in [1 .. n -> I]
      <4> HIDE DEF n
      <4> QED  BY <3>1, <3>2
    <3>4. times \in Seq(I)
      BY <3>1, <3>3
    <3> QED  BY <3>4 DEF I
  <2>6. Rows = 1 .. Len(times)
    BY <2>4 DEF Rows
  <2> QED  BY <2>4, <2>5, <2>6 DEF Numbered, N
<1>3. protocol \in Protocols
  BY DEF WalkInit
<1>4. Featured # {} => fold \in Seq(AlignedFolds)
  BY <1>2, <1>3, FoldsAligned DEF WalkInit
<1> QED  BY <1>2, <1>3, <1>4 DEF WalkInit, WalkInv, FoldOnline, ChosenBlind, EmittedOnline,
              PlannedOnline, Past, None

\* An error leaves everything else as it was.
LEMMA RaisePreserves ==
  ASSUME WalkInv, Raise, step # "next",
         UNCHANGED <<protocol, times, model, scores, emitted, chosen, planned>>
  PROVE  WalkInv'
<1>1. /\ Rows' = Rows /\ Featured' = Featured /\ TimesOf(Rows)' = TimesOf(Rows)
      /\ Numbered' /\ \A p : IsDay(p)' <=> IsDay(p)
  BY SameRows DEF WalkInv
<1>2. fold' = <<>> /\ step' = "raised"
  BY DEF Raise
<1>3. ChosenBlind'
  BY <1>1, <1>2 DEF WalkInv, ChosenBlind
<1>4. EmittedOnline' /\ PlannedOnline'
  BY <1>1 DEF WalkInv, EmittedOnline, PlannedOnline, Past, Day
<1> QED  BY <1>1, <1>2, <1>3, <1>4 DEF WalkInv, FoldOnline

LEMMA FitPreserves == WalkInv /\ Fit => WalkInv'
<1> SUFFICES ASSUME WalkInv, Fit PROVE WalkInv'
  OBVIOUS
<1>1. CASE Unusable(This)
  BY <1>1, RaisePreserves DEF Fit, Running
<1>2. CASE ~ Unusable(This)
  <2>1. /\ fold # <<>> /\ step = "fit" /\ model' = FitOn(Train(This)) /\ step' = "calibrate"
        /\ UNCHANGED <<protocol, times, fold, scores, emitted, chosen, planned>>
    BY <1>2 DEF Fit, Running
  <2>2. /\ Rows' = Rows /\ Featured' = Featured /\ TimesOf(Rows)' = TimesOf(Rows)
        /\ Numbered' /\ This' = This /\ \A p : IsDay(p)' <=> IsDay(p)
    BY <2>1, SameRows DEF WalkInv, This
  <2>3. Featured # {}
    <3>1. Train(This) # {} /\ Train(This) \subseteq Featured
      BY <1>2 DEF Unusable, Train, Between
    <3> QED  BY <3>1
  <2>4. Past(model', This.test)
    BY <2>1, <2>3, WindowsOfFold, FitIsPast
  <2>5. FoldOnline'
    BY <2>1, <2>2, <2>3, <2>4 DEF FoldOnline, Past
  <2>6. ChosenBlind' /\ EmittedOnline' /\ PlannedOnline'
    BY <2>1, <2>2 DEF WalkInv, ChosenBlind, EmittedOnline, PlannedOnline, Past, Day
  <2>7. model' \subseteq TimesOf(Rows)
    BY <2>4 DEF Past
  <2> QED  BY <2>1, <2>2, <2>5, <2>6, <2>7 DEF WalkInv
<1> QED  BY <1>1, <1>2

\* The scores of the calibration window are from prices before the test window.
LEMMA ScoresArePast ==
  ASSUME WalkInv, fold # <<>>, step # "fit"
  PROVE  Past(CalibrationScores, This.test)
<1> DEFINE C == Calibration(This)
<1>1. Featured # {} /\ Past(model, This.test)
  BY DEF WalkInv, FoldOnline
<1>2. Numbered /\ This.test \in Int /\ C \in SUBSET Rows /\ \A i \in C : times[i] < This.test
  BY <1>1, WindowsOfFold
<1>3. CASE protocol # "chronos"
  <2>1. Past(ResidualsOf(C), This.test)
    BY <1>1, <1>2, ResidualsArePast
  <2> QED  BY <1>3, <2>1 DEF CalibrationScores
<1>4. CASE protocol = "chronos"
  <2>1. ASSUME NEW d \in CompleteDays(C)
        PROVE  Past(ContextOf(d) \cup TimesOf(RowsOfDay(Rows, d)), This.test)
    <3> DEFINE R == RowsOfDay(Rows, d)
    <3>1. /\ d \in Int /\ R \subseteq C /\ R # {} /\ R \in SUBSET Rows
          /\ \A i \in R : FirstOf(d) <= times[i] /\ times[i] \in Int
      BY <1>2, WholeDays, RowTimes
    <3>2. PICK i \in R : TRUE
      BY <3>1
    <3> HIDE DEF R
    <3>3. FirstOf(d) \in Int /\ FirstOf(d) <= This.test
      <4>1. FirstOf(d) \in Int
        BY <3>1, WalkConstants DEF FirstOf
      <4>2. FirstOf(d) <= times[i] /\ times[i] < This.test /\ times[i] \in Int
        BY <1>2, <3>1, <3>2
      <4> QED  BY <1>2, <4>1, <4>2
    <3>4. Past(ContextOf(d), This.test)
      BY <1>2, <3>1, <3>3, ContextIsPast, PastLater
    <3>5. Past(TimesOf(R), This.test)
      BY <1>2, <3>1, PastRows
    <3> QED  BY <3>4, <3>5, PastUnion DEF R
  <2>2. CalibrationScores = UNION {ContextOf(d) \cup TimesOf(RowsOfDay(Rows, d)) : d \in CompleteDays(C)}
    BY <1>4 DEF CalibrationScores
  <2> QED  BY <2>1, <2>2 DEF Past
<1> QED  BY <1>3, <1>4

LEMMA CalibratePreserves == WalkInv /\ Calibrate => WalkInv'
<1> SUFFICES ASSUME WalkInv, Calibrate PROVE WalkInv'
  OBVIOUS
<1>1. /\ fold # <<>> /\ step = "calibrate" /\ scores' = CalibrationScores
      /\ step' \in {"select", "emit"}
      /\ UNCHANGED <<protocol, times, fold, model, emitted, chosen, planned>>
  BY DEF Calibrate, Running
<1>2. /\ Rows' = Rows /\ Featured' = Featured /\ TimesOf(Rows)' = TimesOf(Rows)
      /\ Numbered' /\ This' = This /\ \A p : IsDay(p)' <=> IsDay(p)
  BY <1>1, SameRows DEF WalkInv, This
<1>3. Featured # {} /\ Past(model, This.test) /\ Past(scores', This.test)
  BY <1>1, ScoresArePast DEF WalkInv, FoldOnline
<1>4. ASSUME NEW i \in Test(This) PROVE Past(scores', times[i])
  <2>1. Numbered /\ i \in Rows /\ This.test \in Int /\ This.test <= times[i]
    BY <1>1, <1>3, WindowsOfFold
  <2> QED  BY <1>3, <2>1, RowTimes, PastLater
<1>5. ToEmit' \subseteq Test(This)
  <2>1. Test(This)' = Test(This)
    BY <1>1, <1>2 DEF Test, Window, Between, CompleteDays, RowsOfDay, Day
  <2> QED  BY <2>1 DEF ToEmit
<1>6. FoldOnline'
  BY <1>1, <1>2, <1>3, <1>4, <1>5 DEF FoldOnline, Past
<1>7. ChosenBlind' /\ EmittedOnline' /\ PlannedOnline'
  BY <1>1, <1>2 DEF WalkInv, ChosenBlind, EmittedOnline, PlannedOnline, Past, Day
<1>8. scores' \subseteq TimesOf(Rows)
  BY <1>3 DEF Past
<1> QED  BY <1>1, <1>2, <1>6, <1>7, <1>8 DEF WalkInv

\* Only the interval of the first row that waits is emitted, and its price joins the scores
\* of the later ones.
LEMMA EmitPreserves == WalkInv /\ Emit => WalkInv'
<1> SUFFICES ASSUME WalkInv, Emit PROVE WalkInv'
  OBVIOUS
<1> DEFINE i == Min(ToEmit)
<1>1. /\ fold # <<>> /\ step = "emit" /\ ToEmit # {}
      /\ emitted' = emitted \cup {Bounds(i, scores)} /\ scores' = scores \cup Observed(i)
      /\ UNCHANGED <<protocol, times, fold, step, model, chosen, planned>>
  BY DEF Emit, Running
<1>2. /\ Rows' = Rows /\ Featured' = Featured /\ TimesOf(Rows)' = TimesOf(Rows)
      /\ Numbered' /\ This' = This /\ \A p : IsDay(p)' <=> IsDay(p)
  BY <1>1, SameRows DEF WalkInv, This
<1>3. /\ Featured # {} /\ Past(model, This.test) /\ \A k \in ToEmit : Past(scores, times[k])
      /\ Numbered
  BY <1>1 DEF WalkInv, FoldOnline
<1>4. /\ ToEmit \in SUBSET Test(This) /\ Test(This) \in SUBSET Rows /\ This.test \in Int
      /\ \A k \in Test(This) : This.test <= times[k]
  BY <1>1, <1>3, WindowsOfFold DEF ToEmit
<1>5. i \in ToEmit /\ \A k \in ToEmit : i <= k
  <2>1. ToEmit \subseteq Int /\ IsFiniteSet(ToEmit)
    <3>1. ToEmit \in SUBSET Rows
      BY <1>4
    <3> QED  BY <1>3, <3>1, RowTimes, FS_Subset
  <2>2. \E k \in ToEmit : \A j \in ToEmit : k <= j
    BY <1>1, <2>1, LeastExists
  <2> QED  BY <2>1, <2>2, Zenon DEF Min
<1> HIDE DEF i
<1>6. i \in Rows /\ times[i] \in Int /\ This.test <= times[i]
  BY <1>3, <1>4, <1>5, RowTimes
<1>7. Past(model, times[i])
  BY <1>3, <1>4, <1>6, PastLater
<1>8. Past(ForecastOf({i}), times[i])
  BY <1>3, <1>6, <1>7, ForecastIsPast
<1>9. Past(Bounds(i, scores).sources, times[i]) /\ Bounds(i, scores).row = i
  <2>1. Past(scores, times[i])
    BY <1>3, <1>5
  <2>2. Past(ContextOf(Day(times[i])), times[i])
    <3> DEFINE d == Day(times[i])
    <3>1. d \in Int
      BY <1>3, <1>6, RowTimes
    <3>2. FirstOf(d) <= times[i] /\ FirstOf(d) \in Int
      BY <1>6, <3>1, DayBounds
    <3> HIDE DEF d
    <3>3. Past(ContextOf(d), times[i])
      BY <1>3, <1>6, <3>1, <3>2, ContextIsPast, PastLater
    <3> QED  BY <3>3 DEF d
  <2>3. Past(scores \cup ContextOf(Day(times[i])), times[i])
    BY <2>1, <2>2, PastUnion
  <2>4. Past(scores \cup ForecastOf({i}), times[i])
    BY <1>8, <2>1, PastUnion
  <2>5. Bounds(i, scores).row = i
    BY DEF Bounds
  <2>6. CASE protocol = "chronos"
    BY <2>3, <2>5, <2>6 DEF Bounds
  <2>7. CASE protocol # "chronos"
    BY <2>4, <2>5, <2>7 DEF Bounds
  <2> QED  BY <2>6, <2>7
<1>10. EmittedOnline'
  <2> SUFFICES ASSUME NEW e \in emitted'
               PROVE  e.row \in Rows /\ e.sources \subseteq TimesOf(Rows)
                      /\ \A u \in e.sources : u < times[e.row]
    BY <1>1, <1>2 DEF EmittedOnline, Past
  <2>1. CASE e \in emitted
    BY <2>1 DEF WalkInv, EmittedOnline, Past
  <2>2. CASE e = Bounds(i, scores)
    BY <1>6, <1>9, <2>2 DEF Past
  <2> QED  BY <1>1, <2>1, <2>2
<1>11. ASSUME NEW k \in ToEmit, k # i PROVE Past(scores', times[k])
  <2>1. k \in Rows /\ i < k
    <3>1. i <= k /\ i \in Int /\ k \in Int /\ k \in Rows
      BY <1>3, <1>4, <1>5, <1>11, RowTimes
    <3> QED  BY <1>11, <3>1
  <2>2. times[i] < times[k] /\ times[k] \in Int
    BY <1>3, <1>6, <2>1, RowTimes DEF Numbered
  <2>3. Past(scores, times[k])
    BY <1>3
  <2>4. Past(ResidualsOf({i}), times[k])
    <3>1. Past(model, times[k])
      BY <1>3, <1>6, <1>7, <2>2, PastLater
    <3> QED  BY <1>3, <1>6, <2>2, <3>1, ResidualsArePast
  <2>5. Past({}, times[k])
    BY DEF Past
  <2>6. Past(Observed(i), times[k])
    BY <2>4, <2>5 DEF Observed
  <2> QED  BY <1>1, <2>3, <2>6, PastUnion
<1>12. ToEmit' \subseteq ToEmit \ {i}
  <2>1. Test(This)' = Test(This)
    BY <1>1, <1>2 DEF Test, Window, Between, CompleteDays, RowsOfDay, Day
  <2>2. ToEmit' = {k \in Test(This) : \A e \in emitted' : e.row # k}
    BY <2>1 DEF ToEmit
  <2>3. Bounds(i, scores) \in emitted' /\ emitted \subseteq emitted'
    BY <1>1
  <2> QED  BY <1>9, <2>2, <2>3 DEF ToEmit
<1>13. FoldOnline'
  <2>1. \A k \in ToEmit' : scores' \subseteq TimesOf(Rows) /\ \A u \in scores' : u < times[k]
    BY <1>11, <1>12 DEF Past
  <2> QED  BY <1>1, <1>2, <1>3, <2>1 DEF FoldOnline, Past
<1>14. ChosenBlind' /\ PlannedOnline'
  BY <1>1, <1>2 DEF WalkInv, ChosenBlind, PlannedOnline, Past, Day
<1>15. scores' \subseteq TimesOf(Rows)
  <2>1. Observed(i) \subseteq TimesOf(Rows)
    <3>1. ResidualsOf({i}) \subseteq TimesOf(Rows)
      BY <1>6, <1>8 DEF ResidualsOf, Past, TimesOf
    <3> QED  BY <3>1 DEF Observed
  <2> QED  BY <1>1, <2>1 DEF WalkInv
<1> QED  BY <1>1, <1>2, <1>10, <1>13, <1>14, <1>15 DEF WalkInv

\* Steps that choose nothing and compute nothing.
LEMMA StepOnly ==
  ASSUME WalkInv, step \in {"emit", "select"}, step' \in {"select", "plan"}, fold # <<>>,
         UNCHANGED <<protocol, times, fold, model, scores, emitted, chosen, planned>>
  PROVE  WalkInv'
<1>1. /\ Rows' = Rows /\ Featured' = Featured /\ TimesOf(Rows)' = TimesOf(Rows)
      /\ Numbered' /\ This' = This /\ \A p : IsDay(p)' <=> IsDay(p)
  BY SameRows DEF WalkInv, This
<1>2. FoldOnline'
  BY <1>1 DEF WalkInv, FoldOnline, Past
<1>3. ChosenBlind' /\ EmittedOnline' /\ PlannedOnline'
  BY <1>1 DEF WalkInv, ChosenBlind, EmittedOnline, PlannedOnline, Past, Day
<1> QED  BY <1>1, <1>2, <1>3 DEF WalkInv

\* What a selection compares is computed from calibration days, the first half of them
\* for the scenarios of the others.
LEMMA ChoicesAreBlind ==
  ASSUME WalkInv, fold # <<>>, step = "select", NEW paths, NEW c \in Choice(paths)
  PROVE  /\ Past(c.sources, This.test)
         /\ \A b \in c.bank, v \in c.validation : b < v
         /\ c.paths = paths
<1> DEFINE D == CalibrationDays
<1>1. Featured # {} /\ Past(model, This.test) /\ Numbered
  BY DEF WalkInv, FoldOnline
<1>2. /\ Calibration(This) \in SUBSET Rows /\ \A i \in Calibration(This) : times[i] < This.test
      /\ This.test \in Int
  BY <1>1, WindowsOfFold
<1>3. /\ IsFiniteSet(D) /\ D \subseteq Int /\ RowsOfDays(D) \subseteq Calibration(This)
  BY <1>1, <1>2, WindowDays DEF CalibrationDays
<1>4. /\ c.bank = Bank /\ c.validation = Validation /\ c.paths = paths
      /\ c.sources = ResidualsOf(RowsOfDays(Bank \cup Validation))
  <2>1. PICK p : c = [policy |-> p, bank |-> Bank, validation |-> Validation, paths |-> paths,
                      sources |-> ResidualsOf(RowsOfDays(Bank \cup Validation))]
    BY DEF Choice
  <2> QED  BY <2>1
<1>5. Bank \subseteq D /\ Validation \subseteq D
  BY DEF Bank, Validation, FirstHalf
<1>6. Past(c.sources, This.test)
  <2> DEFINE S == RowsOfDays(Bank \cup Validation)
  <2>1. S \subseteq RowsOfDays(D)
    BY <1>5 DEF RowsOfDays
  <2>2. S \in SUBSET Rows /\ \A i \in S : times[i] < This.test
    BY <1>2, <1>3, <2>1
  <2> HIDE DEF S
  <2>3. Past(ResidualsOf(S), This.test)
    BY <1>1, <1>2, <2>2, ResidualsArePast
  <2> QED  BY <1>4, <2>3 DEF S
<1>7. ASSUME NEW b \in Bank, NEW v \in Validation PROVE b < v
  <2>1. b \in FirstHalf(D) /\ v \in D \ FirstHalf(D)
    BY <1>7 DEF Bank, Validation
  <2> HIDE DEF D
  <2> QED  BY <1>3, <2>1, HalvesAreOrdered
<1> QED  BY <1>4, <1>6, <1>7

LEMMA ChoicePreserves ==
  ASSUME WalkInv, fold # <<>>, step = "select", step' = "plan", NEW paths,
         chosen' \in Choice(paths), \A p \in paths : IsDay(p),
         UNCHANGED <<protocol, times, fold, model, scores, emitted, planned>>
  PROVE  WalkInv'
<1>1. /\ Rows' = Rows /\ Featured' = Featured /\ TimesOf(Rows)' = TimesOf(Rows)
      /\ Numbered' /\ This' = This /\ \A p : IsDay(p)' <=> IsDay(p)
  BY SameRows DEF WalkInv, This
<1>2. /\ Past(chosen'.sources, This.test) /\ \A b \in chosen'.bank, v \in chosen'.validation : b < v
      /\ chosen'.paths = paths
  BY ChoicesAreBlind
<1>3. ChosenBlind'
  BY <1>1, <1>2 DEF ChosenBlind, Past
<1>4. FoldOnline' /\ EmittedOnline' /\ PlannedOnline'
  BY <1>1 DEF WalkInv, FoldOnline, EmittedOnline, PlannedOnline, Past, Day
<1>5. chosen'.sources \subseteq TimesOf(Rows)
  BY <1>2 DEF Past
<1> QED  BY <1>1, <1>3, <1>4, <1>5 DEF WalkInv

LEMMA SelectRiskPreserves == WalkInv /\ SelectRisk => WalkInv'
<1> SUFFICES ASSUME WalkInv, SelectRisk PROVE WalkInv'
  OBVIOUS
<1> DEFINE paths == PathsOf(RowsOfDays(Bank))
<1>1. /\ fold # <<>> /\ step = "select" /\ step' = "plan" /\ chosen' \in Choice(paths)
      /\ UNCHANGED <<protocol, times, fold, model, scores, emitted, planned>>
  BY DEF SelectRisk, Running
<1>2. Featured # {} /\ Numbered
  BY <1>1 DEF WalkInv, FoldOnline
<1>3. IsFiniteSet(Bank) /\ Whole(Bank)
  <2>1. Calibration(This) \in SUBSET Rows
    BY <1>1, <1>2, WindowsOfFold
  <2>2. IsFiniteSet(CalibrationDays) /\ Whole(CalibrationDays)
    BY <1>2, <2>1, WindowDays DEF CalibrationDays
  <2>3. Bank \in SUBSET CalibrationDays
    BY DEF Bank, FirstHalf
  <2> QED  BY <2>2, <2>3, FS_Subset DEF Whole
<1>4. \A p \in paths : IsDay(p)
  BY <1>2, <1>3, PathsAreDays
<1> HIDE DEF paths
<1> QED  BY <1>1, <1>4, ChoicePreserves

\* No schedule of a test day is planned from the last price of the day or a later one.
LEMMA SchedulesArePast ==
  ASSUME WalkInv, fold # <<>>, step = "plan", NEW d \in CompleteDays(Test(This)),
         NEW x \in SchedulesOf(d)
  PROVE  /\ d \in 1 .. Days
         /\ Past(x[2], d * Slots)
         /\ protocol = "chronos" /\ x[1] # "lightgbm" => \A t \in x[2] : Day(t) < d
<1> DEFINE S == RowsOfDay(Rows, d)
           last == d * Slots
           T == Test(This)
<1>1. Featured # {} /\ Past(model, This.test) /\ Numbered
  BY DEF WalkInv, FoldOnline
<1>2. /\ T \in SUBSET Rows /\ This.test \in Int
      /\ \A i \in T : This.test <= times[i] /\ i > Lag
      /\ Calibration(This) \in SUBSET Rows /\ \A i \in Calibration(This) : times[i] < This.test
  BY <1>1, WindowsOfFold
<1>3. /\ S \subseteq T /\ S # {} /\ d \in 1 .. Days
      /\ \A i \in S : FirstOf(d) <= times[i] /\ times[i] <= last
  BY <1>1, <1>2, WholeDays
<1>4. d \in Int /\ last \in Int /\ FirstOf(d) \in Int /\ FirstOf(d) <= last /\ Slots \in Nat
  <2>1. Slots \in Nat /\ Slots > 0 /\ d \in Int
    BY <1>3, WalkConstants
  <2>2. last \in Int /\ (d - 1) * Slots \in Int /\ last = (d - 1) * Slots + Slots
    BY <2>1
  <2> DEFINE y == (d - 1) * Slots
  <2>3. FirstOf(d) = y + 1 /\ last = y + Slots /\ y \in Int
    BY <2>2 DEF FirstOf
  <2> HIDE DEF y, last
  <2> QED  BY <2>1, <2>3
<1>5. S \in SUBSET Rows /\ \A i \in S : times[i] \in Int /\ i \in Int
  BY <1>1, <1>2, <1>3, RowTimes
<1> HIDE DEF S, last, T
<1>6. This.test <= last
  <2>1. PICK i \in S : TRUE
    BY <1>3
  <2>2. This.test <= times[i] /\ times[i] <= last /\ times[i] \in Int
    BY <1>2, <1>3, <1>5, <2>1
  <2> QED  BY <1>2, <1>4, <2>2
<1>7. Past(ForecastOf(S), last)
  <2>1. Past(model, last)
    BY <1>1, <1>2, <1>4, <1>6, PastLater
  <2> QED  BY <1>1, <1>3, <1>4, <1>5, <2>1, ForecastIsPast
<1>8. Past(chosen.sources, last)
  BY <1>1, <1>2, <1>4, <1>6, PastLater DEF WalkInv, ChosenBlind
<1>9. Past(ResidualsOf(Calibration(This)), last)
  <2>1. Past(ResidualsOf(Calibration(This)), This.test)
    BY <1>1, <1>2, ResidualsArePast
  <2> QED  BY <1>1, <1>2, <1>4, <1>6, <2>1, PastLater
<1>10. Past(RiskSources(S), last)
  <2>1. Past({}, last)
    BY DEF Past
  <2>2. Past(ForecastOf(S) \cup chosen.sources, last)
    BY <1>7, <1>8, PastUnion
  <2> DEFINE more == IF chosen.policy = "point" THEN {} ELSE ResidualsOf(Calibration(This))
  <2>3. Past(more, last)
    BY <1>9, <2>1
  <2> HIDE DEF more
  <2>4. Past(ForecastOf(S) \cup chosen.sources \cup more, last)
    BY <2>2, <2>3, PastUnion
  <2> QED  BY <2>4 DEF RiskSources, more
<1>11. Past(LastPrices(S), last)
  <2>1. ASSUME NEW i \in S PROVE i - 1 \in Rows /\ times[i - 1] < last
    <3>1. i > Lag /\ Lag \in Nat /\ Lag >= 1 /\ i \in Rows
      BY <1>2, <1>3, <1>5, WalkConstants DEF Lag
    <3>2. i - 1 \in Rows /\ i - 1 < i
      BY <1>1, <1>5, <3>1, RowTimes
    <3>3. times[i - 1] < times[i] /\ times[i - 1] \in Int
      BY <1>1, <3>1, <3>2, RowTimes DEF Numbered
    <3>4. times[i] <= last /\ times[i] \in Int
      BY <1>3, <1>5
    <3> QED  BY <1>4, <3>2, <3>3, <3>4
  <2> DEFINE P == {i - 1 : i \in S}
  <2>2. P \in SUBSET Rows /\ \A k \in P : times[k] < last
    BY <2>1
  <2> HIDE DEF P
  <2>3. Past(TimesOf(P), last)
    BY <1>1, <1>4, <2>2, PastRows
  <2> QED  BY <2>3 DEF LastPrices, P
<1>12. Past(ContextOf(d), last) /\ \A t \in ContextOf(d) : Day(t) < d
  <2>1. Past(ContextOf(d), FirstOf(d)) /\ \A t \in ContextOf(d) : Day(t) < d
    BY <1>1, <1>4, ContextIsPast
  <2> QED  BY <1>1, <1>4, <2>1, PastLater
<1>13. TimesOf(LastOfContext(d)) \subseteq ContextOf(d) /\ Past(TimesOf(LastOfContext(d)), last)
  <2>1. TimesOf(LastOfContext(d)) \subseteq ContextOf(d)
    BY DEF TimesOf, LastOfContext, ContextOf
  <2> QED  BY <1>12, <2>1 DEF Past
<1>14. CASE protocol = "terminal"
  <2>1. x \in TerminalSchedules(S)
    BY <1>14 DEF SchedulesOf, S
  <2>2. x[2] = ForecastOf(S)
    BY <2>1 DEF TerminalSchedules
  <2> QED  BY <1>3, <1>7, <1>14, <2>2 DEF last
<1>15. CASE protocol = "seasonal"
  <2>1. x \in SeasonalSchedules(S)
    BY <1>15 DEF SchedulesOf, S
  <2>2. x[2] \in {ForecastOf(S), LastPrices(S), RiskSources(S)}
    BY <2>1 DEF SeasonalSchedules
  <2> QED  BY <1>3, <1>7, <1>10, <1>11, <1>15, <2>2 DEF last
<1>16. CASE protocol = "weighted"
  <2>1. x \in WeightedSchedules(S)
    BY <1>16 DEF SchedulesOf, S
  <2>2. x[2] \in {ForecastOf(S), ForecastOf(S) \cup chosen.sources}
    BY <2>1 DEF WeightedSchedules
  <2>3. Past(ForecastOf(S) \cup chosen.sources, last)
    BY <1>7, <1>8, PastUnion
  <2> QED  BY <1>3, <1>7, <1>16, <2>2, <2>3 DEF last
<1>17. CASE protocol = "chronos"
  <2>1. x \in ChronosSchedules(S, d)
    BY <1>17 DEF SchedulesOf, S
  <2>2. CASE x[1] = "lightgbm" /\ x[2] = ForecastOf(S)
    BY <1>3, <1>7, <2>2 DEF last
  <2>3. CASE x[2] = ContextOf(d)
    BY <1>3, <1>12, <2>3 DEF last
  <2>4. CASE x[2] = TimesOf(LastOfContext(d))
    BY <1>3, <1>12, <1>13, <2>4 DEF last
  <2> QED  BY <2>1, <2>2, <2>3, <2>4 DEF ChronosSchedules
<1> QED  BY <1>14, <1>15, <1>16, <1>17 DEF WalkInv, Protocols

LEMMA PlanPreserves == WalkInv /\ Plan => WalkInv'
<1> SUFFICES ASSUME WalkInv, Plan PROVE WalkInv'
  OBVIOUS
<1> DEFINE new == UNION {{[fold |-> This.name, day |-> d, policy |-> x[1], sources |-> x[2]] :
                            x \in SchedulesOf(d)} : d \in CompleteDays(Test(This))}
<1>1. /\ fold # <<>> /\ step = "plan" /\ step' = "next"
      /\ planned' = planned \cup new
      /\ UNCHANGED <<protocol, times, fold, model, scores, emitted>>
  BY Zenon DEF Plan, Running
<1>2. /\ chosen'.sources = chosen.sources /\ chosen'.bank = chosen.bank
      /\ chosen'.validation = chosen.validation
  BY DEF Plan
<1>3. /\ Rows' = Rows /\ Featured' = Featured /\ TimesOf(Rows)' = TimesOf(Rows)
      /\ Numbered' /\ This' = This
  BY <1>1, SameRows DEF WalkInv, This
<1>4. PlannedOnline'
  <2> SUFFICES ASSUME NEW p \in planned'
               PROVE  /\ p.day \in 1 .. Days
                      /\ Past(p.sources, p.day * Slots)
                      /\ protocol = "chronos" /\ p.policy # "lightgbm" =>
                           \A t \in p.sources : Day(t) < p.day
    BY <1>1, <1>3 DEF PlannedOnline, Past, Day
  <2>1. CASE p \in planned
    BY <2>1 DEF WalkInv, PlannedOnline
  <2>2. CASE p \in new
    <3>0. PICK d \in CompleteDays(Test(This)) :
            p \in {[fold |-> This.name, day |-> d, policy |-> x[1], sources |-> x[2]] :
                     x \in SchedulesOf(d)}
      BY <2>2
    <3>1. PICK x \in SchedulesOf(d) :
            p = [fold |-> This.name, day |-> d, policy |-> x[1], sources |-> x[2]]
      BY <3>0
    <3>2. p.day = d /\ p.policy = x[1] /\ p.sources = x[2]
      BY <3>1
    <3> QED  BY <1>1, <3>2, SchedulesArePast
  <2> QED  BY <1>1, <2>1, <2>2
<1>5. ChosenBlind'
  BY <1>1, <1>2, <1>3 DEF WalkInv, ChosenBlind, Past
<1>6. FoldOnline' /\ EmittedOnline'
  BY <1>1, <1>3 DEF WalkInv, FoldOnline, EmittedOnline, Past
<1> QED  BY <1>1, <1>2, <1>3, <1>4, <1>5, <1>6 DEF WalkInv

LEMMA NextFoldPreserves == WalkInv /\ NextFold => WalkInv'
<1> SUFFICES ASSUME WalkInv, NextFold PROVE WalkInv'
  OBVIOUS
<1>1. /\ fold # <<>> /\ fold' = Tail(fold) /\ step' = "fit" /\ step = "next"
      /\ model' = {} /\ scores' = {} /\ emitted' = {} /\ chosen' = None
      /\ UNCHANGED <<protocol, times, planned>>
  BY DEF NextFold, Running
<1>2. /\ Rows' = Rows /\ Featured' = Featured /\ TimesOf(Rows)' = TimesOf(Rows) /\ Numbered'
  BY <1>1, SameRows DEF WalkInv
<1>3. Featured # {} => fold' \in Seq(AlignedFolds)
  <2>1. Featured # {} => fold \in Seq(AlignedFolds)
    BY DEF WalkInv
  <2> QED  BY <1>1, <2>1
<1>4. ChosenBlind' /\ EmittedOnline' /\ FoldOnline'
  BY <1>1 DEF ChosenBlind, EmittedOnline, FoldOnline, None, Past
<1>5. PlannedOnline'
  BY <1>1, <1>2 DEF WalkInv, PlannedOnline, Past, Day
<1> QED  BY <1>1, <1>2, <1>3, <1>4, <1>5 DEF WalkInv, None

LEMMA WalkStep == WalkInv /\ [WalkNext]_walkVars => WalkInv'
<1> SUFFICES ASSUME WalkInv, [WalkNext]_walkVars PROVE WalkInv'
  OBVIOUS
<1>1. CASE UNCHANGED walkVars
  <2>1. /\ Rows' = Rows /\ Featured' = Featured /\ TimesOf(Rows)' = TimesOf(Rows)
        /\ Numbered' /\ This' = This /\ \A p : IsDay(p)' <=> IsDay(p)
    BY <1>1, SameRows DEF WalkInv, This, walkVars
  <2>2. ToEmit' = ToEmit
    BY <1>1, <2>1 DEF walkVars, ToEmit, Test, Window, Between, CompleteDays, RowsOfDay, Day
  <2> QED  BY <1>1, <2>1, <2>2 DEF walkVars, WalkInv, FoldOnline, ChosenBlind, EmittedOnline,
               PlannedOnline, Past, Day
<1>2. CASE Fit
  BY <1>2, FitPreserves
<1>3. CASE Calibrate
  BY <1>3, CalibratePreserves
<1>4. CASE Emit
  BY <1>4, EmitPreserves
<1>5. CASE EmitDone
  BY <1>5, StepOnly DEF EmitDone, Running
<1>6. CASE SelectNothing
  BY <1>6, StepOnly DEF SelectNothing, Running
<1>7. CASE SelectRaises
  BY <1>7, RaisePreserves DEF SelectRaises, Running
<1>8. CASE SelectRisk
  BY <1>8, SelectRiskPreserves
<1>9. CASE SelectWeight
  <2>1. /\ fold # <<>> /\ step = "select" /\ step' = "plan" /\ chosen' \in Choice({})
        /\ UNCHANGED <<protocol, times, fold, model, scores, emitted, planned>>
    BY <1>9 DEF SelectWeight, Running
  <2> QED  BY <2>1, ChoicePreserves
<1>10. CASE Plan
  BY <1>10, PlanPreserves
<1>11. CASE NextFold
  BY <1>11, NextFoldPreserves
<1>12. CASE Done
  BY <1>1, <1>12 DEF Done
<1> QED  BY <1>1, <1>2, <1>3, <1>4, <1>5, <1>6, <1>7, <1>8, <1>9, <1>10, <1>11, <1>12 DEF WalkNext

LEMMA WalkInvariant == WalkSpec => []WalkInv
BY WalkInitInv, WalkStep, PTL DEF WalkSpec

\* The types of the evaluation: whatever is computed is computed from prices of the data.
THEOREM WalkTypeCorrect == WalkSpec => []WalkTypeOK
<1>1. WalkInv => WalkTypeOK
  <2> SUFFICES ASSUME WalkInv PROVE WalkTypeOK
    OBVIOUS
  <2>1. TimesOf(Rows) \subseteq 1 .. Days * Slots
    BY RowTimes DEF WalkInv, TimesOf
  <2> QED  BY <2>1 DEF WalkInv, WalkTypeOK, EmittedOnline, PlannedOnline, Past
<1> QED  BY <1>1, WalkInvariant, PTL

\* For every clock, gap, window and candidate: the policy of a fold is selected without any
\* price of its test window or of a later one, and validated with whole days that are over.
THEOREM SelectionsAreBlind == WalkSpec => []SelectionIsBlind
<1>1. WalkInv => SelectionIsBlind
  BY DEF WalkInv, ChosenBlind, Past, SelectionIsBlind
<1> QED  BY <1>1, WalkInvariant, PTL

\* For every clock, gap and window: each interval of the test window is emitted from earlier
\* prices only.
THEOREM EveryIntervalIsOnline == WalkSpec => []IntervalsAreOnline
<1>1. WalkInv => IntervalsAreOnline
  BY DEF WalkInv, EmittedOnline, Past, IntervalsAreOnline
<1> QED  BY <1>1, WalkInvariant, PTL

\* For every clock, gap and window: no schedule of a test day sees the last price of the
\* day, and the day-ahead forecast and its baseline see no price of the day at all.
THEOREM NoScheduleSeesTheFuture == WalkSpec => []SchedulesSeeNoFuture
<1>1. WalkInv => SchedulesSeeNoFuture
  BY DEF WalkInv, PlannedOnline, Past, SchedulesSeeNoFuture
<1> QED  BY <1>1, WalkInvariant, PTL
=============================================================================
