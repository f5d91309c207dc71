--------------------------- MODULE BatteryDispatch ---------------------------
(***************************************************************************)
(* The optimize_battery_dispatch tool: it takes a price signal (realised   *)
(* prices, a published forecast snapshot or the seasonal fallback), plans  *)
(* a schedule on it with the MILP or the threshold rule, and may settle    *)
(* the schedule on the realised prices and compare it with the oracle.     *)
(*                                                                         *)
(* Energy is measured in the store: with round trip efficiency 1/k^2,      *)
(* charging at rated power stores `rate` in an interval and discharging at *)
(* rated power takes k*k*rate.  Money is scaled by k, so that energy e     *)
(* taken from the store earns e*price, and energy e put there costs        *)
(* k*k*e*price.  Arithmetic is exact where the code's is floating point.   *)
(***************************************************************************)
EXTENDS Integers, Sequences, FiniteSetsExt

CONSTANTS
  Battery,         \* battery specifications of requests
  Price,           \* prices
  Cost,            \* degradation costs of requests
  Length,          \* interval_count of requests
  Snapshots,       \* point forecasts published for a request's window; <<>>: none
  Actuals,         \* realised prices of a request's window
  Quartiles,       \* first and third quartile of the prices before the window
  HistoryRows,     \* number of those prices
  MaxIntervals,    \* 288: the longest window
  MinHistory,      \* 24: the least history the fallback takes
  TailIntervals    \* 12: the intervals in which the threshold rule forces the terminal state

\* What BatterySpec.feasible lets pass.
BatterySpec(b) ==
  /\ b \in [rate : Nat \ {0}, k : Nat \ {0}, minimum : Nat, maximum : Nat, initial : Nat, terminal : Nat]
  /\ {b.initial, b.terminal} \subseteq b.minimum .. b.maximum

ASSUME DispatchAssumption ==
  /\ \A b \in Battery : BatterySpec(b)
  /\ Price \subseteq Int /\ Cost \subseteq Nat /\ Length \subseteq Nat /\ HistoryRows \subseteq Nat
  /\ Snapshots \subseteq Seq(Price) /\ Actuals \subseteq Seq(Price)
  /\ Quartiles \subseteq Price \X Price
  /\ {MaxIntervals, MinHistory, TailIntervals} \subseteq Nat \ {0}

Objective == {"forecast", "perfect_foresight", "threshold_rule"}
Settlement == {"plan", "historical_replay"}
Request == [objective : Objective, settlement : Settlement, battery : Battery, cost : Cost, length : Length]

VARIABLES
  request,     \* the validated arguments
  snapshot,    \* the snapshot published for the window, or <<>>
  actual,      \* the store's rows in the window
  history,     \* the store's rows before the window: how many, and their quartiles
  at,          \* where the tool is
  signal,      \* the prices the schedule is planned on
  soc,         \* soc_mwh
  charge,      \* charge_mw
  discharge,   \* discharge_mw
  settled      \* realized_margin_aud and oracle_regret_aud, in replay

inputs == <<request, snapshot, actual, history>>
schedule == <<soc, charge, discharge>>
vars == <<inputs, at, signal, schedule, settled>>

NotSettled == [margin |-> 0, regret |-> 0]
Smaller(m, n) == IF m < n THEN m ELSE n
Larger(m, n) == IF m > n THEN m ELSE n

Rated(b) == [charge |-> b.rate, discharge |-> b.k * b.k * b.rate]

Init ==
  /\ request \in Request
  /\ snapshot \in Snapshots
  /\ actual \in Actuals
  /\ history \in [rows : HistoryRows, quartiles : Quartiles]
  /\ at = "request"
  /\ signal = <<>>
  /\ soc = <<>> /\ charge = <<>> /\ discharge = <<>>
  /\ settled = NotSettled

-----------------------------------------------------------------------------
(* The price signal *)

TakeSignal(prices) ==
  /\ signal' = prices
  /\ at' = "signal"
  /\ UNCHANGED <<inputs, schedule, settled>>

FromActuals ==
  /\ at = "request"
  /\ request.length <= MaxIntervals
  /\ request.objective = "perfect_foresight"
  /\ Len(actual) = request.length
  /\ TakeSignal(actual)

Matches == snapshot # <<>> /\ Len(snapshot) >= request.length

FromSnapshot ==
  /\ at = "request"
  /\ request.length <= MaxIntervals
  /\ request.objective # "perfect_foresight"
  /\ Matches
  /\ TakeSignal(SubSeq(snapshot, 1, request.length))

\* seasonal_conformal makes some forecast of the history.
FromHistory ==
  /\ at = "request"
  /\ request.length <= MaxIntervals
  /\ request.objective # "perfect_foresight"
  /\ ~Matches
  /\ history.rows >= Larger(MinHistory, request.length + 2)
  /\ \E prices \in [1 .. request.length -> Price] : TakeSignal(prices)

\* The window is too long, the realised prices incomplete or the history too short.
NoSignal ==
  /\ at = "request"
  /\ \/ request.length > MaxIntervals
     \/ request.objective = "perfect_foresight" /\ Len(actual) # request.length
     \/ /\ request.objective # "perfect_foresight"
        /\ ~Matches
        /\ history.rows < Larger(MinHistory, request.length + 2)
  /\ at' = "failed"
  /\ UNCHANGED <<inputs, signal, schedule, settled>>

-----------------------------------------------------------------------------
(* optimize_dispatch *)

\* The states of charge over n intervals that meet the constraints of the MILP.  Its mode
\* variables exclude charging and discharging at once, so they determine the schedule; its
\* constraints bound differences by integers, so that some optimum is among integers.
Feasible ==
  [b \in Battery |-> [n \in 1 .. MaxIntervals |->
    LET Path(mid) ==
          [t \in 1 .. n + 1 |-> IF t = 1 THEN b.initial ELSE IF t = n + 1 THEN b.terminal ELSE mid[t]]
    IN {s \in {Path(mid) : mid \in [2 .. n -> b.minimum .. b.maximum]} :
          \A t \in 1 .. n : s[t + 1] - s[t] \in -Rated(b).discharge .. Rated(b).charge}]]

Rises(s) == [t \in 1 .. Len(s) - 1 |-> Larger(0, s[t + 1] - s[t])]
Falls(s) == [t \in 1 .. Len(s) - 1 |-> Larger(0, s[t] - s[t + 1])]

\* The margin of a schedule at given prices, less the cost of what it discharges.
NetMargin(in, out, prices, b, cost) ==
  SumFunction([t \in DOMAIN in |-> (out[t] - b.k * b.k * in[t]) * prices[t] - cost * out[t]])

NetOf(s, prices, b, cost) == NetMargin(Rises(s), Falls(s), prices, b, cost)

Optimal(b, prices, cost) ==
  LET paths == Feasible[b][Len(prices)]
      best == Max({NetOf(s, prices, b, cost) : s \in paths})
  IN {s \in paths : NetOf(s, prices, b, cost) = best}

Solvable(b, n) == n \in 1 .. MaxIntervals /\ Feasible[b][n] # {}

Optimise ==
  /\ at = "signal"
  /\ request.objective # "threshold_rule"
  /\ Solvable(request.battery, Len(signal))
  /\ \E s \in Optimal(request.battery, signal, request.cost) :
       soc' = s /\ charge' = Rises(s) /\ discharge' = Falls(s)
  /\ at' = "planned"
  /\ UNCHANGED <<inputs, signal, settled>>

-----------------------------------------------------------------------------
(* threshold_dispatch *)

\* statistics.quantiles needs two prices.
ValidThresholds == history.rows >= 2 /\ signal # <<>> /\ history.quartiles[1] < history.quartiles[2]

\* Seeded fault: equal thresholds are let in.
StartThresholdUnchecked ==
  /\ at = "signal"
  /\ request.objective = "threshold_rule"
  /\ history.rows >= 2 /\ signal # <<>>
  /\ soc' = <<request.battery.initial>>
  /\ at' = "threshold"
  /\ UNCHANGED <<inputs, signal, charge, discharge, settled>>

StartThreshold ==
  /\ at = "signal"
  /\ request.objective = "threshold_rule"
  /\ ValidThresholds
  /\ soc' = <<request.battery.initial>>
  /\ at' = "threshold"
  /\ UNCHANGED <<inputs, signal, charge, discharge, settled>>

\* The solver finds the problem infeasible, or the thresholds do not differ.
CannotPlan ==
  /\ at = "signal"
  /\ IF request.objective = "threshold_rule" THEN ~ValidThresholds
     ELSE ~Solvable(request.battery, Len(signal))
  /\ at' = "failed"
  /\ UNCHANGED <<inputs, signal, schedule, settled>>

\* What the rule stores and takes at a price, with energy `now` in the store.
RuleCharge(b, now, price, low) ==
  IF price <= low THEN Smaller(Rated(b).charge, b.maximum - now) ELSE 0
RuleDischarge(b, now, price, high) ==
  IF price >= high THEN Smaller(Rated(b).discharge, now - b.minimum) ELSE 0

\* Seeded faults: the tail starts an interval late; the rest is spread over one interval
\* too many.
ForcedLate(left) == left < TailIntervals
ShareShort(energy, left) == energy \div (left + 1)

Forced(left) == left <= TailIntervals

\* An even share of the energy still missing or left over.
Share(energy, left) == energy \div left

\* What is stored and taken in an interval: in the tail the share is forced, on top of
\* which the rule may trade in the same direction only.
Below(b, now, left) == Forced(left) /\ now < b.terminal
Above(b, now, left) == Forced(left) /\ now > b.terminal

Stored(b, now, price, left, low) ==
  LET in == RuleCharge(b, now, price, low) IN
    IF Above(b, now, left) THEN 0
    ELSE IF Below(b, now, left) THEN Larger(in, Share(b.terminal - now, left)) ELSE in

Taken(b, now, price, left, high) ==
  LET out == RuleDischarge(b, now, price, high) IN
    IF Below(b, now, left) THEN 0
    ELSE IF Above(b, now, left) THEN Larger(out, Share(now - b.terminal, left)) ELSE out

ThresholdStep ==
  /\ at = "threshold"
  /\ Len(charge) < Len(signal)
  /\ LET now == soc[Len(soc)]
         price == signal[Len(soc)]
         left == Len(signal) - Len(charge)
         stored == Stored(request.battery, now, price, left, history.quartiles[1])
         taken == Taken(request.battery, now, price, left, history.quartiles[2])
     IN /\ charge' = Append(charge, stored)
        /\ discharge' = Append(discharge, taken)
        /\ soc' = Append(soc, now + stored - taken)
  /\ UNCHANGED <<inputs, at, signal, settled>>

EndThreshold ==
  /\ at = "threshold"
  /\ Len(charge) = Len(signal)
  /\ at' = "planned"
  /\ UNCHANGED <<inputs, signal, schedule, settled>>

-----------------------------------------------------------------------------
(* Settlement *)

AnswerPlan ==
  /\ at = "planned"
  /\ request.settlement = "plan"
  /\ at' = "answered"
  /\ UNCHANGED <<inputs, signal, schedule, settled>>

\* Seeded fault: the schedule is settled on the signal it was planned on.
RealizedOnSignal == NetMargin(charge, discharge, signal, request.battery, request.cost)

Realized == NetMargin(charge, discharge, actual, request.battery, request.cost)

Replay ==
  /\ at = "planned"
  /\ request.settlement = "historical_replay"
  /\ Len(actual) = request.length
  /\ Solvable(request.battery, Len(actual))
  /\ LET oracle == CHOOSE s \in Optimal(request.battery, actual, request.cost) : TRUE
     IN settled' = [margin |-> Realized,
                    regret |-> NetOf(oracle, actual, request.battery, request.cost) - Realized]
  /\ at' = "answered"
  /\ UNCHANGED <<inputs, signal, schedule>>

\* The realised prices are incomplete, or the oracle finds no schedule.
CannotReplay ==
  /\ at = "planned"
  /\ request.settlement = "historical_replay"
  /\ Len(actual) # request.length \/ ~Solvable(request.battery, Len(actual))
  /\ at' = "failed"
  /\ UNCHANGED <<inputs, signal, schedule, settled>>

\* The tool has answered or raised.
Ended == at \in {"answered", "failed"} /\ UNCHANGED vars

Next ==
  \/ FromActuals \/ FromSnapshot \/ FromHistory \/ NoSignal
  \/ Optimise \/ StartThreshold \/ CannotPlan \/ ThresholdStep \/ EndThreshold
  \/ AnswerPlan \/ Replay \/ CannotReplay \/ Ended

Spec == Init /\ [][Next]_vars

-----------------------------------------------------------------------------
(* Properties *)

\* Type invariant: the three arrays stay aligned, soc_mwh one longer than the others.
TypeOK ==
  /\ request \in Request
  /\ snapshot \in Snapshots /\ actual \in Actuals
  /\ history \in [rows : HistoryRows, quartiles : Quartiles]
  /\ at \in {"request", "signal", "threshold", "planned", "answered", "failed"}
  /\ signal \in Seq(Price)
  /\ soc \in Seq(Int) /\ charge \in Seq(Int) /\ discharge \in Seq(Int)
  /\ Len(charge) = Len(discharge)
  /\ at \in {"threshold", "planned", "answered"} => Len(soc) = Len(charge) + 1
  /\ at \in {"planned", "answered"} => Len(charge) = Len(signal)
  /\ settled \in [margin : Int, regret : Int]

\* Either planner keeps the state of charge within the bounds of the battery, and neither
\* charges and discharges in one interval, in the forced tail of the rule as before it.
ScheduleIsPhysical ==
  /\ \A i \in DOMAIN soc : soc[i] \in request.battery.minimum .. request.battery.maximum
  /\ \A t \in DOMAIN charge : /\ charge[t] >= 0 /\ discharge[t] >= 0
                              /\ charge[t] = 0 \/ discharge[t] = 0

LastPriceBetween ==
  history.quartiles[1] < signal[Len(signal)] /\ signal[Len(signal)] < history.quartiles[2]

\* A schedule ends in the terminal state, except that the threshold rule may leave it by
\* what one interval at rated power moves if the last price calls for trading.
TerminalErrorBounded ==
  at \in {"planned", "answered"} =>
    LET b == request.battery
        error == soc[Len(soc)] - b.terminal
    IN /\ error \in -Rated(b).discharge .. Rated(b).charge
       /\ request.objective # "threshold_rule" \/ LastPriceBetween => error = 0

\* A battery without losses that can cross its range within the forced intervals.
WellSized(b, n) ==
  b.k = 1 /\ b.maximum - b.minimum <= Smaller(TailIntervals, n) * b.rate

\* The share the rule is forced to move in the tail never exceeds rated power if the
\* battery is well sized, whatever the rule traded in the tail before.
RatingRespected ==
  request.objective # "threshold_rule" \/ WellSized(request.battery, Len(signal)) =>
    \A t \in DOMAIN charge : /\ charge[t] <= Rated(request.battery).charge
                             /\ discharge[t] <= Rated(request.battery).discharge

\* The oracle is never beaten by a schedule that meets its constraints, and perfect
\* foresight has no regret.
RegretIsSound ==
  at = "answered" /\ request.settlement = "historical_replay" =>
    /\ soc \in Feasible[request.battery][request.length] => settled.regret >= 0
    /\ request.objective = "perfect_foresight" => settled.regret = 0

\* Claimed of threshold_dispatch ("enforcing SoC and terminal state").
TerminalEnforced == at = "planned" => soc[Len(soc)] = request.battery.terminal
=============================================================================
