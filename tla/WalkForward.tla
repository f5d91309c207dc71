------------------------------ MODULE WalkForward ------------------------------
(***************************************************************************)
(* What each result of an out-of-time evaluation of one region depends on: *)
(* the splits, the features, the models, the online intervals, the         *)
(* selection of a policy and the schedules of the test days.               *)
(*                                                                         *)
(* The rows of the region are numbered, those of a clock with Slots        *)
(* intervals a day; a few may be missing.  Prices and models are           *)
(* abstracted to their sources: the set of intervals whose realised price  *)
(* the value was computed from.  The four protocols are those of           *)
(* evaluate_real_market.py (terminal split and seasonal folds),            *)
(* evaluate_decision_weighted.py and evaluate_chronos2_bess.py.            *)
(***************************************************************************)
EXTENDS Ordering, Sequences, FiniteSetsExt

CONSTANTS
  Slots,        \* intervals of a day (288)
  Days,         \* days of the data
  Short,        \* the short window of the features, in intervals (12)
  Gaps,         \* the sets of intervals that may be missing
  SeasonOf,     \* the days a season's test window starts on, with its name
  MinTrain,     \* days of training before the calibration (30)
  CalDays,      \* days of a fold's calibration (28)
  TestDays,     \* days of a fold's test (28)
  MinDays,      \* complete days a window needs (27)
  Context,      \* days of context of the foundation model (14, at least 7)
  Candidates    \* the policies that compete with the baseline

Protocols == {"terminal", "seasonal", "weighted", "chronos"}

ASSUME WalkAssumption ==
  /\ {Slots, Days, Short, MinTrain, CalDays, TestDays, MinDays, Context} \subseteq Nat
  /\ 1 < Short /\ Short <= Slots
  /\ 4 <= MinDays /\ MinDays <= TestDays /\ MinDays <= CalDays
  /\ 7 <= Context
  /\ DOMAIN SeasonOf \subseteq 1 .. Days
  /\ \A g \in Gaps : g \subseteq 1 .. Days * Slots

VARIABLES
  protocol,  \* the evaluation that runs
  times,     \* the interval of each row, in order
  fold,      \* the folds still to evaluate, the first one under way
  step,      \* what is done next for it
  model,     \* the sources of the fitted model
  scores,   \* the sources of the scores the intervals are calibrated on
  emitted,   \* the intervals emitted: of which row, from which sources
  chosen,    \* the selected policy and its sources
  planned    \* the schedules of the test days: fold, day, policy, sources

walkVars == <<protocol, times, fold, step, model, scores, emitted, chosen, planned>>

-----------------------------------------------------------------------------
(* Rows, days and features.                                                 *)

Rows == DOMAIN times
Day(t) == (t - 1) \div Slots + 1
RowsOfDay(S, d) == {i \in S : Day(times[i]) = d}
TimesOf(S) == {times[i] : i \in S}

\* The days of which every interval is among the rows.
CompleteDays(S) ==
  {d \in {Day(times[i]) : i \in S} : Cardinality(RowsOfDay(S, d)) = Slots}

\* The rows that have features: those after the longest lag.
Lag == IF protocol = "chronos" THEN 7 * Slots ELSE Slots
Featured == {i \in Rows : i > Lag}

\* Seeded fault: the window of the features is shifted by one row.
FeatureRowsOfNow(i) == {i - Slots} \cup (i - Short + 1) .. i

\* The features of a row: the last, the Short-th last and the Slots-th last price,
\* mean and deviation of the last Short ones.  Rows are counted, not hours.
FeatureRows(i) == {i - Slots} \cup (i - Short) .. (i - 1)

\* The day-ahead features: the prices of the rows one, two and seven days before
\* and the mean and deviation of the Slots rows before.
DayAheadRows(i) ==
  {i - Slots, i - 2 * Slots, i - 7 * Slots} \cup (i - Slots) .. (i - 1)

FeaturesOf(i) ==
  TimesOf((IF protocol = "chronos" THEN DayAheadRows(i) ELSE FeatureRows(i)) \cap Rows)

\* A fit sees the features and the label of each row.
FitOn(S) == UNION {FeaturesOf(i) \cup {times[i]} : i \in S}

\* A forecast of a row is the model applied to its features.
ForecastOf(S) == IF S = {} THEN {} ELSE model \cup UNION {FeaturesOf(i) : i \in S}

\* A residual also sees the label.
ResidualsOf(S) == ForecastOf(S) \cup TimesOf(S)

-----------------------------------------------------------------------------
(* Splits.                                                                  *)

FirstOf(d) == (d - 1) * Slots + 1
Between(first, last) == {i \in Featured : first <= times[i] /\ times[i] < last}

\* seasonal_fold_windows: a test window with its calibration right before it.
FoldAt(d) == [name |-> d, calibration |-> FirstOf(d - CalDays),
              test |-> FirstOf(d), end |-> FirstOf(d + TestDays)]

\* The windows that lie in the data and leave days enough to train on.
FoldFits(d) ==
  /\ FoldAt(d).calibration - times[Min(Featured)] >= MinTrain * Slots
  /\ FoldAt(d).end <= times[Len(times)]

\* No season may be without a window.
SeasonalFolds ==
  LET fit == {d \in DOMAIN SeasonOf : FoldFits(d)}
  IN IF {SeasonOf[d] : d \in fit} # {SeasonOf[d] : d \in DOMAIN SeasonOf} THEN <<>>
     ELSE [n \in 1 .. Cardinality(fit) |-> FoldAt(InOrder(fit)[n])]

\* The terminal split, by the number of featured rows: 70, 15 and 15 per cent.
TerminalFold ==
  LET n == Cardinality(Featured)
  IN <<[name |-> 0, calibration |-> times[Lag + (n * 70) \div 100 + 1],
        test |-> times[Lag + (n * 85) \div 100 + 1], end |-> times[Len(times)] + 1]>>

\* Chronos-2: the last complete days, with CalDays of them before for the intervals.
ChronosFold ==
  LET days == InOrder(CompleteDays(Rows))
      n == Len(days)
  IN IF n < TestDays + CalDays THEN <<>>
     ELSE <<[name |-> 0, calibration |-> FirstOf(days[n - TestDays - CalDays + 1]),
             test |-> FirstOf(days[n - TestDays + 1]), end |-> FirstOf(days[n] + 1)]>>

Folds ==
  CASE protocol = "terminal" -> TerminalFold
    [] protocol = "chronos"  -> ChronosFold
    [] OTHER                 -> SeasonalFolds

Train(f) ==
  IF protocol = "chronos" THEN Between(0, f.test) ELSE Between(0, f.calibration)

\* The foundation model calibrates and tests on complete days only.
Window(first, last) ==
  LET S == Between(first, last)
  IN IF protocol = "chronos" THEN {i \in S : Day(times[i]) \in CompleteDays(S)} ELSE S
Calibration(f) == Window(f.calibration, f.test)
Test(f) == Window(f.test, f.end)

-----------------------------------------------------------------------------
None == [policy |-> "none", sources |-> {}, bank |-> {}, validation |-> {}, paths |-> {}]

WalkInit ==
  /\ protocol \in Protocols
  /\ \E g \in Gaps : times = InOrder((1 .. Days * Slots) \ g)
  /\ fold = Folds
  /\ step = "fit"
  /\ model = {} /\ scores = {}
  /\ emitted = {} /\ planned = {}
  /\ chosen = None

Running(s) == fold # <<>> /\ step = s
This == Head(fold)

\* An error of a split or of a coverage gate ends the evaluation of the region.
Raise == fold' = <<>> /\ step' = "raised"

\* The context of the foundation model: the rows right before the day.
Before(d) == {i \in Rows : times[i] < FirstOf(d)}
ContextRows(d) == {i \in Before(d) : Cardinality(Before(d)) - i < Context * Slots}
ContextOf(d) == TimesOf(ContextRows(d))

\* An empty split, or a day without enough context, is an error.
Unusable(f) ==
  \/ {} \in {Train(f), Calibration(f), Test(f)}
  \/ /\ protocol = "chronos"
     /\ \E d \in CompleteDays(Calibration(f) \cup Test(f)) :
          Cardinality(ContextRows(d)) < Context * Slots

\* The models are fitted on the rows of the training split.
Fit ==
  /\ Running("fit")
  /\ IF Unusable(This)
     THEN Raise /\ UNCHANGED model
     ELSE model' = FitOn(Train(This)) /\ step' = "calibrate" /\ UNCHANGED fold
  /\ UNCHANGED <<protocol, times, scores, emitted, chosen, planned>>

CalibrationScores ==
  IF protocol = "chronos"
  THEN UNION {ContextOf(d) \cup TimesOf(RowsOfDay(Rows, d)) :
                d \in CompleteDays(Calibration(This))}
  ELSE ResidualsOf(Calibration(This))

\* The scores of the calibration window; the weighted protocol has no intervals.
Calibrate ==
  /\ Running("calibrate")
  /\ scores' = CalibrationScores
  /\ step' = IF protocol = "weighted" THEN "select" ELSE "emit"
  /\ UNCHANGED <<protocol, times, fold, model, emitted, chosen, planned>>

ToEmit == {i \in Test(This) : \A e \in emitted : e.row # i}
Bounds(i, from) ==
  [row |-> i,
   sources |-> from \cup (IF protocol = "chronos" THEN ContextOf(Day(times[i]))
                                                    ELSE ForecastOf({i}))]
Observed(i) == IF protocol = "chronos" THEN {} ELSE ResidualsOf({i})

\* Seeded fault: the residual joins the scores before the interval is emitted.
EmitAfterObserving ==
  /\ Running("emit") /\ ToEmit # {}
  /\ LET i == Min(ToEmit)
     IN /\ scores' = scores \cup Observed(i)
        /\ emitted' = emitted \cup {Bounds(i, scores')}
  /\ UNCHANGED <<protocol, times, fold, step, model, chosen, planned>>

\* One interval of the test window: emitted, and only then its price observed.
Emit ==
  /\ Running("emit") /\ ToEmit # {}
  /\ LET i == Min(ToEmit)
     IN /\ emitted' = emitted \cup {Bounds(i, scores)}
        /\ scores' = scores \cup Observed(i)
  /\ UNCHANGED <<protocol, times, fold, step, model, chosen, planned>>

EmitDone ==
  /\ Running("emit") /\ ToEmit = {}
  /\ step' = "select"
  /\ UNCHANGED <<protocol, times, fold, model, scores, emitted, chosen, planned>>

-----------------------------------------------------------------------------
(* The selection of a policy on the calibration days.                       *)

CalibrationDays == CompleteDays(Calibration(This))

\* The first half of the days, in order, and the others.
FirstHalf(days) ==
  {d \in days : Cardinality({e \in days : e < d}) < Cardinality(days) \div 2}

\* The days the seasonal protocol takes scenarios from, and those it validates on.
Bank == IF protocol = "seasonal" THEN FirstHalf(CalibrationDays) ELSE {}

\* Seeded fault: the policies are compared on the test days.
ValidationOnTest == CompleteDays(Test(This))

Validation == CalibrationDays \ FirstHalf(IF protocol = "seasonal" THEN CalibrationDays ELSE {})

RowsOfDays(days) == {i \in Rows : Day(times[i]) \in days}

\* residual_price_scenarios: the residuals are cut, from their end, into paths of a
\* day's length.
PathsOf(S) ==
  LET row == InOrder(S)
      skipped == Cardinality(S) % Slots
  IN {{row[skipped + (n - 1) * Slots + k] : k \in 1 .. Slots} :
        n \in 1 .. Cardinality(S) \div Slots}

EnoughDays ==
  /\ Cardinality(CalibrationDays) >= MinDays
  /\ Cardinality(CompleteDays(Test(This))) >= MinDays

\* Two of the protocols have nothing to select.
SelectNothing ==
  /\ Running("select") /\ protocol \in {"terminal", "chronos"}
  /\ step' = "plan"
  /\ UNCHANGED <<protocol, times, fold, model, scores, emitted, chosen, planned>>

\* One complete day too few ends the evaluation.
SelectRaises ==
  /\ Running("select") /\ protocol \in {"seasonal", "weighted"} /\ ~ EnoughDays
  /\ Raise
  /\ UNCHANGED <<protocol, times, model, scores, emitted, chosen, planned>>

\* A candidate or the baseline, by what they earn on the validation days; the paths
\* are those the candidates plan with.
Choice(paths) ==
  {[policy |-> p, bank |-> Bank, validation |-> Validation, paths |-> paths,
    sources |-> ResidualsOf(RowsOfDays(Bank \cup Validation))] :
     p \in Candidates \cup {"point"}}

SelectRisk ==
  /\ Running("select") /\ protocol = "seasonal" /\ EnoughDays
  /\ chosen' \in Choice(PathsOf(RowsOfDays(Bank)))
  /\ step' = "plan"
  /\ UNCHANGED <<protocol, times, fold, model, scores, emitted, planned>>

SelectWeight ==
  /\ Running("select") /\ protocol = "weighted" /\ EnoughDays
  /\ chosen' \in Choice({})
  /\ step' = "plan"
  /\ UNCHANGED <<protocol, times, fold, model, scores, emitted, planned>>

-----------------------------------------------------------------------------
(* The schedules of the test days.                                          *)

LastPrices(S) == TimesOf({i - 1 : i \in S})

\* What the schedules of a test day are planned from, by the rows of the day.
TerminalSchedules(S) == {<<"point", ForecastOf(S)>>, <<"rule", ForecastOf(S)>>}

RiskSources(S) ==
  ForecastOf(S) \cup chosen.sources
    \cup (IF chosen.policy = "point" THEN {} ELSE ResidualsOf(Calibration(This)))

SeasonalSchedules(S) ==
  {<<"point", ForecastOf(S)>>, <<"rule", ForecastOf(S)>>,
   <<"persistence", LastPrices(S)>>, <<"risk", RiskSources(S)>>}

WeightedSchedules(S) ==
  {<<"point", ForecastOf(S)>>, <<"selected", ForecastOf(S) \cup chosen.sources>>}

\* Persistence repeats the last rows of the context, a day of them.
LastOfContext(d) == {i \in ContextRows(d) : Cardinality(Before(d)) - i < Slots}

ChronosSchedules(S, d) ==
  {<<"lightgbm", ForecastOf(S)>>, <<"chronos2", ContextOf(d)>>,
   <<"persistence", TimesOf(LastOfContext(d))>>}

\* The schedules of a complete test day, which are then settled with its prices.
SchedulesOf(d) ==
  LET S == RowsOfDay(Rows, d)
  IN CASE protocol = "terminal" -> TerminalSchedules(S)
       [] protocol = "seasonal" -> SeasonalSchedules(S)
       [] protocol = "weighted" -> WeightedSchedules(S)
       [] protocol = "chronos"  -> ChronosSchedules(S, d)

\* The risk policy plans with scenarios of its own: the residuals of every row of
\* the calibration window.
RiskPaths ==
  IF protocol = "seasonal" /\ chosen.policy # "point" THEN PathsOf(Calibration(This)) ELSE {}

Plan ==
  /\ Running("plan")
  /\ planned' = planned \cup
       UNION {{[fold |-> This.name, day |-> d, policy |-> x[1], sources |-> x[2]] :
                 x \in SchedulesOf(d)} : d \in CompleteDays(Test(This))}
  /\ chosen' = [chosen EXCEPT !.paths = @ \cup RiskPaths]
  /\ step' = "next"
  /\ UNCHANGED <<protocol, times, fold, model, scores, emitted>>

\* The next season starts afresh.
NextFold ==
  /\ Running("next")
  /\ fold' = Tail(fold) /\ step' = "fit"
  /\ model' = {} /\ scores' = {} /\ emitted' = {} /\ chosen' = None
  /\ UNCHANGED <<protocol, times, planned>>

Done == fold = <<>> /\ UNCHANGED walkVars

WalkNext ==
  \/ Fit \/ Calibrate \/ Emit \/ EmitDone
  \/ SelectNothing \/ SelectRaises \/ SelectRisk \/ SelectWeight
  \/ Plan \/ NextFold \/ Done

WalkSpec == WalkInit /\ [][WalkNext]_walkVars

-----------------------------------------------------------------------------
(* Properties.                                                              *)

\* The rows of one whole calendar day.
IsDay(S) == \E d \in 1 .. Days : S = RowsOfDay(Rows, d) /\ Cardinality(S) = Slots

WalkTypeOK ==
  /\ step \in {"fit", "calibrate", "emit", "select", "plan", "next", "raised"}
  /\ \A S \in {model, scores, chosen.sources} : S \subseteq 1 .. Days * Slots
  /\ \A e \in emitted : e.row \in Rows /\ e.sources \subseteq TimesOf(Rows)
  /\ \A x \in planned : x.day \in 1 .. Days /\ x.sources \subseteq TimesOf(Rows)

\* The policy of a fold is selected without any price of its test window, or of a
\* later one, whatever rows are missing and however the windows of the seasons lie;
\* and each scenario it is validated with is the path of one day, one that is over
\* before the first validation day begins (evaluate_seasonal_region, 417-489, and
\* the selection of evaluate_decision_weighted.py).
SelectionIsBlind ==
  /\ fold # <<>> => \A t \in chosen.sources : t < This.test
  /\ \A b \in chosen.bank, v \in chosen.validation : b < v
  /\ step # "next" => \A p \in chosen.paths : IsDay(p)

\* Each interval of the test window is emitted from earlier prices only: those of
\* its own row and of later ones are not yet in the scores, the features or the
\* model ("Test labels are never used before their interval is emitted").
IntervalsAreOnline ==
  \A e \in emitted : \A t \in e.sources : t < times[e.row]

\* No schedule sees the last price of its day, or any later one; what the day-ahead
\* foundation model and its persistence baseline plan sees no price of the day.
SchedulesSeeNoFuture ==
  \A x \in planned :
    /\ \A t \in x.sources : t < x.day * Slots
    /\ protocol = "chronos" /\ x.policy # "lightgbm" =>
         \A t \in x.sources : Day(t) < x.day

\* What the documentation of the protocols says: "realised prices are used solely
\* for settlement".  The schedule of a whole day is computed at once, but the
\* features of its later rows are prices of the same day.
PricesAreForSettlement ==
  \A x \in planned : \A t \in x.sources : Day(t) # x.day

\* What residual_price_scenarios says it samples: "complete calibration-day residual
\* paths".  The paths the risk policy plans with are cut from all calibration rows,
\* and the gate lets an incomplete day through.
ScenariosAreDays == \A p \in chosen.paths : IsDay(p)
==============================================================================
