---------------------------- MODULE PromotionGates ----------------------------
(***************************************************************************)
(* The selections on calibration days (evaluation.py) and the gates a      *)
(* study must pass to be promoted.  Margins are whole numbers; means of    *)
(* series of one length are compared by their sums, and a fraction of the  *)
(* code by the multiple of it that is whole.                               *)
(***************************************************************************)
EXTENDS Ordering, Sequences, Functions

CONSTANTS
  MinPositiveRegions,  \* regions that must win: 3 of five, or a majority of fewer
  HistoryRegions,      \* regions that must earn something in the history study (4)
  Thresholds           \* of the agent's gate, in percent, one for each rate

Abs(x) == IF x < 0 THEN - x ELSE x
AtLeast(x, y) == IF x < y THEN y ELSE x
CountIf(s, P(_)) == Cardinality({n \in DOMAIN s : P(s[n])})

-----------------------------------------------------------------------------
(* Selections.                                                              *)

\* The worst fifth of the values, one of them at least.
TailCount(s) == (Len(s) + 4) \div 5
Below(s, n) == {m \in DOMAIN s : s[m] < s[n] \/ (s[m] = s[n] /\ m < n)}
TailOf(s) == {n \in DOMAIN s : Cardinality(Below(s, n)) < TailCount(s)}
TailSum(s) == SumFunction([n \in TailOf(s) |-> s[n]])

\* x is no worse than a tenth below y, or than a tenth of a dollar; both are sums of k.
WithinTenth(x, y, k) == 10 * x >= 10 * y - AtLeast(Abs(y), k)

Improves(candidate, baseline) ==
  /\ SumFunction(candidate) > SumFunction(baseline)
  /\ WithinTenth(TailSum(candidate), TailSum(baseline), TailCount(baseline))

\* select_decision_weighted_model
SelectModel(baseline, weighted) ==
  IF Improves(weighted, baseline) THEN "decision_weighted" ELSE "baseline"

\* select_dispatch_ensemble_weight: the best mean, then the best tail, then the
\* smallest weight.  Weights are whole numbers here; zero is the baseline.
SelectWeight(baseline, candidate) ==
  LET eligible == {w \in DOMAIN candidate : Improves(candidate[w], baseline)}
      Key(w) == <<SumFunction(candidate[w]), TailSum(candidate[w]), - w>>
      NoBetter(a, b) == \/ a[1] < b[1]
                        \/ a[1] = b[1] /\ a[2] < b[2]
                        \/ a[1] = b[1] /\ a[2] = b[2] /\ a[3] <= b[3]
  IN IF eligible = {} THEN 0
     ELSE CHOOSE w \in eligible : \A v \in eligible : NoBetter(Key(v), Key(w))

\* select_tail_policy: the best tail among those that keep the mean, or the point
\* policy, zero here.
SelectPolicy(point, candidate) ==
  LET eligible == {p \in DOMAIN candidate :
                     /\ WithinTenth(SumFunction(candidate[p]), SumFunction(point), Len(point))
                     /\ TailSum(candidate[p]) > TailSum(point)}
      NoBetter(p, q) ==
        \/ TailSum(candidate[p]) < TailSum(candidate[q])
        \/ /\ TailSum(candidate[p]) = TailSum(candidate[q])
           /\ \/ SumFunction(candidate[p]) < SumFunction(candidate[q])
              \/ SumFunction(candidate[p]) = SumFunction(candidate[q]) /\ p <= q
  IN IF eligible = {} THEN 0
     ELSE CHOOSE q \in eligible : \A p \in eligible : NoBetter(p, q)

-----------------------------------------------------------------------------
(* Gates on the settled results of the regions.  A result has the margins   *)
(* and the tails of the baseline and of the candidate.                      *)

MarginDelta(x) == x.candidate - x.baseline
TailDelta(x) == x.candidateTail - x.baselineTail
SumOf(s, Of(_)) == SumFunction([n \in DOMAIN s |-> Of(s[n])])

\* Seeded fault: a candidate that does as well as the baseline passes.
EnsembleGateOnTies(s) ==
  /\ CountIf(s, LAMBDA x : MarginDelta(x) >= 0) >= Len(s) \div 2 + 1
  /\ SumOf(s, MarginDelta) >= 0
  /\ \A n \in DOMAIN s : WithinTenth(s[n].candidateTail, s[n].baselineTail, 1)

\* summarize_dispatch_ensemble
EnsembleGate(s) ==
  /\ CountIf(s, LAMBDA x : MarginDelta(x) > 0) >= Len(s) \div 2 + 1
  /\ SumOf(s, MarginDelta) > 0
  /\ \A n \in DOMAIN s : WithinTenth(s[n].candidateTail, s[n].baselineTail, 1)

\* summarize_history_transport: the candidate wins six folds of ten.
HistoryGate(s) ==
  /\ 10 * CountIf(s, LAMBDA x : MarginDelta(x) > 0) >= 6 * Len(s)
  /\ CountIf(s, LAMBDA x : x.candidate > 0) >= HistoryRegions

\* summarize_risk_transport: the tail improves and the margin is kept.
RiskGate(s, lower) ==
  /\ lower > 0
  /\ CountIf(s, LAMBDA x : TailDelta(x) > 0) >= MinPositiveRegions
  /\ 100 * SumOf(s, LAMBDA x : x.candidate) >= 95 * SumOf(s, LAMBDA x : x.baseline)
  /\ \A n \in DOMAIN s : 100 * s[n].candidate >= 90 * s[n].baseline
RiskGateRaises(s) == \E n \in DOMAIN s : s[n].baseline <= 0

\* Seeded fault: LightGBM is always the baseline.
BestBaselineFixed(margin) == "lightgbm"

\* The baseline of a region is the one that did best on the test days themselves.
BestBaseline(margin) ==
  CHOOSE b \in DOMAIN margin \ {"chronos2"} :
    \A c \in DOMAIN margin \ {"chronos2"} : margin[c] <= margin[b]

ChronosDelta(margin) == margin["chronos2"] - margin[BestBaseline(margin)]

\* summarize_records: the lower bound is of the mean daily gain, the error in percent
\* of the best baseline's, the coverage in percent.
ChronosGate(s, lower, error, coverage) ==
  /\ SumOf(s, ChronosDelta) > 0
  /\ lower > 0
  /\ CountIf(s, LAMBDA x : ChronosDelta(x) > 0) >= MinPositiveRegions
  /\ error <= 110
  /\ 75 <= coverage /\ coverage <= 85

-----------------------------------------------------------------------------
(* The agent's gate, on the scored turns of the constrained hybrid and of   *)
(* the deterministic path, both with structured memory.                     *)

\* score_turn: what a turn is credited with.  A turn is the outcome of the agent's run.
PathCorrect(t) == t.executed = "expected"

\* Seeded fault: the model is credited with the calls that were executed for it.
ModelPathByExecution(t) == PathCorrect(t)

\* The model is credited with what it proposed itself.
ModelPathCorrect(t) ==
  IF t.path = "deterministic" THEN PathCorrect(t) ELSE t.proposed = "expected"

ReplanSuccess(t) == t.needs # "replan" \/ (t.replanned /\ t.results)
MemoryRecall(t) == t.needs # "memory" \/ t.recalled
TaskSuccess(t) ==
  PathCorrect(t) /\ t.cited /\ ReplanSuccess(t) /\ MemoryRecall(t) /\ t.clean

\* A rate of no turns at all counts as zero.
Reaches(hits, turns, threshold) == turns > 0 /\ 100 * hits >= threshold * turns
Needing(s, need) == EntriesAt(s, {n \in DOMAIN s : s[n].needs = need})
Successes(s) == CountIf(s, TaskSuccess)

\* promotion_checks: a path that was not run has no successes to beat.
AgentGate(hybrid, deterministic) ==
  /\ Reaches(Successes(hybrid), Len(hybrid), Thresholds.task)
  /\ Reaches(CountIf(hybrid, ModelPathCorrect), Len(hybrid), Thresholds.path)
  /\ Reaches(CountIf(hybrid, LAMBDA t : t.cited), Len(hybrid), 100)
  /\ LET needing == Needing(hybrid, "replan")
     IN Reaches(CountIf(needing, ReplanSuccess), Len(needing), Thresholds.replan)
  /\ LET needing == Needing(hybrid, "memory")
     IN Reaches(CountIf(needing, MemoryRecall), Len(needing), Thresholds.recall)
  /\ 100 * CountIf(hybrid, LAMBDA t : ~ t.clean) <= Thresholds.unclean * Len(hybrid)
  /\ LET mine == Needing(hybrid, "memory")
         theirs == Needing(deterministic, "memory")
     IN Successes(mine) * AtLeast(Len(theirs), 1) > Successes(theirs) * AtLeast(Len(mine), 1)
==============================================================================
