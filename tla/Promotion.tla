------------------------------- MODULE Promotion -------------------------------
(***************************************************************************)
(* A study that may promote a candidate: what it selects on calibration    *)
(* days, what it settles on test days, and the verdict of its gate.        *)
(*                                                                         *)
(* "weighted", "risk", "history" and "chronos" evaluate region by region;  *)
(* "agent" runs the agent through episodes of turns, path by path and mode *)
(* by mode.  What a model earns or answers is drawn, within what the code  *)
(* computes from.                                                          *)
(***************************************************************************)
EXTENDS PromotionGates, SequencesExt

CONSTANTS
  NRegions,   \* regions (5); each has one fold here
  Values,     \* bound: calibration margins of a day
  NDays,      \* bound: calibration days
  Candidate,  \* the weights, or the policies, that compete
  Margins,    \* bound: test margins
  Tails,      \* bound: pairs of test tails, of the baseline and of the candidate
  Baselines,  \* the baselines of the foundation model
  Modes,      \* memory modes of the agent study
  Episodes    \* each the sequence of what its turns need of the agent

ASSUME PromotionAssumption ==
  /\ NRegions \in Nat \ {0} /\ NDays \in Nat \ {0}
  /\ MinPositiveRegions \in Nat /\ HistoryRegions \in Nat
  /\ Candidate \subseteq Nat \ {0} /\ IsFiniteSet(Candidate)
  /\ "lightgbm" \in Baselines /\ "chronos2" \notin Baselines /\ IsFiniteSet(Baselines)
  /\ Values \subseteq Int /\ Margins \subseteq Int /\ Tails \subseteq Int \X Int
  /\ Thresholds \in [task : 0 .. 100, path : 0 .. 100, replan : 1 .. 100,
                     recall : 0 .. 100, unclean : 0 .. 100]

VARIABLES
  study,     \* the study
  chosen,    \* what the calibration days of the current region selected, or none
  settled,   \* the results of the regions settled so far
  todo,      \* the turns of the agent study still to run
  known,     \* the conversation has a memory of an earlier turn
  scored,    \* the turns its gate reads
  verdict

promotionVars == <<study, chosen, settled, todo, known, scored, verdict>>

Regional == {"weighted", "risk", "history", "chronos"}
NoChoice == -1
Pending == "pending"

\* The trials of the agent study: each path, mode, episode and turn, in this order.
Each(s, F(_)) == FlattenSeq([n \in DOMAIN s |-> F(s[n])])
Trials(paths) ==
  Each(paths, LAMBDA p : Each(Modes, LAMBDA m : Each(Episodes, LAMBDA e :
    [n \in DOMAIN e |-> [path |-> p, mode |-> m, first |-> n = 1, needs |-> e[n]]])))

AllPaths == <<"deterministic", "pure_llm", "constrained_hybrid">>

PromotionInit ==
  /\ study \in Regional \cup {"agent"}
  /\ chosen = NoChoice
  /\ settled = <<>>
  /\ \E paths \in {p \in {SelectSeq(AllPaths, LAMBDA x : x \in S) : S \in SUBSET Range(AllPaths)} :
                     p # <<>>} :
       todo = IF study = "agent" THEN Trials(paths) ELSE <<>>
  /\ known = FALSE
  /\ scored = <<>>
  /\ verdict = Pending

-----------------------------------------------------------------------------
(* A region: selection on calibration days, settlement on test days.        *)

Series == [1 .. NDays -> Values]
InRegion == Len(settled) < NRegions

\* Only two of the studies select.
Select ==
  /\ study \in {"weighted", "risk"} /\ InRegion /\ chosen = NoChoice
  /\ \E b \in Series, c \in [Candidate -> Series] :
       chosen' = IF study = "weighted" THEN SelectWeight(b, c) ELSE SelectPolicy(b, c)
  /\ UNCHANGED <<study, settled, todo, known, scored, verdict>>

\* With nothing selected the candidate's schedules are the baseline's.
Settle ==
  /\ InRegion
  /\ study = "history" \/ (study \in {"weighted", "risk"} /\ chosen # NoChoice)
  /\ \E b, c \in Margins, t \in Tails :
       /\ chosen = 0 => c = b /\ t[1] = t[2]
       /\ settled' = Append(settled, [selected |-> chosen > 0, baseline |-> b, candidate |-> c,
                                      baselineTail |-> t[1], candidateTail |-> t[2]])
  /\ chosen' = NoChoice
  /\ UNCHANGED <<study, todo, known, scored, verdict>>

SettleChronos ==
  /\ study = "chronos" /\ InRegion
  /\ \E m \in [Baselines \cup {"chronos2"} -> Values] : settled' = Append(settled, m)
  /\ UNCHANGED <<study, chosen, todo, known, scored, verdict>>

\* A bound of the bootstrap of the folds lies between the worst and the best of them.
LowerBounds(s) == UNION {TailDelta(s[m]) .. TailDelta(s[n]) : m, n \in DOMAIN s}

Verdict(passes) == IF passes THEN "promoted" ELSE "retained"

Judge ==
  /\ study \in Regional /\ ~ InRegion /\ verdict = Pending
  /\ CASE study = "weighted" -> verdict' = Verdict(EnsembleGate(settled))
       [] study = "history"  -> verdict' = Verdict(HistoryGate(settled))
       [] study = "risk"     -> \E lower \in LowerBounds(settled) :
                                  verdict' = IF RiskGateRaises(settled) THEN "raised"
                                             ELSE Verdict(RiskGate(settled, lower))
       [] study = "chronos"  -> \E lower \in {0, 1},
                                   error \in {110, 111}, coverage \in {74, 75, 85, 86} :
                                  verdict' = Verdict(ChronosGate(settled, lower, error, coverage))
  /\ UNCHANGED <<study, chosen, settled, todo, known, scored>>

-----------------------------------------------------------------------------
(* The agent study.                                                         *)

Kinds == {"expected", "other"}
ReadByGate(trial) ==
  /\ trial.mode = "structured_state"
  /\ \/ trial.path = "constrained_hybrid"
     \/ trial.path = "deterministic" /\ trial.needs = "memory"

\* Each episode has an agent and a memory of its own.
Known(trial) == ~ trial.first /\ known /\ trial.mode # "no_memory"

\* What a turn of the agent may come to.  Its calls and their parameters are expected
\* or not, together; "cited" stands for citation and settlement, "clean" for a turn
\* without contamination and without an unsafe call.  The deterministic path never replans.  The
\* guard of the hybrid adds the calls its model forgot and a call may fail, so that
\* what is executed says nothing of what was proposed.
Outcomes(trial) ==
  {t \in [path: {trial.path}, needs: {trial.needs}, proposed: Kinds, executed: Kinds,
          cited: BOOLEAN, replanned: BOOLEAN, results: BOOLEAN, recalled: BOOLEAN,
          clean: BOOLEAN] :
     /\ trial.path = "deterministic" => t.proposed = "other" /\ ~ t.replanned
     /\ t.recalled => Known(trial)
     /\ (t.cited \/ t.executed = "expected") => t.results}

RunTurn ==
  /\ todo # <<>>
  /\ LET trial == Head(todo)
     IN /\ known' = TRUE
        /\ IF ReadByGate(trial)
           THEN \E t \in Outcomes(trial) : scored' = Append(scored, t)
           ELSE UNCHANGED scored
  /\ todo' = Tail(todo)
  /\ UNCHANGED <<study, chosen, settled, verdict>>

ScoredOn(path) == EntriesAt(scored, {n \in DOMAIN scored : scored[n].path = path})

JudgeAgent ==
  /\ study = "agent" /\ todo = <<>> /\ verdict = Pending
  /\ verdict' = Verdict(AgentGate(ScoredOn("constrained_hybrid"), ScoredOn("deterministic")))
  /\ UNCHANGED <<study, chosen, settled, todo, known, scored>>

PromotionNext == Select \/ Settle \/ SettleChronos \/ Judge \/ RunTurn \/ JudgeAgent

PromotionSpec == PromotionInit /\ [][PromotionNext]_promotionVars
-----------------------------------------------------------------------------
(* Properties.                                                              *)

\* A candidate is not promoted on the strength of its calibration alone, nor without
\* it: the dispatch ensemble needs a selected weight in most regions, the risk policy
\* a selected policy in as many as the gate asks to improve.  Where nothing was
\* selected the candidate only ties (ensemble_gate.py, summarize_risk_transport.py).
PromotionNeedsSelection ==
  verdict = "promoted" =>
    LET selected == CountIf(settled, LAMBDA x : x.selected)
    IN /\ study = "weighted" => 2 * selected > Len(settled)
       /\ study = "risk" => selected >= MinPositiveRegions

\* What is promoted earned more over all regions than each baseline did, even than
\* one whose margin is the best in some regions only (summarize_dispatch_ensemble,
\* summarize_records).
PromotedBeatsBaselines ==
  verdict = "promoted" =>
    /\ study = "weighted" =>
         SumOf(settled, LAMBDA x : x.candidate) > SumOf(settled, LAMBDA x : x.baseline)
    /\ study = "chronos" => \A b \in Baselines :
         SumOf(settled, LAMBDA m : m["chronos2"]) > SumOf(settled, LAMBDA m : m[b])

\* The agent is promoted only if its model planned by itself: in as many of the hybrid
\* turns as the gate asks, the calls the model proposed are those expected, whatever
\* the guard filled in; and only if a turn that needs memory succeeded and one that
\* needs a second plan made it, with results (evaluate_llm_agent.py, score_turn).
AgentPromotionIsEarned ==
  study = "agent" /\ verdict = "promoted" =>
    LET hybrid == ScoredOn("constrained_hybrid")
    IN /\ 100 * CountIf(hybrid, LAMBDA t : t.proposed = "expected")
            >= Thresholds.path * Len(hybrid)
       /\ \E n \in DOMAIN hybrid : hybrid[n].needs = "memory" /\ TaskSuccess(hybrid[n])
       /\ \E n \in DOMAIN hybrid : hybrid[n].needs = "replan" /\ ReplanSuccess(hybrid[n])

\* What the preregistered gate says, and what does not hold: the hybrid "must exceed
\* deterministic task success", which --paths may leave out of the study.
DeterministicWasRun ==
  study = "agent" /\ verdict = "promoted" => ScoredOn("deterministic") # <<>>
==============================================================================
