------------------------------- MODULE Workflow -------------------------------
(***************************************************************************)
(* What the two orchestrators, EnergyAgent and ModelDrivenAgent, share:    *)
(* tool calls, the deterministic DAG of each workflow, the alternate call  *)
(* of a failed one, and what a tool may answer.                            *)
(***************************************************************************)
EXTENDS Integers, Sequences, FiniteSets

CONSTANTS
  Arg,              \* argument values of a call, up to what tells calls apart
  CaseArg,          \* the arguments _build_case derives from the question
  Event,            \* intervals of detected price events (arguments of a diagnosis)
  NoEvent,          \* a result with no detected event
  MaxToolCalls,     \* the values of request.max_tool_calls
  EvidenceIndexed,  \* the registry has an evidence index
  MarketEvidence,   \* the market store carries provenance evidence
  Windows           \* os.name == "nt"

ASSUME WorkflowAssumption ==
  /\ CaseArg \in Arg
  /\ Event \subseteq Arg
  /\ NoEvent \notin Event
  /\ MaxToolCalls \subseteq Nat \ {0}
  /\ {EvidenceIndexed, MarketEvidence, Windows} \subseteq BOOLEAN

-----------------------------------------------------------------------------
ContextTool == {"get_market_snapshot", "compare_region_period", "detect_price_events",
                "explain_data_coverage", "forecast_price_risk"}
Search == "search_official_evidence"
Detect == "detect_price_events"
Diagnosis == "diagnose_price_event"
Optimize == "optimize_battery_dispatch"
ToolName == ContextTool \cup {Search, Diagnosis, Optimize}

\* The two retrieval modes of a search; other tools have none.
Mode == {"hybrid_rerank", "multimodal_fusion", "none"}
Call == [tool : ToolName, args : Arg, mode : Mode]

\* The tools the deterministic DAG needs for each workflow, in planning order.
WorkflowTools ==
  [ decision_replay      |-> <<"get_market_snapshot", "forecast_price_risk", Detect, Search, Optimize>>,
    event_diagnosis      |-> <<"get_market_snapshot", Detect, Search>>,
    region_comparison    |-> <<"compare_region_period", Search>>,
    forecast_risk        |-> <<"forecast_price_risk", Search>>,
    coverage             |-> <<"explain_data_coverage", Search>>,
    general_market_query |-> <<"get_market_snapshot", Search>>,
    evidence_only_query  |-> <<Search>> ]

\* The call the deterministic plan makes for a tool.
PlannedCall(t, visual) ==
  [tool |-> t, args |-> CaseArg,
   mode |-> IF t # Search THEN "none"
            ELSE IF visual THEN "multimodal_fusion" ELSE "hybrid_rerank"]

Shorter(m, n) == IF m < n THEN m ELSE n

\* _recovery_call: market calls are retried unchanged, a search changes modality.
RecoveryCall(c) ==
  IF c.tool # Search THEN c
  ELSE [c EXCEPT !.mode = IF c.mode = "multimodal_fusion" THEN "hybrid_rerank"
                          ELSE "multimodal_fusion"]

DiagnosisCall(e) == [tool |-> Diagnosis, args |-> e, mode |-> "none"]

-----------------------------------------------------------------------------
Returned == {"answered", "empty", "raised"}

Record(c, n, s) == [call |-> c, attempt |-> n, status |-> s]
Answer(c, n, e) == [call |-> c, attempt |-> n, event |-> e]

\* The events a result may carry: only detection reports any.
EventsOf(c) == IF c.tool = Detect THEN Event \cup {NoEvent} ELSE {NoEvent}

\* Snapshots without a close interval and index searches without hits are empty;
\* every other tool raises or returns data.
Outcomes(c) ==
  IF c.tool = "get_market_snapshot" \/ (c.tool = Search /\ EvidenceIndexed)
  THEN Returned ELSE Returned \ {"empty"}

\* Whether an accepted result carries citations.
Cited(a) == MarketEvidence \/ (a.call.tool = Search /\ EvidenceIndexed)
=============================================================================
