---------------------------- MODULE MCEnergyAgent ----------------------------
(* Instances of EnergyAgent for TLC. *)
EXTENDS EnergyAgent

CONSTANTS a0, e1   \* the arguments of the question, and the interval of an event

MCArg == {a0, e1}
MCEvent == {e1}

MarketCall(t, a) == [tool |-> t, args |-> a, mode |-> "none"]
SearchCall(a, m) == [tool |-> Search, args |-> a, mode |-> m]

Unplanned == {NoPlanner}

\* No provider, and plans only a provider makes: repeated calls, two calls of one tool, a search in
\* both modes, a diagnosis proposed with the arguments that detection derives and
\* one proposed with others.
MCProposals ==
  { NoPlanner,
    <<>>,
    <<MarketCall(Detect, a0), MarketCall(Detect, a0), MarketCall(Detect, e1)>>,
    <<MarketCall(Detect, a0), MarketCall(Diagnosis, e1), SearchCall(a0, "hybrid_rerank")>>,
    <<MarketCall(Diagnosis, a0), MarketCall(Detect, a0), SearchCall(a0, "hybrid_rerank")>>,
    <<SearchCall(a0, "hybrid_rerank"), SearchCall(a0, "multimodal_fusion"),
      MarketCall(Optimize, a0)>> }

\* What a provider plans does not depend on the workflow: one stands for all.
MCQuestions ==
  {r \in Request : ByProvider(r) => r.workflow = "coverage" /\ ~r.visual}
=============================================================================
