----------------------------- MODULE MCModelTurn -----------------------------
(* Instances of ModelTurn for TLC. *)
EXTENDS ModelTurn, TLC

\* a0 is what the question asks for; a1 has its region and window and differs in
\* detail, a2 is about another window; e1 is the interval of an event.
CONSTANTS a0, a1, a2, e1

\* A call that validation rejects.
CONSTANT bad
MCMalformed == {bad}

MCArg == {a0, a1, a2, e1}
MCEvent == {e1}
MCScope == (a0 :> "asked") @@ (a1 :> "asked") @@ (a2 :> "other") @@ (e1 :> "event")

MarketCall(t, a) == [tool |-> t, args |-> a, mode |-> "none"]
SearchCall(a, m) == [tool |-> Search, args |-> a, mode |-> m]

\* No list; no call; a rejected call before others; repeated calls; calls in an unusual order, in and out of the window, two of
\* one tool, a diagnosis nobody derived.
MCModelPlans ==
  { NoList, <<>>,
    <<bad, MarketCall(Optimize, a1), SearchCall(a1, "hybrid_rerank"), MarketCall(Detect, a1)>>,
    <<SearchCall(a1, "hybrid_rerank"), MarketCall(Detect, a1), MarketCall(Detect, a1),
      SearchCall(a1, "hybrid_rerank"), MarketCall(Optimize, a1)>>,
    <<MarketCall(Optimize, a2), MarketCall(Detect, a2), MarketCall(Detect, a1),
      MarketCall(Diagnosis, a2)>>,
    <<MarketCall(Detect, a0), SearchCall(a0, "multimodal_fusion"), MarketCall(Detect, a0)>> }

MCReplacements ==
  { <<bad, MarketCall(Detect, a1)>>, <<MarketCall(Detect, a0)>>,
    <<MarketCall(Detect, a2), MarketCall(Detect, a1)>>, <<MarketCall(Optimize, a2)>>,
    <<SearchCall(a1, "hybrid_rerank")>>, <<MarketCall(Diagnosis, a2)>> }
=============================================================================
