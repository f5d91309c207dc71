----------------------------- MODULE MCPromotion -----------------------------
(* An instance of Promotion for TLC: three regions, two calibration days.     *)
EXTENDS Promotion

\* The tail of the candidate is equal, within a tenth of the baseline's, below it, above.
MCTails == {<<-10, -10>>, <<-10, -11>>, <<-10, -12>>, <<-12, -10>>}

\* The percentages of llm_agent_promotion_gate_v1.json.
MCThresholds == [task |-> 85, path |-> 90, replan |-> 80, recall |-> 85, unclean |-> 2]

MCModes == <<"no_memory", "structured_state">>

\* A conversation whose second turn needs the memory of the first, and one that
\* needs a second plan.
MCEpisodes ==
  << <<"nothing", "memory">>, <<"replan">> >>
==============================================================================
