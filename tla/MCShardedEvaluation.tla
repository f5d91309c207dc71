------------------------- MODULE MCShardedEvaluation -------------------------
(* An instance of ShardedEvaluation for TLC.                                  *)
EXTENDS ShardedEvaluation, TLC

CONSTANTS r1, r2, c1, c2

MCRegions == <<r1, r2>>
MCCoverage == <<1, 1>>

\* One of the two jobs can be run again, at either commit.
MCMaxStarts == r1 :> 2 @@ r2 :> 1
==============================================================================
