---------------------------- MODULE MCWalkForward ----------------------------
(* An instance of WalkForward for TLC: days of three intervals, two seasons.  *)
EXTENDS WalkForward, TLC

\* Of the three windows of two seasons the last one does not fit the data.
MCSeasonOf == 9 :> "winter" @@ 18 :> "spring" @@ 22 :> "winter"

\* Nothing is missing; an interval of the training rows, of a calibration or of a
\* test day, or of two; a day and more; the first days, so that a season has no window.
MCGaps ==
  {{}, {7}, {20}, {26}, {19, 20, 26}, {20, 23}, 40 .. 42, {43, 44}, {50, 61}, {1, 2}, 1 .. 12}
==============================================================================
