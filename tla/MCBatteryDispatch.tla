-------------------------- MODULE MCBatteryDispatch --------------------------
(* An instance of BatteryDispatch for TLC. *)
EXTENDS BatteryDispatch

\* Without losses, able to cross its range in two intervals.
Lossless == [rate |-> 2, k |-> 1, minimum |-> 0, maximum |-> 4, initial |-> 2, terminal |-> 4]

\* Efficiency 1/4, from full to empty.
Lossy == [rate |-> 2, k |-> 2, minimum |-> 2, maximum |-> 8, initial |-> 8, terminal |-> 2]

\* Too slow for its range: no schedule of the MILP reaches the terminal state.
Slow == [rate |-> 2, k |-> 1, minimum |-> 0, maximum |-> 12, initial |-> 0, terminal |-> 12]

MCBattery == {Lossless, Lossy, Slow}

\* A negative price, one between the quartiles and a high one.
MCPrice == {-2, 1, 5}
MCQuartiles == {<<-2, 5>>, <<1, 5>>, <<1, 1>>}
MCSnapshots == {<<>>, <<1, 5>>, <<5, -2, 1, 5, 1>>}
MCActuals == {<<1, 1, 1, 1>>, <<5, 1, -2, 1>>, <<1, -2, 5, 5>>, <<1, 5, 1>>, <<>>}
=============================================================================
