------------------------------- MODULE Ordering -------------------------------
(* The elements of a set of numbers, and the kept elements of a sequence, in order. *)
EXTENDS Integers, FiniteSets

InOrder(S) ==
  [n \in 1 .. Cardinality(S) |-> CHOOSE t \in S : Cardinality({u \in S : u <= t}) = n]

\* The entries of a sequence at the positions of S.
EntriesAt(s, S) == [n \in 1 .. Cardinality(S) |-> s[InOrder(S)[n]]]
=============================================================================
