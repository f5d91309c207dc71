----------------------------- MODULE OrderedDict -----------------------------
(***************************************************************************)
(* The key order of a collections.OrderedDict, as a sequence without       *)
(* repetitions whose head is what popitem(last=False) takes.               *)
(***************************************************************************)
EXTENDS Integers, Sequences

Keys(s) == {s[i] : i \in DOMAIN s}

\* move_to_end of a key that is present.
MoveToEnd(s, k) ==
  LET p == CHOOSE i \in DOMAIN s : s[i] = k IN
  [i \in DOMAIN s |-> IF i < p THEN s[i] ELSE IF i < Len(s) THEN s[i + 1] ELSE k]
=============================================================================
