----------------------------- MODULE CallLedger -----------------------------
(***************************************************************************)
(* What one agent run promises about the tool calls it plans, with nothing *)
(* said of threads, futures, timeouts or call records.                     *)
(*                                                                         *)
(* A run owes the calls it plans; those that a stage of the DAG runs are   *)
(* due.  A due call is attempted once, and a second time if that failed.   *)
(* Nothing of a stage is attempted while a due call of an earlier stage is *)
(* unsettled, and no second attempt is made before every due call of its   *)
(* stage had its first.  The run closes with every due call settled, and   *)
(* closes as "completed" only if every tool it owes produced a result.     *)
(***************************************************************************)
EXTENDS Integers

CONSTANTS
  Call,      \* the call signatures a run may plan
  Stage,     \* Stage[c]: position in the DAG of the stage that runs call c
  Tool       \* Tool[c]: the tool that call c names

VARIABLES
  owed,      \* the calls the run has planned
  due,       \* those that a stage of the DAG runs
  progress,  \* what has become of each call
  verdict    \* "open" until the run answers

ledgerVars == <<owed, due, progress, verdict>>

Settled == {"ok", "recovered", "lost"}
Produced == {"ok", "recovered"}
Verdict == {"completed", "insufficient_evidence"}

EarlierSettled(c) == \A d \in due : Stage[d] < Stage[c] => progress[d] \in Settled

Init ==
  /\ owed = {}
  /\ due = {}
  /\ progress = [c \in Call |-> "todo"]
  /\ verdict = "open"

Adopt(c) ==
  /\ verdict = "open"
  /\ c \notin owed
  /\ owed' = owed \cup {c}
  /\ due' \in {due, due \cup {c}}
  /\ UNCHANGED <<progress, verdict>>

FirstAttempt(c) ==
  /\ verdict = "open"
  /\ c \in due
  /\ progress[c] = "todo"
  /\ EarlierSettled(c)
  /\ \E p \in {"ok", "failed"} : progress' = [progress EXCEPT ![c] = p]
  /\ UNCHANGED <<owed, due, verdict>>

SecondAttempt(c) ==
  /\ verdict = "open"
  /\ c \in due
  /\ progress[c] = "failed"
  /\ EarlierSettled(c)
  /\ \A d \in due : Stage[d] = Stage[c] => progress[d] # "todo"
  /\ \E p \in {"recovered", "lost"} : progress' = [progress EXCEPT ![c] = p]
  /\ UNCHANGED <<owed, due, verdict>>

Close(v) ==
  /\ verdict = "open"
  /\ \A c \in due : progress[c] \in Settled
  /\ v = "completed" =>
       \A c \in owed : \E d \in owed : Tool[d] = Tool[c] /\ progress[d] \in Produced
  /\ verdict' = v
  /\ UNCHANGED <<owed, due, progress>>

\* Planning itself fails.
Abort ==
  /\ verdict = "open"
  /\ owed = {}
  /\ verdict' = "raised"
  /\ UNCHANGED <<owed, due, progress>>

Next ==
  \/ Abort
  \/ \E c \in Call : Adopt(c) \/ FirstAttempt(c) \/ SecondAttempt(c)
  \/ \E v \in Verdict : Close(v)

Spec == Init /\ [][Next]_ledgerVars
=============================================================================
