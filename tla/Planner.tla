-------------------------------- MODULE Planner --------------------------------
(***************************************************************************)
(* The clients of planner models (Ollama, llama.cpp, Model Studio): what   *)
(* reaches the orchestrators of the tool calls in a model's message.  The  *)
(* model itself is external and may answer anything.                       *)
(***************************************************************************)
EXTENDS Workflow, Ordering

CONSTANTS
  Malformed,    \* calls that validation rejects: not an object, an unregistered tool, a
                \* forbidden key, arguments that are no JSON or do not fit the schema
  NoList        \* a message whose tool_calls are no list

ASSUME PlannerAssumption == Malformed \cap Call = {}

IsAnswer(a) == a = NoList \/ a \in Seq(Call \cup Malformed)

\* The message is cut before its calls are validated: a rejected call uses up its place.
ValidatedCalls(a, limit) ==
  IF a = NoList THEN <<>>
  ELSE EntriesAt(a, {i \in 1..Shorter(Len(a), limit) : a[i] \in Call})
===============================================================================
