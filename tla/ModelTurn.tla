------------------------------ MODULE ModelTurn ------------------------------
(***************************************************************************)
(* One turn of ModelDrivenAgent, between the two uses of its memory: plan  *)
(* the calls (from the workflow DAG, from a model, or from a model under   *)
(* the guard of the DAG), then take them from a queue one by one, within   *)
(* budgets for steps, repeated calls and replans, and settle the status.   *)
(*                                                                         *)
(* A turn executes one call at a time, so an iteration of its loop is one  *)
(* action.  What the planner answers goes through ValidatedCalls, or it    *)
(* raises.                                                                 *)
(***************************************************************************)
EXTENDS Planner

CONSTANTS
  Scope,          \* what the guard compares of a call's arguments: region and window
  ModelPlans,     \* what the model may answer when asked for a plan
  Replacements,   \* what the model may answer when asked to replace a failed call
  MaxSteps,       \* max_steps
  MaxReplans,     \* max_replans
  MaxDuplicates   \* max_duplicates

ASSUME TurnAssumption ==
  /\ DOMAIN Scope = Arg
  /\ \A a \in ModelPlans \cup Replacements : IsAnswer(a)
  /\ MaxSteps \in Nat \ {0}
  /\ {MaxReplans, MaxDuplicates} \subseteq Nat

Path == {"deterministic", "pure_llm", "constrained_hybrid"}

VARIABLES
  request,      \* the question's workflow, the path and the call budget
  queue,        \* the calls to come, each with its attempt
  seen,         \* signatures not to be executed again
  duplicates,   \* repeated calls so far
  replans,      \* replans so far
  records,      \* the ToolCall records
  results,      \* the accepted results
  status        \* "planning", "running", or how the turn ended

turnVars == <<request, queue, seen, duplicates, replans, records, results, status>>

-----------------------------------------------------------------------------
(* Planning *)

DagOrder == [t \in ToolName |->
  CASE t \in {"get_market_snapshot", "compare_region_period", "explain_data_coverage"} -> 0
    [] t = Detect -> 1
    [] t = Diagnosis -> 2
    [] t = Search -> 3
    [] t = "forecast_price_risk" -> 4
    [] t = Optimize -> 5]

Baseline(r) ==
  [i \in 1..Shorter(Len(WorkflowTools[r.workflow]), r.maxToolCalls) |->
     PlannedCall(WorkflowTools[r.workflow][i], r.visual)]
BaselineTools(r) == {Baseline(r)[i].tool : i \in DOMAIN Baseline(r)}

\* A call of the baseline's tool c.tool about the same region and window as c; a
\* search may ask for anything.
InScope(c, d) == c.tool = d.tool /\ (c.tool # Search => Scope[c.args] = Scope[d.args])

\* The first proposed call that the guard accepts in the place of baseline call c.
Guarded(proposed, c) ==
  LET S == {i \in DOMAIN proposed : InScope(proposed[i], c)} IN
  IF S = {} THEN c ELSE proposed[CHOOSE i \in S : \A j \in S : i <= j]

\* The sort by DAG order is stable: call j of plan p comes no later than call i.
NotAfter(p, j, i) ==
  \/ DagOrder[p[j].tool] < DagOrder[p[i].tool]
  \/ DagOrder[p[j].tool] = DagOrder[p[i].tool] /\ j <= i
Place(p, i) == Cardinality({j \in DOMAIN p : NotAfter(p, j, i)})

\* Seeded fault: the plan is executed in planning order.
ExecutionOrderUnsorted(p) == p
ExecutionOrder(p) == [n \in DOMAIN p |-> p[CHOOSE i \in DOMAIN p : Place(p, i) = n]]

HybridGuard(proposed, base) ==
  ExecutionOrder([i \in DOMAIN base |-> Guarded(proposed, base[i])])

\* The plans the planner may come to.
Plans(r) ==
  LET proposals == {ValidatedCalls(a, r.maxToolCalls) : a \in ModelPlans} IN
  CASE r.path = "deterministic" -> {ExecutionOrder(Baseline(r))}
    [] r.path = "pure_llm" -> proposals
    [] r.path = "constrained_hybrid" -> {HybridGuard(p, Baseline(r)) : p \in proposals}

Entry(c, n) == [call |-> c, attempt |-> n]
Entries(p, n) == [i \in DOMAIN p |-> Entry(p[i], n)]

Request == [workflow : DOMAIN WorkflowTools, visual : BOOLEAN, path : Path,
            maxToolCalls : MaxToolCalls]

Init ==
  /\ request \in Request
  /\ request.workflow = "evidence_only_query" => request.visual
  /\ queue = <<>>
  /\ seen = {}
  /\ duplicates = 0
  /\ replans = 0
  /\ records = <<>>
  /\ results = <<>>
  /\ status = "planning"

PlanTurn ==
  /\ status = "planning"
  /\ \E p \in Plans(request) : queue' = Entries(p, 1)
  /\ status' = "running"
  /\ UNCHANGED <<request, seen, duplicates, replans, records, results>>

\* No planner is configured, or it fails: the turn raises.
PlanRaises ==
  /\ status = "planning"
  /\ request.path # "deterministic"
  /\ status' = "raised"
  /\ UNCHANGED <<request, queue, seen, duplicates, replans, records, results>>

-----------------------------------------------------------------------------
(* The loop over the queue *)

InLoop ==
  /\ status = "running"
  /\ queue # <<>>
  /\ Len(records) < Shorter(MaxSteps, request.maxToolCalls)
  /\ duplicates <= MaxDuplicates

\* The call the iteration pops from the queue, if it is a new signature.
Current == Head(queue)
Executes == InLoop /\ Current.call \notin seen

SkipRepeated ==
  /\ InLoop
  /\ Current.call \in seen
  /\ duplicates' = duplicates + 1
  /\ records' = Append(records, Record(Current.call, Current.attempt, "skipped"))
  /\ queue' = Tail(queue)
  /\ UNCHANGED <<request, seen, replans, results, status>>

\* Seeded fault: the derived diagnosis is queued whatever the budget.
DerivedUnbudgeted(c, e) ==
  IF c.tool = Detect /\ e # NoEvent /\ request.path # "pure_llm"
  THEN <<Entry(DiagnosisCall(e), 1)>> ELSE <<>>

\* The diagnosis queued after call c reported event e, if it fits the budget.
Derived(c, e) ==
  IF /\ c.tool = Detect
     /\ e # NoEvent
     /\ request.path # "pure_llm"
     /\ Len(queue) + Len(records) < request.maxToolCalls   \* queue' and records': -1 + 1
  THEN <<Entry(DiagnosisCall(e), 1)>> ELSE <<>>

\* The tool answers with data or evidence.
Execute ==
  /\ Executes
  /\ \E e \in EventsOf(Current.call) :
       /\ results' = Append(results, Answer(Current.call, Current.attempt, e))
       /\ queue' = Derived(Current.call, e) \o Tail(queue)
  /\ records' = Append(records, Record(Current.call, Current.attempt, "ok"))
  /\ seen' = seen \cup {Current.call}
  /\ UNCHANGED <<request, duplicates, replans, status>>

\* The tool raises, answers nothing, or times out (never on the caller's own thread).
Fails ==
  /\ Executes
  /\ \E s \in {"error", "timeout"} :
       /\ s = "timeout" => ~(Windows /\ Current.call.tool = Optimize)
       /\ records' = Append(records, Record(Current.call, Current.attempt, s))

MayReplan == replans < MaxReplans /\ request.path # "deterministic"

\* The failed call is given up.
GiveUp ==
  /\ Fails
  /\ ~MayReplan
  /\ queue' = Tail(queue)
  /\ seen' = seen \cup {Current.call}
  /\ UNCHANGED <<request, duplicates, replans, results, status>>

\* What replaces failed call c when the model answers a, of which one call is taken: in
\* the hybrid path only one of the same tool, or else the alternate channel of the
\* deterministic agent.
Replacement(c, a) ==
  LET p == ValidatedCalls(a, 1) IN
  IF request.path = "pure_llm" \/ (p # <<>> /\ p[1].tool = c.tool) THEN p
  ELSE <<RecoveryCall(c)>>

\* Seeded fault: the replacement waits behind the planned calls.
ReplanQueueLast ==
  /\ Fails
  /\ MayReplan
  /\ replans' = replans + 1
  /\ \E a \in Replacements : queue' = Tail(queue) \o Entries(Replacement(Current.call, a), 2)
  /\ UNCHANGED <<request, seen, duplicates, results, status>>

\* Seeded fault: every signature may be executed again after a failure.
ReplanForgetful ==
  /\ Fails
  /\ MayReplan
  /\ replans' = replans + 1
  /\ \E a \in Replacements : queue' = Entries(Replacement(Current.call, a), 2) \o Tail(queue)
  /\ seen' = {}
  /\ UNCHANGED <<request, duplicates, results, status>>

\* The model is asked for a replacement; the failed signature may come again.
Replan ==
  /\ Fails
  /\ MayReplan
  /\ replans' = replans + 1
  /\ \E a \in Replacements : queue' = Entries(Replacement(Current.call, a), 2) \o Tail(queue)
  /\ UNCHANGED <<request, seen, duplicates, results, status>>

\* The planner fails during the loop: the turn raises, its results are lost.
ReplanRaises ==
  /\ Fails
  /\ MayReplan
  /\ status' = "raised"
  /\ replans' = replans + 1
  /\ queue' = Tail(queue)
  /\ UNCHANGED <<request, seen, duplicates, results>>

\* Seeded fault: a tool counts as successful once it was executed.
SuccessfulAttempted == {records[i].call.tool : i \in DOMAIN records}
Successful == {results[i].call.tool : i \in DOMAIN results}

Finish ==
  /\ status = "running"
  /\ ~InLoop
  /\ status' = IF /\ \E i \in DOMAIN results : Cited(results[i])
                  /\ request.path = "pure_llm" \/ BaselineTools(request) \subseteq Successful
               THEN "completed"
               ELSE IF results # <<>> THEN "insufficient_evidence" ELSE "failed"
  /\ UNCHANGED <<request, queue, seen, duplicates, replans, records, results>>

-----------------------------------------------------------------------------
Ended == status \notin {"planning", "running"}

Next ==
  \/ PlanTurn \/ PlanRaises
  \/ SkipRepeated \/ Execute \/ GiveUp \/ Replan \/ ReplanRaises \/ Finish
  \/ Ended /\ UNCHANGED turnVars

Spec == Init /\ [][Next]_turnVars

-----------------------------------------------------------------------------
(* Properties *)

EntryType == [call : Call, attempt : {1, 2}]
RecordType == [call : Call, attempt : {1, 2}, status : {"ok", "error", "timeout", "skipped"}]
AnswerType == [call : Call, attempt : {1, 2}, event : Event \cup {NoEvent}]

\* Type invariant, with the budgets on repeated calls, replans and steps.
TypeOK ==
  /\ request \in Request
  /\ queue \in Seq(EntryType)
  /\ seen \subseteq Call
  /\ duplicates \in 0..(MaxDuplicates + 1)
  /\ replans \in 0..MaxReplans
  /\ records \in Seq(RecordType)
  /\ Len(records) <= Shorter(MaxSteps, request.maxToolCalls)
  /\ results \in Seq(AnswerType)
  /\ status \in {"planning", "running", "completed", "insufficient_evidence", "failed", "raised"}

FailedRecord(i) == records[i].status \in {"error", "timeout"}

\* A call that succeeded is never executed again in its turn, though the signature of
\* a failed one is forgotten; so the results are of distinct calls, those that succeeded.
NoRepeatAfterSuccess ==
  /\ \A i, j \in DOMAIN records :
       i < j /\ records[i].status = "ok" /\ records[j].call = records[i].call
         => records[j].status = "skipped"
  /\ \A i, j \in DOMAIN results : results[i].call = results[j].call => i = j
  /\ {results[i].call : i \in DOMAIN results} =
       {records[i].call : i \in {j \in DOMAIN records : records[j].status = "ok"}}

\* Every second attempt comes right after the failure it replaces, each costs a
\* replan, and outside the pure model path it uses the same tool.
RetriesFollowFailures ==
  /\ Cardinality({i \in DOMAIN records : records[i].attempt = 2}) <= replans
  /\ \A i \in DOMAIN records : records[i].attempt = 2 =>
       /\ i > 1 /\ FailedRecord(i - 1)
       /\ request.path # "pure_llm" => records[i].call.tool = records[i - 1].call.tool

\* Outside the pure model path the calls are executed in the order of the workflow DAG,
\* replacements and derived diagnoses included: no dispatch before its forecast.
FollowsDag ==
  request.path # "pure_llm" =>
    \A i, j \in DOMAIN records :
      i < j => DagOrder[records[i].call.tool] <= DagOrder[records[j].call.tool]

\* A completed turn outside the pure model path has an accepted result of every tool
\* of the baseline, its first attempts in the region and window of the question.
CompletedServes ==
  status = "completed" /\ request.path # "pure_llm" =>
    /\ \A t \in BaselineTools(request) : \E i \in DOMAIN results : results[i].call.tool = t
    /\ \A i \in DOMAIN results :
         results[i].attempt = 1 /\ results[i].call.tool # Diagnosis =>
           \E k \in DOMAIN Baseline(request) : InScope(results[i].call, Baseline(request)[k])

\* With steps for the longest baseline and a diagnosis, a deterministic turn leaves no
\* planned call undone: the derived diagnosis never displaces one.
NothingDisplaced ==
  request.path = "deterministic" /\ Ended /\ MaxSteps >= 6 => queue = <<>>

\* Claimed of the constrained hybrid (the runtime enforces the temporal window): every
\* result is about the region and window of the question.
WindowEnforced ==
  request.path = "constrained_hybrid" =>
    \A i \in DOMAIN results : results[i].call.tool \notin {Search, Diagnosis} =>
      Scope[results[i].call.args] = Scope[CaseArg]
=============================================================================
