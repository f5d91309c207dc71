----------------------------- MODULE EnergyAgent -----------------------------
(***************************************************************************)
(* One call of EnergyAgent.run: plan the tool calls, execute them stage by *)
(* stage on a thread pool with a timeout per future, give each failed call *)
(* one recovery attempt, derive the event diagnosis from the detected      *)
(* events, and answer with a status, a list of call records and a trace.   *)
(*                                                                         *)
(* Three kinds of process interleave: the thread that runs EnergyAgent.run *)
(* (the actions of the first group below), the workers of the stage's pool *)
(* (WorkerStart, WorkerReturn), and the single worker of a recovery pool   *)
(* (RetryReturn).  A tool is whatever it may answer, raise or never return.*)
(***************************************************************************)
EXTENDS Workflow

CONSTANTS
  NoCall,           \* no recovery in flight
  NoPlanner,        \* the proposal of an agent without a planner provider
  Proposals,        \* validated call sequences a configured planner may return
  Questions,        \* the requests considered
  PoolSize          \* most worker threads of a stage's pool (4 in the code)

ASSUME AgentAssumption ==
  /\ NoCall \notin Call
  /\ Proposals \ {NoPlanner} \subseteq Seq(Call)
  /\ PoolSize \in Nat \ {0}

-----------------------------------------------------------------------------
\* _build_case and _plan

Request == [workflow : DOMAIN WorkflowTools, visual : BOOLEAN,
            proposal : Proposals, maxToolCalls : MaxToolCalls]

ASSUME QuestionsAssumption == Questions \subseteq Request

ByProvider(r) == r.proposal # NoPlanner

\* A plan is cut at max_tool_calls, whoever made it.
PlanOf(r) ==
  IF ByProvider(r)
  THEN [i \in 1..Shorter(Len(r.proposal), r.maxToolCalls) |-> r.proposal[i]]
  ELSE [i \in 1..Shorter(Len(WorkflowTools[r.workflow]), r.maxToolCalls) |->
          PlannedCall(WorkflowTools[r.workflow][i], r.visual)]

-----------------------------------------------------------------------------
VARIABLES
  request,    \* the query being answered
  cursor,     \* position of the planning loop in the plan
  planned,    \* planned_calls; `seen` is the set of its elements
  stage,      \* where run() is
  phase,      \* where execute_stage() is
  batch,      \* the calls of the running stage
  progress,   \* what the loops over `pending` and `failed` made of each call
  worker,     \* the future of each call of the batch
  retry,      \* the recovery in flight
  records,    \* the ToolCall records of the response
  results,    \* the accepted tool results
  states,     \* case.states
  status      \* "open" until the response is built

agentVars == <<request, cursor, planned, stage, phase, batch, progress,
               worker, retry, records, results, states, status>>

\* The stages of run(), in order.
Position == [plan |-> 0, market_context |-> 1, event_diagnosis |-> 2,
             evidence_retrieval |-> 3, dispatch_and_settlement |-> 4, answer |-> 5, done |-> 6]
StageTool == [market_context |-> ContextTool, event_diagnosis |-> {Diagnosis},
              evidence_retrieval |-> {Search}, dispatch_and_settlement |-> {Optimize}]
NextStage == [market_context |-> "event_diagnosis", event_diagnosis |-> "evidence_retrieval",
              evidence_retrieval |-> "dispatch_and_settlement", dispatch_and_settlement |-> "answer"]

Live == {"queued", "running"}
NoRetry == [call |-> NoCall, fut |-> "idle", late |-> FALSE]

Seen == {planned[i] : i \in DOMAIN planned}

\* c is before d in planned_calls.
Before(c, d) == \E i, j \in DOMAIN planned : i < j /\ planned[i] = c /\ planned[j] = d
FirstOf(c, S) == c \in S /\ \A d \in S \ {c} : Before(c, d)

Uncollected == {c \in batch : progress[c] = "todo"}
Failed == {c \in batch : progress[c] = "failed"}

-----------------------------------------------------------------------------
(* The thread that runs EnergyAgent.run *)

Init ==
  /\ request \in Questions
  /\ request.workflow = "evidence_only_query" => request.visual
  /\ cursor = 1
  /\ planned = <<>>
  /\ stage = "plan"
  /\ phase = "start"
  /\ batch = {}
  /\ progress = [c \in Call |-> "todo"]
  /\ worker = [c \in Call |-> "idle"]
  /\ retry = NoRetry
  /\ records = <<>>
  /\ results = <<>>
  /\ states = <<"intent", "constraints">>
  /\ status = "open"

stageVars == <<phase, batch, progress, worker, retry, results, states>>

\* One iteration of the loop over the plan: a repeated signature is recorded as
\* skipped, any other is planned.
PlanCall ==
  /\ stage = "plan"
  /\ cursor \in DOMAIN PlanOf(request)
  /\ LET c == PlanOf(request)[cursor] IN
       IF c \in Seen
       THEN /\ records' = Append(records, Record(c, 1, "skipped"))
            /\ UNCHANGED planned
       ELSE /\ planned' = Append(planned, c)
            /\ UNCHANGED records
  /\ cursor' = cursor + 1
  /\ UNCHANGED <<request, stage, status, stageVars>>

PlanDone ==
  /\ stage = "plan"
  /\ cursor \notin DOMAIN PlanOf(request)
  /\ stage' = "market_context"
  /\ UNCHANGED <<request, cursor, planned, records, status, stageVars>>

\* The planner's transport fails: run() raises before anything is executed.
PlannerRaises ==
  /\ ByProvider(request)
  /\ stage = "plan"
  /\ cursor = 1
  /\ stage' = "done"
  /\ status' = "raised"
  /\ UNCHANGED <<request, cursor, planned, records, stageVars>>

\* execute_stage up to the last pool.submit.
SubmitBatch(calls) ==
  /\ calls # {}
  /\ batch' = calls
  /\ worker' = [c \in Call |-> IF c \in calls THEN "queued" ELSE worker[c]]
  /\ states' = Append(states, stage)
  /\ phase' = "collect"

StageCalls == {c \in Seen : c.tool \in StageTool[stage]}

Submit ==
  /\ stage \in {"market_context", "evidence_retrieval", "dispatch_and_settlement"}
  /\ phase = "start"
  /\ SubmitBatch(StageCalls)
  /\ UNCHANGED <<request, cursor, planned, stage, progress, retry, records, results, status>>

\* execute_stage returns at once on an empty list of calls.
SkipStage ==
  /\ stage \in {"market_context", "evidence_retrieval", "dispatch_and_settlement"}
  /\ phase = "start"
  /\ StageCalls = {}
  /\ stage' = NextStage[stage]
  /\ UNCHANGED <<request, cursor, planned, records, status, stageVars>>

\* The event that the first accepted detection ranks top, if it found any.
Detections == {i \in DOMAIN results : results[i].call.tool = Detect}
TopEvent ==
  {results[i].event : i \in {d \in Detections : \A j \in Detections : d <= j}} \ {NoEvent}

\* The event to diagnose: the budget is not used up and its diagnosis not planned.
MayDiagnose ==
  {e \in TopEvent : Len(records) < request.maxToolCalls /\ DiagnosisCall(e) \notin Seen}

\* Seeded fault: the derived call is executed without being planned.
DiagnoseUnplanned ==
  /\ stage = "event_diagnosis"
  /\ phase = "start"
  /\ \E e \in MayDiagnose : SubmitBatch({DiagnosisCall(e)})
  /\ UNCHANGED <<request, cursor, planned, stage, progress, retry, records, results, status>>

\* The diagnosis derived from the detected events is planned and run on its own.
Diagnose ==
  /\ stage = "event_diagnosis"
  /\ phase = "start"
  /\ \E e \in MayDiagnose :
       /\ planned' = Append(planned, DiagnosisCall(e))
       /\ SubmitBatch({DiagnosisCall(e)})
  /\ UNCHANGED <<request, cursor, stage, progress, retry, records, results, status>>

SkipDiagnosis ==
  /\ stage = "event_diagnosis"
  /\ phase = "start"
  /\ MayDiagnose = {}
  /\ stage' = NextStage[stage]
  /\ UNCHANGED <<request, cursor, planned, records, status, stageVars>>

\* Seeded fault: the result is appended before it is known to be usable.
CollectEmpty(c) ==
  /\ phase = "collect"
  /\ FirstOf(c, Uncollected)
  /\ worker[c] \in Returned
  /\ results' = IF worker[c] = "raised" THEN results ELSE Append(results, Answer(c, 1, NoEvent))
  /\ records' = Append(records, Record(c, 1, IF worker[c] = "answered" THEN "ok" ELSE "error"))
  /\ progress' = [progress EXCEPT ![c] = IF worker[c] = "answered" THEN "ok" ELSE "failed"]
  /\ worker' = [worker EXCEPT ![c] = "idle"]
  /\ UNCHANGED <<request, cursor, planned, stage, phase, batch, retry, states, status>>

\* future.result returned or raised within the timeout.
Collect(c) ==
  /\ phase = "collect"
  /\ FirstOf(c, Uncollected)
  /\ worker[c] \in Returned
  /\ IF worker[c] = "answered"
     THEN /\ \E e \in EventsOf(c) : results' = Append(results, Answer(c, 1, e))
          /\ records' = Append(records, Record(c, 1, "ok"))
          /\ progress' = [progress EXCEPT ![c] = "ok"]
     ELSE /\ records' = Append(records, Record(c, 1, "error"))
          /\ progress' = [progress EXCEPT ![c] = "failed"]
          /\ UNCHANGED results
  /\ worker' = [worker EXCEPT ![c] = "idle"]
  /\ UNCHANGED <<request, cursor, planned, stage, phase, batch, retry, states, status>>

\* On Windows the MILP runs on the caller's thread, without a timeout.
NativeDispatch == Windows /\ \E c \in batch : c.tool = Optimize /\ batch = {c}

\* future.result timed out; the tool keeps running, or waiting for a worker.
CollectTimeout(c) ==
  /\ phase = "collect"
  /\ FirstOf(c, Uncollected)
  /\ worker[c] \in Live
  /\ ~NativeDispatch
  /\ records' = Append(records, Record(c, 1, "timeout"))
  /\ progress' = [progress EXCEPT ![c] = "failed"]
  /\ UNCHANGED <<request, cursor, planned, stage, phase, batch, worker, retry,
                 results, states, status>>

\* Seeded fault: pool.shutdown(wait=False).
JoinNoWait ==
  /\ phase = "collect"
  /\ Uncollected = {}
  /\ phase' = "recover"
  /\ UNCHANGED <<request, cursor, planned, stage, batch, progress, worker, retry, records,
                 results, states, status>>

\* pool.shutdown(wait=True): every submitted tool has ended, what the late ones
\* answer is dropped.
Join ==
  /\ phase = "collect"
  /\ Uncollected = {}
  /\ \A c \in batch : worker[c] \notin Live
  /\ worker' = [c \in Call |-> "idle"]
  /\ phase' = "recover"
  /\ UNCHANGED <<request, cursor, planned, stage, batch, progress, retry, records,
                 results, states, status>>

\* The next failed call is submitted again to a pool of one worker.
RetrySubmit(c) ==
  /\ phase = "recover"
  /\ retry = NoRetry
  /\ FirstOf(c, Failed)
  /\ retry' = [call |-> c, fut |-> "running", late |-> FALSE]
  /\ UNCHANGED <<request, cursor, planned, stage, phase, batch, progress, worker,
                 records, results, states, status>>

\* result(timeout=retry_timeout) gave up; leaving the with block waits for the worker.
RetryTimeout ==
  /\ retry.fut = "running"
  /\ ~retry.late
  /\ retry' = [retry EXCEPT !.late = TRUE]
  /\ UNCHANGED <<request, cursor, planned, stage, phase, batch, progress, worker,
                 records, results, states, status>>

\* Seeded fault: a recovery that timed out leaves no record.
RetryCollectUnrecorded ==
  /\ retry.fut \in Returned
  /\ LET c == retry.call
         ok == retry.fut = "answered" /\ ~retry.late IN
       /\ results' = IF ok THEN Append(results, Answer(c, 2, NoEvent)) ELSE results
       /\ records' = IF retry.late THEN records
                     ELSE Append(records, Record(RecoveryCall(c), 2, IF ok THEN "ok" ELSE "error"))
       /\ progress' = [progress EXCEPT ![c] = IF ok THEN "recovered" ELSE "lost"]
  /\ retry' = NoRetry
  /\ UNCHANGED <<request, cursor, planned, stage, phase, batch, worker, states, status>>

RetryCollect ==
  /\ retry.fut \in Returned
  /\ LET c == retry.call
         again == RecoveryCall(c) IN
       IF retry.fut = "answered" /\ ~retry.late
       THEN /\ \E e \in EventsOf(c) : results' = Append(results, Answer(c, 2, e))
            /\ records' = Append(records, Record(again, 2, "ok"))
            /\ progress' = [progress EXCEPT ![c] = "recovered"]
       ELSE /\ records' = Append(records, Record(again, 2, IF retry.late THEN "timeout" ELSE "error"))
            /\ progress' = [progress EXCEPT ![c] = "lost"]
            /\ UNCHANGED results
  /\ retry' = NoRetry
  /\ UNCHANGED <<request, cursor, planned, stage, phase, batch, worker, states, status>>

\* Seeded fault: the loop over `failed` may be left early.
StageDoneEarly ==
  /\ phase = "recover"
  /\ retry = NoRetry
  /\ stage' = NextStage[stage]
  /\ phase' = "start"
  /\ batch' = {}
  /\ UNCHANGED <<request, cursor, planned, progress, worker, retry, records,
                 results, states, status>>

\* execute_stage returns.
StageDone ==
  /\ phase = "recover"
  /\ retry = NoRetry
  /\ Failed = {}
  /\ stage' = NextStage[stage]
  /\ phase' = "start"
  /\ batch' = {}
  /\ UNCHANGED <<request, cursor, planned, progress, worker, retry, records,
                 results, states, status>>

RequiredTools == {c.tool : c \in Seen}
\* Seeded fault: every attempted tool counts as successful.
AttemptedTools == {records[i].call.tool : i \in DOMAIN records}
SuccessfulTools == {results[i].call.tool : i \in DOMAIN results}

\* The status, the response and the trace.
Respond ==
  /\ stage = "answer"
  /\ status' = IF /\ \E i \in DOMAIN results : Cited(results[i])
                  /\ RequiredTools \subseteq SuccessfulTools
               THEN "completed" ELSE "insufficient_evidence"
  /\ states' = states \o <<"verification", "answer">>
  /\ stage' = "done"
  /\ UNCHANGED <<request, cursor, planned, phase, batch, progress, worker, retry,
                 records, results>>

-----------------------------------------------------------------------------
(* The worker threads *)

\* Seeded fault: the pool is sized one short of the batch.
WorkerStartShort(c) ==
  /\ FirstOf(c, {d \in batch : worker[d] = "queued"})
  /\ Cardinality({d \in batch : worker[d] = "running"}) < Shorter(PoolSize, Cardinality(batch) - 1)
  /\ worker' = [worker EXCEPT ![c] = "running"]
  /\ UNCHANGED <<request, cursor, planned, stage, phase, batch, progress, retry,
                 records, results, states, status>>

\* A free worker of the pool, of min(4, len(calls)) threads, takes the oldest
\* queued call.
WorkerStart(c) ==
  /\ FirstOf(c, {d \in batch : worker[d] = "queued"})
  /\ Cardinality({d \in batch : worker[d] = "running"}) < Shorter(PoolSize, Cardinality(batch))
  /\ worker' = [worker EXCEPT ![c] = "running"]
  /\ UNCHANGED <<request, cursor, planned, stage, phase, batch, progress, retry,
                 records, results, states, status>>

WorkerReturn(c) ==
  /\ worker[c] = "running"
  /\ \E o \in Outcomes(c) : worker' = [worker EXCEPT ![c] = o]
  /\ UNCHANGED <<request, cursor, planned, stage, phase, batch, progress, retry,
                 records, results, states, status>>

RetryReturn ==
  /\ retry.fut = "running"
  /\ \E o \in Outcomes(retry.call) : retry' = [retry EXCEPT !.fut = o]
  /\ UNCHANGED <<request, cursor, planned, stage, phase, batch, progress, worker,
                 records, results, states, status>>

-----------------------------------------------------------------------------
Agent ==
  \/ PlanCall \/ PlanDone \/ PlannerRaises
  \/ Submit \/ SkipStage \/ Diagnose \/ SkipDiagnosis
  \/ Join \/ RetryTimeout \/ RetryCollect \/ StageDone \/ Respond
  \/ \E c \in batch : Collect(c) \/ CollectTimeout(c) \/ RetrySubmit(c)

Tools == RetryReturn \/ \E c \in batch : WorkerReturn(c)

Finished == stage = "done" /\ UNCHANGED agentVars

Next == Agent \/ Tools \/ (\E c \in batch : WorkerStart(c)) \/ Finished

Spec == Init /\ [][Next]_agentVars

\* Python threads and pool workers get to run.
Scheduling ==
  /\ WF_agentVars(Agent)
  /\ WF_agentVars(\E c \in batch : WorkerStart(c))

\* Every tool answers or raises in the end.
ToolsEnd == WF_agentVars(Tools)

FairSpec == Spec /\ Scheduling /\ ToolsEnd

\* Tools that may hang.
HangSpec == Spec /\ Scheduling

-----------------------------------------------------------------------------
(* Properties *)

Progress == {"todo", "ok", "failed", "recovered", "lost"}
RecordType == [call : Call, attempt : {1, 2}, status : {"ok", "error", "timeout", "skipped"}]
RetryType == [call : Call \cup {NoCall}, fut : {"idle", "running"} \cup Returned, late : BOOLEAN]
AgentState == DOMAIN StageTool \cup {"intent", "constraints", "verification", "answer"}
AnswerType == [call : Call, attempt : {1, 2}, event : Event \cup {NoEvent}]

\* Type invariant: the ranges of the run's variables.
TypeOK ==
  /\ request \in Request
  /\ cursor \in Nat \ {0}
  /\ planned \in Seq(Call)
  /\ stage \in DOMAIN Position
  /\ phase \in {"start", "collect", "recover"}
  /\ batch \subseteq Call
  /\ progress \in [Call -> Progress]
  /\ worker \in [Call -> {"idle"} \cup Live \cup Returned]
  /\ retry \in RetryType
  /\ records \in Seq(RecordType)
  /\ results \in Seq(AnswerType)
  /\ states \in Seq(AgentState)
  /\ status \in {"open", "completed", "insufficient_evidence", "raised"}

\* No tool of the run is executing unless the stage that submitted it is waiting
\* for it: a first attempt is over before the recovery of any call of its stage
\* starts, and nothing is left running behind the response
\* (pool.shutdown(wait=True) and the with block of the recovery pool).
NoStrayWorker ==
  /\ phase # "collect" => \A c \in Call : worker[c] = "idle"
  /\ \A c \in Call : worker[c] # "idle" => c \in batch
  /\ retry # NoRetry => phase = "recover" /\ retry.call \in Failed

\* A call contributes at most one result, whatever its late first attempt and
\* its recovery answer, and it does so exactly when it is not lost.
OneResultPerCall ==
  /\ \A i, j \in DOMAIN results : results[i].call = results[j].call => i = j
  /\ \A c \in Call : progress[c] \in {"ok", "recovered"} <=>
       \E i \in DOMAIN results : results[i].call = c

\* The planned calls that execute_stage is given: a diagnosis the planner
\* proposed is in no stage, only the derived one is executed.
Due == {c \in Seen : c.tool # Diagnosis \/ c \in batch \/ progress[c] # "todo"}

RecordsOf(n, S) == {i \in DOMAIN records : records[i].attempt = n /\ records[i].status \in S}
Executed == {"ok", "error", "timeout"}
CallsWith(S) == {c \in Call : progress[c] \in S}

\* The call records are a complete ledger: one record per repeated signature, one
\* per first attempt, one per recovery, and as many of each status as the run
\* has calls with that outcome.
LedgerComplete ==
  /\ Cardinality(RecordsOf(1, {"skipped"})) + Len(planned) =
       cursor - 1 + Cardinality({c \in Due : c.tool = Diagnosis})
  /\ Cardinality(RecordsOf(1, {"ok"})) = Cardinality(CallsWith({"ok"}))
  /\ Cardinality(RecordsOf(1, {"error", "timeout"})) =
       Cardinality(CallsWith({"failed", "recovered", "lost"}))
  /\ Cardinality(RecordsOf(2, {"ok"})) = Cardinality(CallsWith({"recovered"}))
  /\ Cardinality(RecordsOf(2, {"error", "timeout"})) = Cardinality(CallsWith({"lost"}))

StageRank == [c \in Call |->
  CHOOSE k \in 1..4 : \E s \in DOMAIN StageTool : c.tool \in StageTool[s] /\ Position[s] = k]

\* Dependent stages: while a tool of a stage is submitted, executing or being
\* recovered, no planned call of an earlier stage is unsettled.  In particular no
\* battery is dispatched while the forecast may still be recovered.
StageBarrier ==
  \A c \in batch : \A d \in Due :
    StageRank[d] < StageRank[c] => progress[d] \in {"ok", "recovered", "lost"}

\* A completed response has, for every planned call that is the only one of its
\* tool, a result of that very call, and carries a citation.
CompletedIsSound ==
  status = "completed" =>
    /\ \A c \in Seen : (\A d \in Seen : d.tool = c.tool => d = c) =>
         \E i \in DOMAIN results : results[i].call = c
    /\ \E i \in DOMAIN results : Cited(results[i])

\* Under tools that end, every request is answered.
EveryRunEnds == <>(stage = "done")

\* Claimed of the production path (hard timeouts): a run is answered even if a tool
\* hangs.  It is not: both pools are joined before run() goes on.
HardTimeout == <>(stage = "done")

\* Claimed of the failure policy: a response that lacks a tool the workflow requires
\* is not completed.  The plan is cut at max_tool_calls before it is taken as the
\* list of required tools, so it may be.
MissingToolInsufficient ==
  status = "completed" =>
    \A i \in DOMAIN WorkflowTools[request.workflow] :
      WorkflowTools[request.workflow][i] \in SuccessfulTools

Ledger == INSTANCE CallLedger WITH
  Stage <- StageRank,
  Tool <- [c \in Call |-> c.tool],
  owed <- Seen,
  due <- Due,
  verdict <- status

\* Refinement: a run keeps the ledger contract, each call being owed once planned
\* and settled by the loops over the futures.
KeepsLedger == Ledger!Spec
=============================================================================
