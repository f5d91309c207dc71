-------------------------- MODULE EnergyAgentProofs --------------------------
(***************************************************************************)
(* What one run of EnergyAgent promises, proved for every set of calls,    *)
(* every pool size and every plan.                                         *)
(***************************************************************************)
EXTENDS EnergyAgent, FiniteSetTheorems, FunctionTheorems, TLAPS

Settled == {"ok", "recovered", "lost"}

\* The batch of the running stage: all its planned calls and no other.
BatchOfStage ==
  /\ phase = "start" => batch = {}
  /\ phase # "start" =>
       /\ stage \in DOMAIN StageTool
       /\ batch \subseteq Seen
       /\ \A c \in batch : c.tool \in StageTool[stage]
       /\ stage # "event_diagnosis" => \A c \in Seen : c.tool \in StageTool[stage] => c \in batch

\* What the run has made of each call, by where its stage is in the DAG: calls of
\* later stages are untouched, those of earlier stages settled.  A diagnosis the
\* planner proposed is never run, so it is not asked to be settled.
ProgressOfStage ==
  /\ \A c \in Call : progress[c] # "todo" =>
       c \in Seen /\ (c \in batch \/ StageRank[c] < Position[stage])
  /\ \A c \in Call : progress[c] = "failed" => c \in batch
  /\ phase = "recover" => \A c \in batch : progress[c] # "todo"
  /\ \A c \in Seen : c.tool # Diagnosis /\ StageRank[c] < Position[stage] =>
       progress[c] \in Settled

\* Nothing is planned before the planner answered, nor answered before the end.
OpenRun ==
  /\ stage = "plan" /\ cursor = 1 => planned = <<>>
  /\ status # "open" <=> stage = "done"
  /\ stage = "plan" => phase = "start"

AgentInv ==
  /\ TypeOK
  /\ BatchOfStage
  /\ ProgressOfStage
  /\ OpenRun
  /\ NoStrayWorker
  /\ OneResultPerCall
  /\ CompletedIsSound

-----------------------------------------------------------------------------
(* The stages of the DAG *)

\* Each tool belongs to one stage, and StageRank is that stage's position.
LEMMA RankOfStage ==
  ASSUME NEW c \in Call
  PROVE  /\ StageRank[c] \in 1..4
         /\ \A s \in DOMAIN StageTool : c.tool \in StageTool[s] <=> StageRank[c] = Position[s]
<1> DEFINE P(k) == \E s \in DOMAIN StageTool : c.tool \in StageTool[s] /\ Position[s] = k
<1>1. DOMAIN StageTool = {"market_context", "event_diagnosis", "evidence_retrieval",
                          "dispatch_and_settlement"}
  BY DEF StageTool
<1>2. /\ StageTool["market_context"] = ContextTool /\ Position["market_context"] = 1
      /\ StageTool["event_diagnosis"] = {Diagnosis} /\ Position["event_diagnosis"] = 2
      /\ StageTool["evidence_retrieval"] = {Search} /\ Position["evidence_retrieval"] = 3
      /\ StageTool["dispatch_and_settlement"] = {Optimize} /\ Position["dispatch_and_settlement"] = 4
  BY DEF StageTool, Position
<1>3. c.tool \in ContextTool \/ c.tool \in {Diagnosis} \/ c.tool \in {Search} \/ c.tool \in {Optimize}
  BY DEF Call, ToolName
<1>4. \A s \in DOMAIN StageTool : \A r \in DOMAIN StageTool :
        c.tool \in StageTool[s] /\ c.tool \in StageTool[r] => s = r
  BY <1>1, <1>2 DEF ContextTool, Diagnosis, Search, Optimize, Detect
<1>5. PICK s \in DOMAIN StageTool : c.tool \in StageTool[s]
  BY <1>1, <1>2, <1>3
<1>6. Position[s] \in 1..4 /\ P(Position[s])
  BY <1>1, <1>2, <1>5
<1>7. StageRank[c] = CHOOSE k \in 1..4 : P(k)
  BY DEF StageRank
<1>8. StageRank[c] \in 1..4 /\ P(StageRank[c])
  <2> HIDE DEF P
  <2>1. QED
    BY <1>6, <1>7
<1>9. StageRank[c] = Position[s]
  BY <1>4, <1>5, <1>8
<1>10. \A r \in DOMAIN StageTool : Position[r] = Position[s] => r = s
  BY <1>1, <1>2
<1>11. QED
  BY <1>4, <1>5, <1>8, <1>9, <1>10

\* The stages follow one another.
LEMMA StageOrder ==
  /\ \A s \in DOMAIN StageTool :
       /\ s \in DOMAIN Position
       /\ NextStage[s] \in DOMAIN Position
       /\ Position[s] \in 1..4
       /\ Position[NextStage[s]] = Position[s] + 1
       /\ NextStage[s] \notin {"plan", "done"}
  /\ DOMAIN StageTool = {"market_context", "event_diagnosis", "evidence_retrieval",
                         "dispatch_and_settlement"}
  /\ DOMAIN Position = DOMAIN StageTool \cup {"plan", "answer", "done"}
  /\ Position["plan"] = 0 /\ Position["market_context"] = 1
  /\ Position["answer"] = 5 /\ Position["done"] = 6
  /\ \A s \in DOMAIN Position : Position[s] \in 0..6
BY DEF StageTool, NextStage, Position

\* The calls a run may make are calls.
LEMMA PlanIsCalls ==
  ASSUME request \in Request
  PROVE  \A i \in DOMAIN PlanOf(request) : PlanOf(request)[i] \in Call
<1>1. /\ ByProvider(request) => request.proposal \in Seq(Call)
      /\ request.maxToolCalls \in Nat
  BY AgentAssumption, WorkflowAssumption DEF Request, ByProvider
<1>2. request.workflow \in DOMAIN WorkflowTools
  BY DEF Request
<1>3. WorkflowTools[request.workflow] \in Seq(ToolName)
  <2>1. /\ {"get_market_snapshot", "compare_region_period", "explain_data_coverage",
            "forecast_price_risk", Detect, Search, Optimize} \subseteq ToolName
    BY DEF ToolName, ContextTool, Detect
  <2>2. /\ WorkflowTools["decision_replay"] \in Seq(ToolName)
        /\ WorkflowTools["event_diagnosis"] \in Seq(ToolName)
        /\ WorkflowTools["region_comparison"] \in Seq(ToolName)
        /\ WorkflowTools["forecast_risk"] \in Seq(ToolName)
        /\ WorkflowTools["coverage"] \in Seq(ToolName)
        /\ WorkflowTools["general_market_query"] \in Seq(ToolName)
        /\ WorkflowTools["evidence_only_query"] \in Seq(ToolName)
    BY <2>1 DEF WorkflowTools
  <2>3. DOMAIN WorkflowTools = {"decision_replay", "event_diagnosis", "region_comparison",
          "forecast_risk", "coverage", "general_market_query", "evidence_only_query"}
    BY DEF WorkflowTools
  <2>4. QED
    BY <1>2, <2>2, <2>3
<1>4. \A t \in ToolName : PlannedCall(t, request.visual) \in Call
  BY AgentAssumption, WorkflowAssumption DEF PlannedCall, Call, Mode
<1>5. QED
  BY <1>1, <1>3, <1>4 DEF PlanOf, Shorter

LEMMA DiagnosisIsCall ==
  ASSUME NEW e \in Event
  PROVE  DiagnosisCall(e) \in Call /\ DiagnosisCall(e).tool = Diagnosis
BY AgentAssumption, WorkflowAssumption DEF DiagnosisCall, Call, ToolName, Mode

LEMMA RecoveryIsCall ==
  ASSUME NEW c \in Call
  PROVE  RecoveryCall(c) \in Call /\ RecoveryCall(c).tool = c.tool
BY DEF RecoveryCall, Call, Mode

-----------------------------------------------------------------------------
(* The inductive invariant *)

LEMMA NoRetryType == NoRetry \in RetryType
BY DEF NoRetry, RetryType

\* What holds initially.
LEMMA AgentInitially == Init => AgentInv
<1> SUFFICES ASSUME Init PROVE AgentInv
  OBVIOUS
<1>1. TypeOK
  <2>1. states \in Seq(AgentState)
    BY DEF Init, AgentState
  <2>2. retry \in RetryType
    BY NoRetryType DEF Init
  <2>3. request \in Request /\ cursor \in Nat \ {0} /\ planned \in Seq(Call) /\ batch \subseteq Call
    BY QuestionsAssumption DEF Init
  <2>4. records \in Seq(RecordType) /\ results \in Seq(AnswerType)
    BY DEF Init
  <2>5. stage \in DOMAIN Position /\ phase \in {"start", "collect", "recover"}
        /\ status \in {"open", "completed", "insufficient_evidence", "raised"}
    BY StageOrder DEF Init
  <2>6. progress \in [Call -> Progress] /\ worker \in [Call -> {"idle"} \cup Live \cup Returned]
    BY DEF Init, Progress
  <2>7. QED
    BY <2>1, <2>2, <2>3, <2>4, <2>5, <2>6 DEF TypeOK
<1>2. Seen = {}
  BY DEF Init, Seen
<1>3. BatchOfStage /\ ProgressOfStage /\ OpenRun
  BY <1>2 DEF Init, BatchOfStage, ProgressOfStage, OpenRun
<1>4. NoStrayWorker /\ OneResultPerCall /\ CompletedIsSound
  BY DEF Init, NoStrayWorker, OneResultPerCall, CompletedIsSound, NoRetry
<1>5. QED
  BY <1>1, <1>3, <1>4 DEF AgentInv

\* Planning adds calls that nothing has been made of yet.
LEMMA PlanCallKeeps ==
  ASSUME AgentInv, PlanCall
  PROVE  AgentInv'
<1> DEFINE c == PlanOf(request)[cursor]
<1>1. c \in Call
  BY PlanIsCalls DEF AgentInv, TypeOK, PlanCall
<1>2. /\ planned \in Seq(Call) /\ records \in Seq(RecordType) /\ cursor \in Nat \ {0}
      /\ stage = "plan" /\ phase = "start" /\ batch = {} /\ status = "open"
  BY DEF AgentInv, TypeOK, BatchOfStage, OpenRun, PlanCall
<1> HIDE DEF c
<1>3. Record(c, 1, "skipped") \in RecordType
  BY <1>1 DEF Record, RecordType
<1>4. /\ planned' \in Seq(Call) /\ records' \in Seq(RecordType)
      /\ planned' = planned \/ planned' = Append(planned, c)
  <2>1. CASE c \in Seen
    BY <1>2, <1>3, <2>1 DEF PlanCall, c
  <2>2. CASE c \notin Seen
    BY <1>1, <1>2, <2>2 DEF PlanCall, c
  <2>3. QED
    BY <2>1, <2>2
<1>5. /\ cursor' = cursor + 1 /\ stage' = stage /\ request' = request /\ status' = status
      /\ phase' = phase /\ batch' = batch /\ progress' = progress /\ worker' = worker
      /\ retry' = retry /\ results' = results /\ states' = states
  BY DEF PlanCall, stageVars
<1>6. Seen \subseteq Seen'
  <2>1. CASE planned' = planned
    BY <2>1 DEF Seen
  <2>2. CASE planned' = Append(planned, c)
    <3>1. \A i \in DOMAIN planned : i \in DOMAIN planned' /\ planned'[i] = planned[i]
      BY <1>1, <1>2, <2>2
    <3>2. QED
      BY <3>1 DEF Seen
  <2>3. QED
    BY <1>4, <2>1, <2>2
<1>7. TypeOK'
  BY <1>2, <1>4, <1>5 DEF AgentInv, TypeOK
<1>8. BatchOfStage' /\ OpenRun'
  BY <1>2, <1>5 DEF BatchOfStage, OpenRun
<1>9. Seen' \subseteq Call
  BY <1>4 DEF Seen
<1>10. ProgressOfStage'
  BY <1>2, <1>5, <1>6, <1>9, StageOrder, RankOfStage DEF AgentInv, ProgressOfStage
<1>11. NoStrayWorker' /\ OneResultPerCall' /\ CompletedIsSound'
  BY <1>2, <1>5 DEF AgentInv, NoStrayWorker, OneResultPerCall, CompletedIsSound, Failed
<1>12. QED
  BY <1>7, <1>8, <1>10, <1>11 DEF AgentInv

\* The steps between two stages, and the failure of the planner.
LEMMA NextStageKeeps ==
  ASSUME AgentInv, PlanDone \/ SkipStage \/ SkipDiagnosis
  PROVE  AgentInv'
<1>1. /\ UNCHANGED <<request, cursor, planned, records, status, phase, batch, progress, worker,
                     retry, results, states>>
      /\ phase = "start" /\ batch = {}
  BY DEF AgentInv, OpenRun, BatchOfStage, PlanDone, SkipStage, SkipDiagnosis, stageVars
<1>2. /\ stage \in DOMAIN Position /\ stage' \in DOMAIN Position
      /\ Position[stage'] = Position[stage] + 1
      /\ stage \notin {"answer", "done"} /\ stage' \notin {"plan", "done"}
  BY StageOrder DEF PlanDone, SkipStage, SkipDiagnosis, NextStage
<1>4. Seen' = Seen /\ Seen \subseteq Call
  BY <1>1 DEF Seen, AgentInv, TypeOK
<1>3. \A c \in Seen : c.tool # Diagnosis => StageRank[c] # Position[stage]
  <2>1. CASE PlanDone
    BY <1>4, <2>1, RankOfStage, StageOrder DEF PlanDone
  <2>2. CASE SkipStage
    BY <1>4, <2>2, RankOfStage, StageOrder DEF SkipStage, StageCalls
  <2>3. CASE SkipDiagnosis
    <3>1. StageTool[stage] = {Diagnosis} /\ stage \in DOMAIN StageTool
      BY <2>3 DEF SkipDiagnosis, StageTool
    <3>2. QED
      BY <1>4, <3>1, RankOfStage
  <2>4. QED
    BY <2>1, <2>2, <2>3
<1>5. TypeOK'
  BY <1>1, <1>2 DEF AgentInv, TypeOK
<1>6. BatchOfStage' /\ OpenRun'
  BY <1>1, <1>2 DEF AgentInv, BatchOfStage, OpenRun
<1>7. ProgressOfStage'
  BY <1>1, <1>2, <1>3, <1>4, StageOrder, RankOfStage DEF AgentInv, ProgressOfStage
<1>8. NoStrayWorker' /\ OneResultPerCall' /\ CompletedIsSound'
  BY <1>1, <1>4 DEF AgentInv, NoStrayWorker, OneResultPerCall, CompletedIsSound, Failed, Cited
<1>9. QED
  BY <1>5, <1>6, <1>7, <1>8 DEF AgentInv

LEMMA PlannerRaisesKeeps ==
  ASSUME AgentInv, PlannerRaises
  PROVE  AgentInv'
<1>1. /\ UNCHANGED <<request, cursor, planned, records, phase, batch, progress, worker,
                     retry, results, states>>
      /\ stage' = "done" /\ status' = "raised" /\ phase = "start" /\ batch = {} /\ planned = <<>>
  BY DEF AgentInv, OpenRun, BatchOfStage, PlannerRaises, stageVars
<1>2. Seen' = {} /\ Seen = {}
  BY <1>1 DEF Seen
<1>3. TypeOK'
  BY <1>1, StageOrder DEF AgentInv, TypeOK
<1>4. BatchOfStage' /\ OpenRun' /\ ProgressOfStage'
  BY <1>1, <1>2 DEF AgentInv, BatchOfStage, OpenRun, ProgressOfStage
<1>5. NoStrayWorker' /\ OneResultPerCall' /\ CompletedIsSound'
  BY <1>1 DEF AgentInv, NoStrayWorker, OneResultPerCall, CompletedIsSound, Failed
<1>6. QED
  BY <1>3, <1>4, <1>5 DEF AgentInv

\* Submitting the calls of a stage, none of which has been attempted.
LEMMA SubmitKeeps ==
  ASSUME AgentInv, Submit \/ Diagnose
  PROVE  AgentInv'
<1>1. /\ UNCHANGED <<request, cursor, stage, progress, retry, records, results, status>>
      /\ phase = "start" /\ phase' = "collect" /\ batch = {}
      /\ states' = Append(states, stage)
      /\ worker' = [c \in Call |-> IF c \in batch' THEN "queued" ELSE worker[c]]
  BY DEF AgentInv, BatchOfStage, Submit, Diagnose, SubmitBatch
<1>2. stage \in DOMAIN StageTool /\ stage \in AgentState
  <2>1. stage \in {"market_context", "event_diagnosis", "evidence_retrieval",
                   "dispatch_and_settlement"}
    BY DEF Submit, Diagnose
  <2>2. QED
    BY <2>1, StageOrder DEF AgentState
<1>3. planned \in Seq(Call) /\ Seen \subseteq Call
  BY DEF AgentInv, TypeOK, Seen
<1>4. /\ planned' \in Seq(Call)
      /\ Seen \subseteq Seen' /\ Seen' \subseteq Call
      /\ \A c \in Seen' : c.tool # Diagnosis => c \in Seen
      /\ batch' \subseteq Seen'
      /\ \A c \in batch' : c.tool \in StageTool[stage]
      /\ stage # "event_diagnosis" => \A c \in Seen' : c.tool \in StageTool[stage] => c \in batch'
  <2>1. CASE Submit
    BY <2>1, <1>3 DEF Submit, SubmitBatch, StageCalls, Seen
  <2>2. CASE Diagnose
    <3>1. PICK e \in MayDiagnose :
             planned' = Append(planned, DiagnosisCall(e)) /\ batch' = {DiagnosisCall(e)}
      BY <2>2 DEF Diagnose, SubmitBatch
    <3>2. e \in Event
      <4>1. PICK i \in DOMAIN results : e = results[i].event /\ e # NoEvent
        BY <3>1 DEF MayDiagnose, TopEvent, Detections
      <4>2. results[i] \in AnswerType
        BY DEF AgentInv, TypeOK
      <4>3. QED
        BY <4>1, <4>2 DEF AnswerType
    <3>3. DiagnosisCall(e) \in Call /\ DiagnosisCall(e).tool = Diagnosis
      BY <3>2, DiagnosisIsCall
    <3>4. Seen' = Seen \cup {DiagnosisCall(e)} /\ planned' \in Seq(Call)
      BY <1>3, <3>1, <3>3 DEF Seen
    <3>5. Diagnosis \in StageTool[stage] /\ stage = "event_diagnosis"
      BY <2>2 DEF Diagnose, StageTool
    <3>6. QED
      BY <1>3, <3>1, <3>3, <3>4, <3>5
  <2>3. QED
    BY <2>1, <2>2
<1>5. TypeOK'
  BY <1>1, <1>2, <1>3, <1>4 DEF AgentInv, TypeOK, Live
<1>6. BatchOfStage' /\ OpenRun'
  BY <1>1, <1>2, <1>4, StageOrder DEF AgentInv, BatchOfStage, OpenRun
<1>7. ProgressOfStage'
  <2>1. \A c \in Seen' : c.tool # Diagnosis => c \in Seen
    BY <1>4
  <2>2. QED
    BY <1>1, <1>4, <2>1 DEF AgentInv, ProgressOfStage
<1>8. NoStrayWorker'
  BY <1>1 DEF AgentInv, NoStrayWorker, NoRetry
<1>9. OneResultPerCall' /\ CompletedIsSound'
  <2>1. status' = "open"
    BY <1>1, <1>2, StageOrder DEF AgentInv, OpenRun
  <2>2. QED
    BY <1>1, <2>1 DEF AgentInv, OneResultPerCall, CompletedIsSound
<1>10. QED
  BY <1>5, <1>6, <1>7, <1>8, <1>9 DEF AgentInv

\* What the loops over the futures have in common: call c of the batch moves to
\* outcome p, with at most one result for it.
SettleStep(c, p) ==
  /\ UNCHANGED <<request, cursor, planned, stage, phase, batch, states, status>>
  /\ phase # "start"
  /\ progress[c] \in {"todo", "failed"}
  /\ progress' = [progress EXCEPT ![c] = p]
  /\ phase = "collect" => progress[c] = "todo" /\ p \in {"ok", "failed"} /\ retry' = retry
  /\ phase = "recover" => p \in {"recovered", "lost"} /\ retry' = NoRetry
  /\ \A d \in Call : worker'[d] # "idle" => worker[d] # "idle"
  /\ worker' \in [Call -> {"idle"} \cup Live \cup Returned]
  /\ records' \in Seq(RecordType)

\* The result that goes with the outcome.
ResultStep(c, p) ==
  \/ p \in {"failed", "lost"} /\ results' = results
  \/ p \in {"ok", "recovered"} /\ \E a \in AnswerType : a.call = c /\ results' = Append(results, a)

LEMMA SettleKeeps ==
  ASSUME AgentInv, NEW c \in batch, NEW p \in Progress, SettleStep(c, p), ResultStep(c, p)
  PROVE  AgentInv'
<1> USE DEF SettleStep
<1>1. /\ batch \subseteq Seen /\ Seen \subseteq Call /\ c \in Call /\ Seen' = Seen
      /\ stage \in DOMAIN StageTool
  BY DEF AgentInv, TypeOK, BatchOfStage, Seen
<1>2. /\ progress' \in [Call -> Progress]
      /\ \A d \in Call : progress'[d] = IF d = c THEN p ELSE progress[d]
  BY <1>1 DEF AgentInv, TypeOK
<1>3. results \in Seq(AnswerType) /\ results' \in Seq(AnswerType)
  <2>1. results \in Seq(AnswerType)
    BY DEF AgentInv, TypeOK
  <2>2. QED
    BY <2>1 DEF ResultStep
<1>4. TypeOK'
  <2>1. retry' \in RetryType
    BY NoRetryType DEF AgentInv, TypeOK
  <2>2. QED
    BY <1>2, <1>3, <2>1 DEF AgentInv, TypeOK
<1>5. BatchOfStage' /\ OpenRun'
  BY <1>1 DEF AgentInv, BatchOfStage, OpenRun
<1>6. phase \in {"collect", "recover"} /\ p # "todo" /\ (phase = "recover" => p # "failed")
  BY DEF AgentInv, TypeOK
<1>7. ProgressOfStage'
  <2>1. c.tool \in StageTool[stage] /\ StageRank[c] = Position[stage]
    BY <1>1, RankOfStage DEF AgentInv, BatchOfStage
  <2>2. ~(StageRank[c] < Position[stage])
    BY <2>1, RankOfStage, <1>1
  <2>3. QED
    BY <1>1, <1>2, <1>6, <2>2 DEF AgentInv, ProgressOfStage
<1>8. NoStrayWorker'
  <2>1. phase = "collect" => retry' = NoRetry
    BY DEF AgentInv, NoStrayWorker
  <2>2. retry' = NoRetry
    BY <1>6, <2>1
  <2>3. \A d \in Call : worker'[d] \in {"idle"} \cup Live \cup Returned
    OBVIOUS
  <2>4. QED
    BY <2>2 DEF AgentInv, NoStrayWorker
<1>9. OneResultPerCall'
  <2>1. \A i \in DOMAIN results : results[i].call # c
    BY <1>1 DEF AgentInv, OneResultPerCall
  <2>2. CASE p \in {"failed", "lost"} /\ results' = results
    BY <1>1, <1>2, <2>1, <2>2 DEF AgentInv, OneResultPerCall
  <2>3. CASE p \in {"ok", "recovered"} /\ \E a \in AnswerType : a.call = c /\ results' = Append(results, a)
    <3>1. PICK a \in AnswerType : a.call = c /\ results' = Append(results, a)
      BY <2>3
    <3>2. /\ DOMAIN results' = 1..(Len(results) + 1)
          /\ DOMAIN results = 1..Len(results) /\ Len(results) \in Nat
          /\ results'[Len(results) + 1] = a
          /\ \A i \in DOMAIN results : results'[i] = results[i]
      BY <1>3, <3>1
    <3>3. \A i, j \in DOMAIN results' : results'[i].call = results'[j].call => i = j
      BY <2>1, <3>1, <3>2 DEF AgentInv, OneResultPerCall
    <3>4. ASSUME NEW d \in Call
          PROVE  progress'[d] \in {"ok", "recovered"} <=> \E i \in DOMAIN results' : results'[i].call = d
      <4>1. CASE d = c
        <5>1. results'[Len(results) + 1].call = d /\ Len(results) + 1 \in DOMAIN results'
          BY <3>1, <3>2, <4>1
        <5>2. QED
          BY <1>2, <2>3, <4>1, <5>1
      <4>2. CASE d # c
        BY <1>2, <3>1, <3>2, <4>2 DEF AgentInv, OneResultPerCall
      <4>3. QED
        BY <4>1, <4>2
    <3>5. QED
      BY <3>3, <3>4 DEF OneResultPerCall
  <2>4. QED
    BY <2>2, <2>3 DEF ResultStep
<1>10. CompletedIsSound'
  <2>1. status' = "open"
    BY <1>1, StageOrder DEF AgentInv, OpenRun
  <2>2. QED
    BY <2>1 DEF CompletedIsSound
<1>11. QED
  BY <1>4, <1>5, <1>7, <1>8, <1>9, <1>10 DEF AgentInv

\* The answers a tool may give are of the right type.
LEMMA AnswerOfCall ==
  ASSUME NEW c \in Call, NEW n \in {1, 2}, NEW e \in EventsOf(c)
  PROVE  Answer(c, n, e) \in AnswerType /\ Answer(c, n, e).call = c
BY DEF Answer, AnswerType, EventsOf

\* Collecting a future settles the first attempt of its call.
LEMMA CollectSettles ==
  ASSUME AgentInv, NEW c \in batch, Collect(c) \/ CollectTimeout(c)
  PROVE  \E p \in Progress : SettleStep(c, p) /\ ResultStep(c, p)
<1>1. /\ c \in Call /\ progress[c] = "todo" /\ phase = "collect"
      /\ UNCHANGED <<request, cursor, planned, stage, phase, batch, retry, states, status>>
      /\ records \in Seq(RecordType)
      /\ worker \in [Call -> {"idle"} \cup Live \cup Returned]
  BY DEF AgentInv, TypeOK, BatchOfStage, Collect, CollectTimeout, FirstOf, Uncollected
<1>2. \A x \in {"ok", "error", "timeout"} : Record(c, 1, x) \in RecordType
  BY <1>1 DEF Record, RecordType
<1>3. {"ok", "failed"} \subseteq Progress
  BY DEF Progress
<1>4. CASE Collect(c)
  <2>1. worker' = [worker EXCEPT ![c] = "idle"]
    BY <1>4 DEF Collect
  <2>2. CASE worker[c] = "answered"
    <3>1. PICK e \in EventsOf(c) : results' = Append(results, Answer(c, 1, e))
      BY <1>4, <2>2 DEF Collect
    <3>2. records' = Append(records, Record(c, 1, "ok")) /\ progress' = [progress EXCEPT ![c] = "ok"]
      BY <1>4, <2>2 DEF Collect
    <3>3. SettleStep(c, "ok")
      BY <1>1, <1>2, <2>1, <3>2 DEF SettleStep
    <3>4. ResultStep(c, "ok")
      BY <1>1, <3>1, AnswerOfCall DEF ResultStep
    <3>5. QED
      BY <1>3, <3>3, <3>4
  <2>3. CASE worker[c] # "answered"
    <3>1. /\ results' = results /\ records' = Append(records, Record(c, 1, "error"))
          /\ progress' = [progress EXCEPT ![c] = "failed"]
      BY <1>4, <2>3 DEF Collect
    <3>2. SettleStep(c, "failed") /\ ResultStep(c, "failed")
      BY <1>1, <1>2, <2>1, <3>1 DEF SettleStep, ResultStep
    <3>3. QED
      BY <1>3, <3>2
  <2>4. QED
    BY <2>2, <2>3
<1>5. CASE CollectTimeout(c)
  <2>1. /\ results' = results /\ records' = Append(records, Record(c, 1, "timeout"))
        /\ progress' = [progress EXCEPT ![c] = "failed"] /\ worker' = worker
    BY <1>5 DEF CollectTimeout
  <2>2. SettleStep(c, "failed") /\ ResultStep(c, "failed")
    BY <1>1, <1>2, <2>1 DEF SettleStep, ResultStep
  <2>3. QED
    BY <1>3, <2>2
<1>6. QED
  BY <1>4, <1>5

\* Collecting a recovery settles the call it was made for.
LEMMA RetryCollectSettles ==
  ASSUME AgentInv, RetryCollect
  PROVE  \E c \in batch : \E p \in Progress : SettleStep(c, p) /\ ResultStep(c, p)
<1> DEFINE c == retry.call
<1>1. /\ c \in batch /\ c \in Call /\ progress[c] = "failed" /\ phase = "recover"
      /\ UNCHANGED <<request, cursor, planned, stage, phase, batch, worker, states, status>>
      /\ retry' = NoRetry
      /\ records \in Seq(RecordType)
      /\ worker' \in [Call -> {"idle"} \cup Live \cup Returned]
  BY DEF AgentInv, TypeOK, NoStrayWorker, RetryCollect, Failed, NoRetry, Returned
<1>2. \A x \in {"ok", "error", "timeout"} : Record(RecoveryCall(c), 2, x) \in RecordType
  BY <1>1, RecoveryIsCall DEF Record, RecordType
<1>3. {"recovered", "lost"} \subseteq Progress
  BY DEF Progress
<1>4. CASE retry.fut = "answered" /\ ~retry.late
  <2>1. PICK e \in EventsOf(c) : results' = Append(results, Answer(c, 2, e))
    BY <1>4 DEF RetryCollect
  <2>2. /\ records' = Append(records, Record(RecoveryCall(c), 2, "ok"))
        /\ progress' = [progress EXCEPT ![c] = "recovered"]
    BY <1>4 DEF RetryCollect
  <2>3. Answer(c, 2, e) \in AnswerType /\ Answer(c, 2, e).call = c
    BY <1>1, AnswerOfCall
  <2> HIDE DEF c
  <2>4. SettleStep(c, "recovered") /\ ResultStep(c, "recovered")
    BY <1>1, <1>2, <2>1, <2>2, <2>3 DEF SettleStep, ResultStep
  <2>5. QED
    BY <1>1, <1>3, <2>4
<1>5. CASE ~(retry.fut = "answered" /\ ~retry.late)
  <2>1. PICK x \in {"error", "timeout"} : records' = Append(records, Record(RecoveryCall(c), 2, x))
    BY <1>5 DEF RetryCollect
  <2>2. results' = results /\ progress' = [progress EXCEPT ![c] = "lost"]
    BY <1>5 DEF RetryCollect
  <2> HIDE DEF c
  <2>3. SettleStep(c, "lost") /\ ResultStep(c, "lost")
    BY <1>1, <1>2, <2>1, <2>2 DEF SettleStep, ResultStep
  <2>4. QED
    BY <1>1, <1>3, <2>3
<1>6. QED
  BY <1>4, <1>5

\* A step of the workers, the pools or the timeout of a recovery, after which no
\* tool is left behind.
LEMMA WorkerKeeps ==
  ASSUME AgentInv,
         UNCHANGED <<request, cursor, planned, stage, batch, progress, records, results,
                     states, status>>,
         worker' \in [Call -> {"idle"} \cup Live \cup Returned],
         \A c \in Call : worker'[c] # "idle" => c \in batch,
         phase' # "collect" => \A c \in Call : worker'[c] = "idle",
         retry' \in RetryType,
         retry' # NoRetry => phase' = "recover" /\ retry'.call \in Failed,
         \/ phase' = phase
         \/ phase = "collect" /\ phase' = "recover" /\ Uncollected = {}
  PROVE  AgentInv'
<1>1. Seen' = Seen /\ Failed' = Failed /\ batch \subseteq Call
  BY DEF Seen, Failed, AgentInv, TypeOK
<1>2. TypeOK'
  BY DEF AgentInv, TypeOK
<1>3. BatchOfStage' /\ OpenRun'
  BY <1>1 DEF AgentInv, BatchOfStage, OpenRun
<1>4. ProgressOfStage'
  BY <1>1 DEF AgentInv, ProgressOfStage, Uncollected
<1>5. NoStrayWorker'
  BY <1>1 DEF NoStrayWorker
<1>6. OneResultPerCall' /\ CompletedIsSound'
  BY <1>1 DEF AgentInv, OneResultPerCall, CompletedIsSound, Cited
<1>7. QED
  BY <1>2, <1>3, <1>4, <1>5, <1>6 DEF AgentInv

LEMMA PoolKeeps ==
  ASSUME AgentInv,
         \/ Join \/ RetryTimeout \/ RetryReturn
         \/ \E c \in batch : RetrySubmit(c) \/ WorkerStart(c) \/ WorkerReturn(c)
  PROVE  AgentInv'
<1>1. /\ worker \in [Call -> {"idle"} \cup Live \cup Returned] /\ retry \in RetryType
      /\ batch \subseteq Call
      /\ phase # "collect" => \A c \in Call : worker[c] = "idle"
      /\ \A c \in Call : worker[c] # "idle" => c \in batch
      /\ retry # NoRetry => phase = "recover" /\ retry.call \in Failed
      /\ phase = "start" => batch = {}
  BY DEF AgentInv, TypeOK, NoStrayWorker, BatchOfStage
<1>2. CASE Join
  <2>1. /\ UNCHANGED <<request, cursor, planned, stage, batch, progress, records, results,
                       states, status, retry>>
        /\ phase = "collect" /\ phase' = "recover" /\ Uncollected = {}
        /\ worker' = [c \in Call |-> "idle"]
    BY <1>2 DEF Join
  <2>2. retry' = NoRetry
    BY <1>1, <2>1
  <2>3. worker' \in [Call -> {"idle"} \cup Live \cup Returned]
    BY <2>1
  <2>4. QED
    BY <1>1, <2>1, <2>2, <2>3, WorkerKeeps
<1>3. CASE RetryTimeout \/ RetryReturn
  <2>1. /\ UNCHANGED <<request, cursor, planned, stage, phase, batch, progress, records, results,
                       states, status, worker>>
        /\ retry # NoRetry
    BY <1>3 DEF RetryTimeout, RetryReturn, NoRetry
  <2>2. retry' \in RetryType /\ retry'.call = retry.call
    BY <1>1, <1>3 DEF RetryTimeout, RetryReturn, RetryType, Outcomes
  <2>3. QED
    BY <1>1, <2>1, <2>2, WorkerKeeps
<1>4. ASSUME NEW c \in batch, RetrySubmit(c) PROVE AgentInv'
  <2>1. /\ UNCHANGED <<request, cursor, planned, stage, phase, batch, progress, records, results,
                       states, status, worker>>
        /\ phase = "recover" /\ c \in Failed
        /\ retry' = [call |-> c, fut |-> "running", late |-> FALSE]
    BY <1>4 DEF RetrySubmit, FirstOf
  <2>2. retry' \in RetryType /\ retry'.call = c
    BY <1>1, <2>1 DEF RetryType
  <2>3. QED
    BY <1>1, <2>1, <2>2, WorkerKeeps
<1>5. ASSUME NEW c \in batch, WorkerStart(c) \/ WorkerReturn(c) PROVE AgentInv'
  <2>1. /\ UNCHANGED <<request, cursor, planned, stage, phase, batch, progress, records, results,
                       states, status, retry>>
    BY <1>5 DEF WorkerStart, WorkerReturn
  <2>2. PICK o \in Live \cup Returned : worker' = [worker EXCEPT ![c] = o]
    BY <1>5 DEF WorkerStart, WorkerReturn, Outcomes, Live
  <2>3. worker[c] # "idle"
    BY <1>5 DEF WorkerStart, WorkerReturn, FirstOf
  <2>4. c \in Call /\ phase = "collect"
    BY <1>1, <2>3
  <2>5. worker' \in [Call -> {"idle"} \cup Live \cup Returned]
    BY <1>1, <2>2
  <2>6. \A d \in Call : worker'[d] # "idle" => d \in batch
    BY <1>1, <2>2
  <2>7. QED
    BY <1>1, <2>1, <2>4, <2>5, <2>6, WorkerKeeps
<1>6. QED
  BY <1>2, <1>3, <1>4, <1>5

\* execute_stage returns with every call of its stage settled.
LEMMA StageDoneKeeps ==
  ASSUME AgentInv, StageDone
  PROVE  AgentInv'
<1>1. /\ UNCHANGED <<request, cursor, planned, progress, worker, retry, records, results,
                     states, status>>
      /\ phase = "recover" /\ retry = NoRetry /\ Failed = {}
      /\ stage' = NextStage[stage] /\ phase' = "start" /\ batch' = {}
  BY DEF StageDone
<1>2. /\ stage \in DOMAIN StageTool /\ batch \subseteq Seen /\ Seen \subseteq Call /\ Seen' = Seen
      /\ \A c \in batch : c.tool \in StageTool[stage]
      /\ stage # "event_diagnosis" => \A c \in Seen : c.tool \in StageTool[stage] => c \in batch
  BY <1>1 DEF AgentInv, BatchOfStage, TypeOK, Seen
<1>3. \A c \in batch : progress[c] \in Settled
  BY <1>1, <1>2 DEF AgentInv, ProgressOfStage, TypeOK, Failed, Settled, Progress
<1>4. \A c \in Seen : c.tool # Diagnosis /\ StageRank[c] = Position[stage] => progress[c] \in Settled
  <2>1. stage = "event_diagnosis" => StageTool[stage] = {Diagnosis}
    BY DEF StageTool
  <2>2. QED
    BY <1>2, <1>3, <2>1, RankOfStage
<1>5. /\ stage' \in DOMAIN Position /\ Position[stage'] = Position[stage] + 1
      /\ Position[stage] \in 1..4 /\ stage' \notin {"plan", "done"} /\ stage \notin {"plan", "done"}
  BY <1>1, <1>2, StageOrder
<1>6. TypeOK'
  BY <1>1, <1>5 DEF AgentInv, TypeOK
<1>7. BatchOfStage' /\ OpenRun'
  BY <1>1, <1>5 DEF AgentInv, BatchOfStage, OpenRun
<1>8. ProgressOfStage'
  <2>1. \A c \in batch : StageRank[c] = Position[stage]
    BY <1>2, RankOfStage
  <2>2. \A c \in Call : progress[c] # "todo" => c \in Seen /\ StageRank[c] < Position[stage']
    BY <1>2, <1>5, <2>1, RankOfStage DEF AgentInv, ProgressOfStage
  <2>3. \A c \in Call : progress[c] # "failed"
    BY <1>1 DEF AgentInv, ProgressOfStage, Failed
  <2>4. \A c \in Seen : c.tool # Diagnosis /\ StageRank[c] < Position[stage'] => progress[c] \in Settled
    BY <1>2, <1>4, <1>5, RankOfStage DEF AgentInv, ProgressOfStage
  <2>5. QED
    BY <1>1, <1>2, <2>2, <2>3, <2>4 DEF ProgressOfStage
<1>9. NoStrayWorker'
  BY <1>1 DEF AgentInv, NoStrayWorker
<1>10. OneResultPerCall' /\ CompletedIsSound'
  BY <1>1, <1>2 DEF AgentInv, OneResultPerCall, CompletedIsSound, Cited
<1>11. QED
  BY <1>6, <1>7, <1>8, <1>9, <1>10 DEF AgentInv

\* The status is computed from the tools that succeeded; a call that is the only one
\* of its tool can only have succeeded itself.
LEMMA RespondKeeps ==
  ASSUME AgentInv, Respond
  PROVE  AgentInv'
<1>1. /\ UNCHANGED <<request, cursor, planned, phase, batch, progress, worker, retry, records, results>>
      /\ stage = "answer" /\ stage' = "done" /\ states' = states \o <<"verification", "answer">>
      /\ status' \in {"completed", "insufficient_evidence"}
  BY DEF Respond
<1>2. Seen' = Seen /\ Seen \subseteq Call /\ results \in Seq(AnswerType) /\ phase = "start" /\ batch = {}
  BY <1>1, StageOrder DEF AgentInv, BatchOfStage, TypeOK, Seen
<1>3. TypeOK'
  <2>1. states' \in Seq(AgentState)
    BY <1>1 DEF AgentInv, TypeOK, AgentState
  <2>2. QED
    BY <1>1, <2>1, StageOrder DEF AgentInv, TypeOK
<1>4. BatchOfStage' /\ OpenRun'
  BY <1>1, <1>2 DEF BatchOfStage, OpenRun
<1>5. ProgressOfStage'
  <2>1. \A c \in Call : StageRank[c] < Position[stage] /\ StageRank[c] < Position[stage']
    BY <1>1, StageOrder, RankOfStage
  <2>2. QED
    BY <1>1, <1>2, <2>1 DEF AgentInv, ProgressOfStage
<1>6. NoStrayWorker' /\ OneResultPerCall'
  BY <1>1 DEF AgentInv, NoStrayWorker, OneResultPerCall, Failed
<1>7. CompletedIsSound'
  <2> SUFFICES ASSUME status' = "completed" PROVE CompletedIsSound'
    BY DEF CompletedIsSound
  <2>1. RequiredTools \subseteq SuccessfulTools /\ \E i \in DOMAIN results : Cited(results[i])
    BY DEF Respond
  <2>2. ASSUME NEW c \in Seen, \A d \in Seen : d.tool = c.tool => d = c
        PROVE  \E i \in DOMAIN results : results[i].call = c
    <3>1. PICK i \in DOMAIN results : results[i].call.tool = c.tool
      BY <2>1 DEF RequiredTools, SuccessfulTools
    <3>2. results[i].call \in Call
      <4>1. results[i] \in AnswerType
        BY <1>2
      <4>2. QED
        BY <4>1 DEF AnswerType
    <3>3. results[i].call \in Seen
      BY <3>2 DEF AgentInv, OneResultPerCall, ProgressOfStage
    <3>4. QED
      BY <2>2, <3>1, <3>3
  <2>3. QED
    BY <1>1, <1>2, <2>1, <2>2 DEF CompletedIsSound, Cited
<1>8. QED
  BY <1>3, <1>4, <1>5, <1>6, <1>7 DEF AgentInv

LEMMA AgentStutterKeeps ==
  ASSUME AgentInv, UNCHANGED agentVars
  PROVE  AgentInv'
BY DEF agentVars, AgentInv, TypeOK, NoStrayWorker, BatchOfStage, ProgressOfStage, OpenRun,
   OneResultPerCall, CompletedIsSound, Seen, Failed, Cited

\* AgentInv is inductive.
LEMMA AgentStep == AgentInv /\ [Next]_agentVars => AgentInv'
<1> SUFFICES ASSUME AgentInv, [Next]_agentVars PROVE AgentInv'
  OBVIOUS
<1>1. CASE PlanCall
  BY <1>1, PlanCallKeeps
<1>2. CASE PlanDone \/ SkipStage \/ SkipDiagnosis
  BY <1>2, NextStageKeeps
<1>3. CASE PlannerRaises
  BY <1>3, PlannerRaisesKeeps
<1>4. CASE Submit \/ Diagnose
  BY <1>4, SubmitKeeps
<1>5. ASSUME NEW c \in batch, Collect(c) \/ CollectTimeout(c) PROVE AgentInv'
  BY <1>5, CollectSettles, SettleKeeps
<1>6. CASE RetryCollect
  BY <1>6, RetryCollectSettles, SettleKeeps
<1>7. CASE Join \/ RetryTimeout \/ RetryReturn
           \/ \E c \in batch : RetrySubmit(c) \/ WorkerStart(c) \/ WorkerReturn(c)
  BY <1>7, PoolKeeps
<1>8. CASE StageDone
  BY <1>8, StageDoneKeeps
<1>9. CASE Respond
  BY <1>9, RespondKeeps
<1>10. CASE Finished \/ UNCHANGED agentVars
  BY <1>10, AgentStutterKeeps DEF Finished
<1>11. QED
  BY <1>1, <1>2, <1>3, <1>4, <1>5, <1>6, <1>7, <1>8, <1>9, <1>10 DEF Next, Agent, Tools

-----------------------------------------------------------------------------
(* Safety *)

\* The invariant holds in every reachable state of a run.
THEOREM AgentInvariant == Spec => []AgentInv
<1>1. QED
  BY AgentInitially, AgentStep, PTL DEF Spec

\* Every variable of a run keeps its type (EnergyAgent.run).
THEOREM AgentTypeCorrect == Spec => []TypeOK
<1>1. AgentInv => TypeOK
  BY DEF AgentInv
<1>2. QED
  BY <1>1, AgentInvariant, PTL

\* No tool executes behind the back of the stage that submitted it, behind a recovery
\* of its stage, or behind the response (pool.shutdown(wait=True)).
THEOREM NothingStrays == Spec => []NoStrayWorker
<1>1. AgentInv => NoStrayWorker
  BY DEF AgentInv
<1>2. QED
  BY <1>1, AgentInvariant, PTL

\* However first attempts, timeouts and recoveries race, execute_stage accepts at
\* most one result per call, and one exactly when the call is not lost.
THEOREM ResultsAreUnique == Spec => []OneResultPerCall
<1>1. AgentInv => OneResultPerCall
  BY DEF AgentInv
<1>2. QED
  BY <1>1, AgentInvariant, PTL

\* A completed response rests on a result for every required call.
THEOREM CompletionIsSound == Spec => []CompletedIsSound
<1>1. AgentInv => CompletedIsSound
  BY DEF AgentInv
<1>2. QED
  BY <1>1, AgentInvariant, PTL

\* Calls of the stages before the running one are settled.
LEMMA EarlierDueSettled ==
  ASSUME AgentInv, NEW d \in Due, StageRank[d] < Position[stage]
  PROVE  progress[d] \in Settled
<1>1. d \in Seen /\ d \in Call /\ progress[d] \in Progress
  BY DEF Due, Seen, AgentInv, TypeOK
<1>2. CASE d \in batch
  <2>1. StageRank[d] = Position[stage] /\ StageRank[d] \in 1..4
    BY <1>1, <1>2, RankOfStage DEF AgentInv, BatchOfStage
  <2>2. QED
    BY <2>1
<1>3. CASE d.tool # Diagnosis
  BY <1>1, <1>3 DEF AgentInv, ProgressOfStage
<1>4. CASE d \notin batch /\ d.tool = Diagnosis
  <2>1. progress[d] \notin {"todo", "failed"}
    BY <1>1, <1>4 DEF Due, AgentInv, ProgressOfStage
  <2>2. QED
    BY <1>1, <2>1 DEF Progress, Settled
<1>5. QED
  BY <1>2, <1>3, <1>4

LEMMA BatchRank ==
  ASSUME AgentInv, NEW c \in batch
  PROVE  c \in Call /\ c \in Due /\ StageRank[c] = Position[stage]
<1>1. c \in Seen /\ c \in Call /\ stage \in DOMAIN StageTool /\ c.tool \in StageTool[stage]
  BY DEF AgentInv, TypeOK, BatchOfStage
<1>2. QED
  BY <1>1, RankOfStage DEF Due

\* The stages of the DAG are barriers: a stage is not entered while a call of an
\* earlier one may still answer or be recovered.
THEOREM StagesAreBarriers == Spec => []StageBarrier
<1>1. AgentInv => StageBarrier
  BY EarlierDueSettled, BatchRank DEF StageBarrier, Settled
<1>2. QED
  BY <1>1, AgentInvariant, PTL

-----------------------------------------------------------------------------
(* Refinement of CallLedger *)

LEMMA LedgerInit == Init => Ledger!Init
BY DEF Init, Ledger!Init, Seen, Due

\* A settled future is a first or a second attempt of the ledger.
LEMMA SettleIsAttempt ==
  ASSUME AgentInv, NEW c \in batch, NEW p \in Progress, SettleStep(c, p)
  PROVE  Ledger!FirstAttempt(c) \/ Ledger!SecondAttempt(c)
<1>1. c \in Call /\ c \in Due /\ StageRank[c] = Position[stage]
  BY BatchRank
<1>2. Ledger!EarlierSettled(c)
  BY <1>1, EarlierDueSettled DEF Ledger!EarlierSettled, Ledger!Settled, Settled
<1>3. /\ phase \in {"collect", "recover"} /\ status = "open" /\ Seen \subseteq Call
      /\ progress \in [Call -> Progress] /\ stage \in DOMAIN StageTool
  BY StageOrder DEF AgentInv, TypeOK, OpenRun, BatchOfStage, SettleStep, Seen
<1>4. Seen' = Seen /\ Due' = Due
  <2>1. Seen' = Seen
    BY DEF SettleStep, Seen
  <2>2. \A d \in Seen : d \in batch' \/ progress'[d] # "todo" <=> d \in batch \/ progress[d] # "todo"
    BY <1>3 DEF SettleStep
  <2>3. QED
    BY <2>1, <2>2 DEF Due
<1>5. CASE phase = "collect"
  <2>1. progress[c] = "todo" /\ p \in {"ok", "failed"}
    BY <1>5 DEF SettleStep
  <2>2. QED
    BY <1>1, <1>2, <1>3, <1>4, <2>1 DEF SettleStep, Ledger!FirstAttempt
<1>6. CASE phase = "recover"
  <2>1. progress[c] = "failed" /\ p \in {"recovered", "lost"}
    BY <1>6 DEF SettleStep, AgentInv, ProgressOfStage
  <2>2. \A d \in Due : StageRank[d] = StageRank[c] => progress[d] # "todo"
    <3> SUFFICES ASSUME NEW d \in Due, StageRank[d] = StageRank[c] PROVE progress[d] # "todo"
      OBVIOUS
    <3>1. d \in Seen /\ d \in Call /\ d.tool \in StageTool[stage]
      BY <1>1, <1>3, RankOfStage DEF Due
    <3>2. CASE d \in batch
      BY <1>6, <3>2 DEF AgentInv, ProgressOfStage
    <3>3. CASE d \notin batch
      <4>1. stage = "event_diagnosis"
        BY <1>6, <3>1, <3>3 DEF AgentInv, BatchOfStage
      <4>2. d.tool = Diagnosis
        BY <3>1, <4>1 DEF StageTool
      <4>3. QED
        BY <3>3, <4>2 DEF Due
    <3>4. QED
      BY <3>2, <3>3
  <2>3. QED
    BY <1>1, <1>2, <1>3, <1>4, <2>1, <2>2 DEF SettleStep, Ledger!SecondAttempt
<1>7. QED
  BY <1>3, <1>5, <1>6

LEMMA PlanIsAdopt ==
  ASSUME AgentInv, PlanCall
  PROVE  (\E c \in Call : Ledger!Adopt(c)) \/ UNCHANGED Ledger!ledgerVars
<1> DEFINE c == PlanOf(request)[cursor]
<1>1. c \in Call
  BY PlanIsCalls DEF AgentInv, TypeOK, PlanCall
<1> HIDE DEF c
<1>2. planned \in Seq(Call) /\ status = "open"
  BY DEF AgentInv, TypeOK, OpenRun, PlanCall
<1>3. batch' = batch /\ progress' = progress /\ status' = status
  BY DEF PlanCall, stageVars
<1>4. CASE c \in Seen
  <2>1. planned' = planned
    BY <1>4 DEF PlanCall, c
  <2>2. QED
    BY <1>3, <2>1 DEF Ledger!ledgerVars, Seen, Due
<1>5. CASE c \notin Seen
  <2>1. planned' = Append(planned, c)
    BY <1>5 DEF PlanCall, c
  <2>2. Seen' = Seen \cup {c}
    BY <1>1, <1>2, <2>1 DEF Seen
  <2>3. Due' \in {Due, Due \cup {c}}
    BY <1>3, <2>2 DEF Due
  <2>4. Ledger!Adopt(c)
    BY <1>2, <1>3, <1>5, <2>2, <2>3 DEF Ledger!Adopt
  <2>5. QED
    BY <1>1, <2>4
<1>6. QED
  BY <1>4, <1>5

LEMMA DiagnoseIsAdopt ==
  ASSUME AgentInv, Diagnose
  PROVE  \E c \in Call : Ledger!Adopt(c)
<1>1. PICK e \in MayDiagnose : /\ planned' = Append(planned, DiagnosisCall(e))
                             /\ batch' = {DiagnosisCall(e)}
  BY DEF Diagnose, SubmitBatch
<1>2. PICK i \in DOMAIN results : e = results[i].event /\ e # NoEvent
  BY <1>1 DEF MayDiagnose, TopEvent, Detections
<1>3. results[i] \in AnswerType
  BY DEF AgentInv, TypeOK
<1>4. DiagnosisCall(e) \in Call /\ DiagnosisCall(e).tool = Diagnosis
  BY <1>2, <1>3, DiagnosisIsCall DEF AnswerType
<1>5. planned \in Seq(Call) /\ status = "open" /\ batch = {}
  BY DEF AgentInv, TypeOK, OpenRun, BatchOfStage, Diagnose
<1>6. Seen' = Seen \cup {DiagnosisCall(e)}
  BY <1>1, <1>4, <1>5 DEF Seen
<1>7. DiagnosisCall(e) \notin Seen
  BY <1>1 DEF MayDiagnose
<1>8. progress' = progress /\ status' = status
  BY DEF Diagnose
<1>9. Due' = Due \cup {DiagnosisCall(e)}
  <2> DEFINE q == DiagnosisCall(e)
  <2>1. Seen' = Seen \cup {q} /\ batch' = {q} /\ q \notin Seen
    BY <1>1, <1>6, <1>7
  <2> HIDE DEF q
  <2>2. Due' = Due \cup {q}
    BY <1>5, <1>8, <2>1 DEF Due
  <2>3. QED
    BY <2>2 DEF q
<1>10. QED
  BY <1>4, <1>5, <1>6, <1>7, <1>8, <1>9 DEF Ledger!Adopt

LEMMA RespondIsClose ==
  ASSUME AgentInv, Respond
  PROVE  \E v \in Ledger!Verdict : Ledger!Close(v)
<1>1. /\ UNCHANGED <<planned, batch, progress, results>> /\ stage = "answer" /\ status = "open"
      /\ status' \in {"completed", "insufficient_evidence"}
  BY DEF Respond, AgentInv, OpenRun
<1>2. Seen' = Seen /\ Due' = Due /\ Due \subseteq Call /\ Seen \subseteq Call
  BY <1>1 DEF Seen, Due, AgentInv, TypeOK
<1>3. \A d \in Due : progress[d] \in Settled
  <2>1. \A d \in Due : StageRank[d] < Position[stage]
    BY <1>1, <1>2, RankOfStage, StageOrder
  <2>2. QED
    BY <2>1, EarlierDueSettled
<1>4. ASSUME status' = "completed", NEW c \in Seen
      PROVE  \E d \in Seen : [x \in Call |-> x.tool][d] = [x \in Call |-> x.tool][c]
                            /\ progress[d] \in {"ok", "recovered"}
  <2>1. PICK i \in DOMAIN results : results[i].call.tool = c.tool
    BY <1>4 DEF Respond, RequiredTools, SuccessfulTools
  <2>2. results[i] \in AnswerType
    BY DEF AgentInv, TypeOK
  <2>3. results[i].call \in Call
    BY <2>2 DEF AnswerType
  <2>4. progress[results[i].call] \in {"ok", "recovered"}
    BY <2>3 DEF AgentInv, OneResultPerCall
  <2>5. results[i].call \in Seen
    BY <2>3, <2>4 DEF AgentInv, ProgressOfStage
  <2>6. QED
    BY <1>2, <2>1, <2>3, <2>4, <2>5
<1>5. Ledger!Close(status')
  BY <1>1, <1>2, <1>3, <1>4 DEF Ledger!Close, Ledger!Settled, Ledger!Produced, Settled
<1>6. QED
  BY <1>1, <1>5 DEF Ledger!Verdict

\* The steps that the ledger does not see.
LEMMA SilentSteps ==
  ASSUME AgentInv,
         \/ PlanDone \/ SkipStage \/ SkipDiagnosis \/ Submit \/ StageDone
         \/ Join \/ RetryTimeout \/ RetryReturn \/ Finished
         \/ \E c \in batch : RetrySubmit(c) \/ WorkerStart(c) \/ WorkerReturn(c)
         \/ UNCHANGED agentVars
  PROVE  UNCHANGED Ledger!ledgerVars
<1>1. planned' = planned /\ progress' = progress /\ status' = status
  BY DEF PlanDone, SkipStage, SkipDiagnosis, Submit, StageDone, Join, RetryTimeout, RetryReturn,
         Finished, RetrySubmit, WorkerStart, WorkerReturn, agentVars, stageVars
<1>2. Seen' = Seen /\ Seen \subseteq Call
  BY <1>1 DEF Seen, AgentInv, TypeOK
<1>3. Due' = Due
  <2>1. CASE Submit
    <3>1. batch = {} /\ batch' = {c \in Seen : c.tool \in StageTool[stage]}
      BY <2>1 DEF Submit, SubmitBatch, StageCalls, AgentInv, BatchOfStage
    <3>2. Diagnosis \notin StageTool[stage]
      BY <2>1 DEF Submit, StageTool, ContextTool, Diagnosis, Search, Optimize, Detect
    <3>3. QED
      BY <1>1, <1>2, <3>1, <3>2 DEF Due
  <2>2. CASE StageDone
    <3>1. batch' = {} /\ \A c \in batch : progress[c] # "todo"
      BY <2>2 DEF StageDone, AgentInv, ProgressOfStage
    <3>2. QED
      BY <1>1, <1>2, <3>1 DEF Due
  <2>3. CASE batch' = batch
    BY <1>1, <1>2, <2>3 DEF Due
  <2>4. QED
    BY <2>1, <2>2, <2>3 DEF PlanDone, SkipStage, SkipDiagnosis, Join, RetryTimeout, RetryReturn,
       Finished, RetrySubmit, WorkerStart, WorkerReturn, agentVars, stageVars
<1>4. QED
  BY <1>1, <1>2, <1>3 DEF Ledger!ledgerVars

LEMMA LedgerStep == AgentInv /\ [Next]_agentVars => [Ledger!Next]_(Ledger!ledgerVars)
<1> SUFFICES ASSUME AgentInv, [Next]_agentVars PROVE Ledger!Next \/ UNCHANGED Ledger!ledgerVars
  OBVIOUS
<1>1. CASE PlanCall
  BY <1>1, PlanIsAdopt DEF Ledger!Next
<1>2. CASE PlannerRaises
  <2>1. /\ UNCHANGED <<planned, batch, progress>> /\ status = "open" /\ status' = "raised"
        /\ planned = <<>>
    BY <1>2 DEF PlannerRaises, AgentInv, OpenRun, stageVars
  <2>2. Seen = {} /\ Seen' = Seen /\ Due' = Due
    BY <2>1 DEF Seen, Due
  <2>3. QED
    BY <2>1, <2>2 DEF Ledger!Next, Ledger!Abort
<1>3. CASE Diagnose
  BY <1>3, DiagnoseIsAdopt DEF Ledger!Next
<1>4. ASSUME NEW c \in batch, Collect(c) \/ CollectTimeout(c) PROVE Ledger!Next
  BY <1>4, CollectSettles, SettleIsAttempt, BatchRank DEF Ledger!Next
<1>5. CASE RetryCollect
  BY <1>5, RetryCollectSettles, SettleIsAttempt, BatchRank DEF Ledger!Next
<1>6. CASE Respond
  BY <1>6, RespondIsClose DEF Ledger!Next
<1>7. CASE \/ PlanDone \/ SkipStage \/ SkipDiagnosis \/ Submit \/ StageDone
           \/ Join \/ RetryTimeout \/ RetryReturn \/ Finished
           \/ \E c \in batch : RetrySubmit(c) \/ WorkerStart(c) \/ WorkerReturn(c)
           \/ UNCHANGED agentVars
  BY <1>7, SilentSteps
<1>8. QED
  BY <1>1, <1>2, <1>3, <1>4, <1>5, <1>6, <1>7 DEF Next, Agent, Tools

\* EnergyAgent.run keeps the ledger contract: every planned call of the DAG is
\* attempted once, again only if it failed and after its whole stage, never before
\* an earlier stage is settled, and the verdict is given after all of them.
THEOREM AgentKeepsLedger == Spec => KeepsLedger
<1>1. QED
  BY LedgerInit, LedgerStep, AgentInvariant, PTL DEF Spec, KeepsLedger, Ledger!Spec

-----------------------------------------------------------------------------
(* The call records as a ledger *)

\* Of a sequence of records, those of attempt n with a status of S; and the calls of
\* which f says one of S.
RecordsAt(r, n, S) == {i \in DOMAIN r : r[i].attempt = n /\ r[i].status \in S}
CallsIn(f, S) == {c \in Call : f[c] \in S}

OneIf(b) == IF b THEN 1 ELSE 0

\* A record appended is counted where it belongs, and nowhere else.
LEMMA AppendCounts ==
  ASSUME NEW r \in Seq(RecordType), NEW x \in RecordType, NEW n, NEW S
  PROVE  /\ Cardinality(RecordsAt(r, n, S)) \in Nat
         /\ Cardinality(RecordsAt(Append(r, x), n, S)) =
              Cardinality(RecordsAt(r, n, S)) + OneIf(x.attempt = n /\ x.status \in S)
<1> DEFINE R == RecordsAt(r, n, S)
           k == Len(r) + 1
<1>1. /\ Len(r) \in Nat /\ DOMAIN r = 1 .. Len(r)
      /\ DOMAIN Append(r, x) = 1 .. k /\ Append(r, x)[k] = x
      /\ \A i \in DOMAIN r : Append(r, x)[i] = r[i]
  OBVIOUS
<1>2. IsFiniteSet(1 .. Len(r)) /\ R \subseteq 1 .. Len(r)
  BY <1>1, FS_Interval DEF RecordsAt
<1>3. IsFiniteSet(R) /\ Cardinality(R) \in Nat /\ k \notin R
  <2>1. IsFiniteSet(R)
    BY <1>2, FS_Subset
  <2> QED  BY <1>1, <1>2, <2>1, FS_CardinalityType
<1>4. DOMAIN Append(r, x) = DOMAIN r \cup {k} /\ k \notin DOMAIN r
  BY <1>1
<1>5. CASE x.attempt = n /\ x.status \in S
  <2>1. RecordsAt(Append(r, x), n, S) = R \cup {k}
    <3> HIDE DEF k
    <3> QED  BY <1>1, <1>4, <1>5 DEF RecordsAt
  <2>2. Cardinality(R \cup {k}) = Cardinality(R) + 1
    BY <1>3, FS_AddElement
  <2> QED  BY <1>3, <1>5, <2>1, <2>2 DEF OneIf
<1>6. CASE ~(x.attempt = n /\ x.status \in S)
  <2>1. RecordsAt(Append(r, x), n, S) = R
    <3> HIDE DEF k
    <3> QED  BY <1>1, <1>4, <1>6 DEF RecordsAt
  <2> QED  BY <1>3, <1>6, <2>1 DEF OneIf
<1> QED  BY <1>5, <1>6

\* A call that changes its outcome leaves one count and joins another.
LEMMA OutcomeCounts ==
  ASSUME NEW S, NEW f, IsFiniteSet(CallsIn(f, S)),
         NEW c \in Call, NEW g, \A d \in Call : d # c => g[d] = f[d]
  PROVE  /\ Cardinality(CallsIn(f, S)) \in Nat
         /\ Cardinality(CallsIn(g, S)) =
              Cardinality(CallsIn(f, S)) - OneIf(f[c] \in S) + OneIf(g[c] \in S)
<1> DEFINE F == CallsIn(f, S)
           G == F \ {c}
<1>1. /\ IsFiniteSet(G) /\ Cardinality(F) \in Nat /\ Cardinality(G) \in Nat
      /\ Cardinality(G) = Cardinality(F) - OneIf(f[c] \in S)
      /\ c \notin G
  <2>1. IsFiniteSet(G) /\ Cardinality(F) \in Nat
    BY FS_CardinalityType, FS_Subset
  <2>2. Cardinality(G) \in Nat
    BY <2>1, FS_CardinalityType
  <2>3. Cardinality(G) = IF c \in F THEN Cardinality(F) - 1 ELSE Cardinality(F)
    <3> HIDE DEF F
    <3> QED  BY FS_RemoveElement DEF F
  <2> QED  BY <2>1, <2>2, <2>3 DEF CallsIn, OneIf
<1>2. CallsIn(g, S) = IF g[c] \in S THEN G \cup {c} ELSE G
  BY DEF CallsIn
<1>3. IsFiniteSet(G \cup {c}) /\ Cardinality(G \cup {c}) = Cardinality(G) + 1
  <2> HIDE DEF G
  <2> QED  BY <1>1, FS_AddElement
<1> QED  BY <1>1, <1>2, <1>3 DEF OneIf

\* What a settled future writes: call c moves to outcome p, and one record says so.
RecordStep(c, p) ==
  /\ UNCHANGED <<cursor, planned, batch>>
  /\ progress' = [progress EXCEPT ![c] = p]
  /\ \E x \in RecordType :
       /\ records' = Append(records, x)
       /\ \/ progress[c] = "todo" /\ p = "ok" /\ x.attempt = 1 /\ x.status = "ok"
          \/ progress[c] = "todo" /\ p = "failed" /\ x.attempt = 1 /\ x.status \in {"error", "timeout"}
          \/ progress[c] = "failed" /\ p = "recovered" /\ x.attempt = 2 /\ x.status = "ok"
          \/ progress[c] = "failed" /\ p = "lost" /\ x.attempt = 2 /\ x.status \in {"error", "timeout"}

LEMMA RecordIs ==
  ASSUME NEW c \in Call, NEW n \in {1, 2}, NEW s \in {"ok", "error", "timeout", "skipped"}
  PROVE  Record(c, n, s) \in RecordType /\ Record(c, n, s).attempt = n /\ Record(c, n, s).status = s
BY DEF Record, RecordType

LEMMA CollectRecords ==
  ASSUME AgentInv, NEW c \in batch, Collect(c) \/ CollectTimeout(c)
  PROVE  \E p \in Progress : RecordStep(c, p)
<1>1. c \in Call /\ progress[c] = "todo" /\ UNCHANGED <<cursor, planned, batch>>
  BY DEF AgentInv, TypeOK, Collect, CollectTimeout, FirstOf, Uncollected
<1>2. {"ok", "failed"} \subseteq Progress
  BY DEF Progress
<1>3. CASE Collect(c) /\ worker[c] = "answered"
  <2>1. RecordStep(c, "ok")
    BY <1>1, <1>3, RecordIs DEF Collect, RecordStep
  <2> QED  BY <1>2, <2>1
<1>4. CASE Collect(c) /\ worker[c] # "answered"
  <2>1. RecordStep(c, "failed")
    BY <1>1, <1>4, RecordIs DEF Collect, RecordStep
  <2> QED  BY <1>2, <2>1
<1>5. CASE CollectTimeout(c)
  <2>1. RecordStep(c, "failed")
    BY <1>1, <1>5, RecordIs DEF CollectTimeout, RecordStep
  <2> QED  BY <1>2, <2>1
<1> QED  BY <1>3, <1>4, <1>5

LEMMA RetryRecords ==
  ASSUME AgentInv, RetryCollect
  PROVE  \E c \in batch : \E p \in Progress : RecordStep(c, p)
<1> DEFINE c == retry.call
<1>1. retry # NoRetry
  BY DEF RetryCollect, NoRetry, Returned
<1>2. c \in batch /\ progress[c] = "failed"
  BY <1>1 DEF AgentInv, NoStrayWorker, Failed
<1>3. c \in Call /\ RecoveryCall(c) \in Call
  BY <1>2, RecoveryIsCall DEF AgentInv, TypeOK
<1>4. UNCHANGED <<cursor, planned, batch>> /\ {"recovered", "lost"} \subseteq Progress
  BY DEF RetryCollect, Progress
<1>5. CASE retry.fut = "answered" /\ ~retry.late
  <2>1. records' = Append(records, Record(RecoveryCall(c), 2, "ok")) /\ progress' = [progress EXCEPT ![c] = "recovered"]
    BY <1>5 DEF RetryCollect
  <2>2. RecordStep(c, "recovered")
    BY <1>2, <1>3, <1>4, <2>1, RecordIs DEF RecordStep
  <2> QED  BY <1>2, <1>4, <2>2
<1>6. CASE ~(retry.fut = "answered" /\ ~retry.late)
  <2>1. /\ records' = Append(records, Record(RecoveryCall(c), 2, IF retry.late THEN "timeout" ELSE "error"))
        /\ progress' = [progress EXCEPT ![c] = "lost"]
    BY <1>6 DEF RetryCollect
  <2>2. RecordStep(c, "lost")
    BY <1>2, <1>3, <1>4, <2>1, RecordIs DEF RecordStep
  <2> QED  BY <1>2, <1>4, <2>2
<1> QED  BY <1>5, <1>6

\* The diagnoses that count against the plan: derived, not proposed.
DueDiagnoses == {c \in Due : c.tool = Diagnosis}

\* The ledger balances: records r, outcomes f, n planned calls, the planning loop at
\* position k, and d derived diagnoses.
Balanced(r, f, n, k, d) ==
  /\ Cardinality(RecordsAt(r, 1, {"skipped"})) + n = k - 1 + d
  /\ Cardinality(RecordsAt(r, 1, {"ok"})) = Cardinality(CallsIn(f, {"ok"}))
  /\ Cardinality(RecordsAt(r, 1, {"error", "timeout"})) =
       Cardinality(CallsIn(f, {"failed", "recovered", "lost"}))
  /\ Cardinality(RecordsAt(r, 2, {"ok"})) = Cardinality(CallsIn(f, {"recovered"}))
  /\ Cardinality(RecordsAt(r, 2, {"error", "timeout"})) = Cardinality(CallsIn(f, {"lost"}))

LEMMA LedgerIsBalanced ==
  /\ LedgerComplete <=>
       Balanced(records, progress, Len(planned), cursor, Cardinality(DueDiagnoses))
  /\ LedgerComplete' <=>
       Balanced(records', progress', Len(planned'), cursor', Cardinality(DueDiagnoses'))
<1>1. /\ \A n, S : RecordsOf(n, S) = RecordsAt(records, n, S)
      /\ \A S : CallsWith(S) = CallsIn(progress, S)
      /\ {c \in Due : c.tool = Diagnosis} = DueDiagnoses
  BY DEF RecordsOf, RecordsAt, CallsWith, CallsIn, DueDiagnoses
<1>2. /\ \A n, S : RecordsOf(n, S)' = RecordsAt(records', n, S)
      /\ \A S : CallsWith(S)' = CallsIn(progress', S)
      /\ {c \in Due : c.tool = Diagnosis}' = DueDiagnoses'
  BY DEF RecordsOf, RecordsAt, CallsWith, CallsIn, DueDiagnoses
<1> QED  BY <1>1, <1>2 DEF LedgerComplete, Balanced

LEMMA PlannedIsFinite ==
  ASSUME AgentInv
  PROVE  /\ IsFiniteSet(DueDiagnoses)
         /\ \A S : "todo" \notin S => IsFiniteSet(CallsIn(progress, S))
<1>1. planned \in Seq(Call) /\ progress \in [Call -> Progress]
  BY DEF AgentInv, TypeOK
<1>2. IsFiniteSet(DOMAIN planned)
  <2>1. DOMAIN planned = 1 .. Len(planned) /\ Len(planned) \in Nat
    BY <1>1
  <2> QED  BY <2>1, FS_Interval
<1>3. IsFiniteSet(Seen)
  <2>1. planned \in [DOMAIN planned -> Seen] /\ \A c \in Seen : \E i \in DOMAIN planned : planned[i] = c
    BY <1>1 DEF Seen
  <2>2. planned \in Surjection(DOMAIN planned, Seen)
    BY <2>1, Fun_IsSurj
  <2> QED  BY <1>2, <2>2, FS_Surjection
<1>4. DueDiagnoses \subseteq Seen
  BY DEF DueDiagnoses, Due
<1>5. \A S : "todo" \notin S => CallsIn(progress, S) \subseteq Seen
  BY DEF CallsIn, AgentInv, ProgressOfStage
<1> QED  BY <1>3, <1>4, <1>5, FS_Subset

LEMMA LedgerInitially == Init => LedgerComplete
<1> SUFFICES ASSUME Init PROVE LedgerComplete
  OBVIOUS
<1>1. /\ \A n, S : RecordsAt(records, n, S) = {}
      /\ \A S : "todo" \notin S => CallsIn(progress, S) = {}
      /\ DueDiagnoses = {}
  BY DEF Init, RecordsAt, CallsIn, Due, Seen, DueDiagnoses
<1>2. Len(planned) = 0 /\ cursor = 1
  BY DEF Init
<1>3. Cardinality({}) = 0
  BY FS_EmptySet
<1>4. Balanced(records, progress, Len(planned), cursor, Cardinality(DueDiagnoses))
  <2>1. /\ CallsIn(progress, {"ok"}) = {} /\ CallsIn(progress, {"failed", "recovered", "lost"}) = {}
        /\ CallsIn(progress, {"recovered"}) = {} /\ CallsIn(progress, {"lost"}) = {}
    BY <1>1
  <2>2. /\ RecordsAt(records, 1, {"skipped"}) = {} /\ RecordsAt(records, 1, {"ok"}) = {}
        /\ RecordsAt(records, 1, {"error", "timeout"}) = {} /\ RecordsAt(records, 2, {"ok"}) = {}
        /\ RecordsAt(records, 2, {"error", "timeout"}) = {}
    BY <1>1
  <2>3. 0 + 0 = 1 - 1 + 0
    OBVIOUS
  <2> QED  BY <1>1, <1>2, <1>3, <2>1, <2>2, <2>3 DEF Balanced
<1> QED  BY <1>4, LedgerIsBalanced

\* A settled future adds one record, of the status its call gets.
LEMMA RecordStepBalances ==
  ASSUME AgentInv, LedgerComplete, NEW c \in batch, NEW p \in Progress, RecordStep(c, p)
  PROVE  LedgerComplete'
<1> DEFINE N(n, S) == Cardinality(RecordsAt(records, n, S))
           M(S) == Cardinality(CallsIn(progress, S))
           D == Cardinality(DueDiagnoses)
<1>1. /\ records \in Seq(RecordType) /\ progress \in [Call -> Progress] /\ c \in Call
      /\ planned \in Seq(Call) /\ cursor \in Nat
  BY DEF AgentInv, TypeOK
<1>2. PICK x \in RecordType :
        /\ records' = Append(records, x)
        /\ \/ progress[c] = "todo" /\ p = "ok" /\ x.attempt = 1 /\ x.status = "ok"
           \/ progress[c] = "todo" /\ p = "failed" /\ x.attempt = 1 /\ x.status \in {"error", "timeout"}
           \/ progress[c] = "failed" /\ p = "recovered" /\ x.attempt = 2 /\ x.status = "ok"
           \/ progress[c] = "failed" /\ p = "lost" /\ x.attempt = 2 /\ x.status \in {"error", "timeout"}
  BY DEF RecordStep
<1>3. \A n, S : /\ N(n, S) \in Nat
                /\ Cardinality(RecordsAt(records', n, S)) = N(n, S) + OneIf(x.attempt = n /\ x.status \in S)
  BY <1>1, <1>2, AppendCounts
<1>4. \A S : "todo" \notin S =>
        /\ M(S) \in Nat
        /\ Cardinality(CallsIn(progress', S)) = M(S) - OneIf(progress[c] \in S) + OneIf(p \in S)
  <2>1. progress' = [progress EXCEPT ![c] = p]
    BY DEF RecordStep
  <2>2. ASSUME NEW S, "todo" \notin S
        PROVE  /\ M(S) \in Nat
               /\ Cardinality(CallsIn(progress', S)) = M(S) - OneIf(progress[c] \in S) + OneIf(p \in S)
    <3>1. IsFiniteSet(CallsIn(progress, S))
      BY <2>2, PlannedIsFinite
    <3>2. progress'[c] = p /\ \A d \in Call : d # c => progress'[d] = progress[d]
      BY <1>1, <2>1
    <3>3. /\ M(S) \in Nat
          /\ Cardinality(CallsIn(progress', S)) = M(S) - OneIf(progress[c] \in S) + OneIf(progress'[c] \in S)
      BY <1>1, <3>1, <3>2, OutcomeCounts, Zenon
    <3> QED  BY <3>2, <3>3, Zenon
  <2> QED  BY <2>2
<1>5. Due' = Due
  <2>1. Seen' = Seen /\ Seen \subseteq Call
    BY <1>1 DEF RecordStep, Seen
  <2>2. batch' = batch /\ \A d \in Seen : d # c => progress'[d] = progress[d]
    BY <1>1, <2>1 DEF RecordStep
  <2> QED  BY <2>1, <2>2 DEF Due
<1>6. /\ N(1, {"skipped"}) + Len(planned) = cursor - 1 + D
      /\ N(1, {"ok"}) = M({"ok"})
      /\ N(1, {"error", "timeout"}) = M({"failed", "recovered", "lost"})
      /\ N(2, {"ok"}) = M({"recovered"})
      /\ N(2, {"error", "timeout"}) = M({"lost"})
  BY LedgerIsBalanced DEF Balanced
<1> DEFINE NN(n, S) == Cardinality(RecordsAt(records', n, S))
           MM(S) == Cardinality(CallsIn(progress', S))
<1>7. /\ NN(1, {"skipped"}) = N(1, {"skipped"})
      /\ NN(1, {"ok"}) = N(1, {"ok"}) + OneIf(p = "ok")
      /\ NN(1, {"error", "timeout"}) = N(1, {"error", "timeout"}) + OneIf(p = "failed")
      /\ NN(2, {"ok"}) = N(2, {"ok"}) + OneIf(p = "recovered")
      /\ NN(2, {"error", "timeout"}) = N(2, {"error", "timeout"}) + OneIf(p = "lost")
  <2> HIDE DEF N, NN
  <2>1. \A n, S : N(n, S) \in Nat /\ NN(n, S) = N(n, S) + OneIf(x.attempt = n /\ x.status \in S)
    BY <1>3 DEF N, NN
  <2> QED  BY <1>2, <2>1 DEF OneIf
<1>8. /\ MM({"ok"}) = M({"ok"}) + OneIf(p = "ok")
      /\ MM({"failed", "recovered", "lost"}) = M({"failed", "recovered", "lost"}) + OneIf(p = "failed")
      /\ MM({"recovered"}) = M({"recovered"}) + OneIf(p = "recovered")
      /\ MM({"lost"}) = M({"lost"}) + OneIf(p = "lost")
  <2> HIDE DEF M, MM
  <2>1. \A S : "todo" \notin S => M(S) \in Nat /\ MM(S) = M(S) - OneIf(progress[c] \in S) + OneIf(p \in S)
    BY <1>4 DEF M, MM
  <2> QED  BY <1>2, <2>1 DEF OneIf
<1>9. /\ NN(1, {"skipped"}) + Len(planned) = cursor - 1 + D
      /\ NN(1, {"ok"}) = MM({"ok"})
      /\ NN(1, {"error", "timeout"}) = MM({"failed", "recovered", "lost"})
      /\ NN(2, {"ok"}) = MM({"recovered"})
      /\ NN(2, {"error", "timeout"}) = MM({"lost"})
  <2> HIDE DEF N, M, NN, MM, D
  <2> QED  BY <1>6, <1>7, <1>8
<1>10. planned' = planned /\ cursor' = cursor
  BY DEF RecordStep
<1>11. DueDiagnoses' = DueDiagnoses
  BY <1>5 DEF DueDiagnoses
<1> QED  BY <1>9, <1>10, <1>11, LedgerIsBalanced DEF Balanced

\* The planning loop: a repeated signature is recorded, any other planned.
LEMMA PlanCallBalances ==
  ASSUME AgentInv, LedgerComplete, PlanCall
  PROVE  LedgerComplete'
<1> DEFINE c == PlanOf(request)[cursor]
           N(n, S) == Cardinality(RecordsAt(records, n, S))
           NN(n, S) == Cardinality(RecordsAt(records', n, S))
           M(S) == Cardinality(CallsIn(progress, S))
           D == Cardinality(DueDiagnoses)
<1>1. /\ records \in Seq(RecordType) /\ planned \in Seq(Call) /\ cursor \in Nat /\ c \in Call
      /\ batch = {} /\ stage = "plan"
  BY PlanIsCalls DEF AgentInv, TypeOK, OpenRun, BatchOfStage, PlanCall
<1>2. progress' = progress /\ batch' = {} /\ cursor' = cursor + 1
  BY <1>1 DEF PlanCall, stageVars
<1>3. D \in Nat
  BY PlannedIsFinite, FS_CardinalityType
<1>4. /\ N(1, {"skipped"}) \in Nat
      /\ N(1, {"skipped"}) + Len(planned) = cursor - 1 + D
  <2>1. Record(c, 1, "skipped") \in RecordType
    BY <1>1, RecordIs
  <2> QED  BY <1>1, <2>1, AppendCounts, LedgerIsBalanced DEF Balanced
<1>5. ASSUME c \in Seen PROVE LedgerComplete'
  <2>1. records' = Append(records, Record(c, 1, "skipped")) /\ planned' = planned
    BY <1>5 DEF PlanCall
  <2>2. \A n, S : N(n, S) \in Nat /\ NN(n, S) = N(n, S) + OneIf(1 = n /\ "skipped" \in S)
    BY <1>1, <2>1, RecordIs, AppendCounts
  <2>3. DueDiagnoses' = DueDiagnoses
    BY <1>1, <1>2, <2>1 DEF DueDiagnoses, Due, Seen
  <2>4. /\ NN(1, {"skipped"}) = N(1, {"skipped"}) + 1
        /\ NN(1, {"ok"}) = N(1, {"ok"}) /\ NN(1, {"error", "timeout"}) = N(1, {"error", "timeout"})
        /\ NN(2, {"ok"}) = N(2, {"ok"}) /\ NN(2, {"error", "timeout"}) = N(2, {"error", "timeout"})
    <3> HIDE DEF N, NN
    <3> QED  BY <2>2 DEF OneIf
  <2>5. NN(1, {"skipped"}) + Len(planned) = (cursor + 1) - 1 + D
    <3> DEFINE a == N(1, {"skipped"})
               b == Len(planned)
    <3>1. a \in Nat /\ b \in Nat /\ D \in Nat /\ cursor \in Nat /\ a + b = cursor - 1 + D
      BY <1>1, <1>3, <1>4
    <3> HIDE DEF a, b, D
    <3>2. a + 1 + b = (cursor + 1) - 1 + D
      BY <3>1
    <3> QED  BY <3>2, <2>4 DEF a, b
  <2>6. Balanced(records', progress', Len(planned'), cursor', Cardinality(DueDiagnoses'))
    <3>1. /\ N(1, {"ok"}) = M({"ok"})
          /\ N(1, {"error", "timeout"}) = M({"failed", "recovered", "lost"})
          /\ N(2, {"ok"}) = M({"recovered"})
          /\ N(2, {"error", "timeout"}) = M({"lost"})
      BY LedgerIsBalanced DEF Balanced
    <3>2. /\ Len(planned') = Len(planned) /\ Cardinality(DueDiagnoses') = D
          /\ progress' = progress /\ cursor' = cursor + 1
      BY <1>2, <2>1, <2>3
    <3>3. Balanced(records', progress, Len(planned), cursor + 1, D)
      <4>1. /\ NN(1, {"ok"}) = M({"ok"})
            /\ NN(1, {"error", "timeout"}) = M({"failed", "recovered", "lost"})
            /\ NN(2, {"ok"}) = M({"recovered"})
            /\ NN(2, {"error", "timeout"}) = M({"lost"})
        <5> HIDE DEF N, NN, M
        <5> QED  BY <2>4, <3>1
      <4> QED  BY <2>5, <4>1, Zenon DEF Balanced
    <3> QED  BY <3>2, <3>3, Zenon
  <2> QED  BY <2>6, LedgerIsBalanced
<1>6. ASSUME c \notin Seen PROVE LedgerComplete'
  <2>1. records' = records /\ planned' = Append(planned, c)
    BY <1>6 DEF PlanCall
  <2> HIDE DEF c
  <2>2. Seen' = Seen \cup {c}
    BY <1>1, <2>1 DEF Seen
  <2>3. progress[c] = "todo"
    BY <1>1, <1>6 DEF AgentInv, ProgressOfStage
  <2>4. DueDiagnoses' = DueDiagnoses
    BY <1>1, <1>2, <2>2, <2>3 DEF Due, DueDiagnoses
  <2>5. Len(planned') = Len(planned) + 1
    BY <1>1, <2>1
  <2>6. N(1, {"skipped"}) + Len(planned') = (cursor + 1) - 1 + D
    <3> DEFINE a == N(1, {"skipped"})
               b == Len(planned)
    <3>1. a \in Nat /\ b \in Nat /\ D \in Nat /\ cursor \in Nat /\ a + b = cursor - 1 + D
      BY <1>1, <1>3, <1>4
    <3> HIDE DEF a, b, D
    <3>2. a + (b + 1) = (cursor + 1) - 1 + D
      BY <3>1
    <3> QED  BY <3>2, <2>5 DEF a, b
  <2>7. Balanced(records', progress', Len(planned'), cursor', Cardinality(DueDiagnoses'))
    <3>1. /\ N(1, {"ok"}) = M({"ok"})
          /\ N(1, {"error", "timeout"}) = M({"failed", "recovered", "lost"})
          /\ N(2, {"ok"}) = M({"recovered"})
          /\ N(2, {"error", "timeout"}) = M({"lost"})
      BY LedgerIsBalanced DEF Balanced
    <3>2. /\ records' = records /\ progress' = progress /\ cursor' = cursor + 1
          /\ Cardinality(DueDiagnoses') = D
      BY <1>2, <2>1, <2>4
    <3>3. Balanced(records, progress, Len(planned'), cursor + 1, D)
      BY <2>6, <3>1, Zenon DEF Balanced
    <3> QED  BY <3>2, <3>3, Zenon
  <2> QED  BY <2>7, LedgerIsBalanced
<1> QED  BY <1>5, <1>6

\* A derived diagnosis is one planned call more, and one more that counts against it.
LEMMA DiagnoseBalances ==
  ASSUME AgentInv, LedgerComplete, Diagnose
  PROVE  LedgerComplete'
<1>1. PICK e \in MayDiagnose : /\ planned' = Append(planned, DiagnosisCall(e))
                             /\ batch' = {DiagnosisCall(e)}
  BY DEF Diagnose, SubmitBatch
<1>2. PICK i \in DOMAIN results : e = results[i].event /\ e # NoEvent
  BY <1>1 DEF MayDiagnose, TopEvent, Detections
<1>3. results[i] \in AnswerType
  BY DEF AgentInv, TypeOK
<1> DEFINE q == DiagnosisCall(e)
           R == Cardinality(RecordsAt(records, 1, {"skipped"}))
           D == Cardinality(DueDiagnoses)
<1>4. q \in Call /\ q.tool = Diagnosis /\ q \notin Seen
  BY <1>1, <1>2, <1>3, DiagnosisIsCall DEF AnswerType, MayDiagnose
<1> HIDE DEF q
<1>5. /\ planned \in Seq(Call) /\ batch = {} /\ batch' = {q} /\ planned' = Append(planned, q)
      /\ records' = records /\ progress' = progress /\ cursor' = cursor
  BY <1>1 DEF AgentInv, TypeOK, BatchOfStage, Diagnose, q
<1>6. Seen' = Seen \cup {q} /\ Len(planned') = Len(planned) + 1 /\ Len(planned) \in Nat
  BY <1>4, <1>5 DEF Seen
<1>7. DueDiagnoses' = DueDiagnoses \cup {q} /\ q \notin DueDiagnoses
  BY <1>4, <1>5, <1>6 DEF Due, DueDiagnoses
<1>8. D \in Nat /\ Cardinality(DueDiagnoses') = D + 1
  BY <1>7, PlannedIsFinite, FS_AddElement, FS_CardinalityType
<1>9. R \in Nat /\ cursor \in Nat
  <2>1. records \in Seq(RecordType) /\ Record(q, 1, "skipped") \in RecordType /\ cursor \in Nat
    BY <1>4, RecordIs DEF AgentInv, TypeOK
  <2> QED  BY <2>1, AppendCounts
<1>10. R + Len(planned) = cursor - 1 + D
  BY LedgerIsBalanced DEF Balanced
<1>11. R + Len(planned') = cursor - 1 + (D + 1)
  <2> DEFINE n == Len(planned)
  <2>1. n \in Nat /\ R + n = cursor - 1 + D
    BY <1>6, <1>10
  <2> HIDE DEF n, R, D
  <2>2. R + (n + 1) = cursor - 1 + (D + 1)
    BY <1>8, <1>9, <2>1
  <2> QED  BY <1>6, <2>2 DEF n
<1>12. Balanced(records', progress', Len(planned'), cursor', Cardinality(DueDiagnoses'))
  <2>1. Balanced(records, progress, Len(planned'), cursor, D + 1)
    BY <1>11, LedgerIsBalanced, Zenon DEF Balanced
  <2> QED  BY <1>5, <1>8, <2>1, Zenon
<1> QED  BY <1>12, LedgerIsBalanced

\* The other steps write no record and settle no call.
LEMMA SilentBalances ==
  ASSUME AgentInv, LedgerComplete,
         UNCHANGED <<records, progress, planned, cursor, Due>>
  PROVE  LedgerComplete'
<1>1. DueDiagnoses' = DueDiagnoses
  BY DEF DueDiagnoses
<1> QED  BY <1>1, LedgerIsBalanced, Zenon

LEMMA LedgerSteps == AgentInv /\ LedgerComplete /\ [Next]_agentVars => LedgerComplete'
<1> SUFFICES ASSUME AgentInv, LedgerComplete, [Next]_agentVars PROVE LedgerComplete'
  OBVIOUS
<1>1. CASE PlanCall
  BY <1>1, PlanCallBalances
<1>2. CASE Diagnose
  BY <1>2, DiagnoseBalances
<1>3. ASSUME NEW c \in batch, Collect(c) \/ CollectTimeout(c) PROVE LedgerComplete'
  BY <1>3, CollectRecords, RecordStepBalances
<1>4. CASE RetryCollect
  BY <1>4, RetryRecords, RecordStepBalances
<1>5. CASE PlannerRaises \/ Respond
  <2>1. UNCHANGED <<records, progress, planned, cursor, batch>>
    BY <1>5 DEF PlannerRaises, Respond, stageVars
  <2>2. Due' = Due
    BY <2>1 DEF Due, Seen
  <2> QED  BY <2>1, <2>2, SilentBalances
<1>6. CASE \/ PlanDone \/ SkipStage \/ SkipDiagnosis \/ Submit \/ StageDone
           \/ Join \/ RetryTimeout \/ RetryReturn \/ Finished
           \/ \E c \in batch : RetrySubmit(c) \/ WorkerStart(c) \/ WorkerReturn(c)
           \/ UNCHANGED agentVars
  <2>1. UNCHANGED Ledger!ledgerVars
    BY <1>6, SilentSteps
  <2>2. Due' = Due /\ progress' = progress
    BY <2>1 DEF Ledger!ledgerVars
  <2>3. UNCHANGED <<records, planned, cursor>>
    BY <1>6 DEF PlanDone, SkipStage, SkipDiagnosis, Submit, StageDone, Join, RetryTimeout,
       RetryReturn, Finished, RetrySubmit, WorkerStart, WorkerReturn, agentVars, stageVars
  <2> QED  BY <2>2, <2>3, SilentBalances
<1> QED  BY <1>1, <1>2, <1>3, <1>4, <1>5, <1>6 DEF Next, Agent, Tools

\* The call records of the response are a complete ledger (EnergyAgent.run and
\* execute_stage): one per repeated signature, one per first attempt and one per
\* recovery, as many of each status as the run has calls with that outcome.
THEOREM RecordsAreComplete == Spec => []LedgerComplete
<1>1. LedgerComplete /\ AgentInv /\ [Next]_agentVars => LedgerComplete'
  BY LedgerSteps
<1> QED  BY <1>1, LedgerInitially, AgentInvariant, PTL DEF Spec
=============================================================================
