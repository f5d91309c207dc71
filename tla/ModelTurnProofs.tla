--------------------------- MODULE ModelTurnProofs ---------------------------
(***************************************************************************)
(* What one turn of ModelDrivenAgent promises on each of its three paths,  *)
(* proved for every answer of the model and every budget.                  *)
(***************************************************************************)
EXTENDS ModelTurn, DataLemmas

Order(x) == DagOrder[x.call.tool]

\* Before the plan there is nothing.
NothingYet ==
  status = "planning" =>
    /\ queue = <<>> /\ records = <<>> /\ results = <<>> /\ seen = {}
    /\ duplicates = 0 /\ replans = 0

\* NoRepeatAfterSuccess needs it: a call that succeeded has its signature in seen, from
\* where no action removes it.
SuccessIsSeen ==
  \A i \in DOMAIN records : records[i].status = "ok" => records[i].call \in seen

Retries == {i \in DOMAIN records : records[i].attempt = 2}
RetryNext == queue # <<>> /\ queue[1].attempt = 2

\* RetriesFollowFailures needs it: a replacement waits at the head of the queue only,
\* right after its failure, and is paid for.
RetryAtHead ==
  /\ \A i \in DOMAIN queue : queue[i].attempt = 2 =>
       /\ i = 1 /\ records # <<>> /\ FailedRecord(Len(records))
       /\ request.path # "pure_llm" =>
            queue[1].call.tool = records[Len(records)].call.tool
  /\ Cardinality(Retries) + (IF RetryNext THEN 1 ELSE 0) <= replans

\* FollowsDag needs it: what waits is in the order of the DAG, each tool once, after
\* what was executed, and a diagnosis is planned by nobody.
QueueFollowsDag ==
  request.path # "pure_llm" =>
    /\ \A i, j \in DOMAIN queue : i < j => Order(queue[i]) < Order(queue[j])
    /\ \A i \in DOMAIN records, j \in DOMAIN queue : Order(records[i]) <= Order(queue[j])
    /\ \A i, j \in DOMAIN queue : ~ (queue[i].call.tool = Detect /\ queue[j].call.tool = Diagnosis)

\* CompletedServes needs it: a first attempt is a planned call, or the diagnosis.
FirstAttempt(x) == x.attempt = 1 /\ x.call.tool # Diagnosis
Planned(x) == \E k \in DOMAIN Baseline(request) : InScope(x.call, Baseline(request)[k])
PlannedInScope ==
  request.path # "pure_llm" =>
    /\ \A i \in DOMAIN queue : FirstAttempt(queue[i]) => Planned(queue[i])
    /\ \A i \in DOMAIN results : FirstAttempt(results[i]) => Planned(results[i])

Diagnosed ==
  \/ \E i \in DOMAIN queue : queue[i].call.tool = Diagnosis
  \/ \E i \in DOMAIN records : records[i].call.tool = Diagnosis

\* NothingDisplaced needs it: a deterministic turn executes each tool once, so nothing
\* is skipped, and calls done and to come fit the budgets.
DeterministicFits ==
  request.path = "deterministic" =>
    /\ replans = 0 /\ duplicates = 0
    /\ \A i \in DOMAIN records, j \in DOMAIN queue : Order(records[i]) < Order(queue[j])
    /\ seen \subseteq {records[i].call : i \in DOMAIN records}
    /\ Len(records) + Len(queue) <= request.maxToolCalls
    /\ Len(records) + Len(queue) <= 5 + (IF Diagnosed THEN 1 ELSE 0)
    /\ Ended /\ MaxSteps >= 6 => queue = <<>>

TurnInv ==
  /\ TypeOK /\ NothingYet
  /\ SuccessIsSeen /\ NoRepeatAfterSuccess
  /\ RetryAtHead /\ RetriesFollowFailures
  /\ QueueFollowsDag /\ FollowsDag
  /\ PlannedInScope /\ CompletedServes
  /\ DeterministicFits

-----------------------------------------------------------------------------
(* The plans. *)

LEMMA Assumptions ==
  /\ CaseArg \in Arg /\ Event \subseteq Arg /\ NoEvent \notin Event
  /\ \A n \in MaxToolCalls : n \in Nat /\ n > 0
  /\ \A a \in ModelPlans \cup Replacements : IsAnswer(a)
  /\ MaxSteps \in Nat /\ MaxSteps > 0 /\ MaxReplans \in Nat /\ MaxDuplicates \in Nat
BY WorkflowAssumption, TurnAssumption

\* The places of the tools in the DAG: detection and diagnosis have theirs alone.
LEMMA DagOrders ==
  /\ DagOrder[Detect] = 1 /\ DagOrder[Diagnosis] = 2
  /\ \A t \in ToolName : /\ DagOrder[t] \in 0..5
                         /\ t # Detect => DagOrder[t] # 1
                         /\ t # Diagnosis => DagOrder[t] # 2
BY DEF DagOrder, ToolName, ContextTool, Detect, Diagnosis, Search, Optimize

\* No workflow plans a tool twice, or two of one place in the DAG, or a diagnosis.
LEMMA WorkflowToolLists ==
  ASSUME NEW w \in DOMAIN WorkflowTools
  PROVE  LET s == WorkflowTools[w] IN
         /\ s \in Seq(ToolName \ {Diagnosis})
         /\ Len(s) <= 5
         /\ \A i, j \in 1..Len(s) : DagOrder[s[i]] = DagOrder[s[j]] => i = j
<1> USE DEF ToolName, ContextTool, Detect, Diagnosis, Search, Optimize
<1> DEFINE s == WorkflowTools[w]
<1>1. CASE w = "decision_replay"
  <2>1. s = <<"get_market_snapshot", "forecast_price_risk", Detect, Search, Optimize>>
    BY <1>1 DEF WorkflowTools
  <2>2. DagOrder[s[1]] = 0 /\ DagOrder[s[2]] = 4 /\ DagOrder[s[3]] = 1 /\ DagOrder[s[4]] = 3
        /\ DagOrder[s[5]] = 5
    BY <2>1 DEF DagOrder
  <2>3. s \in Seq(ToolName \ {Diagnosis}) /\ Len(s) = 5
    BY <2>1
  <2> QED  BY <2>2, <2>3
<1>2. CASE w = "event_diagnosis"
  <2>1. s = <<"get_market_snapshot", Detect, Search>>
    BY <1>2 DEF WorkflowTools
  <2>2. DagOrder[s[1]] = 0 /\ DagOrder[s[2]] = 1 /\ DagOrder[s[3]] = 3
    BY <2>1 DEF DagOrder
  <2>3. s \in Seq(ToolName \ {Diagnosis}) /\ Len(s) = 3
    BY <2>1
  <2> QED  BY <2>2, <2>3
<1>3. CASE w \in {"region_comparison", "forecast_risk", "coverage", "general_market_query"}
  <2>1. PICK t \in ContextTool : t # Detect /\ s = <<t, Search>>
    BY <1>3 DEF WorkflowTools
  <2>2. DagOrder[s[2]] = 3 /\ DagOrder[s[1]] # 3
    BY <2>1 DEF DagOrder
  <2>3. s \in Seq(ToolName \ {Diagnosis}) /\ Len(s) = 2
    BY <2>1
  <2> QED  BY <2>2, <2>3
<1>4. CASE w = "evidence_only_query"
  <2>1. s = <<Search>>
    BY <1>4 DEF WorkflowTools
  <2> QED  BY <2>1
<1>5. DOMAIN WorkflowTools = {"decision_replay", "event_diagnosis", "region_comparison",
        "forecast_risk", "coverage", "general_market_query", "evidence_only_query"}
  BY DEF WorkflowTools
<1> QED  BY <1>1, <1>2, <1>3, <1>4, <1>5

\* The baseline: a cut of the workflow's tools, in their order.
LEMMA BaselineIs ==
  ASSUME NEW r \in Request
  PROVE  LET b == Baseline(r) IN
         /\ b \in Seq(Call) /\ Len(b) \in Nat
         /\ Len(b) <= 5 /\ Len(b) <= r.maxToolCalls
         /\ \A i \in 1..Len(b) : b[i].tool # Diagnosis
         /\ \A i, j \in 1..Len(b) : DagOrder[b[i].tool] = DagOrder[b[j].tool] => i = j
<1> DEFINE s == WorkflowTools[r.workflow]
           n == Shorter(Len(s), r.maxToolCalls)
           b == Baseline(r)
<1>1. /\ s \in Seq(ToolName \ {Diagnosis}) /\ Len(s) <= 5
      /\ \A i, j \in 1..Len(s) : DagOrder[s[i]] = DagOrder[s[j]] => i = j
  BY WorkflowToolLists DEF Request
<1>2. r.maxToolCalls \in Nat
  BY Assumptions DEF Request
<1> HIDE DEF s
<1>3. n \in Nat /\ n <= Len(s) /\ n <= r.maxToolCalls /\ Len(s) \in Nat
  BY <1>1, <1>2 DEF Shorter
<1> HIDE DEF n
<1>4. \A i \in 1..n : i \in 1..Len(s) /\ s[i] \in ToolName /\ s[i] # Diagnosis
  BY <1>1, <1>3
<1>5. b = [i \in 1..n |-> PlannedCall(s[i], r.visual)]
  BY DEF Baseline, n, s
<1>6. \A t \in ToolName : PlannedCall(t, r.visual) \in Call /\ PlannedCall(t, r.visual).tool = t
  BY Assumptions DEF PlannedCall, Call, Mode, Request
<1>7. \A i \in 1..n : b[i] \in Call /\ b[i].tool = s[i]
  BY <1>4, <1>5, <1>6
<1>8. b \in Seq(Call) /\ Len(b) = n
  BY <1>3, <1>5, <1>7
<1> HIDE DEF b
<1>9. \A i \in 1..n : b[i].tool # Diagnosis
  BY <1>4, <1>7
<1>10. \A i, j \in 1..n : DagOrder[b[i].tool] = DagOrder[b[j].tool] => i = j
  BY <1>1, <1>4, <1>7
<1> QED  BY <1>1, <1>3, <1>8, <1>9, <1>10 DEF b

\* The sort of a plan by DAG order is a permutation of it, in DAG order, that leaves
\* calls of one place in the order they had.
LEMMA ExecutionOrderSorts ==
  ASSUME NEW p \in Seq(Call)
  PROVE  /\ ExecutionOrder(p) \in Seq(Call) /\ Len(ExecutionOrder(p)) = Len(p)
         /\ \E f \in Bijection(DOMAIN p, DOMAIN p) :
              /\ \A n \in DOMAIN p : ExecutionOrder(p)[n] = p[f[n]]
              /\ \A m, n \in DOMAIN p : m < n => NotAfter(p, f[m], f[n])
<1> DEFINE D == DOMAIN p
           key(i) == DagOrder[p[i].tool]
           R == {x \in D \X D : NotAfter(p, x[1], x[2])}
           rank == [i \in D |-> Place(p, i)]
           f == [n \in D |-> CHOOSE i \in D : Place(p, i) = n]
           e == ExecutionOrder(p)
<1>1. Len(p) \in Nat /\ D = 1..Len(p) /\ IsFiniteSet(D) /\ Cardinality(D) = Len(p)
  <2>1. Len(p) \in Nat /\ D = 1..Len(p)
    OBVIOUS
  <2> QED  BY <2>1, FS_Interval
<1>2. \A i \in D : key(i) \in Int /\ i \in Int
  <2>1. \A i \in D : p[i].tool \in ToolName /\ i \in Int
    <3>1. \A i \in D : p[i] \in Call /\ i \in Int
      BY <1>1
    <3> QED  BY <3>1 DEF Call
  <2> QED  BY <2>1, DagOrders
<1>3. \A i, j \in D : <<i, j>> \in R <=> key(i) < key(j) \/ (key(i) = key(j) /\ i <= j)
  BY DEF NotAfter
<1>4. TotalOrder(R, D)
  <2> HIDE DEF R, key, D
  <2>1. \A i, j \in D : <<i, j>> \in R \/ <<j, i>> \in R
    <3>1. \A i, j \in D : \/ key(i) < key(j) \/ (key(i) = key(j) /\ i <= j)
                          \/ key(j) < key(i) \/ (key(j) = key(i) /\ j <= i)
      BY <1>2
    <3> QED  BY <1>3, <3>1, Zenon
  <2>2. \A i, j \in D : <<i, j>> \in R /\ <<j, i>> \in R => i = j
    <3>1. \A i, j \in D : /\ key(i) < key(j) \/ (key(i) = key(j) /\ i <= j)
                          /\ key(j) < key(i) \/ (key(j) = key(i) /\ j <= i)
                          => i = j
      BY <1>2
    <3> QED  BY <1>3, <3>1, Zenon
  <2>3. \A i, j, k \in D : <<i, j>> \in R /\ <<j, k>> \in R => <<i, k>> \in R
    <3>1. \A i, j, k \in D : /\ key(i) < key(j) \/ (key(i) = key(j) /\ i <= j)
                             /\ key(j) < key(k) \/ (key(j) = key(k) /\ j <= k)
                             => key(i) < key(k) \/ (key(i) = key(k) /\ i <= k)
      BY <1>2
    <3> QED  BY <1>3, <3>1, Zenon
  <2> QED  BY <2>1, <2>2, <2>3 DEF TotalOrder
<1>5. Ranking(rank, R, D)
  <2>1. \A i \in D : rank[i] = Cardinality({j \in D : <<j, i>> \in R})
    <3>1. \A i \in D : {j \in D : <<j, i>> \in R} = {j \in D : NotAfter(p, j, i)}
      OBVIOUS
    <3> QED  BY <3>1 DEF Place
  <2>2. \A i \in D : IsFiniteSet({j \in D : <<j, i>> \in R})
    BY <1>1, FS_Subset
  <2>3. \A i \in D : rank[i] \in Int
    <3>1. \A i \in D : Cardinality({j \in D : <<j, i>> \in R}) \in Nat
      BY <2>2, FS_CardinalityType
    <3> HIDE DEF R, rank, D
    <3>2. \A i \in D : rank[i] \in Nat
      BY <2>1, <3>1, Zenon
    <3> QED  BY <3>2
  <2>4. rank \in [D -> Int]
    BY <2>3
  <2> QED  BY <2>1, <2>4 DEF Ranking
<1>6. /\ rank \in Surjection(D, D)
      /\ \A i, j \in D : <<i, j>> \in R /\ i # j => rank[i] < rank[j]
      /\ \A i \in D : rank[i] \in D
  <2> HIDE DEF rank, R, D
  <2>1. rank \in Surjection(D, 1 .. Cardinality(D)) /\ \A i \in D : rank[i] \in 1 .. Cardinality(D)
    BY <1>1, <1>4, <1>5, Ranks
  <2>2. \A i, j \in D : <<i, j>> \in R /\ i # j => rank[i] < rank[j]
    BY <1>1, <1>4, <1>5, Ranks
  <2> QED  BY <1>1, <2>1, <2>2
<1>7. ASSUME NEW n \in D PROVE f[n] \in D /\ rank[f[n]] = n
  <2>1. \E i \in D : rank[i] = n
    <3> HIDE DEF rank, D
    <3> QED  BY <1>6, Fun_SurjectionProperties
  <2>2. \E i \in D : Place(p, i) = n
    BY <2>1
  <2> QED  BY <2>2
<1>8. \A n \in D : e[n] = p[f[n]]
  BY DEF ExecutionOrder
<1>9. e \in Seq(Call) /\ Len(e) = Len(p)
  <2>1. e = [n \in 1..Len(p) |-> e[n]]
    BY <1>1 DEF ExecutionOrder
  <2>2. \A n \in 1..Len(p) : e[n] \in Call
    <3>1. \A n \in D : f[n] \in D /\ e[n] = p[f[n]]
      BY <1>7, <1>8
    <3>2. \A i \in D : p[i] \in Call
      BY <1>1
    <3> HIDE DEF f, e, D
    <3> QED  BY <1>1, <3>1, <3>2
  <2> HIDE DEF e
  <2> QED  BY <1>1, <2>1, <2>2
<1> HIDE DEF rank, D, R, e, key
<1>10. f \in Bijection(D, D)
  <2>1. f \in [D -> D] /\ \A a, b \in D : f[a] = f[b] => a = b
    BY <1>7
  <2>2. f \in Injection(D, D)
    BY <2>1, Fun_IsInj
  <2>3. f \in Surjection(D, D)
    BY <1>1, <2>2, FS_Injection
  <2> QED  BY <2>2, <2>3, Fun_IsBij
<1>11. ASSUME NEW m \in D, NEW n \in D, m < n PROVE NotAfter(p, f[m], f[n])
  <2>1. f[m] \in D /\ f[n] \in D /\ rank[f[m]] < rank[f[n]] /\ f[m] # f[n]
    BY <1>2, <1>7, <1>11
  <2>2. ~ (rank[f[n]] < rank[f[m]])
    BY <1>2, <1>7, <1>11
  <2>3. <<f[n], f[m]>> \notin R
    BY <1>6, <2>1, <2>2, Zenon
  <2>4. <<f[m], f[n]>> \in R
    BY <1>4, <2>1, <2>3, Zenon DEF TotalOrder
  <2> QED  BY <2>1, <2>4 DEF R
<1> HIDE DEF f
<1> QED  BY <1>8, <1>9, <1>10, <1>11 DEF D, e

\* What a client of a model hands on: calls of the registry, within the limit.
LEMMA ValidatedCallsAre ==
  ASSUME NEW a, IsAnswer(a), NEW limit \in Nat
  PROVE  ValidatedCalls(a, limit) \in Seq(Call) /\ Len(ValidatedCalls(a, limit)) <= limit
<1>1. CASE a = NoList
  BY <1>1 DEF ValidatedCalls
<1>2. CASE a # NoList
  <2> DEFINE n == Shorter(Len(a), limit)
             S == {i \in 1..n : a[i] \in Call}
  <2>1. a \in Seq(Call \cup Malformed)
    BY <1>2 DEF IsAnswer
  <2>2. n \in Nat /\ n <= limit
    BY <2>1 DEF Shorter
  <2> HIDE DEF n
  <2>3. S \subseteq Int /\ IsFiniteSet(S) /\ Cardinality(S) <= n
    <3>1. IsFiniteSet(1..n) /\ Cardinality(1..n) = n
      BY <2>2, FS_Interval
    <3>2. S \in SUBSET (1..n)
      OBVIOUS
    <3> QED  BY <2>2, <3>1, <3>2, FS_Subset
  <2>4. \A i \in S : a[i] \in Call
    OBVIOUS
  <2>5. ValidatedCalls(a, limit) = EntriesAt(a, S)
    BY <1>2 DEF ValidatedCalls, n
  <2> HIDE DEF S
  <2>6. Cardinality(S) \in Nat
    BY <2>3, FS_CardinalityType
  <2>7. EntriesAt(a, S) \in Seq(Call) /\ Len(EntriesAt(a, S)) = Cardinality(S)
    BY <2>3, <2>4, EntriesAtKeeps
  <2> QED  BY <2>2, <2>3, <2>5, <2>6, <2>7
<1> QED  BY <1>1, <1>2

\* A call of the baseline, or a proposed one in its scope.
LEMMA GuardedIs ==
  ASSUME NEW q \in Seq(Call), NEW c \in Call
  PROVE  Guarded(q, c) \in Call /\ Guarded(q, c).tool = c.tool /\ InScope(Guarded(q, c), c)
<1> DEFINE S == {i \in DOMAIN q : InScope(q[i], c)}
<1>1. CASE S = {}
  BY <1>1 DEF Guarded, InScope
<1>2. CASE S # {}
  <2> DEFINE k == CHOOSE i \in S : \A j \in S : i <= j
  <2>1. S \subseteq Int /\ IsFiniteSet(S)
    <3>1. DOMAIN q = 1..Len(q) /\ Len(q) \in Nat
      OBVIOUS
    <3>2. IsFiniteSet(DOMAIN q) /\ DOMAIN q \subseteq Int
      BY <3>1, FS_Interval
    <3> QED  BY <3>2, FS_Subset
  <2>2. \E i \in S : \A j \in S : i <= j
    <3> HIDE DEF S
    <3> QED  BY <1>2, <2>1, LeastExists
  <2>3. k \in S
    <3> HIDE DEF S
    <3> QED  BY <2>2
  <2>4. Guarded(q, c) = q[k]
    BY <1>2 DEF Guarded
  <2>5. q[k] \in Call /\ InScope(q[k], c)
    <3> HIDE DEF k
    <3> QED  BY <2>3
  <2> HIDE DEF k
  <2> QED  BY <2>4, <2>5 DEF InScope
<1> QED  BY <1>1, <1>2

\* What the planner comes to.  Outside the pure model path: the tools of the baseline,
\* each once, in the order of the DAG, with calls in the scope of the question.
LEMMA PlansAre ==
  ASSUME NEW r \in Request, NEW p \in Plans(r)
  PROVE  /\ p \in Seq(Call)
         /\ r.path # "pure_llm" =>
              /\ Len(p) <= 5 /\ Len(p) <= r.maxToolCalls
              /\ \A i, j \in 1..Len(p) : i < j => DagOrder[p[i].tool] < DagOrder[p[j].tool]
              /\ \A i \in 1..Len(p) :
                   /\ p[i].tool # Diagnosis
                   /\ \E k \in DOMAIN Baseline(r) : InScope(p[i], Baseline(r)[k])
<1> DEFINE b == Baseline(r)
<1>1. r.maxToolCalls \in Nat /\ r.path \in Path
  BY Assumptions DEF Request
<1>2. /\ b \in Seq(Call) /\ Len(b) \in Nat /\ Len(b) <= 5 /\ Len(b) <= r.maxToolCalls
      /\ \A i \in 1..Len(b) : b[i].tool # Diagnosis
      /\ \A i, j \in 1..Len(b) : DagOrder[b[i].tool] = DagOrder[b[j].tool] => i = j
  BY BaselineIs
<1> HIDE DEF b
<1>3. \A a \in ModelPlans : ValidatedCalls(a, r.maxToolCalls) \in Seq(Call)
  BY <1>1, Assumptions, ValidatedCallsAre
<1>4. ASSUME NEW q \in Seq(Call), Len(q) = Len(b),
             \A i \in 1..Len(b) : q[i].tool = b[i].tool /\ InScope(q[i], b[i]),
             p = ExecutionOrder(q)
      PROVE  /\ p \in Seq(Call) /\ Len(p) = Len(b)
             /\ \A i, j \in 1..Len(p) : i < j => DagOrder[p[i].tool] < DagOrder[p[j].tool]
             /\ \A i \in 1..Len(p) : p[i].tool # Diagnosis /\ \E k \in DOMAIN b : InScope(p[i], b[k])
  <2>1. /\ p \in Seq(Call) /\ Len(p) = Len(b) /\ DOMAIN q = 1..Len(b) /\ DOMAIN b = 1..Len(b)
        /\ \E f \in Bijection(DOMAIN q, DOMAIN q) :
             /\ \A n \in DOMAIN q : p[n] = q[f[n]]
             /\ \A m, n \in DOMAIN q : m < n => NotAfter(q, f[m], f[n])
    BY <1>2, <1>4, ExecutionOrderSorts
  <2>2. PICK f \in Bijection(1..Len(b), 1..Len(b)) :
             /\ \A n \in 1..Len(b) : p[n] = q[f[n]]
             /\ \A m, n \in 1..Len(b) : m < n => NotAfter(q, f[m], f[n])
    BY <2>1
  <2>3. /\ \A n \in 1..Len(b) : f[n] \in 1..Len(b)
        /\ \A m, n \in 1..Len(b) : f[m] = f[n] => m = n
    <3>1. f \in [1..Len(b) -> 1..Len(b)] /\ \A m, n \in 1..Len(b) : f[m] = f[n] => m = n
      BY Fun_BijectionProperties, Zenon
    <3> QED  BY <3>1
  <2>4. ASSUME NEW i \in 1..Len(p), NEW j \in 1..Len(p), i < j
        PROVE  DagOrder[p[i].tool] < DagOrder[p[j].tool]
    <3>1. f[i] \in 1..Len(b) /\ f[j] \in 1..Len(b) /\ f[i] # f[j]
      BY <2>1, <2>3, <2>4
    <3>2. p[i].tool = b[f[i]].tool /\ p[j].tool = b[f[j]].tool
      BY <1>4, <2>1, <2>2, <3>1
    <3>3. DagOrder[p[i].tool] # DagOrder[p[j].tool]
      BY <1>2, <3>1, <3>2
    <3>4. NotAfter(q, f[i], f[j]) /\ q[f[i]] = p[i] /\ q[f[j]] = p[j]
      BY <2>1, <2>2, <2>4
    <3> QED  BY <3>3, <3>4 DEF NotAfter
  <2>5. ASSUME NEW i \in 1..Len(p)
        PROVE  p[i].tool # Diagnosis /\ \E k \in DOMAIN b : InScope(p[i], b[k])
    <3>1. f[i] \in 1..Len(b) /\ p[i] = q[f[i]]
      BY <2>1, <2>2, <2>3
    <3> QED  BY <1>2, <1>4, <2>1, <3>1
  <2> QED  BY <2>1, <2>4, <2>5
<1>5. CASE r.path = "deterministic"
  <2>1. p = ExecutionOrder(b)
    BY <1>5 DEF Plans, b
  <2>2. \A i \in 1..Len(b) : InScope(b[i], b[i])
    BY DEF InScope
  <2> QED  BY <1>2, <1>4, <2>1, <2>2 DEF b
<1>6. CASE r.path = "pure_llm"
  <2>1. p \in {ValidatedCalls(a, r.maxToolCalls) : a \in ModelPlans}
    BY <1>6 DEF Plans
  <2> QED  BY <1>3, <1>6, <2>1
<1>7. CASE r.path = "constrained_hybrid"
  <2>1. PICK a \in ModelPlans : p = HybridGuard(ValidatedCalls(a, r.maxToolCalls), b)
    BY <1>7 DEF Plans, b
  <2> DEFINE v == ValidatedCalls(a, r.maxToolCalls)
             q == [i \in DOMAIN b |-> Guarded(v, b[i])]
  <2>2. v \in Seq(Call) /\ DOMAIN b = 1..Len(b)
    BY <1>2, <1>3
  <2> HIDE DEF v
  <2>3. \A i \in 1..Len(b) : /\ q[i] \in Call /\ q[i].tool = b[i].tool
                             /\ InScope(q[i], b[i])
    BY <1>2, <2>2, GuardedIs
  <2>4. q \in Seq(Call) /\ Len(q) = Len(b)
    BY <1>2, <2>2, <2>3
  <2>5. p = ExecutionOrder(q)
    BY <2>1 DEF HybridGuard, v
  <2> HIDE DEF q
  <2> QED  BY <1>2, <1>4, <2>3, <2>4, <2>5 DEF b
<1> QED  BY <1>1, <1>5, <1>6, <1>7 DEF Path

-----------------------------------------------------------------------------
(* What the steps of the loop have in common. *)

\* The entry that an iteration pops.
LEMMA Popped ==
  ASSUME TypeOK, InLoop
  PROVE  /\ Len(queue) \in Nat /\ Len(queue) > 0 /\ DOMAIN queue = 1..Len(queue)
         /\ Current = queue[1] /\ Current \in EntryType
         /\ Current.call \in Call /\ Current.attempt \in {1, 2}
         /\ Tail(queue) \in Seq(EntryType)
         /\ Len(Tail(queue)) = Len(queue) - 1 /\ DOMAIN Tail(queue) = 1..(Len(queue) - 1)
         /\ \A i \in 1..(Len(queue) - 1) : Tail(queue)[i] = queue[i + 1]
<1>1. queue \in Seq(EntryType) /\ queue # <<>>
  BY DEF TypeOK, InLoop
<1>2. Len(queue) \in Nat /\ Len(queue) > 0 /\ DOMAIN queue = 1..Len(queue) /\ Current = queue[1]
      /\ Current \in EntryType
  BY <1>1 DEF Current
<1>3. /\ Tail(queue) \in Seq(EntryType) /\ Len(Tail(queue)) = Len(queue) - 1
      /\ \A i \in 1..(Len(queue) - 1) : Tail(queue)[i] = queue[i + 1]
  BY <1>1
<1> QED  BY <1>2, <1>3 DEF EntryType

LEMMA Recorded ==
  ASSUME records \in Seq(RecordType), NEW x \in RecordType, records' = Append(records, x)
  PROVE  /\ Len(records) \in Nat /\ DOMAIN records = 1..Len(records)
         /\ records' \in Seq(RecordType) /\ Len(records') = Len(records) + 1
         /\ DOMAIN records' = 1..(Len(records) + 1)
         /\ \A i \in 1..Len(records) : records'[i] = records[i]
         /\ records'[Len(records) + 1] = x
OBVIOUS

\* Entries and records have a place in the DAG.
LEMMA OrderIs ==
  ASSUME TypeOK
  PROVE  /\ \A i \in DOMAIN queue : Order(queue[i]) \in Int
         /\ \A i \in DOMAIN records : Order(records[i]) \in Int
<1>1. /\ \A i \in DOMAIN queue : queue[i] \in EntryType
      /\ \A i \in DOMAIN records : records[i] \in RecordType
  BY DEF TypeOK
<1>2. \A c \in Call : DagOrder[c.tool] \in Int
  BY DagOrders DEF Call
<1> QED  BY <1>1, <1>2 DEF Order, EntryType, RecordType

\* Every iteration records the entry it pops, with its outcome.
Taken(s) == records' = Append(records, Record(Current.call, Current.attempt, s))

LEMMA TakenIs ==
  ASSUME TypeOK, InLoop, NEW s \in {"ok", "error", "timeout", "skipped"}, Taken(s)
  PROVE  LET n == Len(records) + 1 IN
         /\ Len(records) \in Nat /\ DOMAIN records = 1..Len(records)
         /\ records' \in Seq(RecordType) /\ Len(records') = n /\ DOMAIN records' = 1..n
         /\ \A i \in 1..Len(records) : records'[i] = records[i]
         /\ records'[n].call = queue[1].call /\ records'[n].attempt = queue[1].attempt
         /\ records'[n].status = s
         /\ Len(records') <= Shorter(MaxSteps, request.maxToolCalls)
<1>1. Current \in EntryType /\ Current = queue[1] /\ Current.call \in Call /\ Current.attempt \in {1, 2}
  BY Popped
<1> DEFINE x == Record(Current.call, Current.attempt, s)
<1>2. x \in RecordType /\ x.call = queue[1].call /\ x.attempt = queue[1].attempt /\ x.status = s
  BY <1>1 DEF Record, RecordType
<1>3. records \in Seq(RecordType) /\ records' = Append(records, x)
  BY DEF TypeOK, Taken
<1> HIDE DEF x
<1>4. /\ Len(records) \in Nat /\ DOMAIN records = 1..Len(records)
      /\ records' \in Seq(RecordType) /\ Len(records') = Len(records) + 1
      /\ DOMAIN records' = 1..(Len(records) + 1)
      /\ \A i \in 1..Len(records) : records'[i] = records[i]
      /\ records'[Len(records) + 1] = x
  BY <1>2, <1>3, Recorded
<1>5. Len(records) < Shorter(MaxSteps, request.maxToolCalls)
      /\ Shorter(MaxSteps, request.maxToolCalls) \in Int
  BY Assumptions DEF InLoop, Shorter, TypeOK, Request
<1> QED  BY <1>2, <1>4, <1>5

\* It keeps the order of the records, and a second attempt among them was paid for.
LEMMA TakenKeepsOrder ==
  ASSUME TypeOK, InLoop, QueueFollowsDag, FollowsDag, request' = request,
         NEW s \in {"ok", "error", "timeout", "skipped"}, Taken(s)
  PROVE  FollowsDag'
<1> SUFFICES ASSUME request.path # "pure_llm",
                    NEW i \in DOMAIN records', NEW j \in DOMAIN records', i < j
             PROVE  DagOrder[records'[i].call.tool] <= DagOrder[records'[j].call.tool]
  BY DEF FollowsDag
<1>1. /\ Len(records) \in Nat /\ DOMAIN records = 1..Len(records)
      /\ DOMAIN records' = 1..(Len(records) + 1)
      /\ \A k \in 1..Len(records) : records'[k] = records[k]
      /\ records'[Len(records) + 1].call = queue[1].call
  BY TakenIs
<1>2. 1 \in DOMAIN queue
  BY Popped
<1>3. i \in DOMAIN records /\ (j \in DOMAIN records \/ j = Len(records) + 1)
  BY <1>1
<1> QED  BY <1>1, <1>2, <1>3 DEF FollowsDag, QueueFollowsDag, Order

LEMMA TakenKeepsRetries ==
  ASSUME TypeOK, InLoop, RetryAtHead, RetriesFollowFailures, request' = request,
         replans' \in Nat, replans <= replans',
         NEW s \in {"ok", "error", "timeout", "skipped"}, Taken(s)
  PROVE  /\ RetriesFollowFailures'
         /\ Cardinality(Retries') <= replans
<1> DEFINE n == Len(records) + 1
<1>1. /\ Len(records) \in Nat /\ DOMAIN records = 1..Len(records)
      /\ DOMAIN records' = 1..n
      /\ \A k \in 1..Len(records) : records'[k] = records[k]
      /\ records'[n].call = queue[1].call /\ records'[n].attempt = queue[1].attempt
  BY TakenIs
<1>2. 1 \in DOMAIN queue /\ queue # <<>>
  BY Popped DEF InLoop
<1>3. Retries' = IF queue[1].attempt = 2 THEN Retries \cup {n} ELSE Retries
  BY <1>1 DEF Retries
<1>4. IsFiniteSet(Retries) /\ n \notin Retries
  <2>1. IsFiniteSet(1..Len(records))
    BY <1>1, FS_Interval
  <2> QED  BY <1>1, <2>1, FS_Subset DEF Retries
<1>5. Cardinality(Retries') <= replans
  <2>1. Cardinality(Retries) \in Nat /\ Cardinality(Retries \cup {n}) = Cardinality(Retries) + 1
    BY <1>4, FS_AddElement, FS_CardinalityType
  <2>2. Cardinality(Retries) + (IF RetryNext THEN 1 ELSE 0) <= replans /\ replans \in Nat
    BY Assumptions DEF RetryAtHead, TypeOK
  <2> QED  BY <1>2, <1>3, <2>1, <2>2 DEF RetryNext
<1>6. ASSUME NEW i \in DOMAIN records', records'[i].attempt = 2
      PROVE  /\ i > 1 /\ FailedRecord(i - 1)'
             /\ request.path # "pure_llm" => records'[i].call.tool = records'[i - 1].call.tool
  <2>1. CASE i \in DOMAIN records
    <3>1. /\ i > 1 /\ FailedRecord(i - 1)
          /\ request.path # "pure_llm" => records[i].call.tool = records[i - 1].call.tool
      BY <1>1, <1>6, <2>1 DEF RetriesFollowFailures
    <3>2. i - 1 \in 1..Len(records) /\ i \in 1..Len(records)
      BY <1>1, <2>1, <3>1
    <3> QED  BY <1>1, <3>1, <3>2 DEF FailedRecord
  <2>2. CASE i = n
    <3>1. /\ records # <<>> /\ FailedRecord(Len(records))
          /\ request.path # "pure_llm" => queue[1].call.tool = records[Len(records)].call.tool
      BY <1>1, <1>2, <1>6, <2>2 DEF RetryAtHead
    <3>2. Len(records) \in 1..Len(records) /\ Len(records) # 0
      <4>1. Len(records) # 0
        BY <3>1 DEF TypeOK
      <4> QED  BY <1>1, <4>1
    <3>3. i - 1 = Len(records) /\ i > 1
      BY <1>1, <2>2, <3>2
    <3> QED  BY <1>1, <2>2, <3>1, <3>2, <3>3 DEF FailedRecord
  <2> QED  BY <1>1, <2>1, <2>2
<1>7. Cardinality({i \in DOMAIN records' : records'[i].attempt = 2}) <= replans'
  <2>1. Cardinality(Retries') \in Nat
    <3>1. IsFiniteSet(Retries')
      BY <1>3, <1>4, FS_AddElement
    <3> QED  BY <3>1, FS_CardinalityType
  <2>2. replans \in Int
    BY Assumptions DEF TypeOK
  <2> QED  BY <1>5, <2>1, <2>2 DEF Retries
<1> QED  BY <1>5, <1>6, <1>7 DEF RetriesFollowFailures

\* A call that succeeds is new, and stays in seen.
SucceededCalls == {records[i].call : i \in {j \in DOMAIN records : records[j].status = "ok"}}

LEMMA TakenKeepsSuccess ==
  ASSUME TypeOK, InLoop, SuccessIsSeen, NoRepeatAfterSuccess, seen \subseteq seen',
         NEW s \in {"ok", "error", "timeout", "skipped"}, Taken(s),
         s = "ok" => Current.call \in seen', s # "skipped" => Current.call \notin seen
  PROVE  /\ SuccessIsSeen'
         /\ \A i, j \in DOMAIN records' :
              i < j /\ records'[i].status = "ok" /\ records'[j].call = records'[i].call
                => records'[j].status = "skipped"
         /\ SucceededCalls' = SucceededCalls \cup (IF s = "ok" THEN {Current.call} ELSE {})
         /\ SucceededCalls \subseteq seen
<1> DEFINE n == Len(records) + 1
<1>1. /\ Len(records) \in Nat /\ DOMAIN records = 1..Len(records)
      /\ DOMAIN records' = 1..n
      /\ \A k \in 1..Len(records) : records'[k] = records[k]
      /\ records'[n].call = Current.call /\ records'[n].status = s
  BY TakenIs, Popped
<1>2. SuccessIsSeen'
  BY <1>1 DEF SuccessIsSeen
<1>3. ASSUME NEW i \in DOMAIN records', NEW j \in DOMAIN records', i < j,
             records'[i].status = "ok", records'[j].call = records'[i].call
      PROVE  records'[j].status = "skipped"
  <2>1. i \in DOMAIN records /\ records'[i] = records[i]
    BY <1>1, <1>3
  <2>2. CASE j \in DOMAIN records
    BY <1>1, <1>3, <2>1, <2>2 DEF NoRepeatAfterSuccess
  <2>3. CASE j = n
    BY <1>1, <1>3, <2>1, <2>3 DEF SuccessIsSeen
  <2> QED  BY <1>1, <2>2, <2>3
<1>4. SucceededCalls' = SucceededCalls \cup (IF s = "ok" THEN {Current.call} ELSE {})
  <2>1. n \in DOMAIN records' /\ \A k \in DOMAIN records : k \in DOMAIN records'
    BY <1>1
  <2>2. \A k \in DOMAIN records' : k \in DOMAIN records \/ k = n
    BY <1>1
  <2>3. SucceededCalls' \subseteq SucceededCalls \cup (IF s = "ok" THEN {Current.call} ELSE {})
    BY <1>1, <2>2 DEF SucceededCalls
  <2>4. SucceededCalls \subseteq SucceededCalls'
    BY <1>1, <2>1 DEF SucceededCalls
  <2>5. s = "ok" => Current.call \in SucceededCalls'
    BY <1>1, <2>1 DEF SucceededCalls
  <2> QED  BY <2>3, <2>4, <2>5
<1>5. SucceededCalls \subseteq seen
  BY DEF SucceededCalls, SuccessIsSeen
<1> QED  BY <1>2, <1>3, <1>4, <1>5

\* Nothing is accepted, so no call becomes one that succeeded.
LEMMA NoSuccess ==
  ASSUME TypeOK, InLoop, SuccessIsSeen, NoRepeatAfterSuccess, seen \subseteq seen',
         results' = results, NEW s \in {"error", "timeout", "skipped"}, Taken(s),
         s # "skipped" => Current.call \notin seen
  PROVE  SuccessIsSeen' /\ NoRepeatAfterSuccess'
<1>1. s \in {"ok", "error", "timeout", "skipped"} /\ s # "ok"
  OBVIOUS
<1>2. /\ SuccessIsSeen'
      /\ \A i, j \in DOMAIN records' :
           i < j /\ records'[i].status = "ok" /\ records'[j].call = records'[i].call
             => records'[j].status = "skipped"
      /\ SucceededCalls' = SucceededCalls
  BY <1>1, TakenKeepsSuccess
<1> QED  BY <1>2 DEF NoRepeatAfterSuccess, SucceededCalls

\* What is left of the queue.
LEMMA RestKeeps ==
  ASSUME TypeOK, InLoop, QueueFollowsDag, RetryAtHead, PlannedInScope, request' = request,
         NEW s \in {"ok", "error", "timeout", "skipped"}, Taken(s), queue' = Tail(queue),
         replans \in Nat, replans' \in Nat, replans <= replans', Cardinality(Retries') <= replans,
         Cardinality(Retries') \in Nat
  PROVE  /\ QueueFollowsDag' /\ RetryAtHead'
         /\ request.path # "pure_llm" =>
              \A i \in DOMAIN queue' : FirstAttempt(queue'[i]) => Planned(queue'[i])
<1> DEFINE n == Len(records) + 1
<1>1. /\ Len(records) \in Nat /\ DOMAIN records = 1..Len(records)
      /\ DOMAIN records' = 1..n
      /\ \A k \in 1..Len(records) : records'[k] = records[k]
      /\ records'[n].call = queue[1].call
  BY TakenIs
<1>2. /\ Len(queue) \in Nat /\ Len(queue) > 0 /\ DOMAIN queue = 1..Len(queue)
      /\ DOMAIN queue' = 1..(Len(queue) - 1) /\ Len(queue') = Len(queue) - 1
      /\ \A i \in 1..(Len(queue) - 1) : queue'[i] = queue[i + 1]
  BY Popped
<1>3. \A i \in DOMAIN queue' : i + 1 \in DOMAIN queue /\ 1 \in DOMAIN queue /\ 1 < i + 1 /\ i \in Int
  BY <1>2
<1>4. QueueFollowsDag'
  <2> SUFFICES ASSUME request.path # "pure_llm" PROVE QueueFollowsDag'
    BY DEF QueueFollowsDag
  <2>1. \A i, j \in DOMAIN queue' : i < j => Order(queue'[i]) < Order(queue'[j])
    BY <1>2, <1>3 DEF QueueFollowsDag
  <2>2. ASSUME NEW i \in DOMAIN records', NEW j \in DOMAIN queue'
        PROVE  Order(records'[i]) <= Order(queue'[j])
    <3>1. CASE i \in DOMAIN records
      BY <1>1, <1>2, <1>3, <3>1 DEF QueueFollowsDag
    <3>2. CASE i = n
      <4>1. Order(records'[i]) = Order(queue[1])
        BY <1>1, <3>2 DEF Order
      <4>2. Order(queue[1]) < Order(queue[j + 1])
        BY <1>3 DEF QueueFollowsDag
      <4>3. Order(queue[1]) \in Int /\ Order(queue[j + 1]) \in Int
        BY <1>3, OrderIs
      <4> QED  BY <1>2, <4>1, <4>2, <4>3
    <3> QED  BY <1>1, <3>1, <3>2
  <2>3. \A i, j \in DOMAIN queue' : ~ (queue'[i].call.tool = Detect /\ queue'[j].call.tool = Diagnosis)
    BY <1>2, <1>3 DEF QueueFollowsDag
  <2> QED  BY <2>1, <2>2, <2>3 DEF QueueFollowsDag, Order
<1>5. RetryAtHead'
  <2>1. \A i \in DOMAIN queue' : queue'[i].attempt # 2
    BY <1>2, <1>3 DEF RetryAtHead
  <2>2. ~ RetryNext'
    <3>1. queue' # <<>> => 1 \in DOMAIN queue'
      BY <1>2
    <3> QED  BY <2>1, <3>1 DEF RetryNext
  <2> QED  BY <2>1, <2>2 DEF RetryAtHead
<1>6. request.path # "pure_llm" =>
        \A i \in DOMAIN queue' : FirstAttempt(queue'[i]) => Planned(queue'[i])
  BY <1>2, <1>3 DEF PlannedInScope
<1> QED  BY <1>4, <1>5, <1>6

\* In a deterministic turn what comes next was never called, and what is left of the
\* queue still fits.
LEMMA DeterministicNew ==
  ASSUME TypeOK, InLoop, DeterministicFits, request.path = "deterministic"
  PROVE  Current.call \notin seen
<1>1. 1 \in DOMAIN queue /\ Current = queue[1]
  BY Popped
<1>2. \A i \in DOMAIN records : Order(records[i]) < Order(queue[1])
  BY <1>1 DEF DeterministicFits
<1>3. \A i \in DOMAIN records : Order(records[i]) \in Int /\ Order(queue[1]) \in Int
  BY <1>1, OrderIs
<1>4. \A i \in DOMAIN records : records[i].call # Current.call
  <2>1. \A i \in DOMAIN records : Order(records[i]) # Order(queue[1])
    <3> HIDE DEF Order
    <3> QED  BY <1>2, <1>3
  <2> QED  BY <1>1, <2>1 DEF Order
<1> QED  BY <1>4 DEF DeterministicFits

LEMMA RestFits ==
  ASSUME TypeOK, InLoop, QueueFollowsDag, DeterministicFits, request' = request,
         NEW s \in {"ok", "error", "timeout", "skipped"}, Taken(s), queue' = Tail(queue),
         seen' \subseteq seen \cup {Current.call},
         request.path = "deterministic" => status' = "running" /\ replans' = 0 /\ duplicates' = 0
  PROVE  DeterministicFits'
<1> DEFINE n == Len(records) + 1
<1> SUFFICES ASSUME request.path = "deterministic" PROVE DeterministicFits'
  BY DEF DeterministicFits
<1>1. /\ Len(records) \in Nat /\ DOMAIN records = 1..Len(records)
      /\ DOMAIN records' = 1..n /\ Len(records') = n
      /\ \A k \in 1..Len(records) : records'[k] = records[k]
      /\ records'[n].call = queue[1].call
  BY TakenIs
<1>2. /\ Len(queue) \in Nat /\ Len(queue) > 0 /\ DOMAIN queue = 1..Len(queue)
      /\ DOMAIN queue' = 1..(Len(queue) - 1) /\ Len(queue') = Len(queue) - 1
      /\ \A i \in 1..(Len(queue) - 1) : queue'[i] = queue[i + 1]
      /\ Current = queue[1]
  BY Popped
<1>3. \A i \in DOMAIN queue' : i + 1 \in DOMAIN queue /\ 1 \in DOMAIN queue /\ 1 < i + 1 /\ i \in Int
  BY <1>2
<1>4. ASSUME NEW i \in DOMAIN records', NEW j \in DOMAIN queue'
      PROVE  Order(records'[i]) < Order(queue'[j])
  <2>1. CASE i \in DOMAIN records
    BY <1>1, <1>2, <1>3, <2>1 DEF DeterministicFits
  <2>2. CASE i = n
    <3>1. Order(records'[i]) = Order(queue[1])
      BY <1>1, <2>2 DEF Order
    <3>2. Order(queue[1]) < Order(queue[j + 1])
      BY <1>3 DEF QueueFollowsDag
    <3> QED  BY <1>2, <3>1, <3>2
  <2> QED  BY <1>1, <2>1, <2>2
<1>5. seen' \subseteq {records'[i].call : i \in DOMAIN records'}
  <2>1. \A i \in DOMAIN records : i \in DOMAIN records' /\ records'[i] = records[i]
    BY <1>1
  <2>2. n \in DOMAIN records' /\ records'[n].call = Current.call
    BY <1>1, <1>2
  <2>3. seen \subseteq {records[i].call : i \in DOMAIN records}
    BY DEF DeterministicFits
  <2> QED  BY <2>1, <2>2, <2>3
<1>6. Diagnosed => Diagnosed'
  <2>1. ASSUME NEW i \in DOMAIN queue, queue[i].call.tool = Diagnosis PROVE Diagnosed'
    <3>1. CASE i = 1
      <4>1. n \in DOMAIN records' /\ records'[n].call.tool = Diagnosis
        BY <1>1, <2>1, <3>1
      <4> QED  BY <4>1 DEF Diagnosed
    <3>2. CASE i # 1
      <4>1. i - 1 \in DOMAIN queue' /\ queue'[i - 1] = queue[i]
        BY <1>2, <3>2
      <4> QED  BY <2>1, <4>1 DEF Diagnosed
    <3> QED  BY <3>1, <3>2
  <2>2. ASSUME NEW i \in DOMAIN records, records[i].call.tool = Diagnosis PROVE Diagnosed'
    <3>1. i \in DOMAIN records' /\ records'[i] = records[i]
      BY <1>1
    <3> QED  BY <2>2, <3>1 DEF Diagnosed
  <2> QED  BY <2>1, <2>2 DEF Diagnosed
<1>7. /\ Len(records') + Len(queue') <= request'.maxToolCalls
      /\ Len(records') + Len(queue') <= 5 + (IF Diagnosed' THEN 1 ELSE 0)
  <2> DEFINE a == Len(records)  b == Len(queue)  aa == Len(records')  bb == Len(queue')
  <2>1. a + b <= request.maxToolCalls /\ a + b <= 5 + (IF Diagnosed THEN 1 ELSE 0)
    BY DEF DeterministicFits
  <2>2. a \in Nat /\ b \in Nat /\ aa = a + 1 /\ bb = b - 1 /\ request.maxToolCalls \in Nat
    BY <1>1, <1>2, Assumptions DEF TypeOK, Request
  <2> HIDE DEF a, b, aa, bb
  <2>3. aa + bb = a + b
    BY <2>2
  <2>4. aa + bb <= request'.maxToolCalls /\ aa + bb <= 5 + (IF Diagnosed' THEN 1 ELSE 0)
    BY <1>6, <2>1, <2>2, <2>3
  <2> QED  BY <2>4 DEF aa, bb
<1>8. status' = "running"
  OBVIOUS
<1> QED  BY <1>4, <1>5, <1>7, <1>8 DEF DeterministicFits, Ended, Order

\* A new head takes the place of the one that was popped.
LEMMA NewHead ==
  ASSUME TypeOK, InLoop, NEW d \in EntryType, queue' = <<d>> \o Tail(queue)
  PROVE  /\ queue' \in Seq(EntryType) /\ Len(queue') = Len(queue)
         /\ Len(queue) \in Nat /\ Len(queue) > 0
         /\ DOMAIN queue' = 1..Len(queue) /\ DOMAIN queue = 1..Len(queue)
         /\ queue'[1] = d
         /\ \A i \in 2..Len(queue) : queue'[i] = queue[i]
<1>1. /\ Len(queue) \in Nat /\ Len(queue) > 0 /\ DOMAIN queue = 1..Len(queue)
      /\ Tail(queue) \in Seq(EntryType) /\ Len(Tail(queue)) = Len(queue) - 1
      /\ \A i \in 1..(Len(queue) - 1) : Tail(queue)[i] = queue[i + 1]
  BY Popped
<1>2. <<d>> \in Seq(EntryType) /\ Len(<<d>>) = 1 /\ <<d>>[1] = d
  OBVIOUS
<1> DEFINE t == Tail(queue)
           h == <<d>>
<1> HIDE DEF t, h
<1>3. /\ h \o t \in Seq(EntryType) /\ Len(h \o t) = Len(queue)
      /\ \A i \in 1..Len(queue) : (h \o t)[i] = IF i <= 1 THEN h[i] ELSE t[i - 1]
  BY <1>1, <1>2 DEF t, h
<1>4. \A i \in 2..Len(queue) : i - 1 \in 1..(Len(queue) - 1) /\ i \in 1..Len(queue) /\ ~ (i <= 1)
                               /\ i - 1 + 1 = i
  BY <1>1
<1>5. \A i \in 2..Len(queue) : (h \o t)[i] = queue[i]
  <2>1. \A i \in 2..Len(queue) : (h \o t)[i] = t[i - 1]
    BY <1>3, <1>4
  <2>2. \A i \in 2..Len(queue) : t[i - 1] = queue[i]
    BY <1>1, <1>4 DEF t
  <2> QED  BY <2>1, <2>2
<1>6. queue' = h \o t
  BY DEF h, t
<1>7. (h \o t)[1] = d
  <2>1. 1 \in 1..Len(queue) /\ 1 <= 1
    BY <1>1
  <2> QED  BY <1>2, <1>3, <2>1 DEF h
<1> QED  BY <1>1, <1>3, <1>5, <1>6, <1>7

-----------------------------------------------------------------------------
(* The actions. *)

LEMMA InitEstablishes == Init => TurnInv
<1> SUFFICES ASSUME Init PROVE TurnInv
  OBVIOUS
<1>1. TypeOK
  <2>1. /\ request \in Request /\ queue = <<>> /\ records = <<>> /\ results = <<>>
        /\ duplicates = 0 /\ replans = 0 /\ seen = {} /\ status = "planning"
    BY DEF Init
  <2>2. 0 <= Shorter(MaxSteps, request.maxToolCalls)
    BY Assumptions, <2>1 DEF Shorter, Request
  <2>3. Len(records) = 0 /\ 0 \in 0..(MaxDuplicates + 1) /\ 0 \in 0..MaxReplans
    BY Assumptions, <2>1
  <2> QED  BY <2>1, <2>2, <2>3 DEF TypeOK
<1>2. NothingYet /\ SuccessIsSeen /\ NoRepeatAfterSuccess
  BY DEF Init, NothingYet, SuccessIsSeen, NoRepeatAfterSuccess
<1>3. RetryAtHead /\ RetriesFollowFailures
  <2>1. {i \in DOMAIN records : records[i].attempt = 2} = {}
    BY DEF Init
  <2>2. ~ RetryNext /\ replans = 0 /\ DOMAIN queue = {} /\ DOMAIN records = {}
    BY DEF Init, RetryNext
  <2> QED  BY <2>1, <2>2, FS_EmptySet DEF RetryAtHead, RetriesFollowFailures, Retries
<1>4. QueueFollowsDag /\ FollowsDag /\ PlannedInScope /\ CompletedServes
  BY DEF Init, QueueFollowsDag, FollowsDag, PlannedInScope, CompletedServes
<1>5. DeterministicFits
  <2>1. /\ request.maxToolCalls \in Nat /\ queue = <<>> /\ records = <<>> /\ seen = {}
        /\ duplicates = 0 /\ replans = 0
    BY Assumptions DEF Init, Request
  <2>2. Len(queue) = 0 /\ Len(records) = 0 /\ DOMAIN queue = {} /\ DOMAIN records = {}
    BY <2>1
  <2> QED  BY <2>1, <2>2 DEF DeterministicFits
<1> QED  BY <1>1, <1>2, <1>3, <1>4, <1>5 DEF TurnInv

\* The plan fits the budget, is in the order of the DAG and in the scope of the question.
LEMMA PlanTurnKeeps == TurnInv /\ PlanTurn => TurnInv'
<1> SUFFICES ASSUME TurnInv, PlanTurn PROVE TurnInv'
  OBVIOUS
<1>1. /\ records = <<>> /\ results = <<>> /\ seen = {} /\ duplicates = 0 /\ replans = 0
      /\ records' = <<>> /\ results' = <<>> /\ seen' = {} /\ duplicates' = 0 /\ replans' = 0
      /\ request' = request /\ request \in Request /\ status' = "running"
  BY DEF TurnInv, NothingYet, PlanTurn, TypeOK
<1>2. PICK p \in Plans(request) : queue' = Entries(p, 1)
  BY DEF PlanTurn
<1>3. /\ p \in Seq(Call)
      /\ request.path # "pure_llm" =>
           /\ Len(p) <= 5 /\ Len(p) <= request.maxToolCalls
           /\ \A i, j \in 1..Len(p) : i < j => DagOrder[p[i].tool] < DagOrder[p[j].tool]
           /\ \A i \in 1..Len(p) :
                /\ p[i].tool # Diagnosis
                /\ \E k \in DOMAIN Baseline(request) : InScope(p[i], Baseline(request)[k])
  BY <1>1, PlansAre
<1>4. /\ Len(p) \in Nat /\ DOMAIN queue' = 1..Len(p) /\ Len(queue') = Len(p)
      /\ queue' \in Seq(EntryType)
      /\ \A i \in 1..Len(p) : queue'[i].call = p[i] /\ queue'[i].attempt = 1
  <2>1. Len(p) \in Nat /\ DOMAIN p = 1..Len(p) /\ \A i \in 1..Len(p) : p[i] \in Call
    BY <1>3
  <2>2. queue' = [i \in 1..Len(p) |-> [call |-> p[i], attempt |-> 1]]
    BY <1>2, <2>1 DEF Entries, Entry
  <2> QED  BY <2>1, <2>2 DEF EntryType
<1>5. TypeOK'
  <2>1. 0 <= Shorter(MaxSteps, request.maxToolCalls) /\ Len(records') = 0
        /\ 0 \in 0..(MaxDuplicates + 1) /\ 0 \in 0..MaxReplans
    BY Assumptions, <1>1 DEF Shorter, Request
  <2> QED  BY <1>1, <1>4, <2>1 DEF TypeOK
<1>6. DOMAIN records' = {} /\ DOMAIN results' = {}
  BY <1>1
<1>7. NothingYet' /\ SuccessIsSeen' /\ NoRepeatAfterSuccess'
  BY <1>1, <1>6 DEF NothingYet, SuccessIsSeen, NoRepeatAfterSuccess
<1>8. RetryAtHead' /\ RetriesFollowFailures'
  <2>1. {i \in DOMAIN records' : records'[i].attempt = 2} = {}
    BY <1>6
  <2>2. ~ RetryNext'
    <3>1. queue' # <<>> => 1 \in DOMAIN queue'
      BY <1>4
    <3> QED  BY <1>4, <3>1 DEF RetryNext
  <2>3. \A i \in DOMAIN queue' : queue'[i].attempt # 2
    BY <1>4
  <2> QED  BY <1>1, <1>6, <2>1, <2>2, <2>3, FS_EmptySet DEF RetryAtHead, RetriesFollowFailures, Retries
<1>9. QueueFollowsDag' /\ FollowsDag' /\ PlannedInScope' /\ CompletedServes'
  <2>1. QueueFollowsDag'
    BY <1>1, <1>3, <1>4, <1>6 DEF QueueFollowsDag, Order
  <2>2. PlannedInScope'
    BY <1>1, <1>3, <1>4, <1>6 DEF PlannedInScope, Planned
  <2> QED  BY <1>1, <1>6, <2>1, <2>2 DEF FollowsDag, CompletedServes
<1>10. DeterministicFits'
  <2> SUFFICES ASSUME request.path = "deterministic" PROVE DeterministicFits'
    BY <1>1 DEF DeterministicFits
  <2>1. Len(records') = 0 /\ Len(queue') <= 5 /\ Len(queue') <= request'.maxToolCalls /\ Len(queue') \in Nat
    BY <1>1, <1>3, <1>4
  <2>2. /\ Len(records') + Len(queue') <= request'.maxToolCalls
        /\ Len(records') + Len(queue') <= 5 + (IF Diagnosed' THEN 1 ELSE 0)
    <3> DEFINE aa == Len(records')  bb == Len(queue')
    <3>1. aa = 0 /\ bb <= 5 /\ bb <= request'.maxToolCalls /\ bb \in Nat
      BY <2>1
    <3> HIDE DEF aa, bb
    <3>2. aa + bb <= request'.maxToolCalls /\ aa + bb <= 5 + (IF Diagnosed' THEN 1 ELSE 0)
      BY <3>1
    <3> QED  BY <3>2 DEF aa, bb
  <2> QED  BY <1>1, <1>6, <2>2 DEF DeterministicFits, Ended
<1> QED  BY <1>5, <1>7, <1>8, <1>9, <1>10 DEF TurnInv

\* Without a new record the results are still those of the calls that succeeded.
LEMMA NothingAccepted ==
  ASSUME NoRepeatAfterSuccess, records' = records, results' = results
  PROVE  NoRepeatAfterSuccess'
<1>1. \A i, j \in DOMAIN records' :
        i < j /\ records'[i].status = "ok" /\ records'[j].call = records'[i].call
          => records'[j].status = "skipped"
  BY DEF NoRepeatAfterSuccess
<1>2. \A i, j \in DOMAIN results' : results'[i].call = results'[j].call => i = j
  BY DEF NoRepeatAfterSuccess
<1>3. SucceededCalls' = SucceededCalls
  BY DEF SucceededCalls
<1>4. {results'[i].call : i \in DOMAIN results'} = SucceededCalls
  BY DEF NoRepeatAfterSuccess, SucceededCalls
<1> QED  BY <1>1, <1>2, <1>3, <1>4 DEF NoRepeatAfterSuccess, SucceededCalls

LEMMA PlanRaisesKeeps == TurnInv /\ PlanRaises => TurnInv'
<1> SUFFICES ASSUME TurnInv, PlanRaises PROVE TurnInv'
  OBVIOUS
<1>1. /\ UNCHANGED <<request, queue, seen, duplicates, replans, records, results>>
      /\ status' = "raised" /\ request.path # "deterministic"
  BY DEF PlanRaises
<1>2. TypeOK' /\ NothingYet'
  BY <1>1 DEF TurnInv, TypeOK, NothingYet
<1>6. SuccessIsSeen' /\ NoRepeatAfterSuccess'
  <2>1. SuccessIsSeen'
    BY <1>1 DEF TurnInv, SuccessIsSeen
  <2>2. NoRepeatAfterSuccess
    BY DEF TurnInv
  <2>3. NoRepeatAfterSuccess'
    BY <1>1, <2>2, NothingAccepted
  <2> QED  BY <2>1, <2>3
<1>3. RetryAtHead' /\ RetriesFollowFailures'
  BY <1>1 DEF TurnInv, RetryAtHead, RetriesFollowFailures, FailedRecord, Retries, RetryNext
<1>4. QueueFollowsDag' /\ FollowsDag'
  BY <1>1 DEF TurnInv, QueueFollowsDag, FollowsDag, Order
<1>5. PlannedInScope' /\ CompletedServes' /\ DeterministicFits'
  BY <1>1 DEF TurnInv, PlannedInScope, Planned, FirstAttempt, CompletedServes, DeterministicFits
<1> QED  BY <1>2, <1>3, <1>4, <1>5, <1>6 DEF TurnInv

\* An iteration that queues nothing.
LEMMA RestTaken ==
  ASSUME TurnInv, InLoop, request' = request,
         NEW s \in {"ok", "error", "timeout", "skipped"}, Taken(s), queue' = Tail(queue),
         seen \subseteq seen', seen' \subseteq seen \cup {Current.call},
         duplicates' \in 0..(MaxDuplicates + 1), replans' \in 0..MaxReplans, replans <= replans',
         status' \in {"running", "raised"},
         request.path = "deterministic" => status' = "running" /\ replans' = 0 /\ duplicates' = 0,
         results' \in Seq(AnswerType), SuccessIsSeen', NoRepeatAfterSuccess',
         request.path # "pure_llm" =>
           \A i \in DOMAIN results' : FirstAttempt(results'[i]) => Planned(results'[i])
  PROVE  TurnInv'
<1> USE DEF TurnInv
<1>1. TypeOK'
  <2>1. records' \in Seq(RecordType) /\ Len(records') <= Shorter(MaxSteps, request.maxToolCalls)
    BY TakenIs
  <2>2. queue' \in Seq(EntryType) /\ Current.call \in Call
    BY Popped
  <2>3. request' \in Request /\ seen' \subseteq Call
    BY <2>2 DEF TypeOK
  <2> QED  BY <2>1, <2>2, <2>3 DEF TypeOK
<1>2. /\ replans \in Nat /\ replans' \in Nat
  BY Assumptions DEF TypeOK
<1>3. RetriesFollowFailures' /\ Cardinality(Retries') <= replans
  BY <1>2, TakenKeepsRetries
<1>4. Cardinality(Retries') \in Nat
  <2>1. DOMAIN records' = 1..Len(records') /\ Len(records') \in Nat
    BY <1>1 DEF TypeOK
  <2>2. IsFiniteSet(1..Len(records'))
    BY <2>1, FS_Interval
  <2>3. Retries' \in SUBSET (1..Len(records'))
    BY <2>1 DEF Retries
  <2>4. IsFiniteSet(Retries')
    BY <2>2, <2>3, FS_Subset
  <2> QED  BY <2>4, FS_CardinalityType
<1>5. /\ QueueFollowsDag' /\ RetryAtHead'
      /\ request.path # "pure_llm" =>
           \A i \in DOMAIN queue' : FirstAttempt(queue'[i]) => Planned(queue'[i])
  BY <1>2, <1>3, <1>4, RestKeeps
<1>6. PlannedInScope'
  BY <1>5 DEF PlannedInScope, Planned
<1>7. FollowsDag'
  BY TakenKeepsOrder
<1>8. DeterministicFits'
  BY RestFits
<1>9. NothingYet' /\ CompletedServes'
  BY DEF NothingYet, CompletedServes
<1> QED  BY <1>1, <1>3, <1>5, <1>6, <1>7, <1>8, <1>9

\* A repeated call, or a failed one that is given up.
LEMMA SkipRepeatedKeeps == TurnInv /\ SkipRepeated => TurnInv'
<1> SUFFICES ASSUME TurnInv, SkipRepeated PROVE TurnInv'
  OBVIOUS
<1>1. /\ TypeOK /\ SuccessIsSeen /\ NoRepeatAfterSuccess /\ PlannedInScope /\ DeterministicFits
      /\ InLoop /\ Current.call \in seen
  BY DEF TurnInv, SkipRepeated
<1>2. /\ request' = request /\ seen' = seen /\ replans' = replans /\ results' = results
      /\ status' = status /\ queue' = Tail(queue) /\ duplicates' = duplicates + 1
      /\ Taken("skipped")
  BY DEF SkipRepeated, Taken
<1>3. request.path # "deterministic"
  BY <1>1, DeterministicNew
<1>4. /\ duplicates' \in 0..(MaxDuplicates + 1) /\ replans' \in 0..MaxReplans /\ replans <= replans'
      /\ status' = "running" /\ results' \in Seq(AnswerType)
  BY <1>1, <1>2, Assumptions DEF TypeOK, InLoop
<1>5. SuccessIsSeen' /\ NoRepeatAfterSuccess'
  BY <1>1, <1>2, NoSuccess
<1>6. request.path # "pure_llm" =>
        \A i \in DOMAIN results' : FirstAttempt(results'[i]) => Planned(results'[i])
  BY <1>1, <1>2 DEF PlannedInScope
<1> QED  BY <1>1, <1>2, <1>3, <1>4, <1>5, <1>6, RestTaken

LEMMA Failed ==
  ASSUME Fails
  PROVE  /\ InLoop /\ Current.call \notin seen
         /\ \E s \in {"error", "timeout"} : Taken(s)
BY DEF Fails, Executes, Taken

LEMMA GiveUpKeeps == TurnInv /\ GiveUp => TurnInv'
<1> SUFFICES ASSUME TurnInv, GiveUp PROVE TurnInv'
  OBVIOUS
<1>1. /\ TypeOK /\ SuccessIsSeen /\ NoRepeatAfterSuccess /\ PlannedInScope /\ DeterministicFits
  BY DEF TurnInv
<1>2. InLoop /\ Current.call \notin seen /\ \E s \in {"error", "timeout"} : Taken(s)
  BY Failed DEF GiveUp
<1>3. PICK s \in {"error", "timeout"} : Taken(s)
  BY <1>2
<1>4. /\ request' = request /\ seen' = seen \cup {Current.call} /\ replans' = replans
      /\ results' = results /\ status' = status /\ queue' = Tail(queue) /\ duplicates' = duplicates
  BY DEF GiveUp
<1>5. /\ duplicates' \in 0..(MaxDuplicates + 1) /\ replans' \in 0..MaxReplans /\ replans <= replans'
      /\ status' = "running" /\ results' \in Seq(AnswerType)
  BY <1>1, <1>2, <1>4, Assumptions DEF TypeOK, InLoop
<1>6. SuccessIsSeen' /\ NoRepeatAfterSuccess'
  BY <1>1, <1>2, <1>3, <1>4, NoSuccess
<1>7. request.path # "pure_llm" =>
        \A i \in DOMAIN results' : FirstAttempt(results'[i]) => Planned(results'[i])
  BY <1>1, <1>4 DEF PlannedInScope
<1>8. request.path = "deterministic" => replans' = 0 /\ duplicates' = 0
  BY <1>1, <1>4 DEF DeterministicFits
<1>9. s \in {"ok", "error", "timeout", "skipped"}
  OBVIOUS
<1> QED  BY <1>2, <1>3, <1>4, <1>5, <1>6, <1>7, <1>8, <1>9, RestTaken

LEMMA ReplanRaisesKeeps == TurnInv /\ ReplanRaises => TurnInv'
<1> SUFFICES ASSUME TurnInv, ReplanRaises PROVE TurnInv'
  OBVIOUS
<1>1. /\ TypeOK /\ SuccessIsSeen /\ NoRepeatAfterSuccess /\ PlannedInScope
  BY DEF TurnInv
<1>2. InLoop /\ Current.call \notin seen /\ \E s \in {"error", "timeout"} : Taken(s)
  BY Failed DEF ReplanRaises
<1>3. PICK s \in {"error", "timeout"} : Taken(s)
  BY <1>2
<1>4. /\ request' = request /\ seen' = seen /\ replans' = replans + 1 /\ results' = results
      /\ status' = "raised" /\ queue' = Tail(queue) /\ duplicates' = duplicates
      /\ replans < MaxReplans /\ request.path # "deterministic"
  BY DEF ReplanRaises, MayReplan
<1>5. /\ duplicates' \in 0..(MaxDuplicates + 1) /\ replans' \in 0..MaxReplans /\ replans <= replans'
      /\ results' \in Seq(AnswerType)
  BY <1>1, <1>4, Assumptions DEF TypeOK
<1>6. SuccessIsSeen' /\ NoRepeatAfterSuccess'
  BY <1>1, <1>2, <1>3, <1>4, NoSuccess
<1>7. request.path # "pure_llm" =>
        \A i \in DOMAIN results' : FirstAttempt(results'[i]) => Planned(results'[i])
  BY <1>1, <1>4 DEF PlannedInScope
<1>8. s \in {"ok", "error", "timeout", "skipped"}
  OBVIOUS
<1> QED  BY <1>2, <1>3, <1>4, <1>5, <1>6, <1>7, <1>8, RestTaken

\* An accepted answer is the first of its call, and of a planned call if it is a first
\* attempt.
LEMMA Accepted ==
  ASSUME TurnInv, InLoop, Current.call \notin seen, Taken("ok"), request' = request,
         seen' = seen \cup {Current.call}, NEW e \in EventsOf(Current.call),
         results' = Append(results, Answer(Current.call, Current.attempt, e))
  PROVE  /\ results' \in Seq(AnswerType) /\ SuccessIsSeen' /\ NoRepeatAfterSuccess'
         /\ request.path # "pure_llm" =>
              \A i \in DOMAIN results' : FirstAttempt(results'[i]) => Planned(results'[i])
<1> DEFINE x == Answer(Current.call, Current.attempt, e)
           m == Len(results) + 1
<1>1. /\ TypeOK /\ SuccessIsSeen /\ NoRepeatAfterSuccess /\ PlannedInScope
  BY DEF TurnInv
<1>2. /\ 1 \in DOMAIN queue /\ Current = queue[1] /\ Current.call \in Call /\ Current.attempt \in {1, 2}
  BY <1>1, Popped
<1>3. x \in AnswerType /\ x.call = queue[1].call /\ x.attempt = queue[1].attempt
  BY <1>2 DEF Answer, AnswerType, EventsOf
<1>4. results \in Seq(AnswerType) /\ results' = Append(results, x)
  BY <1>1 DEF TypeOK
<1> HIDE DEF x
<1>5. /\ results' \in Seq(AnswerType) /\ Len(results) \in Nat /\ DOMAIN results = 1..Len(results)
      /\ DOMAIN results' = 1..m /\ results'[m] = x
      /\ \A i \in 1..Len(results) : results'[i] = results[i]
  BY <1>3, <1>4
<1>6. /\ SuccessIsSeen'
      /\ \A i, j \in DOMAIN records' :
           i < j /\ records'[i].status = "ok" /\ records'[j].call = records'[i].call
             => records'[j].status = "skipped"
      /\ SucceededCalls' = SucceededCalls \cup {Current.call}
      /\ SucceededCalls \subseteq seen
  BY <1>1, TakenKeepsSuccess
<1>7. {results[i].call : i \in DOMAIN results} = SucceededCalls
  BY <1>1 DEF NoRepeatAfterSuccess, SucceededCalls
<1>8. {results'[i].call : i \in DOMAIN results'} = SucceededCalls \cup {Current.call}
  <2>1. \A i \in DOMAIN results' : i \in DOMAIN results \/ i = m
    BY <1>5
  <2>2. m \in DOMAIN results' /\ \A i \in DOMAIN results : i \in DOMAIN results' /\ results'[i] = results[i]
    BY <1>5
  <2>3. results'[m].call = Current.call
    BY <1>2, <1>3, <1>5
  <2> QED  BY <1>7, <2>1, <2>2, <2>3
<1>9. ASSUME NEW i \in DOMAIN results', NEW j \in DOMAIN results', results'[i].call = results'[j].call
      PROVE  i = j
  <2>1. \A k \in DOMAIN results : results'[k].call # Current.call
    BY <1>5, <1>6, <1>7
  <2>2. results'[m].call = Current.call
    BY <1>2, <1>3, <1>5
  <2>3. \A k \in DOMAIN results' : k \in DOMAIN results \/ k = m
    BY <1>5
  <2>4. CASE i \in DOMAIN results /\ j \in DOMAIN results
    BY <1>1, <1>5, <1>9, <2>4 DEF NoRepeatAfterSuccess
  <2> QED  BY <1>9, <2>1, <2>2, <2>3, <2>4
<1>10. NoRepeatAfterSuccess'
  BY <1>6, <1>8, <1>9 DEF NoRepeatAfterSuccess, SucceededCalls
<1>11. ASSUME request.path # "pure_llm", NEW i \in DOMAIN results', FirstAttempt(results'[i])
       PROVE  Planned(results'[i])
  <2>1. CASE i \in DOMAIN results
    BY <1>1, <1>5, <1>11, <2>1 DEF PlannedInScope
  <2>2. CASE i = m
    <3>1. FirstAttempt(queue[1])
      BY <1>3, <1>5, <1>11, <2>2 DEF FirstAttempt
    <3>2. Planned(queue[1])
      BY <1>1, <1>2, <1>11, <3>1 DEF PlannedInScope
    <3> QED  BY <1>3, <1>5, <2>2, <3>2 DEF Planned
  <2> QED  BY <1>5, <2>1, <2>2
<1> QED  BY <1>5, <1>6, <1>10, <1>11

\* A new head at the place in the DAG of the old one, or a diagnosis after detection,
\* keeps the order.
LEMMA NewHeadKeepsOrder ==
  ASSUME TurnInv, InLoop, request' = request, request.path # "pure_llm",
         NEW s \in {"ok", "error", "timeout", "skipped"}, Taken(s),
         NEW d \in EntryType, queue' = <<d>> \o Tail(queue),
         \/ d.call.tool = queue[1].call.tool
         \/ d.call.tool = Diagnosis /\ queue[1].call.tool = Detect
  PROVE  /\ QueueFollowsDag' /\ FollowsDag'
         /\ d.call.tool = Diagnosis /\ queue[1].call.tool = Detect =>
              /\ ~ Diagnosed
              /\ \A i \in DOMAIN records', j \in DOMAIN queue' :
                   Order(records'[i]) < Order(queue'[j])
<1> DEFINE n == Len(records) + 1
           len == Len(queue)
           dt == d.call.tool = Diagnosis /\ queue[1].call.tool = Detect
<1>1. TypeOK /\ QueueFollowsDag /\ FollowsDag
  BY DEF TurnInv
<1>2. /\ len \in Nat /\ len > 0 /\ DOMAIN queue' = 1..len /\ DOMAIN queue = 1..len
      /\ queue'[1] = d /\ \A i \in 2..len : queue'[i] = queue[i]
  BY <1>1, NewHead
<1>3. /\ Len(records) \in Nat /\ DOMAIN records = 1..Len(records) /\ DOMAIN records' = 1..n
      /\ \A k \in 1..Len(records) : records'[k] = records[k]
      /\ records'[n].call = queue[1].call
  BY <1>1, TakenIs
<1> HIDE DEF len
<1>4. FollowsDag'
  BY <1>1, TakenKeepsOrder
<1>5. /\ 1 \in DOMAIN queue
      /\ \A j \in 2..len : j \in DOMAIN queue /\ 1 < j /\ Order(queue[1]) < Order(queue[j])
  <2>1. 1 \in DOMAIN queue /\ \A j \in 2..len : j \in DOMAIN queue /\ 1 < j
    BY <1>2
  <2> QED  BY <1>1, <2>1 DEF QueueFollowsDag
<1>6. /\ \A i \in DOMAIN queue : Order(queue[i]) \in Int
      /\ \A i \in DOMAIN records : Order(records[i]) \in Int
      /\ \A i \in DOMAIN queue : queue[i].call.tool \in ToolName
      /\ \A i \in DOMAIN records : records[i].call.tool \in ToolName
  <2>1. /\ \A i \in DOMAIN queue : queue[i] \in EntryType
        /\ \A i \in DOMAIN records : records[i] \in RecordType
    BY <1>1 DEF TypeOK
  <2> QED  BY <1>1, <2>1, OrderIs DEF EntryType, RecordType, Call
<1>7. ASSUME dt
      PROVE  /\ Order(queue[1]) = 1 /\ Order(d) = 2
             /\ \A j \in 2..len : Order(queue[j]) > 2
  <2>1. Order(queue[1]) = 1 /\ Order(d) = 2
    BY <1>7, DagOrders DEF Order
  <2>2. \A j \in 2..len : queue[j].call.tool # Diagnosis
    BY <1>1, <1>5, <1>7 DEF QueueFollowsDag
  <2>3. \A j \in 2..len : Order(queue[j]) # 2
    BY <1>5, <1>6, <2>2, DagOrders DEF Order
  <2> HIDE DEF Order
  <2> QED  BY <1>5, <1>6, <2>1, <2>3
<1>8. /\ Order(d) \in Int /\ Order(queue[1]) <= Order(d)
      /\ \A j \in 2..len : Order(d) < Order(queue[j])
  <2>1. CASE d.call.tool = queue[1].call.tool
    BY <1>5, <1>6, <2>1 DEF Order
  <2>2. CASE dt
    <3> HIDE DEF Order
    <3> QED  BY <1>5, <1>6, <1>7, <2>2
  <2> QED  BY <2>1, <2>2
<1>9. \A j \in DOMAIN queue' : j = 1 \/ j \in 2..len
  BY <1>2
<1>10. \A i \in DOMAIN records' : Order(records'[i]) <= Order(queue[1])
  <2>1. \A i \in DOMAIN records : Order(records[i]) <= Order(queue[1])
    BY <1>1, <1>5 DEF QueueFollowsDag
  <2>2. Order(records'[n]) = Order(queue[1])
    BY <1>3 DEF Order
  <2>3. \A i \in DOMAIN records' : i = n \/ (i \in DOMAIN records /\ records'[i] = records[i])
    BY <1>3
  <2> HIDE DEF Order
  <2> QED  BY <1>5, <1>6, <2>1, <2>2, <2>3
<1>11. \A i \in DOMAIN records' : Order(records'[i]) \in Int
  <2>1. \A i \in DOMAIN records' : (i = n /\ Order(records'[i]) = Order(queue[1]))
                                     \/ (i \in DOMAIN records /\ records'[i] = records[i])
    BY <1>3 DEF Order
  <2> HIDE DEF Order
  <2> QED  BY <1>5, <1>6, <2>1
<1>12. QueueFollowsDag'
  <2>1. ASSUME NEW i \in DOMAIN queue', NEW j \in DOMAIN queue', i < j
        PROVE  Order(queue'[i]) < Order(queue'[j])
    <3>1. j \in 2..len
      BY <1>2, <2>1
    <3>2. CASE i = 1
      BY <1>2, <1>8, <3>1, <3>2
    <3>3. CASE i \in 2..len
      BY <1>1, <1>2, <1>5, <2>1, <3>1, <3>3 DEF QueueFollowsDag
    <3> QED  BY <1>9, <3>2, <3>3
  <2>2. ASSUME NEW i \in DOMAIN records', NEW j \in DOMAIN queue'
        PROVE  Order(records'[i]) <= Order(queue'[j])
    <3> HIDE DEF Order
    <3>1. CASE j = 1
      BY <1>2, <1>5, <1>6, <1>8, <1>10, <1>11, <3>1
    <3>2. CASE j \in 2..len
      BY <1>2, <1>5, <1>6, <1>10, <1>11, <3>2
    <3> QED  BY <1>9, <3>1, <3>2
  <2>3. ASSUME NEW i \in DOMAIN queue', NEW j \in DOMAIN queue',
               queue'[i].call.tool = Detect, queue'[j].call.tool = Diagnosis
        PROVE  FALSE
    <3>1. CASE dt
      <4>1. \A k \in DOMAIN queue' : Order(queue'[k]) >= 2
        <5> HIDE DEF Order
        <5> QED  BY <1>2, <1>5, <1>6, <1>7, <1>9, <3>1
      <4> QED  BY <2>3, <4>1, DagOrders DEF Order
    <3>2. CASE d.call.tool = queue[1].call.tool
      <4>1. \A k \in DOMAIN queue' : k \in DOMAIN queue /\ queue'[k].call.tool = queue[k].call.tool
        BY <1>2, <1>5, <1>9, <3>2
      <4> QED  BY <1>1, <2>3, <4>1 DEF QueueFollowsDag
    <3> QED  BY <3>1, <3>2
  <2> QED  BY <2>1, <2>2, <2>3 DEF QueueFollowsDag, Order
<1>13. ASSUME dt PROVE ~ Diagnosed
  <2>1. \A i \in DOMAIN queue : queue[i].call.tool # Diagnosis
    BY <1>1, <1>5, <1>13 DEF QueueFollowsDag
  <2>2. \A i \in DOMAIN records : Order(records[i]) <= 1
    BY <1>1, <1>5, <1>7, <1>13 DEF QueueFollowsDag
  <2>3. \A i \in DOMAIN records : records[i].call.tool # Diagnosis
    BY <2>2, DagOrders DEF Order
  <2> QED  BY <2>1, <2>3 DEF Diagnosed
<1>14. ASSUME dt, NEW i \in DOMAIN records', NEW j \in DOMAIN queue'
       PROVE  Order(records'[i]) < Order(queue'[j])
  <2> HIDE DEF Order
  <2>1. Order(records'[i]) <= 1 /\ Order(records'[i]) \in Int
    BY <1>7, <1>10, <1>11, <1>14
  <2>2. Order(queue'[j]) >= 2 /\ Order(queue'[j]) \in Int
    BY <1>2, <1>5, <1>6, <1>7, <1>9, <1>14
  <2> QED  BY <2>1, <2>2
<1> QED  BY <1>4, <1>12, <1>13, <1>14

\* What an iteration keeps that queues one call in the place of the popped one: a second
\* attempt of a failed call, or a diagnosis.
LEMMA NewHeadTaken ==
  ASSUME TurnInv, InLoop, request' = request,
         NEW s \in {"ok", "error", "timeout", "skipped"}, Taken(s),
         NEW d \in EntryType, queue' = <<d>> \o Tail(queue),
         replans' \in 0..MaxReplans, replans <= replans',
         d.attempt = 2 =>
           /\ replans' = replans + 1 /\ s \in {"error", "timeout"}
           /\ request.path # "pure_llm" => d.call.tool = queue[1].call.tool,
         d.attempt = 1 => d.call.tool = Diagnosis
  PROVE  /\ RetryAtHead' /\ RetriesFollowFailures'
         /\ request.path # "pure_llm" =>
              \A i \in DOMAIN queue' : FirstAttempt(queue'[i]) => Planned(queue'[i])
         /\ queue' \in Seq(EntryType) /\ records' \in Seq(RecordType)
         /\ Len(records') <= Shorter(MaxSteps, request.maxToolCalls)
<1> DEFINE n == Len(records) + 1
           len == Len(queue)
<1>1. TypeOK /\ RetryAtHead /\ RetriesFollowFailures /\ PlannedInScope
  BY DEF TurnInv
<1>2. /\ len \in Nat /\ len > 0 /\ DOMAIN queue' = 1..len /\ DOMAIN queue = 1..len
      /\ queue'[1] = d /\ \A i \in 2..len : queue'[i] = queue[i]
      /\ queue' \in Seq(EntryType)
  BY <1>1, NewHead
<1> HIDE DEF len
<1>3. /\ Len(records) \in Nat /\ DOMAIN records = 1..Len(records) /\ DOMAIN records' = 1..n
      /\ records' \in Seq(RecordType) /\ Len(records') = n
      /\ \A k \in 1..Len(records) : records'[k] = records[k]
      /\ records'[n].call = queue[1].call /\ records'[n].status = s
      /\ Len(records') <= Shorter(MaxSteps, request.maxToolCalls)
  BY <1>1, TakenIs
<1>4. replans \in Nat /\ replans' \in Nat
  BY <1>1, Assumptions DEF TypeOK
<1>5. RetriesFollowFailures' /\ Cardinality(Retries') <= replans
  BY <1>1, <1>4, TakenKeepsRetries
<1>6. Cardinality(Retries') \in Nat
  <2>1. IsFiniteSet(1..n)
    BY <1>3, FS_Interval
  <2>2. Retries' \in SUBSET (1..n)
    BY <1>3 DEF Retries
  <2>3. IsFiniteSet(Retries')
    BY <2>1, <2>2, FS_Subset
  <2> QED  BY <2>3, FS_CardinalityType
<1>7. \A i \in DOMAIN queue' : i = 1 \/ (i \in 2..len /\ i \in DOMAIN queue /\ i # 1)
  BY <1>2
<1>8. \A i \in DOMAIN queue' : queue'[i].attempt = 2 => i = 1 /\ d.attempt = 2
  BY <1>1, <1>2, <1>7 DEF RetryAtHead
<1>9. d.attempt = 2 => /\ records' # <<>> /\ FailedRecord(Len(records))'
                       /\ request.path # "pure_llm" =>
                            queue'[1].call.tool = records'[Len(records')].call.tool
  <2>1. records' # <<>>
    BY <1>3
  <2> QED  BY <1>2, <1>3, <2>1 DEF FailedRecord
<1>10. Cardinality(Retries') + (IF RetryNext' THEN 1 ELSE 0) <= replans'
  <2>1. RetryNext' => d.attempt = 2
    BY <1>2 DEF RetryNext
  <2> HIDE DEF RetryNext
  <2> QED  BY <1>4, <1>5, <1>6, <2>1
<1>11. RetryAtHead'
  BY <1>8, <1>9, <1>10 DEF RetryAtHead
<1>12. ASSUME request.path # "pure_llm", NEW i \in DOMAIN queue', FirstAttempt(queue'[i])
       PROVE  Planned(queue'[i])
  <2>1. i # 1
    BY <1>2, <1>12 DEF FirstAttempt
  <2> QED  BY <1>1, <1>2, <1>7, <1>12, <2>1 DEF PlannedInScope
<1> QED  BY <1>2, <1>3, <1>5, <1>11, <1>12

\* An accepted answer; a detected event queues a diagnosis, within the budget.
LEMMA ExecuteKeeps == TurnInv /\ Execute => TurnInv'
<1> SUFFICES ASSUME TurnInv, Execute PROVE TurnInv'
  OBVIOUS
<1>1. /\ TypeOK /\ DeterministicFits
  BY DEF TurnInv
<1>2. InLoop /\ Current.call \notin seen /\ status = "running" /\ Taken("ok")
  BY DEF Execute, Executes, InLoop, Taken
<1>3. PICK e \in EventsOf(Current.call) :
        /\ results' = Append(results, Answer(Current.call, Current.attempt, e))
        /\ queue' = Derived(Current.call, e) \o Tail(queue)
  BY DEF Execute
<1>4. /\ seen' = seen \cup {Current.call}
      /\ request' = request /\ duplicates' = duplicates /\ replans' = replans
      /\ status' = "running"
  BY <1>2 DEF Execute
<1>5. /\ results' \in Seq(AnswerType) /\ SuccessIsSeen' /\ NoRepeatAfterSuccess'
      /\ request.path # "pure_llm" =>
           \A i \in DOMAIN results' : FirstAttempt(results'[i]) => Planned(results'[i])
  BY <1>2, <1>3, <1>4, Accepted
<1>6. /\ duplicates' \in 0..(MaxDuplicates + 1) /\ replans' \in 0..MaxReplans /\ replans <= replans'
  BY <1>1, <1>4, Assumptions DEF TypeOK
<1>7. request.path = "deterministic" => replans' = 0 /\ duplicates' = 0
  BY <1>1, <1>4 DEF DeterministicFits
<1>8. Current = queue[1] /\ Current.call \in Call /\ Tail(queue) \in Seq(EntryType)
  BY <1>1, <1>2, Popped
<1>9. CASE Derived(Current.call, e) = <<>>
  <2>1. queue' = Tail(queue)
    BY <1>3, <1>8, <1>9
  <2> QED  BY <1>2, <1>4, <1>5, <1>6, <1>7, <2>1, RestTaken
<1>10. CASE Derived(Current.call, e) # <<>>
  <2> DEFINE d == Entry(DiagnosisCall(e), 1)
             n == Len(records) + 1
  <2>1. /\ Current.call.tool = Detect /\ e # NoEvent /\ request.path # "pure_llm"
        /\ Len(queue) + Len(records) < request.maxToolCalls
        /\ Derived(Current.call, e) = <<d>>
    BY <1>10 DEF Derived
  <2>2. queue' = <<d>> \o Tail(queue)
    BY <1>3, <2>1
  <2>3. d \in EntryType /\ d.attempt = 1 /\ d.call.tool = Diagnosis
    <3>1. e \in Event
      BY <2>1 DEF EventsOf
    <3> QED  BY <3>1, Assumptions DEF Entry, EntryType, DiagnosisCall, Call, ToolName, Mode
  <2> HIDE DEF d
  <2>4. /\ RetryAtHead' /\ RetriesFollowFailures'
        /\ \A i \in DOMAIN queue' : FirstAttempt(queue'[i]) => Planned(queue'[i])
        /\ queue' \in Seq(EntryType) /\ records' \in Seq(RecordType)
        /\ Len(records') <= Shorter(MaxSteps, request.maxToolCalls)
    <3>1. "ok" \in {"ok", "error", "timeout", "skipped"} /\ d.attempt # 2
      BY <2>3
    <3> QED  BY <1>2, <1>4, <1>6, <2>1, <2>2, <2>3, <3>1, NewHeadTaken
  <2>5. /\ QueueFollowsDag' /\ FollowsDag' /\ ~ Diagnosed
        /\ \A i \in DOMAIN records', j \in DOMAIN queue' : Order(records'[i]) < Order(queue'[j])
    BY <1>2, <1>4, <1>8, <2>1, <2>2, <2>3, NewHeadKeepsOrder
  <2>6. TypeOK'
    BY <1>1, <1>4, <1>5, <1>6, <1>8, <2>4 DEF TypeOK
  <2>7. PlannedInScope'
    BY <1>4, <1>5, <2>4 DEF PlannedInScope, Planned
  <2>8. DeterministicFits'
    <3> SUFFICES ASSUME request.path = "deterministic" PROVE DeterministicFits'
      BY <1>4 DEF DeterministicFits
    <3>1. /\ Len(records) \in Nat /\ DOMAIN records = 1..Len(records)
          /\ DOMAIN records' = 1..n /\ Len(records') = n
          /\ \A k \in 1..Len(records) : records'[k] = records[k]
          /\ records'[n].call = queue[1].call
      BY <1>1, <1>2, TakenIs
    <3>2. Len(queue') = Len(queue) /\ Len(queue) \in Nat /\ 1 \in DOMAIN queue' /\ queue'[1] = d
      BY <1>1, <1>2, <2>2, <2>3, NewHead
    <3>3. Diagnosed'
      BY <2>3, <3>2 DEF Diagnosed
    <3>4. /\ Len(records') + Len(queue') <= request'.maxToolCalls
          /\ Len(records') + Len(queue') <= 5 + (IF Diagnosed' THEN 1 ELSE 0)
      <4> DEFINE a == Len(records)  b == Len(queue)  aa == Len(records')  bb == Len(queue')
      <4>1. a + b <= 5 /\ b + a < request.maxToolCalls /\ request.maxToolCalls \in Nat
        BY <1>1, <2>1, <2>5, Assumptions DEF DeterministicFits, TypeOK, Request
      <4>2. a \in Nat /\ b \in Nat /\ aa = a + 1 /\ bb = b
        BY <3>1, <3>2
      <4> HIDE DEF a, b, aa, bb
      <4>3. aa + bb <= request'.maxToolCalls /\ aa + bb <= 5 + (IF Diagnosed' THEN 1 ELSE 0)
        BY <1>4, <3>3, <4>1, <4>2
      <4> QED  BY <4>3 DEF aa, bb
    <3>5. seen' \subseteq {records'[i].call : i \in DOMAIN records'}
      <4>1. \A i \in DOMAIN records : i \in DOMAIN records' /\ records'[i] = records[i]
        BY <3>1
      <4>2. n \in DOMAIN records' /\ records'[n].call = Current.call
        BY <1>8, <3>1
      <4>3. seen \subseteq {records[i].call : i \in DOMAIN records}
        BY <1>1 DEF DeterministicFits
      <4> QED  BY <1>4, <4>1, <4>2, <4>3
    <3>6. ~ Ended'
      BY <1>4 DEF Ended
    <3> QED  BY <1>7, <2>5, <3>4, <3>5, <3>6 DEF DeterministicFits, Order
  <2>9. NothingYet' /\ CompletedServes'
    BY <1>4 DEF NothingYet, CompletedServes
  <2> QED  BY <1>5, <2>4, <2>5, <2>6, <2>7, <2>8, <2>9 DEF TurnInv
<1> QED  BY <1>9, <1>10

LEMMA AtMostOne ==
  ASSUME NEW S, NEW q \in Seq(S), Len(q) <= 1
  PROVE  q = <<>> \/ \E x \in S : q = <<x>>
<1>1. Len(q) \in Nat /\ DOMAIN q = 1..Len(q)
  OBVIOUS
<1>2. Len(q) = 0 \/ Len(q) = 1
  BY <1>1
<1>3. CASE Len(q) = 0
  BY <1>3
<1>4. CASE Len(q) = 1
  <2>1. q[1] \in S
    BY <1>4
  <2>2. q = <<q[1]>>
    BY <1>4
  <2> QED  BY <2>1, <2>2
<1> QED  BY <1>2, <1>3, <1>4

\* The replacement of a failed call goes to the head of the queue, as a second attempt.
LEMMA ReplanKeeps == TurnInv /\ Replan => TurnInv'
<1> SUFFICES ASSUME TurnInv, Replan PROVE TurnInv'
  OBVIOUS
<1>1. /\ TypeOK /\ SuccessIsSeen /\ NoRepeatAfterSuccess /\ PlannedInScope
  BY DEF TurnInv
<1>2. InLoop /\ Current.call \notin seen /\ \E s \in {"error", "timeout"} : Taken(s)
  BY Failed DEF Replan
<1>3. PICK s \in {"error", "timeout"} : Taken(s)
  BY <1>2
<1>4. /\ request' = request /\ seen' = seen /\ replans' = replans + 1 /\ results' = results
      /\ status' = status /\ status = "running" /\ duplicates' = duplicates
      /\ replans < MaxReplans /\ request.path # "deterministic"
  BY <1>2 DEF Replan, MayReplan, InLoop
<1>5. PICK a \in Replacements : queue' = Entries(Replacement(Current.call, a), 2) \o Tail(queue)
  BY DEF Replan
<1>6. /\ duplicates' \in 0..(MaxDuplicates + 1) /\ replans' \in 0..MaxReplans /\ replans <= replans'
      /\ results' \in Seq(AnswerType)
  BY <1>1, <1>4, Assumptions DEF TypeOK
<1>7. SuccessIsSeen' /\ NoRepeatAfterSuccess'
  BY <1>1, <1>2, <1>3, <1>4, NoSuccess
<1>8. request.path # "pure_llm" =>
        \A i \in DOMAIN results' : FirstAttempt(results'[i]) => Planned(results'[i])
  BY <1>1, <1>4 DEF PlannedInScope
<1>9. s \in {"ok", "error", "timeout", "skipped"}
  OBVIOUS
<1>10. Current = queue[1] /\ Current.call \in Call /\ Tail(queue) \in Seq(EntryType)
  BY <1>1, <1>2, Popped
<1> DEFINE v == ValidatedCalls(a, 1)
           r == Replacement(Current.call, a)
<1>11. v \in Seq(Call) /\ Len(v) <= 1 /\ Len(v) \in Nat
  BY Assumptions, ValidatedCallsAre
<1>12. RecoveryCall(Current.call) \in Call /\ RecoveryCall(Current.call).tool = Current.call.tool
  BY <1>10 DEF RecoveryCall, Call, Mode
<1>13. \/ r = <<>> /\ request.path = "pure_llm"
       \/ \E c \in Call : r = <<c>> /\ (request.path # "pure_llm" => c.tool = Current.call.tool)
  <2>1. CASE request.path = "pure_llm" \/ (v # <<>> /\ v[1].tool = Current.call.tool)
    <3>1. r = v
      BY <2>1 DEF Replacement
    <3> HIDE DEF v, r
    <3>2. v = <<>> \/ \E c \in Call : v = <<c>>
      BY <1>11, AtMostOne
    <3> QED  BY <2>1, <3>1, <3>2
  <2>2. CASE ~ (request.path = "pure_llm" \/ (v # <<>> /\ v[1].tool = Current.call.tool))
    <3>1. r = <<RecoveryCall(Current.call)>>
      BY <2>2 DEF Replacement
    <3> HIDE DEF r
    <3> QED  BY <1>12, <3>1
  <2> QED  BY <2>1, <2>2
<1>14. queue' = Entries(r, 2) \o Tail(queue)
  BY <1>5
<1> HIDE DEF v, r
<1>15. CASE r = <<>> /\ request.path = "pure_llm"
  <2>1. Entries(r, 2) = <<>>
    BY <1>15 DEF Entries
  <2>2. queue' = Tail(queue)
    BY <1>10, <1>14, <2>1
  <2> QED  BY <1>2, <1>3, <1>4, <1>6, <1>7, <1>8, <1>9, <2>2, RestTaken
<1>16. ASSUME NEW c \in Call, r = <<c>>, request.path # "pure_llm" => c.tool = Current.call.tool
       PROVE  TurnInv'
  <2> DEFINE d == Entry(c, 2)
  <2>1. Entries(r, 2) = <<d>>
    BY <1>16 DEF Entries
  <2>2. queue' = <<d>> \o Tail(queue)
    BY <1>14, <2>1
  <2>3. d \in EntryType /\ d.attempt = 2 /\ d.call = c
    BY DEF Entry, EntryType
  <2> HIDE DEF d
  <2>4. /\ RetryAtHead' /\ RetriesFollowFailures'
        /\ request.path # "pure_llm" =>
              \A i \in DOMAIN queue' : FirstAttempt(queue'[i]) => Planned(queue'[i])
        /\ queue' \in Seq(EntryType) /\ records' \in Seq(RecordType)
        /\ Len(records') <= Shorter(MaxSteps, request.maxToolCalls)
    <3>1. d.attempt # 1
      BY <2>3
    <3>2. request.path # "pure_llm" => d.call.tool = queue[1].call.tool
      BY <1>10, <1>16, <2>3
    <3> QED  BY <1>2, <1>3, <1>4, <1>6, <1>9, <2>2, <2>3, <3>1, <3>2, NewHeadTaken
  <2>5. QueueFollowsDag' /\ FollowsDag'
    <3>1. CASE request.path = "pure_llm"
      BY <1>4, <3>1 DEF QueueFollowsDag, FollowsDag
    <3>2. CASE request.path # "pure_llm"
      BY <1>2, <1>3, <1>4, <1>9, <1>10, <1>16, <2>2, <2>3, <3>2, NewHeadKeepsOrder
    <3> QED  BY <3>1, <3>2
  <2>6. TypeOK'
    BY <1>1, <1>4, <1>6, <2>4 DEF TypeOK
  <2>7. PlannedInScope'
    BY <1>4, <1>8, <2>4 DEF PlannedInScope, Planned
  <2>8. NothingYet' /\ CompletedServes' /\ DeterministicFits'
    BY <1>4 DEF NothingYet, CompletedServes, DeterministicFits
  <2> QED  BY <1>7, <2>4, <2>5, <2>6, <2>7, <2>8 DEF TurnInv
<1> QED  BY <1>13, <1>15, <1>16

\* The turn ends: completed only with every tool of the baseline answered, and in a
\* deterministic turn with enough steps only when nothing is left to call.
LEMMA FinishKeeps == TurnInv /\ Finish => TurnInv'
<1> SUFFICES ASSUME TurnInv, Finish PROVE TurnInv'
  OBVIOUS
<1>1. /\ UNCHANGED <<request, queue, seen, duplicates, replans, records, results>>
      /\ status = "running" /\ ~ InLoop
      /\ status' \in {"completed", "insufficient_evidence", "failed"}
  BY DEF Finish
<1>2. TypeOK' /\ NothingYet'
  BY <1>1 DEF TurnInv, TypeOK, NothingYet
<1>3. SuccessIsSeen'
  BY <1>1 DEF TurnInv, SuccessIsSeen
<1>4. NoRepeatAfterSuccess'
  BY <1>1, NothingAccepted DEF TurnInv
<1>5. RetryAtHead' /\ RetriesFollowFailures'
  BY <1>1 DEF TurnInv, RetryAtHead, RetriesFollowFailures, FailedRecord, Retries, RetryNext
<1>6. QueueFollowsDag' /\ FollowsDag' /\ PlannedInScope'
  BY <1>1 DEF TurnInv, QueueFollowsDag, FollowsDag, Order, PlannedInScope, Planned, FirstAttempt
<1>7. CompletedServes'
  <2> SUFFICES ASSUME status' = "completed", request.path # "pure_llm" PROVE CompletedServes'
    BY <1>1 DEF CompletedServes
  <2>1. BaselineTools(request) \subseteq Successful
    BY DEF Finish
  <2>2. \A t \in BaselineTools(request) : \E i \in DOMAIN results : results[i].call.tool = t
    BY <2>1 DEF Successful
  <2>3. \A i \in DOMAIN results :
          results[i].attempt = 1 /\ results[i].call.tool # Diagnosis =>
            \E k \in DOMAIN Baseline(request) : InScope(results[i].call, Baseline(request)[k])
    BY DEF TurnInv, PlannedInScope, FirstAttempt, Planned
  <2> QED  BY <1>1, <2>2, <2>3 DEF CompletedServes, BaselineTools
<1>8. DeterministicFits'
  <2>1. ASSUME request.path = "deterministic", MaxSteps >= 6, queue # <<>> PROVE FALSE
    <3>1. /\ duplicates = 0
          /\ Len(records) + Len(queue) <= request.maxToolCalls
          /\ Len(records) + Len(queue) <= 6
      <4> DEFINE a == Len(records)  b == Len(queue)
      <4>1. /\ duplicates = 0 /\ a + b <= request.maxToolCalls
            /\ a + b <= 5 + (IF Diagnosed THEN 1 ELSE 0) /\ a \in Nat /\ b \in Nat
        BY <2>1 DEF TurnInv, DeterministicFits, TypeOK
      <4> HIDE DEF a, b
      <4>2. a + b <= 6
        BY <4>1
      <4> QED  BY <4>1, <4>2 DEF a, b
    <3>2. Len(queue) \in Nat /\ Len(queue) > 0 /\ Len(records) \in Nat /\ request.maxToolCalls \in Nat
      BY <2>1, Assumptions DEF TurnInv, TypeOK, Request
    <3>3. ~ (Len(records) < Shorter(MaxSteps, request.maxToolCalls))
      BY <1>1, <2>1, <3>1, Assumptions DEF InLoop
    <3> QED  BY <2>1, <3>1, <3>2, <3>3, Assumptions DEF Shorter
  <2> QED  BY <1>1, <2>1 DEF TurnInv, DeterministicFits, Order, Diagnosed
<1> QED  BY <1>2, <1>3, <1>4, <1>5, <1>6, <1>7, <1>8 DEF TurnInv

LEMMA StutterKeeps == TurnInv /\ UNCHANGED turnVars => TurnInv'
<1> SUFFICES ASSUME TurnInv, UNCHANGED turnVars PROVE TurnInv'
  OBVIOUS
<1>1. UNCHANGED <<request, queue, seen, duplicates, replans, records, results, status>>
  BY DEF turnVars
<1>2. TypeOK' /\ NothingYet'
  BY <1>1 DEF TurnInv, TypeOK, NothingYet
<1>3. SuccessIsSeen'
  BY <1>1 DEF TurnInv, SuccessIsSeen
<1>4. NoRepeatAfterSuccess'
  BY <1>1, NothingAccepted DEF TurnInv
<1>5. RetryAtHead' /\ RetriesFollowFailures'
  BY <1>1 DEF TurnInv, RetryAtHead, RetriesFollowFailures, FailedRecord, Retries, RetryNext
<1>6. QueueFollowsDag' /\ FollowsDag' /\ PlannedInScope'
  BY <1>1 DEF TurnInv, QueueFollowsDag, FollowsDag, Order, PlannedInScope, Planned, FirstAttempt
<1>7. CompletedServes' /\ DeterministicFits'
  BY <1>1 DEF TurnInv, CompletedServes, BaselineTools, DeterministicFits, Order, Diagnosed, Ended
<1> QED  BY <1>2, <1>3, <1>4, <1>5, <1>6, <1>7 DEF TurnInv

\* The inductive invariant.
THEOREM TurnInvariant == Spec => []TurnInv
<1>1. TurnInv /\ [Next]_turnVars => TurnInv'
  <2> SUFFICES ASSUME TurnInv, [Next]_turnVars PROVE TurnInv'
    OBVIOUS
  <2>1. CASE PlanTurn  BY <2>1, PlanTurnKeeps
  <2>2. CASE PlanRaises  BY <2>2, PlanRaisesKeeps
  <2>3. CASE SkipRepeated  BY <2>3, SkipRepeatedKeeps
  <2>4. CASE Execute  BY <2>4, ExecuteKeeps
  <2>5. CASE GiveUp  BY <2>5, GiveUpKeeps
  <2>6. CASE Replan  BY <2>6, ReplanKeeps
  <2>7. CASE ReplanRaises  BY <2>7, ReplanRaisesKeeps
  <2>8. CASE Finish  BY <2>8, FinishKeeps
  <2>9. CASE UNCHANGED turnVars  BY <2>9, StutterKeeps
  <2> QED  BY <2>1, <2>2, <2>3, <2>4, <2>5, <2>6, <2>7, <2>8, <2>9 DEF Next
<1> QED  BY <1>1, InitEstablishes, PTL DEF Spec

\* Types, with the budgets on steps, repeated calls and replans.
THEOREM TypeCorrect == Spec => []TypeOK
<1>1. TurnInv => TypeOK  BY DEF TurnInv
<1> QED  BY <1>1, TurnInvariant, PTL

\* A call that succeeded is never executed again in its turn, whatever the model
\* answers: the results are those of distinct calls, the ones that succeeded.
THEOREM NeverRepeatsASuccess == Spec => []NoRepeatAfterSuccess
<1>1. TurnInv => NoRepeatAfterSuccess  BY DEF TurnInv
<1> QED  BY <1>1, TurnInvariant, PTL

\* Every second attempt comes right after the failure it replaces, and is paid for.
THEOREM EveryRetryFollowsAFailure == Spec => []RetriesFollowFailures
<1>1. TurnInv => RetriesFollowFailures  BY DEF TurnInv
<1> QED  BY <1>1, TurnInvariant, PTL

\* Outside the pure model path the calls are executed in the order of the workflow DAG.
THEOREM CallsFollowTheDag == Spec => []FollowsDag
<1>1. TurnInv => FollowsDag  BY DEF TurnInv
<1> QED  BY <1>1, TurnInvariant, PTL

\* A completed turn outside the pure model path serves its baseline, in its scope.
THEOREM CompletionServesTheBaseline == Spec => []CompletedServes
<1>1. TurnInv => CompletedServes  BY DEF TurnInv
<1> QED  BY <1>1, TurnInvariant, PTL

\* With enough steps a deterministic turn ends with no planned call left undone.
THEOREM NothingIsDisplaced == Spec => []NothingDisplaced
<1>1. TurnInv => NothingDisplaced
  BY DEF TurnInv, NothingDisplaced, DeterministicFits
<1> QED  BY <1>1, TurnInvariant, PTL
=============================================================================
