---------------------- MODULE ConversationMemoryProofs ----------------------
(***************************************************************************)
(* For any number of threads, conversations and texts: turns of one        *)
(* conversation never overlap, the shared dict holds each conversation     *)
(* once and exceeds its capacity only by the threads about to evict, a     *)
(* constraint is one that a turn of its own conversation gave, and the     *)
(* four memory modes see windows of the same turns.                        *)
(***************************************************************************)
EXTENDS ConversationMemory, DataLemmas

At == Rest \cup InState \cup {"lock", "append", "extract", "run"}

\* The part of the type invariant that the argument about the lock needs.
LockTypeOK ==
  /\ order \in Seq(Conv)
  /\ holder \in [Conv -> Thread \cup {Nobody}]
  /\ at \in [Thread -> At]
  /\ turn \in [Thread -> Request]

\* A thread is between Enter and Leave exactly when it holds its conversation's lock,
\* and nobody holds the lock of another conversation.
LockHeld ==
  /\ \A t \in Thread : Inside(t) <=> holder[turn[t].conv] = t
  /\ \A c \in Conv : holder[c] # Nobody => turn[holder[c]].conv = c

\* Only the holder of its lock inserts a conversation, so what was absent stays absent.
InsertsOnce ==
  /\ \A i, j \in DOMAIN order : order[i] = order[j] => i = j
  /\ \A t \in Thread : at[t] = "insert" => turn[t].conv \notin Keys(order)

LockInv == LockTypeOK /\ LockHeld /\ InsertsOnce

LEMMA LockExcludes ==
  ASSUME LockInv, NEW t \in Thread, NEW u \in Thread, Inside(t), Inside(u),
         turn[t].conv = turn[u].conv
  PROVE  t = u
BY DEF LockInv, LockHeld

LEMMA LockInit == Init => LockInv
<1> SUFFICES ASSUME Init PROVE LockInv
  OBVIOUS
<1>1. turn \in [Thread -> Request]
  BY MemoryAssumption DEF Init
<1>2. /\ order = <<>>
      /\ holder = [c \in Conv |-> Nobody]
      /\ at = [t \in Thread |-> "idle"]
  BY DEF Init
<1>3. LockTypeOK
  BY <1>1, <1>2 DEF LockTypeOK, At, Rest
<1>4. LockHeld
  BY <1>1, <1>2, MemoryAssumption DEF LockHeld, Inside, Rest, Request
<1>5. InsertsOnce
  BY <1>2 DEF InsertsOnce
<1> QED  BY <1>3, <1>4, <1>5 DEF LockInv

\* A step of t inside the lock that stays inside it, and does not insert.
LEMMA StaysInside ==
  ASSUME LockInv, NEW t \in Thread, Inside(t), NEW to \in At \ (Rest \cup {"lock"}),
         at' = [at EXCEPT ![t] = to], UNCHANGED <<holder, turn>>,
         order' \in Seq(Conv),
         \A i, j \in DOMAIN order' : order'[i] = order'[j] => i = j,
         Keys(order') \subseteq Keys(order),
         to = "insert" => turn[t].conv \notin Keys(order)
  PROVE  LockInv'
<1> USE DEF LockInv, LockTypeOK, LockHeld, InsertsOnce, Request
<1>1. LockTypeOK'
  OBVIOUS
<1>2. LockHeld'
  BY DEF Inside
<1>3. InsertsOnce'
  OBVIOUS
<1> QED  BY <1>1, <1>2, <1>3

\* A step of t that leaves the lock.
LEMMA Leaves ==
  ASSUME LockInv, NEW t \in Thread, Inside(t), NEW to \in Rest,
         Leave(t, to), UNCHANGED <<order, turn>>
  PROVE  LockInv'
<1> USE DEF LockInv, LockTypeOK, LockHeld, InsertsOnce, Request
<1>1. turn[t].conv \in Conv /\ t # Nobody
  BY MemoryAssumption
<1>2. /\ at' = [at EXCEPT ![t] = to]
      /\ holder' = [holder EXCEPT ![turn[t].conv] = Nobody]
  BY DEF Leave, Goto
<1>3. LockTypeOK'
  BY <1>1, <1>2 DEF At
<1>4. LockHeld'
  BY <1>1, <1>2, LockExcludes, MemoryAssumption DEF Inside, Rest
<1>5. InsertsOnce'
  BY <1>2 DEF Rest
<1> QED  BY <1>3, <1>4, <1>5

LEMMA LockNext == LockInv /\ [Next]_memoryVars => LockInv'
<1> SUFFICES ASSUME LockInv, [Next]_memoryVars PROVE LockInv'
  OBVIOUS
<1>0. /\ LockTypeOK
      /\ \A i, j \in DOMAIN order : order[i] = order[j] => i = j
  BY DEF LockInv, InsertsOnce
<1>1. ASSUME NEW t \in Thread, Arrive(t) PROVE LockInv'
  <2> USE DEF LockInv, LockTypeOK, LockHeld, InsertsOnce, Request
  <2>1. PICK r \in Requests[t] :
          /\ turn' = [turn EXCEPT ![t] = r]
          /\ at' = [at EXCEPT ![t] = "lock"]
          /\ at[t] \in Rest
          /\ UNCHANGED <<order, holder>>
          /\ r \in [conv : Conv, text : Text, mode : MemoryMode]
    BY <1>1, MemoryAssumption DEF Arrive, Goto
  <2>2. \A c \in Conv : holder[c] # t
    BY <2>1, MemoryAssumption DEF Inside
  <2>3. LockTypeOK'
    BY <2>1 DEF At
  <2>4. LockHeld'
    BY <2>1, <2>2 DEF Inside
  <2>5. InsertsOnce'
    BY <2>1
  <2> QED  BY <2>3, <2>4, <2>5
<1>2. ASSUME NEW t \in Thread, Enter(t) PROVE LockInv'
  <2> USE DEF LockInv, LockTypeOK, LockHeld, InsertsOnce, Request
  <2>1. /\ at' = [at EXCEPT ![t] = "check"]
        /\ holder' = [holder EXCEPT ![turn[t].conv] = t]
        /\ holder[turn[t].conv] = Nobody
        /\ at[t] = "lock"
        /\ UNCHANGED <<order, turn>>
    BY <1>2 DEF Enter, Goto
  <2>2. LockTypeOK'
    BY <2>1 DEF At, InState
  <2>3. LockHeld'
    BY <2>1, MemoryAssumption DEF Inside, Rest
  <2>4. InsertsOnce'
    BY <2>1
  <2> QED  BY <2>2, <2>3, <2>4
<1>3. ASSUME NEW t \in Thread, Check(t) PROVE LockInv'
  BY <1>0, <1>3, StaysInside DEF Check, Goto, Inside, Rest, At, InState, LockTypeOK
<1>4. ASSUME NEW t \in Thread, Insert(t) PROVE LockInv'
  <2> USE DEF LockInv, LockTypeOK, LockHeld, InsertsOnce, Request
  <2>1. /\ at[t] = "insert"
        /\ at' = [at EXCEPT ![t] = "bound"]
        /\ order' = Append(order, turn[t].conv)
        /\ turn[t].conv \in Conv
        /\ UNCHANGED <<holder, turn>>
    BY <1>4 DEF Insert, Goto
  <2>2. Inside(t)
    BY <2>1 DEF Inside, Rest
  <2>3. /\ order' \in Seq(Conv)
        /\ \A i, j \in DOMAIN order' : order'[i] = order'[j] => i = j
        /\ Keys(order') = Keys(order) \cup {turn[t].conv}
    BY <2>1, InsertAdds
  <2>4. LockTypeOK'
    BY <2>1, <2>3 DEF At, InState
  <2>5. LockHeld'
    BY <2>1 DEF Inside, Rest
  <2>6. ASSUME NEW u \in Thread, at'[u] = "insert" PROVE turn'[u].conv \notin Keys(order')
    <3>1. u # t /\ at[u] = "insert"
      BY <2>1, <2>6
    <3>2. Inside(u)
      BY <3>1 DEF Inside, Rest
    <3>3. turn[u].conv # turn[t].conv
      BY <2>2, <3>1, <3>2, LockExcludes
    <3> QED  BY <2>1, <2>3, <3>1, <3>3
  <2> QED  BY <2>3, <2>4, <2>5, <2>6
<1>5. ASSUME NEW t \in Thread, Bound(t) PROVE LockInv'
  BY <1>0, <1>5, StaysInside DEF Bound, Goto, Inside, Rest, At, InState, LockTypeOK
<1>6. ASSUME NEW t \in Thread, Pop(t) PROVE LockInv'
  <2>1. /\ Tail(order) \in Seq(Conv)
        /\ \A i, j \in DOMAIN Tail(order) : Tail(order)[i] = Tail(order)[j] => i = j
        /\ Keys(Tail(order)) \subseteq Keys(order)
    BY <1>0, <1>6, PopRemoves DEF Pop, LockTypeOK
  <2> QED  BY <1>6, <2>1, StaysInside DEF Pop, Goto, Inside, Rest, At, InState
<1>7. ASSUME NEW t \in Thread, Touch(t) PROVE LockInv'
  <2> DEFINE m == MoveToEnd(order, turn[t].conv)
  <2>1. order \in Seq(Conv) /\ \E i \in DOMAIN order : order[i] = turn[t].conv
    BY <1>0, <1>7 DEF Touch, Keys, LockTypeOK
  <2>2. /\ m \in Seq(Conv)
        /\ Len(m) = Len(order)
        /\ \A i, j \in DOMAIN order : m[i] = m[j] => i = j
        /\ \A i \in DOMAIN order : \E j \in DOMAIN order : m[i] = order[j]
    BY <1>0, <2>1, MoveToEndPermutes
  <2>3. DOMAIN m = DOMAIN order
    BY <2>1, <2>2
  <2>4. Keys(m) \subseteq Keys(order)
    BY <2>2, <2>3 DEF Keys
  <2>5. order' = m /\ at' = [at EXCEPT ![t] = "fetch"] /\ at[t] = "touch" /\ UNCHANGED <<holder, turn>>
    BY <1>7 DEF Touch, Goto
  <2> HIDE DEF m
  <2> QED  BY <2>2, <2>3, <2>4, <2>5, StaysInside DEF Inside, Rest, At, InState
<1>8. ASSUME NEW t \in Thread, Fetch(t) PROVE LockInv'
  BY <1>0, <1>8, StaysInside DEF Fetch, Goto, Inside, Rest, At, InState, LockTypeOK
<1>9. ASSUME NEW t \in Thread, KeyError(t) PROVE LockInv'
  BY <1>9, Leaves DEF KeyError, Inside, Rest
<1>10. ASSUME NEW t \in Thread, AppendTurn(t) PROVE LockInv'
  BY <1>0, <1>10, StaysInside DEF AppendTurn, Goto, Inside, Rest, At, InState, LockTypeOK
<1>11. ASSUME NEW t \in Thread, ExtractConstraints(t) PROVE LockInv'
  <2>1. /\ at[t] = "extract"
        /\ at' = [at EXCEPT ![t] = "run"]
        /\ UNCHANGED <<order, holder, turn>>
    BY <1>11 DEF ExtractConstraints, Goto
  <2> QED  BY <1>0, <2>1, StaysInside DEF Inside, Rest, At, InState, LockTypeOK
<1>12. ASSUME NEW t \in Thread, AnswerTurn(t) PROVE LockInv'
  BY <1>12, Leaves DEF AnswerTurn, Inside, Rest
<1>13. ASSUME NEW t \in Thread, TurnRaises(t) PROVE LockInv'
  BY <1>13, Leaves DEF TurnRaises, Inside, Rest
<1>14. CASE UNCHANGED memoryVars
  BY <1>14 DEF memoryVars, LockInv, LockTypeOK, LockHeld, InsertsOnce, Inside, Keys
<1> QED  BY <1>1, <1>2, <1>3, <1>4, <1>5, <1>6, <1>7, <1>8, <1>9, <1>10, <1>11, <1>12, <1>13, <1>14
         DEF Next, Step, Quiet

THEOREM LockInvariant == Spec => []LockInv
BY LockInit, LockNext, PTL DEF Spec

\* run_turn's lock per conversation: turns of one conversation never overlap, and the
\* unlocked dict never gets one conversation twice.
THEOREM TurnsExclude == Spec => []OneTurnAtATime
<1>1. LockInv => OneTurnAtATime
  BY LockExcludes DEF LockInv, LockHeld, InsertsOnce, OneTurnAtATime
<1> QED  BY <1>1, LockInvariant, PTL

-----------------------------------------------------------------------------
\* Every insert is followed by the eviction loop of the thread that made it, and the
\* thread leaves the loop only when the capacity is not exceeded.
BoundInv == LockInv /\ MemoryBounded

LEMMA EvictingIsFinite ==
  ASSUME LockTypeOK, LockTypeOK'
  PROVE  /\ IsFiniteSet(Evicting) /\ Cardinality(Evicting) \in Nat
         /\ IsFiniteSet(Evicting') /\ Cardinality(Evicting') \in Nat
         /\ Len(order) \in Nat /\ Len(order') \in Nat
         /\ MaxConversations \in Nat
BY MemoryAssumption, FS_Subset, FS_CardinalityType DEF Evicting, LockTypeOK

LEMMA BoundInit == Init => BoundInv
<1> SUFFICES ASSUME Init PROVE MemoryBounded
  BY LockInit DEF BoundInv
<1>1. Evicting = {} /\ Len(order) = 0
  BY DEF Init, Evicting
<1> QED  BY <1>1, FS_EmptySet, MemoryAssumption DEF MemoryBounded

\* Steps that neither insert nor leave the eviction loop.
LEMMA SameEvicting ==
  ASSUME BoundInv, LockTypeOK', Evicting' = Evicting, Len(order') <= Len(order)
  PROVE  MemoryBounded'
BY EvictingIsFinite DEF BoundInv, LockInv, MemoryBounded

LEMMA BoundNext == BoundInv /\ [Next]_memoryVars => BoundInv'
<1> SUFFICES ASSUME BoundInv, [Next]_memoryVars PROVE MemoryBounded'
  BY LockNext DEF BoundInv
<1>0. /\ LockTypeOK /\ LockTypeOK' /\ MemoryBounded
      /\ Len(order) \in Nat
      /\ at \in [Thread -> At]
  BY LockNext DEF BoundInv, LockInv, LockTypeOK
<1>1. ASSUME NEW t \in Thread, Insert(t) PROVE MemoryBounded'
  <2>1. Evicting' = Evicting \cup {t} /\ t \notin Evicting
    BY <1>0, <1>1 DEF Insert, Goto, Evicting
  <2>2. Cardinality(Evicting') = Cardinality(Evicting) + 1
    BY <1>0, <2>1, EvictingIsFinite, FS_AddElement
  <2>3. Len(order') = Len(order) + 1
    BY <1>0, <1>1 DEF Insert, LockTypeOK
  <2> QED  BY <1>0, <2>2, <2>3, EvictingIsFinite DEF MemoryBounded
<1>2. ASSUME NEW t \in Thread, Bound(t) PROVE MemoryBounded'
  <2>1. CASE Len(order) > MaxConversations
    <3>1. Evicting' = Evicting
      BY <1>0, <1>2, <2>1 DEF Bound, Goto, Evicting
    <3> QED  BY <1>0, <1>2, <3>1, SameEvicting DEF Bound
  <2>2. CASE ~(Len(order) > MaxConversations)
    <3>1. Len(order') <= MaxConversations
      BY <1>0, <1>2, <2>2, EvictingIsFinite DEF Bound
    <3> QED  BY <1>0, <3>1, EvictingIsFinite DEF MemoryBounded
  <2> QED  BY <2>1, <2>2
<1>3. ASSUME NEW t \in Thread, Pop(t) PROVE MemoryBounded'
  <2>1. Evicting' = Evicting
    BY <1>0, <1>3 DEF Pop, Goto, Evicting
  <2>2. Len(order') <= Len(order)
    BY <1>0, <1>3 DEF Pop, LockTypeOK
  <2> QED  BY <1>0, <2>1, <2>2, SameEvicting
<1>4. ASSUME NEW t \in Thread, KeyError(t) PROVE MemoryBounded'
  <2>1. CASE at[t] = "pop"
    <3>1. Len(order') = 0
      BY <1>4, <2>1 DEF KeyError
    <3> QED  BY <1>0, <3>1, EvictingIsFinite DEF MemoryBounded
  <2>2. CASE at[t] # "pop"
    <3>1. Evicting' = Evicting
      BY <1>0, <1>4, <2>2 DEF KeyError, Leave, Goto, Evicting
    <3> QED  BY <1>0, <1>4, <3>1, SameEvicting DEF KeyError
  <2> QED  BY <2>1, <2>2
<1>5. ASSUME NEW t \in Thread, Touch(t) PROVE MemoryBounded'
  <2>1. Evicting' = Evicting
    BY <1>0, <1>5 DEF Touch, Goto, Evicting
  <2>2. Len(order') <= Len(order)
    <3>1. order \in Seq(Conv) /\ \E i \in DOMAIN order : order[i] = turn[t].conv
      BY <1>0, <1>5 DEF Touch, Keys, LockTypeOK
    <3>2. \A i, j \in DOMAIN order : order[i] = order[j] => i = j
      BY DEF BoundInv, LockInv, InsertsOnce
    <3> QED  BY <1>0, <1>5, <3>1, <3>2, MoveToEndPermutes DEF Touch
  <2> QED  BY <1>0, <2>1, <2>2, SameEvicting
<1>6. ASSUME NEW t \in Thread,
             Arrive(t) \/ Enter(t) \/ Check(t) \/ Fetch(t) \/ AppendTurn(t)
               \/ ExtractConstraints(t) \/ AnswerTurn(t) \/ TurnRaises(t)
      PROVE  MemoryBounded'
  <2>1. /\ at[t] \notin {"bound", "pop"}
        /\ \E to : to \notin {"bound", "pop"} /\ at' = [at EXCEPT ![t] = to]
        /\ order' = order
    BY <1>6 DEF Arrive, Enter, Check, Fetch, AppendTurn, ExtractConstraints, AnswerTurn,
                TurnRaises, Leave, Goto, Rest
  <2>2. Evicting' = Evicting
    BY <1>0, <2>1 DEF Evicting
  <2> QED  BY <1>0, <2>1, <2>2, SameEvicting
<1>7. CASE UNCHANGED memoryVars
  BY <1>0, <1>7, SameEvicting DEF memoryVars, Evicting
<1> QED  BY <1>1, <1>2, <1>3, <1>4, <1>5, <1>6, <1>7 DEF Next, Step, Quiet

\* However many conversations are opened at once, the memory holds at most its capacity
\* and one conversation per thread that has yet to evict.
THEOREM MemoryStaysBounded == Spec => []MemoryBounded
<1>1. Spec => []BoundInv
  BY BoundInit, BoundNext, PTL DEF Spec
<1> QED  BY <1>1, PTL DEF BoundInv

-----------------------------------------------------------------------------
(* What the memory says of the turns *)

\* The state s takes account of its first n turns: each constraint was given by one
\* of its turns, none of the first n after that one gives it, and a region constraint
\* names regions, as its source told.
Upto(s, n) ==
  /\ \A k \in Key :
       /\ s.constraints[k].source <= n
       /\ s.constraints[k].source # 0 => s.constraints[k].source \in Givers(k, s)
       /\ \A m \in Givers(k, s) : m <= n => m <= s.constraints[k].source
  /\ s.constraints["regions"].source # 0 =>
       s.constraints["regions"].value # {} /\ AsTold(s.constraints["regions"], s)

\* A conversation takes account of all its turns, but for the last while the thread
\* that appended it is about to extract its constraints.
Sourced ==
  /\ \A c \in Conv : (\A t \in Thread : turn[t].conv = c => at[t] # "extract") =>
       Upto(memory[c], Len(memory[c].turns))
  /\ \A t \in Thread : at[t] = "extract" =>
       LET s == memory[turn[t].conv] IN
         /\ Len(s.turns) # 0
         /\ s.turns[Len(s.turns)] = turn[t].text
         /\ Upto(s, Len(s.turns) - 1)
  /\ \A c \in Conv : \A i \in DOMAIN memory[c].summaries :
       memory[c].summaries[i] \in DOMAIN memory[c].turns

\* Nothing changes the state of a conversation between the view of it that a turn is
\* given and the end of that turn.
Viewed ==
  \A t \in Thread : at[t] = "run" =>
    LET s == memory[turn[t].conv]
        n == Len(s.turns) IN
      /\ n # 0
      /\ view[t] = [prior     |-> PriorTurns(turn[t].mode, n),
                    visible   |-> Visible(s.constraints, turn[t].mode, n),
                    summaries |-> SummaryTurns(turn[t].mode, n, s.summaries)]

MemoryInv == TypeOK /\ LockInv /\ Sourced /\ Viewed

-----------------------------------------------------------------------------
(* One conversation's state *)

Constraints == [Key -> SourcedConstraint]
MemoryState == [turns : Seq(Text), constraints : Constraints, summaries : Seq(Nat)]

LEMMA FreshState ==
  Fresh \in MemoryState /\ Len(Fresh.turns) = 0 /\ Upto(Fresh, 0) /\ DOMAIN Fresh.summaries = {}
<1>1. Absent \in SourcedConstraint /\ Absent.source = 0
  BY DEF Absent, SourcedConstraint
<1>2. Fresh \in MemoryState
  BY <1>1 DEF Fresh, MemoryState, Constraints
<1>3. /\ Fresh.turns = <<>> /\ Fresh.summaries = <<>>
      /\ \A k \in Key : Fresh.constraints[k] = Absent
  BY DEF Fresh
<1>4. \A k \in Key : Givers(k, Fresh) = {}
  BY <1>3 DEF Givers
<1>5. Fresh.constraints["regions"] = Absent
  BY <1>3 DEF Key
<1> QED  BY <1>1, <1>2, <1>3, <1>4, <1>5 DEF Upto

\* A replacement gives regions exactly when a text that names them does.
LEMMA RegionsGiven ==
  ASSUME NEW x \in Text, NEW known \in SourcedConstraint,
         known.source # 0 => known.value # {}
  PROVE  /\ RegionsOf(x, known) \subseteq Region
         /\ RegionsOf(x, known) # {} <=> x.regions # {}
<1>1. x \in TextType /\ (x.replace # <<>> => {x.replace[1], x.replace[2]} \subseteq x.regions)
  BY MemoryAssumption
<1>2. x.regions \subseteq Region
  BY <1>1 DEF TextType
<1>3. CASE x.replace # <<>> /\ known.source # 0
  <2> DEFINE sub(r) == IF r = x.replace[1] THEN x.replace[2] ELSE r
  <2>1. RegionsOf(x, known) = {sub(r) : r \in known.value}
    BY <1>3 DEF RegionsOf
  <2>2. x.replace[2] \in Region /\ x.regions # {}
    BY <1>1, <1>2, <1>3
  <2>3. known.value \subseteq Region /\ known.value # {}
    BY <1>3 DEF SourcedConstraint
  <2> QED  BY <2>1, <2>2, <2>3
<1>4. CASE ~(x.replace # <<>> /\ known.source # 0)
  BY <1>2, <1>4 DEF RegionsOf
<1> QED  BY <1>3, <1>4

\* Appending a text leaves what the constraints say of the earlier ones.
LEMMA AppendUpto ==
  ASSUME NEW s \in MemoryState, NEW x \in Text, Upto(s, Len(s.turns)),
         NEW s2, s2 = [s EXCEPT !.turns = Append(s.turns, x)]
  PROVE  /\ s2 \in MemoryState
         /\ Len(s2.turns) = Len(s.turns) + 1
         /\ s2.turns[Len(s2.turns)] = x
         /\ Upto(s2, Len(s2.turns) - 1)
         /\ s2.summaries = s.summaries
<1> DEFINE n == Len(s.turns)
<1>1. s.turns \in Seq(Text) /\ n \in Nat /\ DOMAIN s.turns = 1 .. n
  BY DEF MemoryState
<1>2. /\ s2.turns = Append(s.turns, x) /\ s2.constraints = s.constraints /\ s2.summaries = s.summaries
      /\ s2 \in MemoryState
  <2>1. Append(s.turns, x) \in Seq(Text)
    BY <1>1
  <2> QED  BY <2>1 DEF MemoryState
<1>3. /\ Len(s2.turns) = n + 1 /\ s2.turns[n + 1] = x /\ DOMAIN s2.turns = 1 .. (n + 1)
      /\ \A i \in 1 .. n : s2.turns[i] = s.turns[i]
  BY <1>1, <1>2
<1>4. \A k \in Key : \A m \in 1 .. n : m \in Givers(k, s2) <=> m \in Givers(k, s)
  BY <1>1, <1>3 DEF Givers
<1>5. \A k \in Key : Givers(k, s2) \subseteq 1 .. (n + 1) /\ Givers(k, s) \subseteq 1 .. n
  BY <1>1, <1>3 DEF Givers
<1>6. \A k \in Key : s.constraints[k].source \in Nat
  BY DEF MemoryState, Constraints, SourcedConstraint
<1>7. Upto(s2, n)
  <2> HIDE DEF n
  <2>1. \A k \in Key :
          /\ s2.constraints[k].source <= n
          /\ s2.constraints[k].source # 0 => s2.constraints[k].source \in Givers(k, s2)
          /\ \A m \in Givers(k, s2) : m <= n => m <= s2.constraints[k].source
    <3> SUFFICES ASSUME NEW k \in Key
                 PROVE  /\ s2.constraints[k].source <= n
                        /\ s2.constraints[k].source # 0 => s2.constraints[k].source \in Givers(k, s2)
                        /\ \A m \in Givers(k, s2) : m <= n => m <= s2.constraints[k].source
      OBVIOUS
    <3> DEFINE g == s.constraints[k].source
    <3>1. /\ g <= n /\ (g # 0 => g \in Givers(k, s))
          /\ \A m \in Givers(k, s) : m <= n => m <= g
      BY DEF Upto, n
    <3>2. s2.constraints[k].source = g
      BY <1>2
    <3> HIDE DEF g
    <3>3. \A m \in Givers(k, s2) : m <= n => m \in Givers(k, s)
      <4>1. n \in Nat
        BY <1>1
      <4>2. \A m \in 1 .. (n + 1) : m <= n => m \in 1 .. n
        BY <4>1
      <4> QED  BY <1>4, <1>5, <4>2
    <3>4. g # 0 => g \in Givers(k, s2)
      BY <1>4, <1>5, <3>1
    <3> QED  BY <3>1, <3>2, <3>3, <3>4
  <2>2. ASSUME s2.constraints["regions"].source # 0
        PROVE  s2.constraints["regions"].value # {} /\ AsTold(s2.constraints["regions"], s2)
    <3> DEFINE c == s.constraints["regions"]
    <3>1. /\ s2.constraints["regions"] = c /\ c.source \in Nat
          /\ c.value # {} /\ AsTold(c, s) /\ c.source \in Givers("regions", s)
      BY <1>2, <1>6, <2>2 DEF Upto, Key
    <3>2. c.source \in 1 .. n /\ 1 .. c.source \subseteq 1 .. n
      BY <1>1, <1>5, <3>1 DEF Key
    <3> HIDE DEF c
    <3>3. AsTold(c, s2)
      BY <1>3, <3>1, <3>2 DEF AsTold, n
    <3> QED  BY <3>1, <3>3
  <2> QED  BY <2>1, <2>2 DEF Upto
<1>8. n + 1 - 1 = n
  BY <1>1
<1> QED  BY <1>2, <1>3, <1>7, <1>8

\* The latest of some turns, one turn on.
LEMMA LatestGiver ==
  ASSUME NEW n \in Nat \ {0}, NEW G, G \subseteq 1 .. n,
         NEW g \in Nat, g <= n - 1, g # 0 => g \in G, \A m \in G : m <= n - 1 => m <= g,
         NEW h, h = IF n \in G THEN n ELSE g
  PROVE  h <= n /\ (h # 0 => h \in G) /\ \A m \in G : m <= n => m <= h
<1>1. n \notin G => \A m \in G : m <= n - 1
  OBVIOUS
<1> QED  BY <1>1

\* Extracting the constraints of the last text takes account of it.
LEMMA ExtractUpto ==
  ASSUME NEW s \in MemoryState, NEW n, n = Len(s.turns), n # 0, NEW x, x = s.turns[n],
         Upto(s, n - 1),
         NEW s2, s2 = [s EXCEPT !.constraints = Extract(s.constraints, x, n)]
  PROVE  /\ s2 \in MemoryState
         /\ s2.turns = s.turns /\ s2.summaries = s.summaries
         /\ s2.constraints = Extract(s.constraints, x, n)
         /\ Upto(s2, n)
<1> DEFINE old == s.constraints
           new == Extract(old, x, n)
<1>1. /\ s.turns \in Seq(Text) /\ n \in Nat \ {0} /\ DOMAIN s.turns = 1 .. n /\ x \in Text
      /\ old \in Constraints
  BY DEF MemoryState
<1>2. old["regions"] \in SourcedConstraint
      /\ old["dates"] \in SourcedConstraint
  BY <1>1 DEF Constraints, Key
<1>3. /\ RegionsOf(x, old["regions"]) \subseteq Region
      /\ RegionsOf(x, old["regions"]) # {} <=> x.regions # {}
  BY <1>1, <1>2, RegionsGiven DEF Upto
<1>4. /\ new["regions"] = IF x.regions # {}
                          THEN [value |-> RegionsOf(x, old["regions"]), source |-> n] ELSE old["regions"]
      /\ new["dates"] = IF x.dated THEN [value |-> {}, source |-> n] ELSE old["dates"]
      /\ DOMAIN new = Key
  BY <1>3 DEF Extract, Key
<1>5. new \in Constraints
  <2>1. \A k \in Key : new[k] \in SourcedConstraint
    BY <1>1, <1>2, <1>3, <1>4 DEF Key, SourcedConstraint
  <2>2. new = [k \in Key |-> new[k]]
    BY <1>4 DEF Extract, Key
  <2> HIDE DEF new
  <2> QED  BY <2>1, <2>2 DEF Constraints
<1>6. s2 \in MemoryState /\ s2.turns = s.turns /\ s2.summaries = s.summaries /\ s2.constraints = new
  BY <1>5 DEF MemoryState
<1>7. \A k \in Key : Givers(k, s2) = Givers(k, s) /\ Givers(k, s) \subseteq 1 .. n
  BY <1>1, <1>6 DEF Givers
<1>8. \A k \in Key : n \in Givers(k, s) <=> Gives(k, x)
  BY <1>1 DEF Givers
<1>9. \A k \in Key : IF Gives(k, x) THEN new[k].source = n ELSE new[k] = old[k]
  BY <1>4 DEF Gives, Key
<1>10. ASSUME new["regions"].source # 0
       PROVE  new["regions"].value # {} /\ AsTold(new["regions"], s)
  <2> DEFINE c == old["regions"]
  <2>1. c.source # 0 => c.value # {} /\ AsTold(c, s) /\ c.source <= n - 1
    BY DEF Upto, Key
  <2>2. c.source \in Nat /\ (c.source # 0 => c.source \in 1 .. n)
    BY <1>1, <1>2, <2>1 DEF SourcedConstraint
  <2>3. CASE x.regions = {}
    BY <1>4, <1>10, <2>1, <2>3
  <2>4. CASE x.regions # {}
    <3>1. new["regions"] = [value |-> RegionsOf(x, c), source |-> n]
      BY <1>4, <2>4
    <3>2. RegionsOf(x, c) # {} /\ s.turns[n] = x
      BY <1>3, <2>4
    <3>3. CASE x.replace = <<>>
      <4>1. RegionsOf(x, c) = x.regions
        BY <3>3 DEF RegionsOf
      <4> QED  BY <3>1, <3>2, <3>3, <4>1 DEF AsTold
    <3>4. CASE x.replace # <<>>
      <4>1. ASSUME NEW r \in RegionsOf(x, c) PROVE \E m \in 1 .. n : r \in s.turns[m].regions
        <5>0. n \in 1 .. n
          BY <1>1
        <5>1. CASE r \in x.regions
          BY <3>2, <5>0, <5>1
        <5>2. CASE r \notin x.regions
          <6>1. c.source # 0 /\ r \in c.value
            <7>1. x.replace[2] \in x.regions
              BY <1>1, <3>4, MemoryAssumption
            <7> QED  BY <3>4, <5>2, <7>1 DEF RegionsOf
          <6>2. \E m \in 1 .. c.source : r \in s.turns[m].regions
            <7>1. c.source \in 1 .. c.source
              BY <2>2, <6>1
            <7> QED  BY <2>1, <6>1, <7>1 DEF AsTold
          <6>3. 1 .. c.source \subseteq 1 .. n
            BY <1>1, <2>2, <6>1
          <6> QED  BY <6>2, <6>3
        <5> QED  BY <5>1, <5>2
      <4> QED  BY <3>1, <3>2, <3>4, <4>1 DEF AsTold
    <3> QED  BY <3>1, <3>2, <3>3, <3>4
  <2> QED  BY <2>3, <2>4
<1>11. ASSUME NEW k \in Key
       PROVE  /\ new[k].source <= n
              /\ new[k].source # 0 => new[k].source \in Givers(k, s)
              /\ \A m \in Givers(k, s) : m <= n => m <= new[k].source
  <2> DEFINE g == old[k].source
             h == new[k].source
  <2>1. /\ g <= n - 1 /\ (g # 0 => g \in Givers(k, s))
        /\ \A m \in Givers(k, s) : m <= n - 1 => m <= g
        /\ g \in Nat
    BY <1>1 DEF Upto, Constraints, SourcedConstraint
  <2>2. IF Gives(k, x) THEN h = n ELSE h = g
    BY <1>9
  <2>3. Givers(k, s) \subseteq 1 .. n /\ (n \in Givers(k, s) <=> Gives(k, x))
    BY <1>7, <1>8
  <2> HIDE DEF g, h
  <2>4. h = IF n \in Givers(k, s) THEN n ELSE g
    BY <2>2, <2>3
  <2>5. n \in Nat \ {0}
    BY <1>1
  <2>6. h <= n /\ (h # 0 => h \in Givers(k, s)) /\ (\A m \in Givers(k, s) : m <= n => m <= h)
    BY <2>1, <2>3, <2>4, <2>5, LatestGiver
  <2> QED  BY <2>6 DEF h
<1> HIDE DEF new
<1>12. Upto(s2, n)
  BY <1>6, <1>7, <1>10, <1>11 DEF Upto, AsTold
<1> QED  BY <1>6, <1>12 DEF new

\* Recording results leaves what the constraints say, and attributes the results to
\* the current turn.
LEMMA RecordUpto ==
  ASSUME NEW s \in MemoryState, NEW k \in Nat, Len(s.turns) # 0, Upto(s, Len(s.turns)),
         \A i \in DOMAIN s.summaries : s.summaries[i] \in DOMAIN s.turns,
         NEW s2, s2 = RecordResults(s, k)
  PROVE  /\ s2 \in MemoryState
         /\ s2.turns = s.turns
         /\ Upto(s2, Len(s2.turns))
         /\ \A i \in DOMAIN s2.summaries : s2.summaries[i] \in DOMAIN s2.turns
<1> DEFINE n == Len(s.turns)
           r == [i \in 1 .. k |-> n]
<1>1. /\ n \in Nat \ {0} /\ DOMAIN s.turns = 1 .. n /\ s.summaries \in Seq(Nat)
  BY DEF MemoryState
<1>2. r \in Seq(Nat) /\ Len(r) = k /\ \A i \in 1 .. k : r[i] = n
  BY <1>1
<1>3. s2 = [s EXCEPT !.summaries = s.summaries \o r]
  BY DEF RecordResults
<1> HIDE DEF r
<1>4. s.summaries \o r \in Seq(Nat)
  BY <1>1, <1>2
<1>5. /\ s2 \in MemoryState /\ s2.turns = s.turns /\ s2.constraints = s.constraints
      /\ s2.summaries = s.summaries \o r
  BY <1>3, <1>4 DEF MemoryState
<1>6. Upto(s2, n)
  <2>1. \A c \in Key : Givers(c, s2) = Givers(c, s)
    BY <1>5 DEF Givers
  <2> QED  BY <1>5, <2>1 DEF Upto, AsTold
<1>7. \A i \in DOMAIN s2.summaries : s2.summaries[i] \in DOMAIN s.turns
  <2> SUFFICES ASSUME NEW i \in DOMAIN (s.summaries \o r) PROVE (s.summaries \o r)[i] \in DOMAIN s.turns
    BY <1>5
  <2> DEFINE m == Len(s.summaries)
  <2>1. /\ m \in Nat /\ i \in 1 .. (m + k) /\ DOMAIN s.summaries = 1 .. m
        /\ (s.summaries \o r)[i] = IF i <= m THEN s.summaries[i] ELSE r[i - m]
    BY <1>1, <1>2
  <2> HIDE DEF m, n
  <2>2. CASE i <= m
    BY <2>1, <2>2
  <2>3. CASE ~(i <= m)
    <3>1. i - m \in 1 .. k
      BY <2>1, <2>3
    <3>2. n \in 1 .. n
      BY <1>1
    <3> QED  BY <1>1, <1>2, <2>1, <2>3, <3>1, <3>2
  <2> QED  BY <2>2, <2>3
<1> QED  BY <1>5, <1>6, <1>7

SeenType == UNION {[seen -> SourcedConstraint] : seen \in SUBSET Key}
ViewType == [prior : SUBSET Nat, visible : SeenType, summaries : SUBSET Nat]

\* What begin_turn puts before the planner, at turn n of state s.
ViewOf(mode, n, s) ==
  [prior     |-> PriorTurns(mode, n),
   visible   |-> Visible(s.constraints, mode, n),
   summaries |-> SummaryTurns(mode, n, s.summaries)]

LEMMA NoViewType == NoView \in ViewType
<1>1. [k \in {} |-> Absent] \in [{} -> SourcedConstraint]
  OBVIOUS
<1>2. {} \in SUBSET Key
  OBVIOUS
<1>3. [k \in {} |-> Absent] \in SeenType
  BY <1>1, <1>2 DEF SeenType
<1> QED  BY <1>3 DEF NoView, ViewType

LEMMA ViewOfType ==
  ASSUME NEW mode \in MemoryMode, NEW n \in Nat, NEW s \in MemoryState
  PROVE  ViewOf(mode, n, s) \in ViewType
<1>1. s.summaries \in Seq(Nat) /\ SlidingTurns \in Nat
  BY MemoryAssumption DEF MemoryState
<1>2. PriorTurns(mode, n) \subseteq Nat
  BY <1>1 DEF MemoryMode, PriorTurns, Larger
<1>3. Visible(s.constraints, mode, n) \in SeenType
  <2>1. \A k \in Key : s.constraints[k] \in SourcedConstraint
    BY DEF MemoryState, Constraints
  <2>2. PICK seen \in SUBSET Key :
          Visible(s.constraints, mode, n) = [k \in seen |-> s.constraints[k]]
    BY DEF Visible
  <2> QED  BY <2>1, <2>2 DEF SeenType
<1>4. Keys(s.summaries) \subseteq Nat /\ LastEight(s.summaries) \subseteq Nat
  BY <1>1 DEF Keys, LastEight
<1>5. SummaryTurns(mode, n, s.summaries) \subseteq Nat
  BY <1>4 DEF MemoryMode, SummaryTurns
<1> QED  BY <1>2, <1>3, <1>5 DEF ViewOf, ViewType

-----------------------------------------------------------------------------
(* The steps *)

\* A step of t that leaves the conversations as they are.
LEMMA KeepsConversations ==
  ASSUME MemoryInv, NEW t \in Thread, memory' = memory,
         at[t] # "extract", at'[t] \notin {"extract", "run"},
         \A u \in Thread \ {t} : at'[u] = at[u] /\ turn'[u] = turn[u] /\ view'[u] = view[u]
  PROVE  Sourced' /\ Viewed'
<1>1. Sourced /\ Viewed
  BY DEF MemoryInv
<1>2. Sourced'
  BY <1>1 DEF Sourced
<1>3. Viewed'
  BY <1>1 DEF Viewed
<1> QED  BY <1>2, <1>3

\* A step of t inside the lock, which leaves its conversation in state s.
LEMMA KeepsOthers ==
  ASSUME MemoryInv, NEW t \in Thread, Inside(t), turn' = turn,
         NEW s, memory' = [memory EXCEPT ![turn[t].conv] = s],
         \A u \in Thread \ {t} : at'[u] = at[u] /\ view'[u] = view[u],
         IF at'[t] = "extract"
         THEN /\ Len(s.turns) # 0 /\ s.turns[Len(s.turns)] = turn[t].text
              /\ Upto(s, Len(s.turns) - 1)
         ELSE Upto(s, Len(s.turns)),
         at'[t] = "run" => Len(s.turns) # 0 /\ view'[t] = ViewOf(turn[t].mode, Len(s.turns), s),
         \A i \in DOMAIN s.summaries : s.summaries[i] \in DOMAIN s.turns
  PROVE  Sourced' /\ Viewed'
<1> DEFINE c == turn[t].conv
<1>1. Sourced /\ Viewed /\ LockInv /\ memory \in [Conv -> MemoryState]
  BY DEF MemoryInv, TypeOK, MemoryState, Constraints
<1>2. c \in Conv
  BY DEF MemoryInv, TypeOK, Request
<1>3. memory'[c] = s /\ \A d \in Conv : d # c => memory'[d] = memory[d]
  BY <1>1, <1>2
<1>4. \A u \in Thread : u # t /\ at[u] \in {"extract", "run"} => turn[u].conv # c /\ turn[u].conv \in Conv
  <2>1. \A u \in Thread : at[u] \in {"extract", "run"} => Inside(u)
    BY DEF Inside, Rest
  <2>2. \A u \in Thread : turn[u].conv \in Conv
    BY DEF MemoryInv, TypeOK, Request
  <2> QED  BY <1>1, <2>1, <2>2, LockExcludes
<1>5. ASSUME NEW d \in Conv, \A u \in Thread : turn'[u].conv = d => at'[u] # "extract"
      PROVE  Upto(memory'[d], Len(memory'[d].turns))
  <2>1. CASE d = c
    BY <1>3, <1>5, <2>1
  <2>2. CASE d # c
    BY <1>1, <1>3, <1>5, <2>2 DEF Sourced
  <2> QED  BY <2>1, <2>2
<1>6. ASSUME NEW u \in Thread, at'[u] = "extract"
      PROVE  LET z == memory'[turn'[u].conv] IN
               /\ Len(z.turns) # 0 /\ z.turns[Len(z.turns)] = turn'[u].text
               /\ Upto(z, Len(z.turns) - 1)
  <2>1. CASE u = t
    BY <1>3, <1>6, <2>1
  <2>2. CASE u # t
    BY <1>1, <1>3, <1>4, <1>6, <2>2 DEF Sourced
  <2> QED  BY <2>1, <2>2
<1>7. \A d \in Conv : \A i \in DOMAIN memory'[d].summaries :
        memory'[d].summaries[i] \in DOMAIN memory'[d].turns
  BY <1>1, <1>3 DEF Sourced
<1>8. ASSUME NEW u \in Thread, at'[u] = "run"
      PROVE  LET z == memory'[turn'[u].conv] IN
               Len(z.turns) # 0 /\ view'[u] = ViewOf(turn'[u].mode, Len(z.turns), z)
  <2>1. CASE u = t
    <3>1. turn'[u] = turn[t] /\ memory'[turn'[u].conv] = s /\ view'[u] = view'[t] /\ at'[t] = "run"
      BY <1>3, <1>8, <2>1
    <3>2. Len(s.turns) # 0 /\ view'[t] = ViewOf(turn[t].mode, Len(s.turns), s)
      BY <3>1
    <3> QED  BY <3>1, <3>2
  <2>2. CASE u # t
    BY <1>1, <1>3, <1>4, <1>8, <2>2 DEF Viewed, ViewOf
  <2> QED  BY <2>1, <2>2
<1>9. Sourced'
  BY <1>5, <1>6, <1>7 DEF Sourced
<1>10. Viewed'
  BY <1>8 DEF Viewed, ViewOf
<1> QED  BY <1>9, <1>10

LEMMA MemoryInit == Init => MemoryInv
<1> SUFFICES ASSUME Init PROVE MemoryInv
  OBVIOUS
<1>1. LockInv
  BY LockInit
<1>2. memory = [c \in Conv |-> Fresh] /\ view = [t \in Thread |-> NoView] /\ begun = 0
      /\ at = [t \in Thread |-> "idle"]
  BY DEF Init
<1>3. TypeOK
  <2>1. memory \in [Conv -> MemoryState]
    BY <1>2, FreshState
  <2>2. view \in [Thread -> ViewType]
    BY <1>2, NoViewType
  <2> QED  BY <1>1, <1>2, <2>1, <2>2
         DEF LockInv, LockTypeOK, At, TypeOK, MemoryState, Constraints, ViewType, SeenType
<1>4. Sourced /\ Viewed
  BY <1>2, FreshState DEF Sourced, Viewed
<1> QED  BY <1>1, <1>3, <1>4 DEF MemoryInv

\* The type invariant, from its parts.
LEMMA MemoryTypes ==
  ASSUME MemoryInv, LockInv', memory' \in [Conv -> MemoryState], view' \in [Thread -> ViewType],
         begun' \in Nat
  PROVE  TypeOK'
BY DEF LockInv, LockTypeOK, At, TypeOK, MemoryState, Constraints, ViewType, SeenType

\* A step of t inside the lock that replaces the state of its conversation keeps the types.
LEMMA OwnStateTypes ==
  ASSUME MemoryInv, LockInv', NEW t \in Thread, NEW s \in MemoryState, NEW v \in ViewType,
         memory' = [memory EXCEPT ![turn[t].conv] = s],
         view' = [view EXCEPT ![t] = v], begun' = begun
  PROVE  TypeOK'
<1>1. memory \in [Conv -> MemoryState] /\ view \in [Thread -> ViewType] /\ begun \in Nat
  BY DEF MemoryInv, TypeOK, MemoryState, Constraints, ViewType, SeenType
<1>2. memory' \in [Conv -> MemoryState] /\ view' \in [Thread -> ViewType]
  BY <1>1
<1> QED  BY <1>1, <1>2, MemoryTypes

LEMMA MemoryNext == MemoryInv /\ [Next]_memoryVars => MemoryInv'
<1> SUFFICES ASSUME MemoryInv, [Next]_memoryVars PROVE TypeOK' /\ Sourced' /\ Viewed'
  BY LockNext DEF MemoryInv
<1>0. /\ LockInv /\ LockInv' /\ Sourced /\ Viewed
      /\ memory \in [Conv -> MemoryState] /\ view \in [Thread -> ViewType] /\ begun \in Nat
      /\ at \in [Thread -> At] /\ turn \in [Thread -> Request]
  BY LockNext DEF MemoryInv, TypeOK, MemoryState, Constraints, ViewType, SeenType, At
<1>own. ASSUME NEW t \in Thread
      PROVE  /\ turn[t].conv \in Conv /\ memory[turn[t].conv] \in MemoryState
             /\ view[t] \in ViewType /\ view = [view EXCEPT ![t] = view[t]]
             /\ turn[t].text \in Text /\ turn[t].mode \in MemoryMode
  BY <1>0 DEF Request
<1>1. ASSUME NEW t \in Thread, Arrive(t) PROVE TypeOK' /\ Sourced' /\ Viewed'
  <2>1. /\ memory' = memory /\ view' = [view EXCEPT ![t] = NoView] /\ begun' = begun + 1
        /\ at[t] \in Rest /\ at' = [at EXCEPT ![t] = "lock"]
        /\ \E r \in Requests[t] : turn' = [turn EXCEPT ![t] = r]
    BY <1>1 DEF Arrive, Goto
  <2>2. NoView \in ViewType
    BY NoViewType
  <2>3. TypeOK'
    BY <1>0, <2>1, <2>2, MemoryTypes
  <2>4. /\ at[t] # "extract" /\ at'[t] \notin {"extract", "run"}
        /\ \A u \in Thread \ {t} : at'[u] = at[u] /\ turn'[u] = turn[u] /\ view'[u] = view[u]
    BY <1>0, <2>1 DEF Rest
  <2> QED  BY <2>1, <2>3, <2>4, KeepsConversations
<1>2. ASSUME NEW t \in Thread,
             Enter(t) \/ Check(t) \/ Bound(t) \/ Pop(t) \/ Touch(t) \/ Fetch(t)
               \/ KeyError(t) \/ TurnRaises(t)
      PROVE  TypeOK' /\ Sourced' /\ Viewed'
  <2>1. /\ memory' = memory /\ view' = view /\ begun' = begun /\ turn' = turn
        /\ at[t] # "extract"
        /\ \E to : to \notin {"extract", "run"} /\ at' = [at EXCEPT ![t] = to]
    BY <1>2 DEF Enter, Check, Bound, Pop, Touch, Fetch, KeyError, TurnRaises, Leave, Goto
  <2>2. TypeOK'
    BY <1>0, <2>1, MemoryTypes
  <2>3. /\ at'[t] \notin {"extract", "run"}
        /\ \A u \in Thread \ {t} : at'[u] = at[u] /\ turn'[u] = turn[u] /\ view'[u] = view[u]
    BY <1>0, <2>1
  <2> QED  BY <2>1, <2>2, <2>3, KeepsConversations
<1>3. ASSUME NEW t \in Thread, Insert(t) PROVE TypeOK' /\ Sourced' /\ Viewed'
  <2>1. /\ memory' = [memory EXCEPT ![turn[t].conv] = Fresh]
        /\ view' = view /\ begun' = begun /\ turn' = turn
        /\ at[t] = "insert" /\ at' = [at EXCEPT ![t] = "bound"]
    BY <1>3 DEF Insert, Goto
  <2>2. TypeOK'
    BY <1>0, <1>own, <2>1, FreshState, OwnStateTypes
  <2>3. Inside(t) /\ at'[t] = "bound" /\ \A u \in Thread \ {t} : at'[u] = at[u] /\ view'[u] = view[u]
    BY <1>0, <2>1 DEF Inside, Rest
  <2>4. Sourced' /\ Viewed'
    BY <2>1, <2>3, FreshState, KeepsOthers
  <2> QED  BY <2>2, <2>4
<1>4. ASSUME NEW t \in Thread, AppendTurn(t) PROVE TypeOK' /\ Sourced' /\ Viewed'
  <2> DEFINE s == memory[turn[t].conv]
             s2 == [s EXCEPT !.turns = Append(s.turns, turn[t].text)]
  <2>1. /\ memory' = [memory EXCEPT ![turn[t].conv] = s2]
        /\ view' = view /\ begun' = begun /\ turn' = turn
        /\ at[t] = "append" /\ at' = [at EXCEPT ![t] = "extract"]
    BY <1>4 DEF AppendTurn, Goto
  <2>2. Inside(t) /\ at'[t] = "extract" /\ \A u \in Thread \ {t} : at'[u] = at[u] /\ view'[u] = view[u]
    BY <1>0, <2>1 DEF Inside, Rest
  <2>3. Upto(s, Len(s.turns)) /\ \A i \in DOMAIN s.summaries : s.summaries[i] \in DOMAIN s.turns
    <3>1. \A u \in Thread : turn[u].conv = turn[t].conv => at[u] # "extract"
      <4>1. \A u \in Thread : at[u] = "extract" => Inside(u)
        BY DEF Inside, Rest
      <4> QED  BY <1>0, <2>1, <2>2, <4>1, LockExcludes
    <3> QED  BY <1>0, <1>own, <3>1 DEF Sourced
  <2>4. s \in MemoryState /\ turn[t].text \in Text
    BY <1>own
  <2>5. /\ s2 \in MemoryState
        /\ Len(s2.turns) = Len(s.turns) + 1
        /\ s2.turns[Len(s2.turns)] = turn[t].text
        /\ Upto(s2, Len(s2.turns) - 1)
        /\ s2.summaries = s.summaries
    <3> HIDE DEF s
    <3> QED  BY <2>3, <2>4, AppendUpto
  <2>6. Len(s.turns) \in Nat /\ s.turns \in Seq(Text) /\ s2.turns = Append(s.turns, turn[t].text)
    <3> HIDE DEF s
    <3>1. s.turns \in Seq(Text) /\ s2.turns = Append(s.turns, turn[t].text)
      BY <2>4 DEF MemoryState
    <3> QED  BY <3>1
  <2>7. Len(s2.turns) # 0 /\ \A i \in DOMAIN s2.summaries : s2.summaries[i] \in DOMAIN s2.turns
    <3> HIDE DEF s, s2
    <3>1. Len(s2.turns) # 0
      BY <2>5, <2>6
    <3>2. DOMAIN s.turns \subseteq DOMAIN s2.turns
      BY <2>4, <2>6
    <3> QED  BY <2>3, <2>5, <3>1, <3>2
  <2> HIDE DEF s, s2
  <2>8. TypeOK'
    BY <1>0, <1>own, <2>1, <2>5, OwnStateTypes
  <2>9. Sourced' /\ Viewed'
    BY <2>1, <2>2, <2>5, <2>7, KeepsOthers
  <2> QED  BY <2>8, <2>9
<1>5. ASSUME NEW t \in Thread, ExtractConstraints(t) PROVE TypeOK' /\ Sourced' /\ Viewed'
  <2> DEFINE s == memory[turn[t].conv]
             n == Len(s.turns)
             s2 == [s EXCEPT !.constraints = Extract(s.constraints, turn[t].text, n)]
             v == ViewOf(turn[t].mode, n, s2)
  <2>1. at[t] = "extract" /\ at' = [at EXCEPT ![t] = "run"] /\ begun' = begun /\ turn' = turn
    BY <1>5 DEF ExtractConstraints, Goto
  <2>2. Inside(t) /\ at'[t] = "run"
    BY <1>0, <2>1 DEF Inside, Rest
  <2>3. /\ n # 0 /\ s.turns[n] = turn[t].text /\ Upto(s, n - 1)
        /\ \A i \in DOMAIN s.summaries : s.summaries[i] \in DOMAIN s.turns
    BY <1>0, <1>own, <2>1 DEF Sourced
  <2>4. s \in MemoryState /\ turn[t].mode \in MemoryMode
    BY <1>own
  <2>5. /\ s2 \in MemoryState
        /\ s2.turns = s.turns /\ s2.summaries = s.summaries
        /\ s2.constraints = Extract(s.constraints, turn[t].text, n)
        /\ Upto(s2, n)
    <3> HIDE DEF s
    <3> QED  BY <2>3, <2>4, ExtractUpto
  <2>6. /\ memory' = [memory EXCEPT ![turn[t].conv] = s2]
        /\ view' = [view EXCEPT ![t] = v]
    <3>1. /\ memory' = [memory EXCEPT ![turn[t].conv].constraints = Extract(s.constraints, turn[t].text, n)]
          /\ view' = [view EXCEPT ![t] =
               [prior     |-> PriorTurns(turn[t].mode, n),
                visible   |-> Visible(Extract(s.constraints, turn[t].text, n), turn[t].mode, n),
                summaries |-> SummaryTurns(turn[t].mode, n, s.summaries)]]
      BY <1>5 DEF ExtractConstraints
    <3>2. v = [prior     |-> PriorTurns(turn[t].mode, n),
               visible   |-> Visible(Extract(s.constraints, turn[t].text, n), turn[t].mode, n),
               summaries |-> SummaryTurns(turn[t].mode, n, s.summaries)]
      BY <2>5, Zenon DEF ViewOf
    <3> QED  BY <3>1, <3>2
  <2>7. v \in ViewType
    <3>1. n \in Nat
      BY <2>4 DEF MemoryState
    <3> HIDE DEF s2, n
    <3> QED  BY <2>4, <2>5, <3>1, ViewOfType
  <2>8. Len(s2.turns) = n
    BY <2>5, Zenon
  <2> HIDE DEF s, s2, n
  <2>9. TypeOK'
    <3> HIDE DEF v
    <3> QED  BY <1>0, <2>1, <2>5, <2>6, <2>7, OwnStateTypes
  <2>10. view'[t] = ViewOf(turn[t].mode, Len(s2.turns), s2) /\ \A u \in Thread \ {t} : at'[u] = at[u] /\ view'[u] = view[u]
    BY <1>0, <2>1, <2>6, <2>8
  <2>11. Sourced' /\ Viewed'
    BY <2>1, <2>2, <2>3, <2>5, <2>6, <2>8, <2>10, KeepsOthers
  <2> QED  BY <2>9, <2>11
<1>6. ASSUME NEW t \in Thread, AnswerTurn(t) PROVE TypeOK' /\ Sourced' /\ Viewed'
  <2> DEFINE s == memory[turn[t].conv]
  <2>1. PICK k \in 0 .. MaxResults : memory' = [memory EXCEPT ![turn[t].conv] = RecordResults(s, k)]
    BY <1>6 DEF AnswerTurn
  <2>2. /\ view' = view /\ begun' = begun /\ turn' = turn
        /\ at[t] = "run" /\ at' = [at EXCEPT ![t] = "answered"]
    BY <1>6 DEF AnswerTurn, Leave, Goto
  <2>3. Inside(t) /\ at'[t] = "answered" /\ \A u \in Thread \ {t} : at'[u] = at[u] /\ view'[u] = view[u]
    BY <1>0, <2>2 DEF Inside, Rest
  <2>4. /\ Upto(s, Len(s.turns)) /\ Len(s.turns) # 0
        /\ \A i \in DOMAIN s.summaries : s.summaries[i] \in DOMAIN s.turns
    <3>1. \A u \in Thread : turn[u].conv = turn[t].conv => at[u] # "extract"
      <4>1. \A u \in Thread : at[u] = "extract" => Inside(u)
        BY DEF Inside, Rest
      <4> QED  BY <1>0, <2>2, <2>3, <4>1, LockExcludes
    <3> QED  BY <1>0, <1>own, <2>2, <3>1 DEF Sourced, Viewed
  <2>5. s \in MemoryState /\ k \in Nat
    BY <1>own, MemoryAssumption
  <2> DEFINE s2 == RecordResults(s, k)
  <2> HIDE DEF s
  <2>6. /\ s2 \in MemoryState
        /\ Upto(s2, Len(s2.turns))
        /\ \A i \in DOMAIN s2.summaries : s2.summaries[i] \in DOMAIN s2.turns
    BY <2>4, <2>5, RecordUpto
  <2> HIDE DEF s2
  <2>7. memory' = [memory EXCEPT ![turn[t].conv] = s2]
    BY <2>1 DEF s2
  <2>8. TypeOK'
    BY <1>0, <1>own, <2>2, <2>6, <2>7, OwnStateTypes
  <2>9. Sourced' /\ Viewed'
    BY <2>2, <2>3, <2>6, <2>7, KeepsOthers
  <2> QED  BY <2>8, <2>9
<1>7. CASE UNCHANGED memoryVars
  <2>1. TypeOK'
    BY <1>0, <1>7, MemoryTypes DEF memoryVars
  <2> QED  BY <1>0, <1>7, <2>1 DEF memoryVars, Sourced, Viewed
<1> QED  BY <1>1, <1>2, <1>3, <1>4, <1>5, <1>6, <1>7 DEF Next, Step, Quiet

THEOREM MemoryInvariant == Spec => []MemoryInv
BY MemoryInit, MemoryNext, PTL DEF Spec

\* Every variable of the memory and its turns keeps its type.
THEOREM MemoryTypeCorrect == Spec => []TypeOK
<1>1. MemoryInv => TypeOK
  BY DEF MemoryInv
<1> QED  BY <1>1, MemoryInvariant, PTL

\* Every constraint the memory holds was given by a user turn, the latest that gives it
\* (_extract_user_constraints overwrites), and every summary belongs to a turn that was
\* made (record_results), whatever turns of other conversations do meanwhile.
THEOREM ConstraintsAreSourced == Spec => []MemoryIsSourced
<1>1. ASSUME MemoryInv PROVE MemoryIsSourced
  <2>0. Sourced /\ memory \in [Conv -> MemoryState]
    BY <1>1 DEF MemoryInv, TypeOK, MemoryState, Constraints
  <2> SUFFICES ASSUME NEW c \in Conv, \A t \in Thread : turn[t].conv = c => at[t] # "extract",
                      NEW k \in Key
               PROVE  LET n == memory[c].constraints[k].source IN
                        IF n = 0 THEN Givers(k, memory[c]) = {}
                        ELSE n \in Givers(k, memory[c]) /\ \A m \in Givers(k, memory[c]) : m <= n
    BY <2>0 DEF MemoryIsSourced, Sourced
  <2> DEFINE s == memory[c]
             n == s.constraints[k].source
             G == Givers(k, s)
  <2>1. s \in MemoryState /\ Upto(s, Len(s.turns))
    BY <2>0 DEF Sourced
  <2>2. s.turns \in Seq(Text)
    BY <2>1 DEF MemoryState
  <2>3. \A m \in G : m \in Nat \ {0} /\ m <= Len(s.turns)
    <3> HIDE DEF s
    <3> QED  BY <2>2 DEF Givers
  <2>4. (n # 0 => n \in G) /\ \A m \in G : m <= n
    <3> HIDE DEF s
    <3> QED  BY <2>1, <2>3 DEF Upto
  <2> HIDE DEF s, n, G
  <2>5. IF n = 0 THEN G = {} ELSE n \in G /\ \A m \in G : m <= n
    BY <2>3, <2>4
  <2> QED  BY <2>5 DEF s, n, G
<1> QED  BY <1>1, MemoryInvariant, PTL

\* The window over the constraints (constraints_for_mode) and the windows over texts and
\* summaries (begin_turn) are computed apart and agree: except with structured state, a
\* planner sees the constraints that the texts it sees give, each as the latest of these
\* gives it; only a text that replaces a region brings in regions of turns not shown.
THEOREM WindowsAgree == Spec => []HorizonsAgree
<1>1. ASSUME MemoryInv PROVE HorizonsAgree
  <2> SUFFICES ASSUME NEW t \in Thread, at[t] = "run", turn[t].mode # "structured_state"
               PROVE  LET z == memory[turn[t].conv]
                          shown == view[t].prior \cup {Len(z.turns)}
                          seen == view[t].visible IN
                        /\ \A k \in Key :
                             LET givers == Givers(k, z) \cap shown IN
                               /\ k \in DOMAIN seen <=> givers # {}
                               /\ k \in DOMAIN seen => /\ seen[k].source \in givers
                                                       /\ \A m \in givers : m <= seen[k].source
                        /\ "regions" \in DOMAIN seen => AsTold(seen["regions"], z)
                        /\ view[t].summaries \subseteq shown
    BY DEF HorizonsAgree
  <2> DEFINE s == memory[turn[t].conv]
             n == Len(s.turns)
             mode == turn[t].mode
             shown == PriorTurns(mode, n) \cup {n}
             seen == Visible(s.constraints, mode, n)
  <2>1. turn[t] \in Request /\ memory \in [Conv -> MemoryState] /\ LockInv /\ Sourced /\ Viewed
    BY <1>1 DEF MemoryInv, TypeOK, MemoryState, Constraints
  <2>2. turn[t].conv \in Conv /\ mode \in {"no_memory", "full_history", "sliding_window"}
    BY <2>1 DEF Request, MemoryMode
  <2>3. s \in MemoryState /\ n # 0 /\ view[t] = ViewOf(mode, n, s)
    BY <2>1, <2>2 DEF Viewed, ViewOf
  <2>4. Upto(s, n) /\ \A i \in DOMAIN s.summaries : s.summaries[i] \in DOMAIN s.turns
    <3>1. \A u \in Thread : at[u] \in {"extract", "run"} => Inside(u)
      BY DEF Inside, Rest
    <3>2. \A u \in Thread : turn[u].conv = turn[t].conv => at[u] # "extract"
      BY <2>1, <3>1, LockExcludes
    <3> QED  BY <2>1, <2>2, <3>2 DEF Sourced
  <2> HIDE DEF s
  <2>5. s.turns \in Seq(Text) /\ s.constraints \in Constraints
    BY <2>3 DEF MemoryState
  <2>6. n \in Nat \ {0} /\ DOMAIN s.turns = 1 .. n
    BY <2>3, <2>5
  <2>7. \A k \in Key : s.constraints[k].source \in 0 .. n
    BY <2>4, <2>5, <2>6 DEF Constraints, SourcedConstraint, Upto
  <2>8. Keys(s.summaries) \subseteq 1 .. n
    BY <2>4, <2>6 DEF Keys
  <2>9. ASSUME NEW k \in Key
        PROVE  /\ Givers(k, s) \subseteq 1 .. n
               /\ s.constraints[k].source # 0 => s.constraints[k].source \in Givers(k, s)
               /\ \A m \in Givers(k, s) : m <= s.constraints[k].source
    <3>1. Givers(k, s) \subseteq 1 .. n
      BY <2>6 DEF Givers
    <3> QED  BY <2>4, <2>6, <3>1 DEF Upto
  <2> HIDE DEF n, mode
  <2>10. \E b \in 1 .. n :
           /\ shown = b .. n
           /\ \A k \in Key : k \in DOMAIN seen <=> s.constraints[k].source \in b .. n
           /\ SummaryTurns(mode, n, s.summaries) \subseteq shown
    <3>1. CASE mode = "no_memory"
      <4>1. shown = n .. n /\ SummaryTurns(mode, n, s.summaries) = {}
        BY <2>6, <3>1 DEF SummaryTurns, PriorTurns
      <4>2. \A k \in Key : k \in DOMAIN seen <=> s.constraints[k].source \in n .. n
        BY <2>6, <2>7, <3>1 DEF Visible
      <4> QED  BY <2>6, <4>1, <4>2
    <3>2. CASE mode = "full_history"
      <4>1. shown = 1 .. n
        BY <2>6, <3>2 DEF PriorTurns
      <4>2. \A k \in Key : k \in DOMAIN seen <=> s.constraints[k].source \in 1 .. n
        BY <2>6, <2>7, <3>2 DEF Visible
      <4>3. SummaryTurns(mode, n, s.summaries) \subseteq 1 .. n
        BY <2>8, <3>2 DEF SummaryTurns
      <4> QED  BY <2>6, <4>1, <4>2, <4>3
    <3>3. CASE mode = "sliding_window"
      <4> DEFINE b == Larger(1, n - SlidingTurns)
      <4>1. b \in 1 .. n /\ SlidingTurns \in Nat \ {0}
        BY <2>6, MemoryAssumption DEF Larger
      <4>2. Larger(0, n - 1 - SlidingTurns) + 1 = b
        BY <2>6, <4>1 DEF Larger
      <4>3. \A k \in Key : k \in DOMAIN seen <=> s.constraints[k].source \in b .. n
        BY <2>6, <2>7, <3>3, <4>1 DEF Visible
      <4>4. \A m \in 1 .. n : m > Larger(0, n - 1 - SlidingTurns) => m \in b .. n
        BY <2>6, <4>1, <4>2 DEF Larger
      <4> HIDE DEF b
      <4>5. shown = b .. n
        BY <2>6, <3>3, <4>1, <4>2 DEF PriorTurns
      <4>6. SummaryTurns(mode, n, s.summaries) \subseteq b .. n
        BY <2>8, <3>3, <4>4 DEF SummaryTurns
      <4> QED  BY <4>1, <4>3, <4>5, <4>6
    <3> QED  BY <2>2, <3>1, <3>2, <3>3
  <2>11. /\ DOMAIN seen \subseteq Key
         /\ \A k \in DOMAIN seen : seen[k] = s.constraints[k]
    BY DEF Visible
  <2> HIDE DEF shown, seen
  <2>12. ASSUME NEW k \in Key
         PROVE  LET givers == Givers(k, s) \cap shown IN
                  /\ k \in DOMAIN seen <=> givers # {}
                  /\ k \in DOMAIN seen => /\ seen[k].source \in givers
                                          /\ \A m \in givers : m <= seen[k].source
    <3> DEFINE g == s.constraints[k].source
               givers == Givers(k, s) \cap shown
    <3>1. PICK b \in 1 .. n : shown = b .. n /\ (k \in DOMAIN seen <=> g \in b .. n)
      BY <2>10 DEF g
    <3>2. g \in 0 .. n /\ Givers(k, s) \subseteq 1 .. n
          /\ (g # 0 => g \in Givers(k, s)) /\ \A m \in Givers(k, s) : m <= g
      BY <2>7, <2>9
    <3> HIDE DEF g
    <3>3. g \in b .. n => g \in givers
      BY <2>6, <3>1, <3>2
    <3>4. givers # {} => g \in b .. n
      BY <2>6, <3>1, <3>2
    <3>5. k \in DOMAIN seen => seen[k].source = g
      BY <2>11 DEF g
    <3> QED  BY <3>1, <3>2, <3>3, <3>4, <3>5
  <2>13. "regions" \in DOMAIN seen => AsTold(seen["regions"], s)
    <3>1. ASSUME "regions" \in DOMAIN seen PROVE s.constraints["regions"].source # 0
      BY <2>6, <2>10, <3>1 DEF Key
    <3> QED  BY <2>4, <2>11, <3>1 DEF Upto
  <2>14. /\ view[t].prior = PriorTurns(mode, n)
         /\ view[t].visible = seen
         /\ view[t].summaries = SummaryTurns(mode, n, s.summaries)
    BY <2>3 DEF ViewOf, seen
  <2>15. shown = view[t].prior \cup {n} /\ view[t].summaries \subseteq shown
    <3>1. SummaryTurns(mode, n, s.summaries) \subseteq shown
      BY <2>10
    <3> QED  BY <3>1, <2>14 DEF shown
  <2> QED  BY <2>12, <2>13, <2>14, <2>15 DEF s, n
<1> QED  BY <1>1, MemoryInvariant, PTL
=============================================================================
