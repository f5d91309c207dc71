-------------------------- MODULE ConversationMemory --------------------------
(***************************************************************************)
(* ConversationMemory and the turns of ModelDrivenAgent.run_turn that use  *)
(* it, each on its own request thread.                                     *)
(*                                                                         *)
(* Turns of one conversation take turns on a lock of their own; the        *)
(* OrderedDict of all conversations has no lock, so its lookups, inserts   *)
(* and pops interleave between threads of different conversations.  What a *)
(* turn plans and executes is left to module ModelTurn; here it fails or   *)
(* yields some results.                                                    *)
(***************************************************************************)
EXTENDS OrderedDict, FiniteSets

CONSTANTS
  Thread,            \* request threads
  Nobody,            \* the holder of a free lock
  Conv,              \* conversation identifiers
  Region,            \* market regions a text may name
  Text,              \* user texts, as far as constraints are extracted from them
  Requests,          \* the requests each thread may be given
  SlidingTurns,      \* sliding_turns
  MaxConversations,  \* max_conversations
  MaxResults,        \* bound on the results of one turn
  MaxTurns           \* bound on the turns begun

MemoryMode == {"no_memory", "full_history", "sliding_window", "structured_state"}

\* A text names regions, may ask to replace one by another, and may give a date
\* (which stands for every other constraint: all of them overwrite).
TextType == [regions : SUBSET Region, replace : {<<>>} \cup (Region \X Region), dated : BOOLEAN]

\* What run_turn reads of a request before it plans.
Request == [conv : Conv, text : Text, mode : MemoryMode]

ASSUME MemoryAssumption ==
  /\ IsFiniteSet(Thread)
  /\ Nobody \notin Thread
  /\ Text \subseteq TextType
  /\ \A x \in Text : x.replace # <<>> => {x.replace[1], x.replace[2]} \subseteq x.regions
  /\ Requests \in [Thread -> SUBSET Request]
  /\ \A t \in Thread : Requests[t] # {}
  /\ {SlidingTurns, MaxConversations} \subseteq Nat \ {0}
  /\ {MaxResults, MaxTurns} \subseteq Nat

VARIABLES
  order,     \* the keys of _states, least recently used first
  memory,    \* the newest ConversationState of each conversation
  holder,    \* the thread that holds the conversation's lock
  at,        \* where each thread is
  turn,      \* the request each thread serves
  view,      \* what the turn's planner is given of the memory
  begun      \* number of turns begun

memoryVars == <<order, memory, holder, at, turn, view, begun>>

Key == {"regions", "dates"}
SourcedConstraint == [value : SUBSET Region, source : Nat]
Absent == [value |-> {}, source |-> 0]
Fresh == [turns |-> <<>>, constraints |-> [k \in Key |-> Absent], summaries |-> <<>>]
NoView == [prior |-> {}, visible |-> [k \in {} |-> Absent], summaries |-> {}]

Rest == {"idle", "answered", "raised", "keyerror"}

\* Where the thread's next step is one of ConversationMemory.state.
InState == {"check", "insert", "bound", "pop", "touch", "fetch"}
Inside(t) == at[t] \notin Rest \cup {"lock"}

Goto(t, to) == at' = [at EXCEPT ![t] = to]

\* The thread leaves the `with lock` block, by return or by exception.
Leave(t, to) ==
  /\ Goto(t, to)
  /\ holder' = [holder EXCEPT ![turn[t].conv] = Nobody]

Init ==
  /\ order = <<>>
  /\ memory = [c \in Conv |-> Fresh]
  /\ holder = [c \in Conv |-> Nobody]
  /\ at = [t \in Thread |-> "idle"]
  /\ turn = [t \in Thread |-> CHOOSE r \in Requests[t] : TRUE]
  /\ view = [t \in Thread |-> NoView]
  /\ begun = 0

-----------------------------------------------------------------------------
(* run_turn *)

\* A request arrives and gets its conversation's lock object from the table.
Arrive(t) ==
  /\ at[t] \in Rest
  /\ begun < MaxTurns
  /\ \E r \in Requests[t] : turn' = [turn EXCEPT ![t] = r]
  /\ Goto(t, "lock")
  /\ view' = [view EXCEPT ![t] = NoView]
  /\ begun' = begun + 1
  /\ UNCHANGED <<order, memory, holder>>

\* Seeded fault: no lock per conversation.
EnterUnlocked(t) ==
  /\ at[t] = "lock"
  /\ holder' = [holder EXCEPT ![turn[t].conv] = t]
  /\ Goto(t, "check")
  /\ UNCHANGED <<order, memory, turn, view, begun>>

Enter(t) ==
  /\ at[t] = "lock"
  /\ holder[turn[t].conv] = Nobody
  /\ holder' = [holder EXCEPT ![turn[t].conv] = t]
  /\ Goto(t, "check")
  /\ UNCHANGED <<order, memory, turn, view, begun>>

-----------------------------------------------------------------------------
(* state: each step is one operation on the shared OrderedDict *)

Check(t) ==
  /\ at[t] = "check"
  /\ Goto(t, IF turn[t].conv \in Keys(order) THEN "touch" ELSE "insert")
  /\ UNCHANGED <<order, memory, holder, turn, view, begun>>

Insert(t) ==
  /\ at[t] = "insert"
  /\ order' = Append(order, turn[t].conv)
  /\ memory' = [memory EXCEPT ![turn[t].conv] = Fresh]
  /\ Goto(t, "bound")
  /\ UNCHANGED <<holder, turn, view, begun>>

\* Seeded fault: one conversation too many is let in.
BoundLoose(t) ==
  /\ at[t] = "bound"
  /\ Goto(t, IF Len(order) > MaxConversations + 1 THEN "pop" ELSE "touch")
  /\ UNCHANGED <<order, memory, holder, turn, view, begun>>

\* The condition of the eviction loop.
Bound(t) ==
  /\ at[t] = "bound"
  /\ Goto(t, IF Len(order) > MaxConversations THEN "pop" ELSE "touch")
  /\ UNCHANGED <<order, memory, holder, turn, view, begun>>

\* popitem(last=False), whatever other threads made of the dict since the condition.
Pop(t) ==
  /\ at[t] = "pop"
  /\ order # <<>>
  /\ order' = Tail(order)
  /\ Goto(t, "bound")
  /\ UNCHANGED <<memory, holder, turn, view, begun>>

Touch(t) ==
  /\ at[t] = "touch"
  /\ turn[t].conv \in Keys(order)
  /\ order' = MoveToEnd(order, turn[t].conv)
  /\ Goto(t, "fetch")
  /\ UNCHANGED <<memory, holder, turn, view, begun>>

Fetch(t) ==
  /\ at[t] = "fetch"
  /\ turn[t].conv \in Keys(order)
  /\ Goto(t, "append")
  /\ UNCHANGED <<order, memory, holder, turn, view, begun>>

\* popitem of an empty dict, move_to_end or lookup of a key that is gone.
KeyError(t) ==
  /\ \/ at[t] = "pop" /\ order = <<>>
     \/ at[t] \in {"touch", "fetch"} /\ turn[t].conv \notin Keys(order)
  /\ Leave(t, "keyerror")
  /\ UNCHANGED <<order, memory, turn, view, begun>>

-----------------------------------------------------------------------------
(* begin_turn, constraints_for_mode, record_results *)

AppendTurn(t) ==
  /\ at[t] = "append"
  /\ memory' = [memory EXCEPT ![turn[t].conv].turns = Append(@, turn[t].text)]
  /\ Goto(t, "extract")
  /\ UNCHANGED <<order, holder, turn, view, begun>>

\* The regions of a text: a replacement applies to the regions known so far.
RegionsOf(x, known) ==
  IF x.replace # <<>> /\ known.source # 0
  THEN {IF r = x.replace[1] THEN x.replace[2] ELSE r : r \in known.value}
  ELSE x.regions

\* Seeded fault: a later text does not overwrite what an earlier one gave.
ExtractOnce(old, x, n) ==
  [regions |-> IF RegionsOf(x, old["regions"]) # {} /\ old["regions"].source = 0
               THEN [value |-> RegionsOf(x, old["regions"]), source |-> n] ELSE old["regions"],
   dates   |-> IF x.dated /\ old["dates"].source = 0
               THEN [value |-> {}, source |-> n] ELSE old["dates"]]

\* _extract_user_constraints: what the text gives overwrites, the rest stays.
Extract(old, x, n) ==
  [regions |-> IF RegionsOf(x, old["regions"]) # {}
               THEN [value |-> RegionsOf(x, old["regions"]), source |-> n] ELSE old["regions"],
   dates   |-> IF x.dated THEN [value |-> {}, source |-> n] ELSE old["dates"]]

Larger(m, n) == IF m > n THEN m ELSE n

\* Seeded fault: the window counts the current turn.
VisibleNarrow(constraints, mode, n) ==
  [k \in {k \in Key : /\ constraints[k].source # 0
                      /\ mode = "no_memory" => constraints[k].source = n
                      /\ mode = "sliding_window" =>
                           constraints[k].source >= Larger(1, n - SlidingTurns + 1)}
     |-> constraints[k]]

\* constraints_for_mode at turn n: the constraints whose source is in the window, with
\* whatever value they have.
Visible(constraints, mode, n) ==
  [k \in {k \in Key : /\ constraints[k].source # 0
                      /\ mode = "no_memory" => constraints[k].source = n
                      /\ mode = "sliding_window" =>
                           constraints[k].source >= Larger(1, n - SlidingTurns)}
     |-> constraints[k]]

\* The earlier turns whose texts begin_turn puts into the messages at turn n, and the
\* turns whose tool summaries it puts there.
PriorTurns(mode, n) ==
  CASE mode = "full_history" -> 1..(n - 1)
    [] mode = "sliding_window" -> (Larger(0, n - 1 - SlidingTurns) + 1)..(n - 1)
    [] OTHER -> {}

LastEight(s) == {s[i] : i \in {j \in DOMAIN s : j + 8 > Len(s)}}
SummaryTurns(mode, n, summaries) ==
  CASE mode = "full_history" -> Keys(summaries)
    [] mode = "sliding_window" -> {m \in Keys(summaries) : m > Larger(0, n - 1 - SlidingTurns)}
    [] mode = "structured_state" -> LastEight(summaries)
    [] OTHER -> {}

ExtractConstraints(t) ==
  /\ at[t] = "extract"
  /\ LET c == turn[t].conv
         n == Len(memory[c].turns)
         constraints == Extract(memory[c].constraints, turn[t].text, n) IN
       /\ memory' = [memory EXCEPT ![c].constraints = constraints]
       /\ view' = [view EXCEPT ![t] =
            [prior     |-> PriorTurns(turn[t].mode, n),
             visible   |-> Visible(constraints, turn[t].mode, n),
             summaries |-> SummaryTurns(turn[t].mode, n, memory[c].summaries)]]
  /\ Goto(t, "run")
  /\ UNCHANGED <<order, holder, turn, begun>>

\* record_results: one summary per result, attributed to the current turn.
RecordResults(s, k) == [s EXCEPT !.summaries = @ \o [i \in 1..k |-> Len(s.turns)]]

\* The turn ran, its results are recorded, the lock is released and it is answered.
AnswerTurn(t) ==
  /\ at[t] = "run"
  /\ \E k \in 0..MaxResults :
       memory' = [memory EXCEPT ![turn[t].conv] = RecordResults(@, k)]
  /\ Leave(t, "answered")
  /\ UNCHANGED <<order, turn, view, begun>>

\* Seeded fault: an exception leaves the lock held.
TurnRaisesLocked(t) ==
  /\ at[t] = "run"
  /\ Goto(t, "raised")
  /\ UNCHANGED <<order, memory, holder, turn, view, begun>>

\* The planner raises: the text stays in the memory, nothing is recorded for it.
TurnRaises(t) ==
  /\ at[t] = "run"
  /\ Leave(t, "raised")
  /\ UNCHANGED <<order, memory, turn, view, begun>>

-----------------------------------------------------------------------------
Step(t) ==
  \/ Enter(t) \/ Check(t) \/ Insert(t) \/ Bound(t) \/ Pop(t) \/ Touch(t) \/ Fetch(t)
  \/ KeyError(t) \/ AppendTurn(t) \/ ExtractConstraints(t) \/ AnswerTurn(t) \/ TurnRaises(t)

\* No request is being served.
Quiet == (\A t \in Thread : at[t] \in Rest) /\ UNCHANGED memoryVars

Next == (\E t \in Thread : Arrive(t) \/ Step(t)) \/ Quiet

Spec == Init /\ [][Next]_memoryVars

\* Every request thread gets to run.
FairSpec == Spec /\ \A t \in Thread : WF_memoryVars(Step(t))

-----------------------------------------------------------------------------
(* Properties *)

\* Type invariant.
TypeOK ==
  /\ order \in Seq(Conv)
  /\ memory \in [Conv -> [turns : Seq(Text),
                          constraints : [Key -> SourcedConstraint],
                          summaries : Seq(Nat)]]
  /\ holder \in [Conv -> Thread \cup {Nobody}]
  /\ at \in [Thread -> Rest \cup InState \cup {"lock", "append", "extract", "run"}]
  /\ turn \in [Thread -> Request]
  /\ view = [t \in Thread |-> view[t]]
  /\ \A t \in Thread : \E seen \in SUBSET Key :
       view[t] \in [prior : SUBSET Nat, visible : [seen -> SourcedConstraint],
                   summaries : SUBSET Nat]
  /\ begun \in Nat

\* Turns of one conversation never overlap, and the dict holds no conversation twice.
OneTurnAtATime ==
  /\ \A t \in Thread : Inside(t) <=> holder[turn[t].conv] = t
  /\ \A t, u \in Thread : Inside(t) /\ Inside(u) /\ turn[t].conv = turn[u].conv => t = u
  /\ \A i, j \in DOMAIN order : order[i] = order[j] => i = j

Evicting == {t \in Thread : at[t] \in {"bound", "pop"}}

\* The memory exceeds its capacity by at most the threads that have inserted a
\* conversation and not yet left the eviction loop.
MemoryBounded == Len(order) <= MaxConversations + Cardinality(Evicting)

\* The turns of s that give constraint k.
Gives(k, x) == IF k = "dates" THEN x.dated ELSE x.regions # {}
Givers(k, s) == {n \in DOMAIN s.turns : Gives(k, s.turns[n])}

\* Every constraint was given by a user turn, the latest that gives it, and every
\* summary is attributed to a turn that was made; nobody else's text, and no turn
\* that overlapped, gets in between.
MemoryIsSourced ==
  \A c \in Conv :
    /\ (\A t \in Thread : turn[t].conv = c => at[t] # "extract") =>
         \A k \in Key :
           LET n == memory[c].constraints[k].source IN
             IF n = 0 THEN Givers(k, memory[c]) = {}
             ELSE n \in Givers(k, memory[c]) /\ \A m \in Givers(k, memory[c]) : m <= n
    /\ \A i \in DOMAIN memory[c].summaries : memory[c].summaries[i] \in DOMAIN memory[c].turns

\* A region constraint c has the regions its source names.  A source that replaces one
\* region by another has those of the constraint before it, from whatever turns they are.
AsTold(c, s) ==
  LET x == s.turns[c.source] IN
    IF x.replace = <<>> THEN c.value = x.regions
    ELSE \A r \in c.value : \E m \in 1..c.source : r \in s.turns[m].regions

\* The window over constraints and the windows over texts and summaries are computed
\* apart and agree: except with structured state, a planner sees a constraint exactly if
\* one of the texts it sees gives it, as the latest of these gives it, and summaries of
\* no other turns.  The regions are those the text names, unless it replaces a region:
\* then some may be of turns that are not shown (WindowIsClosed does not hold).
HorizonsAgree ==
  \A t \in Thread :
    at[t] = "run" /\ turn[t].mode # "structured_state" =>
      LET s == memory[turn[t].conv]
          shown == view[t].prior \cup {Len(s.turns)}
          seen == view[t].visible IN
        /\ \A k \in Key :
             LET givers == Givers(k, s) \cap shown IN
               /\ k \in DOMAIN seen <=> givers # {}
               /\ k \in DOMAIN seen => /\ seen[k].source \in givers
                                       /\ \A m \in givers : m <= seen[k].source
        /\ "regions" \in DOMAIN seen => AsTold(seen["regions"], s)
        /\ view[t].summaries \subseteq shown

\* Every request is answered or fails, under fair scheduling.
EveryTurnEnds == \A t \in Thread : at[t] = "lock" ~> at[t] \in Rest

\* Claimed of the memory (conversation-scoped state that the next turn uses): a turn
\* gets the state of its conversation, whatever other conversations do.
StateIsFound == \A t \in Thread : at[t] # "keyerror"

\* Claimed of the modes without memory and with a window, and not so after a text that
\* replaces a region: their planner sees no region but those of the texts it sees.
WindowIsClosed ==
  \A t \in Thread :
    at[t] = "run" /\ turn[t].mode # "structured_state" /\ "regions" \in DOMAIN view[t].visible =>
      LET s == memory[turn[t].conv] IN
        \A r \in view[t].visible["regions"].value :
          \E m \in view[t].prior \cup {Len(s.turns)} : r \in s.turns[m].regions
=============================================================================
