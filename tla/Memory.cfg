\* Two threads on two conversations, and a memory of one.
SPECIFICATION FairSpec
CONSTANTS
  t1 = t1
  t2 = t2
  c1 = c1
  c2 = c2
  r1 = r1
  r2 = r2
  r3 = r3
  Nobody = Nobody
  Thread <- MCThread
  Conv <- MCConv
  Region <- MCRegion
  Text <- MCText
  Requests <- MCRequests
  SlidingTurns = 2
  MaxConversations = 1
  MaxResults = 1
  MaxTurns = 4
INVARIANTS
  OneTurnAtATime
  MemoryBounded
  MemoryIsSourced
  HorizonsAgree
PROPERTY EveryTurnEnds
