\* All three paths, with a step budget below the larger call budget.
SPECIFICATION Spec
CONSTANTS
  a0 = a0
  a1 = a1
  a2 = a2
  e1 = e1
  bad = bad
  Malformed <- MCMalformed
  NoList = NoList
  NoEvent = NoEvent
  CaseArg = a0
  Arg <- MCArg
  Event <- MCEvent
  Scope <- MCScope
  MaxToolCalls = {3, 7}
  ModelPlans <- MCModelPlans
  Replacements <- MCReplacements
  MaxSteps = 6
  MaxReplans = 2
  MaxDuplicates = 1
  EvidenceIndexed = TRUE
  MarketEvidence = FALSE
  Windows = FALSE
INVARIANTS
  NoRepeatAfterSuccess
  RetriesFollowFailures
  FollowsDag
  CompletedServes
  NothingDisplaced
