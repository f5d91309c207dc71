\* Plans of the workflow DAG and of a provider, on a pool smaller than a stage.
SPECIFICATION FairSpec
CONSTANTS
  a0 = a0
  e1 = e1
  Arg <- MCArg
  CaseArg = a0
  Event <- MCEvent
  NoEvent = NoEvent
  NoCall = NoCall
  MaxToolCalls = {2, 5}
  NoPlanner = NoPlanner
  Proposals <- MCProposals
  Questions <- MCQuestions
  EvidenceIndexed = TRUE
  MarketEvidence = TRUE
  PoolSize = 2
  Windows = FALSE
INVARIANTS
  NoStrayWorker
  OneResultPerCall
  StageBarrier
  LedgerComplete
  CompletedIsSound
PROPERTIES
  EveryRunEnds
  KeepsLedger
