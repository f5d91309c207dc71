\* Margins at and around five and ten per cent of each other, and none at all.
SPECIFICATION PromotionSpec
CONSTANTS
  MinPositiveRegions = 2
  HistoryRegions = 2
  Thresholds <- MCThresholds
  NRegions = 3
  Values = {0, 1, 2}
  NDays = 2
  Candidate = {1, 2}
  Margins = {0, 19, 20}
  Tails <- MCTails
  Baselines = {"lightgbm", "persistence"}
  Modes <- MCModes
  Episodes <- MCEpisodes
INVARIANTS
  PromotionNeedsSelection
  PromotedBeatsBaselines
  AgentPromotionIsEarned
CHECK_DEADLOCK FALSE
