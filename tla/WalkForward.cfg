\* Windows of five days, of which one may be incomplete, after two days of training.
SPECIFICATION WalkSpec
CONSTANTS
  Slots = 3
  Days = 23
  Short = 2
  Gaps <- MCGaps
  SeasonOf <- MCSeasonOf
  MinTrain = 2
  CalDays = 5
  TestDays = 5
  MinDays = 4
  Context = 7
  Candidates = {"low", "high"}
INVARIANTS
  SelectionIsBlind
  IntervalsAreOnline
  SchedulesSeeNoFuture
