\* Windows of 4 intervals, the last two of them forced.
SPECIFICATION Spec
CONSTANTS
  Battery <- MCBattery
  Price <- MCPrice
  Cost = {3}
  Length = {0, 1, 4, 5}
  Snapshots <- MCSnapshots
  Actuals <- MCActuals
  Quartiles <- MCQuartiles
  HistoryRows = {1, 5, 6}
  MaxIntervals = 4
  MinHistory = 3
  TailIntervals = 2
INVARIANTS
  ScheduleIsPhysical
  TerminalErrorBounded
  RatingRespected
  RegretIsSound
