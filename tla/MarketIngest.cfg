\* Three days of two intervals: one of the history, two of the daily ingest.
SPECIFICATION IngestSpec
CONSTANTS
  r1 = r1
  r2 = r2
  i1 = i1
  i2 = i2
  g1 = g1
  p1 = p1
  p2 = p2
  f1 = f1
  h1 = h1
  h2 = h2
  m1 = m1
  m2 = m2
  Region = {r1, r2}
  HistoryDays = 1
  Days = 3
  Slots = 2
  Archive <- MCArchive
  Monthly <- MCMonthly
  RepairDay = 3
  MaxFailures = 0
  Job <- MCJob
  Script <- MCScript
INVARIANTS
  CompleteIsGrid
  ManifestCountsItsData
  MergedIsUnique
CONSTRAINT SubmittedAsMixed
CHECK_DEADLOCK FALSE
