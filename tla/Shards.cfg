\* Two regions, two commits and an input that is replaced once.
SPECIFICATION Spec
CONSTANTS
  r1 = r1
  r2 = r2
  c1 = c1
  c2 = c2
  Regions <- MCRegions
  Commit = {c1, c2}
  Inputs = 2
  Coverage <- MCCoverage
  MaxStarts <- MCMaxStarts
INVARIANTS
  SealedMergeIsOneCommit
