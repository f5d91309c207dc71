\* A start after one that stopped while it filled the index.
SPECIFICATION Spec
CONSTANTS
  old = old
  new = new
  alt = alt
  k1 = k1
  k2 = k2
  k3 = k3
  Release <- MCRelease
  Chunk <- MCChunk
  Documents <- MCDocuments
INVARIANT EnsureIndexIndexes
