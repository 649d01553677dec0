\* Two threads that race for the active file, the index and the merge.
SPECIFICATION Spec
CONSTANTS
  Keys = {k1, k2}
  Values = {v1, v2}
  Deleted = Deleted
  Nil = Nil
  Size <- MCSize
  Threads = {t1, t2}
  Ops <- AllOps
  DataFileSize = 4
  ThresholdNum = 1
  ThresholdDen = 2
  MaxFileId = 12
  IoErrors = FALSE
  MaxCalls = 4
  MaxCrashes = 0
SYMMETRY Symmetry
INVARIANT IndexSound
INVARIANT MergeExclusive
INVARIANT FilesBounded
INVARIANT ActiveOnTop
PROPERTY ReadSound
PROPERTY NewIdsOnTop
