\* Any read, write, sync, rename or open may fail; one kill; liveness, so no symmetry.
SPECIFICATION FairSpec
CONSTANTS
  Keys = {k1, k2}
  Values = {v1, v2}
  Deleted = Deleted
  Nil = Nil
  Size <- MCSize
  Threads = {t1}
  Ops <- PutOrGet
  DataFileSize = 4
  ThresholdNum = 1
  ThresholdDen = 2
  MaxFileId = 12
  IoErrors = TRUE
  MaxCalls = 4
  MaxCrashes = 1
INVARIANT IInv
INVARIANT IndexSound
INVARIANT MergeExclusive
PROPERTY OlderReadOnly
PROPERTY PutMergeKeepsReplay
PROPERTY CallsReturn
