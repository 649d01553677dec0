\* One thread, every operation, rotations and merges, no restart.
SPECIFICATION Spec
CONSTANTS
  Keys = {k1, k2, k3}
  Values = {v1, v2}
  Deleted = Deleted
  Nil = Nil
  Size <- MixedSize
  Threads = {t1}
  Ops <- AllOps
  DataFileSize = 4
  ThresholdNum = 1
  ThresholdDen = 4
  MaxFileId = 12
  IoErrors = FALSE
  MaxCalls = 6
  MaxCrashes = 0
SYMMETRY KeySymmetry
INVARIANT TypeOK
INVARIANT AccountOK
INVARIANT ReclaimExact
INVARIANT NoDangling
PROPERTY MergeKeepsView
PROPERTY PutMergeKeepsReplay
PROPERTY Linearizable
