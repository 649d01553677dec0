\* A put between the double check of a merge and its index.put.
SPECIFICATION Spec
CONSTANTS
  Keys = {k1, k2}
  Values = {v1, v2}
  Deleted = Deleted
  Nil = Nil
  Size <- MCSize
  Threads = {t1, t2}
  Ops <- PutOnly
  DataFileSize = 4
  ThresholdNum = 1
  ThresholdDen = 2
  MaxFileId = 12
  IoErrors = FALSE
  MaxCalls = 4
  MaxCrashes = 0
SYMMETRY Symmetry
PROPERTY MergeKeepsView
