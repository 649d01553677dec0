\* Two threads, one of which removes; no file is ever worth merging.
SPECIFICATION Spec
CONSTANTS
  Keys = {k1, k2}
  Values = {v1, v2}
  Deleted = Deleted
  Nil = Nil
  Size <- MCSize
  Threads = {t1, t2}
  Ops <- OneRemover
  DataFileSize = 4
  ThresholdNum = 100
  ThresholdDen = 2
  MaxFileId = 12
  IoErrors = FALSE
  MaxCalls = 4
  MaxCrashes = 0
SYMMETRY DataSymmetry
PROPERTY Linearizable
