\* A merge drops the tombstone of a key whose put is in a file it keeps; then a kill.
SPECIFICATION KilledLate
CONSTANTS
  Keys = {k1, k2, k3, k4}
  Values = {v1, v2}
  Deleted = Deleted
  Nil = Nil
  Size <- MixedSize
  Threads = {t1}
  Ops <- PutDelete
  DataFileSize = 4
  ThresholdNum = 1
  ThresholdDen = 3
  MaxFileId = 12
  IoErrors = FALSE
  MaxCalls = 6
  MaxCrashes = 1
SYMMETRY KeySymmetry
PROPERTY RecoversView
