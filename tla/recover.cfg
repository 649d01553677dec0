\* One writer of puts and deletes, killed twice, no merges; a record may fill a file.
SPECIFICATION Spec
CONSTANTS
  Keys = {k1, k2}
  Values = {v1, v2}
  Deleted = Deleted
  Nil = Nil
  Size <- MixedSize
  Threads = {t1}
  Ops <- PutDelete
  DataFileSize = 3
  ThresholdNum = 100
  ThresholdDen = 2
  MaxFileId = 12
  IoErrors = FALSE
  MaxCalls = 5
  MaxCrashes = 2
SYMMETRY KeySymmetry
INVARIANT OpenSucceeds
PROPERTY RecoversView
PROPERTY ReplayIsLastWriter
