\* Three threads: any mix of calls without merges, or one that merges and two readers.
SPECIFICATION Spec
CONSTANTS
  Threads = {t1, t2, t3}
  None = None
  Mixes <- MergesAlone
INVARIANT TypeOK
INVARIANT NoCircularWait
