\* Two workers and three jobs, each of which returns, panics or never ends.
SPECIFICATION FairSpec
CONSTANTS
  NumWorkers = 2
  Jobs = {j1, j2, j3}
  NoJob = NoJob
  Fates <- AllFates
INVARIANT TypeOK
INVARIANT DropWaits
PROPERTY RunsAsPool
PROPERTY ThreadsStay
PROPERTY JobsStart
PROPERTY ThreadsEnd
PROPERTY SpawnFailsOnlyDead
