\* Two connections, a pool of one or two threads, three calls and one kill.
SPECIFICATION FairSpec
CONSTANTS
  Clients = {c1, c2}
  PoolThreads = {p1, p2}
  Keys = {k1}
  Values = {v1}
  Absent = Absent
  None = None
  TornMarker = FALSE
  MaxCalls = 3
  MaxKills = 1
INVARIANT TypeOK
INVARIANT OneEngine
PROPERTY Durable
PROPERTY Answered
