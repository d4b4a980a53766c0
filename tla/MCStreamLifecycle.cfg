\* A lazily started stream that is started, stopped and left alone: a client
\* that reads and stops, one that starts, two fetcher loops.
CONSTANTS
  Size = 2
  w1 = w1  w2 = w2  c1 = c1  c2 = c2
  Workers = {w1, w2}
  Clients = {c1, c2}
  ClientOf <- OneEach
  SIDs = {s1}
  NoSID = NoSID
  Producers = {p1, p2}
  Ops <- StopperAndStarter
  LazyStart = TRUE
  StopOnLonely = TRUE
  SessionTimeout = 0
  Word = 4
  MaxTime = 0
  MaxCid = 1
SPECIFICATION FairSpec
INVARIANTS TypeOK RunningHasProducer LaunchPaired
PROPERTIES EveryCallReturns StoppedLoopsEnd
