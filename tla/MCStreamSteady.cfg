\* A stream that runs from the start and is never stopped: two readers, a
\* ring of two slots filled more than once, sessions that time out.
CONSTANTS
  Size = 2
  w1 = w1  w2 = w2  c1 = c1  c2 = c2
  Workers = {w1, w2}
  Clients = {c1, c2}
  ClientOf <- OneEach
  SIDs = {s1, s2}
  NoSID = NoSID
  Producers = {p1}
  Ops <- Readers
  LazyStart = FALSE
  StopOnLonely = FALSE
  SessionTimeout = 0
  Word = 4
  MaxTime = 1
  MaxCid = 3
SYMMETRY Symmetry
SPECIFICATION Spec
INVARIANTS BacklogIsWaiters DeliversMessages
PROPERTIES CursorAdvances
