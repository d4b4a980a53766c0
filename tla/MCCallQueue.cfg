\* Two slots and six calls: the backlog grows to four, of which synchronous
\* ones run through while an answer hands its slot on.
CONSTANTS
  Max = 2
  MaxCalls = 6
  None = None
SPECIFICATION FairSpec
INVARIANTS TypeOK WithinLimit WorkConserving InOrder
PROPERTIES EveryCallEnds
\* All calls made and answered, the page is idle.
CHECK_DEADLOCK FALSE
