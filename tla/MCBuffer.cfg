\* A ring of four slots filled almost twice, one reader, one limit.
CONSTANTS
  Size = 4
  Payloads = {a, b}
  NoPayload = NoPayload
  Readers = {r1}
  Nobody = Nobody
  Limits = {0, 2}
  MaxCid = 7
SYMMETRY Symmetry
SPECIFICATION Spec
INVARIANTS TypeOK WindowHolds FetchInBounds SharedOnlyAdvances
PROPERTIES FetchServesAll ImplementsWindow
