\* A ring of eight slots, large enough for a run round its end that is longer
\* than half of it and does not fill it.
CONSTANTS
  Size = 8
  Payloads = {a}
  NoPayload = NoPayload
  Readers = {r1}
  Nobody = Nobody
  Limits = {0}
  MaxCid = 12
SPECIFICATION Spec
PROPERTIES FetchStartsAtId
