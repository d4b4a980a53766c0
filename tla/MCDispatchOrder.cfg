\* As MCDispatch.cfg, for what the comment of serveHTTP says of the order.
CONSTANTS
  Requests = {r1, r2}
  Browsers = {b1, b2}
  Calls <- MCCalls
  Values <- MCValues
  Table <- MCTable
  Statuses = {200, 400, 403, 404, 500}
  Keys = {k1, k2, bad}
  BadKeys = {bad}
  Default = Default
  OwnClient = TRUE
  None = None
SPECIFICATION Spec
INVARIANT InGivenOrder
