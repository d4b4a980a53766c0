\* Two requests of two browsers, with restarts between any two steps under a
\* good or a bad key, and a client for each request.
CONSTANTS
  Requests = {r1, r2}
  Browsers = {b1, b2}
  Calls <- MCCalls
  Values <- MCValues
  Table <- MCTable
  Statuses = {200, 400, 403, 404, 500}
  Keys = {k1, k2, bad}
  BadKeys = {bad}
  Default = Default
  OwnClient = TRUE
  None = None
SPECIFICATION FairSpec
INVARIANTS TypeOK InvokedAsAsked PrivateAfterLogin
PROPERTIES CookieFollowsChange Answered
