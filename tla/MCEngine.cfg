\* Two requests for the engine beside the administrator, who makes two
\* calls: with two methods of one interface to expose, alone or together.
CONSTANTS
  Interfaces = {i1}
  Names = {m1, m2}
  Objs = {o1}
  Types = {t1}
  Builtin = {}
  None = None
  MaxOps = 2
  Requests = {r1, r2}
  h1 = h1  h2 = h2
  Hosts = {h1, h2}
  Queries = {None}
  Asks <- Clients
  ExtUrl = None
SYMMETRY Symmetry
SPECIFICATION Spec
INVARIANTS TypeOK GlobalsEverywhere EngineComplete FlagsHonoured
           OwnHost NeverEmpty
PROPERTIES SeamlessReplace
