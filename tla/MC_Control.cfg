CONSTANTS
  Clients = {c1, c2}
  b = b
  k = k
  x = x
  y = y
  z = z
  u1 = u1
  u2 = u2
  s1 = s1
  None = None
  Unset = Unset
  Names = {b}
  Contents = {x, y}
  Keys = {k}
  Users = {u1}
  Signers = {s1}
  Policies <- MCPolicies
  Budgets = {100}
  Windows = {1, 2}
  Histories <- MCHistories
  MaxCommits = 5
  MaxRefCalls = 3
  Parts = {"history", "sync", "volumes", "fleet"}
  Admins = {a1, a2}
  Volumes = {v1, v2}
  KeepLast = 1
  MaxKek = 2
  MaxSnaps = 2
  MaxCalls = 3
  Nodes = {1, 2, 3}
  Placed = {w}
  Endpoints = {e1}
  Pools = {p1}
  Reported = {"healthy", "draining"}
  Loads = {0}
  MaxGen = 3
  here = here
  there = there
  MaxMade = 5
  MaxDone = 4
SPECIFICATION ControlSpec
CONSTRAINT FewReaders
SYMMETRY MCSymmetry
CHECK_DEADLOCK FALSE
INVARIANTS
    PlacementCoherent
PROPERTIES HeadsAdvance DeletedForGood MovesAreToHealthy
