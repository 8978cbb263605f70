SPECIFICATION Spec
CONSTANTS
  k1 = k1
  Unset = Unset
  None = None
  Procs = {p1}
  Hyps = {h1}
  Hashes = {a1}
  Keys = {k1}
  MaxAttempts = 2
  RouteAttempts = 2
  KeySetups <- MCKeySetups
  MaxCalls = 3
INVARIANT ReturnsFinishedRun
