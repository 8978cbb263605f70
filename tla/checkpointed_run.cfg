SPECIFICATION Spec
CONSTANTS
  k1 = k1
  Unset = Unset
  None = None
  Procs = {p1, p2}
  Hyps = {h1}
  Hashes = {a1}
  Keys = {k1}
  MaxAttempts = 2
  RouteAttempts = 2
  KeySetups <- MCMatchingKeys
  MaxCalls = 3
SYMMETRY MCSymmetry
VIEW MCView
INVARIANTS
  TypeOK
  ReexecutedOnlyUnseen
  ReadsBackItsEnd
PROPERTY StoredLifecycle
