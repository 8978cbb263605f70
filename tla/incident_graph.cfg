SPECIFICATION Spec
CONSTANTS
  k1 = k1
  k2 = k2
  Unset = Unset
  Hyps = {h1, h2}
  Hashes = {a1}
  Keys = {k1, k2}
  MaxAttempts = 5
  RouteAttempts = 5
  RecursionLimit = 25
  KeySetups <- MCKeySetups
INVARIANTS
  TypeOK
  IntentOnConfirmedDiagnosis
  EvidenceTrailIntact
  NeverOutOfSteps
  EndsClosed
  MismatchedKeysExecuteNothing
  ResolvedForAReason
PROPERTY ImplementsLifecycle
