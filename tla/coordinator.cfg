SPECIFICATION Spec
CONSTANTS
  Unset = Unset
  Hyps = {h1, h2}
  Hashes = {a1, a2}
  Keys = {k1}
  MaxAttempts = 5
  RouteAttempts = 5
  MaxIntents = 3
  Seeds <- MCSeeds
INVARIANTS
  TypeOK
  FailClosed
  TouchedOnConfirmed
  OncePerHash
  EffectsAudited
  ResolvedIsComplete
PROPERTY ImplementsContract
