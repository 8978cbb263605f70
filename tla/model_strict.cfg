SPECIFICATION Spec
CONSTANT ApiRetries <- MCApiRetries
INVARIANT FittingAccepted
