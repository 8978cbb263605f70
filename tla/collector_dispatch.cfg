SPECIFICATION Spec
CONSTANTS
  None = None
  Hyps = {h1, h2}
  Questions <- MCQuestions
  Deadline = 30
  Iterations = 5
  MaxTicks = 2
INVARIANTS
  TypeOK
  EvidenceBehindFinding
  NoSilentTick
  StoresInTime
PROPERTY TickEnds
