SPECIFICATION Spec
CONSTANTS
  m1 = m1
  m2 = m2
  Mentions = {m1, m2}
  None = None
  MaxTries = 2
  MaxDeliveries = 2
  AnthropicKey = TRUE
INVARIANTS
  TypeOK
  InvestigatedUnlessPostRaised
  ThreadConcluded
  ErrorBlamesSlack
PROPERTY
  RequestEnds
