SPECIFICATION Spec
CONSTANT ApiRetries <- MCApiRetries
INVARIANTS
  TypeOK
  WithinBudget
  ConversationSound
  ErrorIsLast
