SPECIFICATION Spec
CONSTANTS
  c1 = c1
  c2 = c2
  c3 = c3
  e1 = e1
  e2 = e2
  Calls = {c1, c2, c3}
  Ids = {e1, e2}
  IdOf <- SharedIds
  Nothing = Nothing
INVARIANTS
  TypeOK
  NoDanglingReference
  AllOrNothing
  TableBeforeInsert
