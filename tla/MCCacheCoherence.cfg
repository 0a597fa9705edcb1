CONSTANTS
  d1 = d1
  d2 = d2
  a1 = a1
  Reader = {d1, d2}
  Run = {a1}
  MaxVersion = 2
  None = None
SYMMETRY Readers
SPECIFICATION Spec
INVARIANTS TypeOK FreshAfterInvalidation DetailsNotOlder
CHECK_DEADLOCK FALSE
