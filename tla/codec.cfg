CONSTANTS
  MaxFields = 2

SPECIFICATION Spec

INVARIANTS
  ValuesArrive
  EndsForCause

CHECK_DEADLOCK FALSE
