SPECIFICATION Spec
CONSTANTS
  k1 = k1
  k2 = k2
  r1 = r1
  s1 = s1
  s2 = s2
  None = None
  Keys <- MCKeys
  Reqs <- MCReqs
  Scopes <- MCScopes
  Required <- MCScopes
  MaxTime = 1
  MaxChanges = 3
SYMMETRY Symmetry
INVARIANTS
  TypeOK
  ServedByHeld
  RefusedForCause
CHECK_DEADLOCK FALSE
