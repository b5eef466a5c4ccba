SPECIFICATION Spec
CONSTANTS
  Loop = {l1, l2, l3}
  Caller = {c1, c2}
  None = None
INVARIANTS
  RunsDoNotOverlap
CHECK_DEADLOCK FALSE
