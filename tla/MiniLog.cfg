SPECIFICATION Spec
CONSTANTS
  Cpus = {c1, c2, c3}
  Slow = {c2, c3}
  MaxTickets = 6
SYMMETRY Symmetry
INVARIANTS LockInv MutualExclusion NoOvertaking
CHECK_DEADLOCK FALSE
