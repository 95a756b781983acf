SPECIFICATION Spec
CONSTANTS
  MAX_POWAH = 1048575
  PowerMask = 31
  CurrentMask = 31
  MaxY = 2
  Taus <- MCTaus
  NumCores = 2
  Starts <- MCStarts
INVARIANTS PowerInv LimitsInForce LocksAsAsked
CHECK_DEADLOCK FALSE
