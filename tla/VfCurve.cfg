SPECIFICATION Spec
CONSTANTS
  MAX_VF_POINTS = 2
  IccMask = 7
  MaxWriters = 2
  Starts <- MCStarts
INVARIANTS CurveInv TableIsWhole PointsAsWanted AskedIsWritten UntouchedStays
CHECK_DEADLOCK FALSE
