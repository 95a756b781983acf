SPECIFICATION FairSpec
CONSTANTS
  Bsp = bsp
  Aps = {a1, a2}
  MaxRuns = 2
  MaxGlitches = 2
INVARIANTS SelfTestInv ReportIsFinal ReportIsHonest
PROPERTIES TestEnds
CHECK_DEADLOCK FALSE
