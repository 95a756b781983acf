SPECIFICATION FairSpec
CONSTANTS
  Bytes = {0, 1, 2}
  Contents <- MCContents
  Configs <- MCConfigs
  MaxFlakyBoots = 1
  MaxRestores = 1
  MaxPowerCycles = 1
INVARIANTS PatchInv
PROPERTIES OnlyPatchedBytes RebootLoopEnds
CHECK_DEADLOCK FALSE
