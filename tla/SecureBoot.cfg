SPECIFICATION FairSpec
CONSTANTS
  vendor = vendor
  owner = owner
  Ours = ours
  Certs = {vendor, owner, ours}
  Configs <- MCConfigs
  FileSets <- MCFileSets
  FactoryKeys <- MCFactoryKeys
  MaxFlakyBoots = 2
  MaxPowerCycles = 2
INVARIANTS EnrollInv
PROPERTIES PkSealsComplete NoKeyIsLost DeployedOnlyWhenTrusted RebootLoopEnds
CHECK_DEADLOCK FALSE
