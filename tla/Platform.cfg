SPECIFICATION FairSpec
CONSTANTS
  NumProcessors = 3
  PackageIds = {p1, p2}
  NoPackage = NoPackage
  NoCpu = NoCpu
  MaxPackages = 2
  MaxCores = 2
  BootSeals <- MCBootSeals
  Policies <- MCPolicies
INVARIANTS PolicyInv SuccessIsComplete HandlerHasItsRecord
PROPERTIES BarrierSpec ProgramEnds
CHECK_DEADLOCK FALSE
