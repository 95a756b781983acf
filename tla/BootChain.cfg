SPECIFICATION MCSpec
CONSTANTS
  Numbers = {0, 1}
  NoNumber = none
  EntrySets <- MCEntrySets
  Orders <- MCOrders
  MaxBoots = 1
  Junk = junk
  Wide = wide
  Absent = absent
  ArchA = archA
  ArchB = archB
  ArchU = archU
  Cpus <- MCCpus
  Disks <- MCDisks
  DiskOf <- MCDiskOf
  CpuTable <- MCCpuTable
  LunarLake = 189
  MaxWork = 1
INVARIANTS ChainInv NoEntryIsForgotten NoSelfLoop IdtGivenBack ProgrammedOnlyOnWish NearestCopy
PROPERTIES LoaderSpec ChainEnds
CHECK_DEADLOCK FALSE
