SPECIFICATION ProvisionSpec
CONSTANTS
  Layouts <- MixedLayouts
  Descs <- MCDescs
  Nodes <- MCNodes
  DiskSizes = {16, 20, 24, 28, 32, 40, 48}
  LuksHeader = 6
  BackupTable = 1
  MapDisks = {"x", "y"}
  DiskBlocks = 2
  BlockBits = 2
  Contents = {"a", "b"}
  Maps <- MCMaps
  MaxWrites = 1
  NoMap = NoMap
INVARIANTS FreshMappings PartitionedIsReal WalkComplete
    
  VerifiedMeansHeld
PROPERTIES  EveryCommandEnds
