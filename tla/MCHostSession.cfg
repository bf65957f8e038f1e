SPECIFICATION HostSessionSpec
CONSTANTS
  Cap = 2
  MaxLen = 3
  DataSize = 2
  MaxCommands = 2
  BlockSize = 64
  ImageBlocks = 16
  TailLens = {64}
  Limits = {568, 584}
  Sources = {"raw", "sparse", "super"}
  RunLens = {4, 7}
  Grain = 2
  BootLimit = 3
  FastbootdLimit = 2
INVARIANTS TypeOK   PartialNeverUsed
   
 
CHECK_DEADLOCK FALSE
