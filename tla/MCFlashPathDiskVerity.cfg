SPECIFICATION Spec
CONSTANTS
  d0 = d0 p1 = p1 p2 = p2
  Control = usb
  TcpWorkers = {tcp1}
  Disk = d0
  Parts = {p1}
  Targets <- DiskAndParts
  Unaligned <- Never
  MaxImages = 2
  NoDev = NoDev
  NoThread = NoThread
PROPERTY VerityDescribesPartition
