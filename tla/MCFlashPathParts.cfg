SPECIFICATION Spec
CONSTANTS
  d0 = d0 p1 = p1 p2 = p2
  Control = usb
  TcpWorkers = {tcp1}
  Disk = d0
  Parts = {p1, p2}
  Targets <- OnlyParts
  Unaligned <- Either
  MaxImages = 2
  NoDev = NoDev
  NoThread = NoThread
PROPERTIES FlashedContent VerityDescribesPartition
