SPECIFICATION MCBoardSpec
CONSTANTS
  Ifaces = {"ethernet"}
  CustomerRows = 2
  OctetBits = 1
  TryMacs <- SomeMacs
  TryWords <- SomeWords
  Malformed = Malformed
  NotAcked = NotAcked
  Passphrases = {p1, p2}
  Empty = Empty
  HwKey = HwKey
  Payloads <- SomePayloads
  Factory <- FactoryImage
  Torn <- TornImage
  Half <- HalfImage
  ChipSize = 2
  MinImageSize = 2
  MaxImageSize = 3
  BoardMinBootVer = 2
  VerMod = 8
  NoData = NoData
  Unknown = Unknown
  NetKinds = {"address", "netmask", "gateway", "dns", "dhcp"}
  NetVals = {0, 3}
  LinkLocal = LinkLocal
  NoVal = NoVal
  MaskBits = 4
  MaxChanges = 2
  Boards <- SomeBoards
  Askers = {s1, s2}
  Unset = Unset
  Blank = Blank
INVARIANTS NeverExported OkMeansLocked
  SlotsAsReported  NoDowngrade
   BoardAsTold
PROPERTIES ImplementsWriteOnce 
