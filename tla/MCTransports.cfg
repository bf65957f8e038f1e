SPECIFICATION TransportsSpec
CONSTANTS
  Workers = {w1, w2}
  Conns = {c1, c2, c3, c4, c5}
  NoConn = NoConn
  IoSize = 2
  QueueDepth = 2
  Lengths = {1, 2, 5}
  MaxUsbSessions = 2
  SeqMod = 12
  Attempts = 2
  MaxChunks = 2
  RoomChunks = 1
  MaxTransfers = 3
INVARIANTS TypeOK NoTaskStranded AcceptorNotStranded OneOwner 
PROPERTIES EveryClientFinishes  
CHECK_DEADLOCK FALSE
