CONSTANTS
  Streams = {s1}
  Reader = Reader
  Nobody = Nobody
  Stop = Stop
  NoItem = NoItem
  High = 1
  Low = 1
  MaxReq = 0
  MaxHead = 1
  MaxBody = 1
  MaxChunks = 0
  MaxInbox = 1
  MaxCancels = 0
  LinkEnds = {}
  RouterMay = {}
  AppMay = {"badstart"}
SPECIFICATION Spec
PROPERTIES
  ContractSpec
CHECK_DEADLOCK FALSE
