CONSTANTS
  Streams = {s1}
  Reader = Reader
  Nobody = Nobody
  Stop = Stop
  NoItem = NoItem
  High = 1
  Low = 1
  MaxReq = 1
  MaxHead = 1
  MaxBody = 1
  MaxChunks = 2
  MaxInbox = 1
  MaxCancels = 0
  LinkEnds = {}
  RouterMay = {"body"}
  AppMay = {"timeout"}
SPECIFICATION Spec
INVARIANTS
  RequestInOrder
CHECK_DEADLOCK FALSE
