CONSTANTS
  Streams = {s1, s2}
  Reader = Reader
  Nobody = Nobody
  Stop = Stop
  NoItem = NoItem
  High = 1
  Low = 1
  MaxReq = 0
  MaxHead = 0
  MaxBody = 0
  MaxChunks = 0
  MaxInbox = 1
  MaxCancels = 0
  LinkEnds = {"lost"}
  RouterMay = {}
  AppMay = {}
SPECIFICATION Spec
PROPERTIES
  LinkEndEndsSession
CHECK_DEADLOCK FALSE
