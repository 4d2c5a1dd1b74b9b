CONSTANTS
  Streams = {s1}
  Reader = Reader
  Nobody = Nobody
  Stop = Stop
  NoItem = NoItem
  High = 1
  Low = 1
  MaxReq = 1
  MaxHead = 1
  MaxBody = 1
  MaxChunks = 2
  MaxInbox = 1
  MaxCancels = 1
  LinkEnds = {"lost"}
  RouterMay = {"body", "reset"}
  AppMay = {"timeout", "badstart"}
SPECIFICATION Spec
PROPERTIES
  RequestEnds
  SessionCloses
  AbortIsFinal
CHECK_DEADLOCK FALSE
