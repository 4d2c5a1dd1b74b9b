CONSTANTS
  Streams = {s1}
  Reader = Reader
  Nobody = Nobody
  Stop = Stop
  NoItem = NoItem
  High = 1
  Low = 1
  MaxReq = 2
  MaxHead = 2
  MaxBody = 2
  MaxChunks = 2
  MaxInbox = 2
  MaxCancels = 2
  LinkEnds = {"closed", "lost"}
  RouterMay = {"body", "fragment", "reset", "bad"}
  AppMay = {}
SPECIFICATION SafeSpec
INVARIANTS
  TypeOK
  WindowAccounting
  NoLostWakeup
  Backpressure
  RequestInOrder
  RequestWindowConserved
  OnlyCompletedSurvive
  ActiveCount
PROPERTIES
  ContractSpec
CHECK_DEADLOCK FALSE
