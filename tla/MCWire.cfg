CONSTANTS
  Ids <- BoundaryIds
  Limits = {0, 1, 2, 3, 4, 5}
  MaxData = 2
  Byte = 16
  MaxChars = 3
  MaxMessages = 2
  MaxBody = 3
  Schemes = {"", "https"}
  Names = {"host", "Host", "x-forwarded-proto", "x-forwarded-for", "x-a", "connection"}
  MaxLines = 3
SPECIFICATION WireSpec
INVARIANTS
  FramingTypeOK
  FramesFit
  NothingLost
  EndsOnce
  FramesDecode
  RequestTypeOK
  HeadersKept
  OriginKept
CHECK_DEADLOCK FALSE
