CONSTANTS
  Clients = {c1, c2}
  Frames = {f}
  Nobody = Nobody
  Stop = Stop
  NoItem = NoItem
  MaxQueue = 3
SPECIFICATION Spec
INVARIANTS
  TypeOK
  OneLiveItem
PROPERTIES
  NoOvertaking
  Flushed
CHECK_DEADLOCK FALSE
