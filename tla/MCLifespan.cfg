CONSTANTS
  Hosts = {h1}
  Urls = {u1}
  Slots = {0}
  Apps = {a1}
  NoApp = NoApp
  Callers = {c1}
  Loops = {l1, l2}
  Workers = {w1, w2}
  NoTask = NoTask
  Requests = {r1}
  LookupByDns = TRUE
  MayFail = {"startup", "refresh"}
  BaseDelay = 1
  MaxDelay = 1
  MaxExponent = 4
  MaxAttempts = 1
  Patterns = {"wrapper", "middleware", "bare"}
  ProgramMay = {"startup", "attach", "shutdown", "detach"}
  MaxLives = 2
SPECIFICATION LifespanSpec
INVARIANTS
  
  NothingAfterServer
PROPERTIES
  DirectUntilReleased
  CompleteMeansRegistered
  
  StopAnswered
CHECK_DEADLOCK FALSE
