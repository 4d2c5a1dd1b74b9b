CONSTANTS
  Hosts = {h1}
  Urls = {u1, u2}
  Slots = {0}
  Apps = {a1}
  NoApp = NoApp
  Callers = {c1}
  Loops = {l1, l2}
  Workers = {w1, w2, w3}
  NoTask = NoTask
  Requests = {}
  LookupByDns = TRUE
  MayFail = {"startup"}
  BaseDelay = 1
  MaxDelay = 1
  MaxExponent = 4
  MaxAttempts = 1
SPECIFICATION SafeSpec
PROPERTIES
  AttachStarts
CHECK_DEADLOCK FALSE
