CONSTANTS
  Capture = {c1, c2, c3}
  Conversation = {v1}
  NoSession = NoSession
  RouteName = {r1}
  Prompt = {p1}
  NoPrompt = NoPrompt
  Captured <- SomeCaptured
  Capacity = 2
  IdentityCall = {i1, i2}
  Lifetimes = {1, 4}
  MaxFetch = 1
  MaxClock = 7
  Resolve = {n1, n2}
  Address = {ip1}
  DnsEntry = {d1, d2}
  NoDns = NoDns
  Item = {b1, b2}
  Wl = {w1, w2}
  BadWl = {w2}
  MaxEdits = 2
SPECIFICATION TasksSpec
CHECK_DEADLOCK FALSE
INVARIANTS CapturesConsistent IdentitiesServed NamesRefreshed LoadsReplace
PROPERTY TasksServe
