CONSTANTS
  r1 = r1 r2 = r2 r3 = r3 d1 = d1 d2 = d2 h1 = h1
  Req = {r1, r2, r3}
  Dest = {d1, d2}
  Hash = {h1}
  PoolConn = {c1, c2}
  DestOf <- TrafficDestOf
  HashOf <- TrafficHashOf
  MaxStreams = 2
  NoReq = NoReq
  NoConn = NoConn
  Caller = {k1, k2}
  MaxTokens = 2
  TokensPerFill = 1
  Width = 16
  Asked = {0, 2}
  Amends <- TrafficAmends
  LastTick = 2
  Configured = {"gateway ext_authz"}
  MaxRetries = 3
  MaxFrames = 2
  Buffered = 1
  AttemptsMod = 4
  Thread = {t1, t2}
  MaxRecords = 2
  Limit = 1
  Group = 2
  CounterMax = 2
SPECIFICATION TrafficSpec
CHECK_DEADLOCK FALSE
INVARIANT CountsOpenStreams
