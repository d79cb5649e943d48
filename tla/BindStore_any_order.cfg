SPECIFICATION StoresSpec
CONSTANTS
  b1 = b1
  b2 = b2
  l1 = l1
  l2 = l2
  r1 = r1
  r2 = r2
  p1 = p1
  t1 = t1
  t2 = t2
  k1 = k1
  None = None
  BindKey = {b1, b2}
  ListenerKey = {l1, l2}
  RouteKey = {r1, r2}
  PolicyKey = {p1}
  BackendKey = {k1}
  Target = {t1, t2}
  Name <- Names
  Push <- FullPush
  Absent = Absent
  Uid = {u1, u2}
  Address = {a1}
  Service = {s1, s2}
  Vip = {v1, v2}
  AllowAll = {s2}
  WorkloadPush <- Workload
  NotEvicted = NotEvicted
  Key = {e1, e2}
  Home <- OwnBuckets
  Span = {1, 2}
  MaxTime = 2
CHECK_DEADLOCK FALSE
INVARIANTS StoreConsistent SubscribersInformed JoinExact IndexesExact EvictionsConsistent
PROPERTIES HeldUntilDue AllReturn
