CONSTANTS
  c1=c1
  c2=c2
  c3=c3
  Conn={c1,c2,c3}
  Stream = {s1}
  BindAt = {"b1", "b2"}
  EntryBind = "b1"
  BindTables <- SomeTables
  ServerNames = {"a", "b", ""}
  Overrides = {{12}}
  NoOverride = NoOverride
  Peer = {"p1", "p2"}
  NoPeer = NoPeer
  MaxConfigs = 1
  UpCall = {u1}
  MaxCalls = 2
  Asks <- SomeAsks
  HostIps = {"10", "11"}
  ServerCerts <- SomeCerts
  NoConnection = NoConnection
  MaxBytes <- SomeBytes
  Kinds <- SomeKinds
  LargeAt = 1
  JumboAt = 2
SPECIFICATION EndsSpec
CHECK_DEADLOCK FALSE
INVARIANTS DrainHonoured RightPeers
PROPERTY ConnectionsEnd
