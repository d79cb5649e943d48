CONSTANTS
  Asker = {a1, a2}
  OutCap = 1
  EventCap = 1
  MaxNotes = 2
  MaxLives = 2
  Upstreams = 2
  MaxMessages = 2
  Call = {k1, k2}
  Socket = {s1, s2}
  NoCall = NoCall
  NoSocket = NoSocket
  PoolMax = 1
  Room = 1
  MaxFrames = 1
  MaxChunks = 1
SPECIFICATION StreamsSpec
CHECK_DEADLOCK FALSE
INVARIANTS AnswersMatched MergeConsistent ClientConsistent LocksServeWaiters ExchangesConsistent
 
