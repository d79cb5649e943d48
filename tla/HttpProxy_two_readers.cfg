SPECIFICATION ProxySpec
CONSTANTS
  Configured = {}
  MaxRetries = 2
  MaxFrames = 1
  Buffered = 1
  AttemptsMod = 256
CHECK_DEADLOCK FALSE
INVARIANT NoTwoReaders
