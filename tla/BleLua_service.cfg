\* Sending, reading lines and packets, framing, each against lost links and the deinit.
SPECIFICATION FairSpec
CONSTANTS
  Repl = repl
  Pump = pump
  Mic = mic
  Host = host
  Closer = closer
  NoThread = nobody
  NoBuf = null
  FirstBuf = b1
  Bufs = {b1, b2}
  Workloads <- Every
  MaxChunks = 2
  Cap = 2
  SlowReconnect = TRUE
INVARIANTS TypeOK UnitNotLost OneOutstanding DataWakesReader FrameAnnounced BufferOwnedOnce
PROPERTIES SenderReturns FrameFifo
CHECK_DEADLOCK FALSE
