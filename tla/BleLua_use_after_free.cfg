\* Frames against the deinit: the ring outlives its buffer.
SPECIFICATION Spec
CONSTANTS
  Repl = repl
  Pump = pump
  Mic = mic
  Host = host
  Closer = closer
  NoThread = nobody
  NoBuf = null
  FirstBuf = b1
  Bufs = {b1, b2}
  Workloads <- AtClose
  MaxChunks = 2
  Cap = 2
  SlowReconnect = TRUE
PROPERTIES NoUseAfterFree
CHECK_DEADLOCK FALSE
