\* Captures, power saves, sleeps and restarts on the REPL thread, an interrupt and a
\* power-off from other threads, and a device that fails or hangs.
SPECIFICATION FairSpec
CONSTANTS
  repl = repl
  ble = ble
  button = button
  Repl = repl
  Nobody = nobody
  Threads = {repl, ble, button}
  Ops <- Everything
  MaxOps <- FiveOneOne
  MaxFaults = 1
INVARIANTS TypeOK UpIffActive ReadyMeansStill
PROPERTIES BufferStays CameraComesBack WakeEnds
CHECK_DEADLOCK FALSE
