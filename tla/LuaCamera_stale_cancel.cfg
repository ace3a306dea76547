\* A wake cancelled and dropped by a restart leaves its cancel to the next wake.
SPECIFICATION Spec
CONSTANTS
  repl = repl
  ble = ble
  button = button
  Repl = repl
  Nobody = nobody
  Threads = {repl, ble, button}
  Ops <- WakeSaveRestart
  MaxOps <- FiveOnRepl
  MaxFaults = 0
INVARIANTS UsableMeansUp
CHECK_DEADLOCK FALSE
