\* An interrupt in the middle of a capture makes a later one release the buffer under the driver.
SPECIFICATION Spec
CONSTANTS
  repl = repl
  ble = ble
  button = button
  Repl = repl
  Nobody = nobody
  Threads = {repl, ble, button}
  Ops <- WakeCapture
  MaxOps <- ThreeOne
  MaxFaults = 0
PROPERTIES NewFormatKeepsBuffer
CHECK_DEADLOCK FALSE
