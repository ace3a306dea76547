\* A second capture is offered the frame of the first.
SPECIFICATION Spec
CONSTANTS
  repl = repl
  ble = ble
  button = button
  Repl = repl
  Nobody = nobody
  Threads = {repl, ble, button}
  Ops <- WakeCapture
  MaxOps <- ThreeOnRepl
  MaxFaults = 0
INVARIANTS NewFrameOnly
CHECK_DEADLOCK FALSE
