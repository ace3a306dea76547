\* A script that loops in a coroutine is out of reach of Ctrl+C.
SPECIFICATION FairSpec
CONSTANTS
  ble = ble
  button = button
  Repl = repl
  NoThread = nothread
  Threads = {ble, button}
  Sources = {ev}
  Ops <- InterruptOnly
  MaxOps <- OneEach
  MaxLines = 1
  MaxPcall = 1
  SlowServices = FALSE
PROPERTIES BreakLands
CHECK_DEADLOCK FALSE
