\* Events, breaks, restarts, standby and one power-off; scripts may loop for ever, service
\* callbacks meet the three seconds.
SPECIFICATION FairSpec
CONSTANTS
  ble = ble
  button = button
  Repl = repl
  NoThread = nothread
  Threads = {ble, button}
  Sources = {ev}
  Ops <- EventsAndOneExit
  MaxOps <- OneEach
  MaxLines = 1
  MaxPcall = 1
  SlowServices = FALSE
PROPERTIES ExitReturns StopTearsDown EventDelivered
CHECK_DEADLOCK FALSE
