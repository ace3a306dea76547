\* The REPL thread is aborted inside a service callback: exit blocks on service_lock.
SPECIFICATION FairSpec
CONSTANTS
  ble = ble
  button = button
  Repl = repl
  NoThread = nothread
  Threads = {ble, button}
  Sources = {ev}
  Ops <- ExitOnly
  MaxOps <- OneEach
  MaxLines = 1
  MaxPcall = 1
  SlowServices = TRUE
PROPERTIES ExitReturns
CHECK_DEADLOCK FALSE
