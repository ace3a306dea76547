\* Control characters, events, a power-off and Lua sleeps; scripts may loop for ever,
\* service callbacks may outlast the three seconds an exit waits.
SPECIFICATION Spec
CONSTANTS
  ble = ble
  button = button
  Repl = repl
  NoThread = nothread
  Threads = {ble, button}
  Sources = {ev}
  Ops <- ControlAndPowerOff
  MaxOps <- TwoOne
  MaxLines = 2
  MaxPcall = 1
  SlowServices = TRUE
INVARIANTS TypeOK VmHasOneOwner ReplHasItsVm EventsArmTheHook ExitClosesVm
PROPERTIES BreakRaisedOnce VmLifeCycle
CHECK_DEADLOCK FALSE
