\* A restart that lands while the hook runs is forgotten: a busy script goes on.
SPECIFICATION Spec
CONSTANTS
  ble = ble
  button = button
  Repl = repl
  NoThread = nothread
  Threads = {ble, button}
  Sources = {ev}
  Ops <- RestartAndEvents
  MaxOps <- OneEach
  MaxLines = 1
  MaxPcall = 1
  SlowServices = FALSE
INVARIANTS StopKeepsHookArmed
CHECK_DEADLOCK FALSE
