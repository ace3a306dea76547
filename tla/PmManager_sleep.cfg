\* Sleeps with timeouts raced by wakeups, and sleeps without one that a power-off takes
\* over; the Lua runtime may refuse to suspend.
SPECIFICATION FairSpec
CONSTANTS
  lua = lua
  ble = ble
  button = button
  Threads = {lua, ble, button}
  Callbacks = {"ble_manager", "lua_runtime", "watchdog"}
  Prio <- RealPrio
  Source <- RealSource
  Priority <- RealPriority
  Order <- RealOrder
  Skips <- RealSkips
  Refusers = {"lua_runtime"}
  Scenarios <- InOrder
  SlowChains = FALSE
INVARIANTS WakeNotLost WakeReason AwakeMeansResumed
INVARIANTS HigherGoesFirst ChainsDoNotOverlap CallbackSeesItsMode PowerOffTellsAll
PROPERTIES SleeperReturns PowerOffHappens
CHECK_DEADLOCK FALSE
