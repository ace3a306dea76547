\* A wakeup ends a light sleep while its chain runs, and the button powers off.
SPECIFICATION Spec
CONSTANTS
  lua = lua
  ble = ble
  button = button
  Threads = {lua, ble, button}
  Callbacks = {"ble_manager", "lua_runtime", "watchdog"}
  Prio <- RealPrio
  Source <- RealSource
  Priority <- RealPriority
  Order <- RealOrder
  Skips <- RealSkips
  Refusers = {}
  Scenarios <- Overlapping
  SlowChains = FALSE
INVARIANTS ChainsDoNotOverlap
CHECK_DEADLOCK FALSE
