\* Everything at once, and chains that outlast the takeover's wait: chains overlap.
SPECIFICATION Spec
CONSTANTS
  lua = lua
  ble = ble
  button = button
  Threads = {lua, ble, button}
  Callbacks = {"ble_manager", "lua_runtime", "watchdog"}
  Prio <- RealPrio
  Source <- RealSource
  Priority <- RealPriority
  Order <- RealOrder
  Skips <- RealSkips
  Refusers = {"lua_runtime"}
  Scenarios <- Everything
  SlowChains = TRUE
INVARIANTS TypeOK NoFlagLeft
CHECK_DEADLOCK FALSE
