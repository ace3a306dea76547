---------------------------- MODULE MCPmManager -----------------------------
(* Instances of PmManager for TLC.                                         *)
EXTENDS PmManager, CallbackList, TLC

CONSTANTS lua, ble, button

\* The REPL thread is below the BLE host thread; the button driver is cooperative.
RealPrio == lua :> 0 @@ ble :> 1 @@ button :> 2
RealSource == lua :> "external" @@ ble :> "ble" @@ button :> "button"

\* Registered callbacks of three kinds: one that takes part in every sleep (Lua runtime),
\* one that sits out standby (watchdog), one that sits out light and standby (BLE); with
\* the priorities, and in the order, of their init functions.
RealPriority == "watchdog" :> 0 @@ "ble_manager" :> 20 @@ "lua_runtime" :> 10
RealCalls ==
  LET call(c) == [cb |-> c, priority |-> RealPriority[c]]
  IN <<call("watchdog"), call("ble_manager"), call("lua_runtime")>>
RealList == Registered(RealCalls)
RealOrder == <<RealList[1].cb, RealList[2].cb, RealList[3].cb>>
RealSkips ==
  "ble_manager" :> {"light", "standby"} @@ "lua_runtime" :> {} @@ "watchdog" :> {"standby"}

\* Lua sleeps with timeouts, raced by wakeups from BLE and the button.
SleepAndWake ==
  [ops |-> lua :> {"light", "standby"} @@ ble :> {"wakeup"} @@ button :> {"wakeup"},
   calls |-> lua :> 2 @@ ble :> 2 @@ button :> 2, timeouts |-> TRUE]

\* Lua sleeps without a timeout or powers off; so does the button.
SleepAndPowerOff ==
  [ops |-> lua :> Modes @@ ble :> {} @@ button :> {"deep"},
   calls |-> lua :> 2 @@ ble :> 0 @@ button :> 2, timeouts |-> FALSE]

\* Lua sleeps, BLE wakes it, the button powers off.
WakeAndPowerOff ==
  [ops |-> lua :> {"light"} @@ ble :> {"wakeup"} @@ button :> {"deep"},
   calls |-> [t \in Threads |-> 1], timeouts |-> FALSE]

\* All at once.
AllAtOnce ==
  [ops |-> lua :> Modes @@ ble :> {"wakeup"} @@ button :> {"deep", "wakeup"},
   calls |-> lua :> 2 @@ ble :> 1 @@ button :> 1, timeouts |-> TRUE]

InOrder == {SleepAndWake, SleepAndPowerOff}
Overlapping == {WakeAndPowerOff}
Everything == {AllAtOnce}

\* What is checked of the scenarios in order is proved of all such.
ASSUME ScenariosInOrder == ~SlowChains => \A sc \in InOrder : Orderly(sc)
=============================================================================
