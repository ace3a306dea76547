---------------------------- MODULE MCLuaRuntime ----------------------------
(* Instances of LuaRuntime for TLC.                                        *)
EXTENDS LuaRuntime, TLC

CONSTANTS ble, button

\* The BLE host thread carries the control characters and one event source, the
\* button thread the other sources and the power-off; Lua scripts may sleep.
ControlAndPowerOff ==
  ble :> {"interrupt", "restart", "exit"} @@ button :> {"signal", "deep"}
    @@ Repl :> {"deep", "light", "standby"}

\* For liveness: one thread that exits, signals or (as the work item of
\* halo_pm_sleep_standby_async does) holds the VM; a break or a restart; a light sleep.
EventsAndOneExit ==
  ble :> {"restart", "interrupt"} @@ button :> {"deep", "signal", "standby"} @@ Repl :> {"light"}

\* The least the documented claims need to be refuted.
RestartAndEvents == ble :> {"restart"} @@ button :> {"signal"} @@ Repl :> {}
ExitOnly == ble :> {"exit"} @@ button :> {} @@ Repl :> {}
InterruptOnly == ble :> {"interrupt"} @@ button :> {} @@ Repl :> {}

TwoOne == ble :> 2 @@ button :> 1 @@ Repl :> 1
OneEach == [t \in Callers |-> 1]
=============================================================================
