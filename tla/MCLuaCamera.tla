---------------------------- MODULE MCLuaCamera -----------------------------
(* Instances of LuaCamera for TLC.                                         *)
EXTENDS LuaCamera, TLC

CONSTANTS repl, ble, button

\* The REPL thread runs scripts, sleeps and restarts its VM; the BLE host thread carries
\* Ctrl+C, the button thread the power-off.
Everything ==
  repl :> {"capture", "save", "wake", "standby", "light", "restart"}
    @@ ble :> {"interrupt"} @@ button :> {"deep"}

\* The least each documented claim needs to be refuted.
WakeSaveRestart == repl :> {"save", "wake", "restart"} @@ ble :> {} @@ button :> {}

WakeCapture == repl :> {"wake", "capture"} @@ ble :> {"interrupt"} @@ button :> {}

FiveOneOne == repl :> 5 @@ ble :> 1 @@ button :> 1
FiveOnRepl == repl :> 5 @@ ble :> 0 @@ button :> 0
ThreeOnRepl == repl :> 3 @@ ble :> 0 @@ button :> 0
ThreeOne == repl :> 3 @@ ble :> 1 @@ button :> 0
=============================================================================
