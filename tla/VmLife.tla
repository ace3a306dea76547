------------------------------- MODULE VmLife -------------------------------
(***************************************************************************)
(* The life of a Lua VM as its users see it (lua_runtime.h): the services   *)
(* are told of a VM once it exists and are done with it before it closes,   *)
(* one VM is closed before the next is created, and none is created once    *)
(* the runtime is down, which is what a power-off waits for.                *)
(***************************************************************************)
VARIABLES
  life,      \* of the VM: "none", "live" or "closing"
  services,  \* they have had INIT and not yet DEINIT
  down       \* the runtime has been exited and the VM is not live
vars == <<life, services, down>>

Init == life = "none" /\ services = FALSE /\ down = FALSE

Create == life = "none" /\ ~down /\ life' = "live" /\ UNCHANGED <<services, down>>

Start == life = "live" /\ ~services /\ services' = TRUE /\ UNCHANGED <<life, down>>

Stop == services /\ services' = FALSE /\ UNCHANGED <<life, down>>

\* The VM is taken out of use, by the runtime or by the exit that ends it.
Detach ==
  /\ life = "live" /\ ~services
  /\ life' = "closing" /\ down' \in {down, TRUE}
  /\ UNCHANGED services

Close == life = "closing" /\ life' = "none" /\ UNCHANGED <<services, down>>

GoDown ==
  /\ life # "live" /\ ~services
  /\ down' = TRUE
  /\ UNCHANGED <<life, services>>

Next == Create \/ Start \/ Stop \/ Detach \/ Close \/ GoDown

Spec == Init /\ [][Next]_vars
=============================================================================
