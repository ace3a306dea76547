----------------------------- MODULE FrameQueue -----------------------------
(***************************************************************************)
(* What frame.bluetooth promises a script about data writes: "One ATT      *)
(* write becomes exactly one callback invocation, in arrival order"        *)
(* (lua_bluetooth.c).  Writes are numbered; a full buffer refuses a write; *)
(* a control character, a disconnect, a resize or a new VM drops what is   *)
(* queued.  With no receive_callback registered the frame is discarded     *)
(* instead of the call.  BleLua implements it.                             *)
(***************************************************************************)
EXTENDS Naturals, Sequences

VARIABLES
  queue,    \* accepted writes that no drain has taken yet
  got,      \* the write last taken, for the callback if there is one
  last      \* the last write, accepted or not
vars == <<queue, got, last>>

Init == queue = <<>> /\ got = 0 /\ last = 0

\* A full buffer refuses the write.
Write ==
  /\ last' = last + 1
  /\ queue' \in {queue, Append(queue, last')}
  /\ UNCHANGED got

Callback ==
  /\ queue # <<>>
  /\ got' = Head(queue) /\ queue' = Tail(queue)
  /\ UNCHANGED last

Clear == queue' = <<>> /\ UNCHANGED <<got, last>>

Next == Write \/ Callback \/ Clear

Spec == Init /\ [][Next]_vars
=============================================================================
