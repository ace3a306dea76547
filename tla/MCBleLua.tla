------------------------------ MODULE MCBleLua ------------------------------
(* Instances of BleLua for TLC.                                            *)
EXTENDS BleLua, TLC

\* Nothing but the calls named, for threads and for calls.
Calls(some) == [o \in OpNames |-> IF o \in DOMAIN some THEN some[o] ELSE 0]
Work(some) == [t \in Threads |-> IF t \in DOMAIN some THEN some[t] ELSE Calls(<<>>)]

\* Writes on both channels against a lost link, a reconnect and the deinit.
Sending ==
  Work(Repl :> Calls("send" :> 2) @@ Mic :> Calls("send" :> 1)
         @@ Host :> Calls("link" :> 3 @@ "ccc" :> 3) @@ Closer :> Calls("deinit" :> 1))

\* Lines, their reader, what resets the ring.
Lines ==
  Work(Repl :> Calls("read" :> 3)
         @@ Host :> Calls("link" :> 3 @@ "line" :> 3 @@ "control" :> 1)
         @@ Closer :> Calls("deinit" :> 1))

\* Audio packets, their reader, the flush of speaker.stop on another thread.
Packets ==
  Work(Repl :> Calls("flush" :> 2) @@ Pump :> Calls("read" :> 3)
         @@ Host :> Calls("link" :> 3 @@ "packet" :> 3)
         @@ Closer :> Calls("deinit" :> 1))

\* Data frames, their drain, a new VM, a resize.
Framing ==
  Work(Repl :> Calls("drain" :> 2 @@ "vm" :> 1 @@ "resize" :> 2)
         @@ Host :> Calls("link" :> 2 @@ "frame" :> 3 @@ "control" :> 1)
         @@ Closer :> Calls("deinit" :> 1))

\* A frame before and after the deinit, and a drain that meets it.
Closing ==
  Work(Repl :> Calls("drain" :> 1)
         @@ Host :> Calls("link" :> 1 @@ "frame" :> 2) @@ Closer :> Calls("deinit" :> 1))

Every == {Sending, Lines, Packets, Framing}
AtClose == {Closing}
=============================================================================
