-------------------------- MODULE LuaCamera_proof ---------------------------
(***************************************************************************)
(* Proofs about LuaCamera, for any threads, operations and failures.       *)
(***************************************************************************)
EXTENDS LuaCamera, TLAPS

(***************************************************************************)
(* Calls: where a caller is, and which callbacks it has still to make.     *)
(***************************************************************************)
\* What can be left of an operation's callbacks.
Rest ==
  [none |-> {<<>>}, capture |-> {<<>>}, save |-> {<<"OFF">>}, wake |-> {<<"ON">>},
   restart |-> {<<"DEINIT", "INIT">>, <<"INIT">>}, interrupt |-> {<<"INTERRUPT">>},
   standby |-> {<<"SUSPEND", "RESUME">>, <<"RESUME">>},
   light |-> {<<"SUSPEND", "DEINIT", "INIT">>, <<"DEINIT", "INIT">>, <<"INIT">>},
   deep |-> {<<"SUSPEND", "DEINIT">>, <<"DEINIT">>}]

AllOps == DOMAIN Calls \cup {"none"}
HeadOf(s) == IF s = <<>> THEN "none" ELSE Head(s)

\* An operation begins with all of its callbacks.
LEMMA RestBegins == \A o \in DOMAIN Calls : Calls[o] \in Rest[o]
BY DEF Calls, Rest

\* None begins with an INIT or a RESUME.
LEMMA CallsNew == \A o \in DOMAIN Calls : Calls[o] \notin {<<"INIT">>, <<"RESUME">>}
<1>1. \A a, b : <<a, b>> # <<"INIT">> /\ <<a, b>> # <<"RESUME">>
  OBVIOUS
<1>2. \A a, b, c : <<a, b, c>> # <<"INIT">> /\ <<a, b, c>> # <<"RESUME">>
  OBVIOUS
<1>3. \A a : (a # "INIT" => <<a>> # <<"INIT">>) /\ (a # "RESUME" => <<a>> # <<"RESUME">>)
  OBVIOUS
<1>4. /\ DOMAIN Calls = {"capture", "save", "wake", "restart", "interrupt", "standby", "light",
                        "deep"}
      /\ Calls["capture"] = <<>> /\ Calls["save"] = <<"OFF">> /\ Calls["wake"] = <<"ON">>
      /\ Calls["restart"] = <<"DEINIT", "INIT">> /\ Calls["interrupt"] = <<"INTERRUPT">>
      /\ Calls["standby"] = <<"SUSPEND", "RESUME">>
      /\ Calls["light"] = <<"SUSPEND", "DEINIT", "INIT">> /\ Calls["deep"] = <<"SUSPEND", "DEINIT">>
  BY DEF Calls
<1> QED
  BY <1>1, <1>2, <1>3, <1>4

\* The rests, operation by operation.
LEMMA RestOf ==
  /\ Rest["none"] = {<<>>} /\ Rest["capture"] = {<<>>}
  /\ Rest["save"] = {<<"OFF">>} /\ Rest["wake"] = {<<"ON">>}
  /\ Rest["interrupt"] = {<<"INTERRUPT">>}
  /\ Rest["restart"] = {<<"DEINIT", "INIT">>, <<"INIT">>}
  /\ Rest["standby"] = {<<"SUSPEND", "RESUME">>, <<"RESUME">>}
  /\ Rest["light"] = {<<"SUSPEND", "DEINIT", "INIT">>, <<"DEINIT", "INIT">>, <<"INIT">>}
  /\ Rest["deep"] = {<<"SUSPEND", "DEINIT">>, <<"DEINIT">>}
  /\ AllOps = {"none", "capture", "save", "wake", "interrupt", "restart", "standby", "light",
               "deep"}
BY DEF Rest, AllOps, Calls

\* What a callback that is done leaves, and which is first.
LEMMA Shapes ==
  /\ \A a : Len(<<a>>) = 1 /\ Tail(<<a>>) = <<>> /\ HeadOf(<<a>>) = a /\ <<a>> # <<>>
  /\ \A a, b : /\ Len(<<a, b>>) = 2 /\ Tail(<<a, b>>) = <<b>> /\ HeadOf(<<a, b>>) = a
               /\ <<a, b>> # <<>>
  /\ \A a, b, c : /\ Len(<<a, b, c>>) = 3 /\ Tail(<<a, b, c>>) = <<b, c>>
                  /\ HeadOf(<<a, b, c>>) = a /\ <<a, b, c>> # <<>>
BY DEF HeadOf

\* Every callback that is done leaves a rest of the same operation.
LEMMA RestTail ==
  ASSUME NEW o \in AllOps, NEW s \in Rest[o], s # <<>>
  PROVE  /\ Len(s) > 1 => Tail(s) \in Rest[o] /\ Tail(s) # <<>>
         /\ ~(Len(s) > 1) => Tail(s) = <<>>
<1>1. CASE o = "none"
  <2>1. s = <<>>
    BY <1>1, RestOf
  <2> QED
    BY <1>1, <2>1, RestOf, Shapes DEF HeadOf
<1>2. CASE o = "capture"
  <2>1. s = <<>>
    BY <1>2, RestOf
  <2> QED
    BY <1>2, <2>1, RestOf, Shapes DEF HeadOf
<1>3. CASE o = "save"
  <2>1. s = <<"OFF">>
    BY <1>3, RestOf
  <2> QED
    BY <1>3, <2>1, RestOf, Shapes DEF HeadOf
<1>4. CASE o = "wake"
  <2>1. s = <<"ON">>
    BY <1>4, RestOf
  <2> QED
    BY <1>4, <2>1, RestOf, Shapes DEF HeadOf
<1>5. CASE o = "interrupt"
  <2>1. s = <<"INTERRUPT">>
    BY <1>5, RestOf
  <2> QED
    BY <1>5, <2>1, RestOf, Shapes DEF HeadOf
<1>6. CASE o = "restart"
  <2>1. s = <<"DEINIT", "INIT">> \/ s = <<"INIT">>
    BY <1>6, RestOf
  <2>2. CASE s = <<"DEINIT", "INIT">>
    BY <1>6, <2>2, RestOf, Shapes DEF HeadOf
  <2>3. CASE s = <<"INIT">>
    BY <1>6, <2>3, RestOf, Shapes DEF HeadOf
  <2> QED
    BY <2>1, <2>2, <2>3
<1>7. CASE o = "standby"
  <2>1. s = <<"SUSPEND", "RESUME">> \/ s = <<"RESUME">>
    BY <1>7, RestOf
  <2>2. CASE s = <<"SUSPEND", "RESUME">>
    BY <1>7, <2>2, RestOf, Shapes DEF HeadOf
  <2>3. CASE s = <<"RESUME">>
    BY <1>7, <2>3, RestOf, Shapes DEF HeadOf
  <2> QED
    BY <2>1, <2>2, <2>3
<1>8. CASE o = "light"
  <2>1. s = <<"SUSPEND", "DEINIT", "INIT">> \/ s = <<"DEINIT", "INIT">> \/ s = <<"INIT">>
    BY <1>8, RestOf
  <2>2. CASE s = <<"SUSPEND", "DEINIT", "INIT">>
    BY <1>8, <2>2, RestOf, Shapes DEF HeadOf
  <2>3. CASE s = <<"DEINIT", "INIT">>
    BY <1>8, <2>3, RestOf, Shapes DEF HeadOf
  <2>4. CASE s = <<"INIT">>
    BY <1>8, <2>4, RestOf, Shapes DEF HeadOf
  <2> QED
    BY <2>1, <2>2, <2>3, <2>4
<1>9. CASE o = "deep"
  <2>1. s = <<"SUSPEND", "DEINIT">> \/ s = <<"DEINIT">>
    BY <1>9, RestOf
  <2>2. CASE s = <<"SUSPEND", "DEINIT">>
    BY <1>9, <2>2, RestOf, Shapes DEF HeadOf
  <2>3. CASE s = <<"DEINIT">>
    BY <1>9, <2>3, RestOf, Shapes DEF HeadOf
  <2> QED
    BY <2>1, <2>2, <2>3
<1> QED
  BY <1>1, <1>2, <1>3, <1>4, <1>5, <1>6, <1>7, <1>8, <1>9, RestOf

\* A rest is a sequence of callbacks; which one is first tells the operation.
LEMMA RestHead ==
  ASSUME NEW o \in AllOps, NEW s \in Rest[o]
  PROVE  /\ s \in Seq(Events)
         /\ s = <<>> <=> o \in {"none", "capture"}
         /\ HeadOf(s) \in Events \cup {"none"} /\ (HeadOf(s) = "none" <=> s = <<>>)
         /\ HeadOf(s) = "OFF" => o = "save"
         /\ HeadOf(s) = "ON" => o = "wake"
         /\ HeadOf(s) = "INIT" => o \in {"restart", "light"} /\ s = <<"INIT">>
         /\ HeadOf(s) = "RESUME" => o = "standby" /\ s = <<"RESUME">>
         /\ HeadOf(s) = "SUSPEND" => o \in Sleeps
         /\ HeadOf(s) = "DEINIT" => o \in {"restart", "light", "deep"}
         /\ HeadOf(s) = "INTERRUPT" => o = "interrupt"
<1>1. CASE o = "none"
  <2>1. s = <<>>
    BY <1>1, RestOf
  <2> QED
    BY <1>1, <2>1, Shapes DEF HeadOf, Events, Sleeps
<1>2. CASE o = "capture"
  <2>1. s = <<>>
    BY <1>2, RestOf
  <2> QED
    BY <1>2, <2>1, Shapes DEF HeadOf, Events, Sleeps
<1>3. CASE o = "save"
  <2>1. s = <<"OFF">>
    BY <1>3, RestOf
  <2> QED
    BY <1>3, <2>1, Shapes DEF HeadOf, Events, Sleeps
<1>4. CASE o = "wake"
  <2>1. s = <<"ON">>
    BY <1>4, RestOf
  <2> QED
    BY <1>4, <2>1, Shapes DEF HeadOf, Events, Sleeps
<1>5. CASE o = "interrupt"
  <2>1. s = <<"INTERRUPT">>
    BY <1>5, RestOf
  <2> QED
    BY <1>5, <2>1, Shapes DEF HeadOf, Events, Sleeps
<1>6. CASE o = "restart"
  <2>1. s = <<"DEINIT", "INIT">> \/ s = <<"INIT">>
    BY <1>6, RestOf
  <2>2. CASE s = <<"DEINIT", "INIT">>
    BY <1>6, <2>2, Shapes DEF HeadOf, Events, Sleeps
  <2>3. CASE s = <<"INIT">>
    BY <1>6, <2>3, Shapes DEF HeadOf, Events, Sleeps
  <2> QED
    BY <2>1, <2>2, <2>3
<1>7. CASE o = "standby"
  <2>1. s = <<"SUSPEND", "RESUME">> \/ s = <<"RESUME">>
    BY <1>7, RestOf
  <2>2. CASE s = <<"SUSPEND", "RESUME">>
    BY <1>7, <2>2, Shapes DEF HeadOf, Events, Sleeps
  <2>3. CASE s = <<"RESUME">>
    BY <1>7, <2>3, Shapes DEF HeadOf, Events, Sleeps
  <2> QED
    BY <2>1, <2>2, <2>3
<1>8. CASE o = "light"
  <2>1. s = <<"SUSPEND", "DEINIT", "INIT">> \/ s = <<"DEINIT", "INIT">> \/ s = <<"INIT">>
    BY <1>8, RestOf
  <2>2. CASE s = <<"SUSPEND", "DEINIT", "INIT">>
    BY <1>8, <2>2, Shapes DEF HeadOf, Events, Sleeps
  <2>3. CASE s = <<"DEINIT", "INIT">>
    BY <1>8, <2>3, Shapes DEF HeadOf, Events, Sleeps
  <2>4. CASE s = <<"INIT">>
    BY <1>8, <2>4, Shapes DEF HeadOf, Events, Sleeps
  <2> QED
    BY <2>1, <2>2, <2>3, <2>4
<1>9. CASE o = "deep"
  <2>1. s = <<"SUSPEND", "DEINIT">> \/ s = <<"DEINIT">>
    BY <1>9, RestOf
  <2>2. CASE s = <<"SUSPEND", "DEINIT">>
    BY <1>9, <2>2, Shapes DEF HeadOf, Events, Sleeps
  <2>3. CASE s = <<"DEINIT">>
    BY <1>9, <2>3, Shapes DEF HeadOf, Events, Sleeps
  <2> QED
    BY <2>1, <2>2, <2>3
<1> QED
  BY <1>1, <1>2, <1>3, <1>4, <1>5, <1>6, <1>7, <1>8, <1>9, RestOf

\* Which callback comes after which.
LEMMA RestNext ==
  ASSUME NEW o \in AllOps, NEW s \in Rest[o], s # <<>>
  PROVE  /\ HeadOf(Tail(s)) = "INIT" => HeadOf(s) = "DEINIT"
         /\ HeadOf(Tail(s)) = "RESUME" => HeadOf(s) = "SUSPEND"
         /\ HeadOf(Tail(s)) # "SUSPEND"
<1>1. CASE o = "none"
  <2>1. s = <<>>
    BY <1>1, RestOf
  <2> QED
    BY <1>1, <2>1, RestOf, Shapes DEF HeadOf
<1>2. CASE o = "capture"
  <2>1. s = <<>>
    BY <1>2, RestOf
  <2> QED
    BY <1>2, <2>1, RestOf, Shapes DEF HeadOf
<1>3. CASE o = "save"
  <2>1. s = <<"OFF">>
    BY <1>3, RestOf
  <2> QED
    BY <1>3, <2>1, RestOf, Shapes DEF HeadOf
<1>4. CASE o = "wake"
  <2>1. s = <<"ON">>
    BY <1>4, RestOf
  <2> QED
    BY <1>4, <2>1, RestOf, Shapes DEF HeadOf
<1>5. CASE o = "interrupt"
  <2>1. s = <<"INTERRUPT">>
    BY <1>5, RestOf
  <2> QED
    BY <1>5, <2>1, RestOf, Shapes DEF HeadOf
<1>6. CASE o = "restart"
  <2>1. s = <<"DEINIT", "INIT">> \/ s = <<"INIT">>
    BY <1>6, RestOf
  <2>2. CASE s = <<"DEINIT", "INIT">>
    BY <1>6, <2>2, RestOf, Shapes DEF HeadOf
  <2>3. CASE s = <<"INIT">>
    BY <1>6, <2>3, RestOf, Shapes DEF HeadOf
  <2> QED
    BY <2>1, <2>2, <2>3
<1>7. CASE o = "standby"
  <2>1. s = <<"SUSPEND", "RESUME">> \/ s = <<"RESUME">>
    BY <1>7, RestOf
  <2>2. CASE s = <<"SUSPEND", "RESUME">>
    BY <1>7, <2>2, RestOf, Shapes DEF HeadOf
  <2>3. CASE s = <<"RESUME">>
    BY <1>7, <2>3, RestOf, Shapes DEF HeadOf
  <2> QED
    BY <2>1, <2>2, <2>3
<1>8. CASE o = "light"
  <2>1. s = <<"SUSPEND", "DEINIT", "INIT">> \/ s = <<"DEINIT", "INIT">> \/ s = <<"INIT">>
    BY <1>8, RestOf
  <2>2. CASE s = <<"SUSPEND", "DEINIT", "INIT">>
    BY <1>8, <2>2, RestOf, Shapes DEF HeadOf
  <2>3. CASE s = <<"DEINIT", "INIT">>
    BY <1>8, <2>3, RestOf, Shapes DEF HeadOf
  <2>4. CASE s = <<"INIT">>
    BY <1>8, <2>4, RestOf, Shapes DEF HeadOf
  <2> QED
    BY <2>1, <2>2, <2>3, <2>4
<1>9. CASE o = "deep"
  <2>1. s = <<"SUSPEND", "DEINIT">> \/ s = <<"DEINIT">>
    BY <1>9, RestOf
  <2>2. CASE s = <<"SUSPEND", "DEINIT">>
    BY <1>9, <2>2, RestOf, Shapes DEF HeadOf
  <2>3. CASE s = <<"DEINIT">>
    BY <1>9, <2>3, RestOf, Shapes DEF HeadOf
  <2> QED
    BY <2>1, <2>2, <2>3
<1> QED
  BY <1>1, <1>2, <1>3, <1>4, <1>5, <1>6, <1>7, <1>8, <1>9, RestOf

\* Where a caller can be: its label, its operation and the callbacks left to make.
Fits(l, o, s) ==
  /\ l = "free" <=> o = "none"
  /\ l \in CaptureLabels <=> o = "capture"
  /\ l \in {"suspending", "device"} => HeadOf(s) \in {"SUSPEND", "OFF"}
  /\ l = "stop" => HeadOf(s) \in {"SUSPEND", "OFF", "INTERRUPT", "DEINIT"}
  /\ l \in {"reset", "arm", "confirm"} => HeadOf(s) \in {"ON", "RESUME"}

MidLabels == {"suspending", "stop", "device", "reset", "arm", "confirm"}

\* Every caller is where its operation can be, and holds the lock in a callback.
CallInv ==
  /\ pc \in [Threads -> Labels] /\ op \in [Threads -> AllOps] /\ DOMAIN todo = Threads
  /\ todo = [t \in Threads |-> todo[t]]
  /\ serviceLock \in Threads \cup {Nobody}
  /\ \A t \in Threads : /\ op[t] \in Ops[t] \cup {"none"} /\ todo[t] \in Rest[op[t]]
                        /\ Fits(pc[t], op[t], todo[t])
                        /\ pc[t] \in MidLabels => serviceLock = t
  /\ \A t, u \in Threads : op[t] \in Sleeps /\ op[u] \in Sleeps => t = u

\* Nobody moves but t.
Only(t) ==
  \A u \in Threads \ {t} : pc'[u] = pc[u] /\ op'[u] = op[u] /\ todo'[u] = todo[u]

\* A caller that moves on keeps the invariant if it is in place again.
LEMMA Moved ==
  ASSUME CallInv, NEW t \in Threads, NEW l \in Labels, NEW o \in Ops[t] \cup {"none"},
         NEW s \in Rest[o], Fits(l, o, s),
         pc' = [pc EXCEPT ![t] = l], op' = [op EXCEPT ![t] = o], todo' = [todo EXCEPT ![t] = s],
         l \in MidLabels => serviceLock' = t,
         \/ serviceLock' = serviceLock
         \/ serviceLock \in {t, Nobody} /\ serviceLock' \in {t, Nobody},
         o \in Sleeps => op[t] \in Sleeps \/ \A u \in Threads : op[u] \notin Sleeps
  PROVE  CallInv' /\ Only(t)
<1> o \in AllOps
  BY CameraAssumption DEF CameraAssumption, AllOps
<1> Nobody \notin Threads
  BY CameraAssumption DEF CameraAssumption
<1>1. /\ pc' \in [Threads -> Labels] /\ op' \in [Threads -> AllOps]
      /\ DOMAIN todo' = Threads /\ todo' = [u \in Threads |-> todo'[u]]
  BY DEF CallInv
<1>2. pc'[t] = l /\ op'[t] = o /\ todo'[t] = s
  BY DEF CallInv
<1>3. Only(t)
  BY DEF CallInv, Only
<1>7. \A u \in Threads \ {t} : pc'[u] = pc[u] /\ op'[u] = op[u] /\ todo'[u] = todo[u]
  BY <1>3 DEF Only
<1>4. serviceLock' \in Threads \cup {Nobody}
  BY DEF CallInv
<1>5. ASSUME NEW u \in Threads
      PROVE  /\ op'[u] \in Ops[u] \cup {"none"} /\ todo'[u] \in Rest[op'[u]]
             /\ Fits(pc'[u], op'[u], todo'[u])
             /\ pc'[u] \in MidLabels => serviceLock' = u
  <2>1. CASE u = t
    BY <2>1, <1>2
  <2>2. CASE u # t
    <3>1. pc[u] \in MidLabels => serviceLock = u
      BY DEF CallInv
    <3> QED
      BY <2>2, <1>7, <3>1 DEF CallInv
  <2> QED
    BY <2>1, <2>2
<1>6. ASSUME NEW u \in Threads, NEW v \in Threads, op'[u] \in Sleeps, op'[v] \in Sleeps
      PROVE  u = v
  BY <1>2, <1>7, <1>6 DEF CallInv
<1> QED
  BY <1>1, <1>3, <1>4, <1>5, <1>6 DEF CallInv

\* What a caller's place tells of its callback.
LEMMA Placed ==
  ASSUME CallInv, NEW t \in Threads
  PROVE  /\ op[t] \in AllOps /\ todo[t] \in Rest[op[t]] /\ Call(t) = HeadOf(todo[t])
         /\ Call(t) \in Events \cup {"none"}
         /\ pc[t] \in MidLabels \/ (pc[t] = "lock" /\ Call(t) # "none") => todo[t] # <<>>
         /\ todo[t] # <<>> => op[t] \notin {"none", "capture"} /\ op[t] \in Ops[t]
<1>1. op[t] \in AllOps /\ todo[t] \in Rest[op[t]] /\ Call(t) = HeadOf(todo[t])
  BY DEF CallInv, Call, HeadOf
<1>2. Fits(pc[t], op[t], todo[t]) /\ op[t] \in Ops[t] \cup {"none"}
  BY DEF CallInv
<1>3. /\ HeadOf(todo[t]) \in Events \cup {"none"} /\ (HeadOf(todo[t]) = "none" <=> todo[t] = <<>>)
      /\ todo[t] = <<>> <=> op[t] \in {"none", "capture"}
  BY <1>1, RestHead
<1>4. pc[t] \in MidLabels => HeadOf(todo[t]) # "none"
  BY <1>2 DEF Fits, MidLabels
<1> QED
  BY <1>1, <1>2, <1>3, <1>4

\* Only the REPL thread makes these callbacks, and who suspends is alone in a sleep.
LEMMA WhoCalls ==
  ASSUME CallInv, NEW t \in Threads
  PROVE  /\ Call(t) \in {"OFF", "ON", "INIT", "RESUME"} => t = Repl
         /\ Call(t) = "INIT" => todo[t] = <<"INIT">>
         /\ Call(t) = "RESUME" => todo[t] = <<"RESUME">>
         /\ Call(t) \in {"SUSPEND", "RESUME"} => op[t] \in Sleeps
<1>1. /\ op[t] \in AllOps /\ todo[t] \in Rest[op[t]] /\ Call(t) = HeadOf(todo[t])
      /\ todo[t] # <<>> => op[t] \in Ops[t]
  BY Placed
<1>2. t # Repl => Ops[t] \subseteq {"interrupt", "deep"}
  BY CameraAssumption DEF CameraAssumption
<1>3. /\ HeadOf(todo[t]) = "none" <=> todo[t] = <<>>
      /\ HeadOf(todo[t]) = "OFF" => op[t] = "save"
      /\ HeadOf(todo[t]) = "ON" => op[t] = "wake"
      /\ HeadOf(todo[t]) = "INIT" => op[t] \in {"restart", "light"} /\ todo[t] = <<"INIT">>
      /\ HeadOf(todo[t]) = "RESUME" => op[t] = "standby" /\ todo[t] = <<"RESUME">>
      /\ HeadOf(todo[t]) = "SUSPEND" => op[t] \in Sleeps
  BY <1>1, RestHead
<1> QED
  BY <1>1, <1>2, <1>3 DEF Sleeps

\* A callback returns.
LEMMA ReturnKeeps ==
  ASSUME CallInv, NEW t \in Threads, Return(t), todo[t] # <<>>, serviceLock \in {t, Nobody}
  PROVE  /\ CallInv' /\ Only(t)
         /\ pc'[t] \in {"lock", "free"} /\ (pc'[t] = "lock" => todo'[t] # <<>>)
         /\ todo'[t] = Tail(todo[t])
<1>1. /\ op[t] \in AllOps /\ todo[t] \in Rest[op[t]] /\ op[t] \notin {"none", "capture"}
      /\ op[t] \in Ops[t]
  BY Placed
<1>2. /\ Len(todo[t]) > 1 => Tail(todo[t]) \in Rest[op[t]] /\ Tail(todo[t]) # <<>>
      /\ ~(Len(todo[t]) > 1) => Tail(todo[t]) = <<>>
  BY <1>1, RestTail
<1>3. serviceLock' = Nobody /\ todo' = [todo EXCEPT ![t] = Tail(todo[t])]
  BY DEF Return
<1>4. CASE Len(todo[t]) > 1
  <2>1. pc' = [pc EXCEPT ![t] = "lock"] /\ op' = [op EXCEPT ![t] = op[t]]
    BY <1>4 DEF Return, Goto
  <2>2. Fits("lock", op[t], Tail(todo[t]))
    BY <1>1 DEF Fits, CaptureLabels
  <2>3. CallInv' /\ Only(t)
    BY <1>1, <1>2, <1>3, <1>4, <2>1, <2>2, Moved DEF Labels, MidLabels
  <2> QED
    BY <1>2, <1>3, <1>4, <2>1, <2>3 DEF CallInv
<1>5. CASE ~(Len(todo[t]) > 1)
  <2>1. pc' = [pc EXCEPT ![t] = "free"] /\ op' = [op EXCEPT ![t] = "none"]
    BY <1>5 DEF Return, Goto
  <2>2. Fits("free", "none", <<>>) /\ <<>> \in Rest["none"]
    BY RestOf DEF Fits, CaptureLabels
  <2>3. CallInv' /\ Only(t)
    BY <1>1, <1>2, <1>3, <1>5, <2>1, <2>2, Moved DEF Labels, MidLabels, Sleeps
  <2> QED
    BY <1>2, <1>3, <1>5, <2>1, <2>3 DEF CallInv
<1> QED
  BY <1>4, <1>5

\* A callback fails.
LEMMA FailKeeps ==
  ASSUME CallInv, NEW t \in Threads, Fail(t), serviceLock \in {t, Nobody}
  PROVE  CallInv' /\ Only(t) /\ pc'[t] = "free" /\ todo'[t] = <<>>
<1>1. /\ serviceLock' = Nobody /\ todo' = [todo EXCEPT ![t] = <<>>]
      /\ pc' = [pc EXCEPT ![t] = "free"] /\ op' = [op EXCEPT ![t] = "none"]
  BY DEF Fail, Goto
<1>2. Fits("free", "none", <<>>) /\ <<>> \in Rest["none"]
  BY RestOf DEF Fits, CaptureLabels
<1>3. CallInv' /\ Only(t)
  BY <1>1, <1>2, Moved DEF Labels, MidLabels, Sleeps
<1> QED
  BY <1>1, <1>3 DEF CallInv

\* A caller in a callback goes on in it.
LEMMA HoldKeeps ==
  ASSUME CallInv, NEW t \in Threads, NEW l \in MidLabels, Goto(t, l), UNCHANGED <<op, todo>>,
         pc[t] \in MidLabels \cup {"lock"}, Fits(l, op[t], todo[t]),
         serviceLock \in {t, Nobody}, serviceLock' = t
  PROVE  CallInv' /\ Only(t) /\ pc'[t] = l /\ todo'[t] = todo[t]
<1>1. pc' = [pc EXCEPT ![t] = l]
  BY DEF Goto
<1>2. op' = [op EXCEPT ![t] = op[t]] /\ todo' = [todo EXCEPT ![t] = todo[t]]
  BY DEF CallInv
<1>3. todo[t] \in Rest[op[t]] /\ op[t] \in Ops[t] \cup {"none"} /\ l \in Labels
  BY DEF CallInv, Labels, MidLabels
<1>4. CallInv' /\ Only(t)
  <2> DEFINE o == op[t]
             s == todo[t]
  <2>1. /\ o \in Ops[t] \cup {"none"} /\ s \in Rest[o] /\ Fits(l, o, s)
        /\ op' = [op EXCEPT ![t] = o] /\ todo' = [todo EXCEPT ![t] = s]
        /\ (o \in Sleeps => op[t] \in Sleeps)
    BY <1>2, <1>3
  <2> HIDE DEF o, s
  <2> QED
    BY <1>1, <1>3, <2>1, Moved
<1> QED
  BY <1>1, <1>4 DEF CallInv

\* Nobody enters, leaves or goes on in a callback.
Calm ==
  \A u \in Threads :
    \/ pc'[u] = pc[u] /\ todo'[u] = todo[u]
    \/ /\ pc[u] \notin MidLabels /\ pc'[u] \notin MidLabels
       /\ HeadOf(todo'[u]) \notin {"INIT", "RESUME"}

\* A step of a capture.
LEMMA CaptureKeeps ==
  ASSUME CallInv, NEW t \in Threads, NEW from \in CaptureLabels,
         NEW to \in CaptureLabels \cup {"free"}, CapturePc(t, from, to)
  PROVE  CallInv' /\ Calm
<1>1. /\ pc' = [pc EXCEPT ![t] = to] /\ todo' = todo /\ serviceLock' = serviceLock
      /\ op' = [op EXCEPT ![t] = IF to = "free" THEN "none" ELSE op[t]]
      /\ pc[t] \in CaptureLabels
  BY DEF CapturePc, Goto, regVars
<1>2. op[t] = "capture" /\ op[t] \in Ops[t] \cup {"none"} /\ todo[t] \in Rest[op[t]]
  BY <1>1 DEF CallInv, Fits
<1>3. todo[t] = <<>> /\ todo' = [todo EXCEPT ![t] = <<>>]
  BY <1>1, <1>2, RestOf DEF CallInv
<1>4. to \in Labels /\ to \notin MidLabels /\ (to = "free" <=> to \notin CaptureLabels)
  BY DEF Labels, MidLabels, CaptureLabels
<1>5. ASSUME to = "free" PROVE CallInv'
  <2>1. Fits("free", "none", <<>>) /\ <<>> \in Rest["none"]
    BY RestOf DEF Fits, CaptureLabels
  <2> QED
    BY <1>1, <1>3, <1>4, <1>5, <2>1, Moved DEF Sleeps
<1>6. ASSUME to # "free" PROVE CallInv'
  <2>1. Fits(to, "capture", <<>>) /\ <<>> \in Rest["capture"]
    BY <1>4, <1>6, RestOf DEF Fits, CaptureLabels
  <2>2. op' = [op EXCEPT ![t] = "capture"]
    BY <1>1, <1>2, <1>6
  <2> QED
    BY <1>1, <1>2, <1>3, <1>4, <1>6, <2>1, <2>2, Moved DEF Sleeps
<1>7. Calm
  <2>1. todo'[t] = <<>> /\ pc'[t] \notin MidLabels /\ pc[t] \notin MidLabels
    BY <1>1, <1>3, <1>4 DEF CallInv, CaptureLabels, MidLabels
  <2>2. \A u \in Threads \ {t} : pc'[u] = pc[u] /\ todo'[u] = todo[u]
    BY <1>1 DEF CallInv
  <2> QED
    BY <2>1, <2>2 DEF Calm, HeadOf
<1> QED
  BY <1>5, <1>6, <1>7

\* Every step of a capture is one of these.
LEMMA CaptureCalls ==
  ASSUME CallInv, NEW t \in Threads, CaptureStep(t)
  PROVE  CallInv' /\ Calm
<1>1. PICK from \in CaptureLabels, to \in CaptureLabels \cup {"free"} : CapturePc(t, from, to)
  BY DEF CaptureStep, CaptureCheck, CaptureWait, CaptureStart, CaptureFormat, CaptureAlloc,
         CaptureTrigger, CaptureLabels
<1> QED
  BY <1>1, CaptureKeeps

\* A call begins.
LEMMA BeginKeeps ==
  ASSUME CallInv, NEW t \in Threads, NEW o \in DOMAIN Calls, Begin(t, o)
  PROVE  CallInv' /\ Calm
<1> DEFINE l == IF o = "capture" THEN "check" ELSE "lock"
<1>1. /\ pc' = [pc EXCEPT ![t] = l] /\ op' = [op EXCEPT ![t] = o]
      /\ todo' = [todo EXCEPT ![t] = Calls[o]] /\ serviceLock' = serviceLock
      /\ pc[t] = "free" /\ o \in Ops[t]
      /\ (o \in Sleeps => \A u \in Threads : op[u] \notin Sleeps)
  BY DEF Begin, Goto, Wanted, regVars
<1>2. Calls[o] \in Rest[o]
  BY RestBegins
<1>3. l \in Labels /\ l \notin MidLabels /\ Fits(l, o, Calls[o])
  <2>1. o # "none"
    BY DEF Calls
  <2> QED
    BY <2>1 DEF Labels, MidLabels, CaptureLabels, Fits
<1> HIDE DEF l
<1>4. CallInv'
  BY <1>1, <1>2, <1>3, Moved
<1>5. HeadOf(Calls[o]) \notin {"INIT", "RESUME"}
  <2>1. Calls[o] \notin {<<"INIT">>, <<"RESUME">>}
    BY CallsNew
  <2>2. o \in AllOps
    BY DEF AllOps
  <2> QED
    BY <1>2, <2>1, <2>2, RestHead
<1>6. /\ pc'[t] \notin MidLabels /\ pc[t] \notin MidLabels /\ todo'[t] = Calls[o]
      /\ \A u \in Threads \ {t} : pc'[u] = pc[u] /\ todo'[u] = todo[u]
  BY <1>1, <1>3 DEF CallInv, MidLabels
<1> QED
  BY <1>4, <1>5, <1>6 DEF Calm

\* The capture thread makes no call.
LEMMA CapCalls ==
  ASSUME CallInv, CapStep \/ UNCHANGED vars
  PROVE  CallInv' /\ Calm /\ serviceLock' = serviceLock
<1>1. UNCHANGED <<pc, op, todo, serviceLock>>
  BY DEF CapStep, Top, Taken, Stream, Dequeue, LastFrame, Process, Publish, StreamReset,
         WakeResume, Woken, WakeSuspend, Slept, CapFrame, callVars, vars, regVars
<1> QED
  BY <1>1 DEF CallInv, Calm

\* While t may have the lock, nobody else is in a callback.
LEMMA Alone ==
  ASSUME CallInv, NEW t \in Threads, serviceLock \in {t, Nobody}
  PROVE  \A u \in Threads \ {t} : pc[u] \notin MidLabels
BY CameraAssumption DEF CameraAssumption, CallInv

\* The lock is with t once it is in a callback.
LEMMA Locked ==
  ASSUME CallInv, NEW t \in Threads,
         pc[t] \in MidLabels \/ serviceLock = Nobody
  PROVE  serviceLock \in {t, Nobody}
BY DEF CallInv

\* What a step of t in a callback keeps.
Kept(t) == CallInv' /\ Only(t) /\ serviceLock \in {t, Nobody} /\ todo[t] # <<>>

\* Every step of a callback keeps the invariant of the calls.
LEMMA CallbackKeeps ==
  ASSUME CallInv, NEW t \in Threads, CleanupStep(t) \/ SuspendStep(t) \/ ResumeStep(t)
  PROVE  Kept(t)
<1> USE DEF MidLabels
<1>0. Fits(pc[t], op[t], todo[t]) /\ Call(t) = HeadOf(todo[t])
  BY Placed DEF CallInv
<1>1. ASSUME Return(t), serviceLock \in {t, Nobody}, todo[t] # <<>> PROVE Kept(t)
  BY <1>1, ReturnKeeps DEF Kept
<1>2. ASSUME Fail(t), serviceLock \in {t, Nobody}, todo[t] # <<>> PROVE Kept(t)
  BY <1>2, FailKeeps DEF Kept
<1>3. ASSUME NEW l \in MidLabels, Goto(t, l), UNCHANGED <<op, todo>>, Fits(l, op[t], todo[t]),
             pc[t] \in MidLabels \cup {"lock"}, todo[t] # <<>>,
             serviceLock \in {t, Nobody}, serviceLock' = t
      PROVE  Kept(t)
  BY <1>3, HoldKeeps DEF Kept
<1>4. ASSUME NEW e, Enter(t, e), e # "none"
      PROVE  serviceLock \in {t, Nobody} /\ todo[t] # <<>> /\ pc[t] = "lock" /\ Call(t) = e
  BY <1>4, Placed DEF Enter
<1>5. pc[t] \in MidLabels => serviceLock \in {t, Nobody} /\ todo[t] # <<>> /\ serviceLock = t
  BY Placed, Locked DEF CallInv
<1>6. ASSUME NEW l \in MidLabels, op[t] \notin {"none", "capture"},
             l \in {"suspending", "device"} => Call(t) \in {"SUSPEND", "OFF"},
             l = "stop" => Call(t) \in {"SUSPEND", "OFF", "INTERRUPT", "DEINIT"},
             l \in {"reset", "arm", "confirm"} => Call(t) \in {"ON", "RESUME"}
      PROVE  Fits(l, op[t], todo[t])
  BY <1>0, <1>6 DEF Fits, CaptureLabels
<1>7. todo[t] # <<>> => op[t] \notin {"none", "capture"}
  BY Placed
<1>11. CASE CleanupBegin(t)
  BY <1>11, <1>3, <1>4, <1>6, <1>7 DEF CleanupBegin
<1>12. CASE CleanupDone(t)
  <2>1. pc[t] = "stop"
    BY <1>12 DEF CleanupDone, Stopped, Joined, AbortWaiting
  <2> QED
    BY <1>12, <2>1, <1>1, <1>5 DEF CleanupDone
<1>13. CASE CleanupUnclean(t)
  BY <1>13, <1>1, <1>5 DEF CleanupUnclean, AbortCapturing
<1>14. CASE Initialize(t)
  BY <1>14, <1>1, <1>4 DEF Initialize
<1>15. CASE SuspendBegin(t)
  <2>1. /\ serviceLock \in {t, Nobody} /\ todo[t] # <<>> /\ pc[t] = "lock"
        /\ Call(t) \in {"SUSPEND", "OFF"}
    BY <1>15, <1>4 DEF SuspendBegin
  <2>2. CASE isActive
    BY <1>15, <2>1, <2>2, <1>3, <1>6, <1>7 DEF SuspendBegin
  <2>3. CASE ~isActive
    BY <1>15, <2>1, <2>3, <1>1 DEF SuspendBegin
  <2> QED
    BY <2>2, <2>3
<1>16. CASE SuspendCancels(t)
  BY <1>16, <1>1, <1>5 DEF SuspendCancels
<1>17. CASE SuspendStops(t)
  <2>1. pc[t] = "suspending" /\ Call(t) \in {"SUSPEND", "OFF"}
    BY <1>17, <1>0 DEF SuspendStops, Fits
  <2> QED
    BY <1>17, <2>1, <1>3, <1>5, <1>6, <1>7 DEF SuspendStops
<1>18. CASE SuspendStopped(t)
  <2>1. pc[t] = "stop"
    BY <1>18 DEF SuspendStopped, Stopped, Joined, AbortWaiting
  <2> QED
    BY <1>18, <2>1, <1>3, <1>5, <1>6, <1>7 DEF SuspendStopped, regVars
<1>19. CASE SuspendUnclean(t)
  BY <1>19, <1>2, <1>5 DEF SuspendUnclean, AbortCapturing, Refuse
<1>20. CASE SuspendDevice(t)
  BY <1>20, <1>1, <1>2, <1>5 DEF SuspendDevice, Refuse
<1>21. CASE ResumeSkipped(t)
  BY <1>21, <1>1, <1>4 DEF ResumeSkipped
<1>22. CASE ResumeKeepsWake(t)
  <2>1. /\ serviceLock \in {t, Nobody} /\ todo[t] # <<>> /\ pc[t] = "lock"
        /\ Call(t) \in {"ON", "RESUME"}
    BY <1>22, <1>4 DEF ResumeKeepsWake, Resumes
  <2>2. CASE Call(t) = "ON"
    BY <1>22, <2>1, <2>2, <1>3, <1>6, <1>7 DEF ResumeKeepsWake
  <2>3. CASE Call(t) # "ON"
    BY <1>22, <2>1, <2>3, <1>1 DEF ResumeKeepsWake
  <2> QED
    BY <2>2, <2>3
<1>23. CASE ResumeStart(t)
  <2>1. /\ serviceLock \in {t, Nobody} /\ todo[t] # <<>> /\ pc[t] = "lock"
        /\ Call(t) \in {"ON", "RESUME"}
    BY <1>23, <1>4 DEF ResumeStart, Resumes
  <2> QED
    BY <1>23, <2>1, <1>3, <1>6, <1>7 DEF ResumeStart
<1>24. CASE ResumeReset(t) \/ ResumeArms(t)
  <2>1. pc[t] \in {"reset", "arm"} /\ Call(t) \in {"ON", "RESUME"}
    BY <1>24, <1>0 DEF ResumeReset, ResumeArms, Fits
  <2> QED
    BY <1>24, <2>1, <1>3, <1>5, <1>6, <1>7 DEF ResumeReset, ResumeArms, regVars
<1>25. CASE ResumeConfirm(t)
  BY <1>25, <1>1, <1>5 DEF ResumeConfirm
<1> QED
  BY <1>11, <1>12, <1>13, <1>14, <1>15, <1>16, <1>17, <1>18, <1>19, <1>20, <1>21, <1>22, <1>23,
     <1>24, <1>25 DEF CleanupStep, SuspendStep, ResumeStep

\* Every step keeps the invariant of the calls; those in no callback are calm.
LEMMA CallStep ==
  ASSUME CallInv, [Next]_vars
  PROVE  CallInv'
<1>1. CASE \E t \in Threads : ThreadStep(t)
  BY <1>1, CaptureCalls, CallbackKeeps DEF ThreadStep, Kept
<1>2. CASE \E t \in Threads : \E o \in DOMAIN Calls : Begin(t, o)
  BY <1>2, BeginKeeps
<1>3. CASE CapStep \/ UNCHANGED vars
  BY <1>3, CapCalls
<1> QED
  BY <1>1, <1>2, <1>3 DEF Next

\* No caller is in a callback at first.
LEMMA CallInit == Init => CallInv
<1> SUFFICES ASSUME Init PROVE CallInv
  OBVIOUS
<1>1. \A t \in Threads : Fits(pc[t], op[t], todo[t]) /\ todo[t] \in Rest[op[t]]
  BY RestOf DEF Init, Fits, CaptureLabels
<1>2. "none" \in AllOps /\ "free" \in Labels /\ "free" \notin MidLabels /\ "none" \notin Sleeps
  BY DEF AllOps, Labels, MidLabels, Sleeps
<1> QED
  BY <1>1, <1>2 DEF Init, CallInv

(***************************************************************************)
(* Who is in a callback that suspends or confirms.                         *)
(***************************************************************************)
\* t suspends an active camera.
Suspends(t) == pc[t] = "device" \/ (pc[t] = "stop" /\ Call(t) \in {"SUSPEND", "OFF"})
Suspending == \E t \in Threads : Suspends(t)

\* A power_save(false) or a system resume has started a wake and has still to say so.
Confirming == \E t \in Threads : pc[t] = "confirm"

\* Only the caller in a callback can be.
LEMMA Phase ==
  ASSUME CallInv, NEW t \in Threads, Kept(t)
  PROVE  /\ Suspending <=> Suspends(t)
         /\ Confirming <=> pc[t] = "confirm"
         /\ Suspending' <=> Suspends(t)'
         /\ Confirming' <=> pc'[t] = "confirm"
<1>1. \A u \in Threads \ {t} : pc[u] \notin MidLabels /\ pc'[u] = pc[u]
  BY Alone DEF Kept, Only
<1> QED
  BY <1>1 DEF Suspending, Suspends, Confirming, MidLabels

\* A step outside the callbacks starts and ends none.
LEMMA CalmPhase ==
  ASSUME Calm
  PROVE  (Suspending' <=> Suspending) /\ (Confirming' <=> Confirming)
<1>1. \A u \in Threads : /\ Suspends(u)' <=> Suspends(u)
                         /\ pc'[u] = "confirm" <=> pc[u] = "confirm"
  BY DEF Calm, Suspends, Call, MidLabels
<1> QED
  BY <1>1 DEF Suspending, Confirming

\* What a step makes of the two: before, and after.
Phases(s, c, t, d) ==
  (Suspending <=> s) /\ (Confirming <=> c) /\ (Suspending' <=> t) /\ (Confirming' <=> d)

\* A callback that ends is neither.
LEMMA Ended ==
  ASSUME CallInv, NEW t \in Threads, Return(t) \/ Fail(t)
  PROVE  pc'[t] \in {"lock", "free"}
BY DEF Return, Fail, Goto, CallInv

\* Every callback step's phases.
LEMMA CallbackPhase ==
  ASSUME CallInv, NEW t \in Threads
  PROVE  /\ CleanupBegin(t) => Kept(t) /\ Phases(FALSE, FALSE, FALSE, FALSE)
         /\ CleanupDone(t) => Kept(t) /\ Phases(FALSE, FALSE, FALSE, FALSE)
         /\ CleanupUnclean(t) => Kept(t) /\ Phases(FALSE, FALSE, FALSE, FALSE)
         /\ Initialize(t) => Kept(t) /\ Phases(FALSE, FALSE, FALSE, FALSE)
         /\ SuspendBegin(t) => Kept(t) /\ Phases(FALSE, FALSE, FALSE, FALSE)
         /\ SuspendCancels(t) => Kept(t) /\ Phases(FALSE, FALSE, FALSE, FALSE)
         /\ SuspendStops(t) => Kept(t) /\ Phases(FALSE, FALSE, TRUE, FALSE)
         /\ SuspendStopped(t) => Kept(t) /\ Phases(TRUE, FALSE, TRUE, FALSE)
         /\ SuspendUnclean(t) => Kept(t) /\ Phases(TRUE, FALSE, FALSE, FALSE)
         /\ SuspendDevice(t) => Kept(t) /\ Phases(TRUE, FALSE, FALSE, FALSE)
         /\ ResumeSkipped(t) => Kept(t) /\ Phases(FALSE, FALSE, FALSE, FALSE)
         /\ ResumeKeepsWake(t) => Kept(t) /\ Phases(FALSE, FALSE, FALSE, Call(t) = "ON")
         /\ ResumeStart(t) => Kept(t) /\ Phases(FALSE, FALSE, FALSE, FALSE)
         /\ ResumeReset(t) => Kept(t) /\ Phases(FALSE, FALSE, FALSE, FALSE)
         /\ ResumeArms(t) => Kept(t) /\ Phases(FALSE, FALSE, FALSE, TRUE)
         /\ ResumeConfirm(t) => Kept(t) /\ Phases(FALSE, TRUE, FALSE, FALSE)
<1> USE DEF Suspends, Goto, MidLabels
<1>1. Fits(pc[t], op[t], todo[t]) /\ Call(t) = HeadOf(todo[t])
  BY Placed DEF CallInv
<1>2. pc \in [Threads -> Labels]
  BY DEF CallInv
<1>3. CleanupStep(t) \/ SuspendStep(t) \/ ResumeStep(t) => Kept(t)
  BY CallbackKeeps
<1>4. ASSUME Kept(t)
      PROVE  /\ Suspending <=> Suspends(t)
             /\ Confirming <=> pc[t] = "confirm"
             /\ Suspending' <=> Suspends(t)'
             /\ Confirming' <=> pc'[t] = "confirm"
  BY <1>4, Phase
<1>5. Return(t) \/ Fail(t) => pc'[t] \in {"lock", "free"}
  BY Ended
<1>11. ASSUME CleanupBegin(t) PROVE Kept(t) /\ Phases(FALSE, FALSE, FALSE, FALSE)
  <2>1. Kept(t)
    BY <1>11, <1>3 DEF CleanupStep
  <2> QED
    BY <1>11, <2>1, <1>1, <1>2, <1>4, <1>5 DEF Phases, CleanupBegin, Enter, Call
<1>12. ASSUME CleanupDone(t) PROVE Kept(t) /\ Phases(FALSE, FALSE, FALSE, FALSE)
  <2>1. Kept(t)
    BY <1>12, <1>3 DEF CleanupStep
  <2> QED
    BY <1>12, <2>1, <1>1, <1>2, <1>4, <1>5 DEF Phases, CleanupDone, Stopped, Joined, AbortWaiting
<1>13. ASSUME CleanupUnclean(t) PROVE Kept(t) /\ Phases(FALSE, FALSE, FALSE, FALSE)
  <2>1. Kept(t)
    BY <1>13, <1>3 DEF CleanupStep
  <2> QED
    BY <1>13, <2>1, <1>1, <1>2, <1>4, <1>5 DEF Phases, CleanupUnclean, AbortCapturing
<1>14. ASSUME Initialize(t) PROVE Kept(t) /\ Phases(FALSE, FALSE, FALSE, FALSE)
  <2>1. Kept(t)
    BY <1>14, <1>3 DEF CleanupStep
  <2> QED
    BY <1>14, <2>1, <1>1, <1>2, <1>4, <1>5 DEF Phases, Initialize, Enter
<1>15. ASSUME SuspendBegin(t) PROVE Kept(t) /\ Phases(FALSE, FALSE, FALSE, FALSE)
  <2>1. Kept(t)
    BY <1>15, <1>3 DEF SuspendStep
  <2> QED
    BY <1>15, <2>1, <1>1, <1>2, <1>4, <1>5 DEF Phases, SuspendBegin, Enter
<1>16. ASSUME SuspendCancels(t) PROVE Kept(t) /\ Phases(FALSE, FALSE, FALSE, FALSE)
  <2>1. Kept(t)
    BY <1>16, <1>3 DEF SuspendStep
  <2> QED
    BY <1>16, <2>1, <1>1, <1>2, <1>4, <1>5 DEF Phases, SuspendCancels
<1>17. ASSUME SuspendStops(t) PROVE Kept(t) /\ Phases(FALSE, FALSE, TRUE, FALSE)
  <2>1. Kept(t)
    BY <1>17, <1>3 DEF SuspendStep
  <2> QED
    BY <1>17, <2>1, <1>1, <1>2, <1>4, <1>5 DEF Phases, SuspendStops, Fits, Call, HeadOf
<1>18. ASSUME SuspendStopped(t) PROVE Kept(t) /\ Phases(TRUE, FALSE, TRUE, FALSE)
  <2>1. Kept(t)
    BY <1>18, <1>3 DEF SuspendStep
  <2> QED
    BY <1>18, <2>1, <1>1, <1>2, <1>4, <1>5 DEF Phases, SuspendStopped, Stopped, Joined,
                                               AbortWaiting, Call
<1>19. ASSUME SuspendUnclean(t) PROVE Kept(t) /\ Phases(TRUE, FALSE, FALSE, FALSE)
  <2>1. Kept(t)
    BY <1>19, <1>3 DEF SuspendStep
  <2> QED
    BY <1>19, <2>1, <1>1, <1>2, <1>4, <1>5 DEF Phases, SuspendUnclean, AbortCapturing, Refuse
<1>20. ASSUME SuspendDevice(t) PROVE Kept(t) /\ Phases(TRUE, FALSE, FALSE, FALSE)
  <2>1. Kept(t)
    BY <1>20, <1>3 DEF SuspendStep
  <2> QED
    BY <1>20, <2>1, <1>1, <1>2, <1>4, <1>5 DEF Phases, SuspendDevice, Refuse
<1>21. ASSUME ResumeSkipped(t) PROVE Kept(t) /\ Phases(FALSE, FALSE, FALSE, FALSE)
  <2>1. Kept(t)
    BY <1>21, <1>3 DEF ResumeStep
  <2> QED
    BY <1>21, <2>1, <1>1, <1>2, <1>4, <1>5 DEF Phases, ResumeSkipped, Enter
<1>22. ASSUME ResumeKeepsWake(t) PROVE Kept(t) /\ Phases(FALSE, FALSE, FALSE, Call(t) = "ON")
  <2>1. Kept(t)
    BY <1>22, <1>3 DEF ResumeStep
  <2> QED
    BY <1>22, <2>1, <1>1, <1>2, <1>4, <1>5 DEF Phases, ResumeKeepsWake, Resumes, Enter
<1>23. ASSUME ResumeStart(t) PROVE Kept(t) /\ Phases(FALSE, FALSE, FALSE, FALSE)
  <2>1. Kept(t)
    BY <1>23, <1>3 DEF ResumeStep
  <2> QED
    BY <1>23, <2>1, <1>1, <1>2, <1>4, <1>5 DEF Phases, ResumeStart, Resumes, Enter
<1>25. ASSUME ResumeReset(t) PROVE Kept(t) /\ Phases(FALSE, FALSE, FALSE, FALSE)
  <2>1. Kept(t)
    BY <1>25, <1>3 DEF ResumeStep
  <2> QED
    BY <1>25, <2>1, <1>1, <1>2, <1>4, <1>5 DEF Phases, ResumeReset
<1>26. ASSUME ResumeArms(t) PROVE Kept(t) /\ Phases(FALSE, FALSE, FALSE, TRUE)
  <2>1. Kept(t)
    BY <1>26, <1>3 DEF ResumeStep
  <2> QED
    BY <1>26, <2>1, <1>1, <1>2, <1>4, <1>5 DEF Phases, ResumeArms
<1>24. ASSUME ResumeConfirm(t) PROVE Kept(t) /\ Phases(FALSE, TRUE, FALSE, FALSE)
  <2>1. Kept(t)
    BY <1>24, <1>3 DEF ResumeStep
  <2> QED
    BY <1>24, <2>1, <1>1, <1>2, <1>4, <1>5 DEF Phases, ResumeConfirm
<1> QED
  BY <1>11, <1>12, <1>13, <1>14, <1>15, <1>16, <1>17, <1>18, <1>19, <1>20, <1>21, <1>22, <1>23,
     <1>24, <1>25, <1>26

(***************************************************************************)
(* Type correctness.                                                       *)
(***************************************************************************)
\* The types of what is not a caller's.
RegTypes == isActive \in BOOLEAN /\ needsResume \in BOOLEAN /\ initialized \in BOOLEAN
ThrTypes == tid \in BOOLEAN /\ shouldExit \in BOOLEAN /\ captureSem \in {0, 1} /\ cap \in CapLabels
BufTypes == ready \in BOOLEAN /\ vbuf \in BOOLEAN /\ formatted \in BOOLEAN /\ queued \in BOOLEAN
WakeTypes ==
  /\ wakePending \in BOOLEAN /\ waking \in BOOLEAN /\ wakeCancel \in BOOLEAN
  /\ wakeError \in BOOLEAN /\ up \in BOOLEAN
HistTypes ==
  /\ aborted \in BOOLEAN /\ refused \in BOOLEAN /\ dropped \in BOOLEAN /\ wasActive \in BOOLEAN
  /\ poweringOff \in BOOLEAN
BoundTypes == left \in [Threads -> Nat] /\ faults \in Nat
StateTypes == RegTypes /\ ThrTypes /\ BufTypes /\ WakeTypes /\ HistTypes /\ BoundTypes

\* Every step keeps the types of the registry, the thread and the buffers.
LEMMA StepTypes ==
  ASSUME RegTypes, ThrTypes, BufTypes, [Next]_vars
  PROVE  RegTypes' /\ ThrTypes' /\ BufTypes'
<1> USE DEF regVars, thrVars, bufVars, wakeVars, callVars, boundVars, histVars, RegTypes,
            ThrTypes, BufTypes, CapLabels
<1>1. CASE Top
  BY <1>1 DEF Top, Cap, CapFrame
<1>2. CASE Taken
  BY <1>2 DEF Taken, Cap, CapFrame
<1>3. CASE Stream
  BY <1>3 DEF Stream, Cap, CapFrame
<1>4. CASE Dequeue
  BY <1>4 DEF Dequeue, Cap, CapFrame
<1>5. CASE LastFrame
  BY <1>5 DEF LastFrame, Cap, CapFrame
<1>6. CASE Process
  BY <1>6 DEF Process, Cap, CapFrame
<1>7. CASE StreamReset
  BY <1>7 DEF StreamReset, Cap, CapFrame
<1>8. CASE WakeResume
  BY <1>8 DEF WakeResume, Cap, CapFrame
<1>9. CASE Woken
  BY <1>9 DEF Woken, Cap, CapFrame
<1>10. CASE WakeSuspend
  BY <1>10 DEF WakeSuspend, Cap, DeviceSuspend, CapFrame
<1>11. CASE Slept
  BY <1>11 DEF Slept, Cap, CapFrame
<1>12. CASE \E t \in Threads : CaptureStep(t)
  <2> PICK t \in Threads : CaptureStep(t)
    BY <1>12
  <2>1. CASE CaptureCheck(t)
    BY <2>1 DEF CaptureCheck, CapturePc
  <2>2. CASE CaptureWait(t)
    BY <2>2 DEF CaptureWait, CapturePc
  <2>3. CASE CaptureStart(t)
    <3>1. CASE tid
      BY <2>3, <3>1 DEF CaptureStart, ThreadStart, CapturePc
    <3>2. CASE ~tid
      BY <2>3, <3>2 DEF CaptureStart, ThreadStart, CapturePc
    <3> QED
      BY <3>1, <3>2
  <2>4. CASE CaptureFormat(t)
    <3>1. RegTypes'
      BY Zenon, <2>4 DEF CaptureFormat, CapturePc
    <3>2. ThrTypes'
      BY SMTT(30), <2>4 DEF CaptureFormat, CapturePc
    <3>3. BufTypes'
      BY <2>4 DEF CaptureFormat, CapturePc
    <3> QED
      BY <3>1, <3>2, <3>3
  <2>5. CASE CaptureAlloc(t)
    <3>1. RegTypes'
      BY Zenon, <2>5 DEF CaptureAlloc, CapturePc
    <3>2. ThrTypes'
      BY SMTT(30), <2>5 DEF CaptureAlloc, CapturePc
    <3>3. BufTypes'
      BY <2>5 DEF CaptureAlloc, CapturePc
    <3> QED
      BY <3>1, <3>2, <3>3
  <2>6. CASE CaptureTrigger(t)
    BY <2>6 DEF CaptureTrigger, CapturePc
  <2> QED
    BY <2>1, <2>2, <2>3, <2>4, <2>5, <2>6 DEF CaptureStep
<1>13. CASE \E t \in Threads : CleanupStep(t)
  <2> PICK t \in Threads : CleanupStep(t)
    BY <1>13
  <2>1. CASE CleanupBegin(t)
    <3>1. CASE tid
      BY <2>1, <3>1 DEF CleanupBegin, Signal
    <3>2. CASE ~tid
      BY <2>1, <3>2 DEF CleanupBegin, Signal
    <3> QED
      BY <3>1, <3>2
  <2>2. CASE CleanupDone(t)
    BY <2>2 DEF CleanupDone, Stopped, Joined, AbortWaiting, Hangs, DropWake, Deinitialized
  <2>3. CASE CleanupUnclean(t)
    BY <2>3 DEF CleanupUnclean, AbortCapturing, Hangs, DropWake, Deinitialized
  <2>4. CASE Initialize(t)
    BY <2>4 DEF Initialize, DeviceSuspend
  <2> QED
    BY <2>1, <2>2, <2>3, <2>4 DEF CleanupStep
<1>14. CASE \E t \in Threads : SuspendStep(t)
  <2> PICK t \in Threads : SuspendStep(t)
    BY <1>14
  <2>1. CASE SuspendBegin(t)
    BY <2>1 DEF SuspendBegin
  <2>2. CASE SuspendCancels(t)
    BY <2>2 DEF SuspendCancels
  <2>3. CASE SuspendStops(t)
    BY <2>3 DEF SuspendStops, Signal
  <2>4. CASE SuspendStopped(t)
    BY <2>4 DEF SuspendStopped, Stopped, Joined, AbortWaiting, Hangs
  <2>5. CASE SuspendUnclean(t)
    BY <2>5 DEF SuspendUnclean, AbortCapturing, Hangs, Refuse
  <2>6. CASE SuspendDevice(t)
    <3>1. RegTypes'
      BY Zenon, <2>6 DEF SuspendDevice, Refuse
    <3>2. ThrTypes' /\ BufTypes'
      BY <2>6 DEF SuspendDevice
    <3> QED
      BY <3>1, <3>2
  <2> QED
    BY <2>1, <2>2, <2>3, <2>4, <2>5, <2>6 DEF SuspendStep
<1>15. CASE \E t \in Threads : ResumeStep(t)
  <2> PICK t \in Threads : ResumeStep(t)
    BY <1>15
  <2>1. CASE ResumeSkipped(t)
    BY <2>1 DEF ResumeSkipped
  <2>2. CASE ResumeKeepsWake(t)
    BY <2>2 DEF ResumeKeepsWake
  <2>3. CASE ResumeStart(t)
    <3>1. CASE tid
      BY <2>3, <3>1 DEF ResumeStart
    <3>2. CASE ~tid
      BY <2>3, <3>2 DEF ResumeStart, ThreadStart
    <3> QED
      BY <3>1, <3>2
  <2>4. CASE ResumeConfirm(t)
    BY <2>4 DEF ResumeConfirm
  <2>5. CASE ResumeReset(t)
    BY <2>5 DEF ResumeReset
  <2>6. CASE ResumeArms(t)
    BY <2>6 DEF ResumeArms
  <2> QED
    BY <2>1, <2>2, <2>3, <2>4, <2>5, <2>6 DEF ResumeStep
<1>16. CASE \E t \in Threads : \E o \in DOMAIN Calls : Begin(t, o)
  BY <1>16 DEF Begin
<1>17. CASE UNCHANGED vars
  BY <1>17 DEF vars
<1>18. CASE Publish
  BY <1>18 DEF Publish, Cap, CapFrame
<1> QED
  BY <1>1, <1>2, <1>3, <1>4, <1>5, <1>6, <1>7, <1>8, <1>9, <1>10, <1>11, <1>12, <1>13, <1>14,
     <1>15, <1>16, <1>17, <1>18
     DEF Next, ThreadStep, CapStep

\* Every step keeps the types of the wake and of the histories.
LEMMA StepWakeTypes ==
  ASSUME RegTypes, WakeTypes, HistTypes, [Next]_vars
  PROVE  WakeTypes' /\ HistTypes'
<1> USE DEF regVars, thrVars, bufVars, wakeVars, callVars, boundVars, histVars, RegTypes,
            WakeTypes, HistTypes
<1>1. CASE Top
  BY <1>1 DEF Top, Cap, CapFrame
<1>2. CASE Taken
  BY <1>2 DEF Taken, Cap, CapFrame
<1>3. CASE Stream
  BY <1>3 DEF Stream, Cap, CapFrame
<1>4. CASE Dequeue
  BY <1>4 DEF Dequeue, Cap, CapFrame
<1>5. CASE LastFrame
  BY <1>5 DEF LastFrame, Cap, CapFrame
<1>6. CASE Process
  BY <1>6 DEF Process, Cap, CapFrame
<1>7. CASE StreamReset
  BY <1>7 DEF StreamReset, Cap, CapFrame
<1>8. CASE WakeResume
  BY <1>8 DEF WakeResume, Cap, CapFrame
<1>9. CASE Woken
  BY <1>9 DEF Woken, Cap, CapFrame
<1>10. CASE WakeSuspend
  BY <1>10 DEF WakeSuspend, Cap, DeviceSuspend, CapFrame
<1>11. CASE Slept
  BY <1>11 DEF Slept, Cap, CapFrame
<1>12. CASE \E t \in Threads : CaptureStep(t)
  <2> PICK t \in Threads : CaptureStep(t)
    BY <1>12
  <2>1. CASE CaptureCheck(t)
    BY <2>1 DEF CaptureCheck, CapturePc
  <2>2. CASE CaptureWait(t)
    BY <2>2 DEF CaptureWait, CapturePc
  <2>3. CASE CaptureStart(t)
    BY <2>3 DEF CaptureStart, ThreadStart, CapturePc
  <2>4. CASE CaptureFormat(t)
    BY <2>4 DEF CaptureFormat, CapturePc
  <2>5. CASE CaptureAlloc(t)
    BY <2>5 DEF CaptureAlloc, CapturePc
  <2>6. CASE CaptureTrigger(t)
    BY <2>6 DEF CaptureTrigger, CapturePc
  <2> QED
    BY <2>1, <2>2, <2>3, <2>4, <2>5, <2>6 DEF CaptureStep
<1>13. CASE \E t \in Threads : CleanupStep(t)
  <2> PICK t \in Threads : CleanupStep(t)
    BY <1>13
  <2>1. CASE CleanupBegin(t)
    BY <2>1 DEF CleanupBegin, Signal
  <2>2. CASE CleanupDone(t)
    BY <2>2 DEF CleanupDone, Stopped, Joined, AbortWaiting, Hangs, DropWake, Deinitialized
  <2>3. CASE CleanupUnclean(t)
    BY <2>3 DEF CleanupUnclean, AbortCapturing, Hangs, DropWake, Deinitialized
  <2>4. CASE Initialize(t)
    BY <2>4 DEF Initialize, DeviceSuspend
  <2> QED
    BY <2>1, <2>2, <2>3, <2>4 DEF CleanupStep
<1>14. CASE \E t \in Threads : SuspendStep(t)
  <2> PICK t \in Threads : SuspendStep(t)
    BY <1>14
  <2>1. CASE SuspendBegin(t)
    BY <2>1 DEF SuspendBegin
  <2>2. CASE SuspendCancels(t)
    BY <2>2 DEF SuspendCancels
  <2>3. CASE SuspendStops(t)
    BY <2>3 DEF SuspendStops, Signal
  <2>4. CASE SuspendStopped(t)
    BY <2>4 DEF SuspendStopped, Stopped, Joined, AbortWaiting, Hangs
  <2>5. CASE SuspendUnclean(t)
    BY <2>5 DEF SuspendUnclean, AbortCapturing, Hangs, Refuse
  <2>6. CASE SuspendDevice(t)
    BY <2>6 DEF SuspendDevice, DeviceSuspend, Refuse
  <2> QED
    BY <2>1, <2>2, <2>3, <2>4, <2>5, <2>6 DEF SuspendStep
<1>15. CASE \E t \in Threads : ResumeStep(t)
  <2> PICK t \in Threads : ResumeStep(t)
    BY <1>15
  <2>1. CASE ResumeSkipped(t)
    BY <2>1 DEF ResumeSkipped
  <2>2. CASE ResumeKeepsWake(t)
    BY <2>2 DEF ResumeKeepsWake
  <2>3. CASE ResumeStart(t)
    BY <2>3 DEF ResumeStart, ThreadStart
  <2>4. CASE ResumeConfirm(t)
    BY <2>4 DEF ResumeConfirm
  <2>5. CASE ResumeReset(t)
    BY <2>5 DEF ResumeReset
  <2>6. CASE ResumeArms(t)
    BY <2>6 DEF ResumeArms
  <2> QED
    BY <2>1, <2>2, <2>3, <2>4, <2>5, <2>6 DEF ResumeStep
<1>16. CASE \E t \in Threads : \E o \in DOMAIN Calls : Begin(t, o)
  BY <1>16 DEF Begin
<1>17. CASE UNCHANGED vars
  BY <1>17 DEF vars
<1>18. CASE Publish
  BY <1>18 DEF Publish, Cap, CapFrame
<1> QED
  BY <1>1, <1>2, <1>3, <1>4, <1>5, <1>6, <1>7, <1>8, <1>9, <1>10, <1>11, <1>12, <1>13, <1>14,
     <1>15, <1>16, <1>17, <1>18
     DEF Next, ThreadStep, CapStep

\* Every step keeps the types of the bounds.
LEMMA StepBoundTypes ==
  ASSUME BoundTypes, [Next]_vars
  PROVE  BoundTypes'
<1> USE DEF regVars, thrVars, bufVars, wakeVars, callVars, boundVars, histVars, BoundTypes
<1>1. CASE Top
  BY <1>1 DEF Top, Cap, CapFrame
<1>2. CASE Taken
  BY <1>2 DEF Taken, Cap, CapFrame
<1>3. CASE Stream
  <2>1. Fault \/ UNCHANGED boundVars
    BY <1>3 DEF Stream
  <2> QED
    BY <2>1 DEF Fault
<1>4. CASE Dequeue
  BY <1>4 DEF Dequeue, Cap, Fault, CapFrame
<1>5. CASE LastFrame
  BY <1>5 DEF LastFrame, Cap, CapFrame
<1>6. CASE Process
  BY <1>6 DEF Process, Cap, Fault, CapFrame
<1>7. CASE StreamReset
  BY <1>7 DEF StreamReset, Cap, CapFrame
<1>8. CASE WakeResume
  BY <1>8 DEF WakeResume, Cap, Fault, CapFrame
<1>9. CASE Woken
  BY <1>9 DEF Woken, Cap, CapFrame
<1>10. CASE WakeSuspend
  BY <1>10 DEF WakeSuspend, Cap, DeviceSuspend, Fault, CapFrame
<1>11. CASE Slept
  BY <1>11 DEF Slept, Cap, CapFrame
<1>12. CASE \E t \in Threads : CaptureStep(t)
  <2> PICK t \in Threads : CaptureStep(t)
    BY <1>12
  <2>1. CASE CaptureCheck(t)
    BY <2>1 DEF CaptureCheck, CapturePc
  <2>2. CASE CaptureWait(t)
    BY <2>2 DEF CaptureWait, CapturePc
  <2>3. CASE CaptureStart(t)
    BY <2>3 DEF CaptureStart, ThreadStart, CapturePc
  <2>4. CASE CaptureFormat(t)
    BY <2>4 DEF CaptureFormat, Fault, CapturePc
  <2>5. CASE CaptureAlloc(t)
    BY <2>5 DEF CaptureAlloc, Fault, CapturePc
  <2>6. CASE CaptureTrigger(t)
    BY <2>6 DEF CaptureTrigger, CapturePc
  <2> QED
    BY <2>1, <2>2, <2>3, <2>4, <2>5, <2>6 DEF CaptureStep
<1>13. CASE \E t \in Threads : CleanupStep(t)
  <2> PICK t \in Threads : CleanupStep(t)
    BY <1>13
  <2>1. CASE CleanupBegin(t)
    BY <2>1 DEF CleanupBegin, Signal
  <2>2. CASE CleanupDone(t)
    BY <2>2 DEF CleanupDone, Stopped, Joined, AbortWaiting, Hangs, Fault, DropWake, Deinitialized
  <2>3. CASE CleanupUnclean(t)
    BY <2>3 DEF CleanupUnclean, AbortCapturing, Hangs, Fault, DropWake, Deinitialized
  <2>4. CASE Initialize(t)
    BY <2>4 DEF Initialize, DeviceSuspend, Fault
  <2> QED
    BY <2>1, <2>2, <2>3, <2>4 DEF CleanupStep
<1>14. CASE \E t \in Threads : SuspendStep(t)
  <2> PICK t \in Threads : SuspendStep(t)
    BY <1>14
  <2>1. CASE SuspendBegin(t)
    BY <2>1 DEF SuspendBegin
  <2>2. CASE SuspendCancels(t)
    BY <2>2 DEF SuspendCancels
  <2>3. CASE SuspendStops(t)
    BY <2>3 DEF SuspendStops, Signal
  <2>4. CASE SuspendStopped(t)
    BY <2>4 DEF SuspendStopped, Stopped, Joined, AbortWaiting, Hangs, Fault
  <2>5. CASE SuspendUnclean(t)
    BY <2>5 DEF SuspendUnclean, AbortCapturing, Hangs, Fault, Refuse
  <2>6. CASE SuspendDevice(t)
    BY <2>6 DEF SuspendDevice, DeviceSuspend, Fault, Refuse
  <2> QED
    BY <2>1, <2>2, <2>3, <2>4, <2>5, <2>6 DEF SuspendStep
<1>15. CASE \E t \in Threads : ResumeStep(t)
  <2> PICK t \in Threads : ResumeStep(t)
    BY <1>15
  <2>1. CASE ResumeSkipped(t)
    BY <2>1 DEF ResumeSkipped
  <2>2. CASE ResumeKeepsWake(t)
    BY <2>2 DEF ResumeKeepsWake
  <2>3. CASE ResumeStart(t)
    BY <2>3 DEF ResumeStart, ThreadStart
  <2>4. CASE ResumeConfirm(t)
    BY <2>4 DEF ResumeConfirm
  <2>5. CASE ResumeReset(t)
    BY <2>5 DEF ResumeReset
  <2>6. CASE ResumeArms(t)
    BY <2>6 DEF ResumeArms
  <2> QED
    BY <2>1, <2>2, <2>3, <2>4, <2>5, <2>6 DEF ResumeStep
<1>16. CASE \E t \in Threads : \E o \in DOMAIN Calls : Begin(t, o)
  BY <1>16 DEF Begin
<1>17. CASE UNCHANGED vars
  BY <1>17 DEF vars
<1>18. CASE Publish
  BY <1>18 DEF Publish, Cap, CapFrame
<1> QED
  BY <1>1, <1>2, <1>3, <1>4, <1>5, <1>6, <1>7, <1>8, <1>9, <1>10, <1>11, <1>12, <1>13, <1>14,
     <1>15, <1>16, <1>17, <1>18
     DEF Next, ThreadStep, CapStep

(***************************************************************************)
(* The capture thread, the buffer, the frame.                              *)
(***************************************************************************)
\* A capture thread that runs is known.
ThreadInv == cap # "none" => tid

\* The driver holds the buffer only while a capture streams, or after one was aborted.
QueueInv == queued => aborted \/ cap \in {"dequeue", "cancel", "error"}

\* Every step keeps track of the thread.
LEMMA StepThread ==
  ASSUME ThreadInv, [Next]_vars
  PROVE  ThreadInv'
<1> USE DEF regVars, thrVars, bufVars, wakeVars, callVars, boundVars, histVars, ThreadInv
<1>1. CASE Top
  BY <1>1 DEF Top, Cap, CapFrame
<1>2. CASE Taken
  BY <1>2 DEF Taken, Cap, CapFrame
<1>3. CASE Stream
  BY <1>3 DEF Stream, Cap, CapFrame
<1>4. CASE Dequeue
  BY <1>4 DEF Dequeue, Cap, CapFrame
<1>5. CASE LastFrame
  BY <1>5 DEF LastFrame, Cap, CapFrame
<1>6. CASE Process
  BY <1>6 DEF Process, Cap, CapFrame
<1>7. CASE StreamReset
  BY <1>7 DEF StreamReset, Cap, CapFrame
<1>8. CASE WakeResume
  BY <1>8 DEF WakeResume, Cap, CapFrame
<1>9. CASE Woken
  BY <1>9 DEF Woken, Cap, CapFrame
<1>10. CASE WakeSuspend
  BY <1>10 DEF WakeSuspend, Cap, DeviceSuspend, CapFrame
<1>11. CASE Slept
  BY <1>11 DEF Slept, Cap, CapFrame
<1>12. CASE \E t \in Threads : CaptureStep(t)
  <2> PICK t \in Threads : CaptureStep(t)
    BY <1>12
  <2>1. CASE CaptureCheck(t)
    BY <2>1 DEF CaptureCheck, CapturePc
  <2>2. CASE CaptureWait(t)
    BY <2>2 DEF CaptureWait, CapturePc
  <2>3. CASE CaptureStart(t)
    BY <2>3 DEF CaptureStart, ThreadStart, CapturePc
  <2>4. CASE CaptureFormat(t)
    BY <2>4 DEF CaptureFormat, CapturePc
  <2>5. CASE CaptureAlloc(t)
    BY <2>5 DEF CaptureAlloc, CapturePc
  <2>6. CASE CaptureTrigger(t)
    BY <2>6 DEF CaptureTrigger, CapturePc
  <2> QED
    BY <2>1, <2>2, <2>3, <2>4, <2>5, <2>6 DEF CaptureStep
<1>13. CASE \E t \in Threads : CleanupStep(t)
  <2> PICK t \in Threads : CleanupStep(t)
    BY <1>13
  <2>1. CASE CleanupBegin(t)
    BY <2>1 DEF CleanupBegin, Signal
  <2>2. CASE CleanupDone(t)
    BY <2>2 DEF CleanupDone, Stopped, Joined, AbortWaiting, Hangs
  <2>3. CASE CleanupUnclean(t)
    BY <2>3 DEF CleanupUnclean, AbortCapturing, Hangs
  <2>4. CASE Initialize(t)
    BY <2>4 DEF Initialize, DeviceSuspend
  <2> QED
    BY <2>1, <2>2, <2>3, <2>4 DEF CleanupStep
<1>14. CASE \E t \in Threads : SuspendStep(t)
  <2> PICK t \in Threads : SuspendStep(t)
    BY <1>14
  <2>1. CASE SuspendBegin(t)
    BY <2>1 DEF SuspendBegin
  <2>2. CASE SuspendCancels(t)
    BY <2>2 DEF SuspendCancels
  <2>3. CASE SuspendStops(t)
    BY <2>3 DEF SuspendStops, Signal
  <2>4. CASE SuspendStopped(t)
    BY <2>4 DEF SuspendStopped, Stopped, Joined, AbortWaiting, Hangs
  <2>5. CASE SuspendUnclean(t)
    BY <2>5 DEF SuspendUnclean, AbortCapturing, Hangs
  <2>6. CASE SuspendDevice(t)
    BY <2>6 DEF SuspendDevice, DeviceSuspend
  <2> QED
    BY <2>1, <2>2, <2>3, <2>4, <2>5, <2>6 DEF SuspendStep
<1>15. CASE \E t \in Threads : ResumeStep(t)
  <2> PICK t \in Threads : ResumeStep(t)
    BY <1>15
  <2>1. CASE ResumeSkipped(t)
    BY <2>1 DEF ResumeSkipped
  <2>2. CASE ResumeKeepsWake(t)
    BY <2>2 DEF ResumeKeepsWake
  <2>3. CASE ResumeStart(t)
    BY <2>3 DEF ResumeStart, ThreadStart
  <2>4. CASE ResumeConfirm(t)
    BY <2>4 DEF ResumeConfirm
  <2>5. CASE ResumeReset(t)
    BY <2>5 DEF ResumeReset
  <2>6. CASE ResumeArms(t)
    BY <2>6 DEF ResumeArms
  <2> QED
    BY <2>1, <2>2, <2>3, <2>4, <2>5, <2>6 DEF ResumeStep
<1>16. CASE \E t \in Threads : \E o \in DOMAIN Calls : Begin(t, o)
  BY <1>16 DEF Begin
<1>17. CASE UNCHANGED vars
  BY <1>17 DEF vars
<1>18. CASE Publish
  BY <1>18 DEF Publish, Cap, CapFrame
<1> QED
  BY <1>1, <1>2, <1>3, <1>4, <1>5, <1>6, <1>7, <1>8, <1>9, <1>10, <1>11, <1>12, <1>13, <1>14,
     <1>15, <1>16, <1>17, <1>18
     DEF Next, ThreadStep, CapStep

\* Every step keeps the frame from being offered while the next is taken.
LEMMA StepReady ==
  ASSUME ThreadInv, ReadyMeansStill, [Next]_vars
  PROVE  ReadyMeansStill'
<1> USE DEF regVars, thrVars, bufVars, wakeVars, callVars, boundVars, histVars, ThreadInv,
            ReadyMeansStill
<1>1. CASE Top
  BY <1>1 DEF Top, Cap, CapFrame
<1>2. CASE Taken
  BY <1>2 DEF Taken, Cap, CapFrame
<1>3. CASE Stream
  BY <1>3 DEF Stream, Cap, CapFrame
<1>4. CASE Dequeue
  BY <1>4 DEF Dequeue, Cap, CapFrame
<1>5. CASE LastFrame
  BY <1>5 DEF LastFrame, Cap, CapFrame
<1>6. CASE Process
  BY <1>6 DEF Process, Cap, CapFrame
<1>7. CASE StreamReset
  BY <1>7 DEF StreamReset, Cap, CapFrame
<1>8. CASE WakeResume
  BY <1>8 DEF WakeResume, Cap, CapFrame
<1>9. CASE Woken
  BY <1>9 DEF Woken, Cap, CapFrame
<1>10. CASE WakeSuspend
  BY <1>10 DEF WakeSuspend, Cap, DeviceSuspend, CapFrame
<1>11. CASE Slept
  BY <1>11 DEF Slept, Cap, CapFrame
<1>12. CASE \E t \in Threads : CaptureStep(t)
  <2> PICK t \in Threads : CaptureStep(t)
    BY <1>12
  <2>1. CASE CaptureCheck(t)
    BY <2>1 DEF CaptureCheck, CapturePc
  <2>2. CASE CaptureWait(t)
    BY <2>2 DEF CaptureWait, CapturePc
  <2>3. CASE CaptureStart(t)
    BY <2>3 DEF CaptureStart, ThreadStart, CapturePc
  <2>4. CASE CaptureFormat(t)
    BY <2>4 DEF CaptureFormat, CapturePc
  <2>5. CASE CaptureAlloc(t)
    BY <2>5 DEF CaptureAlloc, CapturePc
  <2>6. CASE CaptureTrigger(t)
    BY <2>6 DEF CaptureTrigger, CapturePc
  <2> QED
    BY <2>1, <2>2, <2>3, <2>4, <2>5, <2>6 DEF CaptureStep
<1>13. CASE \E t \in Threads : CleanupStep(t)
  <2> PICK t \in Threads : CleanupStep(t)
    BY <1>13
  <2>1. CASE CleanupBegin(t)
    BY <2>1 DEF CleanupBegin, Signal
  <2>2. CASE CleanupDone(t)
    BY <2>2 DEF CleanupDone, Stopped, Joined, AbortWaiting, Hangs
  <2>3. CASE CleanupUnclean(t)
    BY <2>3 DEF CleanupUnclean, AbortCapturing, Hangs
  <2>4. CASE Initialize(t)
    BY <2>4 DEF Initialize, DeviceSuspend
  <2> QED
    BY <2>1, <2>2, <2>3, <2>4 DEF CleanupStep
<1>14. CASE \E t \in Threads : SuspendStep(t)
  <2> PICK t \in Threads : SuspendStep(t)
    BY <1>14
  <2>1. CASE SuspendBegin(t)
    BY <2>1 DEF SuspendBegin
  <2>2. CASE SuspendCancels(t)
    BY <2>2 DEF SuspendCancels
  <2>3. CASE SuspendStops(t)
    BY <2>3 DEF SuspendStops, Signal
  <2>4. CASE SuspendStopped(t)
    BY <2>4 DEF SuspendStopped, Stopped, Joined, AbortWaiting, Hangs
  <2>5. CASE SuspendUnclean(t)
    BY <2>5 DEF SuspendUnclean, AbortCapturing, Hangs
  <2>6. CASE SuspendDevice(t)
    BY <2>6 DEF SuspendDevice, DeviceSuspend
  <2> QED
    BY <2>1, <2>2, <2>3, <2>4, <2>5, <2>6 DEF SuspendStep
<1>15. CASE \E t \in Threads : ResumeStep(t)
  <2> PICK t \in Threads : ResumeStep(t)
    BY <1>15
  <2>1. CASE ResumeSkipped(t)
    BY <2>1 DEF ResumeSkipped
  <2>2. CASE ResumeKeepsWake(t)
    BY <2>2 DEF ResumeKeepsWake
  <2>3. CASE ResumeStart(t)
    BY <2>3 DEF ResumeStart, ThreadStart
  <2>4. CASE ResumeConfirm(t)
    BY <2>4 DEF ResumeConfirm
  <2>5. CASE ResumeReset(t)
    BY <2>5 DEF ResumeReset
  <2>6. CASE ResumeArms(t)
    BY <2>6 DEF ResumeArms
  <2> QED
    BY <2>1, <2>2, <2>3, <2>4, <2>5, <2>6 DEF ResumeStep
<1>16. CASE \E t \in Threads : \E o \in DOMAIN Calls : Begin(t, o)
  BY <1>16 DEF Begin
<1>17. CASE UNCHANGED vars
  BY <1>17 DEF vars
<1>18. CASE Publish
  BY <1>18 DEF Publish, Cap, CapFrame
<1> QED
  BY <1>1, <1>2, <1>3, <1>4, <1>5, <1>6, <1>7, <1>8, <1>9, <1>10, <1>11, <1>12, <1>13, <1>14,
     <1>15, <1>16, <1>17, <1>18
     DEF Next, ThreadStep, CapStep

\* Every step keeps track of the buffer.
LEMMA StepQueue ==
  ASSUME ThreadInv, QueueInv, HistTypes, BufTypes, [Next]_vars
  PROVE  QueueInv'
<1> USE DEF regVars, thrVars, bufVars, wakeVars, callVars, boundVars, histVars, ThreadInv,
            QueueInv, HistTypes, BufTypes
<1>1. CASE Top
  BY <1>1 DEF Top, Cap, CapFrame
<1>2. CASE Taken
  BY <1>2 DEF Taken, Cap, CapFrame
<1>3. CASE Stream
  BY <1>3 DEF Stream, Cap, CapFrame
<1>4. CASE Dequeue
  BY <1>4 DEF Dequeue, Cap, CapFrame
<1>5. CASE LastFrame
  BY <1>5 DEF LastFrame, Cap, CapFrame
<1>6. CASE Process
  BY <1>6 DEF Process, Cap, CapFrame
<1>7. CASE StreamReset
  BY <1>7 DEF StreamReset, Cap, CapFrame
<1>8. CASE WakeResume
  BY <1>8 DEF WakeResume, Cap, CapFrame
<1>9. CASE Woken
  BY <1>9 DEF Woken, Cap, CapFrame
<1>10. CASE WakeSuspend
  BY <1>10 DEF WakeSuspend, Cap, DeviceSuspend, CapFrame
<1>11. CASE Slept
  BY <1>11 DEF Slept, Cap, CapFrame
<1>12. CASE \E t \in Threads : CaptureStep(t)
  <2> PICK t \in Threads : CaptureStep(t)
    BY <1>12
  <2>1. CASE CaptureCheck(t)
    BY <2>1 DEF CaptureCheck, CapturePc
  <2>2. CASE CaptureWait(t)
    BY <2>2 DEF CaptureWait, CapturePc
  <2>3. CASE CaptureStart(t)
    BY <2>3 DEF CaptureStart, ThreadStart, CapturePc
  <2>4. CASE CaptureFormat(t)
    BY <2>4 DEF CaptureFormat, CapturePc
  <2>5. CASE CaptureAlloc(t)
    BY <2>5 DEF CaptureAlloc, CapturePc
  <2>6. CASE CaptureTrigger(t)
    BY <2>6 DEF CaptureTrigger, CapturePc
  <2> QED
    BY <2>1, <2>2, <2>3, <2>4, <2>5, <2>6 DEF CaptureStep
<1>13. CASE \E t \in Threads : CleanupStep(t)
  <2> PICK t \in Threads : CleanupStep(t)
    BY <1>13
  <2>1. CASE CleanupBegin(t)
    BY <2>1 DEF CleanupBegin, Signal
  <2>2. CASE CleanupDone(t)
    BY <2>2 DEF CleanupDone, Stopped, Joined, AbortWaiting, Hangs
  <2>3. CASE CleanupUnclean(t)
    BY <2>3 DEF CleanupUnclean, AbortCapturing, Hangs
  <2>4. CASE Initialize(t)
    BY <2>4 DEF Initialize, DeviceSuspend
  <2> QED
    BY <2>1, <2>2, <2>3, <2>4 DEF CleanupStep
<1>14. CASE \E t \in Threads : SuspendStep(t)
  <2> PICK t \in Threads : SuspendStep(t)
    BY <1>14
  <2>1. CASE SuspendBegin(t)
    BY <2>1 DEF SuspendBegin
  <2>2. CASE SuspendCancels(t)
    BY <2>2 DEF SuspendCancels
  <2>3. CASE SuspendStops(t)
    BY <2>3 DEF SuspendStops, Signal
  <2>4. CASE SuspendStopped(t)
    BY <2>4 DEF SuspendStopped, Stopped, Joined, AbortWaiting, Hangs
  <2>5. CASE SuspendUnclean(t)
    BY <2>5 DEF SuspendUnclean, AbortCapturing, Hangs
  <2>6. CASE SuspendDevice(t)
    BY <2>6 DEF SuspendDevice, DeviceSuspend
  <2> QED
    BY <2>1, <2>2, <2>3, <2>4, <2>5, <2>6 DEF SuspendStep
<1>15. CASE \E t \in Threads : ResumeStep(t)
  <2> PICK t \in Threads : ResumeStep(t)
    BY <1>15
  <2>1. CASE ResumeSkipped(t)
    BY <2>1 DEF ResumeSkipped
  <2>2. CASE ResumeKeepsWake(t)
    BY <2>2 DEF ResumeKeepsWake
  <2>3. CASE ResumeStart(t)
    BY <2>3 DEF ResumeStart, ThreadStart
  <2>4. CASE ResumeConfirm(t)
    BY <2>4 DEF ResumeConfirm
  <2>5. CASE ResumeReset(t)
    BY <2>5 DEF ResumeReset
  <2>6. CASE ResumeArms(t)
    BY <2>6 DEF ResumeArms
  <2> QED
    BY <2>1, <2>2, <2>3, <2>4, <2>5, <2>6 DEF ResumeStep
<1>16. CASE \E t \in Threads : \E o \in DOMAIN Calls : Begin(t, o)
  BY <1>16 DEF Begin
<1>17. CASE UNCHANGED vars
  BY <1>17 DEF vars
<1>18. CASE Publish
  BY <1>18 DEF Publish, Cap, CapFrame
<1> QED
  BY <1>1, <1>2, <1>3, <1>4, <1>5, <1>6, <1>7, <1>8, <1>9, <1>10, <1>11, <1>12, <1>13, <1>14,
     <1>15, <1>16, <1>17, <1>18
     DEF Next, ThreadStep, CapStep

(***************************************************************************)
(* Wakes.                                                                  *)
(***************************************************************************)
WakeStages == {"resume", "woken", "suspend", "slept"}

\* A wake is pending or in one of its stages, never both, exactly while waking is set;
\* none is begun for a camera that is being suspended.
WakeInv ==
  /\ waking <=> wakePending \/ cap \in WakeStages
  /\ wakePending => cap \notin WakeStages
  /\ Suspending => ~waking /\ ~isActive

\* A cancel belongs to a wake under way; a wake that is not cancelled, to an active camera.
CancelInv ==
  /\ wakeCancel /\ ~dropped => waking /\ ~isActive /\ ~Confirming
  /\ waking /\ ~wakeCancel => isActive \/ Confirming

\* The device failed its last suspend, or its thread was aborted, or it is suspended.
Still == ~up \/ refused \/ aborted

\* The sensor follows the wakes.
UpInv ==
  /\ ~dropped /\ (isActive \/ Confirming) /\ ~waking /\ ~wakeError => up
  /\ cap = "woken" => up
  /\ cap = "slept" => ~up \/ refused
  /\ wakePending \/ cap = "resume" => Still
  /\ ~isActive /\ ~waking => Still \/ Suspending \/ Confirming

\* What a sleep found, and what it gives back; INIT comes after DEINIT; a RESUME that starts
\* a wake finds no other.
SleepInv ==
  \A t \in Threads :
    /\ Call(t) = "INIT" => ~initialized /\ ~waking
    /\ pc[t] = "lock" /\ Call(t) = "RESUME" => ~isActive /\ (needsResume <=> wasActive)
    /\ pc[t] \in {"suspending", "stop", "device"} /\ Call(t) = "SUSPEND" => wasActive
    /\ pc[t] \in {"reset", "arm", "confirm"} /\ Call(t) = "RESUME" => wasActive
    /\ pc[t] \in {"reset", "arm"} => ~isActive /\ ~waking

\* Every step keeps wakes apart.
LEMMA StepWake ==
  ASSUME CallInv, ThreadInv, WakeInv, SleepInv, RegTypes, WakeTypes, [Next]_vars
  PROVE  WakeInv'
<1> USE DEF regVars, thrVars, bufVars, wakeVars, callVars, boundVars, histVars, ThreadInv,
            WakeInv, WakeStages, RegTypes, WakeTypes
<1>0. Calm => (Suspending' <=> Suspending) /\ (Confirming' <=> Confirming)
  BY CalmPhase
<1>1. CASE Top
  <2>1. Calm
    BY <1>1, CapCalls DEF CapStep
  <2> QED
    BY <1>1, <1>0, <2>1 DEF Top, Cap, CapFrame
<1>2. CASE Taken
  <2>1. Calm
    BY <1>2, CapCalls DEF CapStep
  <2> QED
    BY <1>2, <1>0, <2>1 DEF Taken, Cap, CapFrame
<1>3. CASE Stream
  <2>1. Calm
    BY <1>3, CapCalls DEF CapStep
  <2> QED
    BY <1>3, <1>0, <2>1 DEF Stream, Cap, CapFrame
<1>4. CASE Dequeue
  <2>1. Calm
    BY <1>4, CapCalls DEF CapStep
  <2> QED
    BY <1>4, <1>0, <2>1 DEF Dequeue, Cap, CapFrame
<1>5. CASE LastFrame
  <2>1. Calm
    BY <1>5, CapCalls DEF CapStep
  <2> QED
    BY <1>5, <1>0, <2>1 DEF LastFrame, Cap, CapFrame
<1>6. CASE Process
  <2>1. Calm
    BY <1>6, CapCalls DEF CapStep
  <2> QED
    BY <1>6, <1>0, <2>1 DEF Process, Cap, CapFrame
<1>7. CASE StreamReset
  <2>1. Calm
    BY <1>7, CapCalls DEF CapStep
  <2> QED
    BY <1>7, <1>0, <2>1 DEF StreamReset, Cap, CapFrame
<1>8. CASE WakeResume
  <2>1. Calm
    BY <1>8, CapCalls DEF CapStep
  <2> QED
    BY <1>8, <1>0, <2>1 DEF WakeResume, Cap, CapFrame
<1>9. CASE Woken
  <2>1. Calm
    BY <1>9, CapCalls DEF CapStep
  <2> QED
    BY <1>9, <1>0, <2>1 DEF Woken, Cap, CapFrame
<1>10. CASE WakeSuspend
  <2>1. Calm
    BY <1>10, CapCalls DEF CapStep
  <2> QED
    BY <1>10, <1>0, <2>1 DEF WakeSuspend, Cap, DeviceSuspend, CapFrame
<1>11. CASE Slept
  <2>1. Calm
    BY <1>11, CapCalls DEF CapStep
  <2> QED
    BY <1>11, <1>0, <2>1 DEF Slept, Cap, CapFrame
<1>12. CASE \E t \in Threads : CaptureStep(t)
  <2> PICK t \in Threads : CaptureStep(t)
    BY <1>12
  <2>0. Calm
    BY CaptureCalls
  <2>1. CASE CaptureCheck(t)
    BY <2>1, <1>0, <2>0 DEF CaptureCheck, CapturePc
  <2>2. CASE CaptureWait(t)
    BY <2>2, <1>0, <2>0 DEF CaptureWait, CapturePc
  <2>3. CASE CaptureStart(t)
    BY <2>3, <1>0, <2>0 DEF CaptureStart, ThreadStart, CapturePc
  <2>4. CASE CaptureFormat(t)
    BY <2>4, <1>0, <2>0 DEF CaptureFormat, CapturePc
  <2>5. CASE CaptureAlloc(t)
    BY <2>5, <1>0, <2>0 DEF CaptureAlloc, CapturePc
  <2>6. CASE CaptureTrigger(t)
    BY <2>6, <1>0, <2>0 DEF CaptureTrigger, CapturePc
  <2> QED
    BY <2>1, <2>2, <2>3, <2>4, <2>5, <2>6 DEF CaptureStep
<1>13. CASE \E t \in Threads : CleanupStep(t)
  <2> PICK t \in Threads : CleanupStep(t)
    BY <1>13
  <2>1. CASE CleanupBegin(t)
    <3>1. Phases(FALSE, FALSE, FALSE, FALSE)
      BY <2>1, CallbackPhase
    <3> QED
      BY <2>1, <3>1 DEF Phases, CleanupBegin, Signal
  <2>2. CASE CleanupDone(t)
    <3>1. Phases(FALSE, FALSE, FALSE, FALSE)
      BY <2>2, CallbackPhase
    <3> QED
      BY <2>2, <3>1 DEF Phases, CleanupDone, Stopped, Joined, AbortWaiting, Hangs, DropWake
  <2>3. CASE CleanupUnclean(t)
    <3>1. Phases(FALSE, FALSE, FALSE, FALSE)
      BY <2>3, CallbackPhase
    <3> QED
      BY <2>3, <3>1 DEF Phases, CleanupUnclean, AbortCapturing, Hangs, DropWake
  <2>4. CASE Initialize(t)
    <3>1. Phases(FALSE, FALSE, FALSE, FALSE)
      BY <2>4, CallbackPhase
    <3> QED
      BY <2>4, <3>1 DEF Phases, Initialize, DeviceSuspend
  <2> QED
    BY <2>1, <2>2, <2>3, <2>4 DEF CleanupStep
<1>14. CASE \E t \in Threads : SuspendStep(t)
  <2> PICK t \in Threads : SuspendStep(t)
    BY <1>14
  <2>1. CASE SuspendBegin(t)
    <3>1. Phases(FALSE, FALSE, FALSE, FALSE)
      BY <2>1, CallbackPhase
    <3> QED
      BY <2>1, <3>1 DEF Phases, SuspendBegin
  <2>2. CASE SuspendCancels(t)
    <3>1. Phases(FALSE, FALSE, FALSE, FALSE)
      BY <2>2, CallbackPhase
    <3> QED
      BY <2>2, <3>1 DEF Phases, SuspendCancels
  <2>3. CASE SuspendStops(t)
    <3>1. Phases(FALSE, FALSE, TRUE, FALSE)
      BY <2>3, CallbackPhase
    <3> QED
      BY <2>3, <3>1 DEF Phases, SuspendStops, Signal
  <2>4. CASE SuspendStopped(t)
    <3>1. Phases(TRUE, FALSE, TRUE, FALSE)
      BY <2>4, CallbackPhase
    <3> QED
      BY <2>4, <3>1 DEF Phases, SuspendStopped, Stopped, Joined, AbortWaiting, Hangs
  <2>5. CASE SuspendUnclean(t)
    <3>1. Phases(TRUE, FALSE, FALSE, FALSE)
      BY <2>5, CallbackPhase
    <3> QED
      BY <2>5, <3>1 DEF Phases, SuspendUnclean, AbortCapturing, Hangs
  <2>6. CASE SuspendDevice(t)
    <3>1. Phases(TRUE, FALSE, FALSE, FALSE)
      BY <2>6, CallbackPhase
    <3> QED
      BY <2>6, <3>1 DEF Phases, SuspendDevice, DeviceSuspend
  <2> QED
    BY <2>1, <2>2, <2>3, <2>4, <2>5, <2>6 DEF SuspendStep
<1>15. CASE \E t \in Threads : ResumeStep(t)
  <2> PICK t \in Threads : ResumeStep(t)
    BY <1>15
  <2>1. CASE ResumeSkipped(t)
    <3>1. Phases(FALSE, FALSE, FALSE, FALSE)
      BY <2>1, CallbackPhase
    <3> QED
      BY <2>1, <3>1 DEF Phases, ResumeSkipped
  <2>2. CASE ResumeKeepsWake(t)
    <3>1. Phases(FALSE, FALSE, FALSE, Call(t) = "ON")
      BY <2>2, CallbackPhase
    <3> QED
      BY <2>2, <3>1 DEF Phases, ResumeKeepsWake
  <2>3. CASE ResumeStart(t)
    <3>1. Phases(FALSE, FALSE, FALSE, FALSE)
      BY <2>3, CallbackPhase
    <3> QED
      BY <2>3, <3>1 DEF Phases, ResumeStart, ThreadStart
  <2>4. CASE ResumeConfirm(t)
    <3>1. Phases(FALSE, TRUE, FALSE, FALSE)
      BY <2>4, CallbackPhase
    <3> QED
      BY <2>4, <3>1 DEF Phases, ResumeConfirm
  <2>5. CASE ResumeReset(t)
    <3>1. Phases(FALSE, FALSE, FALSE, FALSE)
      BY <2>5, CallbackPhase
    <3> QED
      BY <2>5, <3>1 DEF Phases, ResumeReset
  <2>6. CASE ResumeArms(t)
    <3>1. Phases(FALSE, FALSE, FALSE, TRUE)
      BY <2>6, CallbackPhase
    <3>2. ~waking
      BY <2>6 DEF ResumeArms, SleepInv
    <3> QED
      BY <2>6, <3>1, <3>2 DEF Phases, ResumeArms
  <2> QED
    BY <2>1, <2>2, <2>3, <2>4, <2>5, <2>6 DEF ResumeStep
<1>16. CASE \E t \in Threads : \E o \in DOMAIN Calls : Begin(t, o)
  <2>1. Calm
    BY <1>16, BeginKeeps
  <2> QED
    BY <1>16, <1>0, <2>1 DEF Begin
<1>17. CASE UNCHANGED vars
  <2>1. Calm
    BY <1>17, CapCalls
  <2> QED
    BY <1>17, <1>0, <2>1 DEF vars
<1>18. CASE Publish
  <2>1. Calm
    BY <1>18, CapCalls DEF CapStep
  <2> QED
    BY <1>18, <1>0, <2>1 DEF Publish, Cap, CapFrame
<1> QED
  BY <1>1, <1>2, <1>3, <1>4, <1>5, <1>6, <1>7, <1>8, <1>9, <1>10, <1>11, <1>12, <1>13, <1>14,
     <1>15, <1>16, <1>17, <1>18
     DEF Next, ThreadStep, CapStep

\* Every step keeps cancels with their wakes.
LEMMA StepCancel ==
  ASSUME CallInv, WakeInv, CancelInv, SleepInv, RegTypes, WakeTypes, HistTypes, [Next]_vars
  PROVE  CancelInv'
<1> USE DEF regVars, thrVars, bufVars, wakeVars, callVars, boundVars, histVars, WakeInv,
            CancelInv, WakeStages, RegTypes, WakeTypes, HistTypes
<1>0. Calm => (Suspending' <=> Suspending) /\ (Confirming' <=> Confirming)
  BY CalmPhase
<1>1. CASE Top
  <2>1. Calm
    BY <1>1, CapCalls DEF CapStep
  <2> QED
    BY <1>1, <1>0, <2>1 DEF Top, Cap, CapFrame
<1>2. CASE Taken
  <2>1. Calm
    BY <1>2, CapCalls DEF CapStep
  <2> QED
    BY <1>2, <1>0, <2>1 DEF Taken, Cap, CapFrame
<1>3. CASE Stream
  <2>1. Calm
    BY <1>3, CapCalls DEF CapStep
  <2> QED
    BY <1>3, <1>0, <2>1 DEF Stream, Cap, CapFrame
<1>4. CASE Dequeue
  <2>1. Calm
    BY <1>4, CapCalls DEF CapStep
  <2> QED
    BY <1>4, <1>0, <2>1 DEF Dequeue, Cap, CapFrame
<1>5. CASE LastFrame
  <2>1. Calm
    BY <1>5, CapCalls DEF CapStep
  <2> QED
    BY <1>5, <1>0, <2>1 DEF LastFrame, Cap, CapFrame
<1>6. CASE Process
  <2>1. Calm
    BY <1>6, CapCalls DEF CapStep
  <2> QED
    BY <1>6, <1>0, <2>1 DEF Process, Cap, CapFrame
<1>7. CASE StreamReset
  <2>1. Calm
    BY <1>7, CapCalls DEF CapStep
  <2> QED
    BY <1>7, <1>0, <2>1 DEF StreamReset, Cap, CapFrame
<1>8. CASE WakeResume
  <2>1. Calm
    BY <1>8, CapCalls DEF CapStep
  <2> QED
    BY <1>8, <1>0, <2>1 DEF WakeResume, Cap, CapFrame
<1>9. CASE Woken
  <2>1. Calm
    BY <1>9, CapCalls DEF CapStep
  <2> QED
    BY <1>9, <1>0, <2>1 DEF Woken, Cap, CapFrame
<1>10. CASE WakeSuspend
  <2>1. Calm
    BY <1>10, CapCalls DEF CapStep
  <2> QED
    BY <1>10, <1>0, <2>1 DEF WakeSuspend, Cap, DeviceSuspend, CapFrame
<1>11. CASE Slept
  <2>1. Calm
    BY <1>11, CapCalls DEF CapStep
  <2> QED
    BY <1>11, <1>0, <2>1 DEF Slept, Cap, CapFrame
<1>12. CASE \E t \in Threads : CaptureStep(t)
  <2> PICK t \in Threads : CaptureStep(t)
    BY <1>12
  <2>0. Calm
    BY CaptureCalls
  <2>1. CASE CaptureCheck(t)
    BY <2>1, <1>0, <2>0 DEF CaptureCheck, CapturePc
  <2>2. CASE CaptureWait(t)
    BY <2>2, <1>0, <2>0 DEF CaptureWait, CapturePc
  <2>3. CASE CaptureStart(t)
    BY <2>3, <1>0, <2>0 DEF CaptureStart, ThreadStart, CapturePc
  <2>4. CASE CaptureFormat(t)
    BY <2>4, <1>0, <2>0 DEF CaptureFormat, CapturePc
  <2>5. CASE CaptureAlloc(t)
    BY <2>5, <1>0, <2>0 DEF CaptureAlloc, CapturePc
  <2>6. CASE CaptureTrigger(t)
    BY <2>6, <1>0, <2>0 DEF CaptureTrigger, CapturePc
  <2> QED
    BY <2>1, <2>2, <2>3, <2>4, <2>5, <2>6 DEF CaptureStep
<1>13. CASE \E t \in Threads : CleanupStep(t)
  <2> PICK t \in Threads : CleanupStep(t)
    BY <1>13
  <2>1. CASE CleanupBegin(t)
    <3>1. Phases(FALSE, FALSE, FALSE, FALSE)
      BY <2>1, CallbackPhase
    <3> QED
      BY <2>1, <3>1 DEF Phases, CleanupBegin, Signal
  <2>2. CASE CleanupDone(t)
    <3>1. Phases(FALSE, FALSE, FALSE, FALSE)
      BY <2>2, CallbackPhase
    <3> QED
      BY <2>2, <3>1 DEF Phases, CleanupDone, Stopped, Joined, AbortWaiting, Hangs, DropWake
  <2>3. CASE CleanupUnclean(t)
    <3>1. Phases(FALSE, FALSE, FALSE, FALSE)
      BY <2>3, CallbackPhase
    <3> QED
      BY <2>3, <3>1 DEF Phases, CleanupUnclean, AbortCapturing, Hangs, DropWake
  <2>4. CASE Initialize(t)
    <3>1. Phases(FALSE, FALSE, FALSE, FALSE)
      BY <2>4, CallbackPhase
    <3>2. ~waking
      BY <2>4 DEF Initialize, Enter, SleepInv
    <3> QED
      BY <2>4, <3>1, <3>2 DEF Phases, Initialize, DeviceSuspend
  <2> QED
    BY <2>1, <2>2, <2>3, <2>4 DEF CleanupStep
<1>14. CASE \E t \in Threads : SuspendStep(t)
  <2> PICK t \in Threads : SuspendStep(t)
    BY <1>14
  <2>1. CASE SuspendBegin(t)
    <3>1. Phases(FALSE, FALSE, FALSE, FALSE)
      BY <2>1, CallbackPhase
    <3> QED
      BY <2>1, <3>1 DEF Phases, SuspendBegin
  <2>2. CASE SuspendCancels(t)
    <3>1. Phases(FALSE, FALSE, FALSE, FALSE)
      BY <2>2, CallbackPhase
    <3> QED
      BY <2>2, <3>1 DEF Phases, SuspendCancels
  <2>3. CASE SuspendStops(t)
    <3>1. Phases(FALSE, FALSE, TRUE, FALSE)
      BY <2>3, CallbackPhase
    <3> QED
      BY <2>3, <3>1 DEF Phases, SuspendStops, Signal
  <2>4. CASE SuspendStopped(t)
    <3>1. Phases(TRUE, FALSE, TRUE, FALSE)
      BY <2>4, CallbackPhase
    <3> QED
      BY <2>4, <3>1 DEF Phases, SuspendStopped, Stopped, Joined, AbortWaiting, Hangs
  <2>5. CASE SuspendUnclean(t)
    <3>1. Phases(TRUE, FALSE, FALSE, FALSE)
      BY <2>5, CallbackPhase
    <3> QED
      BY <2>5, <3>1 DEF Phases, SuspendUnclean, AbortCapturing, Hangs
  <2>6. CASE SuspendDevice(t)
    <3>1. Phases(TRUE, FALSE, FALSE, FALSE)
      BY <2>6, CallbackPhase
    <3> QED
      BY <2>6, <3>1 DEF Phases, SuspendDevice, DeviceSuspend
  <2> QED
    BY <2>1, <2>2, <2>3, <2>4, <2>5, <2>6 DEF SuspendStep
<1>15. CASE \E t \in Threads : ResumeStep(t)
  <2> PICK t \in Threads : ResumeStep(t)
    BY <1>15
  <2>1. CASE ResumeSkipped(t)
    <3>1. Phases(FALSE, FALSE, FALSE, FALSE)
      BY <2>1, CallbackPhase
    <3> QED
      BY <2>1, <3>1 DEF Phases, ResumeSkipped
  <2>2. CASE ResumeKeepsWake(t)
    <3>1. Phases(FALSE, FALSE, FALSE, Call(t) = "ON")
      BY <2>2, CallbackPhase
    <3> QED
      BY <2>2, <3>1 DEF Phases, ResumeKeepsWake
  <2>3. CASE ResumeStart(t)
    <3>1. Phases(FALSE, FALSE, FALSE, FALSE)
      BY <2>3, CallbackPhase
    <3> QED
      BY <2>3, <3>1 DEF Phases, ResumeStart, ThreadStart
  <2>4. CASE ResumeConfirm(t)
    <3>1. Phases(FALSE, TRUE, FALSE, FALSE)
      BY <2>4, CallbackPhase
    <3> QED
      BY <2>4, <3>1 DEF Phases, ResumeConfirm
  <2>5. CASE ResumeReset(t)
    <3>1. Phases(FALSE, FALSE, FALSE, FALSE)
      BY <2>5, CallbackPhase
    <3> QED
      BY <2>5, <3>1 DEF Phases, ResumeReset
  <2>6. CASE ResumeArms(t)
    <3>1. Phases(FALSE, FALSE, FALSE, TRUE)
      BY <2>6, CallbackPhase
    <3>2. ~waking
      BY <2>6 DEF ResumeArms, SleepInv
    <3> QED
      BY <2>6, <3>1, <3>2 DEF Phases, ResumeArms
  <2> QED
    BY <2>1, <2>2, <2>3, <2>4, <2>5, <2>6 DEF ResumeStep
<1>16. CASE \E t \in Threads : \E o \in DOMAIN Calls : Begin(t, o)
  <2>1. Calm
    BY <1>16, BeginKeeps
  <2> QED
    BY <1>16, <1>0, <2>1 DEF Begin
<1>17. CASE UNCHANGED vars
  <2>1. Calm
    BY <1>17, CapCalls
  <2> QED
    BY <1>17, <1>0, <2>1 DEF vars
<1>18. CASE Publish
  <2>1. Calm
    BY <1>18, CapCalls DEF CapStep
  <2> QED
    BY <1>18, <1>0, <2>1 DEF Publish, Cap, CapFrame
<1> QED
  BY <1>1, <1>2, <1>3, <1>4, <1>5, <1>6, <1>7, <1>8, <1>9, <1>10, <1>11, <1>12, <1>13, <1>14,
     <1>15, <1>16, <1>17, <1>18
     DEF Next, ThreadStep, CapStep

\* Every step keeps the sensor with the wakes.
LEMMA StepUp ==
  ASSUME CallInv, WakeInv, CancelInv, UpInv, SleepInv, RegTypes, WakeTypes, HistTypes, [Next]_vars
  PROVE  UpInv'
<1> USE DEF regVars, thrVars, bufVars, wakeVars, callVars, boundVars, histVars, WakeInv,
            CancelInv, UpInv, Still, WakeStages, RegTypes, WakeTypes, HistTypes
<1>0. Calm => (Suspending' <=> Suspending) /\ (Confirming' <=> Confirming)
  BY CalmPhase
<1>1. CASE Top
  <2>1. Calm
    BY <1>1, CapCalls DEF CapStep
  <2> QED
    BY <1>1, <1>0, <2>1 DEF Top, Cap, CapFrame
<1>2. CASE Taken
  <2>1. Calm
    BY <1>2, CapCalls DEF CapStep
  <2> QED
    BY <1>2, <1>0, <2>1 DEF Taken, Cap, CapFrame
<1>3. CASE Stream
  <2>1. Calm
    BY <1>3, CapCalls DEF CapStep
  <2> QED
    BY <1>3, <1>0, <2>1 DEF Stream, Cap, CapFrame
<1>4. CASE Dequeue
  <2>1. Calm
    BY <1>4, CapCalls DEF CapStep
  <2> QED
    BY <1>4, <1>0, <2>1 DEF Dequeue, Cap, CapFrame
<1>5. CASE LastFrame
  <2>1. Calm
    BY <1>5, CapCalls DEF CapStep
  <2> QED
    BY <1>5, <1>0, <2>1 DEF LastFrame, Cap, CapFrame
<1>6. CASE Process
  <2>1. Calm
    BY <1>6, CapCalls DEF CapStep
  <2> QED
    BY <1>6, <1>0, <2>1 DEF Process, Cap, CapFrame
<1>7. CASE StreamReset
  <2>1. Calm
    BY <1>7, CapCalls DEF CapStep
  <2> QED
    BY <1>7, <1>0, <2>1 DEF StreamReset, Cap, CapFrame
<1>8. CASE WakeResume
  <2>1. Calm
    BY <1>8, CapCalls DEF CapStep
  <2> QED
    BY <1>8, <1>0, <2>1 DEF WakeResume, Cap, CapFrame
<1>9. CASE Woken
  <2>1. Calm
    BY <1>9, CapCalls DEF CapStep
  <2> QED
    BY <1>9, <1>0, <2>1 DEF Woken, Cap, CapFrame
<1>10. CASE WakeSuspend
  <2>1. Calm
    BY <1>10, CapCalls DEF CapStep
  <2> QED
    BY <1>10, <1>0, <2>1 DEF WakeSuspend, Cap, DeviceSuspend, CapFrame
<1>11. CASE Slept
  <2>1. Calm
    BY <1>11, CapCalls DEF CapStep
  <2> QED
    BY <1>11, <1>0, <2>1 DEF Slept, Cap, CapFrame
<1>12. CASE \E t \in Threads : CaptureStep(t)
  <2> PICK t \in Threads : CaptureStep(t)
    BY <1>12
  <2>0. Calm
    BY CaptureCalls
  <2>1. CASE CaptureCheck(t)
    BY <2>1, <1>0, <2>0 DEF CaptureCheck, CapturePc
  <2>2. CASE CaptureWait(t)
    BY <2>2, <1>0, <2>0 DEF CaptureWait, CapturePc
  <2>3. CASE CaptureStart(t)
    BY <2>3, <1>0, <2>0 DEF CaptureStart, ThreadStart, CapturePc
  <2>4. CASE CaptureFormat(t)
    BY <2>4, <1>0, <2>0 DEF CaptureFormat, CapturePc
  <2>5. CASE CaptureAlloc(t)
    BY <2>5, <1>0, <2>0 DEF CaptureAlloc, CapturePc
  <2>6. CASE CaptureTrigger(t)
    BY <2>6, <1>0, <2>0 DEF CaptureTrigger, CapturePc
  <2> QED
    BY <2>1, <2>2, <2>3, <2>4, <2>5, <2>6 DEF CaptureStep
<1>13. CASE \E t \in Threads : CleanupStep(t)
  <2> PICK t \in Threads : CleanupStep(t)
    BY <1>13
  <2>1. CASE CleanupBegin(t)
    <3>1. Phases(FALSE, FALSE, FALSE, FALSE)
      BY <2>1, CallbackPhase
    <3> QED
      BY <2>1, <3>1 DEF Phases, CleanupBegin, Signal
  <2>2. CASE CleanupDone(t)
    <3>1. Phases(FALSE, FALSE, FALSE, FALSE)
      BY <2>2, CallbackPhase
    <3> QED
      BY <2>2, <3>1 DEF Phases, CleanupDone, Stopped, Joined, AbortWaiting, Hangs, DropWake
  <2>3. CASE CleanupUnclean(t)
    <3>1. Phases(FALSE, FALSE, FALSE, FALSE)
      BY <2>3, CallbackPhase
    <3> QED
      BY <2>3, <3>1 DEF Phases, CleanupUnclean, AbortCapturing, Hangs, DropWake
  <2>4. CASE Initialize(t)
    <3>1. Phases(FALSE, FALSE, FALSE, FALSE)
      BY <2>4, CallbackPhase
    <3>2. ~waking /\ ~initialized
      BY <2>4 DEF Initialize, Enter, SleepInv
    <3> QED
      BY <2>4, <3>1, <3>2 DEF Phases, Initialize, DeviceSuspend
  <2> QED
    BY <2>1, <2>2, <2>3, <2>4 DEF CleanupStep
<1>14. CASE \E t \in Threads : SuspendStep(t)
  <2> PICK t \in Threads : SuspendStep(t)
    BY <1>14
  <2>1. CASE SuspendBegin(t)
    <3>1. Phases(FALSE, FALSE, FALSE, FALSE)
      BY <2>1, CallbackPhase
    <3> QED
      BY <2>1, <3>1 DEF Phases, SuspendBegin
  <2>2. CASE SuspendCancels(t)
    <3>1. Phases(FALSE, FALSE, FALSE, FALSE)
      BY <2>2, CallbackPhase
    <3> QED
      BY <2>2, <3>1 DEF Phases, SuspendCancels
  <2>3. CASE SuspendStops(t)
    <3>1. Phases(FALSE, FALSE, TRUE, FALSE)
      BY <2>3, CallbackPhase
    <3> QED
      BY <2>3, <3>1 DEF Phases, SuspendStops, Signal
  <2>4. CASE SuspendStopped(t)
    <3>1. Phases(TRUE, FALSE, TRUE, FALSE)
      BY <2>4, CallbackPhase
    <3> QED
      BY <2>4, <3>1 DEF Phases, SuspendStopped, Stopped, Joined, AbortWaiting, Hangs
  <2>5. CASE SuspendUnclean(t)
    <3>1. Phases(TRUE, FALSE, FALSE, FALSE)
      BY <2>5, CallbackPhase
    <3> QED
      BY <2>5, <3>1 DEF Phases, SuspendUnclean, AbortCapturing, Hangs
  <2>6. CASE SuspendDevice(t)
    <3>1. Phases(TRUE, FALSE, FALSE, FALSE)
      BY <2>6, CallbackPhase
    <3> QED
      BY <2>6, <3>1 DEF Phases, SuspendDevice, DeviceSuspend
  <2> QED
    BY <2>1, <2>2, <2>3, <2>4, <2>5, <2>6 DEF SuspendStep
<1>15. CASE \E t \in Threads : ResumeStep(t)
  <2> PICK t \in Threads : ResumeStep(t)
    BY <1>15
  <2>1. CASE ResumeSkipped(t)
    <3>1. Phases(FALSE, FALSE, FALSE, FALSE)
      BY <2>1, CallbackPhase
    <3> QED
      BY <2>1, <3>1 DEF Phases, ResumeSkipped
  <2>2. CASE ResumeKeepsWake(t)
    <3>1. Phases(FALSE, FALSE, FALSE, Call(t) = "ON")
      BY <2>2, CallbackPhase
    <3> QED
      BY <2>2, <3>1 DEF Phases, ResumeKeepsWake
  <2>3. CASE ResumeStart(t)
    <3>1. Phases(FALSE, FALSE, FALSE, FALSE)
      BY <2>3, CallbackPhase
    <3> QED
      BY <2>3, <3>1 DEF Phases, ResumeStart, ThreadStart
  <2>4. CASE ResumeConfirm(t)
    <3>1. Phases(FALSE, TRUE, FALSE, FALSE)
      BY <2>4, CallbackPhase
    <3> QED
      BY <2>4, <3>1 DEF Phases, ResumeConfirm
  <2>5. CASE ResumeReset(t)
    <3>1. Phases(FALSE, FALSE, FALSE, FALSE)
      BY <2>5, CallbackPhase
    <3> QED
      BY <2>5, <3>1 DEF Phases, ResumeReset
  <2>6. CASE ResumeArms(t)
    <3>1. Phases(FALSE, FALSE, FALSE, TRUE)
      BY <2>6, CallbackPhase
    <3>2. ~isActive /\ ~waking
      BY <2>6 DEF ResumeArms, SleepInv
    <3> QED
      BY <2>6, <3>1, <3>2 DEF Phases, ResumeArms
  <2> QED
    BY <2>1, <2>2, <2>3, <2>4, <2>5, <2>6 DEF ResumeStep
<1>16. CASE \E t \in Threads : \E o \in DOMAIN Calls : Begin(t, o)
  <2>1. Calm
    BY <1>16, BeginKeeps
  <2> QED
    BY <1>16, <1>0, <2>1 DEF Begin
<1>17. CASE UNCHANGED vars
  <2>1. Calm
    BY <1>17, CapCalls
  <2> QED
    BY <1>17, <1>0, <2>1 DEF vars
<1>18. CASE Publish
  <2>1. Calm
    BY <1>18, CapCalls DEF CapStep
  <2> QED
    BY <1>18, <1>0, <2>1 DEF Publish, Cap, CapFrame
<1> QED
  BY <1>1, <1>2, <1>3, <1>4, <1>5, <1>6, <1>7, <1>8, <1>9, <1>10, <1>11, <1>12, <1>13, <1>14,
     <1>15, <1>16, <1>17, <1>18
     DEF Next, ThreadStep, CapStep

(***************************************************************************)
(* Sleeps.                                                                 *)
(***************************************************************************)
SleepOf(t) ==
  /\ Call(t) = "INIT" => ~initialized /\ ~waking
  /\ pc[t] = "lock" /\ Call(t) = "RESUME" => ~isActive /\ (needsResume <=> wasActive)
  /\ pc[t] \in {"suspending", "stop", "device"} /\ Call(t) = "SUSPEND" => wasActive
  /\ pc[t] \in {"reset", "arm", "confirm"} /\ Call(t) = "RESUME" => wasActive
  /\ pc[t] \in {"reset", "arm"} => ~isActive /\ ~waking

\* A step outside the callbacks keeps what sleeps rely on.
LEMMA CalmSleeps ==
  ASSUME CallInv, CallInv', SleepInv, Calm, UNCHANGED <<needsResume, initialized, wasActive>>,
         isActive' => isActive, waking' => waking
  PROVE  SleepInv'
<1> SUFFICES ASSUME NEW u \in Threads PROVE SleepOf(u)'
  BY DEF SleepInv, SleepOf
<1>1. SleepOf(u)
  BY DEF SleepInv, SleepOf
<1>2. Call(u) = HeadOf(todo[u]) /\ Call(u)' = HeadOf(todo'[u])
  BY DEF Call, HeadOf
<1>3. CASE pc'[u] = pc[u] /\ todo'[u] = todo[u]
  BY <1>1, <1>2, <1>3 DEF SleepOf
<1>4. CASE /\ pc[u] \notin MidLabels /\ pc'[u] \notin MidLabels
           /\ HeadOf(todo'[u]) \notin {"INIT", "RESUME"}
  BY <1>2, <1>4 DEF SleepOf, MidLabels
<1> QED
  BY <1>3, <1>4 DEF Calm

\* Nor does a callback of one thread spoil the sleep of another.
LEMMA OthersSleep ==
  ASSUME CallInv, SleepInv, NEW t \in Threads, Kept(t), NEW u \in Threads \ {t},
         t = Repl \/ ((initialized' => initialized) /\ (waking' => waking)),
         \/ Call(t) \in {"OFF", "ON", "INIT", "RESUME", "SUSPEND"}
         \/ (isActive' => isActive) /\ UNCHANGED <<needsResume, wasActive>>
  PROVE  SleepOf(u)'
<1>1. pc'[u] = pc[u] /\ Call(u)' = Call(u)
  BY DEF Kept, Only, Call
<1>2. pc[u] \notin MidLabels
  BY Alone DEF Kept
<1>3. /\ Call(u) \in {"INIT", "RESUME"} => t # Repl
      /\ Call(u) = "RESUME" => op[u] \in Sleeps
  BY WhoCalls
<1>4. /\ t # Repl => Call(t) \notin {"OFF", "ON", "INIT", "RESUME"}
      /\ Call(t) = "SUSPEND" => op[t] \in Sleeps
  BY WhoCalls
<1>5. op[t] \in Sleeps => op[u] \notin Sleeps
  BY DEF CallInv
<1> QED
  BY <1>1, <1>2, <1>3, <1>4, <1>5 DEF SleepInv, SleepOf, MidLabels

\* The callback after the one that returns.
LEMMA NextCall ==
  ASSUME CallInv, NEW t \in Threads, todo[t] # <<>>, Return(t)
  PROVE  /\ Call(t)' = "INIT" => Call(t) = "DEINIT"
         /\ Call(t)' = "RESUME" => Call(t) = "SUSPEND"
         /\ pc'[t] \in {"lock", "free"}
<1>1. op[t] \in AllOps /\ todo[t] \in Rest[op[t]] /\ Call(t) = HeadOf(todo[t])
  BY Placed
<1>2. todo'[t] = Tail(todo[t])
  BY DEF Return, CallInv
<1>3. Call(t)' = HeadOf(Tail(todo[t]))
  BY <1>2 DEF Call, HeadOf
<1>4. pc'[t] \in {"lock", "free"}
  BY Ended
<1> QED
  BY <1>1, <1>3, <1>4, RestNext

\* Every callback keeps what sleeps rely on.
LEMMA CallbackSleeps ==
  ASSUME CallInv, WakeInv, SleepInv, RegTypes, HistTypes, WakeTypes,
         NEW t \in Threads, CleanupStep(t) \/ SuspendStep(t) \/ ResumeStep(t)
  PROVE  SleepInv'
<1> USE DEF regVars, thrVars, bufVars, wakeVars, callVars, boundVars, histVars, Goto
<1>1. Kept(t)
  BY CallbackKeeps
<1>2. /\ Fits(pc[t], op[t], todo[t]) /\ Call(t) = HeadOf(todo[t]) /\ todo[t] # <<>>
      /\ pc \in [Threads -> Labels] /\ DOMAIN todo = Threads
  BY <1>1, Placed DEF CallInv, Kept
<1>3. Call(t) \in {"OFF", "ON", "INIT", "RESUME"} => t = Repl
  BY WhoCalls
<1>4. SleepOf(t)
  BY DEF SleepInv, SleepOf
<1>5. Return(t) => /\ Call(t)' = "INIT" => Call(t) = "DEINIT"
                   /\ Call(t)' = "RESUME" => Call(t) = "SUSPEND"
                   /\ pc'[t] \in {"lock", "free"}
  BY <1>2, NextCall
<1>6. Fail(t) => Call(t)' = "none"
  BY <1>2 DEF Fail, Call
<1>7. todo' = todo => Call(t)' = Call(t)
  BY DEF Call
<1>8. ASSUME SleepOf(t)', t = Repl \/ ((initialized' => initialized) /\ (waking' => waking)),
             \/ Call(t) \in {"OFF", "ON", "INIT", "RESUME", "SUSPEND"}
             \/ (isActive' => isActive) /\ UNCHANGED <<needsResume, wasActive>>
      PROVE  SleepInv'
  <2>1. \A u \in Threads \ {t} : SleepOf(u)'
    BY <1>1, <1>8, OthersSleep
  <2> QED
    BY <1>8, <2>1 DEF SleepInv, SleepOf
<1>9. pc[t] \in {"suspending", "device"} => Call(t) \in {"SUSPEND", "OFF"}
  BY <1>2 DEF Fits
<1>10. pc[t] \in {"reset", "arm", "confirm"} => Call(t) \in {"ON", "RESUME"}
  BY <1>2 DEF Fits
<1>11. CASE CleanupBegin(t)
  <2>1. SleepOf(t)'
    BY <1>11, <1>2, <1>4, <1>5, <1>6, <1>7, <1>9, <1>10 DEF SleepOf, CleanupBegin, Enter
  <2>2. /\ t = Repl \/ ((initialized' => initialized) /\ (waking' => waking))
        /\ \/ Call(t) \in {"OFF", "ON", "INIT", "RESUME", "SUSPEND"}
           \/ (isActive' => isActive) /\ UNCHANGED <<needsResume, wasActive>>
    BY <1>11, <1>3, <1>9, <1>10 DEF CleanupBegin, Enter
  <2> QED
    BY <1>8, <2>1, <2>2
<1>12. CASE CleanupDone(t)
  <2>1. SleepOf(t)'
    BY <1>12, <1>2, <1>4, <1>5, <1>6, <1>7, <1>9, <1>10 DEF SleepOf, CleanupDone, Stopped, Joined,
                                                            AbortWaiting, Hangs, Fault, DropWake,
                                                            Deinitialized, WakeInv, WakeStages
  <2>2. /\ t = Repl \/ ((initialized' => initialized) /\ (waking' => waking))
        /\ \/ Call(t) \in {"OFF", "ON", "INIT", "RESUME", "SUSPEND"}
           \/ (isActive' => isActive) /\ UNCHANGED <<needsResume, wasActive>>
    BY <1>12, <1>3, <1>9, <1>10 DEF CleanupDone, Stopped, Joined, AbortWaiting, Hangs, Fault,
                                    DropWake, Deinitialized, WakeInv, WakeStages
  <2> QED
    BY <1>8, <2>1, <2>2
<1>13. CASE CleanupUnclean(t)
  <2>1. SleepOf(t)'
    BY <1>13, <1>2, <1>4, <1>5, <1>6, <1>7, <1>9, <1>10 DEF SleepOf, CleanupUnclean,
                                                            AbortCapturing, Hangs, DropWake,
                                                            Deinitialized, WakeInv, WakeStages
  <2>2. /\ t = Repl \/ ((initialized' => initialized) /\ (waking' => waking))
        /\ \/ Call(t) \in {"OFF", "ON", "INIT", "RESUME", "SUSPEND"}
           \/ (isActive' => isActive) /\ UNCHANGED <<needsResume, wasActive>>
    BY <1>13, <1>3, <1>9, <1>10 DEF CleanupUnclean, AbortCapturing, Hangs, DropWake,
                                    Deinitialized, WakeInv, WakeStages
  <2> QED
    BY <1>8, <2>1, <2>2
<1>14. CASE Initialize(t)
  <2>1. SleepOf(t)'
    BY <1>14, <1>2, <1>4, <1>5, <1>6, <1>7, <1>9, <1>10 DEF SleepOf, Initialize, Enter
  <2>2. /\ t = Repl \/ ((initialized' => initialized) /\ (waking' => waking))
        /\ \/ Call(t) \in {"OFF", "ON", "INIT", "RESUME", "SUSPEND"}
           \/ (isActive' => isActive) /\ UNCHANGED <<needsResume, wasActive>>
    BY <1>14, <1>3, <1>9, <1>10 DEF Initialize, Enter
  <2> QED
    BY <1>8, <2>1, <2>2
<1>15. CASE SuspendBegin(t)
  <2>1. SleepOf(t)'
    BY <1>15, <1>2, <1>4, <1>5, <1>6, <1>7, <1>9, <1>10 DEF SleepOf, SuspendBegin, Enter
  <2>2. /\ t = Repl \/ ((initialized' => initialized) /\ (waking' => waking))
        /\ \/ Call(t) \in {"OFF", "ON", "INIT", "RESUME", "SUSPEND"}
           \/ (isActive' => isActive) /\ UNCHANGED <<needsResume, wasActive>>
    BY <1>15, <1>3, <1>9, <1>10 DEF SuspendBegin, Enter
  <2> QED
    BY <1>8, <2>1, <2>2
<1>16. CASE SuspendCancels(t)
  <2>1. SleepOf(t)'
    BY <1>16, <1>2, <1>4, <1>5, <1>6, <1>7, <1>9, <1>10 DEF SleepOf, SuspendCancels
  <2>2. /\ t = Repl \/ ((initialized' => initialized) /\ (waking' => waking))
        /\ \/ Call(t) \in {"OFF", "ON", "INIT", "RESUME", "SUSPEND"}
           \/ (isActive' => isActive) /\ UNCHANGED <<needsResume, wasActive>>
    BY <1>16, <1>3, <1>9, <1>10 DEF SuspendCancels
  <2> QED
    BY <1>8, <2>1, <2>2
<1>17. CASE SuspendStops(t)
  <2>1. SleepOf(t)'
    BY <1>17, <1>2, <1>4, <1>5, <1>6, <1>7, <1>9, <1>10 DEF SleepOf, SuspendStops
  <2>2. /\ t = Repl \/ ((initialized' => initialized) /\ (waking' => waking))
        /\ \/ Call(t) \in {"OFF", "ON", "INIT", "RESUME", "SUSPEND"}
           \/ (isActive' => isActive) /\ UNCHANGED <<needsResume, wasActive>>
    BY <1>17, <1>3, <1>9, <1>10 DEF SuspendStops
  <2> QED
    BY <1>8, <2>1, <2>2
<1>18. CASE SuspendStopped(t)
  <2>1. SleepOf(t)'
    BY <1>18, <1>2, <1>4, <1>5, <1>6, <1>7, <1>9, <1>10 DEF SleepOf, SuspendStopped, Stopped,
                                                            Joined, AbortWaiting
  <2>2. /\ t = Repl \/ ((initialized' => initialized) /\ (waking' => waking))
        /\ \/ Call(t) \in {"OFF", "ON", "INIT", "RESUME", "SUSPEND"}
           \/ (isActive' => isActive) /\ UNCHANGED <<needsResume, wasActive>>
    BY <1>18, <1>3, <1>9, <1>10 DEF SuspendStopped, Stopped, Joined, AbortWaiting
  <2> QED
    BY <1>8, <2>1, <2>2
<1>19. CASE SuspendUnclean(t)
  <2>1. SleepOf(t)'
    <3>1. pc'[t] = "free" /\ Call(t)' = "none"
      BY <1>19, <1>2, <1>6 DEF SuspendUnclean, Refuse, Fail
    <3> QED
      BY <3>1 DEF SleepOf
  <2>2. /\ t = Repl \/ ((initialized' => initialized) /\ (waking' => waking))
        /\ \/ Call(t) \in {"OFF", "ON", "INIT", "RESUME", "SUSPEND"}
           \/ (isActive' => isActive) /\ UNCHANGED <<needsResume, wasActive>>
    BY <1>19, <1>3, <1>9, <1>10 DEF SuspendUnclean, AbortCapturing, Refuse
  <2> QED
    BY <1>8, <2>1, <2>2
<1>20. CASE SuspendDevice(t)
  <2>1. SleepOf(t)'
    BY <1>20, <1>2, <1>4, <1>5, <1>6, <1>7, <1>9, <1>10 DEF SleepOf, SuspendDevice, Refuse,
                                                            WakeInv, Suspending, Suspends
  <2>2. /\ t = Repl \/ ((initialized' => initialized) /\ (waking' => waking))
        /\ \/ Call(t) \in {"OFF", "ON", "INIT", "RESUME", "SUSPEND"}
           \/ (isActive' => isActive) /\ UNCHANGED <<needsResume, wasActive>>
    BY <1>20, <1>3, <1>9, <1>10 DEF SuspendDevice, Refuse, WakeInv, Suspending, Suspends
  <2> QED
    BY <1>8, <2>1, <2>2
<1>21. CASE ResumeSkipped(t)
  <2>1. SleepOf(t)'
    BY <1>21, <1>2, <1>4, <1>5, <1>6, <1>7, <1>9, <1>10 DEF SleepOf, ResumeSkipped, Enter
  <2>2. /\ t = Repl \/ ((initialized' => initialized) /\ (waking' => waking))
        /\ \/ Call(t) \in {"OFF", "ON", "INIT", "RESUME", "SUSPEND"}
           \/ (isActive' => isActive) /\ UNCHANGED <<needsResume, wasActive>>
    BY <1>21, <1>3, <1>9, <1>10 DEF ResumeSkipped, Enter
  <2> QED
    BY <1>8, <2>1, <2>2
<1>22. CASE ResumeKeepsWake(t)
  <2>1. SleepOf(t)'
    BY <1>22, <1>2, <1>4, <1>5, <1>6, <1>7, <1>9, <1>10 DEF SleepOf, ResumeKeepsWake, Resumes, Enter
  <2>2. /\ t = Repl \/ ((initialized' => initialized) /\ (waking' => waking))
        /\ \/ Call(t) \in {"OFF", "ON", "INIT", "RESUME", "SUSPEND"}
           \/ (isActive' => isActive) /\ UNCHANGED <<needsResume, wasActive>>
    BY <1>22, <1>3, <1>9, <1>10 DEF ResumeKeepsWake, Resumes, Enter
  <2> QED
    BY <1>8, <2>1, <2>2
<1>23. CASE ResumeStart(t)
  <2>1. SleepOf(t)'
    BY <1>23, <1>2, <1>4, <1>5, <1>6, <1>7, <1>9, <1>10 DEF SleepOf, ResumeStart, Resumes, Enter
  <2>2. /\ t = Repl \/ ((initialized' => initialized) /\ (waking' => waking))
        /\ \/ Call(t) \in {"OFF", "ON", "INIT", "RESUME", "SUSPEND"}
           \/ (isActive' => isActive) /\ UNCHANGED <<needsResume, wasActive>>
    BY <1>23, <1>3, <1>9, <1>10 DEF ResumeStart, Resumes, Enter
  <2> QED
    BY <1>8, <2>1, <2>2
<1>25. CASE ResumeReset(t)
  <2>1. SleepOf(t)'
    BY <1>25, <1>2, <1>4, <1>5, <1>6, <1>7, <1>9, <1>10 DEF SleepOf, ResumeReset
  <2>2. /\ t = Repl \/ ((initialized' => initialized) /\ (waking' => waking))
        /\ \/ Call(t) \in {"OFF", "ON", "INIT", "RESUME", "SUSPEND"}
           \/ (isActive' => isActive) /\ UNCHANGED <<needsResume, wasActive>>
    BY <1>25, <1>3, <1>9, <1>10 DEF ResumeReset
  <2> QED
    BY <1>8, <2>1, <2>2
<1>26. CASE ResumeArms(t)
  <2>1. SleepOf(t)'
    BY <1>26, <1>2, <1>4, <1>5, <1>6, <1>7, <1>9, <1>10 DEF SleepOf, ResumeArms
  <2>2. /\ t = Repl \/ ((initialized' => initialized) /\ (waking' => waking))
        /\ \/ Call(t) \in {"OFF", "ON", "INIT", "RESUME", "SUSPEND"}
           \/ (isActive' => isActive) /\ UNCHANGED <<needsResume, wasActive>>
    BY <1>26, <1>3, <1>9, <1>10 DEF ResumeArms
  <2> QED
    BY <1>8, <2>1, <2>2
<1>24. CASE ResumeConfirm(t)
  <2>1. SleepOf(t)'
    BY <1>24, <1>2, <1>4, <1>5, <1>6, <1>7, <1>9, <1>10 DEF SleepOf, ResumeConfirm
  <2>2. /\ t = Repl \/ ((initialized' => initialized) /\ (waking' => waking))
        /\ \/ Call(t) \in {"OFF", "ON", "INIT", "RESUME", "SUSPEND"}
           \/ (isActive' => isActive) /\ UNCHANGED <<needsResume, wasActive>>
    BY <1>24, <1>3, <1>9, <1>10 DEF ResumeConfirm
  <2> QED
    BY <1>8, <2>1, <2>2
<1> QED
  BY <1>11, <1>12, <1>13, <1>14, <1>15, <1>16, <1>17, <1>18, <1>19, <1>20, <1>21, <1>22, <1>23,
     <1>24, <1>25, <1>26
     DEF CleanupStep, SuspendStep, ResumeStep

\* Every step keeps what sleeps rely on.
LEMMA StepSleep ==
  ASSUME CallInv, WakeInv, SleepInv, RegTypes, HistTypes, WakeTypes, [Next]_vars
  PROVE  SleepInv'
<1>1. CASE \E t \in Threads : CleanupStep(t) \/ SuspendStep(t) \/ ResumeStep(t)
  BY <1>1, CallbackSleeps
<1>2. CallInv'
  BY CallStep
<1>3. ASSUME Calm, UNCHANGED <<needsResume, initialized, wasActive>>, isActive' => isActive,
             waking' => waking
      PROVE  SleepInv'
  BY <1>2, <1>3, CalmSleeps
<1> USE DEF regVars, wakeVars, histVars
<1>4. CASE \E t \in Threads : CaptureStep(t)
  <2>1. Calm
    BY <1>4, CaptureCalls
  <2>2. UNCHANGED <<needsResume, initialized, wasActive, isActive, waking>>
    BY <1>4 DEF CaptureStep, CaptureCheck, CaptureWait, CaptureStart, CaptureFormat, CaptureAlloc,
                CaptureTrigger, CapturePc
  <2> QED
    BY <1>3, <2>1, <2>2
<1>5. CASE \E t \in Threads : \E o \in DOMAIN Calls : Begin(t, o)
  <2>1. Calm
    BY <1>5, BeginKeeps
  <2>2. UNCHANGED <<needsResume, initialized, wasActive, isActive, waking>>
    BY <1>5 DEF Begin
  <2> QED
    BY <1>3, <2>1, <2>2
<1>6. CASE CapStep \/ UNCHANGED vars
  <2>1. Calm
    BY <1>6, CapCalls
  <2>2. UNCHANGED <<needsResume, initialized, wasActive>>
    BY <1>6 DEF CapStep, Top, Taken, Stream, Dequeue, LastFrame, Process, Publish, StreamReset,
                WakeResume, Woken, WakeSuspend, Slept, CapFrame, vars
  <2>3. (isActive' => isActive) /\ (waking' => waking)
    <3>1. CASE WakeResume
      BY <3>1 DEF WakeResume
    <3>2. CASE Woken \/ Slept
      BY <3>2 DEF Woken, Slept
    <3>3. CASE Top \/ Taken \/ Stream \/ Dequeue \/ LastFrame \/ Process \/ Publish
               \/ StreamReset \/ WakeSuspend \/ UNCHANGED vars
      <4>1. UNCHANGED <<isActive, waking>>
        BY <3>3 DEF Top, Taken, Stream, Dequeue, LastFrame, Process, Publish, StreamReset,
                    WakeSuspend, wakeVars, regVars, vars
      <4> QED
        BY <4>1, Zenon
    <3> QED
      BY <1>6, <3>1, <3>2, <3>3 DEF CapStep
  <2> QED
    BY <1>3, <2>1, <2>2, <2>3
<1> QED
  BY <1>1, <1>4, <1>5, <1>6 DEF Next, ThreadStep

(***************************************************************************)
(* The theorems.                                                           *)
(***************************************************************************)
\* The inductive invariant.
IInv ==
  /\ CallInv /\ RegTypes /\ ThrTypes /\ BufTypes /\ WakeTypes /\ HistTypes /\ BoundTypes
  /\ ThreadInv /\ QueueInv /\ ReadyMeansStill /\ WakeInv /\ CancelInv /\ UpInv /\ SleepInv

\* The invariant holds at first.
LEMMA InitInv == Init => IInv
<1> SUFFICES ASSUME Init PROVE IInv
  OBVIOUS
<1>1. CallInv
  BY CallInit
<1>2. RegTypes /\ BufTypes /\ WakeTypes /\ HistTypes
  BY DEF Init, RegTypes, BufTypes, WakeTypes, HistTypes
<1>3. ThrTypes
  BY DEF Init, ThrTypes, CapLabels
<1>4. BoundTypes
  BY CameraAssumption DEF Init, BoundTypes, CameraAssumption
<1>5. ThreadInv /\ QueueInv /\ ReadyMeansStill
  BY DEF Init, ThreadInv, QueueInv, ReadyMeansStill
<1>6. ~Suspending /\ ~Confirming
  BY DEF Init, Suspending, Suspends, Confirming
<1>7. WakeInv /\ CancelInv /\ UpInv
  BY <1>6 DEF Init, WakeInv, CancelInv, UpInv, WakeStages, Still
<1>8. SleepInv
  BY DEF Init, SleepInv, Call
<1> QED
  BY <1>1, <1>2, <1>3, <1>4, <1>5, <1>7, <1>8 DEF IInv

\* Every step keeps it.
LEMMA StepInv == IInv /\ [Next]_vars => IInv'
<1> SUFFICES ASSUME IInv, [Next]_vars PROVE IInv'
  OBVIOUS
<1> USE DEF IInv
<1>1. CallInv'
  BY CallStep
<1>2. RegTypes' /\ ThrTypes' /\ BufTypes'
  BY StepTypes
<1>3. WakeTypes' /\ HistTypes'
  BY StepWakeTypes
<1>4. BoundTypes' /\ ThreadInv' /\ ReadyMeansStill' /\ QueueInv'
  BY StepBoundTypes, StepThread, StepReady, StepQueue
<1>5. WakeInv' /\ CancelInv' /\ UpInv'
  BY StepWake, StepCancel, StepUp
<1>6. SleepInv'
  BY StepSleep
<1> QED
  BY <1>1, <1>2, <1>3, <1>4, <1>5, <1>6

\* So it always holds.
LEMMA Inductive == Spec => []IInv
BY InitInv, StepInv, PTL DEF Spec

\* Every variable keeps its type and who makes a callback has the lock, for any threads.
THEOREM TypeCorrect == Spec => []TypeOK
<1>1. IInv => TypeOK
  <2> SUFFICES ASSUME IInv PROVE TypeOK
    OBVIOUS
  <2>1. /\ {isActive, needsResume, initialized, tid, shouldExit, ready, vbuf, formatted, queued,
            wakePending, waking, wakeCancel, wakeError, up} \subseteq BOOLEAN
        /\ {aborted, refused, dropped, wasActive, poweringOff} \subseteq BOOLEAN
    BY DEF IInv, RegTypes, ThrTypes, BufTypes, WakeTypes, HistTypes
  <2>2. /\ captureSem \in {0, 1} /\ cap \in CapLabels
        /\ left \in [Threads -> Nat] /\ faults \in Nat
    BY DEF IInv, ThrTypes, BoundTypes
  <2>3. \A t \in Threads : todo[t] \in Seq(Events)
    BY RestHead DEF IInv, CallInv
  <2>4. todo \in [Threads -> Seq(Events)]
    BY <2>3 DEF IInv, CallInv
  <2>5. /\ serviceLock \in Threads \cup {Nobody}
        /\ pc \in [Threads -> Labels] /\ op \in [Threads -> DOMAIN Calls \cup {"none"}]
        /\ \A t \in Threads :
             pc[t] \in {"suspending", "stop", "device", "reset", "arm", "confirm"}
               => serviceLock = t
    BY DEF IInv, CallInv, AllOps, MidLabels
  <2> QED
    BY <2>1, <2>2, <2>4, <2>5 DEF TypeOK
<1> QED
  BY <1>1, Inductive, PTL

\* With no callback and no wake under way the sensor is up in a camera out of power save,
\* and down in power save, but after a failed wake or suspend, once a thread was aborted, and
\* once a cleanup has dropped a cancelled wake: for any threads and any number of calls.
THEOREM SensorFollows == Spec => []UpIffActive
<1>1. IInv => UpIffActive
  <2> SUFFICES ASSUME IInv PROVE UpIffActive
    OBVIOUS
  <2>1. serviceLock = Nobody => ~Suspending /\ ~Confirming
    BY CameraAssumption
       DEF IInv, CallInv, MidLabels, Suspending, Suspends, Confirming, CameraAssumption
  <2> QED
    BY <2>1 DEF IInv, UpInv, Still, UpIffActive, UsableMeansUp, Settled
<1> QED
  BY <1>1, Inductive, PTL

\* No frame is offered while the capture thread takes or encodes the next.
THEOREM FrameIsStill == Spec => []ReadyMeansStill
<1>1. IInv => ReadyMeansStill
  BY DEF IInv
<1> QED
  BY <1>1, Inductive, PTL

\* What a cleanup may not free.
Freed == \E t \in Threads : pc[t] = "stop" /\ pc'[t] # "stop" /\ vbuf /\ ~vbuf'

\* Whoever stopped the thread, the driver does not hold what is freed.
LEMMA StepFrees ==
  ASSUME CallInv, QueueInv, [Next]_vars
  PROVE  Freed => ~queued \/ aborted
<1> USE DEF regVars, thrVars, bufVars, wakeVars, callVars, boundVars, histVars, Freed, QueueInv
<1>1. CASE Top
  BY <1>1 DEF Top, Cap, CapFrame
<1>2. CASE Taken
  BY <1>2 DEF Taken, Cap, CapFrame
<1>3. CASE Stream
  BY <1>3 DEF Stream, Cap, CapFrame
<1>4. CASE Dequeue
  BY <1>4 DEF Dequeue, Cap, CapFrame
<1>5. CASE LastFrame
  BY <1>5 DEF LastFrame, Cap, CapFrame
<1>6. CASE Process
  BY <1>6 DEF Process, Cap, CapFrame
<1>7. CASE StreamReset
  BY <1>7 DEF StreamReset, Cap, CapFrame
<1>8. CASE WakeResume
  BY <1>8 DEF WakeResume, Cap, CapFrame
<1>9. CASE Woken
  BY <1>9 DEF Woken, Cap, CapFrame
<1>10. CASE WakeSuspend
  BY <1>10 DEF WakeSuspend, Cap, DeviceSuspend, CapFrame
<1>11. CASE Slept
  BY <1>11 DEF Slept, Cap, CapFrame
<1>12. CASE \E t \in Threads : CaptureStep(t)
  <2> PICK t \in Threads : CaptureStep(t)
    BY <1>12
  <2>1. CASE CaptureCheck(t)
    BY <2>1 DEF CaptureCheck, CapturePc
  <2>2. CASE CaptureWait(t)
    BY <2>2 DEF CaptureWait, CapturePc
  <2>3. CASE CaptureStart(t)
    BY <2>3 DEF CaptureStart, ThreadStart, CapturePc
  <2>4. CASE CaptureFormat(t)
    BY <2>4 DEF CaptureFormat, CapturePc
  <2>5. CASE CaptureAlloc(t)
    <3>1. pc[t] = "alloc" /\ \A u \in Threads \ {t} : pc'[u] = pc[u]
      BY <2>5 DEF CaptureAlloc, CapturePc, Goto, CallInv
    <3> QED
      BY <3>1
  <2>6. CASE CaptureTrigger(t)
    BY <2>6 DEF CaptureTrigger, CapturePc
  <2> QED
    BY <2>1, <2>2, <2>3, <2>4, <2>5, <2>6 DEF CaptureStep
<1>13. CASE \E t \in Threads : CleanupStep(t)
  <2> PICK t \in Threads : CleanupStep(t)
    BY <1>13
  <2>1. CASE CleanupBegin(t)
    BY <2>1 DEF CleanupBegin, Signal
  <2>2. CASE CleanupDone(t)
    BY <2>2 DEF CleanupDone, Stopped, Joined, AbortWaiting, Hangs
  <2>3. CASE CleanupUnclean(t)
    BY <2>3 DEF CleanupUnclean, AbortCapturing, Hangs
  <2>4. CASE Initialize(t)
    BY <2>4 DEF Initialize, DeviceSuspend
  <2> QED
    BY <2>1, <2>2, <2>3, <2>4 DEF CleanupStep
<1>14. CASE \E t \in Threads : SuspendStep(t)
  <2> PICK t \in Threads : SuspendStep(t)
    BY <1>14
  <2>1. CASE SuspendBegin(t)
    BY <2>1 DEF SuspendBegin
  <2>2. CASE SuspendCancels(t)
    BY <2>2 DEF SuspendCancels
  <2>3. CASE SuspendStops(t)
    BY <2>3 DEF SuspendStops, Signal
  <2>4. CASE SuspendStopped(t)
    BY <2>4 DEF SuspendStopped, Stopped, Joined, AbortWaiting, Hangs
  <2>5. CASE SuspendUnclean(t)
    BY <2>5 DEF SuspendUnclean, AbortCapturing, Hangs
  <2>6. CASE SuspendDevice(t)
    BY <2>6 DEF SuspendDevice, DeviceSuspend
  <2> QED
    BY <2>1, <2>2, <2>3, <2>4, <2>5, <2>6 DEF SuspendStep
<1>15. CASE \E t \in Threads : ResumeStep(t)
  <2> PICK t \in Threads : ResumeStep(t)
    BY <1>15
  <2>1. CASE ResumeSkipped(t)
    BY <2>1 DEF ResumeSkipped
  <2>2. CASE ResumeKeepsWake(t)
    BY <2>2 DEF ResumeKeepsWake
  <2>3. CASE ResumeStart(t)
    BY <2>3 DEF ResumeStart, ThreadStart
  <2>4. CASE ResumeConfirm(t)
    BY <2>4 DEF ResumeConfirm
  <2>5. CASE ResumeReset(t)
    BY <2>5 DEF ResumeReset
  <2>6. CASE ResumeArms(t)
    BY <2>6 DEF ResumeArms
  <2> QED
    BY <2>1, <2>2, <2>3, <2>4, <2>5, <2>6 DEF ResumeStep
<1>16. CASE \E t \in Threads : \E o \in DOMAIN Calls : Begin(t, o)
  BY <1>16 DEF Begin
<1>17. CASE UNCHANGED vars
  BY <1>17 DEF vars
<1>18. CASE Publish
  BY <1>18 DEF Publish, Cap, CapFrame
<1> QED
  BY <1>1, <1>2, <1>3, <1>4, <1>5, <1>6, <1>7, <1>8, <1>9, <1>10, <1>11, <1>12, <1>13, <1>14,
     <1>15, <1>16, <1>17, <1>18
     DEF Next, ThreadStep, CapStep

\* Until a capture thread was aborted, a cleanup frees no buffer that the driver holds, at
\* whatever stage of a capture the thread was stopped.  Not what capture() itself releases.
THEOREM BufferHeld == Spec => BufferStays
<1>1. IInv /\ [Next]_vars =>
        [\A t \in Threads : pc[t] = "stop" /\ pc'[t] # "stop" /\ vbuf /\ ~vbuf'
           => ~queued \/ aborted]_vars
  BY StepFrees DEF IInv, Freed
<1> QED
  BY <1>1, Inductive, PTL DEF Spec, BufferStays

\* The camera as the sleep found it, when t is resumed.
GivesBack(t) == todo[t] = <<"RESUME">> /\ todo'[t] = <<>> => isActive' = wasActive

\* The callbacks that may end a RESUME give the camera back.
LEMMA ResumeGives ==
  ASSUME IInv, NEW t \in Threads, CleanupStep(t) \/ SuspendStep(t) \/ ResumeStep(t),
         todo[t] = <<"RESUME">>, todo'[t] = <<>>
  PROVE  isActive' = wasActive
<1>1. Call(t) = "RESUME" /\ todo # todo'
  BY DEF Call
<1>2. /\ pc[t] \in {"suspending", "device"} => Call(t) \in {"SUSPEND", "OFF"}
      /\ isActive \in BOOLEAN /\ needsResume \in BOOLEAN /\ wasActive \in BOOLEAN
  BY Placed DEF IInv, CallInv, Fits, RegTypes, HistTypes
<1>3. SleepOf(t)
  BY DEF IInv, SleepInv, SleepOf
<1>4. ResumeStep(t)
  BY <1>1, <1>2 DEF CleanupStep, CleanupBegin, CleanupDone, CleanupUnclean, Initialize, Enter,
     SuspendStep, SuspendBegin, SuspendCancels, SuspendStops, SuspendStopped, SuspendUnclean,
     SuspendDevice
<1>5. CASE ResumeSkipped(t)
  BY <1>1, <1>2, <1>3, <1>5 DEF ResumeSkipped, Enter, SleepOf
<1>6. CASE ResumeKeepsWake(t)
  BY <1>1, <1>2, <1>3, <1>6 DEF ResumeKeepsWake, Resumes, Enter, SleepOf
<1>7. CASE ResumeStart(t) \/ ResumeReset(t) \/ ResumeArms(t)
  BY <1>1, <1>7 DEF ResumeStart, ResumeReset, ResumeArms
<1>8. CASE ResumeConfirm(t)
  BY <1>1, <1>3, <1>8 DEF ResumeConfirm, SleepOf
<1> QED
  BY <1>4, <1>5, <1>6, <1>7, <1>8 DEF ResumeStep

\* A standby that resumes gives is_active back as it found it.
THEOREM StandbyRestores == Spec => CameraComesBack
<1>1. ASSUME IInv, [Next]_vars, NEW t \in Threads PROVE GivesBack(t)
  <2> SUFFICES ASSUME todo[t] = <<"RESUME">>, todo'[t] = <<>> PROVE isActive' = wasActive
    BY DEF GivesBack
  <2>0. CallInv /\ todo'[t] # todo[t]
    BY <1>1 DEF IInv
  <2>1. CASE \E u \in Threads : CleanupStep(u) \/ SuspendStep(u) \/ ResumeStep(u)
    <3> PICK u \in Threads : CleanupStep(u) \/ SuspendStep(u) \/ ResumeStep(u)
      BY <2>1
    <3>1. Kept(u)
      BY <2>0, CallbackKeeps
    <3>2. u = t
      BY <2>0, <3>1 DEF Kept, Only
    <3> QED
      BY <1>1, <3>2, ResumeGives
  <2>2. CASE \E u \in Threads : CaptureStep(u)
    <3>1. todo' = todo
      BY <2>2 DEF CaptureStep, CaptureCheck, CaptureWait, CaptureStart, CaptureFormat,
                  CaptureAlloc, CaptureTrigger, CapturePc
    <3> QED
      BY <2>0, <3>1
  <2>3. CASE \E u \in Threads : \E o \in DOMAIN Calls : Begin(u, o)
    <3> PICK u \in Threads, o \in DOMAIN Calls : Begin(u, o)
      BY <2>3
    <3>1. u = t
      BY <2>0 DEF Begin, CallInv
    <3>2. pc[t] = "free"
      BY <3>1 DEF Begin
    <3>3. todo[t] = <<>>
      BY <2>0, <3>2, RestOf DEF CallInv, Fits
    <3>4. <<"RESUME">> # <<>>
      OBVIOUS
    <3> QED
      BY <3>3, <3>4, Zenon
  <2>4. CASE CapStep \/ UNCHANGED vars
    <3>1. todo' = todo
      BY <2>4 DEF CapStep, Top, Taken, Stream, Dequeue, LastFrame, Process, Publish, StreamReset,
                  WakeResume, Woken, WakeSuspend, Slept, CapFrame, callVars, vars
    <3> QED
      BY <2>0, <3>1
  <2> QED
    BY <1>1, <2>1, <2>2, <2>3, <2>4 DEF Next, ThreadStep
<1>2. IInv /\ [Next]_vars =>
        [\A t \in Threads : todo[t] = <<"RESUME">> /\ todo'[t] = <<>> => isActive' = wasActive]_vars
  BY <1>1 DEF GivesBack
<1> QED
  BY <1>2, Inductive, PTL DEF Spec, CameraComesBack
=============================================================================
