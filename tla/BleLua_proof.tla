---------------------------- MODULE BleLua_proof ----------------------------
(***************************************************************************)
(* Proofs about BleLua: for any workloads, any number of chunks, rings of  *)
(* any size and any buffers; but for OneAtATime with and without           *)
(* SlowReconnect.                                                          *)
(***************************************************************************)
EXTENDS BleLua, SequenceTheorems, TLAPS

(***************************************************************************)
(* Facts about single operations.                                          *)
(***************************************************************************)
\* A call that begins is counted.
LEMMA BeginFacts ==
  ASSUME TypeOK, NEW t \in Threads, NEW o \in OpNames, Begin(t, o)
  PROVE  pc[t] = "idle" /\ left' \in [Threads -> [OpNames -> Nat]]
<1>1. left[t] \in [OpNames -> Nat] /\ left[t][o] \in Nat \ {0}
  BY DEF Begin, TypeOK
<1>2. left' = [left EXCEPT ![t] = [left[t] EXCEPT ![o] = left[t][o] - 1]]
  BY Zenon DEF Begin
<1>3. [left[t] EXCEPT ![o] = left[t][o] - 1] \in [OpNames -> Nat]
  BY <1>1
<1> QED
  BY <1>2, <1>3 DEF Begin, At, TypeOK

\* What a give does: it moves the threads that wait for it, and nobody else, and
\* leaves the unit behind where nobody waits.
Moves(cs, rs, moved) ==
  /\ \A t \in Threads \ (Senders \cup Readers) : pc'[t] = moved[t]
  /\ \A t \in Threads : \/ pc'[t] = moved[t]
                        \/ pc[t] = "sWait" /\ pc'[t] = "sCheck"
                        \/ pc[t] = "rWait" /\ pc'[t] = "rCheck"
  /\ \A t \in Senders :
       pc[t] = "sWait" => pc'[t] = IF ChannelOf(t) \in cs THEN "sCheck" ELSE moved[t]
  /\ \A t \in Readers :
       pc[t] = "rWait" => pc'[t] = IF RingOf(t) \in rs THEN "rCheck" ELSE moved[t]
Units(cs, rs) ==
  /\ \A t \in Senders :
       /\ ChannelOf(t) \in cs /\ pc[t] # "sWait" => ntfSem'[ChannelOf(t)] = 1
       /\ ChannelOf(t) \notin cs \/ pc[t] = "sWait" => ntfSem'[ChannelOf(t)] = ntfSem[ChannelOf(t)]
  /\ \A t \in Readers :
       /\ RingOf(t) \in rs /\ pc[t] # "rWait" => rxSem'[RingOf(t)] = 1
       /\ RingOf(t) \notin rs \/ pc[t] = "rWait" => rxSem'[RingOf(t)] = rxSem[RingOf(t)]
GiveTypes ==
  pc' \in [Threads -> Labels] /\ ntfSem' \in [Channels -> {0, 1}] /\ rxSem' \in [Rings -> {0, 1}]

\* k_sem_give does just that.
LEMMA GiveFacts ==
  ASSUME TypeOK, NEW cs \in SUBSET Channels, NEW rs \in SUBSET Rings,
         NEW moved \in [Threads -> Labels], Give(cs, rs, moved)
  PROVE  GiveTypes /\ Moves(cs, rs, moved) /\ Units(cs, rs)
<1> USE BleLuaAssumption DEF BleLuaAssumption, Senders, Readers, Threads, Channels, Rings
<1> DEFINE woken == Served(cs, rs)
<1>1. \A t \in Threads : t \in woken <=>
        \/ t \in Senders /\ pc[t] = "sWait" /\ ChannelOf(t) \in cs
        \/ t \in Readers /\ pc[t] = "rWait" /\ RingOf(t) \in rs
  BY DEF Served
<1>2. pc' = [t \in Threads |-> IF t \notin woken THEN moved[t]
                              ELSE IF pc[t] = "sWait" THEN "sCheck" ELSE "rCheck"]
  BY Zenon DEF Give
<1>3. \A t \in Threads :
        pc'[t] = IF t \notin woken THEN moved[t]
                 ELSE IF pc[t] = "sWait" THEN "sCheck" ELSE "rCheck"
  BY <1>2
<1>4. pc' \in [Threads -> Labels]
  BY <1>2 DEF Labels, SendLabels, ReadLabels
<1>5. /\ ntfSem' = [c \in Channels |->
           IF c \in cs /\ ~\E t \in woken : pc[t] = "sWait" /\ ChannelOf(t) = c THEN 1 ELSE ntfSem[c]]
      /\ rxSem' = [r \in Rings |->
           IF r \in rs /\ ~\E t \in woken : pc[t] = "rWait" /\ RingOf(t) = r THEN 1 ELSE rxSem[r]]
  BY Zenon DEF Give
<1>6. ntfSem' \in [Channels -> {0, 1}] /\ rxSem' \in [Rings -> {0, 1}]
  BY <1>5 DEF TypeOK
<1>7. /\ \A t \in Senders : ChannelOf(t) \in Channels
      /\ \A t, u \in Senders : ChannelOf(t) = ChannelOf(u) => t = u
      /\ \A t \in Readers : RingOf(t) \in Rings
      /\ \A t, u \in Readers : RingOf(t) = RingOf(u) => t = u
  BY DEF ChannelOf, RingOf
<1>8. woken \subseteq Threads
  BY DEF Served
<1> HIDE DEF woken
<1>9. \A t \in Senders :
        /\ ChannelOf(t) \in cs /\ pc[t] # "sWait" => ntfSem'[ChannelOf(t)] = 1
        /\ ChannelOf(t) \notin cs \/ pc[t] = "sWait" => ntfSem'[ChannelOf(t)] = ntfSem[ChannelOf(t)]
  <2> TAKE t \in Senders
  <2>1. CASE ChannelOf(t) \in cs /\ pc[t] # "sWait"
    BY <1>1, <1>5, <1>7, <1>8, <2>1
  <2>2. CASE ChannelOf(t) \notin cs
    BY <1>5, <1>7, <2>2
  <2>3. CASE ChannelOf(t) \in cs /\ pc[t] = "sWait"
    <3>1. t \in woken
      BY <1>1, <2>3
    <3> QED
      BY <1>5, <1>7, <2>3, <3>1
  <2> QED
    BY <2>1, <2>2, <2>3
<1>10. \A t \in Readers :
        /\ RingOf(t) \in rs /\ pc[t] # "rWait" => rxSem'[RingOf(t)] = 1
        /\ RingOf(t) \notin rs \/ pc[t] = "rWait" => rxSem'[RingOf(t)] = rxSem[RingOf(t)]
  <2> TAKE t \in Readers
  <2>1. CASE RingOf(t) \in rs /\ pc[t] # "rWait"
    BY <1>1, <1>5, <1>7, <1>8, <2>1
  <2>2. CASE RingOf(t) \notin rs
    BY <1>5, <1>7, <2>2
  <2>3. CASE RingOf(t) \in rs /\ pc[t] = "rWait"
    <3>1. t \in woken
      BY <1>1, <2>3
    <3> QED
      BY <1>5, <1>7, <2>3, <3>1
  <2> QED
    BY <2>1, <2>2, <2>3
<1>11. \A t \in Threads : \/ pc'[t] = moved[t]
                          \/ pc[t] = "sWait" /\ pc'[t] = "sCheck"
                          \/ pc[t] = "rWait" /\ pc'[t] = "rCheck"
  BY <1>1, <1>3
<1>12. \A t \in Threads \ (Senders \cup Readers) : pc'[t] = moved[t]
  BY <1>1, <1>3
<1>13. /\ \A t \in Senders :
            pc[t] = "sWait" => pc'[t] = IF ChannelOf(t) \in cs THEN "sCheck" ELSE moved[t]
       /\ \A t \in Readers :
            pc[t] = "rWait" => pc'[t] = IF RingOf(t) \in rs THEN "rCheck" ELSE moved[t]
  BY <1>1, <1>3
<1> QED
  BY <1>4, <1>6, <1>9, <1>10, <1>11, <1>12, <1>13, Zenon DEF GiveTypes, Moves, Units

\* Every sender has a channel of its own, every reader a ring of its own.
LEMMA ChannelFacts ==
  /\ \A t \in Senders : t \in Threads /\ ChannelOf(t) \in Channels
  /\ \A t, u \in Senders : ChannelOf(t) = ChannelOf(u) => t = u
  /\ \A t \in Readers : t \in Threads /\ RingOf(t) \in Rings
  /\ \A t, u \in Readers : RingOf(t) = RingOf(u) => t = u
  /\ NoThread \notin Threads
  BY BleLuaAssumption
     DEF BleLuaAssumption, ChannelOf, RingOf, Senders, Readers, Threads, Channels, Rings

\* All the places a thread can be at.
LEMMA LabelFacts ==
  {"idle", "sLink", "sLock", "sTake", "sWait", "sCheck", "sSend", "sUnlock", "rTake", "rWait",
   "rCheck", "rGet", "rFinish", "rLook", "rGive", "nHead", "nGet", "nBody", "vFlush", "zAlloc",
   "zSwap", "zFree", "cLink", "cGive", "cUnregister", "cSwap", "cFree"} \subseteq Labels
  BY DEF Labels, SendLabels, ReadLabels, DrainLabels, ResizeLabels, CloseLabels

(***************************************************************************)
(* Type correctness.                                                       *)
(***************************************************************************)
\* A write that is under way has something left to send.
ChunksLeft ==
  \A t \in Senders : pc[t] \in SendLabels \ {"sUnlock"} => chunks[t] > 0

\* The type invariant, made inductive.
TypeInv == TypeOK /\ ChunksLeft

\* The initial state is well typed.
LEMMA TypeInit == Init => TypeInv
<1> SUFFICES ASSUME Init PROVE TypeInv
  OBVIOUS
<1>1. initialized \in BOOLEAN /\ registered \in BOOLEAN /\ conidx \in BOOLEAN
      /\ link \in BOOLEAN /\ pending \in BOOLEAN
  BY Zenon DEF Init
<1>2. left \in [Threads -> [OpNames -> Nat]]
  BY BleLuaAssumption, Zenon DEF Init, BleLuaAssumption
<1>3. pc \in [Threads -> Labels] /\ \A t \in Threads : pc[t] = "idle"
  BY DEF Init, Labels
<1>4. ntfSem \in [Channels -> {0, 1}] /\ chunks \in [Senders -> 0..MaxChunks]
      /\ inFlight \in [Channels -> Nat] /\ stale \in [Channels -> Nat]
      /\ rx \in [Rings -> Nat] /\ rxSem \in [Rings -> {0, 1}] /\ claimed \subseteq Rings
      /\ ccc \subseteq Channels /\ frames \in Nat /\ delivered \in Nat
  BY BleLuaAssumption DEF Init, BleLuaAssumption
<1>5. dataRing \in Seq([kind : {"length", "payload"}, of : Nat])
  BY DEF Init
<1>6. dataBuf \in Bufs \cup {NoBuf} /\ ringBuf \in Bufs /\ heap \subseteq Bufs
      /\ held \in [{Repl, Closer} -> Bufs \cup {NoBuf}]
  BY BleLuaAssumption DEF Init, BleLuaAssumption
<1>7. writeLock = NoThread /\ dataLock = NoThread /\ Repl \in Threads
  BY DEF Init, Threads
<1> QED
  BY <1>1, <1>2, <1>3, <1>4, <1>5, <1>6, <1>7, ChannelFacts
     DEF TypeInv, ChunksLeft, TypeOK, SendLabels, Senders, Threads

\* A step of a sender preserves the types.
LEMMA TypeSend ==
  ASSUME TypeInv, NEW t \in Senders, SendBegin(t) \/ SendStep(t)
  PROVE  TypeInv'
<1> USE BleLuaAssumption, ChannelFacts, LabelFacts
    DEF BleLuaAssumption, TypeInv, ChunksLeft, TypeOK, At, Goto, linkVars, sendVars, stackVars,
        ringVars, dataVars, SendLabels
<1>1. CASE SendBegin(t)
  <2>1. left' \in [Threads -> [OpNames -> Nat]] /\ pc[t] = "idle"
    BY <1>1, BeginFacts DEF SendBegin, OpNames
  <2>2. PICK n \in 1..MaxChunks : chunks' = [chunks EXCEPT ![t] = n]
    BY <1>1, Zenon DEF SendBegin
  <2>3. /\ pc' = [pc EXCEPT ![t] = "sLink"]
        /\ UNCHANGED <<linkVars, ntfSem, writeLock, stackVars, ringVars, dataVars>>
    BY <1>1, Zenon DEF SendBegin
  <2>4. chunks' \in [Senders -> 0..MaxChunks] /\ pc' \in [Threads -> Labels]
    BY <2>2, <2>3
  <2>5. \A u \in Senders : u # t => pc'[u] = pc[u] /\ chunks'[u] = chunks[u]
    BY <2>2, <2>3
  <2>6. pc'[t] = "sLink" /\ chunks'[t] = n
    BY <2>2, <2>3
  <2>7. ASSUME NEW u \in Senders, pc'[u] \in SendLabels \ {"sUnlock"}
        PROVE  chunks'[u] > 0
    <3>1. CASE u = t
      BY <2>6, <2>7, <3>1
    <3>2. CASE u # t
      <4>1. chunks'[u] = chunks[u] /\ pc'[u] = pc[u]
        BY <2>5, <3>2
      <4>2. chunks[u] > 0
        BY <2>7, <4>1
      <4> QED
        BY <4>1, <4>2
    <3> QED
      BY <3>1, <3>2
  <2>8. \A u \in Senders : writeLock' = u <=> pc'[u] \in SendLabels \ {"sLink", "sLock"}
    BY <2>1, <2>3, <2>5, <2>6
  <2>9. pc'[Repl] = "nBody" <=> pc[Repl] = "nBody"
    BY <2>1, <2>3, <2>6 DEF Threads
  <2> QED
    BY <2>1, <2>3, <2>4, <2>7, <2>8, <2>9
<1>2. CASE SendLink(t)
  BY <1>2 DEF SendLink, Pass, Senders, Threads
<1>3. CASE SendLock(t)
  BY <1>3 DEF SendLock, Senders, Threads
<1>4. CASE SendTake(t)
  BY <1>4 DEF SendTake, Senders, Threads
<1>5. CASE SendCheck(t)
  <2>1. CASE Pass(t, "sCheck", "sSend")
    BY <2>1 DEF Pass, Senders, Threads
  <2>2. CASE /\ At(t, "sCheck") /\ GiveBack(t) /\ Goto(t, "sUnlock")
             /\ UNCHANGED <<linkVars, writeLock, chunks, stackVars, ringVars, dataVars, left>>
    BY <2>2 DEF GiveBack, Senders, Threads
  <2> QED
    BY <1>5, <2>1, <2>2 DEF SendCheck
<1>6. CASE SendOk(t)
  <2>1. /\ pc[t] = "sSend" /\ inFlight' = [inFlight EXCEPT ![ChannelOf(t)] = @ + 1]
        /\ chunks' = [chunks EXCEPT ![t] = @ - 1]
        /\ pc' = [pc EXCEPT ![t] = IF chunks[t] = 1 THEN "sUnlock" ELSE "sTake"]
        /\ UNCHANGED <<linkVars, ntfSem, writeLock, link, stale, ringVars, dataVars, left>>
    BY <1>6, Zenon DEF SendOk
  <2>2. chunks[t] \in 0..MaxChunks /\ chunks[t] > 0
    <3>1. pc[t] \in SendLabels \ {"sUnlock"}
      BY <2>1
    <3> QED
      BY <3>1
  <2>3. /\ chunks' \in [Senders -> 0..MaxChunks] /\ inFlight' \in [Channels -> Nat]
        /\ pc' \in [Threads -> Labels]
    BY <2>1, <2>2
  <2>4. \A u \in Senders : u # t => pc'[u] = pc[u] /\ chunks'[u] = chunks[u]
    BY <2>1
  <2>5. /\ chunks'[t] = chunks[t] - 1
        /\ pc'[t] = IF chunks[t] = 1 THEN "sUnlock" ELSE "sTake"
    BY <2>1
  <2>6. ASSUME NEW u \in Senders, pc'[u] \in SendLabels \ {"sUnlock"}
        PROVE  chunks'[u] > 0
    <3>1. CASE u = t
      BY <2>2, <2>5, <2>6, <3>1
    <3>2. CASE u # t
      <4>1. chunks'[u] = chunks[u] /\ pc'[u] = pc[u]
        BY <2>4, <3>2
      <4>2. chunks[u] > 0
        BY <2>6, <4>1
      <4> QED
        BY <4>1, <4>2
    <3> QED
      BY <3>1, <3>2
  <2>7. \A u \in Senders : writeLock' = u <=> pc'[u] \in SendLabels \ {"sLink", "sLock"}
    BY <2>1, <2>4, <2>5
  <2>8. pc'[Repl] = "nBody" <=> pc[Repl] = "nBody"
    BY <2>1, <2>5 DEF Threads
  <2> QED
    BY <2>1, <2>3, <2>6, <2>7, <2>8
<1>7. CASE SendFails(t)
  BY <1>7 DEF SendFails, GiveBack, Senders, Threads
<1>8. CASE SendUnlock(t)
  BY <1>8 DEF SendUnlock, Senders, Threads
<1> QED
  BY <1>1, <1>2, <1>3, <1>4, <1>5, <1>6, <1>7, <1>8 DEF SendStep

\* The host gives without moving any program counter but those of who waits.
LEMMA HostGive ==
  ASSUME TypeInv, NEW cs \in SUBSET Channels, NEW rs \in SUBSET Rings, Give(cs, rs, pc)
  PROVE  /\ pc' \in [Threads -> Labels]
         /\ ntfSem' \in [Channels -> {0, 1}] /\ rxSem' \in [Rings -> {0, 1}]
         /\ \A t \in Senders : pc'[t] \in SendLabels \ {"sLink", "sLock"}
                                 <=> pc[t] \in SendLabels \ {"sLink", "sLock"}
         /\ \A t \in Senders : pc'[t] \in SendLabels \ {"sUnlock"}
                                 <=> pc[t] \in SendLabels \ {"sUnlock"}
         /\ pc'[Repl] = "nBody" <=> pc[Repl] = "nBody"
<1>1. TypeOK /\ pc \in [Threads -> Labels]
  BY DEF TypeInv, TypeOK
<1>2. GiveTypes /\ Moves(cs, rs, pc)
  BY <1>1, GiveFacts, Zenon
<1> QED
  BY <1>2, ChannelFacts DEF GiveTypes, Moves, SendLabels, Threads

\* So does what the stack and the host do.
LEMMA TypeHost ==
  ASSUME TypeInv, HostCall \/ StackStep
  PROVE  TypeInv'
<1> USE BleLuaAssumption, ChannelFacts, LabelFacts
    DEF BleLuaAssumption, TypeInv, ChunksLeft, TypeOK, linkVars, sendVars, stackVars, ringVars,
        dataVars, SendLabels
<1> DEFINE GiveKept ==
      /\ pc' \in [Threads -> Labels]
      /\ ntfSem' \in [Channels -> {0, 1}] /\ rxSem' \in [Rings -> {0, 1}]
      /\ \A t \in Senders : pc'[t] \in SendLabels \ {"sLink", "sLock"}
                              <=> pc[t] \in SendLabels \ {"sLink", "sLock"}
      /\ \A t \in Senders : pc'[t] \in SendLabels \ {"sUnlock"}
                              <=> pc[t] \in SendLabels \ {"sUnlock"}
      /\ pc'[Repl] = "nBody" <=> pc[Repl] = "nBody"
<1>1. Host \in Threads /\ Repl \in Threads
  BY DEF Threads
<1>2. ASSUME NEW o \in OpNames, Begin(Host, o)
      PROVE  left' \in [Threads -> [OpNames -> Nat]]
  BY <1>1, <1>2, BeginFacts
<1>4. CASE Connect
  <2>1. left' \in [Threads -> [OpNames -> Nat]] /\ registered \in BOOLEAN
    BY <1>2, <1>4 DEF Connect, OpNames
  <2>2. link' = TRUE /\ conidx' \in BOOLEAN
    BY <1>4, <2>1, Zenon DEF Connect
  <2> QED
    BY <1>4, <2>1, <2>2 DEF Connect
<1>5. ASSUME LinkLost
      PROVE  /\ left' \in [Threads -> [OpNames -> Nat]] /\ link' \in BOOLEAN
             /\ inFlight' \in [Channels -> Nat] /\ stale' \in [Channels -> Nat]
  <2>1. left' \in [Threads -> [OpNames -> Nat]]
    BY <1>2, <1>5 DEF LinkLost, OpNames
  <2>2. link' = FALSE /\ inFlight' = [c \in Channels |-> 0]
    BY <1>5, Zenon DEF LinkLost
  <2>3. stale' \in [Channels -> Nat]
    BY <1>5 DEF LinkLost
  <2> QED
    BY <2>1, <2>2, <2>3
<1>6. CASE Disconnect
  <2>1. Give(Channels, {}, pc) /\ LinkLost /\ conidx' \in BOOLEAN
    BY <1>6, Zenon DEF Disconnect
  <2>2. rx' \in [Rings -> Nat] /\ dataRing' = <<>> /\ ccc' = {}
    BY <1>6 DEF Disconnect
  <2>3. dataRing' \in Seq([kind : {"length", "payload"}, of : Nat])
    BY <2>2
  <2>4. UNCHANGED <<initialized, registered, writeLock, chunks, claimed, ringBuf, dataLock, dataBuf,
                    heap, held, pending, frames, delivered>>
    BY <1>6, Zenon DEF Disconnect
  <2>5. GiveKept
    BY <2>1, HostGive, Zenon DEF TypeInv
  <2> QED
    BY <1>5, <2>1, <2>2, <2>3, <2>4, <2>5
<1>7. CASE DisconnectUnheard
  BY <1>5, <1>7 DEF DisconnectUnheard
<1>8. ASSUME NEW c \in Channels, CccWrite(c)
      PROVE  TypeInv'
  <2>1. left' \in [Threads -> [OpNames -> Nat]]
    BY <1>2, <1>8 DEF CccWrite, OpNames
  <2> QED
    BY <1>8, <2>1 DEF CccWrite
<1>9. ASSUME NEW r \in Rings, Put(r), left' \in [Threads -> [OpNames -> Nat]]
      PROVE  TypeInv'
  <2>1. Give({}, {r}, pc) /\ rx' \in [Rings -> Nat]
    BY <1>9 DEF Put
  <2>2. UNCHANGED <<linkVars, writeLock, chunks, stackVars, claimed, dataVars>>
    BY <1>9, Zenon DEF Put
  <2>3. GiveKept
    <3>1. {} \in SUBSET Channels /\ {r} \in SUBSET Rings
      OBVIOUS
    <3> QED
      BY <2>1, <3>1, HostGive, Zenon
  <2> QED
    BY <1>9, <2>1, <2>2, <2>3
<1>10. CASE WriteLine
  <2>1. Put("repl") /\ left' \in [Threads -> [OpNames -> Nat]] /\ "repl" \in Rings
    BY <1>2, <1>10 DEF WriteLine, OpNames, Rings
  <2> QED
    BY <1>9, <2>1
<1>11. CASE WriteAudio
  <2>1. Put("audio") /\ left' \in [Threads -> [OpNames -> Nat]] /\ "audio" \in Rings
    BY <1>2, <1>11 DEF WriteAudio, OpNames, Rings
  <2> QED
    BY <1>9, <2>1
<1>12. CASE WriteFrame
  <2>1. left' \in [Threads -> [OpNames -> Nat]] /\ frames' \in Nat
    BY <1>2, <1>12 DEF WriteFrame, OpNames
  <2>2. /\ dataRing' \in Seq([kind : {"length", "payload"}, of : Nat])
        /\ pending' \in BOOLEAN
    <3> DEFINE Cell == [kind : {"length", "payload"}, of : Nat]
    <3>1. <<[kind |-> "length", of |-> frames'], [kind |-> "payload", of |-> frames']>> \in Seq(Cell)
      BY <2>1
    <3>2. CASE Len(dataRing) < 2 * Cap
      <4>1. dataRing' = dataRing \o <<[kind |-> "length", of |-> frames'],
                                      [kind |-> "payload", of |-> frames']>>
            /\ pending' = TRUE
        BY <1>12, <3>2, Zenon DEF WriteFrame
      <4>2. dataRing' \in Seq(Cell)
        <5>1. dataRing \in Seq(Cell)
          OBVIOUS
        <5> HIDE DEF Cell, TypeOK
        <5> QED
          BY <3>1, <4>1, <5>1
      <4> QED
        BY <4>1, <4>2
    <3>3. CASE ~(Len(dataRing) < 2 * Cap)
      BY <1>12, <3>3, Zenon DEF WriteFrame
    <3> QED
      BY <3>2, <3>3
  <2>3. UNCHANGED <<linkVars, sendVars, stackVars, ringVars, ringBuf, dataLock, dataBuf, heap,
                    held, delivered, pc>>
    BY <1>12, Zenon DEF WriteFrame
  <2> QED
    BY <2>1, <2>2, <2>3
<1>13. CASE WriteControl
  <2>1. left' \in [Threads -> [OpNames -> Nat]]
    BY <1>2, <1>13 DEF WriteControl, OpNames
  <2>2. dataRing' \in Seq([kind : {"length", "payload"}, of : Nat])
    BY <1>13 DEF WriteControl
  <2> QED
    BY <1>13, <2>1, <2>2 DEF WriteControl
<1>14. ASSUME NEW c \in Channels, EventSent(c)
       PROVE  TypeInv'
  <2>1. Give({c}, {}, pc) /\ inFlight' \in [Channels -> Nat]
    BY <1>14 DEF EventSent
  <2>2. UNCHANGED <<linkVars, writeLock, chunks, link, stale, rx, claimed, dataVars, left>>
    BY <1>14, Zenon DEF EventSent
  <2>3. GiveKept
    <3>1. {c} \in SUBSET Channels /\ {} \in SUBSET Rings
      OBVIOUS
    <3> QED
      BY <2>1, <3>1, HostGive, Zenon
  <2> QED
    BY <2>1, <2>2, <2>3
<1>15. ASSUME NEW c \in Channels, StaleSent(c)
       PROVE  TypeInv'
  <2>1. Give({c}, {}, pc) /\ stale' \in [Channels -> Nat]
    BY <1>15 DEF StaleSent
  <2>2. UNCHANGED <<linkVars, writeLock, chunks, link, inFlight, rx, claimed, dataVars, left>>
    BY <1>15, Zenon DEF StaleSent
  <2>3. GiveKept
    <3>1. {c} \in SUBSET Channels /\ {} \in SUBSET Rings
      OBVIOUS
    <3> QED
      BY <2>1, <3>1, HostGive, Zenon
  <2> QED
    BY <2>1, <2>2, <2>3
<1> QED
  BY <1>4, <1>6, <1>7, <1>8, <1>10, <1>11, <1>12, <1>13, <1>14, <1>15 DEF HostCall, StackStep

\* So does a read.
LEMMA TypeRead ==
  ASSUME TypeInv, NEW t \in Readers, ReadBegin(t) \/ ReadStep(t)
  PROVE  TypeInv'
<1> USE BleLuaAssumption, ChannelFacts, LabelFacts
    DEF BleLuaAssumption, TypeInv, ChunksLeft, TypeOK, At, Goto, linkVars, sendVars, stackVars,
        ringVars, dataVars, SendLabels
<1>1. CASE ReadBegin(t)
  <2>1. left' \in [Threads -> [OpNames -> Nat]] /\ pc[t] = "idle"
    BY <1>1, BeginFacts DEF ReadBegin, OpNames
  <2> QED
    BY <1>1, <2>1 DEF ReadBegin, Readers, Threads
<1>2. CASE ReadTake(t)
  BY <1>2 DEF ReadTake, Readers, Threads
<1>3. CASE ReadTimeout(t)
  BY <1>3 DEF ReadTimeout, Pass, Readers, Threads
<1>4. CASE ReadCheck(t)
  <2>1. PICK l \in {"idle", "rGet"} : Pass(t, "rCheck", l)
    BY <1>4 DEF ReadCheck
  <2> QED
    BY <2>1 DEF Pass, Readers, Threads
<1>5. CASE ReadGet(t)
  BY <1>5 DEF ReadGet, Readers, Threads
<1>6. CASE ReadFinish(t)
  <2>1. PICK n \in 0..rx[RingOf(t)] : rx' = [rx EXCEPT ![RingOf(t)] = @ - n]
    BY <1>6 DEF ReadFinish
  <2>2. rx' \in [Rings -> Nat]
    BY <2>1
  <2> QED
    BY <1>6, <2>2 DEF ReadFinish, Readers, Threads
<1>7. CASE ReadLook(t)
  <2>1. PICK l \in {"idle", "rGive"} : Pass(t, "rLook", l)
    BY <1>7 DEF ReadLook
  <2> QED
    BY <2>1 DEF Pass, Readers, Threads
<1>8. CASE ReadGive(t)
  BY <1>8 DEF ReadGive, Readers, Threads
<1> QED
  BY <1>1, <1>2, <1>3, <1>4, <1>5, <1>6, <1>7, <1>8 DEF ReadStep

\* So does what the REPL thread does with frames and buffers.
LEMMA TypeFrame ==
  ASSUME TypeInv, AudioFlush \/ DrainBegin \/ VmCleanup \/ ResizeBegin \/ FrameStep
  PROVE  TypeInv'
<1> USE BleLuaAssumption, ChannelFacts, LabelFacts
    DEF BleLuaAssumption, TypeInv, ChunksLeft, TypeOK, At, Goto, linkVars, sendVars, stackVars,
        ringVars, dataVars, SendLabels
<1> DEFINE Cell == [kind : {"length", "payload"}, of : Nat]
<1>1. Repl \in Threads
  BY DEF Threads
<1>2. ASSUME NEW o \in OpNames, Begin(Repl, o)
      PROVE  left' \in [Threads -> [OpNames -> Nat]] /\ pc[Repl] = "idle"
  BY <1>1, <1>2, BeginFacts
<1>3. dataRing # <<>> => Head(dataRing) \in Cell /\ Tail(dataRing) \in Seq(Cell)
  <2>1. dataRing \in Seq(Cell)
    OBVIOUS
  <2> HIDE DEF Cell, TypeInv, TypeOK
  <2> QED
    BY <2>1
<1>4. <<>> \in Seq(Cell)
  OBVIOUS
<1>5. CASE AudioFlush
  <2>1. left' \in [Threads -> [OpNames -> Nat]]
    BY <1>2, <1>5 DEF AudioFlush, OpNames
  <2> QED
    BY <1>5, <2>1 DEF AudioFlush
<1>6. CASE DrainBegin
  <2>1. left' \in [Threads -> [OpNames -> Nat]] /\ pc[Repl] = "idle"
    BY <1>2, <1>6 DEF DrainBegin, OpNames
  <2>2. pending' = FALSE
    BY <1>6, Zenon DEF DrainBegin
  <2> QED
    BY <1>6, <2>1, <2>2 DEF DrainBegin, Threads
<1>7. CASE VmCleanup
  <2>1. left' \in [Threads -> [OpNames -> Nat]] /\ pc[Repl] = "idle"
    BY <1>2, <1>7 DEF VmCleanup, OpNames
  <2>2. pending' = FALSE
    BY <1>7, Zenon DEF VmCleanup
  <2> QED
    BY <1>7, <2>1, <2>2 DEF VmCleanup, Threads
<1>8. CASE ResizeBegin
  <2>1. left' \in [Threads -> [OpNames -> Nat]] /\ pc[Repl] = "idle"
    BY <1>2, <1>8 DEF ResizeBegin, OpNames
  <2> QED
    BY <1>8, <2>1 DEF ResizeBegin, Threads
<1>9. CASE DrainEnd
  BY <1>9 DEF DrainEnd, Pass, Threads
<1>16. CASE FrameTest
  <2>1. PICK l \in {"idle", "nGet"} : Pass(Repl, "nHead", l)
    BY <1>16 DEF FrameTest
  <2> QED
    BY <2>1 DEF Pass, Threads
<1>10. CASE FrameHead
  <2>1. dataRing' \in Seq(Cell)
    BY <1>3, <1>10 DEF FrameHead
  <2> QED
    BY <1>10, <2>1 DEF FrameHead, Threads
<1>11. CASE FrameBody
  <2>1. dataRing' \in Seq(Cell) /\ delivered' \in Nat
    <3>1. CASE dataRing = <<>>
      BY <1>11, <3>1 DEF FrameBody
    <3>2. CASE dataRing # <<>>
      <4>1. /\ dataRing' = Tail(dataRing)
            /\ delivered' = IF Head(dataRing).kind = "payload" THEN Head(dataRing).of ELSE 0
        BY <1>11, <3>2, Zenon DEF FrameBody
      <4>2. Head(dataRing).of \in Nat
        BY <1>3, <3>2
      <4> QED
        BY <1>3, <3>2, <4>1, <4>2
    <3> QED
      BY <3>1, <3>2
  <2> QED
    BY <1>11, <2>1 DEF FrameBody, Threads
<1>12. CASE VmFlush
  <2>1. dataRing' \in Seq(Cell)
    BY <1>4, <1>12 DEF VmFlush
  <2> QED
    BY <1>12, <2>1 DEF VmFlush, Threads
<1>13. CASE ResizeAlloc
  <2>1. CASE /\ At(Repl, "zAlloc")
             /\ \E b \in Bufs \ heap : heap' = heap \cup {b} /\ held' = [held EXCEPT ![Repl] = b]
             /\ Goto(Repl, "zSwap")
             /\ UNCHANGED <<linkVars, sendVars, stackVars, ringVars, dataRing, ringBuf, dataLock,
                            dataBuf, pending, frames, delivered, left>>
    BY <2>1 DEF Threads
  <2>2. CASE Pass(Repl, "zAlloc", "idle")
    BY <2>2 DEF Pass, Threads
  <2> QED
    BY <1>13, <2>1, <2>2 DEF ResizeAlloc
<1>14. CASE ResizeSwap
  <2>1. /\ held' \in [{Repl, Closer} -> Bufs \cup {NoBuf}]
        /\ dataBuf' \in Bufs \cup {NoBuf} /\ ringBuf' \in Bufs \cup {NoBuf} /\ dataRing' \in Seq(Cell)
    <3>1. CASE initialized /\ dataBuf # NoBuf
      <4>1. dataBuf' = held[Repl] /\ held' = [held EXCEPT ![Repl] = dataBuf]
            /\ ringBuf' = held[Repl] /\ dataRing' = <<>>
        BY <1>14, <3>1, Zenon DEF ResizeSwap
      <4> QED
        BY <1>4, <4>1
    <3>2. CASE ~(initialized /\ dataBuf # NoBuf)
      <4>1. UNCHANGED <<dataBuf, held, ringBuf, dataRing>>
        BY <1>14, <3>2, Zenon DEF ResizeSwap
      <4> QED
        BY <4>1
    <3> QED
      BY <3>1, <3>2, Zenon
  <2> QED
    BY <1>14, <2>1 DEF ResizeSwap, Threads
<1>15. CASE Free(Repl, "zFree")
  BY <1>15 DEF Free, Threads
<1> QED
  BY <1>5, <1>6, <1>7, <1>8, <1>9, <1>10, <1>11, <1>12, <1>13, <1>14, <1>15, <1>16
     DEF FrameStep

\* So does the deinit.
LEMMA TypeClose ==
  ASSUME TypeInv, DeinitBegin \/ CloseStep
  PROVE  TypeInv'
<1> USE BleLuaAssumption, ChannelFacts, LabelFacts
    DEF BleLuaAssumption, TypeInv, ChunksLeft, TypeOK, At, Goto, linkVars, sendVars, stackVars,
        ringVars, dataVars, SendLabels
<1>1. Closer \in Threads /\ Repl \in Threads
  BY DEF Threads
<1>2. CASE DeinitBegin
  <2>1. left' \in [Threads -> [OpNames -> Nat]] /\ pc[Closer] = "idle"
    BY <1>1, <1>2, BeginFacts DEF DeinitBegin, OpNames
  <2>2. initialized' = FALSE
    BY <1>2, Zenon DEF DeinitBegin
  <2> QED
    BY <1>2, <2>1, <2>2 DEF DeinitBegin, Senders, Threads
<1>3. CASE DeinitLink
  <2>1. conidx' = FALSE
    BY <1>3, Zenon DEF DeinitLink
  <2> QED
    BY <1>3, <2>1 DEF DeinitLink, Senders, Threads
<1>4. CASE DeinitGive
  <2>1. GiveTypes /\ Moves(Channels, Rings, [pc EXCEPT ![Closer] = "cUnregister"])
    <3>1. /\ [pc EXCEPT ![Closer] = "cUnregister"] \in [Threads -> Labels]
          /\ Give(Channels, Rings, [pc EXCEPT ![Closer] = "cUnregister"])
      BY <1>4 DEF DeinitGive
    <3>2. Channels \in SUBSET Channels /\ Rings \in SUBSET Rings /\ TypeOK
      OBVIOUS
    <3> HIDE DEF TypeInv, TypeOK
    <3> QED
      BY <3>1, <3>2, GiveFacts, Zenon
  <2>2. UNCHANGED <<linkVars, writeLock, chunks, stackVars, rx, claimed, dataVars, left>>
    BY <1>4, Zenon DEF DeinitGive
  <2>3. \A t \in Senders : t \in Threads /\ [pc EXCEPT ![Closer] = "cUnregister"][t] = pc[t]
    BY DEF Senders, Threads
  <2>4. /\ \A t \in Senders : \/ pc'[t] = pc[t]
                              \/ pc[t] = "sWait" /\ pc'[t] = "sCheck"
                              \/ pc[t] = "rWait" /\ pc'[t] = "rCheck"
        /\ Repl \in Senders
    BY <2>1, <2>3, Zenon DEF Moves, Senders
  <2>5. /\ \A t \in Senders : pc'[t] \in SendLabels \ {"sLink", "sLock"}
                                <=> pc[t] \in SendLabels \ {"sLink", "sLock"}
        /\ \A t \in Senders : pc'[t] \in SendLabels \ {"sUnlock"}
                                <=> pc[t] \in SendLabels \ {"sUnlock"}
        /\ pc'[Repl] = "nBody" <=> pc[Repl] = "nBody"
    BY <2>4
  <2> QED
    BY <2>1, <2>2, <2>5 DEF GiveTypes
<1>5. CASE DeinitUnregister
  <2>1. registered' = FALSE
    BY <1>5, Zenon DEF DeinitUnregister
  <2> QED
    BY <1>5, <2>1 DEF DeinitUnregister, Senders, Threads
<1>6. CASE DeinitSwap
  BY <1>6 DEF DeinitSwap, Senders, Threads
<1>7. CASE Free(Closer, "cFree")
  BY <1>7 DEF Free, Senders, Threads
<1> QED
  BY <1>2, <1>3, <1>4, <1>5, <1>6, <1>7 DEF CloseStep

\* So does doing nothing.
LEMMA TypeStutter == ASSUME TypeInv, UNCHANGED vars PROVE TypeInv'
  BY DEF TypeInv, TypeOK, ChunksLeft, vars, linkVars, sendVars, stackVars, ringVars, dataVars

\* So does every step.
LEMMA TypeStep == TypeInv /\ [Next]_vars => TypeInv'
  BY TypeSend, TypeHost, TypeRead, TypeFrame, TypeClose, TypeStutter DEF Next, CallBegin

\* Every variable of the service keeps its type; the write lock is with the sender between
\* lock and unlock, the data lock with the drain (ble_lua.c, all operations).
THEOREM TypeCorrect == Spec => []TypeOK
<1>1. Init => TypeInv
  BY TypeInit
<1>2. TypeInv /\ [Next]_vars => TypeInv'
  BY TypeStep
<1>3. TypeInv => TypeOK
  BY DEF TypeInv
<1> QED
  BY <1>1, <1>2, <1>3, PTL DEF Spec

(***************************************************************************)
(* The units of the notification semaphores.                               *)
(***************************************************************************)
\* The deinit has given its units, and nobody can take one for good any more.
Released == pc[Closer] \in {"cUnregister", "cSwap", "cFree"} \/ ~registered

\* Where the unit of a channel is: in the semaphore, with its sender, or with the stack,
\* which gives it back when the notification is sent or its link lost; once the deinit
\* has released everybody, only in the semaphore or with a sender about to return it.
UnitInv ==
  /\ pc[Closer] \in CloseLabels \/ ~registered => ~initialized
  /\ pc[Closer] \in {"cSwap", "cFree"} => ~registered
  /\ registered /\ conidx => link
  /\ \A t \in Senders :
       /\ pc[t] = "sWait" => ntfSem[ChannelOf(t)] = 0
       /\ \/ ntfSem[ChannelOf(t)] = 1
          \/ pc[t] \in {"sCheck", "sSend"}
          \/ inFlight[ChannelOf(t)] > 0 /\ link
       /\ Released => ntfSem[ChannelOf(t)] = 1 \/ pc[t] = "sCheck"

\* A thread that is no sender, and not the deinit, leaves the units alone.
LEMMA UnitOther ==
  ASSUME TypeOK, UnitInv, UNCHANGED <<registered, conidx, initialized, link, inFlight, ntfSem>>,
         \A t \in Senders : \/ pc'[t] = pc[t]
                            \/ pc[t] \notin SendLabels /\ pc'[t] \notin SendLabels,
         pc'[Closer] = pc[Closer]
  PROVE  UnitInv'
  BY DEF UnitInv, Released, SendLabels

\* What a give to a set of channels does to the units.
UnitsKept(cs) ==
  /\ pc'[Closer] = pc[Closer]
  /\ \A t \in Senders :
       /\ pc'[t] = "sWait" => ntfSem'[ChannelOf(t)] = 0
       /\ ChannelOf(t) \in cs => ntfSem'[ChannelOf(t)] = 1 \/ pc'[t] = "sCheck"
       /\ ChannelOf(t) \notin cs => /\ ntfSem'[ChannelOf(t)] = ntfSem[ChannelOf(t)]
                                    /\ \/ pc'[t] = pc[t]
                                       \/ pc[t] = "rWait" /\ pc'[t] = "rCheck"

\* A give keeps the units in order.
LEMMA UnitGive ==
  ASSUME TypeOK, UnitInv, NEW cs \in SUBSET Channels, NEW rs \in SUBSET Rings, Give(cs, rs, pc)
  PROVE  UnitsKept(cs)
<1>1. pc \in [Threads -> Labels]
  BY DEF TypeOK
<1>2. Moves(cs, rs, pc) /\ Units(cs, rs)
  BY <1>1, GiveFacts, Zenon
<1>3. Closer \in Threads \ (Senders \cup Readers)
  BY BleLuaAssumption DEF BleLuaAssumption, Threads, Senders, Readers
<1>4. pc'[Closer] = pc[Closer]
  BY <1>2, <1>3 DEF Moves
<1>5. ASSUME NEW t \in Senders
      PROVE  /\ pc'[t] = "sWait" => ntfSem'[ChannelOf(t)] = 0
             /\ ChannelOf(t) \in cs => ntfSem'[ChannelOf(t)] = 1 \/ pc'[t] = "sCheck"
             /\ ChannelOf(t) \notin cs => /\ ntfSem'[ChannelOf(t)] = ntfSem[ChannelOf(t)]
                                          /\ \/ pc'[t] = pc[t]
                                             \/ pc[t] = "rWait" /\ pc'[t] = "rCheck"
  <2>1. /\ t \in Threads /\ ntfSem[ChannelOf(t)] \in {0, 1}
        /\ pc[t] = "sWait" => ntfSem[ChannelOf(t)] = 0
    BY ChannelFacts DEF TypeOK, UnitInv
  <2>2. /\ \/ pc'[t] = pc[t]
           \/ pc[t] = "sWait" /\ pc'[t] = "sCheck"
           \/ pc[t] = "rWait" /\ pc'[t] = "rCheck"
        /\ pc[t] = "sWait" => pc'[t] = IF ChannelOf(t) \in cs THEN "sCheck" ELSE pc[t]
    BY <1>2, <2>1 DEF Moves
  <2>3. /\ ChannelOf(t) \in cs /\ pc[t] # "sWait" => ntfSem'[ChannelOf(t)] = 1
        /\ ChannelOf(t) \notin cs \/ pc[t] = "sWait" => ntfSem'[ChannelOf(t)] = ntfSem[ChannelOf(t)]
    BY <1>2 DEF Units
  <2> QED
    BY <2>1, <2>2, <2>3
<1> QED
  BY <1>4, <1>5 DEF UnitsKept

\* A step of a sender keeps the units in order.
LEMMA UnitSend ==
  ASSUME TypeInv, UnitInv, NEW t \in Senders, SendBegin(t) \/ SendStep(t)
  PROVE  UnitInv'
<1> USE DEF At, Goto, linkVars, sendVars, stackVars, ringVars, dataVars, GiveBack
<1>1. /\ pc \in [Threads -> Labels] /\ ntfSem \in [Channels -> {0, 1}]
      /\ inFlight \in [Channels -> Nat]
  BY DEF TypeInv, TypeOK
<1>2. /\ Closer \notin Senders /\ t \in Threads
      /\ ChannelOf(t) \in Channels
      /\ \A u \in Senders : u \in Threads /\ ChannelOf(u) \in Channels
                              /\ (u # t => ChannelOf(u) # ChannelOf(t))
      /\ Closer \in Threads /\ Closer # t
  BY BleLuaAssumption, ChannelFacts DEF BleLuaAssumption, Senders, Threads
<1>3. pc'[Closer] = pc[Closer]
  BY <1>1, <1>2
     DEF SendBegin, SendStep, SendLink, SendLock, SendTake, SendCheck, SendOk, SendFails,
         SendUnlock, Pass
<1>4. \A u \in Senders : u # t => pc'[u] = pc[u]
  BY <1>1, <1>2
     DEF SendBegin, SendStep, SendLink, SendLock, SendTake, SendCheck, SendOk, SendFails,
         SendUnlock, Pass
<1>5. UNCHANGED <<registered, conidx, initialized, link>>
  BY DEF SendBegin, SendStep, SendLink, SendLock, SendTake, SendCheck, SendOk, SendFails,
         SendUnlock, Pass
<1>6. \A u \in Senders : u # t => /\ ntfSem'[ChannelOf(u)] = ntfSem[ChannelOf(u)]
                                  /\ inFlight'[ChannelOf(u)] = inFlight[ChannelOf(u)]
  BY <1>1, <1>2
     DEF SendBegin, SendStep, SendLink, SendLock, SendTake, SendCheck, SendOk, SendFails,
         SendUnlock, Pass
<1>7. /\ pc'[t] = "sWait" => ntfSem'[ChannelOf(t)] = 0
      /\ \/ ntfSem'[ChannelOf(t)] = 1
         \/ pc'[t] \in {"sCheck", "sSend"}
         \/ inFlight'[ChannelOf(t)] > 0 /\ link
      /\ Released => ntfSem'[ChannelOf(t)] = 1 \/ pc'[t] = "sCheck"
  <2> USE <1>1, <1>2 DEF UnitInv, Released
  <2>1. CASE SendBegin(t)
    <3>1. pc[t] = "idle" /\ pc'[t] = "sLink" /\ UNCHANGED <<ntfSem, inFlight>>
      BY <2>1 DEF SendBegin, Begin
    <3> QED
      BY <3>1
  <2>2. CASE SendLink(t)
    BY <2>2 DEF SendLink, Pass
  <2>3. CASE SendLock(t)
    BY <2>3 DEF SendLock
  <2>4. CASE SendTake(t)
    BY <2>4 DEF SendTake
  <2>5. CASE SendCheck(t)
    <3>1. CASE initialized /\ Pass(t, "sCheck", "sSend")
      <4>1. ~Released
        BY <3>1 DEF CloseLabels
      <4>2. pc'[t] = "sSend"
        BY <3>1 DEF Pass
      <4> QED
        BY <4>1, <4>2
    <3>2. CASE At(t, "sCheck") /\ GiveBack(t) /\ Goto(t, "sUnlock")
      BY <3>2
    <3> QED
      BY <2>5, <3>1, <3>2 DEF SendCheck
  <2>6. CASE SendOk(t)
    <3>1. conidx /\ pc[t] = "sSend" /\ pc'[t] \in {"sUnlock", "sTake"} /\ UNCHANGED ntfSem
          /\ inFlight' = [inFlight EXCEPT ![ChannelOf(t)] = @ + 1]
      BY <2>6 DEF SendOk
    <3>2. CASE Released
      BY <3>1, <3>2
    <3>3. CASE ~Released
      <4>1. link
        BY <3>1, <3>3
      <4>2. inFlight'[ChannelOf(t)] > 0
        BY <3>1
      <4> QED
        BY <3>1, <3>3, <4>1, <4>2
    <3> QED
      BY <3>2, <3>3
  <2>7. CASE SendFails(t)
    BY <2>7 DEF SendFails
  <2>8. CASE SendUnlock(t)
    BY <2>8 DEF SendUnlock
  <2> QED
    BY <2>1, <2>2, <2>3, <2>4, <2>5, <2>6, <2>7, <2>8 DEF SendStep
<1> QED
  BY <1>3, <1>4, <1>5, <1>6, <1>7 DEF UnitInv, Released

\* What the stack and the host do keeps the units in order.
LEMMA UnitHost ==
  ASSUME TypeInv, UnitInv, HostCall \/ StackStep
  PROVE  UnitInv'
<1> USE DEF linkVars, sendVars, stackVars, ringVars, dataVars
<1>1. /\ pc \in [Threads -> Labels] /\ ntfSem \in [Channels -> {0, 1}]
      /\ inFlight \in [Channels -> Nat] /\ stale \in [Channels -> Nat] /\ TypeOK
      /\ \A t \in Senders : ChannelOf(t) \in Channels
      /\ \A t, u \in Senders : ChannelOf(t) = ChannelOf(u) => t = u
  BY ChannelFacts DEF TypeInv, TypeOK
<1>2. CASE Connect
  <2>1. link' = TRUE /\ conidx' = registered
        /\ UNCHANGED <<initialized, registered, ntfSem, inFlight, pc>>
    BY <1>2, Zenon DEF Connect, sendVars
  <2> QED
    BY <2>1 DEF UnitInv, Released
<1>3. CASE Disconnect
  <2>1. Give(Channels, {}, pc) /\ registered /\ conidx' = FALSE /\ UNCHANGED <<initialized,
                                                                               registered>>
    BY <1>3, Zenon DEF Disconnect
  <2>2. /\ pc'[Closer] = pc[Closer]
        /\ \A t \in Senders :
             /\ pc'[t] = "sWait" => ntfSem'[ChannelOf(t)] = 0
             /\ ntfSem'[ChannelOf(t)] = 1 \/ pc'[t] = "sCheck"
    BY <1>1, <2>1, UnitGive DEF UnitsKept
  <2> QED
    BY <2>1, <2>2 DEF UnitInv, Released
<1>4. CASE DisconnectUnheard
  <2>1. ~registered /\ UNCHANGED <<linkVars, sendVars, ringVars, dataVars, pc>>
    BY <1>4, Zenon DEF DisconnectUnheard
  <2> QED
    BY <2>1 DEF UnitInv, Released
<1>5. ASSUME NEW c \in Channels, CccWrite(c)
      PROVE  UnitInv'
  BY <1>1, <1>5, UnitOther DEF CccWrite
<1>6. ASSUME NEW r \in Rings, Put(r)
      PROVE  UnitInv'
  <2>1. Give({}, {r}, pc) /\ UNCHANGED <<linkVars, stackVars>>
    BY <1>6, Zenon DEF Put
  <2>2. /\ pc'[Closer] = pc[Closer]
        /\ \A t \in Senders :
             /\ ntfSem'[ChannelOf(t)] = ntfSem[ChannelOf(t)]
             /\ pc'[t] = pc[t] \/ (pc[t] = "rWait" /\ pc'[t] = "rCheck")
    <3>1. {} \in SUBSET Channels /\ {r} \in SUBSET Rings
      OBVIOUS
    <3> QED
      <4>1. UnitsKept({})
        BY <1>1, <2>1, <3>1, UnitGive, Zenon
      <4> QED
        BY <4>1 DEF UnitsKept
  <2> QED
    BY <2>1, <2>2 DEF UnitInv, Released
<1>7. CASE WriteFrame
  BY <1>1, <1>7, UnitOther DEF WriteFrame
<1>8. CASE WriteControl
  BY <1>1, <1>8, UnitOther DEF WriteControl
<1>9. ASSUME NEW c \in Channels, EventSent(c) \/ StaleSent(c)
      PROVE  UnitInv'
  <2>1. /\ Give({c}, {}, pc) /\ UNCHANGED <<linkVars, link>>
        /\ \A d \in Channels : d # c => inFlight'[d] = inFlight[d]
    BY <1>1, <1>9 DEF EventSent, StaleSent
  <2>2. /\ pc'[Closer] = pc[Closer]
        /\ \A t \in Senders :
             /\ pc'[t] = "sWait" => ntfSem'[ChannelOf(t)] = 0
             /\ ChannelOf(t) = c => ntfSem'[ChannelOf(t)] = 1 \/ pc'[t] = "sCheck"
             /\ ChannelOf(t) # c => /\ ntfSem'[ChannelOf(t)] = ntfSem[ChannelOf(t)]
                                    /\ \/ pc'[t] = pc[t]
                                       \/ pc[t] = "rWait" /\ pc'[t] = "rCheck"
    <3>1. {c} \in SUBSET Channels /\ {} \in SUBSET Rings
      OBVIOUS
    <3> QED
      <4>1. UnitsKept({c})
        BY <1>1, <2>1, <3>1, UnitGive, Zenon
      <4> QED
        BY <1>1, <4>1 DEF UnitsKept
  <2>3. \A t \in Senders : ChannelOf(t) # c => inFlight'[ChannelOf(t)] = inFlight[ChannelOf(t)]
    BY <1>1, <2>1
  <2> QED
    BY <2>1, <2>2, <2>3 DEF UnitInv, Released
<1>10. WriteLine => Put("repl") /\ "repl" \in Rings
  BY DEF WriteLine, Rings
<1>11. WriteAudio => Put("audio") /\ "audio" \in Rings
  BY DEF WriteAudio, Rings
<1> QED
  BY <1>2, <1>3, <1>4, <1>5, <1>6, <1>7, <1>8, <1>9, <1>10, <1>11 DEF HostCall, StackStep

\* A step of another thread, which touches nothing the senders and the deinit look at.
Aside ==
  /\ UNCHANGED <<initialized, registered, conidx, ntfSem, link, inFlight, stale>>
  /\ pc'[Closer] = pc[Closer]
  /\ \A t \in Senders : \/ pc'[t] = pc[t]
                        \/ pc[t] \notin SendLabels /\ pc'[t] \notin SendLabels

\* So is every step of a reader.
LEMMA ReadAside ==
  ASSUME TypeInv, NEW t \in Readers, ReadBegin(t) \/ ReadStep(t)
  PROVE  Aside
<1> USE DEF At, Goto, Begin, Pass, linkVars, sendVars, stackVars, ringVars, dataVars
<1>1. TypeOK /\ pc \in [Threads -> Labels] /\ t \in Threads /\ Closer \in Threads /\ t # Closer
  BY ChannelFacts, BleLuaAssumption DEF TypeInv, TypeOK, BleLuaAssumption, Readers, Threads
<1>2. /\ UNCHANGED <<linkVars, stackVars, ntfSem>>
      /\ \E l, k \in ReadLabels \cup {"idle"} :
           pc[t] = k /\ pc' = [pc EXCEPT ![t] = l]
  BY DEF ReadBegin, ReadStep, ReadTake, ReadTimeout, ReadCheck, ReadGet, ReadFinish,
         ReadLook, ReadGive, ReadLabels
<1>3. PICK l, k \in ReadLabels \cup {"idle"} :
        pc[t] = k /\ pc' = [pc EXCEPT ![t] = l]
  BY <1>2
<1>4. \A u \in Senders : pc'[u] = pc[u] \/ (pc[u] \notin SendLabels /\ pc'[u] \notin SendLabels)
  <2>1. pc[t] \notin SendLabels /\ pc'[t] \notin SendLabels
    BY <1>1, <1>3 DEF SendLabels, ReadLabels
  <2>2. \A u \in Senders : u # t => pc'[u] = pc[u]
    BY <1>1, <1>3, ChannelFacts
  <2> QED
    BY <2>1, <2>2
<1>5. pc'[Closer] = pc[Closer]
  BY <1>1, <1>3
<1> QED
  BY <1>2, <1>4, <1>5 DEF Aside

\* So are the drain, the resize, the flush and a new VM.
LEMMA FrameAside ==
  ASSUME TypeInv, AudioFlush \/ DrainBegin \/ VmCleanup \/ ResizeBegin \/ FrameStep
  PROVE  Aside
<1> USE DEF At, Goto, Begin, Pass, linkVars, sendVars, stackVars, ringVars, dataVars
<1>1. TypeOK /\ pc \in [Threads -> Labels] /\ Repl \in Threads /\ Closer \in Threads /\ Repl # Closer
  BY BleLuaAssumption DEF TypeInv, TypeOK, BleLuaAssumption, Threads
<1>2. /\ UNCHANGED <<linkVars, stackVars, ntfSem>>
      /\ \/ UNCHANGED pc
         \/ \E l, k \in {"idle", "nHead", "nGet", "nBody", "vFlush", "zAlloc", "zSwap", "zFree"} :
              pc[Repl] = k /\ pc' = [pc EXCEPT ![Repl] = l]
  BY DEF AudioFlush, DrainBegin, VmCleanup, ResizeBegin, FrameStep, FrameTest, DrainEnd, FrameHead,
         FrameBody, VmFlush, ResizeAlloc, ResizeSwap, Free
<1>3. CASE UNCHANGED pc
  BY <1>2, <1>3 DEF Aside
<1>4. CASE \E l, k \in {"idle", "nHead", "nGet", "nBody", "vFlush", "zAlloc", "zSwap", "zFree"} :
             pc[Repl] = k /\ pc' = [pc EXCEPT ![Repl] = l]
  <2>1. PICK l, k \in {"idle", "nHead", "nGet", "nBody", "vFlush", "zAlloc", "zSwap", "zFree"} :
          pc[Repl] = k /\ pc' = [pc EXCEPT ![Repl] = l]
    BY <1>4
  <2>2. \A u \in Senders : pc'[u] = pc[u] \/ (pc[u] \notin SendLabels /\ pc'[u] \notin SendLabels)
    <3>1. pc[Repl] \notin SendLabels /\ pc'[Repl] \notin SendLabels
      BY <1>1, <2>1 DEF SendLabels
    <3>2. \A u \in Senders : u # Repl => pc'[u] = pc[u]
      BY <1>1, <2>1, ChannelFacts
    <3> QED
      BY <3>1, <3>2
  <2>3. pc'[Closer] = pc[Closer]
    BY <1>1, <2>1
  <2> QED
    BY <1>2, <2>2, <2>3 DEF Aside
<1> QED
  BY <1>2, <1>3, <1>4

\* A step aside leaves the units alone.
LEMMA UnitAside == TypeOK /\ UnitInv /\ Aside => UnitInv'
  BY UnitOther DEF Aside

\* The deinit releases every sender.
LEMMA UnitClose ==
  ASSUME TypeInv, UnitInv, DeinitBegin \/ CloseStep
  PROVE  UnitInv'
<1> USE DEF At, Goto, linkVars, sendVars, stackVars, ringVars, dataVars
<1>1. TypeOK /\ pc \in [Threads -> Labels] /\ Closer \in Threads
  BY DEF TypeInv, TypeOK, Threads
<1>2. /\ Closer \notin Senders
      /\ \A t \in Senders : t \in Threads /\ t # Closer
      /\ \A t \in Senders : ChannelOf(t) \in Channels
  BY BleLuaAssumption, ChannelFacts DEF BleLuaAssumption, Senders
<1>3. CASE DeinitBegin
  <2>1. initialized' = FALSE /\ pc[Closer] = "idle" /\ pc' = [pc EXCEPT ![Closer] = "cLink"]
        /\ UNCHANGED <<registered, conidx, link, inFlight, ntfSem>>
    BY <1>3, Zenon DEF DeinitBegin, Begin
  <2> QED
    BY <1>1, <1>2, <2>1 DEF UnitInv, Released, CloseLabels
<1>4. CASE DeinitLink
  <2>1. conidx' = FALSE /\ pc[Closer] = "cLink" /\ pc' = [pc EXCEPT ![Closer] = "cGive"]
        /\ UNCHANGED <<registered, initialized, link, inFlight, ntfSem>>
    BY <1>4, Zenon DEF DeinitLink
  <2> QED
    BY <1>1, <1>2, <2>1 DEF UnitInv, Released, CloseLabels
<1>5. CASE DeinitGive
  <2>1. Give(Channels, Rings, [pc EXCEPT ![Closer] = "cUnregister"]) /\ pc[Closer] = "cGive"
        /\ UNCHANGED <<linkVars, stackVars>>
    BY <1>5, Zenon DEF DeinitGive
  <2>2. /\ [pc EXCEPT ![Closer] = "cUnregister"] \in [Threads -> Labels]
        /\ \A t \in Senders : [pc EXCEPT ![Closer] = "cUnregister"][t] = pc[t]
        /\ [pc EXCEPT ![Closer] = "cUnregister"][Closer] = "cUnregister"
        /\ Channels \in SUBSET Channels /\ Rings \in SUBSET Rings
    BY <1>1, <1>2, LabelFacts
  <2>3. Moves(Channels, Rings, [pc EXCEPT ![Closer] = "cUnregister"]) /\ Units(Channels, Rings)
    BY <1>1, <2>1, <2>2, GiveFacts, Zenon
  <2>4. pc'[Closer] = "cUnregister"
    <3>1. Closer \in Threads \ (Senders \cup Readers)
      BY BleLuaAssumption DEF BleLuaAssumption, Threads, Senders, Readers
    <3> QED
      BY <2>2, <2>3, <3>1 DEF Moves
  <2>5. \A t \in Senders : /\ pc'[t] = "sWait" => ntfSem'[ChannelOf(t)] = 0
                           /\ ntfSem'[ChannelOf(t)] = 1 \/ pc'[t] = "sCheck"
    <3> TAKE t \in Senders
    <3>1. /\ pc[t] = "sWait" => pc'[t] = "sCheck"
          /\ pc[t] # "sWait" => ntfSem'[ChannelOf(t)] = 1
      BY <1>2, <2>3 DEF Moves, Units
    <3>2. \/ pc'[t] = pc[t]
          \/ pc[t] = "sWait" /\ pc'[t] = "sCheck"
          \/ pc[t] = "rWait" /\ pc'[t] = "rCheck"
      BY <1>2, <2>2, <2>3 DEF Moves
    <3> QED
      BY <3>1, <3>2
  <2> QED
    BY <2>1, <2>4, <2>5 DEF UnitInv, Released, CloseLabels
<1>6. CASE DeinitUnregister
  <2>1. registered' = FALSE /\ pc[Closer] = "cUnregister" /\ pc' = [pc EXCEPT ![Closer] = "cSwap"]
        /\ UNCHANGED <<conidx, initialized, link, inFlight, ntfSem>>
    BY <1>6, Zenon DEF DeinitUnregister
  <2> QED
    BY <1>1, <1>2, <2>1 DEF UnitInv, Released, CloseLabels
<1>7. CASE DeinitSwap
  <2>1. pc[Closer] = "cSwap" /\ pc' = [pc EXCEPT ![Closer] = "cFree"]
        /\ UNCHANGED <<registered, conidx, initialized, link, inFlight, ntfSem>>
    BY <1>7, Zenon DEF DeinitSwap
  <2> QED
    BY <1>1, <1>2, <2>1 DEF UnitInv, Released, CloseLabels
<1>8. CASE Free(Closer, "cFree")
  <2>1. pc[Closer] = "cFree" /\ pc' = [pc EXCEPT ![Closer] = "idle"]
        /\ UNCHANGED <<registered, conidx, initialized, link, inFlight, ntfSem>>
    BY <1>8, Zenon DEF Free
  <2> QED
    BY <1>1, <1>2, <2>1 DEF UnitInv, Released, CloseLabels
<1> QED
  BY <1>3, <1>4, <1>5, <1>6, <1>7, <1>8 DEF CloseStep

\* Every unit starts in its semaphore.
LEMMA UnitInit == Init => UnitInv
<1> SUFFICES ASSUME Init PROVE UnitInv
  OBVIOUS
<1>1. initialized = TRUE /\ registered = TRUE /\ conidx = FALSE
  BY Zenon DEF Init
<1>2. \A t \in Threads : pc[t] = "idle"
  BY DEF Init
<1>3. \A c \in Channels : ntfSem[c] = 1
  BY DEF Init
<1> QED
  BY <1>1, <1>2, <1>3, ChannelFacts DEF UnitInv, Released, CloseLabels, Threads

\* Every step keeps the units in order.
LEMMA UnitStep == TypeInv /\ UnitInv /\ [Next]_vars => UnitInv'
<1> SUFFICES ASSUME TypeInv, UnitInv, [Next]_vars PROVE UnitInv'
  OBVIOUS
<1>1. CASE UNCHANGED vars
  BY <1>1 DEF UnitInv, Released, vars, linkVars, sendVars, stackVars
<1>2. CASE \E t \in Senders : SendBegin(t) \/ SendStep(t)
  BY <1>2, UnitSend
<1>3. CASE \E t \in Readers : ReadBegin(t) \/ ReadStep(t)
  BY <1>3, ReadAside, UnitAside DEF TypeInv
<1>4. CASE AudioFlush \/ DrainBegin \/ VmCleanup \/ ResizeBegin \/ FrameStep
  BY <1>4, FrameAside, UnitAside DEF TypeInv
<1> QED
  BY <1>1, <1>2, <1>3, <1>4, UnitHost, UnitClose, Zenon DEF Next, CallBegin

\* While a sender waits, the stack holds a notification of its channel (send_notification,
\* on_event_sent, ble_lua_on_disconnected, halo_ble_lua_deinit): the wait, which has no
\* timeout, is for something that comes.
THEOREM UnitKept == Spec => []UnitNotLost
<1>1. Init => UnitInv
  BY UnitInit
<1>2. TypeInv /\ UnitInv /\ [Next]_vars => UnitInv'
  BY UnitStep
<1>3. TypeInv /\ UnitInv => UnitNotLost
  <2> SUFFICES ASSUME UnitInv, NEW t \in Senders, pc[t] = "sWait"
               PROVE  inFlight[ChannelOf(t)] > 0 /\ link
    BY DEF UnitNotLost
  <2>1. ntfSem[ChannelOf(t)] = 0
    BY DEF UnitInv
  <2> QED
    BY <2>1 DEF UnitInv
<1>4. Init => TypeInv
  BY TypeInit
<1>5. TypeInv /\ [Next]_vars => TypeInv'
  BY TypeStep
<1> QED
  BY <1>1, <1>2, <1>3, <1>4, <1>5, PTL DEF Spec

(***************************************************************************)
(* One notification at a time.                                             *)
(***************************************************************************)
\* Senders can still reach the stack: the deinit has not invalidated the connection index.
InUse == initialized \/ pc[Closer] = "cLink"

\* A connection index stands for a live link, or nobody is left to use it: the link that
\* comes up between the deinit's two steps sets it for good, when every sender is out.
OpenInv ==
  /\ pc[Closer] \in CloseLabels \/ ~registered => ~initialized
  /\ pc[Closer] = "cLink" => registered
  /\ InUse /\ conidx => link
  /\ ~InUse /\ conidx => \A t \in Senders : pc[t] \notin SendLabels

\* The stack keeps what belongs to the live link apart from what the last one left.
StackInv ==
  \A c \in Channels : /\ inFlight[c] <= 1
                      /\ link => stale[c] = 0
                      /\ ~link => inFlight[c] = 0

\* While senders can send, the unit of a channel is in one place: with the notification
\* in the stack, with the sender that took it, or in the semaphore.
HasUnit(t) == pc[t] \in {"sCheck", "sSend"}
SoleUnit ==
  InUse /\ conidx =>
    \A t \in Senders : /\ inFlight[ChannelOf(t)] > 0 => ntfSem[ChannelOf(t)] = 0 /\ ~HasUnit(t)
                       /\ HasUnit(t) => ntfSem[ChannelOf(t)] = 0

LineInv == OpenInv /\ StackInv /\ SoleUnit

\* What the first state has.
LEMMA LineInit == Init => LineInv
<1> SUFFICES ASSUME Init PROVE LineInv
  OBVIOUS
<1>1. initialized = TRUE /\ registered = TRUE /\ conidx = FALSE /\ link = FALSE
  BY Zenon DEF Init
<1>2. \A t \in Threads : pc[t] = "idle"
  BY DEF Init
<1>3. \A c \in Channels : inFlight[c] = 0
  BY DEF Init
<1>4. Closer \in Threads
  BY DEF Threads
<1> QED
  BY <1>1, <1>2, <1>3, <1>4
     DEF LineInv, OpenInv, StackInv, SoleUnit, InUse, CloseLabels

\* A step aside leaves all of it alone.
LEMMA LineAside == LineInv /\ Aside => LineInv'
<1> SUFFICES ASSUME LineInv, Aside PROVE LineInv'
  OBVIOUS
<1>1. /\ UNCHANGED <<initialized, registered, conidx, ntfSem, link, inFlight, stale>>
      /\ pc'[Closer] = pc[Closer]
      /\ \A t \in Senders : pc'[t] = pc[t] \/ (pc[t] \notin SendLabels /\ pc'[t] \notin SendLabels)
  BY DEF Aside
<1>2. \A t \in Senders : (HasUnit(t))' => HasUnit(t)
  BY <1>1 DEF HasUnit, SendLabels
<1>3. \A t \in Senders : pc[t] \notin SendLabels => pc'[t] \notin SendLabels
  BY <1>1
<1>4. OpenInv'
  BY <1>1, <1>3 DEF LineInv, OpenInv, InUse
<1>5. StackInv'
  BY <1>1 DEF LineInv, StackInv
<1>6. SoleUnit'
  BY <1>1, <1>2 DEF LineInv, SoleUnit, InUse
<1> QED
  BY <1>4, <1>5, <1>6 DEF LineInv

\* A sender sends only with the unit of its channel, and on a live link.
LEMMA LineSend ==
  ASSUME TypeInv, LineInv, NEW t \in Senders, SendBegin(t) \/ SendStep(t)
  PROVE  LineInv'
<1> USE DEF At, Goto, linkVars, sendVars, stackVars, ringVars, dataVars, GiveBack
<1>1. /\ pc \in [Threads -> Labels] /\ ntfSem \in [Channels -> {0, 1}]
      /\ inFlight \in [Channels -> Nat]
  BY DEF TypeInv, TypeOK
<1>2. /\ t \in Threads /\ ChannelOf(t) \in Channels /\ Closer \in Threads /\ Closer # t
      /\ \A u \in Senders : u \in Threads /\ ChannelOf(u) \in Channels
                              /\ (u # t => ChannelOf(u) # ChannelOf(t))
  BY BleLuaAssumption, ChannelFacts DEF BleLuaAssumption, Senders, Threads
<1>3. /\ UNCHANGED <<initialized, registered, conidx, link, stale>> /\ pc'[Closer] = pc[Closer]
      /\ \A u \in Senders : u # t => pc'[u] = pc[u]
      /\ \A c \in Channels : c # ChannelOf(t) => ntfSem'[c] = ntfSem[c] /\ inFlight'[c] = inFlight[c]
  <2>1. UNCHANGED <<initialized, registered, conidx, link, stale>>
    BY DEF SendBegin, SendStep, SendLink, SendLock, SendTake, SendCheck, SendOk, SendFails,
           SendUnlock, Pass
  <2>2. \E l \in SendLabels \cup {"idle"} : pc' = [pc EXCEPT ![t] = l]
    BY DEF SendBegin, SendStep, SendLink, SendLock, SendTake, SendCheck, SendOk, SendFails,
           SendUnlock, Pass, SendLabels
  <2>3. \A c \in Channels : c # ChannelOf(t) => ntfSem'[c] = ntfSem[c] /\ inFlight'[c] = inFlight[c]
    BY <1>1, <1>2
       DEF SendBegin, SendStep, SendLink, SendLock, SendTake, SendCheck, SendOk, SendFails,
           SendUnlock, Pass
  <2> QED
    BY <1>1, <1>2, <2>1, <2>2, <2>3
<1>4. \/ initialized /\ pc[t] \notin SendLabels
      \/ pc[t] \in SendLabels
  BY DEF SendBegin, Begin, SendStep, SendLink, SendLock, SendTake, SendCheck, SendOk, SendFails,
         SendUnlock, Pass, SendLabels
<1>5. OpenInv'
  BY <1>3, <1>4 DEF LineInv, OpenInv, InUse
<1>6. \/ UNCHANGED inFlight
      \/ SendOk(t)
  BY DEF SendBegin, SendStep, SendLink, SendLock, SendTake, SendCheck, SendFails, SendUnlock, Pass
<1>7. ASSUME SendOk(t)
      PROVE  /\ pc[t] = "sSend" /\ conidx /\ InUse /\ link /\ inFlight[ChannelOf(t)] = 0
             /\ inFlight'[ChannelOf(t)] = 1 /\ pc'[t] \in {"sUnlock", "sTake"} /\ UNCHANGED ntfSem
             /\ ntfSem[ChannelOf(t)] = 0
  <2>1. /\ pc[t] = "sSend" /\ conidx /\ pc'[t] \in {"sUnlock", "sTake"} /\ UNCHANGED ntfSem
        /\ inFlight' = [inFlight EXCEPT ![ChannelOf(t)] = @ + 1]
    BY <1>1, <1>2, <1>7 DEF SendOk
  <2>2. InUse /\ link
    BY <2>1 DEF LineInv, OpenInv, SendLabels
  <2>3. inFlight[ChannelOf(t)] \in Nat /\ ~(inFlight[ChannelOf(t)] > 0) /\ ntfSem[ChannelOf(t)] = 0
    BY <1>1, <1>2, <2>1, <2>2 DEF LineInv, SoleUnit, HasUnit
  <2> QED
    BY <1>1, <1>2, <2>1, <2>2, <2>3
<1>8. StackInv'
  <2>1. CASE UNCHANGED inFlight
    BY <1>3, <2>1 DEF LineInv, StackInv
  <2>2. CASE SendOk(t)
    BY <1>3, <1>7, <2>2 DEF LineInv, StackInv
  <2> QED
    BY <1>6, <2>1, <2>2
<1>9. ASSUME InUse, conidx
      PROVE  /\ inFlight'[ChannelOf(t)] > 0 => ntfSem'[ChannelOf(t)] = 0 /\ ~(HasUnit(t))'
             /\ (HasUnit(t))' => ntfSem'[ChannelOf(t)] = 0
  <2>1. /\ inFlight[ChannelOf(t)] > 0 => ntfSem[ChannelOf(t)] = 0 /\ ~HasUnit(t)
        /\ HasUnit(t) => ntfSem[ChannelOf(t)] = 0
        /\ ntfSem[ChannelOf(t)] \in {0, 1}
    BY <1>1, <1>2, <1>9 DEF LineInv, SoleUnit
  <2> USE <1>1, <1>2, <2>1 DEF HasUnit
  <2>2. CASE SendBegin(t)
    BY <2>2 DEF SendBegin
  <2>3. CASE SendLink(t)
    BY <2>3 DEF SendLink, Pass
  <2>4. CASE SendLock(t)
    BY <2>4 DEF SendLock
  <2>5. CASE SendTake(t)
    BY <2>5 DEF SendTake
  <2>6. CASE SendCheck(t)
    BY <2>6 DEF SendCheck, Pass
  <2>7. CASE SendOk(t)
    BY <1>7, <2>7
  <2>8. CASE SendFails(t)
    BY <2>8 DEF SendFails
  <2>9. CASE SendUnlock(t)
    BY <2>9 DEF SendUnlock
  <2> QED
    BY <2>2, <2>3, <2>4, <2>5, <2>6, <2>7, <2>8, <2>9 DEF SendStep
<1>10. SoleUnit'
  <2> SUFFICES ASSUME InUse, conidx, NEW u \in Senders
               PROVE  /\ inFlight'[ChannelOf(u)] > 0 => ntfSem'[ChannelOf(u)] = 0 /\ ~(HasUnit(u))'
                      /\ (HasUnit(u))' => ntfSem'[ChannelOf(u)] = 0
    BY <1>3 DEF SoleUnit, InUse
  <2>1. CASE u = t
    BY <1>9, <2>1
  <2>2. CASE u # t
    BY <1>2, <1>3, <2>2 DEF LineInv, SoleUnit, HasUnit
  <2> QED
    BY <2>1, <2>2
<1> QED
  BY <1>5, <1>8, <1>10 DEF LineInv

\* What a give of the host does to a sender.
LEMMA LineGive ==
  ASSUME TypeInv, NEW cs \in SUBSET Channels, NEW rs \in SUBSET Rings, Give(cs, rs, pc)
  PROVE  /\ pc'[Closer] = pc[Closer]
         /\ \A t \in Senders :
              /\ pc'[t] \in SendLabels <=> pc[t] \in SendLabels
              /\ pc[t] # "sWait" => (HasUnit(t) <=> (HasUnit(t))')
              /\ pc[t] = "sWait" \/ ChannelOf(t) \notin cs
                   => ntfSem'[ChannelOf(t)] = ntfSem[ChannelOf(t)]
              /\ ChannelOf(t) \notin cs => (HasUnit(t) <=> (HasUnit(t))')
<1>1. TypeOK /\ pc \in [Threads -> Labels]
  BY DEF TypeInv, TypeOK
<1>2. Moves(cs, rs, pc) /\ Units(cs, rs)
  BY <1>1, GiveFacts, Zenon
<1>3. Closer \in Threads \ (Senders \cup Readers) /\ \A t \in Senders : t \in Threads
  BY BleLuaAssumption DEF BleLuaAssumption, Threads, Senders, Readers
<1> QED
  BY <1>2, <1>3 DEF Moves, Units, HasUnit, SendLabels

\* A sent event gives back the unit of the notification it is for; a new link finds no
\* sender inside and no sent event of the last one on its way.
LEMMA LineHost ==
  ASSUME SlowReconnect, TypeInv, LineInv, HostCall \/ StackStep
  PROVE  LineInv'
<1> USE DEF linkVars, sendVars, stackVars, ringVars, dataVars
<1>1. /\ ntfSem \in [Channels -> {0, 1}] /\ inFlight \in [Channels -> Nat]
      /\ stale \in [Channels -> Nat] /\ registered \in BOOLEAN
      /\ \A t \in Senders : ChannelOf(t) \in Channels
      /\ \A t, u \in Senders : ChannelOf(t) = ChannelOf(u) => t = u
  BY ChannelFacts DEF TypeInv, TypeOK
<1>2. CASE Connect
  <2>1. /\ ~link /\ link' = TRUE /\ conidx' = registered
        /\ UNCHANGED <<initialized, registered, ntfSem, inFlight, stale, pc>>
    BY <1>2, Zenon DEF Connect
  <2>2. /\ \A c \in Channels : stale[c] = 0
        /\ \A t \in Senders : pc[t] \notin SendLabels
    BY <1>2 DEF Connect, Settled
  <2>3. OpenInv'
    BY <2>1, <2>2 DEF LineInv, OpenInv, InUse
  <2>4. StackInv'
    BY <2>1, <2>2 DEF LineInv, StackInv
  <2>5. SoleUnit'
    <3>1. \A t \in Senders : ~(HasUnit(t))' /\ inFlight'[ChannelOf(t)] = 0
      BY <1>1, <2>1, <2>2 DEF HasUnit, SendLabels, LineInv, StackInv
    <3> QED
      BY <3>1 DEF SoleUnit
  <2> QED
    BY <2>3, <2>4, <2>5 DEF LineInv
<1>3. ASSUME LinkLost
      PROVE  link' = FALSE /\ StackInv'
  <2>1. link' = FALSE /\ inFlight' = [c \in Channels |-> 0]
    BY <1>3, Zenon DEF LinkLost
  <2> QED
    BY <2>1 DEF StackInv
<1>4. CASE Disconnect
  <2>1. /\ LinkLost /\ Give(Channels, {}, pc) /\ registered /\ conidx' = FALSE
        /\ UNCHANGED <<initialized, registered>>
    BY <1>4, Zenon DEF Disconnect
  <2>2. pc'[Closer] = pc[Closer]
    <3>1. Channels \in SUBSET Channels /\ {} \in SUBSET Rings
      OBVIOUS
    <3> QED
      BY <2>1, <3>1, LineGive
  <2>3. OpenInv' /\ SoleUnit'
    BY <2>1, <2>2 DEF LineInv, OpenInv, SoleUnit, InUse
  <2> QED
    BY <1>3, <2>1, <2>3 DEF LineInv
<1>5. CASE DisconnectUnheard
  <2>1. LinkLost /\ ~registered /\ UNCHANGED <<initialized, registered, conidx, pc>>
    BY <1>5, Zenon DEF DisconnectUnheard
  <2>2. ~InUse /\ ~InUse'
    BY <2>1 DEF LineInv, OpenInv, InUse, CloseLabels
  <2>3. OpenInv' /\ SoleUnit'
    BY <2>1, <2>2 DEF LineInv, OpenInv, SoleUnit, InUse
  <2> QED
    BY <1>3, <2>1, <2>3 DEF LineInv
<1>6. CASE (\E c \in Channels : CccWrite(c)) \/ WriteFrame \/ WriteControl
  <2>1. Aside
    BY <1>6 DEF CccWrite, WriteFrame, WriteControl, Aside, linkVars
  <2> QED
    BY <2>1, LineAside
<1>7. ASSUME NEW r \in Rings, Put(r)
      PROVE  LineInv'
  <2>1. Give({}, {r}, pc)
        /\ UNCHANGED <<initialized, registered, conidx, link, inFlight, stale>>
    BY <1>7, Zenon DEF Put
  <2>2. /\ pc'[Closer] = pc[Closer]
        /\ \A t \in Senders : /\ pc'[t] \in SendLabels <=> pc[t] \in SendLabels
                              /\ ntfSem'[ChannelOf(t)] = ntfSem[ChannelOf(t)]
                              /\ HasUnit(t) <=> (HasUnit(t))'
    <3>1. {} \in SUBSET Channels /\ {r} \in SUBSET Rings
      OBVIOUS
    <3> QED
      BY <2>1, <3>1, LineGive
  <2> QED
    BY <2>1, <2>2 DEF LineInv, OpenInv, StackInv, SoleUnit, InUse
<1>8. ASSUME NEW c \in Channels, EventSent(c) \/ StaleSent(c)
      PROVE  LineInv'
  <2>1. Give({c}, {}, pc) /\ UNCHANGED <<initialized, registered, conidx, link>>
    BY <1>8, Zenon DEF EventSent, StaleSent
  <2>2. /\ pc'[Closer] = pc[Closer]
        /\ \A t \in Senders :
              /\ pc'[t] \in SendLabels <=> pc[t] \in SendLabels
              /\ pc[t] # "sWait" => (HasUnit(t) <=> (HasUnit(t))')
              /\ pc[t] = "sWait" \/ ChannelOf(t) # c
                   => ntfSem'[ChannelOf(t)] = ntfSem[ChannelOf(t)]
              /\ ChannelOf(t) # c => (HasUnit(t) <=> (HasUnit(t))')
    <3>1. {c} \in SUBSET Channels /\ {} \in SUBSET Rings
      OBVIOUS
    <3> QED
      BY <2>1, <3>1, LineGive
  <2>3. OpenInv'
    BY <2>1, <2>2 DEF LineInv, OpenInv, InUse
  <2>4. /\ \A d \in Channels : d # c => inFlight'[d] = inFlight[d] /\ stale'[d] = stale[d]
        /\ \/ /\ inFlight[c] > 0 /\ inFlight'[c] = inFlight[c] - 1 /\ stale'[c] = stale[c]
           \/ stale[c] > 0 /\ stale'[c] = stale[c] - 1 /\ inFlight'[c] = inFlight[c]
        /\ inFlight[c] \in Nat /\ stale[c] \in Nat
    BY <1>1, <1>8 DEF EventSent, StaleSent
  <2>5. StackInv'
    BY <2>1, <2>4 DEF LineInv, StackInv
  <2>6. SoleUnit'
    <3> SUFFICES ASSUME InUse, conidx, NEW t \in Senders
                 PROVE  /\ inFlight'[ChannelOf(t)] > 0 => ntfSem'[ChannelOf(t)] = 0 /\ ~(HasUnit(t))'
                        /\ (HasUnit(t))' => ntfSem'[ChannelOf(t)] = 0
      BY <2>1, <2>2 DEF SoleUnit, InUse
    <3>1. /\ inFlight[ChannelOf(t)] > 0 => ntfSem[ChannelOf(t)] = 0 /\ ~HasUnit(t)
          /\ HasUnit(t) => ntfSem[ChannelOf(t)] = 0
      BY DEF LineInv, SoleUnit
    <3>2. CASE ChannelOf(t) # c
      BY <1>1, <2>2, <2>4, <3>1, <3>2
    <3>3. CASE ChannelOf(t) = c
      <4>1. inFlight[c] = 1 /\ inFlight'[c] = 0 /\ ntfSem[c] = 0 /\ ~HasUnit(t)
        BY <2>4, <3>1, <3>3 DEF LineInv, OpenInv, StackInv
      <4> QED
        BY <2>2, <3>3, <4>1
    <3> QED
      BY <3>2, <3>3
  <2> QED
    BY <2>3, <2>5, <2>6 DEF LineInv
<1>9. WriteLine => Put("repl") /\ "repl" \in Rings
  BY DEF WriteLine, Rings
<1>10. WriteAudio => Put("audio") /\ "audio" \in Rings
  BY DEF WriteAudio, Rings
<1> QED
  BY <1>2, <1>4, <1>5, <1>6, <1>7, <1>8, <1>9, <1>10 DEF HostCall, StackStep

\* The deinit takes the connection index away before it gives units nobody returned.
LEMMA LineClose ==
  ASSUME TypeInv, LineInv, DeinitBegin \/ CloseStep
  PROVE  LineInv'
<1> USE DEF At, Goto, linkVars, sendVars, stackVars, ringVars, dataVars
<1>1. TypeOK /\ pc \in [Threads -> Labels] /\ Closer \in Threads /\ Closer \notin Senders
      /\ \A t \in Senders : t \in Threads
  BY BleLuaAssumption DEF TypeInv, TypeOK, BleLuaAssumption, Senders, Threads
<1>2. UNCHANGED stackVars /\ StackInv'
  <2>1. UNCHANGED stackVars
    BY Zenon DEF DeinitBegin, CloseStep, DeinitLink, DeinitGive, DeinitUnregister, DeinitSwap, Free
  <2> QED
    BY <2>1 DEF LineInv, StackInv
<1>3. CASE DeinitBegin
  <2>1. initialized /\ initialized' = FALSE /\ pc' = [pc EXCEPT ![Closer] = "cLink"]
        /\ UNCHANGED <<registered, conidx, ntfSem>>
    BY <1>3, Zenon DEF DeinitBegin
  <2>2. pc'[Closer] = "cLink" /\ (\A t \in Senders : pc'[t] = pc[t]) /\ InUse /\ InUse'
    BY <1>1, <2>1 DEF InUse
  <2>3. OpenInv'
    BY <1>2, <2>1, <2>2 DEF LineInv, OpenInv
  <2>4. SoleUnit'
    BY <1>2, <2>1, <2>2 DEF LineInv, SoleUnit, HasUnit
  <2> QED
    BY <1>2, <2>3, <2>4 DEF LineInv
<1>4. ASSUME ~InUse', OpenInv'
      PROVE  LineInv'
  BY <1>2, <1>4 DEF LineInv, SoleUnit
<1>5. CASE DeinitLink
  <2>1. conidx' = FALSE /\ pc[Closer] = "cLink" /\ pc'[Closer] = "cGive"
        /\ UNCHANGED <<initialized, registered>>
    BY <1>1, <1>5 DEF DeinitLink
  <2> QED
    BY <1>4, <2>1 DEF LineInv, OpenInv, InUse, CloseLabels
<1>6. CASE DeinitGive
  <2>1. /\ Give(Channels, Rings, [pc EXCEPT ![Closer] = "cUnregister"]) /\ pc[Closer] = "cGive"
        /\ UNCHANGED <<initialized, registered, conidx, link>>
    BY <1>6, Zenon DEF DeinitGive
  <2>2. /\ [pc EXCEPT ![Closer] = "cUnregister"] \in [Threads -> Labels]
        /\ \A t \in Senders : [pc EXCEPT ![Closer] = "cUnregister"][t] = pc[t]
        /\ [pc EXCEPT ![Closer] = "cUnregister"][Closer] = "cUnregister"
        /\ Channels \in SUBSET Channels /\ Rings \in SUBSET Rings
    BY <1>1, LabelFacts
  <2>3. Moves(Channels, Rings, [pc EXCEPT ![Closer] = "cUnregister"])
    BY <1>1, <2>1, <2>2, GiveFacts, Zenon
  <2>4. pc'[Closer] = "cUnregister"
    <3>1. Closer \in Threads \ (Senders \cup Readers)
      BY BleLuaAssumption DEF BleLuaAssumption, Threads, Senders, Readers
    <3> QED
      BY <2>2, <2>3, <3>1 DEF Moves
  <2>5. \A t \in Senders : pc'[t] \in SendLabels => pc[t] \in SendLabels
    BY <1>1, <2>2, <2>3 DEF Moves, SendLabels
  <2> QED
    BY <1>4, <2>1, <2>4, <2>5 DEF LineInv, OpenInv, InUse, CloseLabels
<1>7. CASE DeinitUnregister \/ DeinitSwap \/ Free(Closer, "cFree")
  <2>1. /\ pc[Closer] \in CloseLabels \ {"cLink"} /\ UNCHANGED <<initialized, conidx, link>>
        /\ pc'[Closer] # "cLink" /\ \A t \in Senders : pc'[t] = pc[t]
    BY <1>1, <1>7 DEF DeinitUnregister, DeinitSwap, Free, CloseLabels
  <2> QED
    BY <1>4, <2>1 DEF LineInv, OpenInv, InUse
<1> QED
  BY <1>3, <1>5, <1>6, <1>7 DEF CloseStep

\* Every step keeps the line in order, given a stack that settles between two links.
LEMMA LineStep ==
  ASSUME SlowReconnect PROVE TypeInv /\ LineInv /\ [Next]_vars => LineInv'
<1> SUFFICES ASSUME TypeInv, LineInv, [Next]_vars PROVE LineInv'
  OBVIOUS
<1>1. CASE UNCHANGED vars
  <2>1. Aside
    BY <1>1 DEF Aside, vars, linkVars, sendVars, stackVars
  <2> QED
    BY <2>1, LineAside
<1>2. CASE \E t \in Senders : SendBegin(t) \/ SendStep(t)
  BY <1>2, LineSend
<1>3. CASE \E t \in Readers : ReadBegin(t) \/ ReadStep(t)
  BY <1>3, ReadAside, LineAside
<1>4. CASE AudioFlush \/ DrainBegin \/ VmCleanup \/ ResizeBegin \/ FrameStep
  BY <1>4, FrameAside, LineAside
<1>5. CASE HostCall \/ StackStep
  BY <1>5, LineHost
<1> QED
  BY <1>1, <1>2, <1>3, <1>4, <1>5, LineClose, Zenon DEF Next, CallBegin

\* "Wait for previous notification to complete" (send_notification): the stack never holds
\* two notifications of a channel, whatever links, disconnects and deinit do to the
\* semaphore meanwhile, when a new link comes after the senders of the last one returned.
THEOREM OneAtATime == ASSUME SlowReconnect PROVE Spec => []OneOutstanding
<1>1. Init => LineInv
  BY LineInit
<1>2. TypeInv /\ LineInv /\ [Next]_vars => LineInv'
  BY LineStep
<1>3. LineInv => OneOutstanding
  BY DEF LineInv, StackInv, OneOutstanding
<1>4. Init => TypeInv
  BY TypeInit
<1>5. TypeInv /\ [Next]_vars => TypeInv'
  BY TypeStep
<1> QED
  BY <1>1, <1>2, <1>3, <1>4, <1>5, PTL DEF Spec

(***************************************************************************)
(* The data buffers.                                                       *)
(***************************************************************************)
\* Who holds a buffer, by what it does: the ring until the deinit swaps it out, a resize
\* between its allocation and its free, the deinit between its swap and its free.
BufferInv ==
  /\ \A b \in heap :
       \/ dataBuf = b /\ held[Repl] # b /\ held[Closer] # b
       \/ dataBuf # b /\ held[Repl] = b /\ held[Closer] # b
       \/ dataBuf # b /\ held[Repl] # b /\ held[Closer] = b
  /\ dataBuf \in heap \cup {NoBuf} /\ (dataBuf # NoBuf => ringBuf = dataBuf)
  /\ held[Repl] \in heap \cup {NoBuf} /\ held[Closer] \in heap \cup {NoBuf}
  /\ dataBuf # NoBuf <=> (initialized \/ pc[Closer] \in CloseLabels \ {"cFree"})
  /\ pc[Closer] \in CloseLabels => ~initialized
  /\ held[Repl] # NoBuf <=> pc[Repl] \in {"zSwap", "zFree"}
  /\ held[Closer] # NoBuf <=> pc[Closer] = "cFree"

\* What the stack and the host do moves only threads that wait for a unit.
LEMMA HostMoves ==
  ASSUME TypeInv, HostCall \/ StackStep
  PROVE  /\ UNCHANGED <<initialized, dataBuf, ringBuf, heap, held, pc[Closer]>>
         /\ \/ pc'[Repl] = pc[Repl]
            \/ pc[Repl] = "sWait" /\ pc'[Repl] = "sCheck"
            \/ pc[Repl] = "rWait" /\ pc'[Repl] = "rCheck"
<1> USE DEF linkVars, sendVars, stackVars, ringVars, dataVars
<1>1. TypeOK /\ pc \in [Threads -> Labels]
  BY DEF TypeInv, TypeOK
<1>2. ASSUME NEW cs \in SUBSET Channels, NEW rs \in SUBSET Rings, Give(cs, rs, pc)
      PROVE  /\ UNCHANGED pc[Closer]
             /\ \/ pc'[Repl] = pc[Repl]
                \/ pc[Repl] = "sWait" /\ pc'[Repl] = "sCheck"
                \/ pc[Repl] = "rWait" /\ pc'[Repl] = "rCheck"
  <2>1. Moves(cs, rs, pc)
    BY <1>1, <1>2, GiveFacts, Zenon
  <2>2. Closer \in Threads \ (Senders \cup Readers) /\ Repl \in Threads
    BY BleLuaAssumption DEF BleLuaAssumption, Threads, Senders, Readers
  <2> QED
    BY <2>1, <2>2 DEF Moves
<1>3. CASE Connect \/ DisconnectUnheard \/ (\E c \in Channels : CccWrite(c))
             \/ WriteFrame \/ WriteControl
  BY <1>3 DEF Connect, DisconnectUnheard, CccWrite, WriteFrame, WriteControl
<1>4. CASE Disconnect
  <2>1. Give(Channels, {}, pc) /\ UNCHANGED <<initialized, dataBuf, ringBuf, heap, held>>
    BY <1>4, Zenon DEF Disconnect
  <2>2. Channels \in SUBSET Channels /\ {} \in SUBSET Rings
    OBVIOUS
  <2> QED
    BY <1>2, <2>1, <2>2, Zenon
<1>5. ASSUME NEW r \in Rings, Put(r)
      PROVE  /\ UNCHANGED <<initialized, dataBuf, ringBuf, heap, held, pc[Closer]>>
             /\ \/ pc'[Repl] = pc[Repl]
                \/ pc[Repl] = "sWait" /\ pc'[Repl] = "sCheck"
                \/ pc[Repl] = "rWait" /\ pc'[Repl] = "rCheck"
  <2>1. Give({}, {r}, pc) /\ UNCHANGED <<initialized, dataBuf, ringBuf, heap, held>>
    BY <1>5, Zenon DEF Put
  <2>2. {} \in SUBSET Channels /\ {r} \in SUBSET Rings
    OBVIOUS
  <2> QED
    BY <1>2, <2>1, <2>2, Zenon
<1>6. ASSUME NEW c \in Channels, EventSent(c) \/ StaleSent(c)
      PROVE  /\ UNCHANGED <<initialized, dataBuf, ringBuf, heap, held, pc[Closer]>>
             /\ \/ pc'[Repl] = pc[Repl]
                \/ pc[Repl] = "sWait" /\ pc'[Repl] = "sCheck"
                \/ pc[Repl] = "rWait" /\ pc'[Repl] = "rCheck"
  <2>1. Give({c}, {}, pc) /\ UNCHANGED <<initialized, dataBuf, ringBuf, heap, held>>
    BY <1>6, Zenon DEF EventSent, StaleSent
  <2>2. {c} \in SUBSET Channels /\ {} \in SUBSET Rings
    OBVIOUS
  <2> QED
    BY <1>2, <2>1, <2>2, Zenon
<1>7. WriteLine => Put("repl") /\ "repl" \in Rings
  BY DEF WriteLine, Rings
<1>8. WriteAudio => Put("audio") /\ "audio" \in Rings
  BY DEF WriteAudio, Rings
<1> QED
  BY <1>3, <1>4, <1>5, <1>6, <1>7, <1>8 DEF HostCall, StackStep

\* A sender or a reader stays inside its call, and away from the data frames.
LEMMA IoMoves ==
  ASSUME TypeInv, NEW t \in Senders \cup Readers,
         \/ t \in Senders /\ (SendBegin(t) \/ SendStep(t))
         \/ t \in Readers /\ (ReadBegin(t) \/ ReadStep(t))
  PROVE  /\ UNCHANGED <<initialized, dataVars, pc[Closer]>>
         /\ \/ pc'[Repl] = pc[Repl]
            \/ /\ pc[Repl] \in SendLabels \cup ReadLabels \cup {"idle"}
               /\ pc'[Repl] \in SendLabels \cup ReadLabels \cup {"idle"}
<1> USE DEF At, Goto, Begin, Pass, linkVars, sendVars, stackVars, ringVars
<1>1. /\ pc \in [Threads -> Labels] /\ t \in Threads /\ Closer \in Threads /\ t # Closer
      /\ Repl \in Threads
  BY ChannelFacts, BleLuaAssumption
     DEF TypeInv, TypeOK, BleLuaAssumption, Senders, Readers, Threads
<1>2. CASE t \in Senders /\ (SendBegin(t) \/ SendStep(t))
  <2>1. /\ UNCHANGED <<initialized, dataVars>>
        /\ \E l, k \in SendLabels \cup {"idle"} : pc[t] = k /\ pc' = [pc EXCEPT ![t] = l]
    BY <1>2 DEF SendBegin, SendStep, SendLink, SendLock, SendTake, SendCheck, SendOk, SendFails,
                SendUnlock, SendLabels
  <2> QED
    BY <1>1, <2>1
<1>3. CASE t \in Readers /\ (ReadBegin(t) \/ ReadStep(t))
  <2>1. /\ UNCHANGED <<initialized, dataVars>>
        /\ \E l, k \in ReadLabels \cup {"idle"} : pc[t] = k /\ pc' = [pc EXCEPT ![t] = l]
    BY <1>3 DEF ReadBegin, ReadStep, ReadTake, ReadTimeout, ReadCheck, ReadGet, ReadFinish,
                ReadLook, ReadGive, ReadLabels
  <2> QED
    BY <1>1, <2>1
<1> QED
  BY <1>2, <1>3

\* Who does not touch the buffers keeps the invariant.
LEMMA BufferOther ==
  ASSUME BufferInv, UNCHANGED <<initialized, dataBuf, ringBuf, heap, held, pc[Closer]>>,
         pc'[Repl] \in {"zSwap", "zFree"} <=> pc[Repl] \in {"zSwap", "zFree"}
  PROVE  BufferInv'
  BY DEF BufferInv

\* The drain, the resize and a new VM keep it.
LEMMA BufferFrame ==
  ASSUME TypeInv, BufferInv, AudioFlush \/ DrainBegin \/ VmCleanup \/ ResizeBegin \/ FrameStep
  PROVE  BufferInv'
<1> USE DEF At, Goto, linkVars, sendVars, stackVars, ringVars, dataVars
<1>1. /\ pc \in [Threads -> Labels] /\ Repl \in Threads /\ Closer \in Threads /\ Repl # Closer
      /\ held \in [{Repl, Closer} -> Bufs \cup {NoBuf}] /\ NoBuf \notin Bufs /\ heap \subseteq Bufs
  BY BleLuaAssumption DEF TypeInv, TypeOK, BleLuaAssumption, Threads
<1>2. CASE AudioFlush
  <2>1. UNCHANGED <<initialized, dataBuf, ringBuf, heap, held, pc>>
    BY <1>2, Zenon DEF AudioFlush
  <2> QED
    BY <2>1 DEF BufferInv
<1>3. CASE \/ DrainBegin \/ VmCleanup \/ ResizeBegin \/ FrameTest \/ DrainEnd \/ FrameHead
           \/ FrameBody \/ VmFlush \/ Pass(Repl, "zAlloc", "idle")
  <2>1. /\ UNCHANGED <<initialized, dataBuf, ringBuf, heap, held>>
        /\ \E l, k \in {"idle", "nHead", "nGet", "nBody", "vFlush", "zAlloc"} :
             pc[Repl] = k /\ pc' = [pc EXCEPT ![Repl] = l]
    BY <1>3 DEF DrainBegin, VmCleanup, ResizeBegin, FrameTest, DrainEnd, FrameHead, FrameBody,
                VmFlush, Pass, Begin
  <2> QED
    BY <1>1, <2>1, BufferOther
<1>4. ASSUME NEW b \in Bufs \ heap, At(Repl, "zAlloc"), heap' = heap \cup {b},
             held' = [held EXCEPT ![Repl] = b], Goto(Repl, "zSwap"),
             UNCHANGED <<initialized, dataBuf, ringBuf>>
      PROVE  BufferInv'
  <2>1. held'[Repl] = b /\ held'[Closer] = held[Closer] /\ b # NoBuf
    BY <1>1, <1>4
  <2>2. pc'[Repl] = "zSwap" /\ pc'[Closer] = pc[Closer] /\ pc[Repl] = "zAlloc"
    BY <1>1, <1>4
  <2> QED
    BY <1>1, <1>4, <2>1, <2>2 DEF BufferInv
<1>5. CASE ResizeSwap
  <2>1. pc'[Repl] = "zFree" /\ pc'[Closer] = pc[Closer] /\ pc[Repl] = "zSwap"
        /\ UNCHANGED <<initialized, heap>>
    BY <1>1, <1>5 DEF ResizeSwap
  <2>2. CASE initialized /\ dataBuf # NoBuf
    <3>1. dataBuf' = held[Repl] /\ held' = [held EXCEPT ![Repl] = dataBuf] /\ ringBuf' = held[Repl]
      BY <1>5, <2>2, Zenon DEF ResizeSwap
    <3>2. held'[Repl] = dataBuf /\ held'[Closer] = held[Closer]
      BY <1>1, <3>1
    <3> QED
      BY <2>1, <2>2, <3>1, <3>2 DEF BufferInv
  <2>3. CASE ~(initialized /\ dataBuf # NoBuf)
    <3>1. UNCHANGED <<dataBuf, held, ringBuf>>
      BY <1>5, <2>3, Zenon DEF ResizeSwap
    <3> QED
      BY <2>1, <3>1, BufferOther
  <2> QED
    BY <2>2, <2>3
<1>6. CASE Free(Repl, "zFree")
  <2>1. pc'[Repl] = "idle" /\ pc'[Closer] = pc[Closer] /\ pc[Repl] = "zFree"
        /\ UNCHANGED <<initialized, dataBuf, ringBuf>> /\ heap' = heap \ {held[Repl]}
        /\ held' = [held EXCEPT ![Repl] = NoBuf]
    BY <1>1, <1>6 DEF Free
  <2>2. held'[Repl] = NoBuf /\ held'[Closer] = held[Closer]
    BY <1>1, <2>1
  <2> QED
    BY <1>1, <2>1, <2>2 DEF BufferInv
<1> QED
  BY <1>2, <1>3, <1>4, <1>5, <1>6 DEF FrameStep, ResizeAlloc

\* So does the deinit.
LEMMA BufferClose ==
  ASSUME TypeInv, BufferInv, DeinitBegin \/ CloseStep
  PROVE  BufferInv'
<1> USE DEF At, Goto, linkVars, sendVars, stackVars, ringVars, dataVars
<1>1. /\ TypeOK /\ pc \in [Threads -> Labels] /\ Repl \in Threads /\ Closer \in Threads
      /\ Repl # Closer
      /\ held \in [{Repl, Closer} -> Bufs \cup {NoBuf}] /\ NoBuf \notin Bufs /\ heap \subseteq Bufs
  BY BleLuaAssumption DEF TypeInv, TypeOK, BleLuaAssumption, Threads
<1>2. CASE DeinitBegin
  <2>1. initialized' = FALSE /\ pc[Closer] = "idle" /\ pc' = [pc EXCEPT ![Closer] = "cLink"]
        /\ UNCHANGED <<dataBuf, ringBuf, heap, held>> /\ initialized
    BY <1>2, Zenon DEF DeinitBegin, Begin
  <2>2. pc'[Closer] = "cLink" /\ pc'[Repl] = pc[Repl]
    BY <1>1, <2>1
  <2> QED
    BY <2>1, <2>2 DEF BufferInv, CloseLabels
<1>3. CASE DeinitLink \/ DeinitUnregister
  <2>1. /\ UNCHANGED <<initialized, dataBuf, ringBuf, heap, held>>
        /\ \E l, k \in {"cLink", "cGive", "cUnregister", "cSwap"} :
             pc[Closer] = k /\ pc' = [pc EXCEPT ![Closer] = l]
    BY <1>3 DEF DeinitLink, DeinitUnregister
  <2> QED
    BY <1>1, <2>1 DEF BufferInv, CloseLabels
<1>4. CASE DeinitGive
  <2>1. Give(Channels, Rings, [pc EXCEPT ![Closer] = "cUnregister"]) /\ pc[Closer] = "cGive"
        /\ UNCHANGED <<initialized, dataBuf, ringBuf, heap, held>>
    BY <1>4, Zenon DEF DeinitGive
  <2>2. /\ [pc EXCEPT ![Closer] = "cUnregister"] \in [Threads -> Labels]
        /\ [pc EXCEPT ![Closer] = "cUnregister"][Repl] = pc[Repl]
        /\ [pc EXCEPT ![Closer] = "cUnregister"][Closer] = "cUnregister"
        /\ Channels \in SUBSET Channels /\ Rings \in SUBSET Rings
    BY <1>1, LabelFacts
  <2>3. Moves(Channels, Rings, [pc EXCEPT ![Closer] = "cUnregister"])
    BY <1>1, <2>1, <2>2, GiveFacts, Zenon
  <2>4. Closer \in Threads \ (Senders \cup Readers)
    BY BleLuaAssumption DEF BleLuaAssumption, Threads, Senders, Readers
  <2>5. pc'[Closer] = "cUnregister"
    BY <2>2, <2>3, <2>4 DEF Moves
  <2>6. pc'[Repl] \in {"zSwap", "zFree"} <=> pc[Repl] \in {"zSwap", "zFree"}
    BY <1>1, <2>2, <2>3 DEF Moves
  <2> QED
    BY <2>1, <2>5, <2>6 DEF BufferInv, CloseLabels
<1>5. CASE DeinitSwap
  <2>1. pc[Closer] = "cSwap" /\ pc' = [pc EXCEPT ![Closer] = "cFree"]
        /\ held' = [held EXCEPT ![Closer] = dataBuf] /\ dataBuf' = NoBuf
        /\ UNCHANGED <<initialized, ringBuf, heap>>
    BY <1>5, Zenon DEF DeinitSwap
  <2>2. pc'[Closer] = "cFree" /\ pc'[Repl] = pc[Repl]
        /\ held'[Closer] = dataBuf /\ held'[Repl] = held[Repl]
    BY <1>1, <2>1
  <2> QED
    BY <1>1, <2>1, <2>2 DEF BufferInv, CloseLabels
<1>6. CASE Free(Closer, "cFree")
  <2>1. pc[Closer] = "cFree" /\ pc' = [pc EXCEPT ![Closer] = "idle"]
        /\ heap' = heap \ {held[Closer]} /\ held' = [held EXCEPT ![Closer] = NoBuf]
        /\ UNCHANGED <<initialized, dataBuf, ringBuf>>
    BY <1>6, Zenon DEF Free
  <2>2. pc'[Closer] = "idle" /\ pc'[Repl] = pc[Repl]
        /\ held'[Closer] = NoBuf /\ held'[Repl] = held[Repl]
    BY <1>1, <2>1
  <2> QED
    BY <1>1, <2>1, <2>2 DEF BufferInv, CloseLabels
<1> QED
  BY <1>2, <1>3, <1>4, <1>5, <1>6 DEF CloseStep

\* A data buffer has one owner and is freed once, wherever a deinit meets a resize, and the
\* ring is in the service's (halo_ble_lua_data_resize, halo_ble_lua_deinit).
THEOREM BuffersOwned == Spec => []BufferOwnedOnce
<1>1. Init => BufferInv
  <2> SUFFICES ASSUME Init PROVE BufferInv
    OBVIOUS
  <2>1. initialized = TRUE /\ dataBuf = FirstBuf /\ ringBuf = FirstBuf /\ heap = {FirstBuf}
        /\ held = [t \in {Repl, Closer} |-> NoBuf]
    BY Zenon DEF Init
  <2>2. pc[Repl] = "idle" /\ pc[Closer] = "idle"
    BY DEF Init, Threads
  <2>3. FirstBuf # NoBuf
    BY BleLuaAssumption DEF BleLuaAssumption
  <2> QED
    BY <2>1, <2>2, <2>3 DEF BufferInv, CloseLabels
<1>2. TypeInv /\ BufferInv /\ [Next]_vars => BufferInv'
  <2> SUFFICES ASSUME TypeInv, BufferInv, [Next]_vars PROVE BufferInv'
    OBVIOUS
  <2>1. CASE UNCHANGED vars
    BY <2>1 DEF BufferInv, vars, linkVars, dataVars
  <2>2. CASE HostCall \/ StackStep
    BY <2>2, HostMoves, BufferOther
  <2>3. ASSUME NEW t \in Senders \cup Readers,
               \/ t \in Senders /\ (SendBegin(t) \/ SendStep(t))
               \/ t \in Readers /\ (ReadBegin(t) \/ ReadStep(t))
        PROVE  BufferInv'
    BY <2>3, IoMoves, BufferOther DEF dataVars, SendLabels, ReadLabels
  <2> QED
    BY <2>1, <2>2, <2>3, BufferFrame, BufferClose, Zenon DEF Next, CallBegin
<1>3. TypeInv /\ BufferInv => BufferOwnedOnce
  <2> SUFFICES ASSUME TypeInv, BufferInv PROVE BufferOwnedOnce
    OBVIOUS
  <2>1. Repl # Closer /\ heap \subseteq Bufs /\ NoBuf \notin Bufs
    BY BleLuaAssumption DEF BleLuaAssumption, TypeInv, TypeOK
  <2> QED
    BY <2>1 DEF BufferInv, BufferOwnedOnce, CloseLabels, ResizeLabels
<1>4. Init => TypeInv
  BY TypeInit
<1>5. TypeInv /\ [Next]_vars => TypeInv'
  BY TypeStep
<1> QED
  BY <1>1, <1>2, <1>3, <1>4, <1>5, PTL DEF Spec

(***************************************************************************)
(* Nothing that arrived waits for the next arrival.                        *)
(***************************************************************************)
\* A queued frame is announced: the event bit is taken before the ring is read, and set
\* after it is written (data_ring_put_frame, lua_hook_dispatch, bluetooth_drain).
THEOREM FramesAnnounced == Spec => []FrameAnnounced
<1>1. Init => FrameAnnounced
  BY Zenon DEF Init, FrameAnnounced
<1>2. TypeInv /\ FrameAnnounced /\ [Next]_vars => FrameAnnounced'
  <2> SUFFICES ASSUME TypeInv, FrameAnnounced, [Next]_vars PROVE FrameAnnounced'
    OBVIOUS
  <2> USE DEF linkVars, sendVars, stackVars, ringVars, dataVars
  <2>1. pc \in [Threads -> Labels] /\ Repl \in Threads /\ Closer \in Threads /\ Repl # Closer
    BY BleLuaAssumption DEF TypeInv, TypeOK, BleLuaAssumption, Threads
  <2>2. CASE UNCHANGED vars
    BY <2>2 DEF FrameAnnounced, vars
  <2>3. ASSUME NEW t \in Senders \cup Readers,
               \/ t \in Senders /\ (SendBegin(t) \/ SendStep(t))
               \/ t \in Readers /\ (ReadBegin(t) \/ ReadStep(t))
        PROVE  FrameAnnounced'
    BY <2>3, IoMoves DEF FrameAnnounced, SendLabels, ReadLabels, DrainLabels
  <2>4. CASE HostCall \/ StackStep
    <3>1. UNCHANGED initialized /\ (pc[Repl] \in DrainLabels => pc'[Repl] \in DrainLabels)
      BY <2>4, HostMoves DEF DrainLabels
    <3>2. UNCHANGED <<dataRing, pending>> \/ dataRing' = <<>> \/ pending'
      <4>1. CASE WriteFrame
        <5>1. CASE Len(dataRing) < 2 * Cap
          <6>1. pending' = TRUE
            BY <4>1, <5>1, Zenon DEF WriteFrame
          <6> QED
            BY <6>1
        <5>2. CASE ~(Len(dataRing) < 2 * Cap)
          BY <4>1, <5>2, Zenon DEF WriteFrame
        <5> QED
          BY <5>1, <5>2
      <4>2. CASE ~WriteFrame
        BY <2>4, <4>2, Zenon
           DEF HostCall, StackStep, Connect, Disconnect, DisconnectUnheard, CccWrite, WriteLine,
               WriteAudio, Put, WriteControl, EventSent, StaleSent
      <4> QED
        BY <4>1, <4>2
    <3> QED
      BY <3>1, <3>2 DEF FrameAnnounced
  <2>5. CASE AudioFlush \/ DrainBegin \/ VmCleanup \/ ResizeBegin
    <3>1. CASE AudioFlush
      BY <3>1, Zenon DEF AudioFlush, FrameAnnounced
    <3>2. CASE DrainBegin \/ VmCleanup
      <4>1. pc'[Repl] \in DrainLabels
        BY <2>1, <3>2 DEF DrainBegin, VmCleanup, Goto, DrainLabels
      <4> QED
        BY <4>1 DEF FrameAnnounced
    <3>3. CASE ResizeBegin
      <4>1. UNCHANGED <<initialized, dataRing, pending>> /\ pc[Repl] \notin DrainLabels
        BY <3>3 DEF ResizeBegin, Begin, At, DrainLabels
      <4> QED
        BY <4>1 DEF FrameAnnounced
    <3> QED
      BY <2>5, <3>1, <3>2, <3>3
  <2>6. CASE FrameStep
    <3> USE DEF At, Goto, Pass
    <3>1. CASE DrainEnd \/ VmFlush
      <4>1. UNCHANGED initialized /\ (initialized => dataRing' = <<>>)
        BY <3>1 DEF DrainEnd, VmFlush
      <4> QED
        BY <4>1 DEF FrameAnnounced
    <3>6. CASE FrameTest
      <4>1. UNCHANGED <<initialized, dataRing>> /\ (initialized => pc'[Repl] = "nGet")
        BY <2>1, <3>6 DEF FrameTest
      <4> QED
        BY <4>1 DEF FrameAnnounced, DrainLabels
    <3>2. CASE FrameHead
      <4>1. pc'[Repl] = "nBody"
        BY <2>1, <3>2 DEF FrameHead
      <4> QED
        BY <4>1 DEF FrameAnnounced, DrainLabels
    <3>3. CASE FrameBody
      <4>1. CASE dataRing = <<>>
        BY <3>3, <4>1 DEF FrameBody, FrameAnnounced
      <4>2. CASE dataRing # <<>>
        <5>1. pc'[Repl] = "nHead"
          BY <2>1, <3>3, <4>2 DEF FrameBody
        <5> QED
          BY <5>1 DEF FrameAnnounced, DrainLabels
      <4> QED
        BY <4>1, <4>2
    <3>4. CASE ResizeAlloc \/ Free(Repl, "zFree")
      <4>1. UNCHANGED <<initialized, dataRing, pending>> /\ pc[Repl] \notin DrainLabels
        BY <3>4 DEF ResizeAlloc, Free, DrainLabels
      <4> QED
        BY <4>1 DEF FrameAnnounced
    <3>5. CASE ResizeSwap
      <4>1. UNCHANGED <<initialized, pending>> /\ pc[Repl] \notin DrainLabels
        BY <3>5 DEF ResizeSwap, DrainLabels
      <4>2. dataRing' \in {dataRing, <<>>}
        BY <3>5 DEF ResizeSwap
      <4> QED
        BY <4>1, <4>2 DEF FrameAnnounced
    <3> QED
      BY <2>6, <3>1, <3>2, <3>3, <3>4, <3>5, <3>6 DEF FrameStep
  <2>7. CASE DeinitBegin
    <3>1. initialized' = FALSE
      BY <2>7, Zenon DEF DeinitBegin
    <3> QED
      BY <3>1 DEF FrameAnnounced
  <2>8. CASE CloseStep
    <3>1. UNCHANGED <<initialized, dataRing, pending>>
      BY <2>8, Zenon DEF CloseStep, DeinitLink, DeinitGive, DeinitUnregister, DeinitSwap, Free
    <3>2. pc[Repl] \in DrainLabels => pc'[Repl] \in DrainLabels
      <4>1. CASE DeinitGive
        <5>1. /\ Give(Channels, Rings, [pc EXCEPT ![Closer] = "cUnregister"])
              /\ TypeOK
          BY <4>1, Zenon DEF DeinitGive, TypeInv
        <5>2. /\ [pc EXCEPT ![Closer] = "cUnregister"] \in [Threads -> Labels]
              /\ [pc EXCEPT ![Closer] = "cUnregister"][Repl] = pc[Repl]
              /\ Channels \in SUBSET Channels /\ Rings \in SUBSET Rings
          BY <2>1, LabelFacts
        <5>3. Moves(Channels, Rings, [pc EXCEPT ![Closer] = "cUnregister"])
          BY <5>1, <5>2, GiveFacts, Zenon
        <5> QED
          BY <2>1, <5>2, <5>3 DEF Moves, DrainLabels
      <4>2. CASE ~DeinitGive
        BY <2>1, <2>8, <4>2
           DEF CloseStep, DeinitLink, DeinitUnregister, DeinitSwap, Free, Goto
      <4> QED
        BY <4>1, <4>2
    <3> QED
      BY <3>1, <3>2 DEF FrameAnnounced
  <2> QED
    BY <2>2, <2>3, <2>4, <2>5, <2>6, <2>7, <2>8, Zenon DEF Next, CallBegin
<1>3. Init => TypeInv
  BY TypeInit
<1>4. TypeInv /\ [Next]_vars => TypeInv'
  BY TypeStep
<1> QED
  BY <1>1, <1>2, <1>3, <1>4, PTL DEF Spec

\* What DataWakesReader says of one reader.
Looked(t) ==
  initialized /\ rx[RingOf(t)] > 0
    => rxSem[RingOf(t)] = 1 \/ pc[t] \in {"rCheck", "rGet", "rFinish", "rLook", "rGive"}

\* A give to some of the rings leaves no reader asleep that was not.
LEMMA WakeGive ==
  ASSUME TypeOK, NEW cs \in SUBSET Channels, NEW rs \in SUBSET Rings,
         NEW moved \in [Threads -> Labels], \A u \in Readers : moved[u] = pc[u],
         Give(cs, rs, moved), NEW t \in Readers, Looked(t), UNCHANGED initialized,
         RingOf(t) \in rs \/ rx'[RingOf(t)] \in {rx[RingOf(t)], 0}
  PROVE  Looked(t)'
<1>1. Moves(cs, rs, moved) /\ Units(cs, rs)
  BY GiveFacts, Zenon
<1>2. /\ t \in Threads
      /\ pc[t] = "rWait" => pc'[t] = IF RingOf(t) \in rs THEN "rCheck" ELSE pc[t]
      /\ \/ pc'[t] = pc[t]
         \/ pc[t] = "sWait" /\ pc'[t] = "sCheck"
         \/ pc[t] = "rWait" /\ pc'[t] = "rCheck"
      /\ RingOf(t) \in rs /\ pc[t] # "rWait" => rxSem'[RingOf(t)] = 1
      /\ RingOf(t) \notin rs \/ pc[t] = "rWait" => rxSem'[RingOf(t)] = rxSem[RingOf(t)]
  BY <1>1, ChannelFacts DEF Moves, Units
<1>3. CASE RingOf(t) \in rs
  BY <1>2, <1>3 DEF Looked
<1>4. CASE RingOf(t) \notin rs
  <2>1. rx'[RingOf(t)] > 0 => rx'[RingOf(t)] = rx[RingOf(t)]
    BY <1>4
  <2> QED
    BY <1>2, <1>4, <2>1 DEF Looked
<1> QED
  BY <1>3, <1>4

\* What the stack and the host do leaves no reader asleep.
LEMMA WakeHost ==
  ASSUME TypeInv, HostCall \/ StackStep, NEW t \in Readers, Looked(t)
  PROVE  Looked(t)'
<1> USE DEF linkVars, sendVars, stackVars, ringVars
<1>1. /\ TypeOK /\ pc \in [Threads -> Labels] /\ rx \in [Rings -> Nat]
      /\ RingOf(t) \in Rings /\ UNCHANGED initialized
  BY ChannelFacts, HostMoves DEF TypeInv, TypeOK
<1>2. CASE Connect \/ DisconnectUnheard \/ (\E c \in Channels : CccWrite(c)) \/ WriteFrame
  <2>1. UNCHANGED <<rx, rxSem, pc>>
    BY <1>2, Zenon DEF Connect, DisconnectUnheard, CccWrite, WriteFrame
  <2> QED
    BY <1>1, <2>1 DEF Looked
<1>3. CASE Disconnect
  <2>1. Give(Channels, {}, pc) /\ rx' = [r \in Rings |-> 0]
    BY <1>3, Zenon DEF Disconnect
  <2>2. rx'[RingOf(t)] \in {rx[RingOf(t)], 0} /\ Channels \in SUBSET Channels /\ {} \in SUBSET Rings
    BY <1>1, <2>1
  <2> QED
    BY <1>1, <2>1, <2>2, WakeGive, Zenon
<1>4. CASE WriteControl
  <2>1. rx'[RingOf(t)] \in {rx[RingOf(t)], 0} /\ UNCHANGED <<rxSem, pc>>
    BY <1>1, <1>4 DEF WriteControl
  <2> QED
    BY <1>1, <2>1 DEF Looked
<1>5. ASSUME NEW r \in Rings, Put(r)
      PROVE  Looked(t)'
  <2>1. Give({}, {r}, pc) /\ rx' = [rx EXCEPT ![r] = @ + 1]
    BY <1>5, Zenon DEF Put
  <2>2. /\ RingOf(t) \in {r} \/ rx'[RingOf(t)] \in {rx[RingOf(t)], 0}
        /\ {} \in SUBSET Channels /\ {r} \in SUBSET Rings
    BY <1>1, <2>1
  <2> QED
    BY <1>1, <2>1, <2>2, WakeGive, Zenon
<1>6. ASSUME NEW c \in Channels, EventSent(c) \/ StaleSent(c)
      PROVE  Looked(t)'
  <2>1. Give({c}, {}, pc) /\ UNCHANGED rx
    BY <1>6, Zenon DEF EventSent, StaleSent
  <2>2. /\ rx'[RingOf(t)] \in {rx[RingOf(t)], 0}
        /\ {c} \in SUBSET Channels /\ {} \in SUBSET Rings
    BY <2>1
  <2> QED
    BY <1>1, <2>1, <2>2, WakeGive, Zenon
<1>7. /\ WriteLine => Put("repl")
      /\ WriteAudio => Put("audio")
      /\ {"repl", "audio"} \subseteq Rings
  BY DEF WriteLine, WriteAudio, Rings
<1> QED
  BY <1>2, <1>3, <1>4, <1>5, <1>6, <1>7 DEF HostCall, StackStep

\* A reader that leaves without the data is one the ring's semaphore calls back.
LEMMA WakeRead ==
  ASSUME TypeInv, NEW u \in Readers, ReadBegin(u) \/ ReadStep(u), NEW t \in Readers, Looked(t)
  PROVE  Looked(t)'
<1> USE DEF At, Goto, linkVars, sendVars, stackVars, ringVars
<1>1. /\ pc \in [Threads -> Labels] /\ rx \in [Rings -> Nat] /\ rxSem \in [Rings -> {0, 1}]
      /\ RingOf(t) \in Rings /\ RingOf(u) \in Rings /\ t \in Threads /\ u \in Threads
      /\ (RingOf(t) = RingOf(u) => t = u)
  BY ChannelFacts DEF TypeInv, TypeOK
<1>2. CASE ReadBegin(u)
  <2>1. pc[u] = "idle" /\ pc' = [pc EXCEPT ![u] = "rTake"] /\ UNCHANGED <<initialized, rx, rxSem>>
    BY <1>2 DEF ReadBegin, Begin
  <2> QED
    BY <1>1, <2>1 DEF Looked
<1>3. CASE ReadTake(u)
  BY <1>1, <1>3 DEF ReadTake, Looked
<1>4. CASE ReadTimeout(u)
  BY <1>1, <1>4 DEF ReadTimeout, Pass, Looked
<1>5. CASE ReadCheck(u)
  BY <1>1, <1>5 DEF ReadCheck, Pass, Looked
<1>6. CASE ReadGet(u)
  BY <1>1, <1>6 DEF ReadGet, Looked
<1>7. CASE ReadFinish(u)
  <2>1. PICK n \in 0..rx[RingOf(u)] : rx' = [rx EXCEPT ![RingOf(u)] = @ - n]
    BY <1>7 DEF ReadFinish
  <2>2. pc' = [pc EXCEPT ![u] = "rLook"] /\ UNCHANGED <<initialized, rxSem>>
    BY <1>7 DEF ReadFinish
  <2> QED
    BY <1>1, <2>1, <2>2 DEF Looked
<1>8. CASE ReadLook(u)
  <2>1. /\ UNCHANGED <<initialized, rx, rxSem>>
        /\ pc' = [pc EXCEPT ![u] = IF rx[RingOf(u)] > 0 THEN "rGive" ELSE "idle"]
    BY <1>8 DEF ReadLook, Pass
  <2> QED
    BY <1>1, <2>1 DEF Looked
<1>9. CASE ReadGive(u)
  BY <1>1, <1>9 DEF ReadGive, Looked
<1> QED
  BY <1>2, <1>3, <1>4, <1>5, <1>6, <1>7, <1>8, <1>9 DEF ReadStep

\* What arrived in a ring wakes its reader: the semaphore is set, or the reader is about to
\* look (halo_ble_lua_repl_read, halo_ble_lua_audio_read and what empties the rings).
THEOREM ReadersWake == Spec => []DataWakesReader
<1>1. DataWakesReader <=> \A t \in Readers : Looked(t)
  BY DEF DataWakesReader, Looked
<1>2. Init => DataWakesReader
  BY ChannelFacts DEF Init, DataWakesReader
<1>3. TypeInv /\ DataWakesReader /\ [Next]_vars => DataWakesReader'
  <2> SUFFICES ASSUME TypeInv, [Next]_vars, NEW t \in Readers, Looked(t) PROVE Looked(t)'
    BY <1>1 DEF DataWakesReader, Looked
  <2> USE DEF linkVars, sendVars, stackVars, ringVars, At, Goto
  <2>1. /\ pc \in [Threads -> Labels] /\ t \in Threads /\ Repl \in Threads /\ Closer \in Threads
        /\ t # Closer /\ RingOf(t) \in Rings /\ rx \in [Rings -> Nat]
    BY ChannelFacts, BleLuaAssumption
       DEF TypeInv, TypeOK, BleLuaAssumption, Threads, Readers
  <2>2. CASE UNCHANGED vars
    BY <2>2 DEF Looked, vars
  <2>3. ASSUME NEW u \in Senders, SendBegin(u) \/ SendStep(u)
        PROVE  Looked(t)'
    <3>1. u \in Threads
      BY ChannelFacts
    <3>2. /\ UNCHANGED <<initialized, rx, rxSem>>
          /\ \E l, k \in SendLabels \cup {"idle"} : pc[u] = k /\ pc' = [pc EXCEPT ![u] = l]
      BY <2>3 DEF SendBegin, SendStep, SendLink, SendLock, SendTake, SendCheck, SendOk, SendFails,
                  SendUnlock, SendLabels, Begin, Pass
    <3> QED
      BY <2>1, <3>1, <3>2 DEF SendLabels, Looked
  <2>4. CASE \/ DrainBegin \/ VmCleanup \/ ResizeBegin \/ FrameStep
    <3>1. /\ UNCHANGED <<initialized, rx, rxSem>>
          /\ \E l, k \in {"idle", "nHead", "nGet", "nBody", "vFlush", "zAlloc", "zSwap", "zFree"} :
               pc[Repl] = k /\ pc' = [pc EXCEPT ![Repl] = l]
      BY <2>4 DEF DrainBegin, VmCleanup, ResizeBegin, FrameStep, FrameTest, DrainEnd, FrameHead,
                  FrameBody, VmFlush, ResizeAlloc, ResizeSwap, Free, Begin, Pass
    <3> QED
      BY <2>1, <3>1 DEF Looked
  <2>5. CASE AudioFlush
    <3>1. UNCHANGED <<initialized, rxSem, pc>> /\ rx' = [rx EXCEPT !["audio"] = 0]
      BY <2>5, Zenon DEF AudioFlush
    <3> QED
      BY <2>1, <3>1 DEF Looked
  <2>6. CASE DeinitBegin
    <3>1. initialized' = FALSE
      BY <2>6, Zenon DEF DeinitBegin
    <3> QED
      BY <3>1 DEF Looked
  <2>7. CASE CloseStep
    <3>1. CASE DeinitGive
      <4>1. /\ Give(Channels, Rings, [pc EXCEPT ![Closer] = "cUnregister"])
            /\ TypeOK /\ UNCHANGED <<initialized, rx>>
        BY <3>1, Zenon DEF DeinitGive, TypeInv
      <4>2. /\ [pc EXCEPT ![Closer] = "cUnregister"] \in [Threads -> Labels]
            /\ \A u \in Readers : [pc EXCEPT ![Closer] = "cUnregister"][u] = pc[u]
            /\ Channels \in SUBSET Channels /\ Rings \in SUBSET Rings
        BY <2>1, LabelFacts, ChannelFacts, BleLuaAssumption DEF BleLuaAssumption, Readers
      <4> QED
        BY <2>1, <4>1, <4>2, WakeGive, Zenon
    <3>2. CASE ~DeinitGive
      <4>1. /\ UNCHANGED <<initialized, rx, rxSem>>
            /\ \E l \in CloseLabels \cup {"idle"} : pc' = [pc EXCEPT ![Closer] = l]
        BY <2>7, <3>2
           DEF CloseStep, DeinitLink, DeinitUnregister, DeinitSwap, Free, CloseLabels
      <4> QED
        BY <2>1, <4>1 DEF Looked
    <3> QED
      BY <3>1, <3>2
  <2> QED
    BY <2>2, <2>3, <2>4, <2>5, <2>6, <2>7, WakeHost, WakeRead DEF Next, CallBegin
<1>4. Init => TypeInv
  BY TypeInit
<1>5. TypeInv /\ [Next]_vars => TypeInv'
  BY TypeStep
<1> QED
  BY <1>2, <1>3, <1>4, <1>5, PTL DEF Spec

(***************************************************************************)
(* The data frames implement FrameQueue.                                   *)
(***************************************************************************)
Cells == [kind : {"length", "payload"}, of : Nat]

\* The ring is whole frames, of which a drain between its two gets has taken the first
\* length.
RingIs(ring, n, taken) ==
  /\ ring \in Seq(Cells) /\ taken <= n /\ Len(ring) = 2 * n - taken
  /\ \A i \in 1..n : ring[2 * i - taken].kind = "payload"

RingInv ==
  \E n \in Nat : \/ dataLock = Repl /\ RingIs(dataRing, n, 1)
                 \/ dataLock # Repl /\ RingIs(dataRing, n, 0)

\* The payloads of a ring of n frames.
Payloads(ring, n, taken) == [i \in 1..n |-> ring[2 * i - taken].of]

QueueOf(ring) == [i \in 1..(Len(ring) + 1) \div 2 |-> ring[2 * i - (Len(ring) % 2)].of]

\* The payloads of a ring are its queue.
LEMMA QueueIs ==
  ASSUME NEW ring, NEW n \in Nat, NEW taken \in {0, 1}, RingIs(ring, n, taken)
  PROVE  QueueOf(ring) = Payloads(ring, n, taken)
<1>1. Len(ring) = 2 * n - taken /\ taken <= n
  BY DEF RingIs
<1>2. (Len(ring) + 1) \div 2 = n /\ Len(ring) % 2 = taken
  <2>1. CASE taken = 0
    BY <1>1, <2>1
  <2>2. CASE taken = 1
    BY <1>1, <2>2
  <2> QED
    BY <2>1, <2>2
<1> DEFINE h == (Len(ring) + 1) \div 2
           k == Len(ring) % 2
<1> HIDE DEF h, k
<1>3. h = n /\ k = taken
  BY <1>2 DEF h, k
<1>4. QueueOf(ring) = [i \in 1..h |-> ring[2 * i - k].of]
  BY Zenon DEF QueueOf, h, k
<1> QED
  BY <1>3, <1>4 DEF Payloads

\* The payloads of a ring are a sequence of frame numbers.
LEMMA PayloadSeq ==
  ASSUME NEW ring, NEW n \in Nat, NEW taken \in {0, 1}, RingIs(ring, n, taken)
  PROVE  /\ \A i \in 1..n : 2 * i - taken \in 1..Len(ring) /\ ring[2 * i - taken].of \in Nat
         /\ Payloads(ring, n, taken) \in Seq(Nat) /\ Len(Payloads(ring, n, taken)) = n
         /\ \A i \in 1..n : Payloads(ring, n, taken)[i] = ring[2 * i - taken].of
<1>1. ring \in Seq(Cells) /\ Len(ring) = 2 * n - taken
  BY DEF RingIs
<1>2. \A i \in 1..n : 2 * i - taken \in 1..Len(ring)
  BY <1>1
<1>3. \A i \in 1..Len(ring) : ring[i] \in Cells
  BY <1>1
<1>4. \A i \in 1..n : ring[2 * i - taken].of \in Nat
  BY <1>2, <1>3 DEF Cells
<1>5. Payloads(ring, n, taken) \in Seq(Nat) /\ Len(Payloads(ring, n, taken)) = n
  BY <1>4 DEF Payloads
<1>6. \A i \in 1..n : Payloads(ring, n, taken)[i] = ring[2 * i - taken].of
  BY DEF Payloads
<1> QED
  BY <1>2, <1>4, <1>5, <1>6

\* An empty ring.
LEMMA RingEmpty == RingIs(<<>>, 0, 0) /\ QueueOf(<<>>) = <<>>
<1>1. RingIs(<<>>, 0, 0)
  BY DEF RingIs
<1>2. QueueOf(<<>>) = Payloads(<<>>, 0, 0)
  BY <1>1, QueueIs
<1> QED
  BY <1>1, <1>2 DEF Payloads

\* A frame is written behind the others.
LEMMA RingPut ==
  ASSUME NEW ring, NEW n \in Nat, RingIs(ring, n, 0), NEW f \in Nat,
         NEW more, more = ring \o <<[kind |-> "length", of |-> f], [kind |-> "payload", of |-> f]>>
  PROVE  RingIs(more, n + 1, 0) /\ QueueOf(more) = Append(QueueOf(ring), f)
<1> DEFINE pair == <<[kind |-> "length", of |-> f], [kind |-> "payload", of |-> f]>>
<1>1. pair \in Seq(Cells) /\ Len(pair) = 2 /\ pair[2].kind = "payload" /\ pair[2].of = f
  BY DEF Cells
<1>2. ring \in Seq(Cells) /\ Len(ring) = 2 * n /\ \A i \in 1..n : ring[2 * i - 0].kind = "payload"
  BY DEF RingIs
<1>3. more = ring \o pair
  OBVIOUS
<1> HIDE DEF pair
<1>0. /\ ring \o pair \in Seq(Cells) /\ Len(ring \o pair) = Len(ring) + Len(pair)
      /\ \A i \in 1..Len(ring) + Len(pair) :
           (ring \o pair)[i] = IF i <= Len(ring) THEN ring[i] ELSE pair[i - Len(ring)]
  BY <1>1, <1>2, ConcatProperties
<1>4. more \in Seq(Cells) /\ Len(more) = 2 * n + 2 /\ n + 1 \in Nat
  <2>1. more \in Seq(Cells) /\ Len(more) = Len(ring) + Len(pair)
    BY <1>0, <1>3
  <2> QED
    BY <1>1, <1>2, <2>1
<1>5. \A i \in 1..n : more[2 * i - 0] = ring[2 * i - 0]
  <2>1. \A i \in 1..n : 2 * i - 0 \in 1..Len(ring) + Len(pair) /\ 2 * i - 0 <= Len(ring)
    BY <1>1, <1>2
  <2> QED
    BY <1>0, <1>3, <2>1
<1>6. more[2 * (n + 1) - 0] = pair[2]
  <2>1. /\ 2 * (n + 1) - 0 \in 1..Len(ring) + Len(pair) /\ ~(2 * (n + 1) - 0 <= Len(ring))
        /\ 2 * (n + 1) - 0 - Len(ring) = 2
    BY <1>1, <1>2
  <2> QED
    BY <1>0, <1>3, <2>1
<1>7. \A i \in 1..n + 1 : more[2 * i - 0].kind = "payload"
  <2> TAKE i \in 1..n + 1
  <2>1. CASE i = n + 1
    BY <1>1, <1>6, <2>1
  <2>2. CASE i # n + 1
    <3>1. i \in 1..n
      BY <2>2
    <3> QED
      BY <1>2, <1>5, <3>1
  <2> QED
    BY <2>1, <2>2
<1>8. RingIs(more, n + 1, 0)
  <2>1. Len(more) = 2 * (n + 1) - 0 /\ 0 <= n + 1
    BY <1>4
  <2> QED
    BY <1>4, <1>7, <2>1 DEF RingIs
<1>9. QueueOf(more) = Payloads(more, n + 1, 0) /\ QueueOf(ring) = Payloads(ring, n, 0)
  BY <1>8, QueueIs
<1>10. Payloads(more, n + 1, 0) = Append(Payloads(ring, n, 0), f)
  <2>1. /\ Payloads(ring, n, 0) \in Seq(Nat) /\ Len(Payloads(ring, n, 0)) = n
        /\ \A i \in 1..n : Payloads(ring, n, 0)[i] = ring[2 * i - 0].of
    BY PayloadSeq
  <2>2. /\ Payloads(more, n + 1, 0) \in Seq(Nat) /\ Len(Payloads(more, n + 1, 0)) = n + 1
        /\ \A i \in 1..n + 1 : Payloads(more, n + 1, 0)[i] = more[2 * i - 0].of
    BY <1>4, <1>8, PayloadSeq
  <2>3. \A i \in 1..n : Payloads(more, n + 1, 0)[i] = Payloads(ring, n, 0)[i]
    <3>1. \A i \in 1..n : i \in 1..n + 1
      OBVIOUS
    <3> QED
      BY <1>5, <2>1, <2>2, <3>1
  <2>4. Payloads(more, n + 1, 0)[n + 1] = f
    <3>1. n + 1 \in 1..n + 1
      OBVIOUS
    <3>2. Payloads(more, n + 1, 0)[n + 1] = more[2 * (n + 1) - 0].of
      BY <2>2, <3>1
    <3> QED
      BY <1>1, <1>6, <3>2
  <2> DEFINE p == Payloads(ring, n, 0)
             q == Payloads(more, n + 1, 0)
  <2> HIDE DEF p, q
  <2>5. /\ p \in Seq(Nat) /\ Len(p) = n /\ q \in Seq(Nat) /\ Len(q) = n + 1
        /\ (\A i \in 1..n : q[i] = p[i]) /\ q[n + 1] = f
    BY <2>1, <2>2, <2>3, <2>4 DEF p, q
  <2>6. q = Append(p, f)
    BY <2>5
  <2> QED
    BY <2>6 DEF p, q
<1> QED
  BY <1>8, <1>9, <1>10

\* The first get takes a length, and leaves the queue as it is.
LEMMA RingHead ==
  ASSUME NEW ring, NEW n \in Nat, RingIs(ring, n, 0), ring # <<>>
  PROVE  RingIs(Tail(ring), n, 1) /\ QueueOf(Tail(ring)) = QueueOf(ring)
<1>1. ring \in Seq(Cells) /\ Len(ring) = 2 * n /\ \A i \in 1..n : ring[2 * i - 0].kind = "payload"
  BY DEF RingIs
<1>2. n > 0
  BY <1>1
<1>3. Tail(ring) \in Seq(Cells) /\ Len(Tail(ring)) = 2 * n - 1
  BY <1>1, <1>2
<1>4. \A i \in 1..n : Tail(ring)[2 * i - 1] = ring[2 * i - 0]
  BY <1>1, <1>2
<1>5. RingIs(Tail(ring), n, 1)
  BY <1>1, <1>2, <1>3, <1>4 DEF RingIs
<1>6. /\ QueueOf(Tail(ring)) = Payloads(Tail(ring), n, 1)
      /\ QueueOf(ring) = Payloads(ring, n, 0)
  BY <1>5, QueueIs
<1>7. Payloads(Tail(ring), n, 1) = Payloads(ring, n, 0)
  BY <1>4 DEF Payloads
<1> QED
  BY <1>5, <1>6, <1>7

\* The second takes its payload, which is the head of the queue.
LEMMA RingBody ==
  ASSUME NEW ring, NEW n \in Nat, RingIs(ring, n, 1)
  PROVE  /\ ring # <<>> /\ Head(ring).kind = "payload"
         /\ RingIs(Tail(ring), n - 1, 0)
         /\ QueueOf(ring) # <<>> /\ Head(ring).of = Head(QueueOf(ring))
         /\ QueueOf(Tail(ring)) = Tail(QueueOf(ring))
<1>1. /\ ring \in Seq(Cells) /\ n > 0 /\ Len(ring) = 2 * n - 1
      /\ \A i \in 1..n : ring[2 * i - 1].kind = "payload"
  BY DEF RingIs
<1>2. ring # <<>> /\ Head(ring) = ring[1] /\ ring[1].kind = "payload"
  <2>1. ring[2 * 1 - 1].kind = "payload"
    BY <1>1
  <2> QED
    BY <1>1, <2>1
<1>3. Tail(ring) \in Seq(Cells) /\ Len(Tail(ring)) = 2 * (n - 1) - 0 /\ n - 1 \in Nat
  BY <1>1
<1>4. \A i \in 1..n - 1 : Tail(ring)[2 * i - 0] = ring[2 * (i + 1) - 1]
  BY <1>1
<1>5. \A i \in 1..n - 1 : i + 1 \in 1..n
  BY <1>1
<1>6. RingIs(Tail(ring), n - 1, 0)
  <2>1. \A i \in 1..n - 1 : Tail(ring)[2 * i - 0].kind = "payload"
    BY <1>1, <1>4, <1>5
  <2>2. 0 <= n - 1
    BY <1>1
  <2> QED
    BY <1>3, <2>1, <2>2 DEF RingIs
<1>7. /\ QueueOf(ring) = Payloads(ring, n, 1)
      /\ QueueOf(Tail(ring)) = Payloads(Tail(ring), n - 1, 0)
  BY <1>3, <1>6, QueueIs
<1>8. /\ Payloads(ring, n, 1) \in Seq(Nat) /\ Len(Payloads(ring, n, 1)) = n
      /\ \A i \in 1..n : Payloads(ring, n, 1)[i] = ring[2 * i - 1].of
  BY PayloadSeq
<1>9. Payloads(ring, n, 1) # <<>> /\ Head(Payloads(ring, n, 1)) = ring[1].of
  <2>1. Payloads(ring, n, 1)[1] = ring[2 * 1 - 1].of
    BY <1>1, <1>8
  <2> QED
    BY <1>1, <1>8, <2>1
<1>10. Payloads(Tail(ring), n - 1, 0) = Tail(Payloads(ring, n, 1))
  <2>1. /\ Payloads(Tail(ring), n - 1, 0) \in Seq(Nat)
        /\ Len(Payloads(Tail(ring), n - 1, 0)) = n - 1
        /\ \A i \in 1..n - 1 : Payloads(Tail(ring), n - 1, 0)[i] = Tail(ring)[2 * i - 0].of
    BY <1>3, <1>6, PayloadSeq
  <2>2. \A i \in 1..n - 1 : Payloads(Tail(ring), n - 1, 0)[i] = Payloads(ring, n, 1)[i + 1]
    BY <1>4, <1>5, <1>8, <2>1
  <2> DEFINE p == Payloads(ring, n, 1)
             q == Payloads(Tail(ring), n - 1, 0)
  <2> HIDE DEF p, q
  <2>3. /\ p \in Seq(Nat) /\ Len(p) = n /\ n > 0 /\ q \in Seq(Nat) /\ Len(q) = n - 1
        /\ \A i \in 1..n - 1 : q[i] = p[i + 1]
    BY <1>1, <1>8, <2>1, <2>2 DEF p, q
  <2>4. q = Tail(p)
    BY <2>3
  <2> QED
    BY <2>4 DEF p, q
<1> QED
  BY <1>2, <1>6, <1>7, <1>9, <1>10

\* What a step can do to the ring: nothing, empty it while no drain holds it, write a
\* frame, or one of the two gets.
RingSame == UNCHANGED <<dataRing, dataLock, frames, delivered>>
RingReset == dataLock = NoThread /\ dataRing' = <<>> /\ UNCHANGED <<dataLock, frames, delivered>>

\* Every step is one of these.
LEMMA RingMoves ==
  ASSUME TypeInv, [Next]_vars
  PROVE  RingSame \/ RingReset \/ WriteFrame \/ FrameHead \/ FrameBody
<1> USE DEF linkVars, sendVars, stackVars, ringVars, dataVars
<1>1. CASE UNCHANGED vars
  BY <1>1 DEF vars, RingSame
<1>2. ASSUME NEW t \in Senders \cup Readers,
             \/ t \in Senders /\ (SendBegin(t) \/ SendStep(t))
             \/ t \in Readers /\ (ReadBegin(t) \/ ReadStep(t))
      PROVE  RingSame
  BY <1>2, IoMoves DEF RingSame
<1>3. CASE StackStep
  BY <1>3, Zenon DEF StackStep, EventSent, StaleSent, RingSame
<1>4. CASE HostCall
  <2>1. CASE Disconnect \/ WriteControl
    BY <2>1, Zenon DEF Disconnect, WriteControl, RingReset
  <2>2. CASE Connect \/ DisconnectUnheard \/ (\E c \in Channels : CccWrite(c)) \/ WriteLine
               \/ WriteAudio
    BY <2>2, Zenon DEF Connect, DisconnectUnheard, CccWrite, WriteLine, WriteAudio, Put, RingSame
  <2> QED
    BY <1>4, <2>1, <2>2 DEF HostCall
<1>5. CASE AudioFlush \/ DrainBegin \/ VmCleanup \/ ResizeBegin \/ DeinitBegin
  BY <1>5, Zenon DEF AudioFlush, DrainBegin, VmCleanup, ResizeBegin, DeinitBegin, RingSame
<1>6. CASE FrameTest \/ DrainEnd \/ ResizeAlloc \/ Free(Repl, "zFree")
  BY <1>6, Zenon DEF FrameTest, DrainEnd, ResizeAlloc, Free, Pass, RingSame
<1>7. CASE VmFlush
  <2>1. CASE initialized
    BY <1>7, <2>1 DEF VmFlush, RingReset
  <2>2. CASE ~initialized
    BY <1>7, <2>2 DEF VmFlush, RingSame
  <2> QED
    BY <2>1, <2>2
<1>8. CASE ResizeSwap
  <2>1. CASE initialized /\ dataBuf # NoBuf
    BY <1>8, <2>1 DEF ResizeSwap, RingReset
  <2>2. CASE ~(initialized /\ dataBuf # NoBuf)
    BY <1>8, <2>2 DEF ResizeSwap, RingSame
  <2> QED
    BY <2>1, <2>2
<1>9. CASE CloseStep
  BY <1>9, Zenon DEF CloseStep, DeinitLink, DeinitGive, DeinitUnregister, DeinitSwap, Free, RingSame
<1> QED
  BY <1>1, <1>2, <1>3, <1>4, <1>5, <1>6, <1>7, <1>8, <1>9, Zenon DEF Next, CallBegin, FrameStep

\* "One ATT write becomes exactly one callback invocation, in arrival order"
\* (lua_bluetooth.c), whatever resets, resizes and VM cleanups come between the two gets
\* of a drain: the service implements FrameQueue, for a ring of any size.
THEOREM FramesInOrder == Spec => FrameFifo
<1>1. Init => RingInv /\ F!Init
  <2> SUFFICES ASSUME Init PROVE RingInv /\ F!Init
    OBVIOUS
  <2>1. dataRing = <<>> /\ dataLock = NoThread /\ frames = 0 /\ delivered = 0
    BY DEF Init
  <2>2. NoThread # Repl
    BY BleLuaAssumption DEF BleLuaAssumption, Threads
  <2>3. Queue = <<>>
    BY <2>1, RingEmpty DEF Queue, QueueOf
  <2> QED
    BY <2>1, <2>2, <2>3, RingEmpty DEF RingInv, F!Init
<1>2. TypeInv /\ RingInv /\ [Next]_vars => RingInv' /\ [F!Next]_F!vars
  <2> SUFFICES ASSUME TypeInv, RingInv, [Next]_vars PROVE RingInv' /\ [F!Next]_F!vars
    OBVIOUS
  <2>0. /\ NoThread # Repl /\ (pc[Repl] = "nBody" => dataLock = Repl) /\ frames \in Nat
    BY BleLuaAssumption DEF BleLuaAssumption, Threads, TypeInv, TypeOK
  <2>1. Queue = QueueOf(dataRing) /\ Queue' = QueueOf(dataRing')
    BY Zenon DEF Queue, QueueOf
  <2>2. CASE RingSame
    <3>1. Queue' = Queue
      BY <2>1, <2>2 DEF RingSame
    <3> QED
      BY <2>2, <3>1 DEF RingSame, RingInv, F!vars
  <2>3. CASE RingReset
    <3>1. Queue' = <<>>
      BY <2>1, <2>3, RingEmpty DEF RingReset
    <3>2. F!Clear
      BY <2>3, <3>1 DEF RingReset, F!Clear
    <3>3. RingInv'
      BY <2>0, <2>3, RingEmpty DEF RingReset, RingInv
    <3> QED
      BY <3>2, <3>3 DEF F!Next
  <2>4. CASE WriteFrame
    <3>1. dataLock = NoThread /\ dataLock' = dataLock /\ frames' = frames + 1 /\ delivered' = delivered
      BY <2>4 DEF WriteFrame
    <3>2. PICK n \in Nat : RingIs(dataRing, n, 0)
      BY <2>0, <3>1 DEF RingInv
    <3>3. CASE Len(dataRing) < 2 * Cap
      <4>1. dataRing' = dataRing \o <<[kind |-> "length", of |-> frames'],
                                      [kind |-> "payload", of |-> frames']>>
        BY <2>4, <3>3, Zenon DEF WriteFrame
      <4>2. frames' \in Nat
        BY <2>0, <3>1
      <4>3. RingIs(dataRing', n + 1, 0) /\ QueueOf(dataRing') = Append(QueueOf(dataRing), frames')
        BY <3>2, <4>1, <4>2, RingPut
      <4>4. RingInv'
        <5>1. n + 1 \in Nat /\ dataLock' # Repl
          BY <2>0, <3>1
        <5> QED
          BY <4>3, <5>1 DEF RingInv
      <4>5. F!Write
        BY <2>1, <3>1, <4>3 DEF F!Write
      <4> QED
        BY <4>4, <4>5 DEF F!Next
    <3>4. CASE ~(Len(dataRing) < 2 * Cap)
      <4>1. dataRing' = dataRing
        BY <2>4, <3>4, Zenon DEF WriteFrame
      <4>2. RingInv'
        BY <3>1, <4>1 DEF RingInv
      <4>3. F!Write
        BY <2>1, <3>1, <4>1 DEF F!Write
      <4> QED
        BY <4>2, <4>3 DEF F!Next
    <3> QED
      BY <3>3, <3>4
  <2>5. CASE FrameHead
    <3>1. /\ dataLock = NoThread /\ dataRing # <<>> /\ dataLock' = Repl
          /\ dataRing' = Tail(dataRing) /\ UNCHANGED <<frames, delivered>>
      BY <2>5 DEF FrameHead
    <3>2. PICK n \in Nat : RingIs(dataRing, n, 0)
      BY <2>0, <3>1 DEF RingInv
    <3>3. RingIs(dataRing', n, 1) /\ QueueOf(dataRing') = QueueOf(dataRing)
      BY <3>1, <3>2, RingHead
    <3> QED
      BY <2>1, <3>1, <3>3 DEF RingInv, F!vars
  <2>6. CASE FrameBody
    <3>1. dataLock = Repl /\ dataLock' = NoThread /\ UNCHANGED frames
      BY <2>0, <2>6 DEF FrameBody, At
    <3>2. PICK n \in Nat : RingIs(dataRing, n, 1)
      BY <3>1 DEF RingInv
    <3>3. /\ dataRing # <<>> /\ Head(dataRing).kind = "payload"
          /\ RingIs(Tail(dataRing), n - 1, 0)
          /\ QueueOf(dataRing) # <<>> /\ Head(dataRing).of = Head(QueueOf(dataRing))
          /\ QueueOf(Tail(dataRing)) = Tail(QueueOf(dataRing))
      BY <3>2, RingBody
    <3>4. dataRing' = Tail(dataRing) /\ delivered' = Head(dataRing).of
      BY <2>6, <3>3, Zenon DEF FrameBody
    <3>5. RingInv'
      <4>1. n - 1 \in Nat /\ dataLock' # Repl
        BY <2>0, <3>1, <3>2 DEF RingIs
      <4> QED
        BY <3>3, <3>4, <4>1 DEF RingInv
    <3>6. F!Callback
      BY <2>1, <3>1, <3>3, <3>4 DEF F!Callback
    <3> QED
      BY <3>5, <3>6 DEF F!Next
  <2> QED
    BY <2>2, <2>3, <2>4, <2>5, <2>6, RingMoves
<1>3. Init => TypeInv
  BY TypeInit
<1>4. TypeInv /\ [Next]_vars => TypeInv'
  BY TypeStep
<1> QED
  BY <1>1, <1>2, <1>3, <1>4, PTL DEF Spec, FrameFifo, F!Spec
=============================================================================
