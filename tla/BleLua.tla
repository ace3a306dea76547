------------------------------- MODULE BleLua -------------------------------
(***************************************************************************)
(* The Lua GATT service: modules/halo/src/ble_lua.c.                       *)
(*                                                                         *)
(* Outwards, a write is cut into notifications.  Each channel lets one     *)
(* notification into the BLE stack at a time: a semaphore, taken before it *)
(* is sent and given by the stack's sent event, by a disconnect or by the  *)
(* deinit.  One mutex serves all channels.                                 *)
(*                                                                         *)
(* Inwards, the BLE host thread fills three rings: REPL lines and audio,   *)
(* each with a semaphore for its reader, and data frames (a length, then   *)
(* the payload) under data_lock, announced through the Lua event bits.     *)
(*                                                                         *)
(* Host callbacks are single steps: they store, put and give, and outrank  *)
(* every reader and sender.                                                *)
(***************************************************************************)
EXTENDS Naturals, Sequences

CONSTANTS
  Repl,           \* the REPL thread: sends, reads lines, drains frames, resizes
  Pump,           \* the speaker thread: reads audio
  Mic,            \* the microphone thread: sends audio
  Host,           \* the BLE host thread
  Closer,         \* the thread that runs the deep-sleep suspend callback
  NoThread,       \* nobody: the owner of a free lock
  NoBuf,          \* the null pointer
  Bufs,           \* bound: the data buffers the allocator can return
  FirstBuf,       \* the one halo_ble_lua_init allocated
  Workloads,      \* bound: each gives how often every thread makes every call
  MaxChunks,      \* bound: notifications one write needs
  Cap,            \* bound: lines, packets or frames a ring holds
  SlowReconnect   \* TRUE: a new link comes after the senders of the old one have returned

Senders == {Repl, Mic}
Readers == {Repl, Pump}
Threads == {Repl, Pump, Mic, Host, Closer}
Channels == {"tx", "audio"}
Rings == {"repl", "audio"}

\* print and frame.bluetooth.send use the TX characteristic, the microphone its own.
ChannelOf(t) == IF t = Mic THEN "audio" ELSE "tx"
RingOf(t) == IF t = Pump THEN "audio" ELSE "repl"

OpNames == {"link", "ccc", "line", "packet", "frame", "control",
            "send", "read", "drain", "resize", "flush", "vm", "deinit"}

ASSUME BleLuaAssumption ==
  /\ Repl \notin {Pump, Mic, Host, Closer} /\ Pump \notin {Mic, Host, Closer}
  /\ Mic \notin {Host, Closer} /\ Host # Closer /\ NoThread \notin Threads
  /\ FirstBuf \in Bufs /\ NoBuf \notin Bufs
  /\ Workloads \subseteq [Threads -> [OpNames -> Nat]]
  /\ MaxChunks \in Nat \ {0} /\ Cap \in Nat \ {0}
  /\ SlowReconnect \in BOOLEAN

VARIABLES
  initialized,  \* lua_ctx.initialized is the magic
  registered,   \* the service is on the list of ble_service.c
  conidx,       \* lua_ctx.conidx is valid
  ccc,          \* channels whose CCC is START_NTF
  ntfSem,       \* ntfSem[c]: tx_ntf_sem, audio_ntf_sem
  writeLock,    \* owner of write_lock
  chunks,       \* chunks[t]: notifications left of the write t makes
  link,         \* stack: a link is up
  inFlight,     \* stack: inFlight[c] notifications of this link without their sent event
  stale,        \* stale[c]: of an earlier link, whose sent event may still come
  rx,           \* rx[r]: complete lines or packets in the ring
  rxSem,        \* rxSem[r]: repl_rx_sem, audio_rx_sem
  claimed,      \* rings a reader is inside a get of
  dataRing,     \* data_rx_ring: lengths and payloads
  ringBuf,      \* the buffer data_rx_ring puts into and gets from
  dataLock,     \* owner of data_lock
  dataBuf,      \* data_rx_buf
  heap,         \* allocated data buffers
  held,         \* held[t]: the buffer thread t is about to install or to free
  pending,      \* the event bit of HALO_LUA_EVENT_SRC_BLE_DATA
  frames,       \* number of the last frame written
  delivered,    \* number of the last frame the drain took, for the callback if there is one
  pc, left      \* pc[t]: where thread t is; left[t][o]: calls it may still make

linkVars == <<initialized, registered, conidx, ccc>>
sendVars == <<ntfSem, writeLock, chunks>>
stackVars == <<link, inFlight, stale>>
ringVars == <<rx, rxSem, claimed>>
dataVars == <<dataRing, ringBuf, dataLock, dataBuf, heap, held, pending, frames, delivered>>
vars == <<linkVars, sendVars, stackVars, ringVars, dataVars, pc, left>>

SendLabels == {"sLink", "sLock", "sTake", "sWait", "sCheck", "sSend", "sUnlock"}
ReadLabels == {"rTake", "rWait", "rCheck", "rGet", "rFinish", "rLook", "rGive"}
DrainLabels == {"nHead", "nGet", "nBody", "vFlush"}
ResizeLabels == {"zAlloc", "zSwap", "zFree"}
CloseLabels == {"cLink", "cGive", "cUnregister", "cSwap", "cFree"}
Labels == SendLabels \cup ReadLabels \cup DrainLabels \cup ResizeLabels \cup CloseLabels
            \cup {"idle"}

At(t, l) == pc[t] = l
Goto(t, l) == pc' = [pc EXCEPT ![t] = l]

\* Thread t goes on without touching anything.
Pass(t, from, to) ==
  /\ At(t, from) /\ Goto(t, to)
  /\ UNCHANGED <<linkVars, sendVars, stackVars, ringVars, dataVars, left>>

\* Thread t begins a call.
Begin(t, o) ==
  /\ At(t, "idle") /\ left[t][o] > 0
  /\ left' = [left EXCEPT ![t][o] = @ - 1]

(***************************************************************************)
(* k_sem_give hands the unit to the thread that waits, else stores it up   *)
(* to the limit of 1.  Give is for a set of channels and a set of rings;   *)
(* moved is pc with the giver's own step.                                  *)
(***************************************************************************)
Served(cs, rs) ==
  {t \in Senders : pc[t] = "sWait" /\ ChannelOf(t) \in cs}
    \cup {t \in Readers : pc[t] = "rWait" /\ RingOf(t) \in rs}

Give(cs, rs, moved) ==
  LET woken == Served(cs, rs) IN
  /\ pc' = [t \in Threads |-> IF t \notin woken THEN moved[t]
                              ELSE IF pc[t] = "sWait" THEN "sCheck" ELSE "rCheck"]
  /\ ntfSem' = [c \in Channels |->
       IF c \in cs /\ ~\E t \in woken : pc[t] = "sWait" /\ ChannelOf(t) = c THEN 1 ELSE ntfSem[c]]
  /\ rxSem' = [r \in Rings |->
       IF r \in rs /\ ~\E t \in woken : pc[t] = "rWait" /\ RingOf(t) = r THEN 1 ELSE rxSem[r]]

\* Thread t gives the unit of its channel back; nobody else can wait for it.
GiveBack(t) == ntfSem' = [ntfSem EXCEPT ![ChannelOf(t)] = 1]

Init ==
  /\ initialized = TRUE /\ registered = TRUE /\ conidx = FALSE /\ ccc = {}
  /\ ntfSem = [c \in Channels |-> 1] /\ writeLock = NoThread
  /\ chunks = [t \in Senders |-> 0]
  /\ link = FALSE /\ inFlight = [c \in Channels |-> 0] /\ stale = [c \in Channels |-> 0]
  /\ rx = [r \in Rings |-> 0] /\ rxSem = [r \in Rings |-> 0] /\ claimed = {}
  /\ dataRing = <<>> /\ ringBuf = FirstBuf /\ dataLock = NoThread /\ dataBuf = FirstBuf
  /\ heap = {FirstBuf}
  /\ held = [t \in {Repl, Closer} |-> NoBuf]
  /\ pending = FALSE /\ frames = 0 /\ delivered = 0
  /\ pc = [t \in Threads |-> "idle"] /\ left \in Workloads

-----------------------------------------------------------------------------
(***************************************************************************)
(* Outwards: send_notification.                                            *)
(***************************************************************************)
SendBegin(t) ==
  /\ Begin(t, "send") /\ initialized
  /\ \E n \in 1..MaxChunks : chunks' = [chunks EXCEPT ![t] = n]
  /\ Goto(t, "sLink")
  /\ UNCHANGED <<linkVars, ntfSem, writeLock, stackVars, ringVars, dataVars>>

Reachable(t) == conidx /\ ChannelOf(t) \in ccc

\* With no peer that listens the write returns 0 after 10 ms.
SendLink(t) == Pass(t, "sLink", IF Reachable(t) THEN "sLock" ELSE "idle")

SendLock(t) ==
  /\ At(t, "sLock") /\ writeLock = NoThread
  /\ writeLock' = t
  /\ Goto(t, "sTake")
  /\ UNCHANGED <<linkVars, ntfSem, chunks, stackVars, ringVars, dataVars, left>>

\* Wait for the previous notification.
SendTake(t) ==
  /\ At(t, "sTake")
  /\ ntfSem' = [ntfSem EXCEPT ![ChannelOf(t)] = 0]
  /\ Goto(t, IF ntfSem[ChannelOf(t)] = 1 THEN "sCheck" ELSE "sWait")
  /\ UNCHANGED <<linkVars, writeLock, chunks, stackVars, ringVars, dataVars, left>>

\* Mutant: the unit is not given back when the link is gone.
SendCheck_KeepsUnit(t) ==
  Pass(t, "sCheck", IF initialized /\ Reachable(t) THEN "sSend" ELSE "sUnlock")

\* Deinit or a disconnect may be what gave the unit.
SendCheck(t) ==
  \/ initialized /\ Reachable(t) /\ Pass(t, "sCheck", "sSend")
  \/ /\ At(t, "sCheck") /\ ~(initialized /\ Reachable(t))
     /\ GiveBack(t)
     /\ Goto(t, "sUnlock")
     /\ UNCHANGED <<linkVars, writeLock, chunks, stackVars, ringVars, dataVars, left>>

\* Mutant: the unit is given back on success too.
SendOk_GivesBack(t) ==
  /\ At(t, "sSend") /\ conidx
  /\ inFlight' = [inFlight EXCEPT ![ChannelOf(t)] = @ + 1]
  /\ chunks' = [chunks EXCEPT ![t] = @ - 1]
  /\ GiveBack(t)
  /\ Goto(t, IF chunks[t] = 1 THEN "sUnlock" ELSE "sTake")
  /\ UNCHANGED <<linkVars, writeLock, link, stale, ringVars, dataVars, left>>

SendOk(t) ==
  /\ At(t, "sSend") /\ conidx
  /\ inFlight' = [inFlight EXCEPT ![ChannelOf(t)] = @ + 1]
  /\ chunks' = [chunks EXCEPT ![t] = @ - 1]
  /\ Goto(t, IF chunks[t] = 1 THEN "sUnlock" ELSE "sTake")
  /\ UNCHANGED <<linkVars, ntfSem, writeLock, link, stale, ringVars, dataVars, left>>

\* Mutant: a return instead of the break.
SendFails_Returns(t) ==
  /\ At(t, "sSend")
  /\ GiveBack(t)
  /\ chunks' = [chunks EXCEPT ![t] = 0]
  /\ Goto(t, "idle")
  /\ UNCHANGED <<linkVars, writeLock, stackVars, ringVars, dataVars, left>>

\* No buffer, or the stack refuses: always so once the link is gone.
SendFails(t) ==
  /\ At(t, "sSend")
  /\ GiveBack(t)
  /\ Goto(t, "sUnlock")
  /\ UNCHANGED <<linkVars, writeLock, chunks, stackVars, ringVars, dataVars, left>>

SendUnlock(t) ==
  /\ At(t, "sUnlock")
  /\ writeLock' = NoThread
  /\ chunks' = [chunks EXCEPT ![t] = 0]
  /\ Goto(t, "idle")
  /\ UNCHANGED <<linkVars, ntfSem, stackVars, ringVars, dataVars, left>>

SendStep(t) ==
  \/ SendLink(t) \/ SendLock(t) \/ SendTake(t) \/ SendCheck(t)
  \/ SendOk(t) \/ SendFails(t) \/ SendUnlock(t)

-----------------------------------------------------------------------------
(***************************************************************************)
(* The BLE stack: sent events, links, CCC writes.                          *)
(***************************************************************************)
EventSent(c) ==
  /\ inFlight[c] > 0
  /\ inFlight' = [inFlight EXCEPT ![c] = @ - 1]
  /\ Give({c}, {}, pc)
  /\ UNCHANGED <<linkVars, writeLock, chunks, link, stale, rx, claimed, dataVars, left>>

\* The sent event of a link that is gone, with an error status.
StaleSent(c) ==
  /\ stale[c] > 0
  /\ stale' = [stale EXCEPT ![c] = @ - 1]
  /\ Give({c}, {}, pc)
  /\ UNCHANGED <<linkVars, writeLock, chunks, link, inFlight, rx, claimed, dataVars, left>>

\* The stack has ended what belonged to the old link, and the senders the
\* disconnect released have run.
Settled ==
  /\ \A c \in Channels : stale[c] = 0
  /\ \A t \in Senders : pc[t] \notin SendLabels

Connect ==
  /\ Begin(Host, "link") /\ ~link
  /\ SlowReconnect => Settled
  /\ link' = TRUE /\ conidx' = registered
  /\ UNCHANGED <<initialized, registered, ccc, sendVars, inFlight, stale, ringVars, dataVars, pc>>

\* The stack may or may not report what the link still held.
LinkLost ==
  /\ Begin(Host, "link") /\ link
  /\ link' = FALSE
  /\ inFlight' = [c \in Channels |-> 0]
  /\ \E dropped \in SUBSET Channels :
       stale' = [c \in Channels |-> IF c \in dropped THEN 0 ELSE stale[c] + inFlight[c]]

\* Mutant: nobody is released.
Disconnect_Silent ==
  /\ LinkLost /\ registered /\ dataLock = NoThread
  /\ conidx' = FALSE /\ ccc' = {}
  /\ rx' = [r \in Rings |-> 0] /\ dataRing' = <<>>
  /\ UNCHANGED <<initialized, registered, sendVars, rxSem, claimed, ringBuf, dataLock, dataBuf,
                 heap, held, pending, frames, delivered, pc>>

Disconnect ==
  /\ LinkLost /\ registered /\ dataLock = NoThread
  /\ conidx' = FALSE /\ ccc' = {}
  /\ rx' = [r \in Rings |-> 0] /\ dataRing' = <<>>
  /\ Give(Channels, {}, pc)
  /\ UNCHANGED <<initialized, registered, writeLock, chunks, claimed, ringBuf, dataLock, dataBuf,
                 heap, held, pending, frames, delivered>>

\* After the deinit nobody tells the service.
DisconnectUnheard ==
  /\ LinkLost /\ ~registered
  /\ UNCHANGED <<linkVars, sendVars, ringVars, dataVars, pc>>

\* START_NTF or anything else, which stops.
CccWrite(c) ==
  /\ Begin(Host, "ccc") /\ link
  /\ ccc' = IF c \in ccc THEN ccc \ {c} ELSE ccc \cup {c}
  /\ UNCHANGED <<initialized, registered, conidx, sendVars, stackVars, ringVars, dataVars, pc>>

-----------------------------------------------------------------------------
(***************************************************************************)
(* Inwards: on_att_val_set.  A full ring refuses the write.                *)
(***************************************************************************)
Put(r) ==
  /\ link /\ rx[r] < Cap
  /\ rx' = [rx EXCEPT ![r] = @ + 1]
  /\ Give({}, {r}, pc)
  /\ UNCHANGED <<linkVars, writeLock, chunks, stackVars, claimed, dataVars>>

WriteLine == Begin(Host, "line") /\ Put("repl")
WriteAudio == Begin(Host, "packet") /\ Put("audio")

\* data_ring_put_frame, then the handler, which sets the event bit.  Nobody asks whether
\* the service, and the buffer the ring is in, are still there.
WriteFrame ==
  /\ Begin(Host, "frame") /\ link /\ dataLock = NoThread
  /\ frames' = frames + 1
  /\ IF Len(dataRing) < 2 * Cap
     THEN /\ dataRing' = dataRing \o <<[kind |-> "length", of |-> frames'],
                                       [kind |-> "payload", of |-> frames']>>
          /\ pending' = TRUE
     ELSE UNCHANGED <<dataRing, pending>>
  /\ UNCHANGED <<linkVars, sendVars, stackVars, ringVars, ringBuf, dataLock, dataBuf,
                 heap, held, delivered, pc>>

\* A control character drops what was sent before it.
WriteControl ==
  /\ Begin(Host, "control") /\ link /\ dataLock = NoThread
  /\ rx' = [rx EXCEPT !["repl"] = 0] /\ dataRing' = <<>>
  /\ UNCHANGED <<linkVars, sendVars, stackVars, rxSem, claimed, ringBuf, dataLock, dataBuf,
                 heap, held, pending, frames, delivered, pc>>

-----------------------------------------------------------------------------
(***************************************************************************)
(* halo_ble_lua_repl_read, halo_ble_lua_audio_read, the audio flush.       *)
(***************************************************************************)
ReadBegin(t) ==
  /\ Begin(t, "read") /\ initialized
  /\ Goto(t, "rTake")
  /\ UNCHANGED <<linkVars, sendVars, stackVars, ringVars, dataVars>>

ReadTake(t) ==
  /\ At(t, "rTake")
  /\ rxSem' = [rxSem EXCEPT ![RingOf(t)] = 0]
  /\ Goto(t, IF rxSem[RingOf(t)] = 1 THEN "rCheck" ELSE "rWait")
  /\ UNCHANGED <<linkVars, sendVars, stackVars, rx, claimed, dataVars, left>>

ReadTimeout(t) == Pass(t, "rWait", "idle")

\* Only the audio reader looks at initialized again.
ReadCheck(t) == Pass(t, "rCheck", IF t = Pump /\ ~initialized THEN "idle" ELSE "rGet")

\* ring_buf_get: claim, copy ...
ReadGet(t) ==
  /\ At(t, "rGet")
  /\ claimed' = claimed \cup {RingOf(t)}
  /\ Goto(t, "rFinish")
  /\ UNCHANGED <<linkVars, sendVars, stackVars, rx, rxSem, dataVars, left>>

\* ... and finish.
ReadFinish(t) ==
  /\ At(t, "rFinish")
  /\ \E n \in 0..rx[RingOf(t)] : rx' = [rx EXCEPT ![RingOf(t)] = @ - n]
  /\ claimed' = claimed \ {RingOf(t)}
  /\ Goto(t, "rLook")
  /\ UNCHANGED <<linkVars, sendVars, stackVars, rxSem, dataVars, left>>

\* Mutant: what is left in the ring waits for the next write.
ReadLook_Never(t) == Pass(t, "rLook", "idle")

ReadLook(t) == Pass(t, "rLook", IF rx[RingOf(t)] > 0 THEN "rGive" ELSE "idle")

\* A ring that was not empty keeps its semaphore; nobody else waits for it.
ReadGive(t) ==
  /\ At(t, "rGive")
  /\ rxSem' = [rxSem EXCEPT ![RingOf(t)] = 1]
  /\ Goto(t, "idle")
  /\ UNCHANGED <<linkVars, sendVars, stackVars, rx, claimed, dataVars, left>>

ReadStep(t) ==
  \/ ReadTake(t) \/ ReadTimeout(t) \/ ReadCheck(t) \/ ReadGet(t) \/ ReadFinish(t)
  \/ ReadLook(t) \/ ReadGive(t)

\* speaker.stop discards from the consumer's side and leaves the semaphore.
AudioFlush ==
  /\ Begin(Repl, "flush") /\ initialized
  /\ rx' = [rx EXCEPT !["audio"] = 0]
  /\ UNCHANGED <<linkVars, sendVars, stackVars, rxSem, claimed, dataVars, pc>>

-----------------------------------------------------------------------------
(***************************************************************************)
(* Data frames on the REPL thread: the drain, the resize, a new VM.        *)
(***************************************************************************)
\* The hook takes the event bit and calls bluetooth_drain.
DrainBegin ==
  /\ Begin(Repl, "drain") /\ pending
  /\ pending' = FALSE
  /\ Goto(Repl, "nHead")
  /\ UNCHANGED <<linkVars, sendVars, stackVars, ringVars, dataRing, ringBuf, dataLock,
                 dataBuf, heap, held, frames, delivered>>

\* halo_ble_lua_data_read_frame looks for the service before it takes the lock; with no
\* service ...
FrameTest == Pass(Repl, "nHead", IF initialized THEN "nGet" ELSE "idle")

\* ... or no frame the drain ends.
DrainEnd == dataLock = NoThread /\ dataRing = <<>> /\ Pass(Repl, "nGet", "idle")

\* Mutant: the lock is given back between the length and the payload.
FrameHead_Unlocked ==
  /\ At(Repl, "nGet")
  /\ dataLock = NoThread /\ dataRing # <<>>
  /\ dataRing' = Tail(dataRing)
  /\ Goto(Repl, "nBody")
  /\ UNCHANGED <<linkVars, sendVars, stackVars, ringVars, ringBuf, dataLock, dataBuf,
                 heap, held, pending, frames, delivered, left>>

\* The length, under the lock ...
FrameHead ==
  /\ At(Repl, "nGet")
  /\ dataLock = NoThread /\ dataRing # <<>>
  /\ dataLock' = Repl /\ dataRing' = Tail(dataRing)
  /\ Goto(Repl, "nBody")
  /\ UNCHANGED <<linkVars, sendVars, stackVars, ringVars, ringBuf, dataBuf, heap, held, pending,
                 frames, delivered, left>>

\* Mutant: the drain handles one frame for each event.
FrameBody_One ==
  /\ At(Repl, "nBody")
  /\ dataLock' = NoThread
  /\ IF dataRing = <<>> THEN UNCHANGED <<dataRing, delivered>>
     ELSE dataRing' = Tail(dataRing)
          /\ delivered' = IF Head(dataRing).kind = "payload" THEN Head(dataRing).of ELSE 0
  /\ Goto(Repl, "idle")
  /\ UNCHANGED <<linkVars, sendVars, stackVars, ringVars, ringBuf, dataBuf, heap, held, pending,
                 frames, left>>

\* ... and as many bytes as it says, whatever they are (the drain has room for any frame a
\* write can bring); then the callback.
FrameBody ==
  /\ At(Repl, "nBody")
  /\ dataLock' = NoThread
  /\ IF dataRing = <<>> THEN UNCHANGED <<dataRing, delivered>>
     ELSE dataRing' = Tail(dataRing)
          /\ delivered' = IF Head(dataRing).kind = "payload" THEN Head(dataRing).of ELSE 0
  /\ Goto(Repl, IF dataRing = <<>> THEN "idle" ELSE "nHead")
  /\ UNCHANGED <<linkVars, sendVars, stackVars, ringVars, ringBuf, dataBuf, heap, held, pending,
                 frames, left>>

\* A VM ends: its event bits go (lua_vm_cleanup); DEINIT and INIT come around it.
VmCleanup ==
  /\ Begin(Repl, "vm")
  /\ pending' = FALSE
  /\ Goto(Repl, "vFlush")
  /\ UNCHANGED <<linkVars, sendVars, stackVars, ringVars, dataRing, ringBuf, dataLock,
                 dataBuf, heap, held, frames, delivered>>

\* halo_ble_lua_data_flush, in the INIT of the next VM.
VmFlush ==
  /\ At(Repl, "vFlush") /\ dataLock = NoThread
  /\ dataRing' = IF initialized THEN <<>> ELSE dataRing
  /\ Goto(Repl, "idle")
  /\ UNCHANGED <<linkVars, sendVars, stackVars, ringVars, ringBuf, dataLock, dataBuf, heap, held,
                 pending, frames, delivered, left>>

ResizeBegin ==
  /\ Begin(Repl, "resize") /\ initialized
  /\ Goto(Repl, "zAlloc")
  /\ UNCHANGED <<linkVars, sendVars, stackVars, ringVars, dataVars>>

ResizeAlloc ==
  \/ /\ At(Repl, "zAlloc")
     /\ \E b \in Bufs \ heap : heap' = heap \cup {b} /\ held' = [held EXCEPT ![Repl] = b]
     /\ Goto(Repl, "zSwap")
     /\ UNCHANGED <<linkVars, sendVars, stackVars, ringVars, dataRing, ringBuf, dataLock,
                    dataBuf, pending, frames, delivered, left>>
  \/ Pass(Repl, "zAlloc", "idle")

\* Mutant: the swap does not look whether the service is still there.
ResizeSwap_Blind ==
  /\ At(Repl, "zSwap") /\ dataLock = NoThread
  /\ dataBuf' = held[Repl] /\ held' = [held EXCEPT ![Repl] = dataBuf]
  /\ ringBuf' = held[Repl] /\ dataRing' = <<>>
  /\ Goto(Repl, "zFree")
  /\ UNCHANGED <<linkVars, sendVars, stackVars, ringVars, dataLock, heap, pending, frames,
                 delivered, left>>

\* Under the lock: the new buffer goes in, the old one comes out, unless a
\* deinit came first.
ResizeSwap ==
  /\ At(Repl, "zSwap") /\ dataLock = NoThread
  /\ IF initialized /\ dataBuf # NoBuf
     THEN /\ dataBuf' = held[Repl] /\ held' = [held EXCEPT ![Repl] = dataBuf]
          /\ ringBuf' = held[Repl] /\ dataRing' = <<>>
     ELSE UNCHANGED <<dataBuf, held, ringBuf, dataRing>>
  /\ Goto(Repl, "zFree")
  /\ UNCHANGED <<linkVars, sendVars, stackVars, ringVars, dataLock, heap, pending, frames,
                 delivered, left>>

\* halo_free
Free(t, from) ==
  /\ At(t, from)
  /\ heap' = heap \ {held[t]} /\ held' = [held EXCEPT ![t] = NoBuf]
  /\ Goto(t, "idle")
  /\ UNCHANGED <<linkVars, sendVars, stackVars, ringVars, dataRing, ringBuf, dataLock,
                 dataBuf, pending, frames, delivered, left>>

FrameStep ==
  \/ FrameTest \/ DrainEnd \/ FrameHead \/ FrameBody \/ VmFlush
  \/ ResizeAlloc \/ ResizeSwap \/ Free(Repl, "zFree")

-----------------------------------------------------------------------------
(***************************************************************************)
(* halo_ble_lua_deinit, from the deep-sleep callback of the BLE manager.   *)
(***************************************************************************)
DeinitBegin ==
  /\ Begin(Closer, "deinit") /\ initialized
  /\ initialized' = FALSE
  /\ Goto(Closer, "cLink")
  /\ UNCHANGED <<registered, conidx, ccc, sendVars, stackVars, ringVars, dataVars>>

DeinitLink ==
  /\ At(Closer, "cLink")
  /\ conidx' = FALSE /\ ccc' = {}
  /\ Goto(Closer, "cGive")
  /\ UNCHANGED <<initialized, registered, sendVars, stackVars, ringVars, dataVars, left>>

\* All five semaphores.
DeinitGive ==
  /\ At(Closer, "cGive")
  /\ Give(Channels, Rings, [pc EXCEPT ![Closer] = "cUnregister"])
  /\ UNCHANGED <<linkVars, writeLock, chunks, stackVars, rx, claimed, dataVars, left>>

\* The GATT callbacks stay.
DeinitUnregister ==
  /\ At(Closer, "cUnregister")
  /\ registered' = FALSE
  /\ Goto(Closer, "cSwap")
  /\ UNCHANGED <<initialized, conidx, ccc, sendVars, stackVars, ringVars, dataVars, left>>

\* Mutant: the buffer is freed through a copy of the pointer, which stays.
DeinitSwap_Keeps ==
  /\ At(Closer, "cSwap") /\ dataLock = NoThread
  /\ held' = [held EXCEPT ![Closer] = dataBuf]
  /\ Goto(Closer, "cFree")
  /\ UNCHANGED <<linkVars, sendVars, stackVars, ringVars, dataRing, ringBuf, dataLock, dataBuf,
                 heap, pending, frames, delivered, left>>

\* The data buffer is swapped out under its lock; the ring stays in it.
DeinitSwap ==
  /\ At(Closer, "cSwap") /\ dataLock = NoThread
  /\ held' = [held EXCEPT ![Closer] = dataBuf] /\ dataBuf' = NoBuf
  /\ Goto(Closer, "cFree")
  /\ UNCHANGED <<linkVars, sendVars, stackVars, ringVars, dataRing, ringBuf, dataLock, heap,
                 pending, frames, delivered, left>>

CloseStep ==
  DeinitLink \/ DeinitGive \/ DeinitUnregister \/ DeinitSwap \/ Free(Closer, "cFree")

-----------------------------------------------------------------------------
StackStep == \E c \in Channels : EventSent(c) \/ StaleSent(c)

HostCall ==
  \/ Connect \/ Disconnect \/ DisconnectUnheard \/ (\E c \in Channels : CccWrite(c))
  \/ WriteLine \/ WriteAudio \/ WriteFrame \/ WriteControl

CallBegin ==
  \/ \E t \in Senders : SendBegin(t)
  \/ \E t \in Readers : ReadBegin(t)
  \/ AudioFlush \/ DrainBegin \/ VmCleanup \/ ResizeBegin \/ DeinitBegin

Next ==
  \/ CallBegin \/ HostCall \/ StackStep \/ FrameStep \/ CloseStep
  \/ \E t \in Senders : SendStep(t)
  \/ \E t \in Readers : ReadStep(t)

\* The stack reports every notification of a live link sent, or loses the link.
\* A call that was begun goes on; a waiting thread gets the mutex in its turn.
Fairness ==
  /\ \A c \in Channels : WF_vars(EventSent(c))
  /\ \A t \in Senders : WF_vars(SendStep(t))
  /\ WF_vars(FrameStep) /\ WF_vars(CloseStep)

Spec == Init /\ [][Next]_vars
FairSpec == Spec /\ Fairness

-----------------------------------------------------------------------------
(***************************************************************************)
(* Properties.                                                             *)
(***************************************************************************)
\* Every variable has a value its C counterpart can have; the write lock is with
\* the sender that is between lock and unlock, the data lock with the drain.
TypeOK ==
  /\ initialized \in BOOLEAN /\ registered \in BOOLEAN /\ conidx \in BOOLEAN
  /\ ccc \subseteq Channels
  /\ ntfSem \in [Channels -> {0, 1}] /\ chunks \in [Senders -> 0..MaxChunks]
  /\ writeLock \in Senders \cup {NoThread}
  /\ \A t \in Senders : writeLock = t <=> pc[t] \in SendLabels \ {"sLink", "sLock"}
  /\ link \in BOOLEAN /\ inFlight \in [Channels -> Nat] /\ stale \in [Channels -> Nat]
  /\ rx \in [Rings -> Nat] /\ rxSem \in [Rings -> {0, 1}] /\ claimed \subseteq Rings
  /\ dataRing \in Seq([kind : {"length", "payload"}, of : Nat])
  /\ dataLock \in {NoThread, Repl} /\ (dataLock = Repl <=> pc[Repl] = "nBody")
  /\ {dataBuf, ringBuf} \subseteq Bufs \cup {NoBuf} /\ heap \subseteq Bufs
  /\ held \in [{Repl, Closer} -> Bufs \cup {NoBuf}]
  /\ pending \in BOOLEAN /\ frames \in Nat /\ delivered \in Nat
  /\ pc \in [Threads -> Labels] /\ left \in [Threads -> [OpNames -> Nat]]

\* A sender never waits for a sent event that nobody will give: while it waits, a
\* notification of its channel is in the stack (send_notification gives the unit
\* back on every path that sends nothing).
UnitNotLost ==
  \A t \in Senders : pc[t] = "sWait" => inFlight[ChannelOf(t)] > 0 /\ link

\* "Wait for previous notification to complete": the stack holds at most one
\* notification of a channel, whatever disconnects and reconnects lie between.
OneOutstanding == \A c \in Channels : inFlight[c] <= 1

\* Every write returns, with write_lock given back, though it waits for the sent
\* event without a timeout: a disconnect and the deinit release it.
SenderReturns == \A t \in Senders : (pc[t] \in SendLabels) ~> (pc[t] = "idle")

\* Data in a ring wakes its reader: the semaphore is set, or the reader is about to
\* look (the re-give in the reads, and a flush or a reset that leaves it alone).
DataWakesReader ==
  \A t \in Readers :
    initialized /\ rx[RingOf(t)] > 0
      => rxSem[RingOf(t)] = 1 \/ pc[t] \in {"rCheck", "rGet", "rFinish", "rLook", "rGive"}

\* A queued frame is announced: the event bit is set or the drain is on its way, so
\* no frame waits for the next one (the bit is taken before the ring is read).
FrameAnnounced ==
  initialized /\ dataRing # <<>> => pending \/ pc[Repl] \in DrainLabels

\* Each data buffer has one owner: the service, the resize or the deinit; none is freed
\* twice, the service's is the one its ring is in, and after the deinit none is left, however
\* a resize meets it.  (What the ring does with a buffer after that: NoUseAfterFree.)
BufferOwnedOnce ==
  /\ \A b \in heap :
       \/ dataBuf = b /\ \A t \in {Repl, Closer} : held[t] # b
       \/ dataBuf # b /\ \E t \in {Repl, Closer} :
            held[t] = b /\ \A u \in {Repl, Closer} \ {t} : held[u] # b
  /\ dataBuf # NoBuf => dataBuf \in heap /\ ringBuf = dataBuf
  /\ \A t \in {Repl, Closer} : held[t] \in heap \cup {NoBuf}
  /\ ~initialized /\ pc[Closer] = "idle" /\ pc[Repl] \notin ResizeLabels => heap = {}

\* The deinit promises to "block new readers/writers immediately": no byte is put into the
\* data ring, or got from it, once its buffer is freed.
NoUseAfterFree ==
  [][Len(dataRing') > Len(dataRing) \/ FrameHead \/ FrameBody => ringBuf \in heap]_vars

\* One write is one frame for the callback, in order (FrameQueue), though a ring keeps
\* lengths and payloads apart: the queue is the payloads of the ring, every second cell of
\* it, the last one included.
Queue ==
  [i \in 1..(Len(dataRing) + 1) \div 2 |-> dataRing[2 * i - (Len(dataRing) % 2)].of]
F == INSTANCE FrameQueue WITH queue <- Queue, got <- delivered, last <- frames
FrameFifo == F!Spec
=============================================================================
