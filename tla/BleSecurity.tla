---------------------------- MODULE BleSecurity -----------------------------
(***************************************************************************)
(* Pairing and bonding: modules/halo/src/ble_security.c, with the callbacks *)
(* of ble_connection.c that call it and the 5 s hold of lua_button.c.       *)
(*                                                                         *)
(* The bond table lives in noinit RAM and in flash.  RAM survives a warm    *)
(* reset, with the magic, the bonds and the mutex as they stood; a cold     *)
(* reset loses it, and the next boot loads the table from flash.  A slot is *)
(* four settings keys, written one after the other, so a reset may strike   *)
(* between any two.                                                        *)
(*                                                                         *)
(* The callbacks of the BLE host thread hold sec_ctx.lock and the host      *)
(* stack lock: a step here is a callback up to its next write.  The timeout *)
(* of the pairing window runs on the work queue and may come in between.    *)
(***************************************************************************)
EXTENDS Integers, Functions

CONSTANTS
  Peers,      \* the devices that connect
  Private,    \* those that connect from a resolvable private address
  NoPeer,     \* the zero address
  Rpa,        \* a private address, of use for one connection only
  MaxBonds,   \* CONFIG_HALO_BLE_MAX_BONDS
  WarmResets, \* TRUE: a reset may keep noinit RAM
  MaxGen,     \* bound: pairings of one peer
  MaxPairings,\* bound: pairings of all
  MaxUses     \* bound: the LRU counter

ASSUME SecurityAssumption ==
  /\ Private \subseteq Peers /\ NoPeer \notin Peers /\ Rpa \notin Peers /\ Rpa # NoPeer
  /\ MaxBonds \in Nat \ {0} /\ WarmResets \in BOOLEAN
  /\ MaxGen \in Nat \ {0} /\ MaxPairings \in Nat /\ MaxUses \in Nat

VARIABLES
  initialized,    \* sec_ctx.initialized is the magic
  bonds,          \* sec_ctx.bonds
  pending,        \* sec_ctx.pending
  pendingActive,  \* sec_ctx.pending_active
  activeSlot,     \* sec_ctx.active_slot
  lruCounter,     \* sec_ctx.lru_counter
  paired,         \* sec_ctx.paired
  lock,           \* sec_ctx.lock is owned
  open,           \* window.open
  resolving,      \* gapm_le_resolve_address is under way
  flash,          \* flash[s]: the settings bond<s>_{keys,data,addr,meta}
  legacy,         \* the settings of the single-bond firmware
  peer, phase,    \* stack: who connected last, and how far its link is
  pairing,        \* stack: how far the pairing on this link is
  pc, slot, then, \* where the host thread (or the boot) is, in which slot, for whom
  gen,            \* gen[p]: number of the last pairing p began
  promised,       \* promised[p]: the pairing of p whose bond was stored, 0 if p dropped or lost it
  latest,         \* the peer whose use or bond was recorded last, if that is certain
  struck          \* slots a reset cut off while a bond was being committed to them

ramVars == <<initialized, bonds, pending, pendingActive, activeSlot, lruCounter, paired,
             lock>>
flashVars == <<flash, legacy>>
linkVars == <<resolving, peer, phase, pairing>>
ghostVars == <<gen, promised, latest, struck>>
vars == <<ramVars, open, flashVars, linkVars, pc, slot, then, ghostVars>>

Slots == 0 .. MaxBonds - 1
NoSlot == -1
NoKeys == <<NoPeer, 0>>
Keys == (Peers \cup {NoPeer}) \X (0 .. MaxGen)
Addrs == Peers \cup {NoPeer, Rpa}

\* A bond: keys are those of the n-th pairing of a peer, with the peer's IRK; data is the
\* bond data of a pairing with that peer; used is the LRU sequence number.
Bonds == [valid : BOOLEAN, keys : Keys, data : Peers \cup {NoPeer}, addr : Addrs, used : Nat]
Empty == [valid |-> FALSE, keys |-> NoKeys, data |-> NoPeer, addr |-> NoPeer, used |-> 0]
NoLegacy == [keys |-> NoKeys, data |-> NoPeer, addr |-> NoPeer]

\* The address peer p connects from.
AddrOf(p) == IF p \in Private THEN Rpa ELSE p

\* The first slot of a set.
First(S) == IF S = {} THEN NoSlot ELSE CHOOSE s \in S : \A r \in S : s <= r

Used == {s \in Slots : bonds[s].valid}

\* The slot whose address peer p connects from.
SlotByAddr(p) == First({s \in Used : p \notin Private /\ bonds[s].addr = p})

\* Mutant: the slot after the match.
SlotByIrk_OffByOne(p) == First({s + 1 : s \in {r \in Used : bonds[r].keys[1] = p}})

\* The slot whose IRK is that of peer p.
SlotByIrk(p) == First({s \in Used : bonds[s].keys[1] = p})

\* A free slot, else the one used longest ago.
CommitSlot ==
  IF Used # Slots THEN First(Slots \ Used)
  ELSE First({s \in Slots : \A r \in Slots : bonds[s].used <= bonds[r].used})

Pairable == open \/ Used = {}

At(l) == pc = l
Goto(l) == pc' = l
Idle == At("idle") /\ initialized

\* The settings hold at most the bond of the single-bond firmware.
Init ==
  /\ initialized = FALSE /\ bonds = [s \in Slots |-> Empty] /\ pending = Empty
  /\ pendingActive = FALSE /\ activeSlot = NoSlot /\ lruCounter = 0
  /\ paired = FALSE /\ lock = FALSE /\ open = FALSE
  /\ resolving = FALSE /\ peer = NoPeer /\ phase = "none" /\ pairing = "none"
  /\ flash = [s \in Slots |-> Empty]
  /\ pc = "boot" /\ slot = NoSlot /\ then = "boot" /\ latest = NoPeer /\ struck = {}
  /\ \/ legacy = NoLegacy /\ gen = [p \in Peers |-> 0]
     \/ \E p \in Peers : /\ legacy = [keys |-> <<p, 1>>, data |-> p, addr |-> AddrOf(p)]
                         /\ gen = [q \in Peers |-> IF q = p THEN 1 ELSE 0]
  /\ promised = gen

-----------------------------------------------------------------------------
(***************************************************************************)
(* bond_slot_persist: keys, data, addr, then meta, which makes the slot    *)
(* valid.  A touch writes meta alone.                                      *)
(***************************************************************************)
\* Flash after settings key k of slot s is written from RAM.
Written(s, k) ==
  LET from(key) == IF k = key THEN bonds[s] ELSE flash[s] IN
  [flash EXCEPT ![s] =
    [valid |-> from("meta").valid, used |-> from("meta").used,
     keys |-> from("keys").keys, data |-> from("data").data, addr |-> from("addr").addr]]

\* Mutant: meta is written first.
KeyAt_MetaFirst(l) ==
  CASE l = "wKeys" -> "meta" [] l = "wData" -> "keys"
    [] l = "wAddr" -> "data" [] l = "wMeta" -> "addr"

\* The settings key a step writes.
KeyAt(l) ==
  CASE l = "wKeys" -> "keys" [] l = "wData" -> "data"
    [] l = "wAddr" -> "addr" [] l = "wMeta" -> "meta"

Write(from, to) ==
  /\ At(from) /\ Goto(to)
  /\ flash' = Written(slot, KeyAt(from))
  /\ UNCHANGED <<ramVars, open, legacy, linkVars, slot, then, gen, promised, latest, struck>>

\* The bond in slot s is of one peer.
Whole(b) == b.keys[1] = b.data /\ b.addr \in {b.data, AddrOf(b.data)}

\* Meta ends the write of a slot: what a reset cut off before is made good.
WriteMeta ==
  /\ At("wMeta") /\ Goto("wDone")
  /\ flash' = Written(slot, KeyAt("wMeta"))
  /\ struck' = IF then # "cfm" /\ Whole(bonds[slot]) THEN struck \ {slot} ELSE struck
  /\ UNCHANGED <<ramVars, open, legacy, linkVars, slot, then, gen, promised, latest>>

Persist ==
  Write("wKeys", "wData") \/ Write("wData", "wAddr") \/ Write("wAddr", "wMeta") \/ WriteMeta

-----------------------------------------------------------------------------
(***************************************************************************)
(* Connection.  A callback returns to the stack with pc at "idle".         *)
(***************************************************************************)
\* Mutant: the pairing of the link before is not forgotten.
ConnectionReq_KeepsPending(p) ==
  /\ Idle /\ phase = "none" /\ ~resolving /\ lruCounter < MaxUses
  /\ peer' = p /\ phase' = "asked" /\ pairing' = "none"
  /\ activeSlot' = NoSlot /\ paired' = FALSE
  /\ slot' = SlotByAddr(p)
  /\ resolving' = (slot' = NoSlot /\ p \in Private /\ \E s \in Used : bonds[s].keys # NoKeys)
  /\ Goto(IF resolving' THEN "idle" ELSE "dispatch")
  /\ UNCHANGED <<initialized, bonds, pending, pendingActive, lruCounter, lock, open, flashVars,
                 then, ghostVars>>

ConnectionReq(p) ==
  /\ Idle /\ phase = "none" /\ ~resolving /\ lruCounter < MaxUses
  /\ peer' = p /\ phase' = "asked" /\ pairing' = "none"
  /\ activeSlot' = NoSlot /\ pendingActive' = FALSE /\ paired' = FALSE
  /\ slot' = SlotByAddr(p)
  /\ resolving' = (slot' = NoSlot /\ p \in Private /\ \E s \in Used : bonds[s].keys # NoKeys)
  /\ Goto(IF resolving' THEN "idle" ELSE "dispatch")
  /\ UNCHANGED <<initialized, bonds, pending, lruCounter, lock, open, flashVars, then, ghostVars>>

\* The stack resolved the address against the stored IRKs, the link may be gone.
Resolved ==
  /\ Idle /\ resolving
  /\ resolving' = FALSE /\ slot' = SlotByIrk(peer) /\ Goto("dispatch")
  /\ UNCHANGED <<ramVars, open, flashVars, peer, phase, pairing, then, ghostVars>>

Confirmed == IF phase = "asked" THEN "confirmed" ELSE phase
Closing == IF phase = "none" THEN "none" ELSE "closing"

\* A bonded peer during the window, or an unknown one outside it.
Reject ==
  /\ At("dispatch")
  /\ IF slot # NoSlot THEN open ELSE ~Pairable
  /\ phase' = Closing /\ Goto("idle")
  /\ UNCHANGED <<ramVars, open, flashVars, resolving, peer, pairing, slot, then, ghostVars>>

\* Its slot is touched, the link confirmed once that is on flash.
KnownConnected ==
  /\ At("dispatch") /\ slot # NoSlot /\ ~open
  /\ activeSlot' = slot /\ paired' = TRUE
  /\ lruCounter' = lruCounter + 1
  /\ bonds' = [bonds EXCEPT ![slot].used = lruCounter + 1]
  /\ lock' = TRUE /\ then' = "cfm" /\ Goto("wMeta")
  /\ latest' = NoPeer
  /\ UNCHANGED <<initialized, pending, pendingActive, open, flashVars, linkVars, slot,
                 gen, promised, struck>>

KnownConfirmed ==
  /\ At("wDone") /\ then = "cfm"
  /\ lock' = FALSE /\ phase' = Confirmed /\ latest' = peer /\ Goto("idle")
  /\ UNCHANGED <<initialized, bonds, pending, pendingActive, activeSlot, lruCounter, paired, open,
                 flashVars, resolving, peer, pairing, slot, then, gen, promised, struck>>

UnknownConnected ==
  /\ At("dispatch") /\ slot = NoSlot /\ Pairable
  /\ activeSlot' = NoSlot /\ pendingActive' = TRUE
  /\ pending' = [Empty EXCEPT !.addr = AddrOf(peer)]
  /\ phase' = Confirmed /\ Goto("idle")
  /\ UNCHANGED <<initialized, bonds, lruCounter, paired, lock, open, flashVars,
                 resolving, peer, pairing, slot, then, ghostVars>>

\* ble_security.c is not told.
Disconnect ==
  /\ Idle /\ phase # "none"
  /\ phase' = "none" /\ pairing' = "none"
  /\ UNCHANGED <<ramVars, open, flashVars, resolving, peer, pc, slot, then, ghostVars>>

-----------------------------------------------------------------------------
(***************************************************************************)
(* Pairing, by a new peer or by a bonded one that has lost its keys.       *)
(***************************************************************************)
OnLink == Idle /\ phase = "confirmed"

\* on_gapc_pairing_req accepts every request, the first on a link or not.
PairingReq ==
  /\ OnLink /\ pairing \in {"none", "failed"}
  /\ promised[peer] = 0 /\ gen[peer] < MaxGen /\ SumFunction(gen) < MaxPairings
  /\ gen' = [gen EXCEPT ![peer] = @ + 1] /\ pairing' = "begun"
  /\ UNCHANGED <<ramVars, open, flashVars, resolving, peer, phase, pc, slot, then, promised,
                 latest, struck>>

\* Keys go to the staged bond, else to the slot of the link, which is then persisted,
\* else nowhere.
StoreKeys(a) ==
  LET new(b) == [b EXCEPT !.keys = <<peer, gen[peer]>>, !.addr = IF a = NoPeer THEN @ ELSE a] IN
  \/ /\ pendingActive /\ pending' = new(pending)
     /\ UNCHANGED <<bonds, lock, pc, slot, then>>
  \/ /\ ~pendingActive /\ activeSlot # NoSlot
     /\ bonds' = [bonds EXCEPT ![activeSlot] = new(@)]
     /\ lock' = TRUE /\ slot' = activeSlot /\ then' = "keys" /\ Goto("wKeys")
     /\ UNCHANGED pending
  \/ /\ ~pendingActive /\ activeSlot = NoSlot
     /\ UNCHANGED <<bonds, pending, lock, pc, slot, then>>

\* The stack asks for an LTK (a pairing without secure connections only).
ProvideLtk ==
  /\ OnLink /\ pairing = "begun"
  /\ pairing' = "ltk" /\ StoreKeys(NoPeer)
  /\ UNCHANGED <<initialized, pendingActive, activeSlot, lruCounter, paired, open,
                 flashVars, resolving, peer, phase, ghostVars>>

\* The peer's keys, with its identity address.
KeysReceived ==
  /\ OnLink /\ pairing \in {"begun", "ltk"}
  /\ pairing' = "keyed" /\ StoreKeys(peer)
  /\ UNCHANGED <<initialized, pendingActive, activeSlot, lruCounter, paired, open,
                 flashVars, resolving, peer, phase, ghostVars>>

KeysStored ==
  /\ At("wDone") /\ then = "keys"
  /\ lock' = FALSE /\ Goto("idle")
  /\ UNCHANGED <<initialized, bonds, pending, pendingActive, activeSlot, lruCounter, paired, open,
                 flashVars, linkVars, slot, then, ghostVars>>

\* Bond b is that of the last pairing of peer p.
Serves(b, p) ==
  /\ b.keys = <<p, promised[p]>> /\ b.data = p
  /\ b.addr = p \/ p \in Private

\* The staged bond takes a slot; who had it is evicted.
Commit ==
  /\ OnLink /\ pairing = "keyed" /\ pendingActive
  /\ slot' = CommitSlot
  /\ bonds' = [bonds EXCEPT ![slot'] =
       [pending EXCEPT !.data = peer, !.used = lruCounter + 1, !.valid = TRUE]]
  /\ lruCounter' = lruCounter + 1 /\ activeSlot' = slot'
  /\ pending' = Empty /\ pendingActive' = FALSE
  /\ lock' = TRUE /\ then' = "paired" /\ Goto("wKeys")
  /\ promised' = [p \in Peers |->
       IF bonds[slot'].valid /\ Serves(bonds[slot'], p) THEN 0 ELSE promised[p]]
  /\ latest' = NoPeer
  /\ UNCHANGED <<initialized, paired, open, flashVars, linkVars, gen, struck>>

\* A bonded peer has paired again.
Refresh ==
  /\ OnLink /\ pairing = "keyed" /\ ~pendingActive /\ activeSlot # NoSlot
  /\ bonds' = [bonds EXCEPT ![activeSlot].data = peer]
  /\ slot' = activeSlot
  /\ lock' = TRUE /\ then' = "paired" /\ Goto("wKeys")
  /\ UNCHANGED <<initialized, pending, pendingActive, activeSlot, lruCounter, paired, open,
                 flashVars, linkVars, ghostVars>>

\* gapc_is_bonded: the stack says whether the pairing made a bond of its own.
SetPaired == paired' \in {paired, TRUE}

PairedStored ==
  /\ At("wDone") /\ then = "paired"
  /\ SetPaired /\ lock' = FALSE /\ open' = FALSE /\ pairing' = "none" /\ Goto("idle")
  /\ promised' = [promised EXCEPT ![peer] = gen[peer]] /\ latest' = peer
  /\ UNCHANGED <<initialized, bonds, pending, pendingActive, activeSlot, lruCounter,
                 flashVars, resolving, peer, phase, slot, then, gen, struck>>

\* Neither branch of on_paired: the pairing before, on this link, failed.
PairedUnstored ==
  /\ OnLink /\ pairing = "keyed" /\ ~pendingActive /\ activeSlot = NoSlot
  /\ SetPaired /\ open' = FALSE /\ pairing' = "none"
  /\ UNCHANGED <<initialized, bonds, pending, pendingActive, activeSlot, lruCounter, lock,
                 flashVars, resolving, peer, phase, pc, slot, then, ghostVars>>

PairFailed ==
  /\ OnLink /\ pairing \in {"begun", "ltk", "keyed"}
  /\ pairing' = "failed" /\ paired' = FALSE
  /\ IF pendingActive THEN pending' = Empty /\ pendingActive' = FALSE
                      ELSE UNCHANGED <<pending, pendingActive>>
  /\ UNCHANGED <<initialized, bonds, activeSlot, lruCounter, lock, open, flashVars, resolving,
                 peer, phase, pc, slot, then, ghostVars>>

\* The bond stays (PAIRING.md has it cleared: EncryptFailureClears), the link is closed.
EncryptFailed ==
  /\ OnLink /\ Used # {}
  /\ paired' = FALSE /\ activeSlot' = NoSlot /\ phase' = Closing
  /\ UNCHANGED <<initialized, bonds, pending, pendingActive, lruCounter, lock, open, flashVars,
                 resolving, peer, pairing, pc, slot, then, ghostVars>>

\* The peer drops its bond; it may pair again.
Forget(p) ==
  /\ promised[p] # 0 /\ ~(peer = p /\ phase # "none")
  /\ promised' = [promised EXCEPT ![p] = 0]
  /\ UNCHANGED <<ramVars, open, flashVars, linkVars, pc, slot, then, gen, latest, struck>>

-----------------------------------------------------------------------------
(***************************************************************************)
(* The pairing window.                                                     *)
(***************************************************************************)
\* The 5 s hold: halo_ble_conn_disconnect takes the host stack lock, so no callback is
\* under way, and the button thread is cooperative.
WindowOpen ==
  /\ Idle
  /\ phase' = Closing /\ open' = TRUE
  /\ UNCHANGED <<ramVars, flashVars, resolving, peer, pairing, pc, slot, then, ghostVars>>

WindowTimeout ==
  /\ open /\ open' = FALSE
  /\ UNCHANGED <<ramVars, flashVars, linkVars, pc, slot, then, ghostVars>>

-----------------------------------------------------------------------------
(***************************************************************************)
(* Resets and the boot: halo_ble_sec_init.                                 *)
(***************************************************************************)
\* A commit that is cut off leaves a mixed slot behind if the slot's meta was already
\* valid, or is to be made so by the next touch out of RAM.
Cut(warm) ==
  IF lock /\ then = "paired" /\ pc \in {"wKeys", "wData", "wAddr", "wMeta"}
       /\ (warm \/ flash[slot].valid)
  THEN {slot} ELSE {}

Reset(warm) ==
  /\ open' = FALSE /\ resolving' = FALSE /\ phase' = "none" /\ pairing' = "none"
  /\ peer' = NoPeer /\ slot' = NoSlot /\ then' = "boot" /\ Goto("boot")
  /\ struck' = struck \cup Cut(warm)
  /\ UNCHANGED <<flashVars, gen, promised, latest>>

WarmReset == WarmResets /\ Reset(TRUE) /\ UNCHANGED ramVars

\* RAM comes up with any content but the magic.
ColdReset ==
  /\ Reset(FALSE)
  /\ initialized' = FALSE /\ bonds' = [s \in Slots |-> Empty] /\ pending' = Empty
  /\ pendingActive' = FALSE /\ activeSlot' = NoSlot /\ lruCounter' = 0
  /\ paired' = FALSE /\ lock' = FALSE

\* The table is still there; update_pairing_led takes the lock.
WarmBoot ==
  /\ At("boot") /\ initialized /\ ~lock /\ Goto("idle")
  /\ UNCHANGED <<ramVars, open, flashVars, linkVars, slot, then, ghostVars>>

Loaded(s) == IF flash[s].valid THEN flash[s] ELSE Empty

\* Mutant: the LRU counter starts from 0 again.
HighestUse_Zero == 0

\* The highest sequence number in the table.
HighestUse ==
  CHOOSE n \in {0} \cup {Loaded(s).used : s \in Slots} : \A s \in Slots : Loaded(s).used <= n

\* Mutant: slot 0 is overwritten whether it holds a bond or not.
Imports_Always == legacy.addr # NoPeer

\* migrate_legacy_bond imports the old bond, unless it did so before.
Imports == legacy.addr # NoPeer /\ ~Loaded(0).valid

Import(used) == [valid |-> TRUE, keys |-> legacy.keys, data |-> legacy.data,
                 addr |-> legacy.addr, used |-> used]

\* Up to the writes of the import nobody else runs, and a reset on the way comes back here:
\* initialized is stored last.
ColdBoot ==
  /\ At("boot") /\ ~initialized
  /\ pending' = Empty /\ pendingActive' = FALSE /\ activeSlot' = NoSlot
  /\ paired' = FALSE
  /\ lruCounter' = HighestUse + (IF Imports THEN 1 ELSE 0)
  /\ bonds' = [s \in Slots |-> IF s = 0 /\ Imports THEN Import(HighestUse + 1) ELSE Loaded(s)]
  /\ IF legacy.addr = NoPeer
     THEN /\ lock' = FALSE /\ initialized' = TRUE /\ Goto("idle") /\ UNCHANGED <<slot, then>>
     ELSE /\ lock' = TRUE /\ slot' = 0 /\ then' = "boot"
          /\ Goto(IF Imports THEN "wKeys" ELSE "wDone") /\ UNCHANGED initialized
  /\ UNCHANGED <<open, flashVars, linkVars, ghostVars>>

\* The settings of the old bond are deleted, its address last.
Delete(from, key, none, to) ==
  /\ At(from) /\ then = "boot" /\ Goto(to)
  /\ legacy' = [legacy EXCEPT ![key] = none]
  /\ UNCHANGED <<ramVars, open, flash, linkVars, slot, then, ghostVars>>

DeleteAddr ==
  /\ At("dAddr") /\ Goto("idle")
  /\ legacy' = [legacy EXCEPT !.addr = NoPeer]
  /\ lock' = FALSE /\ initialized' = TRUE
  /\ UNCHANGED <<bonds, pending, pendingActive, activeSlot, lruCounter, paired, open,
                 flash, linkVars, slot, then, ghostVars>>

Boot ==
  \/ WarmBoot \/ ColdBoot \/ DeleteAddr
  \/ Delete("wDone", "keys", NoKeys, "dData") \/ Delete("dData", "data", NoPeer, "dAddr")

-----------------------------------------------------------------------------
Connection ==
  \/ \E p \in Peers : ConnectionReq(p)
  \/ Resolved \/ Reject \/ KnownConnected \/ KnownConfirmed \/ UnknownConnected \/ Disconnect

Pairing ==
  \/ PairingReq \/ ProvideLtk \/ KeysReceived \/ KeysStored \/ Commit \/ Refresh
  \/ PairedStored \/ PairedUnstored \/ PairFailed \/ EncryptFailed
  \/ \E p \in Peers : Forget(p)

Next ==
  \/ Connection \/ Pairing \/ Persist \/ Boot
  \/ WindowOpen \/ WindowTimeout \/ WarmReset \/ ColdReset

Spec == Init /\ [][Next]_vars

-----------------------------------------------------------------------------
(***************************************************************************)
(* Properties.                                                             *)
(***************************************************************************)
\* Every variable has a value its C counterpart can have; the lock is owned while a slot
\* is written, and the slot is in the table.
TypeOK ==
  /\ initialized \in BOOLEAN /\ bonds \in [Slots -> Bonds] /\ pending \in Bonds
  /\ pendingActive \in BOOLEAN /\ activeSlot \in Slots \cup {NoSlot} /\ lruCounter \in Nat
  /\ paired \in BOOLEAN /\ lock \in BOOLEAN /\ open \in BOOLEAN
  /\ resolving \in BOOLEAN /\ flash \in [Slots -> Bonds]
  /\ legacy \in [keys : Keys, data : Peers \cup {NoPeer}, addr : Addrs]
  /\ peer \in Peers \cup {NoPeer} /\ phase \in {"none", "asked", "confirmed", "closing"}
  /\ pairing \in {"none", "begun", "ltk", "keyed", "failed"}
  /\ pc \in {"idle", "dispatch", "wKeys", "wData", "wAddr", "wMeta", "wDone", "boot",
             "dData", "dAddr"}
  /\ slot \in Slots \cup {NoSlot} /\ then \in {"cfm", "keys", "paired", "boot"}
  /\ gen \in [Peers -> 0 .. MaxGen] /\ promised \in [Peers -> 0 .. MaxGen]
  /\ latest \in Peers \cup {NoPeer} /\ struck \subseteq Slots
  /\ pc \in {"wKeys", "wData", "wAddr", "wMeta", "wDone"} => lock /\ slot \in Slots

Keeps(table, p) == \E s \in Slots : table[s].valid /\ Serves(table[s], p)

\* A peer whose bond was stored has it, in RAM and in flash: through any reset at any
\* write, the migration of the old bond, a failed encryption (whose bond ble_security.c
\* keeps on purpose, though PAIRING.md clears it), and whatever other peers do, but for an
\* eviction.
BondSurvives ==
  \A p \in Peers : promised[p] # 0 =>
    /\ Keeps(flash, p) \/ Serves(legacy, p)
    /\ initialized => Keeps(bonds, p)

\* "Written last so a slot only counts as valid once fully persisted": whatever a boot
\* finds valid in flash is the bond of one peer, unless a reset cut off a commit to a slot
\* already in use, or one that RAM survived.
SlotsWhole ==
  pc \in {"boot", "idle"} => \A s \in Slots \ struck : flash[s].valid => Whole(flash[s])

\* The link uses the bond of the peer at its other end, and a peer that has a bond is
\* never staged as a new one.
LinkHasItsBond ==
  OnLink =>
    /\ activeSlot # NoSlot /\ activeSlot \notin struck => bonds[activeSlot].data = peer
    /\ pendingActive => \A s \in Used \ struck : bonds[s].data # peer

\* A bond is evicted only from a full table, and never that of the peer that was bonded
\* or that connected last, whatever resets came in between.  With two slots that leaves the
\* one used longest ago; with more the formula does not say which of the others goes.
EvictsOldest ==
  [][\A p \in Peers : promised[p] # 0 /\ promised'[p] = 0 /\ bonds' # bonds
       => Used = Slots /\ p # latest]_vars

\* "Encryption failure -> clear that slot only" (PAIRING.md 3.5): the slot of a link that
\* cannot be encrypted is no bond afterwards.
EncryptFailureClears ==
  [][EncryptFailed /\ activeSlot # NoSlot => ~bonds'[activeSlot].valid]_vars

\* After a warm reset the boot finds the lock free.
WarmBootRuns == At("boot") /\ initialized => ~lock
=============================================================================
