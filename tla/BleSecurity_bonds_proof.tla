---------------------- MODULE BleSecurity_bonds_proof -----------------------
(***************************************************************************)
(* Proofs about BleSecurity, continued: a bond that was stored is kept, in  *)
(* RAM and in flash, through any reset at any write, until a full table     *)
(* evicts it; and never that of the peer that connected last.               *)
(***************************************************************************)
EXTENDS BleSecurity_proof

(***************************************************************************)
(* The account of the bonds.  KeptInv says where the bond of a peer is.  It *)
(* is lost if a callback writes its slot for another peer, so the rest says *)
(* that a lookup finds at most one slot (MatchInv), that flash and RAM agree*)
(* but in the slot being written (MirrorInv), and whose slot the link has   *)
(* (ActiveInv).                                                            *)
(***************************************************************************)
\* A lookup for peer p finds bond b: by its IRK if p has a private address.
Matches(b, p) == IF p \in Private THEN b.keys[1] = p ELSE b.addr = p
\* In a table, no two slots are found for one peer.
Unique(table) ==
  \A p \in Peers, r, s \in Slots :
    table[r].valid /\ table[s].valid /\ Matches(table[r], p) /\ Matches(table[s], p) => r = s
\* In a table, no slot but s is found for p.
OnlyIn(table, s, p) == \A r \in Slots \ {s} : table[r].valid => ~Matches(table[r], p)
\* In a table, slot s was used last.
Newest(table, s) == \A r \in Slots \ {s} : table[r].valid => table[r].used < table[s].used
\* Slot s is in flash as it is in RAM.
Mirrored(s) == flash[s].valid = bonds[s].valid /\ (bonds[s].valid => flash[s] = bonds[s])

\* Until the old bond is imported there is no other.
ImportInv ==
  /\ legacy.addr # NoPeer =>
       /\ ~initialized /\ struck = {} /\ latest = NoPeer
       /\ \A s \in Slots \ {0} : ~flash[s].valid
  /\ ~initialized /\ pc \in Writes \cup Deletes => legacy.addr # NoPeer

\* A peer that pairs has no promise, and its new keys go to one slot.
PairInv ==
  /\ pairing # "none" => phase # "none"
  /\ pairing \in {"begun", "ltk", "keyed"} => promised[peer] = 0
  /\ pc \in Writes /\ then = "keys" => pairing \in {"ltk", "keyed"}
  /\ pc \in Writes /\ then = "paired" => pairing = "keyed" /\ bonds[slot].addr = peer
  /\ pc = "wDone" /\ then = "paired" => slot \notin struck
  /\ initialized /\ peer \in Peers /\ pairing = "keyed" =>
       /\ pendingActive => pending.keys = <<peer, gen[peer]>>
       /\ ~pendingActive /\ activeSlot # NoSlot
          => bonds[activeSlot].keys = <<peer, gen[peer]>>

MirrorInv ==
  /\ pc \in {"idle", "dispatch"} => ~lock
  /\ initialized /\ ~lock => \A s \in Slots : Mirrored(s)
  /\ pc \in Writes \cup Deletes => \A s \in Slots \ {slot} : Mirrored(s)
  /\ pc \in Deletes \cup {"wDone"} => Mirrored(slot)
  /\ pc = "wMeta" /\ then = "cfm" =>
       /\ flash[slot].valid /\ flash[slot].keys = bonds[slot].keys
       /\ flash[slot].data = bonds[slot].data /\ flash[slot].addr = bonds[slot].addr

\* The LRU counter is the highest sequence number.
UseInv ==
  Up => \A s \in Slots :
    bonds[s].used <= lruCounter /\ (flash[s].valid => flash[s].used <= lruCounter)

MatchInv ==
  /\ Unique(flash) /\ (Up => Unique(bonds))
  /\ resolving => peer \in Private
  /\ pc = "dispatch" => OnlyIn(bonds, slot, peer)
  /\ initialized /\ pendingActive /\ peer \in Peers => OnlyIn(bonds, NoSlot, peer)

\* The slot of the link was used last, and is the only one found for its peer.
ActiveInv ==
  initialized /\ peer \in Peers /\ activeSlot # NoSlot =>
    /\ latest \in {peer, NoPeer}
    /\ pc \in Writes /\ then = "cfm" => latest = NoPeer
    /\ OnlyIn(bonds, activeSlot, peer) /\ OnlyIn(flash, activeSlot, peer)
    /\ Newest(bonds, activeSlot)
    /\ \A s \in Slots \ {activeSlot} :
         flash[s].valid => flash[s].used < bonds[activeSlot].used

Holds(table, s, p) == table[s].valid /\ Serves(table[s], p) /\ OnlyIn(table, s, p)

KeptIn(s, p) ==
  /\ Up => Holds(bonds, s, p)
  /\ \/ Holds(flash, s, p)
     \/ s = 0 /\ ~flash[0].valid /\ legacy.addr # NoPeer /\ Serves(legacy, p)
  /\ p = latest => Newest(flash, s) /\ (Up => Newest(bonds, s))

\* The bond of a peer is in one slot, that no reset has struck.
KeptInv == \A p \in Peers : promised[p] # 0 => \E s \in Slots \ struck : KeptIn(s, p)

Account ==
  /\ ImportInv /\ PairInv /\ MirrorInv /\ UseInv /\ MatchInv /\ ActiveInv /\ KeptInv

(***************************************************************************)
(* What the steps do to the tables.                                        *)
(***************************************************************************)
TablesKept == UNCHANGED <<initialized, bonds, lruCounter, flash, legacy>> /\ (Up' => Up)
Unpromised == UNCHANGED <<promised, latest, struck>>
KeyWrite == Write("wKeys", "wData") \/ Write("wData", "wAddr") \/ Write("wAddr", "wMeta")

\* StoreKeys, when the link has a slot.
Rekeyed ==
  /\ OnLink /\ pairing \in {"begun", "ltk"} /\ pairing' \in {"ltk", "keyed"}
  /\ ~pendingActive /\ activeSlot \in Slots
  /\ bonds'[activeSlot].valid = bonds[activeSlot].valid
  /\ bonds'[activeSlot].data = bonds[activeSlot].data
  /\ bonds'[activeSlot].used = bonds[activeSlot].used
  /\ bonds'[activeSlot].keys = <<peer, gen[peer]>>
  /\ bonds'[activeSlot].addr \in {bonds[activeSlot].addr, peer}
  /\ \A s \in Slots \ {activeSlot} : bonds'[s] = bonds[s]
  /\ lock' = TRUE /\ slot' = activeSlot /\ then' = "keys" /\ pc' = "wKeys"
  /\ UNCHANGED <<initialized, pending, pendingActive, activeSlot, lruCounter, flashVars, peer,
                 phase, ghostVars>>

\* StoreKeys, when it has none.
Staged ==
  /\ UNCHANGED <<bonds, lock, pc, slot, then>>
  /\ pendingActive => pending'.keys = <<peer, gen[peer]>>
  /\ ~pendingActive => activeSlot = NoSlot

\* StoreKeys changes the keys of one bond, and the address.
LEMMA StoreKeysIn ==
  ASSUME TypeOK, OnLink, peer \in Peers,
         pairing \in {"begun", "ltk"}, pairing' \in {"ltk", "keyed"},
         UNCHANGED <<initialized, pendingActive, activeSlot, lruCounter, flashVars, peer, phase,
                     ghostVars>>,
         NEW a \in {NoPeer, peer}, StoreKeys(a)
  PROVE  \/ Rekeyed
         \/ Staged
<1> DEFINE new(b) ==
             [b EXCEPT !.keys = <<peer, gen[peer]>>, !.addr = IF a = NoPeer THEN @ ELSE a]
<1>1. ASSUME NEW b \in Bonds
      PROVE  /\ new(b).valid = b.valid /\ new(b).data = b.data /\ new(b).used = b.used
             /\ new(b).keys = <<peer, gen[peer]>> /\ new(b).addr \in {b.addr, peer}
  BY DEF Bonds
<1>2. \/ /\ ~pendingActive /\ activeSlot # NoSlot
         /\ bonds' = [bonds EXCEPT ![activeSlot] = new(@)]
         /\ lock' = TRUE /\ slot' = activeSlot /\ then' = "keys" /\ pc' = "wKeys"
         /\ UNCHANGED pending
      \/ pendingActive /\ pending' = new(pending) /\ UNCHANGED <<bonds, lock, pc, slot, then>>
      \/ ~pendingActive /\ activeSlot = NoSlot /\ UNCHANGED <<bonds, lock, pc, slot, then>>
  BY Zenon DEF StoreKeys, Goto
<1> HIDE DEF new
<1>3. pending \in Bonds /\ bonds \in [Slots -> Bonds]
      /\ (activeSlot # NoSlot => activeSlot \in Slots)
  BY DEF TypeOK
<1>4. ASSUME activeSlot \in Slots, bonds' = [bonds EXCEPT ![activeSlot] = new(@)]
      PROVE  /\ bonds'[activeSlot] = new(bonds[activeSlot])
             /\ \A s \in Slots \ {activeSlot} : bonds'[s] = bonds[s]
  BY <1>3, <1>4
<1> QED
  BY <1>1, <1>2, <1>3, <1>4 DEF Rekeyed, Staged

\* A write of a settings key changes one part of one slot.
LEMMA WrittenParts ==
  ASSUME TypeOK, slot \in Slots, NEW k
  PROVE  /\ Written(slot, k) \in [Slots -> Bonds]
         /\ \A s \in Slots \ {slot} : Written(slot, k)[s] = flash[s]
         /\ Written(slot, k)[slot].valid =
            IF k = "meta" THEN bonds[slot].valid ELSE flash[slot].valid
         /\ Written(slot, k)[slot].used =
            IF k = "meta" THEN bonds[slot].used ELSE flash[slot].used
         /\ Written(slot, k)[slot].keys =
            IF k = "keys" THEN bonds[slot].keys ELSE flash[slot].keys
         /\ Written(slot, k)[slot].data =
            IF k = "data" THEN bonds[slot].data ELSE flash[slot].data
         /\ Written(slot, k)[slot].addr =
            IF k = "addr" THEN bonds[slot].addr ELSE flash[slot].addr
BY WrittenType DEF Written, TypeOK

\* The writes before meta.
LEMMA KeyWriteParts ==
  ASSUME TypeOK, KeyWrite
  PROVE  /\ slot \in Slots /\ lock /\ pc \in Writes \ {"wMeta", "wDone"}
         /\ pc' \in Writes \ {"wKeys", "wDone"}
         /\ UNCHANGED <<ramVars, open, legacy, linkVars, slot, then, ghostVars>>
         /\ \A s \in Slots \ {slot} : flash'[s] = flash[s]
         /\ flash'[slot].valid = flash[slot].valid /\ flash'[slot].used = flash[slot].used
         /\ flash'[slot].keys \in {flash[slot].keys, bonds[slot].keys}
         /\ flash'[slot].data \in {flash[slot].data, bonds[slot].data}
         /\ flash'[slot].addr \in {flash[slot].addr, bonds[slot].addr}
<1>1. pc \in {"wKeys", "wData", "wAddr"} /\ pc' \in {"wData", "wAddr", "wMeta"}
  BY DEF KeyWrite, Write, At, Goto
<1>2. slot \in Slots /\ lock
  BY <1>1 DEF TypeOK
<1>3. flash' = Written(slot, KeyAt(pc)) /\ KeyAt(pc) # "meta"
  BY <1>1 DEF KeyWrite, Write, At, KeyAt
<1>4. UNCHANGED <<ramVars, open, legacy, linkVars, slot, then, ghostVars>>
  BY DEF KeyWrite, Write, ghostVars
<1> QED
  BY <1>1, <1>2, <1>3, <1>4, WrittenParts DEF Writes

\* Bonds with the same parts are the same.
LEMMA SameBond ==
  ASSUME NEW b \in Bonds, NEW c \in Bonds, b.valid = c.valid, b.keys = c.keys,
         b.data = c.data, b.addr = c.addr, b.used = c.used
  PROVE  b = c
BY DEF Bonds

\* Meta makes the slot in flash what it is in RAM.
LEMMA MetaParts ==
  ASSUME TypeOK, TypeOK', WriteMeta,
         flash[slot].keys = bonds[slot].keys, flash[slot].data = bonds[slot].data,
         flash[slot].addr = bonds[slot].addr
  PROVE  slot \in Slots /\ lock /\ flash'[slot] = bonds[slot]
         /\ \A s \in Slots \ {slot} : flash'[s] = flash[s]
<1>1. slot \in Slots /\ lock /\ flash' = Written(slot, "meta")
  BY DEF TypeOK, WriteMeta, At, KeyAt
<1>2. flash'[slot] \in Bonds /\ bonds[slot] \in Bonds
  BY <1>1, WrittenParts DEF TypeOK
<1> QED
  BY <1>1, <1>2, WrittenParts, SameBond

\* A slot that the boot loads is mirrored.
LEMMA LoadedMirrors ==
  ASSUME TypeOK, NEW s \in Slots, bonds'[s] = Loaded(s), flash' = flash
  PROVE  Mirrored(s)'
<1>1. flash[s].valid \in BOOLEAN
  BY DEF TypeOK, Bonds
<1>2. CASE flash[s].valid = TRUE
  BY <1>2 DEF Loaded, Mirrored
<1>3. CASE flash[s].valid = FALSE
  <2>1. bonds'[s] = Empty /\ Empty.valid = FALSE
    BY <1>3 DEF Loaded, Empty
  <2> QED
    BY <1>3, <2>1 DEF Mirrored
<1> QED
  BY <1>1, <1>2, <1>3

\* A touch.
LEMMA TouchParts ==
  ASSUME TypeOK, KnownConnected
  PROVE  /\ slot \in Slots /\ lruCounter' = lruCounter + 1 /\ flash' = flash
         /\ bonds'[slot].valid = bonds[slot].valid /\ bonds'[slot].keys = bonds[slot].keys
         /\ bonds'[slot].data = bonds[slot].data /\ bonds'[slot].addr = bonds[slot].addr
         /\ bonds'[slot].used = lruCounter + 1
         /\ \A s \in Slots \ {slot} : bonds'[s] = bonds[s]
BY DEF KnownConnected, TypeOK, Bonds, flashVars

\* A commit.
LEMMA CommitParts ==
  ASSUME TypeOK, Commit
  PROVE  /\ slot' \in Slots /\ lruCounter' = lruCounter + 1 /\ flash' = flash
         /\ bonds'[slot'].valid /\ bonds'[slot'].keys = pending.keys
         /\ bonds'[slot'].data = peer /\ bonds'[slot'].addr = pending.addr
         /\ bonds'[slot'].used = lruCounter + 1
         /\ \A s \in Slots \ {slot'} : bonds'[s] = bonds[s]
<1>1. slot' \in Slots /\ slot' = CommitSlot
  BY CommitSlotType DEF Commit, TypeOK
<1>2. bonds' = [bonds EXCEPT ![slot'] =
        [pending EXCEPT !.data = peer, !.used = lruCounter + 1, !.valid = TRUE]]
  BY DEF Commit
<1> QED
  BY <1>1, <1>2 DEF TypeOK, Bonds, Commit, flashVars

\* A bonded peer that paired again.
LEMMA RefreshParts ==
  ASSUME TypeOK, Refresh
  PROVE  /\ activeSlot \in Slots /\ flash' = flash
         /\ bonds'[activeSlot].valid = bonds[activeSlot].valid
         /\ bonds'[activeSlot].keys = bonds[activeSlot].keys
         /\ bonds'[activeSlot].addr = bonds[activeSlot].addr
         /\ bonds'[activeSlot].used = bonds[activeSlot].used
         /\ \A s \in Slots \ {activeSlot} : bonds'[s] = bonds[s]
BY DEF Refresh, TypeOK, Bonds, flashVars

\* A step keeps the tables and the account, or is one of these.
LEMMA Effects ==
  ASSUME TypeOK, PlaceInv, [Next]_vars
  PROVE  \/ TablesKept /\ Unpromised
         \/ TablesKept /\
              (KnownConfirmed \/ PairedStored \/ (\E p \in Peers : Forget(p)) \/ WarmReset)
         \/ KnownConnected \/ Rekeyed \/ Commit \/ Refresh \/ KeyWrite \/ WriteMeta
         \/ ColdBoot \/ DeleteAddr \/ ColdReset
         \/ Delete("wDone", "keys", NoKeys, "dData")
         \/ Delete("dData", "data", NoPeer, "dAddr")
<1> USE DEF PlaceInv, PeerInv, TablesKept, Unpromised, Up, Writes, Deletes, Goto, At,
  ramVars, flashVars, linkVars, ghostVars
<1>1. CASE \E p \in Peers : ConnectionReq(p)
  BY <1>1 DEF ConnectionReq, Idle
<1>2. CASE Resolved
  BY <1>2 DEF Resolved, Idle
<1>3. CASE Reject
  BY <1>3 DEF Reject, Closing
<1>4. CASE KnownConnected
  BY <1>4
<1>5. CASE KnownConfirmed
  BY <1>5 DEF KnownConfirmed, Confirmed
<1>6. CASE UnknownConnected
  BY <1>6 DEF UnknownConnected, Confirmed
<1>7. CASE Disconnect
  BY <1>7 DEF Disconnect, Idle
<1>8. CASE PairingReq
  BY <1>8 DEF PairingReq, OnLink, Idle
<1>9. CASE ProvideLtk
  <2>1. OnLink /\ peer \in Peers /\ initialized
    BY <1>9 DEF ProvideLtk, OnLink, Idle
  <2>2. Rekeyed \/ Staged
    BY <1>9, <2>1, StoreKeysIn DEF ProvideLtk
  <2> QED
    BY <1>9, <2>1, <2>2 DEF ProvideLtk, Staged
<1>10. CASE KeysReceived
  <2>1. OnLink /\ peer \in Peers /\ initialized
    BY <1>10 DEF KeysReceived, OnLink, Idle
  <2>2. Rekeyed \/ Staged
    BY <1>10, <2>1, StoreKeysIn DEF KeysReceived
  <2> QED
    BY <1>10, <2>1, <2>2 DEF KeysReceived, Staged
<1>11. CASE KeysStored
  BY <1>11 DEF KeysStored
<1>12. CASE Commit
  BY <1>12
<1>13. CASE Refresh
  BY <1>13
<1>14. CASE PairedStored
  BY <1>14 DEF PairedStored
<1>15. CASE PairedUnstored
  BY <1>15 DEF PairedUnstored, OnLink, Idle
<1>16. CASE PairFailed
  BY <1>16 DEF PairFailed, OnLink, Idle
<1>17. CASE EncryptFailed
  BY <1>17 DEF EncryptFailed, OnLink, Idle, Closing
<1>18. CASE \E p \in Peers : Forget(p)
  <2>1. TablesKept
    BY <1>18 DEF Forget
  <2> QED
    BY <1>18, <2>1
<1>19. CASE KeyWrite
  BY <1>19
<1>20. CASE WriteMeta
  BY <1>20
<1>21. CASE WarmBoot
  BY <1>21 DEF WarmBoot
<1>22. CASE ColdBoot
  BY <1>22
<1>23. CASE DeleteAddr
  BY <1>23
<1>24. CASE Delete("wDone", "keys", NoKeys, "dData")
  BY <1>24
<1>25. CASE Delete("dData", "data", NoPeer, "dAddr")
  BY <1>25
<1>26. CASE WindowOpen
  BY <1>26 DEF WindowOpen, Idle, Closing
<1>27. CASE WindowTimeout
  BY <1>27 DEF WindowTimeout
<1>28. CASE WarmReset
  BY <1>28 DEF WarmReset, Reset, Cut
<1>29. CASE ColdReset
  BY <1>29
<1>30. CASE UNCHANGED vars
  BY <1>30 DEF vars
<1> QED
  BY <1>1, <1>2, <1>3, <1>4, <1>5, <1>6, <1>7, <1>8, <1>9, <1>10, <1>11, <1>12, <1>13,
    <1>14, <1>15, <1>16, <1>17, <1>18, <1>19, <1>20, <1>21, <1>22, <1>23, <1>24, <1>25,
    <1>26, <1>27, <1>28, <1>29, <1>30 DEF Next, Connection, Pairing, Persist, Boot, KeyWrite

(***************************************************************************)
(* One lemma for each part of the account.                                 *)
(***************************************************************************)
\* There is no other bond until the old one is imported.
LEMMA ImportStep ==
  ASSUME IInv, ImportInv, [Next]_vars
  PROVE  ImportInv'
<1> USE DEF IInv, TypeOK, PlaceInv, ProgressInv, ImportInv, Writes, Deletes, Goto, At,
  ramVars, flashVars, linkVars, ghostVars
<1>1. CASE \E p \in Peers : ConnectionReq(p)
  BY <1>1 DEF ConnectionReq, Idle
<1>2. CASE Resolved
  BY <1>2 DEF Resolved, Idle
<1>3. CASE Reject
  BY <1>3 DEF Reject, Closing
<1>4. CASE KnownConnected
  BY <1>4 DEF KnownConnected
<1>5. CASE KnownConfirmed
  BY <1>5 DEF KnownConfirmed, Confirmed
<1>6. CASE UnknownConnected
  BY <1>6 DEF UnknownConnected, Confirmed
<1>7. CASE Disconnect
  BY <1>7 DEF Disconnect, Idle
<1>8. CASE PairingReq
  BY <1>8 DEF PairingReq, OnLink, Idle
<1>9. CASE ProvideLtk
  BY <1>9 DEF ProvideLtk, OnLink, Idle
<1>10. CASE KeysReceived
  BY <1>10 DEF KeysReceived, OnLink, Idle
<1>11. CASE KeysStored
  BY <1>11 DEF KeysStored
<1>12. CASE Commit
  BY <1>12 DEF Commit, OnLink, Idle
<1>13. CASE Refresh
  BY <1>13 DEF Refresh, OnLink, Idle
<1>14. CASE PairedStored
  BY <1>14 DEF PairedStored
<1>15. CASE PairedUnstored
  BY <1>15 DEF PairedUnstored, OnLink, Idle
<1>16. CASE PairFailed
  BY <1>16 DEF PairFailed, OnLink, Idle
<1>17. CASE EncryptFailed
  BY <1>17 DEF EncryptFailed, OnLink, Idle, Closing
<1>18. CASE \E p \in Peers : Forget(p)
  BY <1>18 DEF Forget
<1>19. CASE KeyWrite
  BY <1>19 DEF KeyWrite, Write, Written, KeyAt
<1>20. CASE WriteMeta
  BY <1>20 DEF WriteMeta, Written, KeyAt
<1>21. CASE WarmBoot
  BY <1>21 DEF WarmBoot
<1>22. CASE ColdBoot
  BY <1>22 DEF ColdBoot
<1>23. CASE DeleteAddr
  BY <1>23 DEF DeleteAddr
<1>24. CASE Delete("wDone", "keys", NoKeys, "dData")
  BY <1>24 DEF Delete
<1>25. CASE Delete("dData", "data", NoPeer, "dAddr")
  BY <1>25 DEF Delete
<1>26. CASE WindowOpen
  BY <1>26 DEF WindowOpen, Idle, Closing
<1>27. CASE WindowTimeout
  BY <1>27 DEF WindowTimeout
<1>28. CASE WarmReset
  BY <1>28 DEF WarmReset, Reset, Cut
<1>29. CASE ColdReset
  BY <1>29 DEF ColdReset, Reset, Cut
<1>30. CASE UNCHANGED vars
  BY <1>30 DEF vars
<1> QED
  BY <1>1, <1>2, <1>3, <1>4, <1>5, <1>6, <1>7, <1>8, <1>9, <1>10, <1>11, <1>12, <1>13,
    <1>14, <1>15, <1>16, <1>17, <1>18, <1>19, <1>20, <1>21, <1>22, <1>23, <1>24, <1>25,
    <1>26, <1>27, <1>28, <1>29, <1>30 DEF Next, Connection, Pairing, Persist, Boot, KeyWrite

\* The keys of a pairing go to one slot, and its peer has no promise.
LEMMA PairStep ==
  ASSUME IInv, TypeOK', PlaceInv', SlotInv', PairInv, [Next]_vars
  PROVE  PairInv'
<1> USE DEF TypeOK, PlaceInv, PeerInv, SlotInv, StagedInv, KeyedInv, PairInv, Writes,
  Deletes, Goto, At, ramVars, flashVars, linkVars, ghostVars
<1>1. TypeOK /\ PlaceInv /\ SlotInv /\ StagedInv /\ KeyedInv
  BY DEF IInv
<1>2. CASE \E p \in Peers : ConnectionReq(p)
  BY <1>1, <1>2 DEF ConnectionReq, Idle
<1>3. CASE Resolved
  BY <1>1, <1>3 DEF Resolved, Idle
<1>4. CASE Reject
  BY <1>1, <1>4 DEF Reject, Closing
<1>5. CASE KnownConnected
  BY <1>1, <1>5 DEF KnownConnected
<1>6. CASE KnownConfirmed
  BY <1>1, <1>6 DEF KnownConfirmed, Confirmed
<1>7. CASE UnknownConnected
  BY <1>1, <1>7 DEF UnknownConnected, Confirmed
<1>8. CASE Disconnect
  BY <1>1, <1>8 DEF Disconnect, Idle
<1>9. CASE PairingReq
  BY <1>1, <1>9 DEF PairingReq, OnLink, Idle
<1>10. CASE ProvideLtk
  <2>1. OnLink /\ peer \in Peers /\ initialized
    BY <1>1, <1>10 DEF ProvideLtk, OnLink, Idle
  <2>2. Rekeyed \/ Staged
    BY <1>1, <1>10, <2>1, StoreKeysIn DEF ProvideLtk
  <2> QED
    BY <1>1, <1>10, <2>1, <2>2 DEF ProvideLtk, Staged, Rekeyed
<1>11. CASE KeysReceived
  <2>1. OnLink /\ peer \in Peers /\ initialized
    BY <1>1, <1>11 DEF KeysReceived, OnLink, Idle
  <2>2. Rekeyed \/ Staged
    BY <1>1, <1>11, <2>1, StoreKeysIn DEF KeysReceived
  <2> QED
    BY <1>1, <1>11, <2>1, <2>2 DEF KeysReceived, Staged, Rekeyed
<1>12. CASE KeysStored
  BY <1>1, <1>12 DEF KeysStored
<1>13. CASE Commit
  BY <1>1, <1>13 DEF Commit, OnLink, Idle
<1>14. CASE Refresh
  BY <1>1, <1>14 DEF Refresh, OnLink, Idle
<1>15. CASE PairedStored
  BY <1>1, <1>15 DEF PairedStored
<1>16. CASE PairedUnstored
  BY <1>1, <1>16 DEF PairedUnstored, OnLink, Idle
<1>17. CASE PairFailed
  BY <1>1, <1>17 DEF PairFailed, OnLink, Idle
<1>18. CASE EncryptFailed
  BY <1>1, <1>18 DEF EncryptFailed, OnLink, Idle, Closing
<1>19. CASE \E p \in Peers : Forget(p)
  BY <1>1, <1>19 DEF Forget
<1>20. CASE KeyWrite
  BY <1>1, <1>20 DEF KeyWrite, Write
<1>21. CASE WriteMeta
  BY <1>21, <1>1 DEF WriteMeta, Whole
<1>22. CASE WarmBoot
  BY <1>1, <1>22 DEF WarmBoot
<1>23. CASE ColdBoot
  BY <1>1, <1>23 DEF ColdBoot
<1>24. CASE DeleteAddr
  BY <1>1, <1>24 DEF DeleteAddr
<1>25. CASE Delete("wDone", "keys", NoKeys, "dData")
  BY <1>1, <1>25 DEF Delete
<1>26. CASE Delete("dData", "data", NoPeer, "dAddr")
  BY <1>1, <1>26 DEF Delete
<1>27. CASE WindowOpen
  BY <1>1, <1>27 DEF WindowOpen, Idle, Closing
<1>28. CASE WindowTimeout
  BY <1>1, <1>28 DEF WindowTimeout
<1>29. CASE WarmReset
  BY <1>1, <1>29 DEF WarmReset, Reset, Cut
<1>30. CASE ColdReset
  BY <1>1, <1>30 DEF ColdReset, Reset, Cut
<1>31. CASE UNCHANGED vars
  BY <1>1, <1>31 DEF vars
<1> QED
  BY <1>2, <1>3, <1>4, <1>5, <1>6, <1>7, <1>8, <1>9, <1>10, <1>11, <1>12, <1>13, <1>14,
    <1>15, <1>16, <1>17, <1>18, <1>19, <1>20, <1>21, <1>22, <1>23, <1>24, <1>25, <1>26,
    <1>27, <1>28, <1>29, <1>30, <1>31 DEF Next, Connection, Pairing, Persist, Boot, KeyWrite

\* Flash mirrors RAM but in the slot being written.
LEMMA MirrorStep ==
  ASSUME IInv, TypeOK', PlaceInv', MirrorInv, ImportInv, [Next]_vars
  PROVE  MirrorInv'
<1> USE DEF TypeOK, PlaceInv, PeerInv, SlotInv, FoundInv, MirrorInv, Mirrored, Writes,
  Deletes, Goto, At, ramVars, flashVars, linkVars, ghostVars
<1>1. TypeOK /\ PlaceInv /\ SlotInv /\ ProgressInv /\ FoundInv
  BY DEF IInv
<1>2. CASE \E p \in Peers : ConnectionReq(p)
  BY <1>1, <1>2 DEF ConnectionReq, Idle
<1>3. CASE Resolved
  BY <1>1, <1>3 DEF Resolved, Idle
<1>4. CASE Reject
  BY <1>1, <1>4 DEF Reject, Closing
<1>5. CASE KnownConnected
  BY <1>1, <1>5 DEF KnownConnected
<1>6. CASE KnownConfirmed
  BY <1>1, <1>6 DEF KnownConfirmed, Confirmed
<1>7. CASE UnknownConnected
  BY <1>1, <1>7 DEF UnknownConnected, Confirmed
<1>8. CASE Disconnect
  BY <1>1, <1>8 DEF Disconnect, Idle
<1>9. CASE PairingReq
  BY <1>1, <1>9 DEF PairingReq, OnLink, Idle
<1>10. CASE ProvideLtk
  <2>1. OnLink /\ peer \in Peers /\ initialized
    BY <1>1, <1>10 DEF ProvideLtk, OnLink, Idle
  <2>2. Rekeyed \/ Staged
    BY <1>1, <1>10, <2>1, StoreKeysIn DEF ProvideLtk
  <2>3. CASE Rekeyed
    <3>1. ~lock /\ \A s \in Slots : Mirrored(s)
      BY <1>1, <2>1 DEF OnLink, Idle
    <3>2. \A s \in Slots \ {activeSlot} : Mirrored(s)'
      BY <3>1, <2>3 DEF Rekeyed
    <3> HIDE DEF Mirrored
    <3> QED
      BY <3>2, <2>3 DEF Rekeyed
  <2>4. CASE Staged
    BY <1>1, <1>10, <2>1, <2>4 DEF ProvideLtk, Staged
  <2> QED
    BY <2>2, <2>3, <2>4
<1>11. CASE KeysReceived
  <2>1. OnLink /\ peer \in Peers /\ initialized
    BY <1>1, <1>11 DEF KeysReceived, OnLink, Idle
  <2>2. Rekeyed \/ Staged
    BY <1>1, <1>11, <2>1, StoreKeysIn DEF KeysReceived
  <2>3. CASE Rekeyed
    <3>1. ~lock /\ \A s \in Slots : Mirrored(s)
      BY <1>1, <2>1 DEF OnLink, Idle
    <3>2. \A s \in Slots \ {activeSlot} : Mirrored(s)'
      BY <3>1, <2>3 DEF Rekeyed
    <3> HIDE DEF Mirrored
    <3> QED
      BY <3>2, <2>3 DEF Rekeyed
  <2>4. CASE Staged
    BY <1>1, <1>11, <2>1, <2>4 DEF KeysReceived, Staged
  <2> QED
    BY <2>2, <2>3, <2>4
<1>12. CASE KeysStored
  BY <1>1, <1>12 DEF KeysStored
<1>13. CASE Commit
  BY <1>1, <1>13 DEF Commit, OnLink, Idle
<1>14. CASE Refresh
  BY <1>1, <1>14 DEF Refresh, OnLink, Idle
<1>15. CASE PairedStored
  BY <1>1, <1>15 DEF PairedStored
<1>16. CASE PairedUnstored
  BY <1>1, <1>16 DEF PairedUnstored, OnLink, Idle
<1>17. CASE PairFailed
  BY <1>1, <1>17 DEF PairFailed, OnLink, Idle
<1>18. CASE EncryptFailed
  BY <1>1, <1>18 DEF EncryptFailed, OnLink, Idle, Closing
<1>19. CASE \E p \in Peers : Forget(p)
  BY <1>1, <1>19 DEF Forget
<1>20. CASE KeyWrite
  BY <1>20, <1>1, KeyWriteParts
<1>21. CASE WriteMeta
  <2>1. /\ flash[slot].keys = bonds[slot].keys /\ flash[slot].data = bonds[slot].data
        /\ flash[slot].addr = bonds[slot].addr
    BY <1>1, <1>21 DEF WriteMeta, ProgressInv
  <2>2. flash'[slot] = bonds[slot] /\ \A s \in Slots \ {slot} : flash'[s] = flash[s]
    BY <1>1, <1>21, <2>1, MetaParts
  <2> QED
    BY <1>1, <1>21, <2>2 DEF WriteMeta
<1>22. CASE WarmBoot
  BY <1>1, <1>22 DEF WarmBoot
<1>23. CASE ColdBoot
  <2>1. \A s \in Slots : s # 0 \/ ~Imports => bonds'[s] = Loaded(s)
    BY <1>23 DEF ColdBoot
  <2>2. flash' = flash
    BY <1>23 DEF ColdBoot
  <2>3. \A s \in Slots : s # 0 \/ ~Imports => Mirrored(s)'
    BY <1>1, <2>1, <2>2, LoadedMirrors
  <2> HIDE DEF Mirrored
  <2> QED
    BY <1>1, <1>23, <2>3 DEF ColdBoot, Imports
<1>24. CASE DeleteAddr
  BY <1>1, <1>24 DEF DeleteAddr
<1>25. CASE Delete("wDone", "keys", NoKeys, "dData")
  BY <1>1, <1>25 DEF Delete
<1>26. CASE Delete("dData", "data", NoPeer, "dAddr")
  BY <1>1, <1>26 DEF Delete
<1>27. CASE WindowOpen
  BY <1>1, <1>27 DEF WindowOpen, Idle, Closing
<1>28. CASE WindowTimeout
  BY <1>1, <1>28 DEF WindowTimeout
<1>29. CASE WarmReset
  BY <1>1, <1>29 DEF WarmReset, Reset, Cut
<1>30. CASE ColdReset
  BY <1>1, <1>30 DEF ColdReset, Reset, Cut
<1>31. CASE UNCHANGED vars
  BY <1>1, <1>31 DEF vars
<1> QED
  BY <1>2, <1>3, <1>4, <1>5, <1>6, <1>7, <1>8, <1>9, <1>10, <1>11, <1>12, <1>13, <1>14,
    <1>15, <1>16, <1>17, <1>18, <1>19, <1>20, <1>21, <1>22, <1>23, <1>24, <1>25, <1>26,
    <1>27, <1>28, <1>29, <1>30, <1>31 DEF Next, Connection, Pairing, Persist, Boot, KeyWrite

\* The LRU counter stays the highest sequence number.
LEMMA UseStep ==
  ASSUME IInv, TypeOK', UseInv, [Next]_vars
  PROVE  UseInv'
<1> USE DEF UseInv, Goto, At, ramVars, flashVars, linkVars, ghostVars
<1>1. TypeOK /\ TypeOK' /\ PlaceInv /\ lruCounter \in Nat /\ lruCounter' \in Nat
  BY DEF IInv, TypeOK
<1>2. \A s \in Slots : /\ bonds[s].used \in Nat /\ flash[s].used \in Nat
                     /\ bonds'[s].used \in Nat /\ flash'[s].used \in Nat
  BY DEF IInv, TypeOK, Bonds
<1>3. CASE TablesKept
  BY <1>3 DEF TablesKept
<1>4. CASE KnownConnected
  <2>1. Up /\ slot \in Slots
    BY <1>1, <1>4 DEF KnownConnected, Up, PlaceInv, TypeOK
  <2> QED
    BY <1>1, <1>2, <1>4, <2>1, TouchParts
<1>5. CASE Rekeyed
  <2>1. Up
    BY <1>5 DEF Rekeyed, OnLink, Idle, Up
  <2> QED
    BY <1>1, <1>2, <1>5, <2>1 DEF Rekeyed
<1>6. CASE Commit
  <2>1. Up
    BY <1>6 DEF Commit, OnLink, Idle, Up
  <2> QED
    BY <1>1, <1>2, <1>6, <2>1, CommitParts
<1>7. CASE Refresh
  <2>1. Up /\ lruCounter' = lruCounter
    BY <1>7 DEF Refresh, OnLink, Idle, Up
  <2>2. \A s \in Slots : bonds'[s].used = bonds[s].used
    BY <1>1, <1>7, RefreshParts
  <2> QED
    BY <1>1, <1>2, <1>7, <2>1, <2>2, RefreshParts
<1>8. CASE KeyWrite
  <2>1. Up
    BY <1>1, <1>8, KeyWriteParts DEF Up, Writes
  <2> QED
    BY <1>1, <1>2, <1>8, <2>1, KeyWriteParts
<1>9. CASE WriteMeta
  <2>1. Up /\ slot \in Slots
    BY <1>1, <1>9 DEF WriteMeta, Up, TypeOK, Writes
  <2>2. /\ flash'[slot].used = bonds[slot].used
        /\ \A s \in Slots \ {slot} : flash'[s] = flash[s]
        /\ UNCHANGED <<bonds, lruCounter>>
    BY <1>1, <1>9, <2>1, WrittenParts DEF WriteMeta, KeyAt
  <2> QED
    BY <1>1, <1>2, <2>1, <2>2
<1>10. CASE ColdBoot
  <2>1. HighestUse \in Nat /\ \A s \in Slots : Loaded(s).used <= HighestUse
    BY <1>1, HighestUseNat
  <2>2. HighestUse <= lruCounter' /\ (Imports => lruCounter' = HighestUse + 1)
    BY <1>10, <2>1 DEF ColdBoot
  <2>3. ASSUME NEW s \in Slots
        PROVE  /\ bonds'[s].used <= lruCounter'
               /\ flash'[s].valid => flash'[s].used <= lruCounter'
    <3>1. flash'[s] = flash[s] /\ (flash[s].valid => Loaded(s) = flash[s])
      BY <1>10 DEF ColdBoot, Loaded
    <3>2. CASE s = 0 /\ Imports
      <4>1. bonds'[s] = Import(HighestUse + 1)
        BY <1>10, <3>2 DEF ColdBoot
      <4>2. bonds'[s].used = HighestUse + 1
        BY <4>1 DEF Import
      <4> QED
        BY <1>1, <1>2, <2>1, <2>2, <3>1, <3>2, <4>2
    <3>3. CASE ~ (s = 0 /\ Imports)
      <4>1. bonds'[s] = Loaded(s)
        BY <1>10, <3>3 DEF ColdBoot
      <4> QED
        BY <1>1, <1>2, <2>1, <2>2, <3>1, <4>1
    <3> QED
      BY <3>2, <3>3
  <2> QED
    BY <2>3
<1>11. CASE DeleteAddr
  <2>1. Up /\ UNCHANGED <<bonds, flash, lruCounter>>
    BY <1>11 DEF DeleteAddr, Up, Deletes
  <2> QED
    BY <2>1
<1>12. CASE ColdReset
  BY <1>12 DEF ColdReset, Reset, Up, Writes, Deletes
<1>13. CASE Delete("wDone", "keys", NoKeys, "dData")
  BY <1>13 DEF Delete, Up, Writes, Deletes
<1>14. CASE Delete("dData", "data", NoPeer, "dAddr")
  BY <1>14 DEF Delete, Up, Writes, Deletes
<1> QED
  BY <1>3, <1>4, <1>5, <1>6, <1>7, <1>8, <1>9, <1>10, <1>11, <1>12, <1>13, <1>14, <1>1,
    Effects

\* A write of a slot makes it found for no peer it was not found for, in flash or in RAM.
LEMMA WriteMatches ==
  ASSUME IInv, TypeOK', KeyWrite \/ WriteMeta, MirrorInv, NEW p \in Peers,
         flash'[slot].valid, Matches(flash'[slot], p)
  PROVE  \/ flash[slot].valid /\ Matches(flash[slot], p)
         \/ bonds[slot].valid /\ Matches(bonds[slot], p)
<1>1. TypeOK /\ PlaceInv /\ SlotInv /\ ProgressInv
  BY DEF IInv
<1>2. pc \in Writes => bonds[slot].valid \/ then = "boot"
  BY <1>1 DEF SlotInv, PlaceInv
<1>3. CASE KeyWrite
  BY <1>1, <1>2, <1>3, KeyWriteParts DEF Matches, ProgressInv, Replacing, PlaceInv
<1>4. CASE WriteMeta
  <2>1. flash'[slot] = bonds[slot]
    BY <1>1, <1>4, MetaParts DEF WriteMeta, MirrorInv, ProgressInv, At, Writes
  <2> QED
    BY <2>1
<1> QED
  BY <1>3, <1>4

\* No two slots come to be found for one peer.
LEMMA TableMatchStep ==
  ASSUME IInv, TypeOK', MirrorInv, ImportInv, MatchInv, ActiveInv, [Next]_vars
  PROVE  Unique(flash)' /\ (Up' => Unique(bonds)')
<1> USE DEF MatchInv, Unique
<1>1. TypeOK /\ TypeOK' /\ PlaceInv /\ PeerInv /\ SlotInv
  BY DEF IInv, PlaceInv
<1>2. CASE TablesKept
  BY <1>2 DEF TablesKept
<1>3. CASE KnownConnected
  <2>1. Up
    BY <1>1, <1>3 DEF KnownConnected, Up, PlaceInv, At
  <2>2. \A s \in Slots, p \in Peers :
          bonds'[s].valid = bonds[s].valid /\ Matches(bonds'[s], p) = Matches(bonds[s], p)
    BY <1>1, <1>3, TouchParts DEF Matches
  <2> QED
    BY <1>1, <1>3, <2>1, <2>2, TouchParts
<1>4. CASE Rekeyed
  <2>1. Up /\ initialized /\ peer \in Peers /\ flash' = flash
          /\ OnlyIn(bonds, activeSlot, peer)
    BY <1>1, <1>4, SlotsNat DEF Rekeyed, OnLink, Idle, Up, PeerInv, ActiveInv, flashVars
  <2>2. \A p \in Peers :
          Matches(bonds'[activeSlot], p) => p = peer \/ Matches(bonds[activeSlot], p)
    BY <1>4 DEF Rekeyed, Matches
  <2>3. \A s \in Slots \ {activeSlot} : bonds'[s] = bonds[s]
    BY <1>4 DEF Rekeyed
  <2>4. bonds'[activeSlot].valid = bonds[activeSlot].valid
    BY <1>4 DEF Rekeyed
  <2> QED
    BY <2>1, <2>2, <2>3, <2>4 DEF OnlyIn
<1>5. CASE Commit
  <2>1. Up /\ initialized /\ peer \in Peers /\ OnlyIn(bonds, NoSlot, peer)
    BY <1>1, <1>5 DEF Commit, OnLink, Idle, Up, PeerInv
  <2>2. pending.keys[1] = peer /\ pending.addr = peer
    BY <1>5, <2>1 DEF IInv, StagedInv, Commit
  <2>3. \A p \in Peers : Matches(bonds'[slot'], p) => p = peer
    BY <1>1, <1>5, <2>2, CommitParts DEF Matches
  <2> QED
    BY <1>1, <1>5, <2>1, <2>3, CommitParts, SlotsNat DEF OnlyIn
<1>6. CASE Refresh
  <2>1. Up
    BY <1>6 DEF Refresh, OnLink, Idle, Up
  <2>2. \A s \in Slots, p \in Peers :
          bonds'[s].valid = bonds[s].valid /\ Matches(bonds'[s], p) = Matches(bonds[s], p)
    BY <1>1, <1>6, RefreshParts DEF Matches
  <2> QED
    BY <1>1, <1>6, <2>1, <2>2, RefreshParts
<1>7. CASE KeyWrite
  <2>1. Up /\ bonds' = bonds /\ slot \in Slots
          /\ \A s \in Slots \ {slot} : flash'[s] = flash[s]
    BY <1>1, <1>7, KeyWriteParts DEF Up, Writes, ramVars
  <2>2. \A s \in Slots \ {slot} : Mirrored(s)
    BY <1>1, <1>7, KeyWriteParts DEF MirrorInv, Writes
  <2>3. \A p \in Peers : flash'[slot].valid /\ Matches(flash'[slot], p) =>
          \/ flash[slot].valid /\ Matches(flash[slot], p)
          \/ bonds[slot].valid /\ Matches(bonds[slot], p)
    BY <1>1, <1>7, WriteMatches
  <2> QED
    BY <2>1, <2>2, <2>3 DEF Mirrored
<1>8. CASE WriteMeta
  <2>1. Up /\ bonds' = bonds /\ slot \in Slots
          /\ \A s \in Slots \ {slot} : flash'[s] = flash[s]
    BY <1>1, <1>8, WrittenParts DEF WriteMeta, KeyAt, Up, Writes, ramVars, At, TypeOK
  <2>2. \A s \in Slots \ {slot} : Mirrored(s)
    BY <1>8 DEF WriteMeta, At, MirrorInv, Writes
  <2>3. \A p \in Peers : flash'[slot].valid /\ Matches(flash'[slot], p) =>
          \/ flash[slot].valid /\ Matches(flash[slot], p)
          \/ bonds[slot].valid /\ Matches(bonds[slot], p)
    BY <1>1, <1>8, WriteMatches
  <2> QED
    BY <2>1, <2>2, <2>3 DEF Mirrored
<1>9. CASE ColdBoot
  <2>1. flash' = flash
    BY <1>9 DEF ColdBoot, flashVars
  <2>2. CASE Imports
    <3>1. \A s \in Slots \ {0} : ~bonds'[s].valid
      BY <1>9, <2>2 DEF ColdBoot, Imports, ImportInv, Loaded, Empty
    <3> QED
      BY <2>1, <3>1
  <2>3. CASE ~Imports
    <3>1. \A s \in Slots : bonds'[s].valid => flash[s].valid /\ bonds'[s] = flash[s]
      BY <1>9, <2>3 DEF ColdBoot, Loaded, Empty
    <3> QED
      BY <2>1, <3>1
  <2> QED
    BY <2>2, <2>3
<1>10. CASE DeleteAddr
  <2>1. Up /\ UNCHANGED <<bonds, flash>>
    BY <1>10 DEF DeleteAddr, Up, Deletes, At
  <2> QED
    BY <2>1
<1>11. CASE ColdReset
  BY <1>11 DEF ColdReset, Reset, Up, Writes, Deletes, Goto, flashVars
<1>12. CASE Delete("wDone", "keys", NoKeys, "dData")
  BY <1>12 DEF Delete, Up, Writes, Deletes, At, Goto, ramVars
<1>13. CASE Delete("dData", "data", NoPeer, "dAddr")
  BY <1>13 DEF Delete, Up, Writes, Deletes, At, Goto, ramVars
<1> QED
  BY <1>2, <1>3, <1>4, <1>5, <1>6, <1>7, <1>8, <1>9, <1>10, <1>11, <1>12, <1>13, <1>1,
    Effects

\* halo_ble_sec_on_connection finds the only slot there is for the peer, by address or by IRK.
LEMMA AddrFindsOnly ==
  ASSUME TypeOK, Unique(bonds), NEW p \in Peers,
         SlotByAddr(p) # NoSlot \/ ~ (p \in Private /\ \E s \in Used : bonds[s].keys # NoKeys)
  PROVE  OnlyIn(bonds, SlotByAddr(p), p)
<1> DEFINE S == {s \in Used : p \notin Private /\ bonds[s].addr = p}
<1>1. S \in SUBSET Slots /\ p # NoPeer
  BY SecurityAssumption DEF Used, SecurityAssumption
<1>2. CASE S # {}
  <2>1. SlotByAddr(p) \in S
    BY <1>1, <1>2, FirstFound DEF SlotByAddr
  <2> QED
    BY <2>1 DEF OnlyIn, Unique, Matches, Used
<1>3. CASE S = {}
  <2>1. SlotByAddr(p) = NoSlot
    BY <1>3, FirstFound DEF SlotByAddr
  <2>2. \A s \in Used : bonds[s].keys = NoKeys \/ p \notin Private
    BY <2>1
  <2> QED
    BY <1>1, <1>3, <2>2 DEF OnlyIn, Matches, Used, NoKeys
<1> QED
  BY <1>2, <1>3

LEMMA IrkFindsOnly ==
  ASSUME TypeOK, Unique(bonds), NEW p \in Peers, p \in Private
  PROVE  OnlyIn(bonds, SlotByIrk(p), p)
<1> DEFINE S == {s \in Used : bonds[s].keys[1] = p}
<1>1. S \in SUBSET Slots
  BY DEF Used
<1>2. CASE S # {}
  <2>1. SlotByIrk(p) \in S
    BY <1>1, <1>2, FirstFound DEF SlotByIrk
  <2> QED
    BY <2>1 DEF OnlyIn, Unique, Matches, Used
<1>3. CASE S = {}
  BY <1>3 DEF OnlyIn, Matches, Used
<1> QED
  BY <1>2, <1>3

\* The slot that a connection finds is the only one for its peer.
LEMMA LookupStep ==
  ASSUME IInv, TypeOK', PlaceInv', MatchInv, Unique(flash)' /\ (Up' => Unique(bonds)'),
         [Next]_vars
  PROVE  MatchInv'
<1> USE DEF TypeOK, PlaceInv, PeerInv, MatchInv, OnlyIn, Writes, Deletes, Goto, At, ramVars,
  flashVars, linkVars, ghostVars
<1>1. TypeOK /\ PlaceInv /\ (initialized => Up) /\ NoPeer \notin Peers
  BY SecurityAssumption DEF IInv, Up, SecurityAssumption
<1>2. CASE \E p \in Peers : ConnectionReq(p)
  <2>1. PICK p \in Peers : ConnectionReq(p)
    BY <1>2
  <2>2. initialized /\ Unique(bonds) /\ bonds' = bonds
    BY <1>1, <2>1 DEF ConnectionReq, Idle
  <2>3. pc' = "dispatch" =>
          /\ slot' = SlotByAddr(p)
          /\ slot' # NoSlot \/ ~ (p \in Private /\ \E s \in Used : bonds[s].keys # NoKeys)
    BY <2>1 DEF ConnectionReq
  <2>4. pc' = "dispatch" => OnlyIn(bonds, slot', p)
    BY <1>1, <2>2, <2>3, AddrFindsOnly
  <2>5. peer' = p /\ ~pendingActive' /\ (resolving' => p \in Private)
    BY <2>1 DEF ConnectionReq
  <2> QED
    BY <2>2, <2>4, <2>5
<1>3. CASE Resolved
  <2>1. initialized /\ Unique(bonds) /\ peer \in Private /\ peer \in Peers
    BY <1>1, <1>3 DEF Resolved, Idle
  <2>2. OnlyIn(bonds, SlotByIrk(peer), peer)
    BY <1>1, <2>1, IrkFindsOnly
  <2> QED
    BY <1>1, <1>3, <2>2 DEF Resolved, Idle
<1>4. CASE Reject
  BY <1>1, <1>4 DEF Reject, Closing
<1>5. CASE KnownConnected
  BY <1>5, <1>1, TouchParts DEF KnownConnected, Matches
<1>6. CASE KnownConfirmed
  BY <1>1, <1>6 DEF KnownConfirmed, Confirmed
<1>7. CASE UnknownConnected
  BY <1>1, <1>7 DEF UnknownConnected, Confirmed
<1>8. CASE Disconnect
  BY <1>1, <1>8 DEF Disconnect, Idle
<1>9. CASE PairingReq
  BY <1>1, <1>9 DEF PairingReq, OnLink, Idle
<1>10. CASE ProvideLtk
  <2>1. OnLink /\ peer \in Peers /\ initialized
    BY <1>1, <1>10 DEF ProvideLtk, OnLink, Idle
  <2>2. Rekeyed \/ Staged
    BY <1>1, <1>10, <2>1, StoreKeysIn DEF ProvideLtk
  <2> QED
    BY <1>1, <1>10, <2>1, <2>2 DEF ProvideLtk, Staged, Rekeyed
<1>11. CASE KeysReceived
  <2>1. OnLink /\ peer \in Peers /\ initialized
    BY <1>1, <1>11 DEF KeysReceived, OnLink, Idle
  <2>2. Rekeyed \/ Staged
    BY <1>1, <1>11, <2>1, StoreKeysIn DEF KeysReceived
  <2> QED
    BY <1>1, <1>11, <2>1, <2>2 DEF KeysReceived, Staged, Rekeyed
<1>12. CASE KeysStored
  BY <1>1, <1>12 DEF KeysStored
<1>13. CASE Commit
  BY <1>1, <1>13 DEF Commit, OnLink, Idle
<1>14. CASE Refresh
  BY <1>1, <1>14 DEF Refresh, OnLink, Idle
<1>15. CASE PairedStored
  BY <1>1, <1>15 DEF PairedStored
<1>16. CASE PairedUnstored
  BY <1>1, <1>16 DEF PairedUnstored, OnLink, Idle
<1>17. CASE PairFailed
  BY <1>1, <1>17 DEF PairFailed, OnLink, Idle
<1>18. CASE EncryptFailed
  BY <1>1, <1>18 DEF EncryptFailed, OnLink, Idle, Closing
<1>19. CASE \E p \in Peers : Forget(p)
  BY <1>1, <1>19 DEF Forget
<1>20. CASE KeyWrite
  BY <1>20, <1>1, KeyWriteParts
<1>21. CASE WriteMeta
  BY <1>1, <1>21 DEF WriteMeta
<1>22. CASE WarmBoot
  BY <1>1, <1>22 DEF WarmBoot
<1>23. CASE ColdBoot
  BY <1>1, <1>23 DEF ColdBoot
<1>24. CASE DeleteAddr
  BY <1>1, <1>24 DEF DeleteAddr
<1>25. CASE Delete("wDone", "keys", NoKeys, "dData")
  BY <1>1, <1>25 DEF Delete
<1>26. CASE Delete("dData", "data", NoPeer, "dAddr")
  BY <1>1, <1>26 DEF Delete
<1>27. CASE WindowOpen
  BY <1>1, <1>27 DEF WindowOpen, Idle, Closing
<1>28. CASE WindowTimeout
  BY <1>1, <1>28 DEF WindowTimeout
<1>29. CASE WarmReset
  BY <1>1, <1>29 DEF WarmReset, Reset, Cut
<1>30. CASE ColdReset
  BY <1>1, <1>30 DEF ColdReset, Reset, Cut
<1>31. CASE UNCHANGED vars
  BY <1>1, <1>31 DEF vars
<1> QED
  BY <1>2, <1>3, <1>4, <1>5, <1>6, <1>7, <1>8, <1>9, <1>10, <1>11, <1>12, <1>13, <1>14,
    <1>15, <1>16, <1>17, <1>18, <1>19, <1>20, <1>21, <1>22, <1>23, <1>24, <1>25, <1>26,
    <1>27, <1>28, <1>29, <1>30, <1>31 DEF Next, Connection, Pairing, Persist, Boot, KeyWrite

\* The slot of the link stays the one used last, and the only one for its peer.
LEMMA ActiveStep ==
  ASSUME IInv, TypeOK', PlaceInv', SlotInv', MirrorInv, UseInv, MatchInv, ActiveInv,
         [Next]_vars
  PROVE  ActiveInv'
<1> USE DEF TypeOK, PlaceInv, PeerInv, ActiveInv, Writes, Deletes, Goto, At, ramVars,
  flashVars, linkVars, ghostVars
<1>1. TypeOK /\ PlaceInv /\ SlotInv /\ NoPeer \notin Peers
  BY SecurityAssumption DEF IInv, SecurityAssumption
<1>2. CASE \E p \in Peers : ConnectionReq(p)
  BY <1>1, <1>2 DEF ConnectionReq, Idle
<1>3. CASE Resolved
  BY <1>1, <1>3 DEF Resolved, Idle
<1>4. CASE Reject
  BY <1>1, <1>4 DEF Reject, Closing
<1>5. CASE KnownConnected
  <2>1. /\ slot \in Slots /\ activeSlot' = slot /\ peer' = peer /\ latest' = NoPeer
        /\ then' = "cfm"
        /\ initialized /\ ~lock /\ OnlyIn(bonds, slot, peer)
    BY <1>1, <1>5, TouchParts DEF KnownConnected, MirrorInv, MatchInv
  <2>2. \A s \in Slots : Mirrored(s) /\ bonds[s].used <= lruCounter
    BY <2>1 DEF MirrorInv, UseInv, Up
  <2>3. \A s \in Slots : bonds[s].used \in Nat /\ lruCounter \in Nat
    BY <1>1 DEF Bonds
  <2> QED
    BY <1>1, <1>5, <2>1, <2>2, <2>3, TouchParts DEF Mirrored, OnlyIn, Newest
<1>6. CASE KnownConfirmed
  BY <1>1, <1>6 DEF KnownConfirmed, Confirmed
<1>7. CASE UnknownConnected
  BY <1>1, <1>7 DEF UnknownConnected, Confirmed
<1>8. CASE Disconnect
  BY <1>1, <1>8 DEF Disconnect, Idle
<1>9. CASE PairingReq
  BY <1>1, <1>9 DEF PairingReq, OnLink, Idle
<1>10. CASE ProvideLtk
  <2>1. OnLink /\ peer \in Peers /\ initialized
    BY <1>1, <1>10 DEF ProvideLtk, OnLink, Idle
  <2>2. Rekeyed \/ Staged
    BY <1>1, <1>10, <2>1, StoreKeysIn DEF ProvideLtk
  <2> QED
    BY <1>1, <1>10, <2>1, <2>2 DEF ProvideLtk, Staged, Rekeyed, OnlyIn, Newest, Matches
<1>11. CASE KeysReceived
  <2>1. OnLink /\ peer \in Peers /\ initialized
    BY <1>1, <1>11 DEF KeysReceived, OnLink, Idle
  <2>2. Rekeyed \/ Staged
    BY <1>1, <1>11, <2>1, StoreKeysIn DEF KeysReceived
  <2> QED
    BY <1>1, <1>11, <2>1, <2>2 DEF KeysReceived, Staged, Rekeyed, OnlyIn, Newest, Matches
<1>12. CASE KeysStored
  BY <1>1, <1>12 DEF KeysStored
<1>13. CASE Commit
  <2>1. /\ activeSlot' = slot' /\ peer' = peer /\ latest' = NoPeer
        /\ initialized /\ ~lock /\ peer \in Peers /\ OnlyIn(bonds, NoSlot, peer)
    BY <1>1, <1>13 DEF Commit, OnLink, Idle, MirrorInv, MatchInv
  <2>2. \A s \in Slots : Mirrored(s) /\ bonds[s].used <= lruCounter
    BY <2>1 DEF MirrorInv, UseInv, Up
  <2>3. \A s \in Slots : bonds[s].used \in Nat /\ lruCounter \in Nat
    BY <1>1 DEF Bonds
  <2>4. OnlyIn(bonds', slot', peer) /\ OnlyIn(flash', slot', peer) /\ Newest(bonds', slot')
    BY <1>1, <1>13, <2>1, <2>2, <2>3, CommitParts, SlotsNat DEF Mirrored, OnlyIn, Newest
  <2>5. \A s \in Slots \ {slot'} : flash'[s].valid => flash'[s].used < bonds'[slot'].used
    BY <1>1, <1>13, <2>2, <2>3, CommitParts DEF Mirrored
  <2> QED
    BY <2>1, <2>4, <2>5 DEF OnlyIn, Newest
<1>14. CASE Refresh
  <2>1. /\ initialized /\ peer \in Peers /\ activeSlot # NoSlot /\ then' = "paired"
        /\ UNCHANGED <<activeSlot, peer, latest>>
    BY <1>1, <1>14 DEF Refresh, OnLink, Idle
  <2> QED
    BY <1>1, <1>14, <2>1, RefreshParts DEF OnlyIn, Newest
<1>15. CASE PairedStored
  BY <1>1, <1>15 DEF PairedStored
<1>16. CASE PairedUnstored
  BY <1>1, <1>16 DEF PairedUnstored, OnLink, Idle
<1>17. CASE PairFailed
  BY <1>1, <1>17 DEF PairFailed, OnLink, Idle
<1>18. CASE EncryptFailed
  BY <1>1, <1>18 DEF EncryptFailed, OnLink, Idle, Closing
<1>19. CASE \E p \in Peers : Forget(p)
  BY <1>1, <1>19 DEF Forget
<1>20. CASE KeyWrite
  <2>1. UNCHANGED <<initialized, bonds, activeSlot, peer, latest, then>>
    BY <1>1, <1>20, KeyWriteParts
  <2>2. initialized => slot = activeSlot
    BY <1>1, <1>20, KeyWriteParts DEF SlotInv
  <2>3. pc \in Writes
    BY <1>1, <1>20, KeyWriteParts
  <2> QED
    BY <1>1, <1>20, <2>1, <2>2, <2>3, KeyWriteParts DEF OnlyIn, Newest
<1>21. CASE WriteMeta
  <2>1. UNCHANGED <<initialized, bonds, activeSlot, peer, latest, then>> /\ pc \in Writes
    BY <1>21 DEF WriteMeta
  <2>2. slot \in Slots /\ (initialized => slot = activeSlot)
    BY <1>1, <2>1 DEF SlotInv
  <2>3. \A s \in Slots \ {slot} : flash'[s] = flash[s]
    BY <1>1, <1>21, <2>2, WrittenParts DEF WriteMeta, KeyAt
  <2> QED
    BY <1>1, <2>1, <2>2, <2>3 DEF OnlyIn, Newest
<1>22. CASE WarmBoot
  BY <1>1, <1>22 DEF WarmBoot
<1>23. CASE ColdBoot
  BY <1>1, <1>23 DEF ColdBoot
<1>24. CASE DeleteAddr
  BY <1>1, <1>24 DEF DeleteAddr
<1>25. CASE Delete("wDone", "keys", NoKeys, "dData")
  BY <1>1, <1>25 DEF Delete
<1>26. CASE Delete("dData", "data", NoPeer, "dAddr")
  BY <1>1, <1>26 DEF Delete
<1>27. CASE WindowOpen
  BY <1>1, <1>27 DEF WindowOpen, Idle, Closing
<1>28. CASE WindowTimeout
  BY <1>1, <1>28 DEF WindowTimeout
<1>29. CASE WarmReset
  BY <1>1, <1>29 DEF WarmReset, Reset, Cut
<1>30. CASE ColdReset
  BY <1>1, <1>30 DEF ColdReset, Reset, Cut
<1>31. CASE UNCHANGED vars
  BY <1>1, <1>31 DEF vars
<1> QED
  BY <1>2, <1>3, <1>4, <1>5, <1>6, <1>7, <1>8, <1>9, <1>10, <1>11, <1>12, <1>13, <1>14,
    <1>15, <1>16, <1>17, <1>18, <1>19, <1>20, <1>21, <1>22, <1>23, <1>24, <1>25, <1>26,
    <1>27, <1>28, <1>29, <1>30, <1>31 DEF Next, Connection, Pairing, Persist, Boot, KeyWrite

\* The home of a bond is no slot that is written for another peer.
LEMMA NotTheLinks ==
  ASSUME IInv, PairInv, NEW p \in Peers, promised[p] # 0, NEW h \in Slots \ struck,
         KeptIn(h, p),
         initialized, peer \in Peers, pairing \in {"begun", "ltk", "keyed"}
  PROVE  p # peer /\ (activeSlot # NoSlot => h # activeSlot)
<1>1. p # peer
  BY DEF PairInv
<1>2. bonds[h].data = p
  BY DEF KeptIn, Holds, Serves, Up
<1> QED
  BY <1>1, <1>2 DEF IInv, LinkInv

\* Nor one that a reset strikes.
LEMMA NotCut ==
  ASSUME IInv, PairInv, NEW p \in Peers, promised[p] # 0, NEW h \in Slots \ struck,
         KeptIn(h, p),
         NEW warm \in BOOLEAN
  PROVE  h \notin Cut(warm)
<1> SUFFICES ASSUME h \in Cut(warm) PROVE FALSE
  OBVIOUS
<1>1. h = slot /\ pc \in Writes /\ then = "paired"
  BY DEF Cut, Writes
<1>2. initialized /\ peer \in Peers /\ slot = activeSlot
  BY <1>1 DEF IInv, PlaceInv, SlotInv
<1>3. pairing = "keyed"
  BY <1>1 DEF PairInv
<1> QED
  BY <1>1, <1>2, <1>3, NotTheLinks, SlotsNat

\* The bond of a peer is kept, until it is evicted.
LEMMA KeptStep ==
  ASSUME IInv, TypeOK', PlaceInv', SlotInv', ImportInv, PairInv, MirrorInv, MirrorInv',
         MatchInv, ActiveInv, KeptInv, [Next]_vars
  PROVE  KeptInv'
<1>1. TypeOK /\ TypeOK' /\ PlaceInv /\ PeerInv /\ SlotInv /\ ProgressInv /\ LinkInv
  BY DEF IInv, PlaceInv
<1>2. SUFFICES ASSUME NEW p \in Peers, promised'[p] # 0
               PROVE  \E s \in Slots \ struck' : KeptIn(s, p)'
  BY DEF KeptInv
<1>3. promised[p] # 0 => \E s \in Slots \ struck : KeptIn(s, p)
  BY DEF KeptInv
<1>4. p # NoPeer /\ NoPeer \notin Peers
  BY SecurityAssumption DEF SecurityAssumption
<1>5. CASE TablesKept /\ Unpromised
  BY <1>1, <1>2, <1>3, <1>4, <1>5 DEF KeptIn, Holds, Serves, OnlyIn, Newest, TablesKept,
    Unpromised
<1>6. CASE TablesKept /\ KnownConfirmed
  <2>1. UNCHANGED <<promised, struck>> /\ latest' = peer /\ pc = "wDone" /\ then = "cfm"
    BY <1>6 DEF KnownConfirmed, At
  <2>2. PICK h \in Slots \ struck : KeptIn(h, p)
    BY <1>2, <1>3, <2>1
  <2>3. initialized /\ slot = activeSlot /\ slot \in Slots /\ peer \in Peers
    BY <1>1, <2>1 DEF PlaceInv, SlotInv, Writes, TypeOK
  <2>4. p = peer => Newest(flash, h) /\ Newest(bonds, h)
    <3> SUFFICES ASSUME p = peer PROVE Newest(flash, h) /\ Newest(bonds, h)
      OBVIOUS
    <3>1. bonds[h].valid /\ Matches(bonds[h], p)
      BY <2>2, <2>3 DEF KeptIn, Holds, Serves, Matches, Up
    <3>2. h = activeSlot
      BY <2>3, <3>1, SlotsNat DEF ActiveInv, OnlyIn
    <3>3. flash[h] = bonds[h]
      BY <2>1, <2>3, <3>1, <3>2 DEF MirrorInv, Mirrored
    <3> QED
      BY <2>3, <3>2, <3>3, SlotsNat DEF ActiveInv, Newest
  <2> QED
    BY <2>1, <2>2, <2>4, <1>6 DEF TablesKept, KeptIn, Holds, Serves, OnlyIn, Newest
<1>7. CASE TablesKept /\ PairedStored
  <2>1. /\ UNCHANGED struck /\ latest' = peer /\ pc = "wDone" /\ then = "paired"
        /\ promised' = [promised EXCEPT ![peer] = gen[peer]]
    BY <1>7 DEF PairedStored, At
  <2>2. /\ initialized /\ slot = activeSlot /\ slot \in Slots /\ peer \in Peers
        /\ ~pendingActive
        /\ bonds[slot].valid /\ bonds[slot].data = peer
    BY <1>1, <2>1 DEF PlaceInv, SlotInv, Writes, TypeOK
  <2>3. CASE p = peer
    <3>1. bonds[slot].keys = <<p, promised'[p]>> /\ bonds[slot].addr = p /\ slot \notin struck
      BY <1>1, <2>1, <2>2, <2>3, SlotsNat DEF PairInv, Writes, TypeOK
    <3>2. flash[slot] = bonds[slot]
      BY <2>1, <2>2 DEF MirrorInv, Mirrored
    <3>3. /\ OnlyIn(bonds, slot, p) /\ OnlyIn(flash, slot, p) /\ Newest(bonds, slot)
          /\ Newest(flash, slot)
      BY <2>2, <2>3, <3>2, SlotsNat DEF ActiveInv, Newest
    <3>4. PICK h \in Slots \ struck : h = slot
      BY <2>2, <3>1
    <3>5. KeptIn(h, p)'
      BY <1>7, <2>2, <2>3, <3>1, <3>2, <3>3, <3>4 DEF TablesKept, KeptIn, Holds, Serves,
        OnlyIn, Newest
    <3> QED
      BY <2>1, <3>5
  <2>4. CASE p # peer
    <3>1. promised'[p] = promised[p]
      BY <1>1, <2>1, <2>4 DEF TypeOK
    <3>2. PICK h \in Slots \ struck : KeptIn(h, p)
      BY <1>2, <1>3, <3>1
    <3> QED
      BY <2>1, <2>4, <3>1, <3>2, <1>7 DEF TablesKept, KeptIn, Holds, Serves, OnlyIn, Newest
  <2> QED
    BY <2>3, <2>4
<1>8. CASE TablesKept /\ \E q \in Peers : Forget(q)
  <2>1. PICK q \in Peers : Forget(q)
    BY <1>8
  <2>2. promised'[p] = promised[p] /\ UNCHANGED <<latest, struck>>
    BY <1>1, <1>2, <2>1 DEF Forget, TypeOK
  <2> QED
    BY <1>2, <1>3, <2>2, <1>8 DEF TablesKept, KeptIn, Holds, Serves, OnlyIn, Newest
<1>9. CASE TablesKept /\ WarmReset
  <2>1. UNCHANGED <<promised, latest>> /\ struck' = struck \cup Cut(TRUE)
    BY <1>9 DEF WarmReset, Reset
  <2>2. PICK h \in Slots \ struck : KeptIn(h, p)
    BY <1>2, <1>3, <2>1
  <2>3. h \notin Cut(TRUE)
    BY <1>2, <2>1, <2>2, NotCut
  <2> QED
    BY <2>1, <2>2, <2>3, <1>9 DEF TablesKept, KeptIn, Holds, Serves, OnlyIn, Newest
<1>10. CASE KnownConnected
  <2>1. UNCHANGED <<promised, struck, legacy>> /\ latest' = NoPeer /\ Up
    BY <1>1, <1>10 DEF KnownConnected, flashVars, At, PlaceInv, Up
  <2>2. PICK h \in Slots \ struck : KeptIn(h, p)
    BY <1>2, <1>3, <2>1
  <2> QED
    BY <1>1, <1>4, <2>1, <2>2, <1>10, TouchParts DEF KeptIn, Holds, Serves, OnlyIn, Matches
<1>11. CASE Rekeyed
  <2>1. /\ UNCHANGED <<promised, struck, legacy, flash, latest>> /\ initialized
        /\ peer \in Peers
        /\ activeSlot # NoSlot /\ pairing \in {"begun", "ltk", "keyed"}
    BY <1>1, <1>11, SlotsNat DEF Rekeyed, ghostVars, flashVars, OnLink, Idle, PeerInv
  <2>2. PICK h \in Slots \ struck : KeptIn(h, p)
    BY <1>2, <1>3, <2>1
  <2>3. p # peer /\ h # activeSlot
    BY <1>2, <2>1, <2>2, NotTheLinks
  <2> QED
    BY <2>1, <2>2, <2>3, <1>11 DEF Rekeyed, KeptIn, Holds, Serves, OnlyIn, Newest, Matches, Up
<1>12. CASE Commit
  <2>1. /\ UNCHANGED <<struck, legacy>> /\ latest' = NoPeer /\ initialized /\ peer \in Peers
        /\ pairing = "keyed" /\ pendingActive
    BY <1>1, <1>12 DEF Commit, OnLink, Idle, PeerInv, flashVars
  <2>2. promised'[p] = promised[p] /\ ~ (bonds[slot'].valid /\ Serves(bonds[slot'], p))
    BY <1>2, <1>12 DEF Commit
  <2>3. PICK h \in Slots \ struck : KeptIn(h, p)
    BY <1>2, <1>3, <2>2
  <2>4. p # peer /\ pending.keys[1] = peer /\ pending.addr = peer
    BY <1>2, <2>1, <2>2, <2>3, NotTheLinks DEF IInv, StagedInv
  <2>5. h # slot' /\ ~Matches(bonds'[slot'], p)
    BY <1>1, <1>12, <2>1, <2>2, <2>3, <2>4, CommitParts DEF KeptIn, Holds, Matches, Up
  <2> QED
    BY <1>1, <1>4, <1>12, <2>1, <2>2, <2>3, <2>5, CommitParts DEF KeptIn, Holds, Serves,
      OnlyIn, Up
<1>13. CASE Refresh
  <2>1. /\ UNCHANGED <<promised, struck, legacy, latest>> /\ initialized /\ peer \in Peers
        /\ activeSlot # NoSlot /\ pairing = "keyed"
    BY <1>1, <1>13 DEF Refresh, ghostVars, flashVars, OnLink, Idle, PeerInv
  <2>2. PICK h \in Slots \ struck : KeptIn(h, p)
    BY <1>2, <1>3, <2>1
  <2>3. h # activeSlot
    BY <1>2, <2>1, <2>2, NotTheLinks
  <2> QED
    BY <1>1, <2>1, <2>2, <2>3, <1>13, RefreshParts DEF KeptIn, Holds, Serves, OnlyIn,
      Newest, Matches, Up
<1>14. CASE KeyWrite
  <2>1. /\ UNCHANGED <<promised, struck, legacy, latest, bonds>> /\ Up /\ slot \in Slots
        /\ \A s \in Slots \ {slot} : flash'[s] = flash[s]
        /\ flash'[slot].valid = flash[slot].valid /\ flash'[slot].used = flash[slot].used
    BY <1>1, <1>14, KeyWriteParts DEF ghostVars, ramVars, Up
  <2>2. PICK h \in Slots \ struck : KeptIn(h, p)
    BY <1>2, <1>3, <2>1
  <2>3. Holds(bonds, h, p)
    BY <2>1, <2>2 DEF KeptIn
  <2>4. CASE initialized
    <3>1. peer \in Peers /\ slot = activeSlot /\ pairing \in {"begun", "ltk", "keyed"}
      BY <1>1, <2>4, <1>14, KeyWriteParts DEF PlaceInv, SlotInv, PairInv, Writes, TypeOK
    <3>2. h # slot
      BY <1>1, <1>2, <2>1, <2>2, <2>4, <3>1, NotTheLinks, SlotsNat
    <3>3. legacy.addr = NoPeer
      BY <2>4 DEF ImportInv
    <3>4. Holds(flash, h, p)
      BY <2>2, <3>3 DEF KeptIn
    <3>5. flash'[slot].valid => ~Matches(flash'[slot], p)
      BY <1>1, <1>14, <2>1, <2>3, <3>2, <3>4, WriteMatches DEF Holds, OnlyIn
    <3> QED
      BY <2>1, <2>2, <2>3, <3>2, <3>4, <3>5 DEF KeptIn, Holds, Serves, OnlyIn, Newest
  <2>5. CASE ~initialized
    <3>1. slot = 0 /\ then = "boot" /\ ~flash[0].valid
      BY <1>1, <2>5, <1>14, KeyWriteParts DEF PlaceInv, ProgressInv, Replacing
    <3>2. legacy.addr # NoPeer /\ latest = NoPeer /\ \A s \in Slots : ~flash[s].valid
      BY <1>1, <2>5, <3>1, <1>14, KeyWriteParts DEF ImportInv
    <3>3. h = 0 /\ Serves(legacy, p)
      BY <2>2, <3>2 DEF KeptIn, Holds
    <3> QED
      BY <1>4, <2>1, <2>2, <2>3, <3>1, <3>2, <3>3 DEF KeptIn, Holds, Serves, OnlyIn
  <2> QED
    BY <2>4, <2>5
<1>15. CASE WriteMeta
  <2>1. /\ UNCHANGED <<promised, latest, bonds>> /\ pc = "wMeta" /\ pc' = "wDone" /\ Up
        /\ struck' \subseteq struck /\ slot' = slot /\ Up'
    BY <1>15 DEF WriteMeta, ramVars, At, Goto, Up, Writes
  <2>2. PICK h \in Slots \ struck : KeptIn(h, p)
    BY <1>2, <1>3, <2>1
  <2>3. Holds(bonds, h, p) /\ (p = latest => Newest(bonds, h))
    BY <2>1, <2>2 DEF KeptIn
  <2>4. \A s \in Slots : Mirrored(s)'
    BY <2>1 DEF MirrorInv, Writes
  <2>5. /\ flash'[h] = bonds[h]
        /\ \A s \in Slots : flash'[s].valid => bonds[s].valid /\ flash'[s] = bonds[s]
    BY <2>1, <2>3, <2>4 DEF Mirrored, Holds
  <2> QED
    BY <2>1, <2>2, <2>3, <2>5 DEF KeptIn, Holds, Serves, OnlyIn, Newest
<1>16. CASE ColdBoot
  <2>1. UNCHANGED <<promised, latest, struck, flash, legacy>>
    BY <1>16 DEF ColdBoot, ghostVars, flashVars
  <2>2. PICK h \in Slots \ struck : KeptIn(h, p)
    BY <1>2, <1>3, <2>1
  <2>3. CASE Imports
    <3>1. /\ legacy.addr # NoPeer /\ ~flash[0].valid /\ latest = NoPeer
          /\ \A s \in Slots : ~flash[s].valid
      BY <2>3 DEF Imports, Loaded, ImportInv
    <3>2. h = 0 /\ Serves(legacy, p)
      BY <2>2, <3>1 DEF KeptIn, Holds
    <3>3. bonds'[0] = Import(HighestUse + 1) /\ \A s \in Slots \ {0} : ~bonds'[s].valid
      BY <1>16, <2>3, <3>1, SlotsNat DEF ColdBoot, Loaded, Empty
    <3>4. bonds'[0].valid /\ Serves(bonds'[0], p)
      BY <3>2, <3>3 DEF Serves, Import
    <3> QED
      BY <1>4, <2>1, <2>2, <3>1, <3>2, <3>3, <3>4 DEF KeptIn, Holds, Serves, OnlyIn
  <2>4. CASE ~Imports
    <3>1. \A s \in Slots : IF flash[s].valid THEN bonds'[s] = flash[s] ELSE ~bonds'[s].valid
      BY <1>16, <2>4 DEF ColdBoot, Loaded, Empty
    <3>2. Holds(flash, h, p)
      BY <2>2, <2>4 DEF KeptIn, Imports, Loaded, Empty
    <3> QED
      BY <2>1, <2>2, <3>1, <3>2 DEF KeptIn, Holds, Serves, OnlyIn, Newest
  <2> QED
    BY <2>3, <2>4
<1>17. CASE DeleteAddr
  <2>1. UNCHANGED <<promised, latest, struck, flash, bonds>> /\ pc \in Deletes /\ Up
    BY <1>17 DEF DeleteAddr, ghostVars, At, Deletes, Up
  <2>2. flash[0].valid
    BY <2>1 DEF IInv, OldInv
  <2> QED
    BY <1>2, <1>3, <2>1, <2>2 DEF KeptIn, Holds, Serves, OnlyIn, Newest
<1>18. CASE ColdReset
  <2>1. UNCHANGED <<promised, latest, flash, legacy>> /\ struck' = struck \cup Cut(FALSE)
          /\ ~Up'
    BY <1>18 DEF ColdReset, Reset, Up, Writes, Deletes, Goto, flashVars
  <2>2. PICK h \in Slots \ struck : KeptIn(h, p)
    BY <1>2, <1>3, <2>1
  <2>3. h \notin Cut(FALSE)
    BY <1>2, <2>1, <2>2, NotCut
  <2> QED
    BY <2>1, <2>2, <2>3 DEF KeptIn, Holds, Serves, OnlyIn, Newest
<1>19. CASE Delete("wDone", "keys", NoKeys, "dData")
  <2>1. UNCHANGED <<promised, latest, struck, flash, bonds>> /\ pc = "wDone" /\ then = "boot"
          /\ Up
    BY <1>19 DEF Delete, ghostVars, ramVars, At, Writes, Up
  <2>2. flash[0].valid
    BY <2>1 DEF IInv, OldInv
  <2> QED
    BY <1>2, <1>3, <2>1, <2>2 DEF KeptIn, Holds, Serves, OnlyIn, Newest
<1>20. CASE Delete("dData", "data", NoPeer, "dAddr")
  <2>1. UNCHANGED <<promised, latest, struck, flash, bonds>> /\ pc \in Deletes /\ Up
    BY <1>20 DEF Delete, ghostVars, ramVars, At, Deletes, Up
  <2>2. flash[0].valid
    BY <2>1 DEF IInv, OldInv
  <2> QED
    BY <1>2, <1>3, <2>1, <2>2 DEF KeptIn, Holds, Serves, OnlyIn, Newest
<1> QED
  BY <1>5, <1>6, <1>7, <1>8, <1>9, <1>10, <1>11, <1>12, <1>13, <1>14, <1>15, <1>16, <1>17,
    <1>18, <1>19, <1>20, <1>1, Effects

(***************************************************************************)
(* The theorems.                                                           *)
(***************************************************************************)
LEMMA AccountInit == Init => Account
<1> SUFFICES ASSUME Init PROVE Account
  OBVIOUS
<1> USE SlotsNat, SecurityAssumption DEF Init, SecurityAssumption
<1>1. ImportInv /\ PairInv /\ UseInv
  BY DEF ImportInv, PairInv, UseInv, Up, NoLegacy, Empty, Writes, Deletes
<1>2. MirrorInv /\ MatchInv /\ ActiveInv
  BY DEF MirrorInv, Mirrored, MatchInv, ActiveInv, Unique, Up, Empty, Writes, Deletes
<1>3. KeptInv
  <2> SUFFICES ASSUME NEW p \in Peers, promised[p] # 0 PROVE KeptIn(0, p)
    BY DEF KeptInv
  <2>1. /\ legacy = [keys |-> <<p, 1>>, data |-> p, addr |-> AddrOf(p)] /\ promised[p] = 1
        /\ legacy.addr # NoPeer
    BY DEF NoLegacy, AddrOf
  <2>2. Serves(legacy, p)
    BY <2>1 DEF Serves, AddrOf
  <2> QED
    BY <2>1, <2>2 DEF KeptIn, Up, Empty, Writes, Deletes
<1> QED
  BY <1>1, <1>2, <1>3 DEF Account

LEMMA AccountStep == IInv /\ Account /\ [Next]_vars => IInv' /\ Account'
<1> SUFFICES ASSUME IInv, Account, [Next]_vars PROVE IInv' /\ Account'
  OBVIOUS
<1> USE DEF Account
<1>1. IInv' /\ TypeOK' /\ PlaceInv' /\ SlotInv'
  BY IInvStep DEF IInv
<1>2. ImportInv' /\ PairInv' /\ MirrorInv' /\ UseInv'
  BY <1>1, ImportStep, PairStep, MirrorStep, UseStep
<1>3. MatchInv' /\ ActiveInv' /\ KeptInv'
  BY <1>1, <1>2, TableMatchStep, LookupStep, ActiveStep, KeptStep
<1> QED
  BY <1>1, <1>2, <1>3

\* The account holds of every state.
THEOREM AccountHolds == Spec => [](IInv /\ Account)
BY IInvInit, AccountInit, AccountStep, PTL DEF Spec

\* A peer whose bond was stored has it in flash and, once the firmware is up, in RAM: through
\* any reset at any write, the migration of the old bond, and what other peers do, until it is
\* evicted.
THEOREM BondsSurvive == Spec => []BondSurvives
<1>1. IInv /\ Account => BondSurvives
  <2> SUFFICES ASSUME Account, NEW p \in Peers, promised[p] # 0
               PROVE  /\ Keeps(flash, p) \/ Serves(legacy, p)
                      /\ initialized => Keeps(bonds, p)
    BY DEF BondSurvives
  <2>1. PICK s \in Slots \ struck : KeptIn(s, p)
    BY DEF Account, KeptInv
  <2> QED
    BY <2>1 DEF KeptIn, Holds, Keeps, Up
<1> QED
  BY <1>1, AccountHolds, PTL

\* In a table of at least two slots, on_paired evicts a bond only if all are used, and never
\* that of the peer that was bonded or that connected last, over any resets.
THEOREM OldestIsEvicted ==
  ASSUME MaxBonds > 1
  PROVE  Spec => EvictsOldest
<1>1. ASSUME IInv, Account, [Next]_vars
      PROVE  [\A p \in Peers : promised[p] # 0 /\ promised'[p] = 0 /\ bonds' # bonds
                => Used = Slots /\ p # latest]_vars
  <2> SUFFICES ASSUME NEW p \in Peers, promised[p] # 0, promised'[p] = 0, bonds' # bonds
               PROVE  Used = Slots /\ p # latest
    OBVIOUS
  <2>1. TypeOK /\ PlaceInv /\ TypeOK'
    BY <1>1, IInvStep DEF IInv
  <2>2. Commit
    <3>1. ~TablesKept
      BY DEF TablesKept
    <3>2. ~Refresh /\ ~KnownConnected /\ ~Rekeyed
      BY DEF Refresh, KnownConnected, Rekeyed, ghostVars
    <3>3. ~KeyWrite /\ ~WriteMeta /\ ~ColdBoot /\ ~DeleteAddr /\ ~ColdReset
      BY <2>1, KeyWriteParts DEF ghostVars, WriteMeta, ColdBoot, DeleteAddr, ColdReset, Reset
    <3>4. ~Delete("wDone", "keys", NoKeys, "dData")
            /\ ~Delete("dData", "data", NoPeer, "dAddr")
      BY DEF Delete, ghostVars
    <3> QED
      BY <1>1, <2>1, <3>1, <3>2, <3>3, <3>4, Effects
  <2>3. bonds[slot'].valid /\ Serves(bonds[slot'], p) /\ slot' \in Slots /\ slot' = CommitSlot
    BY <2>1, <2>2, CommitParts DEF Commit
  <2>4. Used = Slots
    BY <2>3, FirstFound DEF CommitSlot, Used
  <2>5. ASSUME p = latest PROVE FALSE
    <3>1. PICK h \in Slots \ struck : KeptIn(h, p)
      BY <1>1 DEF Account, KeptInv
    <3>2. OnlyIn(bonds, h, p) /\ Newest(bonds, h)
      BY <2>2, <2>5, <3>1 DEF KeptIn, Holds, Up, Commit, OnLink, Idle
    <3>3. Matches(bonds[slot'], p)
      BY <2>3 DEF Serves, Matches
    <3>4. h = slot'
      BY <2>3, <3>2, <3>3 DEF OnlyIn
    <3>5. \A s \in Slots : bonds[slot'].used <= bonds[s].used
      <4> DEFINE Oldest == {s \in Slots : \A r \in Slots : bonds[s].used <= bonds[r].used}
      <4>1. slot' = First(Oldest) /\ slot' # NoSlot /\ Oldest \in SUBSET Slots
        BY <2>3, <2>4, SlotsNat DEF CommitSlot
      <4> QED
        BY <4>1, FirstFound
    <3>6. PICK s \in Slots : s # slot'
      BY SecurityAssumption DEF Slots, SecurityAssumption
    <3>7. bonds[s].used < bonds[slot'].used /\ bonds[s].used \in Nat
            /\ bonds[slot'].used \in Nat
      BY <2>1, <2>3, <2>4, <3>2, <3>4, <3>6 DEF Newest, Used, TypeOK, Bonds
    <3> QED
      BY <3>5, <3>6, <3>7
  <2> QED
    BY <2>4, <2>5
<1> QED
  BY <1>1, AccountHolds, PTL DEF Spec, EvictsOldest
=============================================================================
