------------------------- MODULE BleSecurity_proof --------------------------
(***************************************************************************)
(* Proofs about BleSecurity: for any peers, any number of slots and any     *)
(* bounds, with resets of both kinds at every write.                        *)
(***************************************************************************)
EXTENDS BleSecurity, TLAPS, WellFoundedInduction

(***************************************************************************)
(* Facts about numbers.                                                    *)
(***************************************************************************)
\* A set of natural numbers has a least one.
LEMMA LeastNat ==
  ASSUME NEW S \in SUBSET Nat, S # {}
  PROVE  \E x \in S : \A y \in S : x <= y
<1>1. IsWellFoundedOn(OpToRel(<, Nat), Nat)
  BY NatLessThanWellFounded
<1>2. PICK x \in S : \A y \in S : ~ (<<y, x>> \in OpToRel(<, Nat))
  BY <1>1, WFMin
<1>3. \A y \in S : y \in Nat /\ x \in Nat
  OBVIOUS
<1>4. \A y \in S : ~ (y < x)
  BY <1>2, <1>3 DEF OpToRel
<1> QED
  BY <1>3, <1>4

\* The slots are numbers, from 0.
LEMMA SlotsNat == Slots \subseteq Nat /\ 0 \in Slots /\ NoSlot \notin Slots
BY SecurityAssumption DEF Slots, NoSlot, SecurityAssumption

\* First finds a member of every set of slots but the empty one.
LEMMA FirstFound ==
  ASSUME NEW S \in SUBSET Slots
  PROVE  /\ S = {} => First(S) = NoSlot
         /\ S # {} => First(S) \in S
<1>1. S \in SUBSET Nat
  BY SlotsNat
<1>2. CASE S = {}
  BY <1>2 DEF First
<1>3. CASE S # {}
  <2>1. \E x \in S : \A y \in S : x <= y
    BY <1>1, <1>3, LeastNat
  <2> QED
    BY <1>3, <2>1 DEF First
<1> QED
  BY <1>2, <1>3

\* Finitely many numbers, given by f on the slots, have an upper bound.
LEMMA SlotsBounded ==
  ASSUME NEW f \in [Slots -> Nat]
  PROVE  \E n \in Nat : \A s \in Slots : f[s] <= n
<1> DEFINE Bad == {k \in Nat : ~ \E n \in Nat : \A s \in Slots : s < k => f[s] <= n}
<1>1. SUFFICES Bad = {}
  <2>1. MaxBonds \notin Bad /\ MaxBonds \in Nat
    BY <1>1, SecurityAssumption DEF SecurityAssumption
  <2>2. PICK n \in Nat : \A s \in Slots : s < MaxBonds => f[s] <= n
    BY <2>1
  <2> QED
    BY <2>1, <2>2 DEF Slots
<1>2. SUFFICES ASSUME Bad # {} PROVE FALSE
  OBVIOUS
<1>3. PICK k \in Bad : \A j \in Bad : k <= j
  BY <1>2, LeastNat
<1>4. k \in Nat /\ k # 0
  <2>1. 0 \notin Bad
    <3>1. \A s \in Slots : ~ (s < 0)
      BY SlotsNat
    <3>2. \A s \in Slots : s < 0 => f[s] <= 0
      BY <3>1
    <3> QED
      BY <3>2
  <2> QED
    BY <2>1
<1>5. k - 1 \in Nat /\ k - 1 \notin Bad
  BY <1>3, <1>4
<1>6. PICK n \in Nat : \A s \in Slots : s < k - 1 => f[s] <= n
  BY <1>5
<1>7. CASE k - 1 \in Slots
  <2>1. f[k - 1] \in Nat
    BY <1>7
  <2>2. PICK m \in Nat : n <= m /\ f[k - 1] <= m
    <3>1. CASE n <= f[k - 1] BY <2>1, <3>1
    <3>2. CASE f[k - 1] <= n BY <2>1, <3>2
    <3> QED BY <2>1, <3>1, <3>2
  <2>3. \A s \in Slots : s < k => f[s] <= m
    <3> SUFFICES ASSUME NEW s \in Slots, s < k PROVE f[s] <= m
      OBVIOUS
    <3>1. s \in Nat /\ f[s] \in Nat
      BY SlotsNat
    <3>2. s < k - 1 \/ s = k - 1
      BY <3>1, <1>4
    <3> QED
      BY <3>1, <3>2, <1>6, <2>1, <2>2
  <2> QED
    BY <2>3, <1>4
<1>8. CASE k - 1 \notin Slots
  <2>1. \A s \in Slots : s < k => s < k - 1
    BY <1>8, <1>4, SlotsNat
  <2> QED
    BY <1>6, <2>1, <1>4
<1> QED
  BY <1>7, <1>8

\* The LRU counter that a boot restores is a number, and none that it loads is higher.
LEMMA HighestUseNat ==
  ASSUME TypeOK
  PROVE  HighestUse \in Nat /\ \A s \in Slots : Loaded(s).used <= HighestUse
<1> DEFINE f == [s \in Slots |-> Loaded(s).used]
           U == {0} \cup {Loaded(s).used : s \in Slots}
           Over == {n \in Nat : \A s \in Slots : f[s] <= n}
<1>1. \A s \in Slots : Loaded(s).used \in Nat
  BY DEF TypeOK, Loaded, Bonds, Empty
<1>2. f \in [Slots -> Nat] /\ U \subseteq Nat
  BY <1>1
<1>3. Over # {} /\ Over \subseteq Nat
  BY <1>2, SlotsBounded
<1>4. PICK n \in Over : \A m \in Over : n <= m
  BY <1>3, LeastNat
<1>5. n \in Nat /\ \A s \in Slots : Loaded(s).used <= n
  BY <1>4
<1>6. n \in U
  <2> SUFFICES ASSUME n # 0, \A s \in Slots : Loaded(s).used # n PROVE FALSE
    OBVIOUS
  <2>1. \A s \in Slots : f[s] <= n - 1
    BY <1>1, <1>5
  <2>2. n - 1 \in Nat
    BY <1>5
  <2> QED
    BY <2>1, <2>2, <1>4
<1>7. \E x \in U : \A s \in Slots : Loaded(s).used <= x
  BY <1>5, <1>6
<1> QED
  BY <1>2, <1>7 DEF HighestUse

(***************************************************************************)
(* Type correctness.                                                       *)
(***************************************************************************)
Writes == {"wKeys", "wData", "wAddr", "wMeta", "wDone"}
Deletes == {"dData", "dAddr"}

BoolTypes ==
  /\ initialized \in BOOLEAN /\ pendingActive \in BOOLEAN /\ paired \in BOOLEAN
  /\ lock \in BOOLEAN /\ open \in BOOLEAN /\ resolving \in BOOLEAN
TableTypes ==
  /\ bonds \in [Slots -> Bonds] /\ pending \in Bonds /\ activeSlot \in Slots \cup {NoSlot}
  /\ lruCounter \in Nat /\ flash \in [Slots -> Bonds]
  /\ legacy \in [keys : Keys, data : Peers \cup {NoPeer}, addr : Addrs]
LinkTypes ==
  /\ peer \in Peers \cup {NoPeer} /\ phase \in {"none", "asked", "confirmed", "closing"}
  /\ pairing \in {"none", "begun", "ltk", "keyed", "failed"}
PlaceTypes ==
  /\ pc \in {"idle", "dispatch", "wKeys", "wData", "wAddr", "wMeta", "wDone", "boot",
             "dData", "dAddr"}
  /\ slot \in Slots \cup {NoSlot} /\ then \in {"cfm", "keys", "paired", "boot"}
  /\ pc \in Writes => lock /\ slot \in Slots
GhostTypes ==
  /\ gen \in [Peers -> 0 .. MaxGen] /\ promised \in [Peers -> 0 .. MaxGen]
  /\ latest \in Peers \cup {NoPeer} /\ struck \subseteq Slots

\* The types, by what the variables are about.
LEMMA Types ==
  ASSUME BoolTypes', TableTypes', LinkTypes', PlaceTypes', GhostTypes'
  PROVE  TypeOK'
BY DEF TypeOK, BoolTypes, TableTypes, LinkTypes, PlaceTypes, GhostTypes, Writes

\* The slots that the operations find are in the table.
LEMMA FoundSlots ==
  ASSUME NEW p
  PROVE  SlotByAddr(p) \in Slots \cup {NoSlot} /\ SlotByIrk(p) \in Slots \cup {NoSlot}
<1> Used \subseteq Slots
  BY DEF Used
<1> QED
  BY FirstFound DEF SlotByAddr, SlotByIrk

\* The slot used longest ago is one of the table.
LEMMA CommitSlotType ==
  ASSUME bonds \in [Slots -> Bonds]
  PROVE  CommitSlot \in Slots
<1>1. CASE Used # Slots
  BY <1>1, FirstFound DEF CommitSlot, Used
<1>2. CASE Used = Slots
  <2> DEFINE U == {bonds[s].used : s \in Slots}
             Oldest == {s \in Slots : \A r \in Slots : bonds[s].used <= bonds[r].used}
  <2>1. U \in SUBSET Nat /\ U # {}
    BY SlotsNat DEF Bonds
  <2>2. PICK n \in U : \A m \in U : n <= m
    BY <2>1, LeastNat
  <2>3. Oldest # {} /\ Oldest \in SUBSET Slots
    BY <2>2
  <2>4. First(Oldest) \in Slots
    BY <2>3, FirstFound
  <2> QED
    BY <1>2, <2>4 DEF CommitSlot
<1> QED
  BY <1>1, <1>2

\* The zeroed bond and keys.
LEMMA EmptyTypes == Empty \in Bonds /\ NoKeys \in Keys
BY SecurityAssumption DEF SecurityAssumption, Bonds, Empty, NoKeys, Keys, Addrs

\* The keys of a peer's last pairing, and what they make of a bond.
LEMMA NewKeysType ==
  ASSUME gen \in [Peers -> 0 .. MaxGen], peer \in Peers, NEW b \in Bonds, NEW a \in Addrs
  PROVE  /\ <<peer, gen[peer]>> \in Keys
         /\ [b EXCEPT !.keys = <<peer, gen[peer]>>, !.addr = a] \in Bonds
         /\ [b EXCEPT !.keys = <<peer, gen[peer]>>, !.addr = b.addr] \in Bonds
<1>1. <<peer, gen[peer]>> \in Keys
  BY DEF Keys
<1> QED
  BY <1>1 DEF Bonds

\* The bond that takes the keys is still a bond.
LEMMA StoreKeysType ==
  ASSUME TypeOK, peer \in Peers, NEW a \in Peers \cup {NoPeer}, StoreKeys(a)
  PROVE  bonds' \in [Slots -> Bonds] /\ pending' \in Bonds
<1> DEFINE new(b) == [b EXCEPT !.keys = <<peer, gen[peer]>>, !.addr = IF a = NoPeer THEN @ ELSE a]
<1>1. a \in Addrs
  BY DEF Addrs
<1>2. ASSUME NEW b \in Bonds PROVE new(b) \in Bonds
  <2>1. CASE a = NoPeer BY <2>1, <1>1, NewKeysType DEF TypeOK
  <2>2. CASE a # NoPeer BY <2>2, <1>1, NewKeysType DEF TypeOK
  <2> QED BY <2>1, <2>2
<1>3. \/ pending' = new(pending) /\ bonds' = bonds
      \/ activeSlot # NoSlot /\ bonds' = [bonds EXCEPT ![activeSlot] = new(@)] /\ pending' = pending
      \/ pending' = pending /\ bonds' = bonds
  BY DEF StoreKeys
<1> HIDE DEF new
<1> QED
  BY <1>2, <1>3 DEF TypeOK

\* Flash still holds bonds after any write.
LEMMA WrittenType ==
  ASSUME TypeOK, slot \in Slots, NEW k
  PROVE  Written(slot, k) \in [Slots -> Bonds]
BY DEF Written, TypeOK, Bonds

\* What on_paired makes of the staged bond.
LEMMA CommitBondType ==
  ASSUME NEW b \in Bonds, NEW p \in Peers, NEW n \in Nat
  PROVE  [b EXCEPT !.data = p, !.used = n + 1, !.valid = TRUE] \in Bonds
<1> DEFINE c == [b EXCEPT !.data = p]
           d == [c EXCEPT !.used = n + 1]
<1>1. c \in Bonds
  BY DEF Bonds
<1> HIDE DEF c
<1>2. n + 1 \in Nat
  OBVIOUS
<1>3. d \in Bonds
  BY <1>1, <1>2 DEF Bonds
<1> HIDE DEF d
<1>4. [d EXCEPT !.valid = TRUE] \in Bonds
  BY <1>3 DEF Bonds
<1> QED
  BY <1>4 DEF c, d

\* A callback of a link is about a peer.
PeerInv == pc = "dispatch" \/ phase # "none" \/ resolving => peer \in Peers

\* The first boot.
LEMMA TypeInit == Init => TypeOK /\ PeerInv
<1> SUFFICES ASSUME Init PROVE TypeOK /\ PeerInv
  OBVIOUS
<1>1. Empty \in Bonds /\ MaxGen \in Nat /\ 1 \in 0 .. MaxGen
  BY EmptyTypes, SecurityAssumption DEF SecurityAssumption
<1>2. /\ legacy \in [keys : Keys, data : Peers \cup {NoPeer}, addr : Addrs]
      /\ gen \in [Peers -> 0 .. MaxGen]
  BY <1>1 DEF Init, NoLegacy, NoKeys, Keys, Addrs, AddrOf
<1> QED
  BY <1>1, <1>2 DEF Init, TypeOK, PeerInv, Slots

\* One step per action; where several groups of variables change, one per group.
LEMMA TypeStep ==
  ASSUME TypeOK, PeerInv, [Next]_vars
  PROVE  TypeOK'
<1> USE SecurityAssumption DEF SecurityAssumption, TypeOK, Goto, At, ramVars, flashVars, linkVars,
  ghostVars
<1>1. CASE \E p \in Peers : ConnectionReq(p)
  BY <1>1, FoundSlots DEF ConnectionReq, Idle
<1>2. CASE Resolved
  <2>1. BoolTypes'
    BY <1>2 DEF Resolved, Idle, BoolTypes
  <2>2. TableTypes'
    BY <1>2 DEF Resolved, Idle, TableTypes
  <2>3. LinkTypes'
    BY <1>2 DEF Resolved, Idle, LinkTypes
  <2>4. PlaceTypes'
    BY <1>2, FoundSlots DEF Resolved, Idle, PlaceTypes, Writes
  <2>5. GhostTypes'
    BY <1>2 DEF Resolved, Idle, GhostTypes
  <2> QED
    BY <2>1, <2>2, <2>3, <2>4, <2>5, Types
<1>3. CASE Reject
  BY <1>3 DEF Reject, Closing
<1>4. CASE KnownConnected
  BY <1>4 DEF KnownConnected, Bonds
<1>5. CASE KnownConfirmed
  <2>1. BoolTypes'
    BY <1>5 DEF KnownConfirmed, Confirmed, BoolTypes
  <2>2. TableTypes'
    BY <1>5 DEF KnownConfirmed, Confirmed, TableTypes
  <2>3. LinkTypes'
    BY <1>5 DEF KnownConfirmed, Confirmed, LinkTypes
  <2>4. PlaceTypes'
    BY <1>5 DEF KnownConfirmed, Confirmed, PlaceTypes, Writes
  <2>5. GhostTypes'
    BY <1>5 DEF KnownConfirmed, Confirmed, GhostTypes
  <2> QED
    BY <2>1, <2>2, <2>3, <2>4, <2>5, Types
<1>6. CASE UnknownConnected
  <2>1. BoolTypes'
    BY <1>6 DEF UnknownConnected, Confirmed, BoolTypes
  <2>2. TableTypes'
    BY <1>6, EmptyTypes DEF UnknownConnected, Bonds, Addrs, AddrOf, TableTypes
  <2>3. LinkTypes'
    BY <1>6 DEF UnknownConnected, Confirmed, LinkTypes
  <2>4. PlaceTypes'
    BY <1>6 DEF UnknownConnected, Confirmed, PlaceTypes, Writes
  <2>5. GhostTypes'
    BY <1>6 DEF UnknownConnected, Confirmed, GhostTypes
  <2> QED
    BY <2>1, <2>2, <2>3, <2>4, <2>5, Types
<1>7. CASE Disconnect
  BY <1>7 DEF Disconnect, Idle
<1>8. CASE PairingReq
  <2>1. BoolTypes'
    BY <1>8 DEF PairingReq, OnLink, Idle, BoolTypes
  <2>2. TableTypes'
    BY <1>8 DEF PairingReq, OnLink, Idle, TableTypes
  <2>3. LinkTypes'
    BY <1>8 DEF PairingReq, OnLink, Idle, LinkTypes
  <2>4. PlaceTypes'
    BY <1>8 DEF PairingReq, OnLink, Idle, PlaceTypes, Writes
  <2>5. GhostTypes'
    BY <1>8 DEF PairingReq, OnLink, Idle, PeerInv, GhostTypes
  <2> QED
    BY <2>1, <2>2, <2>3, <2>4, <2>5, Types
<1>9. CASE ProvideLtk
  <2>1. BoolTypes'
    BY <1>9 DEF ProvideLtk, OnLink, Idle, StoreKeys, BoolTypes
  <2>2. TableTypes'
    BY <1>9, StoreKeysType DEF ProvideLtk, OnLink, Idle, PeerInv, TableTypes
  <2>3. LinkTypes'
    BY <1>9 DEF ProvideLtk, OnLink, Idle, StoreKeys, LinkTypes
  <2>4. PlaceTypes'
    BY <1>9 DEF ProvideLtk, OnLink, Idle, StoreKeys, PlaceTypes, Writes
  <2>5. GhostTypes'
    BY <1>9 DEF ProvideLtk, OnLink, Idle, StoreKeys, GhostTypes
  <2> QED
    BY <2>1, <2>2, <2>3, <2>4, <2>5, Types
<1>10. CASE KeysReceived
  <2>1. BoolTypes'
    BY <1>10 DEF KeysReceived, OnLink, Idle, StoreKeys, BoolTypes
  <2>2. TableTypes'
    BY <1>10, StoreKeysType DEF KeysReceived, OnLink, Idle, PeerInv, TableTypes
  <2>3. LinkTypes'
    BY <1>10 DEF KeysReceived, OnLink, Idle, StoreKeys, LinkTypes
  <2>4. PlaceTypes'
    BY <1>10 DEF KeysReceived, OnLink, Idle, StoreKeys, PlaceTypes, Writes
  <2>5. GhostTypes'
    BY <1>10 DEF KeysReceived, OnLink, Idle, StoreKeys, GhostTypes
  <2> QED
    BY <2>1, <2>2, <2>3, <2>4, <2>5, Types
<1>11. CASE KeysStored
  <2>1. BoolTypes'
    BY <1>11 DEF KeysStored, BoolTypes
  <2>2. TableTypes'
    BY <1>11 DEF KeysStored, TableTypes
  <2>3. LinkTypes'
    BY <1>11 DEF KeysStored, LinkTypes
  <2>4. PlaceTypes'
    BY <1>11 DEF KeysStored, PlaceTypes, Writes
  <2>5. GhostTypes'
    BY <1>11 DEF KeysStored, GhostTypes
  <2> QED
    BY <2>1, <2>2, <2>3, <2>4, <2>5, Types
<1>12. CASE Commit
  <2>1. BoolTypes'
    BY <1>12, CommitSlotType DEF Commit, OnLink, Idle, BoolTypes
  <2>2. TableTypes'
    <3>1. [pending EXCEPT !.data = peer, !.used = lruCounter + 1, !.valid = TRUE] \in Bonds
      BY <1>12, CommitBondType DEF OnLink, Commit, PeerInv
    <3> QED
      BY <1>12, <3>1, CommitSlotType, EmptyTypes DEF Commit, TableTypes
  <2>3. LinkTypes'
    BY <1>12, CommitSlotType DEF Commit, OnLink, Idle, LinkTypes
  <2>4. PlaceTypes'
    BY <1>12, CommitSlotType DEF Commit, OnLink, Idle, PlaceTypes, Writes
  <2>5. GhostTypes'
    BY <1>12, CommitSlotType DEF Commit, OnLink, Idle, GhostTypes
  <2> QED
    BY <2>1, <2>2, <2>3, <2>4, <2>5, Types
<1>13. CASE Refresh
  BY <1>13 DEF Refresh, OnLink, Idle, Bonds
<1>14. CASE PairedStored
  <2>1. paired' \in BOOLEAN
    BY <1>14, Zenon DEF PairedStored, SetPaired
  <2> QED
    BY <1>14, <2>1 DEF PairedStored, OnLink, Idle
<1>15. CASE PairedUnstored
  <2>1. paired' \in BOOLEAN
    BY <1>15, Zenon DEF PairedUnstored, SetPaired
  <2> QED
    BY <1>15, <2>1 DEF PairedUnstored, OnLink, Idle
<1>16. CASE PairFailed
  <2>1. BoolTypes'
    BY <1>16 DEF PairFailed, OnLink, Idle, BoolTypes
  <2>2. TableTypes'
    BY <1>16, EmptyTypes DEF PairFailed, TableTypes
  <2>3. LinkTypes'
    BY <1>16 DEF PairFailed, OnLink, Idle, LinkTypes
  <2>4. PlaceTypes'
    BY <1>16 DEF PairFailed, OnLink, Idle, PlaceTypes, Writes
  <2>5. GhostTypes'
    BY <1>16 DEF PairFailed, OnLink, Idle, GhostTypes
  <2> QED
    BY <2>1, <2>2, <2>3, <2>4, <2>5, Types
<1>17. CASE EncryptFailed
  <2>1. BoolTypes'
    BY <1>17 DEF EncryptFailed, OnLink, Idle, Closing, BoolTypes
  <2>2. TableTypes'
    BY <1>17 DEF EncryptFailed, OnLink, Idle, Closing, TableTypes
  <2>3. LinkTypes'
    BY <1>17 DEF EncryptFailed, OnLink, Idle, Closing, LinkTypes
  <2>4. PlaceTypes'
    BY <1>17 DEF EncryptFailed, OnLink, Idle, Closing, PlaceTypes, Writes
  <2>5. GhostTypes'
    BY <1>17 DEF EncryptFailed, OnLink, Idle, Closing, GhostTypes
  <2> QED
    BY <2>1, <2>2, <2>3, <2>4, <2>5, Types
<1>18. CASE \E p \in Peers : Forget(p)
  BY <1>18 DEF Forget
<1>19. CASE Persist
  BY <1>19, WrittenType DEF Persist, Write, WriteMeta
<1>20. CASE WarmBoot
  BY <1>20 DEF WarmBoot
<1>21. CASE ColdBoot
  <2>1. BoolTypes'
    BY <1>21, SlotsNat DEF ColdBoot, BoolTypes
  <2>2. TableTypes'
    BY <1>21, HighestUseNat, EmptyTypes DEF ColdBoot, Loaded, Import, Bonds, TableTypes
  <2>3. LinkTypes'
    BY <1>21, SlotsNat DEF ColdBoot, LinkTypes
  <2>4. PlaceTypes'
    BY <1>21, SlotsNat DEF ColdBoot, PlaceTypes, Writes
  <2>5. GhostTypes'
    BY <1>21, SlotsNat DEF ColdBoot, GhostTypes
  <2> QED
    BY <2>1, <2>2, <2>3, <2>4, <2>5, Types
<1>22. CASE DeleteAddr
  <2>1. BoolTypes'
    BY <1>22 DEF DeleteAddr, Addrs, BoolTypes
  <2>2. TableTypes'
    BY <1>22 DEF DeleteAddr, Addrs, TableTypes
  <2>3. LinkTypes'
    BY <1>22 DEF DeleteAddr, Addrs, LinkTypes
  <2>4. PlaceTypes'
    BY <1>22 DEF DeleteAddr, Addrs, PlaceTypes, Writes
  <2>5. GhostTypes'
    BY <1>22 DEF DeleteAddr, Addrs, GhostTypes
  <2> QED
    BY <2>1, <2>2, <2>3, <2>4, <2>5, Types
<1>23. CASE Delete("wDone", "keys", NoKeys, "dData")
  BY <1>23, EmptyTypes DEF Delete
<1>24. CASE Delete("dData", "data", NoPeer, "dAddr")
  BY <1>24 DEF Delete
<1>25. CASE WindowOpen
  BY <1>25 DEF WindowOpen, Idle, Closing
<1>26. CASE WindowTimeout
  <2>1. BoolTypes'
    BY <1>26 DEF WindowTimeout, BoolTypes
  <2>2. TableTypes'
    BY <1>26 DEF WindowTimeout, TableTypes
  <2>3. LinkTypes'
    BY <1>26 DEF WindowTimeout, LinkTypes
  <2>4. PlaceTypes'
    BY <1>26 DEF WindowTimeout, PlaceTypes, Writes
  <2>5. GhostTypes'
    BY <1>26 DEF WindowTimeout, GhostTypes
  <2> QED
    BY <2>1, <2>2, <2>3, <2>4, <2>5, Types
<1>27. CASE WarmReset
  BY <1>27 DEF WarmReset, Reset, Cut
<1>28. CASE ColdReset
  <2>1. BoolTypes'
    BY <1>28, EmptyTypes DEF ColdReset, Reset, Cut, BoolTypes
  <2>2. TableTypes'
    BY <1>28, EmptyTypes DEF ColdReset, Reset, TableTypes
  <2>3. LinkTypes'
    BY <1>28, EmptyTypes DEF ColdReset, Reset, Cut, LinkTypes
  <2>4. PlaceTypes'
    BY <1>28, EmptyTypes DEF ColdReset, Reset, Cut, PlaceTypes, Writes
  <2>5. GhostTypes'
    BY <1>28, EmptyTypes DEF ColdReset, Reset, Cut, GhostTypes
  <2> QED
    BY <2>1, <2>2, <2>3, <2>4, <2>5, Types
<1>29. CASE UNCHANGED vars
  BY <1>29 DEF vars
<1> QED
  BY <1>1, <1>2, <1>3, <1>4, <1>5, <1>6, <1>7, <1>8, <1>9, <1>10, <1>11, <1>12, <1>13, <1>14,
    <1>15, <1>16, <1>17, <1>18, <1>19, <1>20, <1>21, <1>22, <1>23, <1>24, <1>25, <1>26, <1>27,
    <1>28, <1>29 DEF Next, Connection, Pairing, Boot

\* No callback runs without a peer.
LEMMA PeerStep ==
  ASSUME TypeOK, PeerInv, [Next]_vars
  PROVE  PeerInv'
<1> USE DEF PeerInv, TypeOK, Goto, At, ramVars, flashVars, linkVars, ghostVars
<1>1. CASE Connection
  BY <1>1 DEF Connection, ConnectionReq, Resolved, Reject, KnownConnected, KnownConfirmed,
    UnknownConnected, Disconnect, Idle, Confirmed, Closing
<1>2. CASE Pairing
  BY <1>2 DEF Pairing, PairingReq, ProvideLtk, KeysReceived, KeysStored, Commit, Refresh,
    PairedStored,
    PairedUnstored, PairFailed, EncryptFailed, Forget, StoreKeys, OnLink, Idle, Closing
<1>3. CASE Persist
  BY <1>3 DEF Persist, Write, WriteMeta
<1>4. CASE Boot
  BY <1>4 DEF Boot, WarmBoot, ColdBoot, DeleteAddr, Delete
<1>5. CASE WindowOpen \/ WindowTimeout \/ WarmReset \/ ColdReset
  BY <1>5 DEF WindowOpen, WindowTimeout, WarmReset, ColdReset, Reset, Idle, Closing
<1>6. CASE UNCHANGED vars
  BY <1>6 DEF vars
<1> QED
  BY <1>1, <1>2, <1>3, <1>4, <1>5, <1>6 DEF Next

\* Every variable keeps its type: in every state of the firmware.
THEOREM TypeCorrect == Spec => []TypeOK
<1>1. Init => TypeOK /\ PeerInv
  BY TypeInit
<1>2. TypeOK /\ PeerInv /\ [Next]_vars => (TypeOK /\ PeerInv)'
  BY TypeStep, PeerStep
<1> QED
  BY <1>1, <1>2, PTL DEF Spec

(***************************************************************************)
(* The invariant of the table.  A bond goes through RAM to flash key by     *)
(* key; TableInv says what holds of the slots that are not in between,      *)
(* ProgressInv how far the one in between is, the others which bond the     *)
(* link, the staged bond and the slot just looked up belong to.             *)
(***************************************************************************)
\* A new bond, or that of the old firmware, is being written.
Replacing == pc \in Writes \ {"wDone"} /\ then \in {"paired", "boot"}
\* The table has been loaded.
Up == initialized \/ pc \in Writes \cup Deletes
\* The bond of slot s, or its copy in flash, is not in between.
Settled(s) == ~ (Replacing /\ s = slot)
InUse == {s \in Slots \ struck : bonds[s].valid}

PlaceInv ==
  /\ PeerInv
  /\ pc \in {"idle", "dispatch"} => initialized
  /\ resolving => pc = "idle"
  /\ pc = "dispatch" \/ resolving => phase # "confirmed" /\ pairing = "none"
  /\ pc = "boot" \/ ~initialized => phase = "none" /\ ~resolving /\ peer = NoPeer
  /\ pc \in Deletes \/ (pc \in Writes /\ ~initialized) => then = "boot" /\ slot = 0 /\ ~initialized
  /\ pc \in Writes /\ initialized => then # "boot"
  /\ pc \in {"wKeys", "wData", "wAddr"} => then # "cfm"

\* The slot that is written is that of the link.
SlotInv ==
  pc \in Writes /\ initialized =>
    /\ peer \in Peers /\ slot = activeSlot /\ bonds[slot].valid
    /\ then \in {"keys", "paired"} => ~pendingActive /\ bonds[slot].keys[1] = peer
    /\ then = "paired" => bonds[slot].data = peer

RamInv == Up => \A s \in InUse : Whole(bonds[s])
FlashInv == \A s \in Slots \ struck : flash[s].valid /\ Settled(s) => Whole(flash[s])
AgreeInv ==
  Up => \A s \in InUse : Settled(s) => flash[s].valid /\ flash[s].data = bonds[s].data
TableInv == RamInv /\ FlashInv /\ AgreeInv

ProgressInv ==
  pc \in Writes /\ then # "cfm" =>
    /\ pc # "wKeys" => flash[slot].keys = bonds[slot].keys
    /\ pc \in {"wAddr", "wMeta", "wDone"} => flash[slot].data = bonds[slot].data
    /\ pc \in {"wMeta", "wDone"} => flash[slot].addr = bonds[slot].addr
    /\ pc = "wDone" => flash[slot].valid
    /\ then = "boot" /\ Replacing => ~flash[0].valid /\ bonds[0].valid /\ Whole(bonds[0])

LinkInv ==
  initialized /\ peer \in Peers /\ activeSlot # NoSlot =>
    /\ bonds[activeSlot].valid
    /\ activeSlot \notin struck => bonds[activeSlot].data = peer

NoBondOf(p) == \A s \in InUse : bonds[s].data # p

StagedInv ==
  initialized /\ pendingActive /\ peer \in Peers =>
    /\ pairing = "keyed" => pending.keys[1] = peer /\ pending.addr = peer
    /\ NoBondOf(peer)

KeyedInv ==
  initialized /\ peer \in Peers /\ pairing = "keyed" /\ ~pendingActive /\ activeSlot # NoSlot =>
    bonds[activeSlot].keys[1] = peer /\ bonds[activeSlot].addr = peer

FoundInv ==
  pc = "dispatch" =>
    /\ slot # NoSlot => bonds[slot].valid /\ (slot \notin struck => bonds[slot].data = peer)
    /\ slot = NoSlot => NoBondOf(peer)

OldInv ==
  /\ legacy.addr # NoPeer /\ ~flash[0].valid =>
       legacy.keys[1] = legacy.data /\ legacy.addr \in {legacy.data, AddrOf(legacy.data)}
  /\ pc \in Deletes \/ (pc = "wDone" /\ then = "boot") => flash[0].valid

IInv ==
  /\ TypeOK /\ PlaceInv /\ SlotInv /\ TableInv /\ ProgressInv
  /\ LinkInv /\ StagedInv /\ KeyedInv /\ FoundInv /\ OldInv

\* Where StoreKeys puts the keys of the peer.
StoredIn(b, new, a) ==
  /\ new.valid = b.valid /\ new.data = b.data /\ new.used = b.used
  /\ new.keys[1] = peer /\ new.addr = IF a = NoPeer THEN b.addr ELSE a
KeysStaged(a) ==
  pendingActive /\ StoredIn(pending, pending', a) /\ UNCHANGED <<bonds, lock, pc, slot, then>>
KeysInSlot(a) ==
  /\ ~pendingActive /\ activeSlot \in Slots /\ StoredIn(bonds[activeSlot], bonds'[activeSlot], a)
  /\ \A s \in Slots : s # activeSlot => bonds'[s] = bonds[s]
  /\ lock' = TRUE /\ slot' = activeSlot /\ then' = "keys" /\ pc' = "wKeys" /\ pending' = pending
KeysNowhere ==
  ~pendingActive /\ activeSlot = NoSlot /\ UNCHANGED <<bonds, pending, lock, pc, slot, then>>

\* StoreKeys does one of the three.
LEMMA StoreKeysFacts ==
  ASSUME TypeOK, peer \in Peers, NEW a \in Peers \cup {NoPeer}, StoreKeys(a)
  PROVE  KeysStaged(a) \/ KeysInSlot(a) \/ KeysNowhere
<1> DEFINE new(b) == [b EXCEPT !.keys = <<peer, gen[peer]>>, !.addr = IF a = NoPeer THEN @ ELSE a]
<1>1. ASSUME NEW b \in Bonds PROVE StoredIn(b, new(b), a)
  BY DEF StoredIn, Bonds
<1>2. \/ /\ pendingActive /\ pending' = new(pending)
         /\ UNCHANGED <<bonds, lock, pc, slot, then>>
      \/ /\ ~pendingActive /\ activeSlot # NoSlot
         /\ bonds' = [bonds EXCEPT ![activeSlot] = new(@)]
         /\ lock' = TRUE /\ slot' = activeSlot /\ then' = "keys" /\ pc' = "wKeys"
         /\ UNCHANGED pending
      \/ KeysNowhere
  BY Zenon DEF StoreKeys, KeysNowhere, Goto
<1> HIDE DEF new
<1>3. /\ pending \in Bonds /\ bonds \in [Slots -> Bonds]
      /\ activeSlot # NoSlot => activeSlot \in Slots
  BY DEF TypeOK
<1> QED
  BY <1>1, <1>2, <1>3 DEF KeysStaged, KeysInSlot

\* Every step leads to a place the code has.
LEMMA PlaceStep ==
  ASSUME TypeOK, PlaceInv, [Next]_vars
  PROVE  PlaceInv'
<1> USE DEF TypeOK, PlaceInv, PeerInv, Writes, Deletes, Goto, At, ramVars, flashVars, linkVars,
  ghostVars
<1>1. CASE \E p \in Peers : ConnectionReq(p)
  BY <1>1 DEF ConnectionReq, Idle
<1>2. CASE Resolved
  BY <1>2 DEF Resolved, Idle
<1>3. CASE Reject
  BY <1>3 DEF Reject, Closing
<1>4. CASE KnownConnected
  BY <1>4 DEF KnownConnected
<1>5. CASE KnownConfirmed
  BY <1>5 DEF KnownConfirmed, Confirmed
<1>6. CASE UnknownConnected
  BY <1>6 DEF UnknownConnected, Confirmed
<1>7. CASE Disconnect
  BY <1>7 DEF Disconnect, Idle
<1>8. CASE PairingReq
  BY <1>8 DEF PairingReq, OnLink, Idle
<1>9. CASE ProvideLtk
  BY <1>9 DEF ProvideLtk, OnLink, Idle, StoreKeys
<1>10. CASE KeysReceived
  BY <1>10 DEF KeysReceived, OnLink, Idle, StoreKeys
<1>11. CASE KeysStored
  BY <1>11 DEF KeysStored
<1>12. CASE Commit
  BY <1>12 DEF Commit, OnLink, Idle
<1>13. CASE Refresh
  BY <1>13 DEF Refresh, OnLink, Idle
<1>14. CASE PairedStored
  BY <1>14 DEF PairedStored
<1>15. CASE PairedUnstored
  BY <1>15 DEF PairedUnstored, OnLink, Idle
<1>16. CASE PairFailed
  BY <1>16 DEF PairFailed, OnLink, Idle
<1>17. CASE EncryptFailed
  BY <1>17 DEF EncryptFailed, OnLink, Idle, Closing
<1>18. CASE \E p \in Peers : Forget(p)
  BY <1>18 DEF Forget
<1>19. CASE Write("wKeys", "wData")
  BY <1>19 DEF Write, Written, KeyAt
<1>20. CASE Write("wData", "wAddr")
  BY <1>20 DEF Write, Written, KeyAt
<1>21. CASE Write("wAddr", "wMeta")
  BY <1>21 DEF Write, Written, KeyAt
<1>22. CASE WriteMeta
  BY <1>22 DEF WriteMeta, Written, KeyAt
<1>23. CASE WarmBoot
  BY <1>23 DEF WarmBoot
<1>24. CASE ColdBoot
  BY <1>24 DEF ColdBoot
<1>25. CASE DeleteAddr
  BY <1>25 DEF DeleteAddr
<1>26. CASE Delete("wDone", "keys", NoKeys, "dData")
  BY <1>26 DEF Delete
<1>27. CASE Delete("dData", "data", NoPeer, "dAddr")
  BY <1>27 DEF Delete
<1>28. CASE WindowOpen
  BY <1>28 DEF WindowOpen, Idle, Closing
<1>29. CASE WindowTimeout
  BY <1>29 DEF WindowTimeout
<1>30. CASE WarmReset
  BY <1>30 DEF WarmReset, Reset, Cut
<1>31. CASE ColdReset
  BY <1>31 DEF ColdReset, Reset, Cut
<1>32. CASE UNCHANGED vars
  BY <1>32 DEF vars
<1> QED
  BY <1>1, <1>2, <1>3, <1>4, <1>5, <1>6, <1>7, <1>8, <1>9, <1>10, <1>11, <1>12, <1>13, <1>14,
    <1>15, <1>16, <1>17, <1>18, <1>19, <1>20, <1>21, <1>22, <1>23, <1>24, <1>25, <1>26, <1>27,
    <1>28, <1>29, <1>30, <1>31, <1>32 DEF Next, Connection, Pairing, Persist, Boot

\* The slot that is written is that of the link.
LEMMA SlotStep ==
  ASSUME IInv, TypeOK', PlaceInv', [Next]_vars
  PROVE  SlotInv'
<1> USE DEF IInv, TypeOK, PlaceInv, PeerInv, Writes, Deletes, SlotInv, LinkInv, KeyedInv,
  FoundInv, Goto, At, ramVars, flashVars, linkVars, ghostVars
<1>1. CASE \E p \in Peers : ConnectionReq(p)
  BY <1>1 DEF ConnectionReq, Idle
<1>2. CASE Resolved
  BY <1>2 DEF Resolved, Idle
<1>3. CASE Reject
  BY <1>3 DEF Reject, Closing
<1>4. CASE KnownConnected
  BY <1>4 DEF KnownConnected
<1>5. CASE KnownConfirmed
  BY <1>5 DEF KnownConfirmed, Confirmed
<1>6. CASE UnknownConnected
  BY <1>6 DEF UnknownConnected, Confirmed
<1>7. CASE Disconnect
  BY <1>7 DEF Disconnect, Idle
<1>8. CASE PairingReq
  BY <1>8 DEF PairingReq, OnLink, Idle
<1>9. CASE ProvideLtk
  <2>1. KeysStaged(NoPeer) \/ KeysInSlot(NoPeer) \/ KeysNowhere
    BY <1>9, StoreKeysFacts DEF ProvideLtk, OnLink, Idle
  <2>2. CASE KeysStaged(NoPeer)
    BY <1>9, <2>2 DEF ProvideLtk, OnLink, Idle, KeysStaged
  <2>3. CASE KeysInSlot(NoPeer)
    <3>1. initialized /\ peer \in Peers /\ activeSlot \in Slots /\ ~pendingActive
      BY <1>9, <2>3 DEF ProvideLtk, OnLink, Idle, KeysInSlot
    <3>2. bonds[activeSlot].valid /\ (activeSlot \notin struck => bonds[activeSlot].data = peer)
      BY <3>1, SlotsNat DEF LinkInv
    <3>3. /\ bonds'[activeSlot].valid = bonds[activeSlot].valid /\ bonds'[activeSlot].keys[1] = peer
          /\ bonds'[activeSlot].data = bonds[activeSlot].data
          /\ bonds'[activeSlot].addr = IF NoPeer = NoPeer THEN bonds[activeSlot].addr ELSE NoPeer
      BY <2>3, Zenon DEF KeysInSlot, StoredIn
    <3>4. /\ \A s \in Slots : s # activeSlot => bonds'[s] = bonds[s]
          /\ pc' = "wKeys" /\ slot' = activeSlot /\ then' = "keys"
      BY <2>3, Zenon DEF KeysInSlot
    <3>5. UNCHANGED <<initialized, activeSlot, pendingActive, peer, flash, struck>>
      BY <1>9 DEF ProvideLtk
    <3> QED
      BY <3>1, <3>2, <3>3, <3>4, <3>5
  <2>4. CASE KeysNowhere
    BY <1>9, <2>4 DEF ProvideLtk, OnLink, Idle, KeysNowhere
  <2> QED
    BY <2>1, <2>2, <2>3, <2>4
<1>10. CASE KeysReceived
  <2>1. KeysStaged(peer) \/ KeysInSlot(peer) \/ KeysNowhere
    BY <1>10, StoreKeysFacts DEF KeysReceived, OnLink, Idle
  <2>2. CASE KeysStaged(peer)
    BY <1>10, <2>2 DEF KeysReceived, OnLink, Idle, KeysStaged
  <2>3. CASE KeysInSlot(peer)
    <3>1. initialized /\ peer \in Peers /\ activeSlot \in Slots /\ ~pendingActive
      BY <1>10, <2>3 DEF KeysReceived, OnLink, Idle, KeysInSlot
    <3>2. bonds[activeSlot].valid /\ (activeSlot \notin struck => bonds[activeSlot].data = peer)
      BY <3>1, SlotsNat DEF LinkInv
    <3>3. /\ bonds'[activeSlot].valid = bonds[activeSlot].valid /\ bonds'[activeSlot].keys[1] = peer
          /\ bonds'[activeSlot].data = bonds[activeSlot].data
          /\ bonds'[activeSlot].addr = IF peer = NoPeer THEN bonds[activeSlot].addr ELSE peer
      BY <2>3, Zenon DEF KeysInSlot, StoredIn
    <3>4. /\ \A s \in Slots : s # activeSlot => bonds'[s] = bonds[s]
          /\ pc' = "wKeys" /\ slot' = activeSlot /\ then' = "keys"
      BY <2>3, Zenon DEF KeysInSlot
    <3>5. UNCHANGED <<initialized, activeSlot, pendingActive, peer, flash, struck>>
      BY <1>10 DEF KeysReceived
    <3> QED
      BY <3>1, <3>2, <3>3, <3>4, <3>5
  <2>4. CASE KeysNowhere
    BY <1>10, <2>4 DEF KeysReceived, OnLink, Idle, KeysNowhere
  <2> QED
    BY <2>1, <2>2, <2>3, <2>4
<1>11. CASE KeysStored
  BY <1>11 DEF KeysStored
<1>12. CASE Commit
  BY <1>12, CommitSlotType DEF Commit, OnLink, Idle, StagedInv, Bonds
<1>13. CASE Refresh
  BY <1>13 DEF Refresh, OnLink, Idle
<1>14. CASE PairedStored
  BY <1>14 DEF PairedStored
<1>15. CASE PairedUnstored
  BY <1>15 DEF PairedUnstored, OnLink, Idle
<1>16. CASE PairFailed
  BY <1>16 DEF PairFailed, OnLink, Idle
<1>17. CASE EncryptFailed
  BY <1>17 DEF EncryptFailed, OnLink, Idle, Closing
<1>18. CASE \E p \in Peers : Forget(p)
  BY <1>18 DEF Forget
<1>19. CASE Write("wKeys", "wData")
  BY <1>19 DEF Write, Written, KeyAt
<1>20. CASE Write("wData", "wAddr")
  BY <1>20 DEF Write, Written, KeyAt
<1>21. CASE Write("wAddr", "wMeta")
  BY <1>21 DEF Write, Written, KeyAt
<1>22. CASE WriteMeta
  BY <1>22 DEF WriteMeta, Written, KeyAt
<1>23. CASE WarmBoot
  BY <1>23 DEF WarmBoot
<1>24. CASE ColdBoot
  BY <1>24 DEF ColdBoot
<1>25. CASE DeleteAddr
  BY <1>25 DEF DeleteAddr
<1>26. CASE Delete("wDone", "keys", NoKeys, "dData")
  BY <1>26 DEF Delete
<1>27. CASE Delete("dData", "data", NoPeer, "dAddr")
  BY <1>27 DEF Delete
<1>28. CASE WindowOpen
  BY <1>28 DEF WindowOpen, Idle, Closing
<1>29. CASE WindowTimeout
  BY <1>29 DEF WindowTimeout
<1>30. CASE WarmReset
  BY <1>30 DEF WarmReset, Reset, Cut
<1>31. CASE ColdReset
  BY <1>31 DEF ColdReset, Reset, Cut
<1>32. CASE UNCHANGED vars
  BY <1>32 DEF vars
<1> QED
  BY <1>1, <1>2, <1>3, <1>4, <1>5, <1>6, <1>7, <1>8, <1>9, <1>10, <1>11, <1>12, <1>13, <1>14,
    <1>15, <1>16, <1>17, <1>18, <1>19, <1>20, <1>21, <1>22, <1>23, <1>24, <1>25, <1>26, <1>27,
    <1>28, <1>29, <1>30, <1>31, <1>32 DEF Next, Connection, Pairing, Persist, Boot

\* The writes of a slot go in order.
LEMMA ProgressStep ==
  ASSUME IInv, TypeOK', PlaceInv', [Next]_vars
  PROVE  ProgressInv'
<1> USE DEF IInv, TypeOK, PlaceInv, PeerInv, Writes, Deletes, SlotInv, ProgressInv, Replacing,
  Goto, At, ramVars, flashVars, linkVars, ghostVars
<1>1. CASE \E p \in Peers : ConnectionReq(p)
  BY <1>1 DEF ConnectionReq, Idle
<1>2. CASE Resolved
  BY <1>2 DEF Resolved, Idle
<1>3. CASE Reject
  BY <1>3 DEF Reject, Closing
<1>4. CASE KnownConnected
  BY <1>4 DEF KnownConnected
<1>5. CASE KnownConfirmed
  BY <1>5 DEF KnownConfirmed, Confirmed
<1>6. CASE UnknownConnected
  BY <1>6 DEF UnknownConnected, Confirmed
<1>7. CASE Disconnect
  BY <1>7 DEF Disconnect, Idle
<1>8. CASE PairingReq
  BY <1>8 DEF PairingReq, OnLink, Idle
<1>9. CASE ProvideLtk
  BY <1>9 DEF ProvideLtk, OnLink, Idle, StoreKeys
<1>10. CASE KeysReceived
  BY <1>10 DEF KeysReceived, OnLink, Idle, StoreKeys
<1>11. CASE KeysStored
  BY <1>11 DEF KeysStored
<1>12. CASE Commit
  BY <1>12 DEF Commit, OnLink, Idle
<1>13. CASE Refresh
  BY <1>13 DEF Refresh, OnLink, Idle
<1>14. CASE PairedStored
  BY <1>14 DEF PairedStored
<1>15. CASE PairedUnstored
  BY <1>15 DEF PairedUnstored, OnLink, Idle
<1>16. CASE PairFailed
  BY <1>16 DEF PairFailed, OnLink, Idle
<1>17. CASE EncryptFailed
  BY <1>17 DEF EncryptFailed, OnLink, Idle, Closing
<1>18. CASE \E p \in Peers : Forget(p)
  BY <1>18 DEF Forget
<1>19. CASE Write("wKeys", "wData")
  BY <1>19 DEF Write, Written, KeyAt
<1>20. CASE Write("wData", "wAddr")
  BY <1>20 DEF Write, Written, KeyAt
<1>21. CASE Write("wAddr", "wMeta")
  BY <1>21 DEF Write, Written, KeyAt
<1>22. CASE WriteMeta
  BY <1>22 DEF WriteMeta, Written, KeyAt
<1>23. CASE WarmBoot
  BY <1>23 DEF WarmBoot
<1>24. CASE ColdBoot
  <2>1. 0 \in Slots
    BY SlotsNat
  <2>2. CASE Imports
    <3>1. bonds'[0] = Import(HighestUse + 1) /\ slot' = 0 /\ pc' = "wKeys" /\ then' = "boot"
      BY <1>24, <2>1, <2>2 DEF ColdBoot, Imports
    <3>2. ~flash[0].valid /\ legacy.addr # NoPeer /\ flash' = flash
      BY <1>24, <2>2 DEF ColdBoot, Imports, Loaded
    <3> QED
      BY <3>1, <3>2 DEF Import, OldInv, Whole
  <2>3. CASE ~Imports
    <3>1. pc' = "idle" \/ (flash[0].valid /\ slot' = 0 /\ pc' = "wDone" /\ bonds'[0] = flash[0])
      BY <1>24, <2>1, <2>3 DEF ColdBoot, Imports, Loaded, Empty
    <3> QED
      BY <1>24, <2>1, <3>1 DEF ColdBoot
  <2> QED
    BY <2>2, <2>3
<1>25. CASE DeleteAddr
  BY <1>25 DEF DeleteAddr
<1>26. CASE Delete("wDone", "keys", NoKeys, "dData")
  BY <1>26 DEF Delete
<1>27. CASE Delete("dData", "data", NoPeer, "dAddr")
  BY <1>27 DEF Delete
<1>28. CASE WindowOpen
  BY <1>28 DEF WindowOpen, Idle, Closing
<1>29. CASE WindowTimeout
  BY <1>29 DEF WindowTimeout
<1>30. CASE WarmReset
  BY <1>30 DEF WarmReset, Reset, Cut
<1>31. CASE ColdReset
  BY <1>31 DEF ColdReset, Reset, Cut
<1>32. CASE UNCHANGED vars
  BY <1>32 DEF vars
<1> QED
  BY <1>1, <1>2, <1>3, <1>4, <1>5, <1>6, <1>7, <1>8, <1>9, <1>10, <1>11, <1>12, <1>13, <1>14,
    <1>15, <1>16, <1>17, <1>18, <1>19, <1>20, <1>21, <1>22, <1>23, <1>24, <1>25, <1>26, <1>27,
    <1>28, <1>29, <1>30, <1>31, <1>32 DEF Next, Connection, Pairing, Persist, Boot

\* Bonds outside the slot in between, and the struck ones, are whole and on flash.
LEMMA TableStep ==
  ASSUME IInv, TypeOK', PlaceInv', SlotInv', [Next]_vars
  PROVE  TableInv'
<1> USE DEF IInv, TypeOK, PlaceInv, PeerInv, Writes, Deletes, SlotInv, TableInv, RamInv, FlashInv,
  AgreeInv, Up, Settled, InUse, Whole, Replacing, Goto, At, ramVars, flashVars, linkVars,
  ghostVars
<1>1. CASE \E p \in Peers : ConnectionReq(p)
  BY <1>1 DEF ConnectionReq, Idle
<1>2. CASE Resolved
  BY <1>2 DEF Resolved, Idle
<1>3. CASE Reject
  BY <1>3 DEF Reject, Closing
<1>4. CASE KnownConnected
  BY <1>4 DEF KnownConnected
<1>5. CASE KnownConfirmed
  BY <1>5 DEF KnownConfirmed, Confirmed
<1>6. CASE UnknownConnected
  BY <1>6 DEF UnknownConnected, Confirmed
<1>7. CASE Disconnect
  BY <1>7 DEF Disconnect, Idle
<1>8. CASE PairingReq
  BY <1>8 DEF PairingReq, OnLink, Idle
<1>9. CASE ProvideLtk
  <2>1. KeysStaged(NoPeer) \/ KeysInSlot(NoPeer) \/ KeysNowhere
    BY <1>9, StoreKeysFacts DEF ProvideLtk, OnLink, Idle
  <2>2. CASE KeysStaged(NoPeer)
    BY <1>9, <2>2 DEF ProvideLtk, OnLink, Idle, KeysStaged
  <2>3. CASE KeysInSlot(NoPeer)
    <3>1. initialized /\ peer \in Peers /\ activeSlot \in Slots /\ ~pendingActive
      BY <1>9, <2>3 DEF ProvideLtk, OnLink, Idle, KeysInSlot
    <3>2. bonds[activeSlot].valid /\ (activeSlot \notin struck => bonds[activeSlot].data = peer)
      BY <3>1, SlotsNat DEF LinkInv
    <3>3. /\ bonds'[activeSlot].valid = bonds[activeSlot].valid /\ bonds'[activeSlot].keys[1] = peer
          /\ bonds'[activeSlot].data = bonds[activeSlot].data
          /\ bonds'[activeSlot].addr = IF NoPeer = NoPeer THEN bonds[activeSlot].addr ELSE NoPeer
      BY <2>3, Zenon DEF KeysInSlot, StoredIn
    <3>4. /\ \A s \in Slots : s # activeSlot => bonds'[s] = bonds[s]
          /\ pc' = "wKeys" /\ slot' = activeSlot /\ then' = "keys"
      BY <2>3, Zenon DEF KeysInSlot
    <3>5. UNCHANGED <<initialized, activeSlot, pendingActive, peer, flash, struck>>
      BY <1>9 DEF ProvideLtk
    <3>6. ~Replacing /\ ~Replacing' /\ Up
      BY <1>9, <3>1, <3>4 DEF ProvideLtk, OnLink, Idle
    <3>7. RamInv'
      BY <3>1, <3>2, <3>3, <3>4, <3>5, <3>6
    <3>8. FlashInv'
      BY <3>5, <3>6
    <3>9. AgreeInv'
      BY <3>1, <3>2, <3>3, <3>4, <3>5, <3>6
    <3> QED
      BY <3>7, <3>8, <3>9
  <2>4. CASE KeysNowhere
    BY <1>9, <2>4 DEF ProvideLtk, OnLink, Idle, KeysNowhere
  <2> QED
    BY <2>1, <2>2, <2>3, <2>4
<1>10. CASE KeysReceived
  <2>1. KeysStaged(peer) \/ KeysInSlot(peer) \/ KeysNowhere
    BY <1>10, StoreKeysFacts DEF KeysReceived, OnLink, Idle
  <2>2. CASE KeysStaged(peer)
    BY <1>10, <2>2 DEF KeysReceived, OnLink, Idle, KeysStaged
  <2>3. CASE KeysInSlot(peer)
    <3>1. initialized /\ peer \in Peers /\ activeSlot \in Slots /\ ~pendingActive
      BY <1>10, <2>3 DEF KeysReceived, OnLink, Idle, KeysInSlot
    <3>2. bonds[activeSlot].valid /\ (activeSlot \notin struck => bonds[activeSlot].data = peer)
      BY <3>1, SlotsNat DEF LinkInv
    <3>3. /\ bonds'[activeSlot].valid = bonds[activeSlot].valid /\ bonds'[activeSlot].keys[1] = peer
          /\ bonds'[activeSlot].data = bonds[activeSlot].data
          /\ bonds'[activeSlot].addr = IF peer = NoPeer THEN bonds[activeSlot].addr ELSE peer
      BY <2>3, Zenon DEF KeysInSlot, StoredIn
    <3>4. /\ \A s \in Slots : s # activeSlot => bonds'[s] = bonds[s]
          /\ pc' = "wKeys" /\ slot' = activeSlot /\ then' = "keys"
      BY <2>3, Zenon DEF KeysInSlot
    <3>5. UNCHANGED <<initialized, activeSlot, pendingActive, peer, flash, struck>>
      BY <1>10 DEF KeysReceived
    <3>6. ~Replacing /\ ~Replacing' /\ Up
      BY <1>10, <3>1, <3>4 DEF KeysReceived, OnLink, Idle
    <3>7. RamInv'
      BY <3>1, <3>2, <3>3, <3>4, <3>5, <3>6
    <3>8. FlashInv'
      BY <3>5, <3>6
    <3>9. AgreeInv'
      BY <3>1, <3>2, <3>3, <3>4, <3>5, <3>6
    <3> QED
      BY <3>7, <3>8, <3>9
  <2>4. CASE KeysNowhere
    BY <1>10, <2>4 DEF KeysReceived, OnLink, Idle, KeysNowhere
  <2> QED
    BY <2>1, <2>2, <2>3, <2>4
<1>11. CASE KeysStored
  BY <1>11 DEF KeysStored
<1>12. CASE Commit
  BY <1>12, CommitSlotType DEF Commit, OnLink, Idle, StagedInv, Bonds
<1>13. CASE Refresh
  BY <1>13 DEF Refresh, OnLink, Idle
<1>14. CASE PairedStored
  BY <1>14 DEF PairedStored
<1>15. CASE PairedUnstored
  BY <1>15 DEF PairedUnstored, OnLink, Idle
<1>16. CASE PairFailed
  BY <1>16 DEF PairFailed, OnLink, Idle
<1>17. CASE EncryptFailed
  BY <1>17 DEF EncryptFailed, OnLink, Idle, Closing
<1>18. CASE \E p \in Peers : Forget(p)
  BY <1>18 DEF Forget
<1>19. CASE Write("wKeys", "wData")
  BY <1>19 DEF Write, Written, KeyAt
<1>20. CASE Write("wData", "wAddr")
  BY <1>20 DEF Write, Written, KeyAt
<1>21. CASE Write("wAddr", "wMeta")
  BY <1>21 DEF Write, Written, KeyAt
<1>22. CASE WriteMeta
  <2>1. RamInv'
    BY <1>22 DEF WriteMeta
  <2>2. FlashInv'
    BY <1>22 DEF WriteMeta, Written, KeyAt, ProgressInv
  <2>3. AgreeInv'
    BY <1>22 DEF WriteMeta, Written, KeyAt, ProgressInv
  <2> QED
    BY <2>1, <2>2, <2>3
<1>23. CASE WarmBoot
  BY <1>23 DEF WarmBoot
<1>24. CASE ColdBoot
  <2>1. RamInv'
    BY <1>24 DEF ColdBoot, Loaded, Imports, Import, OldInv, Empty
  <2>2. FlashInv'
    BY <1>24 DEF ColdBoot
  <2>3. AgreeInv'
    BY <1>24 DEF ColdBoot, Loaded, Imports, Import, Empty
  <2> QED
    BY <2>1, <2>2, <2>3
<1>25. CASE DeleteAddr
  BY <1>25 DEF DeleteAddr
<1>26. CASE Delete("wDone", "keys", NoKeys, "dData")
  BY <1>26 DEF Delete
<1>27. CASE Delete("dData", "data", NoPeer, "dAddr")
  BY <1>27 DEF Delete
<1>28. CASE WindowOpen
  BY <1>28 DEF WindowOpen, Idle, Closing
<1>29. CASE WindowTimeout
  BY <1>29 DEF WindowTimeout
<1>30. CASE WarmReset
  <2>1. RamInv'
    BY <1>30 DEF WarmReset, Reset, Cut
  <2>2. FlashInv'
    BY <1>30 DEF WarmReset, Reset, Cut, ProgressInv
  <2>3. AgreeInv'
    BY <1>30 DEF WarmReset, Reset, Cut
  <2> QED
    BY <2>1, <2>2, <2>3
<1>31. CASE ColdReset
  <2>1. RamInv' /\ AgreeInv'
    BY <1>31 DEF ColdReset, Reset
  <2>2. FlashInv'
    BY <1>31 DEF ColdReset, Reset, Cut, ProgressInv
  <2> QED
    BY <2>1, <2>2
<1>32. CASE UNCHANGED vars
  BY <1>32 DEF vars
<1> QED
  BY <1>1, <1>2, <1>3, <1>4, <1>5, <1>6, <1>7, <1>8, <1>9, <1>10, <1>11, <1>12, <1>13, <1>14,
    <1>15, <1>16, <1>17, <1>18, <1>19, <1>20, <1>21, <1>22, <1>23, <1>24, <1>25, <1>26, <1>27,
    <1>28, <1>29, <1>30, <1>31, <1>32 DEF Next, Connection, Pairing, Persist, Boot

\* The link stays with the bond of its peer.
LEMMA LinkStep ==
  ASSUME IInv, TypeOK', PlaceInv', SlotInv', [Next]_vars
  PROVE  LinkInv'
<1> USE SecurityAssumption DEF SecurityAssumption, IInv, TypeOK, PlaceInv, PeerInv, Writes,
  Deletes, SlotInv, LinkInv, FoundInv, Whole, Goto, At, ramVars, flashVars, linkVars, ghostVars
<1>1. CASE \E p \in Peers : ConnectionReq(p)
  BY <1>1 DEF ConnectionReq, Idle
<1>2. CASE Resolved
  BY <1>2 DEF Resolved, Idle
<1>3. CASE Reject
  BY <1>3 DEF Reject, Closing
<1>4. CASE KnownConnected
  BY <1>4 DEF KnownConnected
<1>5. CASE KnownConfirmed
  BY <1>5 DEF KnownConfirmed, Confirmed
<1>6. CASE UnknownConnected
  BY <1>6 DEF UnknownConnected, Confirmed
<1>7. CASE Disconnect
  BY <1>7 DEF Disconnect, Idle
<1>8. CASE PairingReq
  BY <1>8 DEF PairingReq, OnLink, Idle
<1>9. CASE ProvideLtk
  <2>1. KeysStaged(NoPeer) \/ KeysInSlot(NoPeer) \/ KeysNowhere
    BY <1>9, StoreKeysFacts DEF ProvideLtk, OnLink, Idle
  <2> QED
    BY <1>9, <2>1 DEF ProvideLtk, OnLink, Idle, KeysStaged, KeysInSlot, KeysNowhere, StoredIn
<1>10. CASE KeysReceived
  <2>1. KeysStaged(peer) \/ KeysInSlot(peer) \/ KeysNowhere
    BY <1>10, StoreKeysFacts DEF KeysReceived, OnLink, Idle
  <2> QED
    BY <1>10, <2>1 DEF KeysReceived, OnLink, Idle, KeysStaged, KeysInSlot, KeysNowhere, StoredIn
<1>11. CASE KeysStored
  BY <1>11 DEF KeysStored
<1>12. CASE Commit
  BY <1>12 DEF Commit, OnLink, Idle
<1>13. CASE Refresh
  BY <1>13 DEF Refresh, OnLink, Idle
<1>14. CASE PairedStored
  BY <1>14 DEF PairedStored
<1>15. CASE PairedUnstored
  BY <1>15 DEF PairedUnstored, OnLink, Idle
<1>16. CASE PairFailed
  BY <1>16 DEF PairFailed, OnLink, Idle
<1>17. CASE EncryptFailed
  BY <1>17 DEF EncryptFailed, OnLink, Idle, Closing
<1>18. CASE \E p \in Peers : Forget(p)
  BY <1>18 DEF Forget
<1>19. CASE Write("wKeys", "wData")
  BY <1>19 DEF Write, Written, KeyAt
<1>20. CASE Write("wData", "wAddr")
  BY <1>20 DEF Write, Written, KeyAt
<1>21. CASE Write("wAddr", "wMeta")
  BY <1>21 DEF Write, Written, KeyAt
<1>22. CASE WriteMeta
  BY <1>22 DEF WriteMeta, Written, KeyAt
<1>23. CASE WarmBoot
  BY <1>23 DEF WarmBoot
<1>24. CASE ColdBoot
  BY <1>24 DEF ColdBoot
<1>25. CASE DeleteAddr
  BY <1>25 DEF DeleteAddr
<1>26. CASE Delete("wDone", "keys", NoKeys, "dData")
  BY <1>26 DEF Delete
<1>27. CASE Delete("dData", "data", NoPeer, "dAddr")
  BY <1>27 DEF Delete
<1>28. CASE WindowOpen
  BY <1>28 DEF WindowOpen, Idle, Closing
<1>29. CASE WindowTimeout
  BY <1>29 DEF WindowTimeout
<1>30. CASE WarmReset
  BY <1>30 DEF WarmReset, Reset, Cut
<1>31. CASE ColdReset
  BY <1>31 DEF ColdReset, Reset, Cut
<1>32. CASE UNCHANGED vars
  BY <1>32 DEF vars
<1> QED
  BY <1>1, <1>2, <1>3, <1>4, <1>5, <1>6, <1>7, <1>8, <1>9, <1>10, <1>11, <1>12, <1>13, <1>14,
    <1>15, <1>16, <1>17, <1>18, <1>19, <1>20, <1>21, <1>22, <1>23, <1>24, <1>25, <1>26, <1>27,
    <1>28, <1>29, <1>30, <1>31, <1>32 DEF Next, Connection, Pairing, Persist, Boot

\* Only a peer without a bond is staged.
LEMMA StagedStep ==
  ASSUME IInv, TypeOK', PlaceInv', SlotInv', [Next]_vars
  PROVE  StagedInv'
<1> USE SecurityAssumption DEF SecurityAssumption, IInv, TypeOK, PlaceInv, PeerInv, Writes,
  Deletes, SlotInv, StagedInv, FoundInv, NoBondOf, InUse, Goto, At, ramVars, flashVars, linkVars,
  ghostVars
<1>1. CASE \E p \in Peers : ConnectionReq(p)
  BY <1>1 DEF ConnectionReq, Idle
<1>2. CASE Resolved
  BY <1>2 DEF Resolved, Idle
<1>3. CASE Reject
  BY <1>3 DEF Reject, Closing
<1>4. CASE KnownConnected
  BY <1>4 DEF KnownConnected
<1>5. CASE KnownConfirmed
  BY <1>5 DEF KnownConfirmed, Confirmed
<1>6. CASE UnknownConnected
  BY <1>6 DEF UnknownConnected, Confirmed
<1>7. CASE Disconnect
  BY <1>7 DEF Disconnect, Idle
<1>8. CASE PairingReq
  BY <1>8 DEF PairingReq, OnLink, Idle
<1>9. CASE ProvideLtk
  <2>1. KeysStaged(NoPeer) \/ KeysInSlot(NoPeer) \/ KeysNowhere
    BY <1>9, StoreKeysFacts DEF ProvideLtk, OnLink, Idle
  <2> QED
    BY <1>9, <2>1 DEF ProvideLtk, OnLink, Idle, KeysStaged, KeysInSlot, KeysNowhere, StoredIn
<1>10. CASE KeysReceived
  <2>1. KeysStaged(peer) \/ KeysInSlot(peer) \/ KeysNowhere
    BY <1>10, StoreKeysFacts DEF KeysReceived, OnLink, Idle
  <2> QED
    BY <1>10, <2>1 DEF KeysReceived, OnLink, Idle, KeysStaged, KeysInSlot, KeysNowhere, StoredIn
<1>11. CASE KeysStored
  BY <1>11 DEF KeysStored
<1>12. CASE Commit
  BY <1>12 DEF Commit, OnLink, Idle
<1>13. CASE Refresh
  BY <1>13 DEF Refresh, OnLink, Idle
<1>14. CASE PairedStored
  BY <1>14 DEF PairedStored
<1>15. CASE PairedUnstored
  BY <1>15 DEF PairedUnstored, OnLink, Idle
<1>16. CASE PairFailed
  BY <1>16 DEF PairFailed, OnLink, Idle
<1>17. CASE EncryptFailed
  BY <1>17 DEF EncryptFailed, OnLink, Idle, Closing
<1>18. CASE \E p \in Peers : Forget(p)
  BY <1>18 DEF Forget
<1>19. CASE Write("wKeys", "wData")
  BY <1>19 DEF Write, Written, KeyAt
<1>20. CASE Write("wData", "wAddr")
  BY <1>20 DEF Write, Written, KeyAt
<1>21. CASE Write("wAddr", "wMeta")
  BY <1>21 DEF Write, Written, KeyAt
<1>22. CASE WriteMeta
  BY <1>22 DEF WriteMeta, Written, KeyAt
<1>23. CASE WarmBoot
  BY <1>23 DEF WarmBoot
<1>24. CASE ColdBoot
  BY <1>24 DEF ColdBoot
<1>25. CASE DeleteAddr
  BY <1>25 DEF DeleteAddr
<1>26. CASE Delete("wDone", "keys", NoKeys, "dData")
  BY <1>26 DEF Delete
<1>27. CASE Delete("dData", "data", NoPeer, "dAddr")
  BY <1>27 DEF Delete
<1>28. CASE WindowOpen
  BY <1>28 DEF WindowOpen, Idle, Closing
<1>29. CASE WindowTimeout
  BY <1>29 DEF WindowTimeout
<1>30. CASE WarmReset
  BY <1>30 DEF WarmReset, Reset, Cut
<1>31. CASE ColdReset
  BY <1>31 DEF ColdReset, Reset, Cut
<1>32. CASE UNCHANGED vars
  BY <1>32 DEF vars
<1> QED
  BY <1>1, <1>2, <1>3, <1>4, <1>5, <1>6, <1>7, <1>8, <1>9, <1>10, <1>11, <1>12, <1>13, <1>14,
    <1>15, <1>16, <1>17, <1>18, <1>19, <1>20, <1>21, <1>22, <1>23, <1>24, <1>25, <1>26, <1>27,
    <1>28, <1>29, <1>30, <1>31, <1>32 DEF Next, Connection, Pairing, Persist, Boot

\* The keys are in the bond that on_paired completes.
LEMMA KeyedStep ==
  ASSUME IInv, TypeOK', PlaceInv', SlotInv', [Next]_vars
  PROVE  KeyedInv'
<1> USE SecurityAssumption DEF SecurityAssumption, IInv, TypeOK, PlaceInv, PeerInv, Writes,
  Deletes, SlotInv, KeyedInv, StagedInv, Goto, At, ramVars, flashVars, linkVars, ghostVars
<1>1. CASE \E p \in Peers : ConnectionReq(p)
  BY <1>1 DEF ConnectionReq, Idle
<1>2. CASE Resolved
  BY <1>2 DEF Resolved, Idle
<1>3. CASE Reject
  BY <1>3 DEF Reject, Closing
<1>4. CASE KnownConnected
  BY <1>4 DEF KnownConnected
<1>5. CASE KnownConfirmed
  BY <1>5 DEF KnownConfirmed, Confirmed
<1>6. CASE UnknownConnected
  BY <1>6 DEF UnknownConnected, Confirmed
<1>7. CASE Disconnect
  BY <1>7 DEF Disconnect, Idle
<1>8. CASE PairingReq
  BY <1>8 DEF PairingReq, OnLink, Idle
<1>9. CASE ProvideLtk
  BY <1>9 DEF ProvideLtk, OnLink, Idle, StoreKeys
<1>10. CASE KeysReceived
  <2>1. KeysStaged(peer) \/ KeysInSlot(peer) \/ KeysNowhere
    BY <1>10, StoreKeysFacts DEF KeysReceived, OnLink, Idle
  <2> QED
    BY <1>10, <2>1 DEF KeysReceived, OnLink, Idle, KeysStaged, KeysInSlot, KeysNowhere, StoredIn
<1>11. CASE KeysStored
  BY <1>11 DEF KeysStored
<1>12. CASE Commit
  BY <1>12 DEF Commit, OnLink, Idle
<1>13. CASE Refresh
  BY <1>13 DEF Refresh, OnLink, Idle
<1>14. CASE PairedStored
  BY <1>14 DEF PairedStored
<1>15. CASE PairedUnstored
  BY <1>15 DEF PairedUnstored, OnLink, Idle
<1>16. CASE PairFailed
  BY <1>16 DEF PairFailed, OnLink, Idle
<1>17. CASE EncryptFailed
  BY <1>17 DEF EncryptFailed, OnLink, Idle, Closing
<1>18. CASE \E p \in Peers : Forget(p)
  BY <1>18 DEF Forget
<1>19. CASE Write("wKeys", "wData")
  BY <1>19 DEF Write, Written, KeyAt
<1>20. CASE Write("wData", "wAddr")
  BY <1>20 DEF Write, Written, KeyAt
<1>21. CASE Write("wAddr", "wMeta")
  BY <1>21 DEF Write, Written, KeyAt
<1>22. CASE WriteMeta
  BY <1>22 DEF WriteMeta, Written, KeyAt
<1>23. CASE WarmBoot
  BY <1>23 DEF WarmBoot
<1>24. CASE ColdBoot
  BY <1>24 DEF ColdBoot
<1>25. CASE DeleteAddr
  BY <1>25 DEF DeleteAddr
<1>26. CASE Delete("wDone", "keys", NoKeys, "dData")
  BY <1>26 DEF Delete
<1>27. CASE Delete("dData", "data", NoPeer, "dAddr")
  BY <1>27 DEF Delete
<1>28. CASE WindowOpen
  BY <1>28 DEF WindowOpen, Idle, Closing
<1>29. CASE WindowTimeout
  BY <1>29 DEF WindowTimeout
<1>30. CASE WarmReset
  BY <1>30 DEF WarmReset, Reset, Cut
<1>31. CASE ColdReset
  BY <1>31 DEF ColdReset, Reset, Cut
<1>32. CASE UNCHANGED vars
  BY <1>32 DEF vars
<1> QED
  BY <1>1, <1>2, <1>3, <1>4, <1>5, <1>6, <1>7, <1>8, <1>9, <1>10, <1>11, <1>12, <1>13, <1>14,
    <1>15, <1>16, <1>17, <1>18, <1>19, <1>20, <1>21, <1>22, <1>23, <1>24, <1>25, <1>26, <1>27,
    <1>28, <1>29, <1>30, <1>31, <1>32 DEF Next, Connection, Pairing, Persist, Boot

\* A lookup on connection finds a bond of the peer, if there is one.
Finds(p, s) ==
  /\ s # NoSlot => bonds[s].valid /\ (s \notin struck => bonds[s].data = p)
  /\ s = NoSlot => NoBondOf(p)

\* halo_ble_sec_on_connection, by address and by IRK.
LEMMA ByAddr ==
  ASSUME TypeOK, initialized, RamInv, NEW p \in Peers,
         SlotByAddr(p) # NoSlot \/ ~ (p \in Private /\ \E s \in Used : bonds[s].keys # NoKeys)
  PROVE  Finds(p, SlotByAddr(p))
<1> DEFINE S == {s \in Used : p \notin Private /\ bonds[s].addr = p}
<1> USE DEF Used, InUse
<1>1. \A s \in InUse : Whole(bonds[s])
  BY DEF RamInv, Up
<1>2. CASE S # {}
  <2>1. SlotByAddr(p) \in S
    BY <1>2, FirstFound DEF SlotByAddr
  <2>2. \A s \in InUse : bonds[s].addr = p => bonds[s].data = p
    BY <1>1, SecurityAssumption DEF Whole, AddrOf, SecurityAssumption
  <2> QED
    BY <2>1, <2>2, SlotsNat DEF Finds
<1>3. CASE S = {}
  <2>1. SlotByAddr(p) = NoSlot
    BY <1>3, FirstFound DEF SlotByAddr
  <2>2. NoBondOf(p)
    <3> SUFFICES ASSUME NEW s \in InUse, bonds[s].data = p PROVE FALSE
      BY DEF NoBondOf
    <3>1. bonds[s].keys[1] = p /\ bonds[s].addr \in {p, AddrOf(p)}
      BY <1>1 DEF Whole
    <3>2. p # NoPeer
      BY SecurityAssumption DEF SecurityAssumption
    <3>3. bonds[s].keys # NoKeys
      BY <3>1, <3>2 DEF NoKeys
    <3> QED
      BY <3>1, <3>3, <2>1, <1>3 DEF AddrOf
  <2> QED
    BY <2>1, <2>2 DEF Finds
<1> QED
  BY <1>2, <1>3

\* The stack resolves the address against the IRKs.
LEMMA ByIrk ==
  ASSUME TypeOK, initialized, RamInv, NEW p \in Peers
  PROVE  Finds(p, SlotByIrk(p))
<1> DEFINE S == {s \in Used : bonds[s].keys[1] = p}
<1> USE DEF Used, InUse
<1>1. \A s \in InUse : bonds[s].keys[1] = bonds[s].data
  BY DEF RamInv, Up, Whole
<1>2. CASE S # {}
  <2>1. SlotByIrk(p) \in S
    BY <1>2, FirstFound DEF SlotByIrk
  <2> QED
    BY <1>1, <2>1, SlotsNat DEF Finds
<1>3. CASE S = {}
  <2>1. SlotByIrk(p) = NoSlot
    BY <1>3, FirstFound DEF SlotByIrk
  <2> QED
    BY <1>1, <1>3, <2>1 DEF Finds, NoBondOf
<1> QED
  BY <1>2, <1>3

\* A connection finds the bond of its peer.
LEMMA FoundStep ==
  ASSUME IInv, TypeOK', PlaceInv', SlotInv', [Next]_vars
  PROVE  FoundInv'
<1> USE DEF IInv, TypeOK, PlaceInv, PeerInv, Writes, Deletes, FoundInv, NoBondOf, InUse, Used,
  Goto, At, ramVars, flashVars, linkVars, ghostVars
<1>1. CASE \E p \in Peers : ConnectionReq(p)
  <2>1. PICK p \in Peers : ConnectionReq(p)
    BY <1>1
  <2>2. pc' = "dispatch" =>
          slot' = SlotByAddr(p)
          /\ (slot' # NoSlot \/ ~ (p \in Private /\ \E s \in Used : bonds[s].keys # NoKeys))
    BY <2>1 DEF ConnectionReq
  <2>3. pc' = "dispatch" => Finds(p, slot')
    BY <2>1, <2>2, ByAddr DEF ConnectionReq, Idle, TableInv
  <2> QED
    BY <2>1, <2>3 DEF Finds, ConnectionReq
<1>2. CASE Resolved
  BY <1>2, ByIrk DEF Finds, Resolved, Idle, TableInv, Up
<1>3. CASE Reject
  BY <1>3 DEF Reject, Closing
<1>4. CASE KnownConnected
  BY <1>4 DEF KnownConnected
<1>5. CASE KnownConfirmed
  BY <1>5 DEF KnownConfirmed, Confirmed
<1>6. CASE UnknownConnected
  BY <1>6 DEF UnknownConnected, Confirmed
<1>7. CASE Disconnect
  BY <1>7 DEF Disconnect, Idle
<1>8. CASE PairingReq
  BY <1>8 DEF PairingReq, OnLink, Idle
<1>9. CASE ProvideLtk
  BY <1>9 DEF ProvideLtk, OnLink, Idle, StoreKeys
<1>10. CASE KeysReceived
  BY <1>10 DEF KeysReceived, OnLink, Idle, StoreKeys
<1>11. CASE KeysStored
  BY <1>11 DEF KeysStored
<1>12. CASE Commit
  BY <1>12 DEF Commit, OnLink, Idle
<1>13. CASE Refresh
  BY <1>13 DEF Refresh, OnLink, Idle
<1>14. CASE PairedStored
  BY <1>14 DEF PairedStored
<1>15. CASE PairedUnstored
  BY <1>15 DEF PairedUnstored, OnLink, Idle
<1>16. CASE PairFailed
  BY <1>16 DEF PairFailed, OnLink, Idle
<1>17. CASE EncryptFailed
  BY <1>17 DEF EncryptFailed, OnLink, Idle, Closing
<1>18. CASE \E p \in Peers : Forget(p)
  BY <1>18 DEF Forget
<1>19. CASE Write("wKeys", "wData")
  BY <1>19 DEF Write, Written, KeyAt
<1>20. CASE Write("wData", "wAddr")
  BY <1>20 DEF Write, Written, KeyAt
<1>21. CASE Write("wAddr", "wMeta")
  BY <1>21 DEF Write, Written, KeyAt
<1>22. CASE WriteMeta
  BY <1>22 DEF WriteMeta, Written, KeyAt
<1>23. CASE WarmBoot
  BY <1>23 DEF WarmBoot
<1>24. CASE ColdBoot
  BY <1>24 DEF ColdBoot
<1>25. CASE DeleteAddr
  BY <1>25 DEF DeleteAddr
<1>26. CASE Delete("wDone", "keys", NoKeys, "dData")
  BY <1>26 DEF Delete
<1>27. CASE Delete("dData", "data", NoPeer, "dAddr")
  BY <1>27 DEF Delete
<1>28. CASE WindowOpen
  BY <1>28 DEF WindowOpen, Idle, Closing
<1>29. CASE WindowTimeout
  BY <1>29 DEF WindowTimeout
<1>30. CASE WarmReset
  BY <1>30 DEF WarmReset, Reset, Cut
<1>31. CASE ColdReset
  BY <1>31 DEF ColdReset, Reset, Cut
<1>32. CASE UNCHANGED vars
  BY <1>32 DEF vars
<1> QED
  BY <1>1, <1>2, <1>3, <1>4, <1>5, <1>6, <1>7, <1>8, <1>9, <1>10, <1>11, <1>12, <1>13, <1>14,
    <1>15, <1>16, <1>17, <1>18, <1>19, <1>20, <1>21, <1>22, <1>23, <1>24, <1>25, <1>26, <1>27,
    <1>28, <1>29, <1>30, <1>31, <1>32 DEF Next, Connection, Pairing, Persist, Boot

\* The old bond is whole until it is imported.
LEMMA OldStep ==
  ASSUME IInv, TypeOK', PlaceInv', SlotInv', [Next]_vars
  PROVE  OldInv'
<1> USE DEF IInv, TypeOK, PlaceInv, PeerInv, Writes, Deletes, SlotInv, OldInv, ProgressInv, Goto,
  At, ramVars, flashVars, linkVars, ghostVars
<1>1. CASE \E p \in Peers : ConnectionReq(p)
  BY <1>1 DEF ConnectionReq, Idle
<1>2. CASE Resolved
  BY <1>2 DEF Resolved, Idle
<1>3. CASE Reject
  BY <1>3 DEF Reject, Closing
<1>4. CASE KnownConnected
  BY <1>4 DEF KnownConnected
<1>5. CASE KnownConfirmed
  BY <1>5 DEF KnownConfirmed, Confirmed
<1>6. CASE UnknownConnected
  BY <1>6 DEF UnknownConnected, Confirmed
<1>7. CASE Disconnect
  BY <1>7 DEF Disconnect, Idle
<1>8. CASE PairingReq
  BY <1>8 DEF PairingReq, OnLink, Idle
<1>9. CASE ProvideLtk
  BY <1>9 DEF ProvideLtk, OnLink, Idle, StoreKeys
<1>10. CASE KeysReceived
  BY <1>10 DEF KeysReceived, OnLink, Idle, StoreKeys
<1>11. CASE KeysStored
  BY <1>11 DEF KeysStored
<1>12. CASE Commit
  BY <1>12 DEF Commit, OnLink, Idle
<1>13. CASE Refresh
  BY <1>13 DEF Refresh, OnLink, Idle
<1>14. CASE PairedStored
  BY <1>14 DEF PairedStored
<1>15. CASE PairedUnstored
  BY <1>15 DEF PairedUnstored, OnLink, Idle
<1>16. CASE PairFailed
  BY <1>16 DEF PairFailed, OnLink, Idle
<1>17. CASE EncryptFailed
  BY <1>17 DEF EncryptFailed, OnLink, Idle, Closing
<1>18. CASE \E p \in Peers : Forget(p)
  BY <1>18 DEF Forget
<1>19. CASE Write("wKeys", "wData")
  BY <1>19 DEF Write, Written, KeyAt
<1>20. CASE Write("wData", "wAddr")
  BY <1>20 DEF Write, Written, KeyAt
<1>21. CASE Write("wAddr", "wMeta")
  BY <1>21 DEF Write, Written, KeyAt
<1>22. CASE WriteMeta
  BY <1>22, SlotsNat DEF WriteMeta, Written, KeyAt, Replacing
<1>23. CASE WarmBoot
  BY <1>23 DEF WarmBoot
<1>24. CASE ColdBoot
  BY <1>24, SlotsNat DEF ColdBoot, Loaded, Imports, Empty
<1>25. CASE DeleteAddr
  BY <1>25 DEF DeleteAddr
<1>26. CASE Delete("wDone", "keys", NoKeys, "dData")
  BY <1>26 DEF Delete
<1>27. CASE Delete("dData", "data", NoPeer, "dAddr")
  BY <1>27 DEF Delete
<1>28. CASE WindowOpen
  BY <1>28 DEF WindowOpen, Idle, Closing
<1>29. CASE WindowTimeout
  BY <1>29 DEF WindowTimeout
<1>30. CASE WarmReset
  BY <1>30 DEF WarmReset, Reset, Cut
<1>31. CASE ColdReset
  BY <1>31 DEF ColdReset, Reset, Cut
<1>32. CASE UNCHANGED vars
  BY <1>32 DEF vars
<1> QED
  BY <1>1, <1>2, <1>3, <1>4, <1>5, <1>6, <1>7, <1>8, <1>9, <1>10, <1>11, <1>12, <1>13, <1>14,
    <1>15, <1>16, <1>17, <1>18, <1>19, <1>20, <1>21, <1>22, <1>23, <1>24, <1>25, <1>26, <1>27,
    <1>28, <1>29, <1>30, <1>31, <1>32 DEF Next, Connection, Pairing, Persist, Boot

\* The invariant is inductive.
LEMMA IInvInit == Init => IInv
<1> SUFFICES ASSUME Init PROVE IInv
  OBVIOUS
<1> USE DEF Init
<1>1. TypeOK /\ PeerInv
  BY TypeInit
<1>2. PlaceInv /\ SlotInv /\ ProgressInv /\ KeyedInv /\ FoundInv
  BY <1>1 DEF PlaceInv, SlotInv, ProgressInv, KeyedInv, FoundInv, Writes, Deletes
<1>3. TableInv
  BY DEF TableInv, RamInv, FlashInv, AgreeInv, Up, InUse, Empty, Writes, Deletes
<1>4. LinkInv /\ StagedInv
  BY DEF LinkInv, StagedInv
<1>5. OldInv
  BY DEF OldInv, NoLegacy, NoKeys, Deletes
<1> QED
  BY <1>1, <1>2, <1>3, <1>4, <1>5 DEF IInv

\* One lemma above for each of its parts.
LEMMA IInvStep == IInv /\ [Next]_vars => IInv'
<1> SUFFICES ASSUME IInv, [Next]_vars PROVE IInv'
  OBVIOUS
<1>1. TypeOK /\ PlaceInv /\ PeerInv
  BY DEF IInv, PlaceInv
<1>2. TypeOK' /\ PlaceInv'
  BY <1>1, TypeStep, PlaceStep
<1>3. SlotInv' /\ ProgressInv'
  BY <1>2, SlotStep, ProgressStep
<1>4. TableInv' /\ LinkInv' /\ StagedInv'
  BY <1>2, <1>3, TableStep, LinkStep, StagedStep
<1>5. KeyedInv' /\ FoundInv' /\ OldInv'
  BY <1>2, <1>3, KeyedStep, FoundStep, OldStep
<1> QED
  BY <1>2, <1>3, <1>4, <1>5 DEF IInv

\* It holds of every state, through resets of both kinds at every write.
THEOREM Inductive == Spec => []IInv
BY IInvInit, IInvStep, PTL DEF Spec

\* Whatever a boot finds valid in flash, outside the slots a reset struck, is the bond of
\* one peer: meta is written last.
THEOREM SlotsAreWhole == Spec => []SlotsWhole
<1>1. IInv => SlotsWhole
  BY DEF IInv, TableInv, FlashInv, SlotsWhole, Settled, Replacing, Writes
<1> QED
  BY <1>1, Inductive, PTL

\* A link never uses, or stages over, the bond of another peer.
THEOREM LinksHaveTheirBonds == Spec => []LinkHasItsBond
<1>1. IInv => LinkHasItsBond
  <2> SUFFICES ASSUME IInv, OnLink PROVE LinkHasItsBond
    BY DEF LinkHasItsBond
  <2>1. initialized /\ peer \in Peers
    BY DEF OnLink, Idle, IInv, PlaceInv, PeerInv
  <2> QED
    BY <2>1 DEF IInv, LinkInv, StagedInv, NoBondOf, InUse, Used, LinkHasItsBond
<1> QED
  BY <1>1, Inductive, PTL
=============================================================================
