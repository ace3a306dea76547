------------------------ MODULE CallbackList_proof ------------------------
(***************************************************************************)
(* Proofs about CallbackList: for any callbacks, any priorities and any    *)
(* number of registrations.                                                *)
(***************************************************************************)
EXTENDS CallbackList, SequenceTheorems, WellFoundedInduction, TLAPS

\* No node is below one of lower priority.
Descending(list) ==
  \A i, j \in 1..Len(list) : i < j => list[i].priority >= list[j].priority

\* The nodes of the list: structs whose priority is an int.
Nodes(N) == \A n \in N : n.priority \in Int

(***************************************************************************)
(* One registration.                                                       *)
(***************************************************************************)
\* A set of natural numbers has a least one.
LEMMA LeastNat ==
  ASSUME NEW S \in SUBSET Nat, S # {}
  PROVE  \E x \in S : \A y \in S : x <= y
<1>1. IsWellFoundedOn(OpToRel(<, Nat), Nat)
  BY NatLessThanWellFounded
<1>2. PICK x \in S : \A y \in S : ~ (<<y, x>> \in OpToRel(<, Nat))
  BY <1>1, WFMin
<1>3. \A y \in S : y \in Nat /\ x \in Nat
  OBVIOUS
<1>4. \A y \in S : ~ (y < x)
  BY <1>2, <1>3 DEF OpToRel
<1> QED
  BY <1>3, <1>4

\* The walk of the list stops at the first node of lower priority.
LEMMA FirstLower ==
  ASSUME NEW N, Nodes(N), NEW list \in Seq(N), NEW p \in Int
  PROVE  \/ /\ Successor(list, p) = 0
            /\ \A k \in 1..Len(list) : ~(p > list[k].priority)
         \/ /\ Successor(list, p) \in 1..Len(list)
            /\ p > list[Successor(list, p)].priority
            /\ \A k \in 1..(Successor(list, p) - 1) : ~(p > list[k].priority)
<1> DEFINE Lower == {k \in 1..Len(list) : p > list[k].priority}
<1>0. Len(list) \in Nat /\ Lower \in SUBSET Nat
  OBVIOUS
<1>1. Successor(list, p) = IF Lower # {} THEN Min(Lower) ELSE 0
  BY DEF Successor, SelectInSeq
<1>2. CASE Lower = {}
  BY <1>1, <1>2
<1>3. CASE Lower # {}
  <2>1. PICK x \in Lower : \A y \in Lower : x <= y
    <3> HIDE DEF Lower
    <3> QED
      BY <1>0, <1>3, LeastNat
  <2>2. Min(Lower) \in Lower /\ \A y \in Lower : Min(Lower) <= y
    BY <2>1 DEF Min
  <2>3. PICK m : m = Successor(list, p)
    OBVIOUS
  <2>4. m \in 1..Len(list) /\ p > list[m].priority
    BY <1>1, <1>3, <2>2, <2>3
  <2>5. \A k \in 1..Len(list) : p > list[k].priority => m <= k
    BY <1>1, <1>3, <2>2, <2>3
  <2>6. \A k \in 1..(m - 1) : ~(p > list[k].priority)
    BY <1>0, <2>4, <2>5
  <2> QED
    BY <2>3, <2>4, <2>6
<1> QED
  BY <1>2, <1>3

\* The list new is list with n put in at a place where it leaves list in order.
PutIn(list, n, new, at) ==
  /\ at \in 1..(Len(list) + 1)
  /\ \A k \in 1..(at - 1) : ~(n.priority > list[k].priority)
  /\ at <= Len(list) => n.priority > list[at].priority
  /\ Len(new) = Len(list) + 1
  /\ \A k \in 1..(at - 1) : new[k] = list[k]
  /\ new[at] = n
  /\ \A k \in (at + 1)..(Len(list) + 1) : new[k] = list[k - 1]

\* The new node goes before that node, or to the tail: all others keep their order.
LEMMA InsertPutsIn ==
  ASSUME NEW N, Nodes(N), NEW list \in Seq(N), NEW n \in N
  PROVE  PmInsert(list, n) \in Seq(N) /\ \E at : PutIn(list, n, PmInsert(list, n), at)
<1>1. PICK i : i = Successor(list, n.priority)
  OBVIOUS
<1>2. n.priority \in Int /\ Len(list) \in Nat
  BY DEF Nodes
<1>3. \/ /\ i = 0
         /\ \A k \in 1..Len(list) : ~(n.priority > list[k].priority)
      \/ /\ i \in 1..Len(list)
         /\ n.priority > list[i].priority
         /\ \A k \in 1..(i - 1) : ~(n.priority > list[k].priority)
  BY <1>1, <1>2, FirstLower
<1>4. CASE i = 0
  <2>1. PmInsert(list, n) = Append(list, n)
    BY <1>1, <1>4 DEF PmInsert
  <2>2. PutIn(list, n, Append(list, n), Len(list) + 1)
    BY <1>2, <1>3, <1>4, AppendProperties DEF PutIn
  <2> QED
    BY <2>1, <2>2, AppendProperties
<1>5. CASE i # 0
  <2>0. i \in Nat /\ i >= 1 /\ i <= Len(list) /\ Len(list) \in Nat
    BY <1>2, <1>3, <1>5
  <2>1. PmInsert(list, n) = SubSeq(list, 1, i - 1) \o <<n>> \o SubSeq(list, i, Len(list))
    BY <1>1, <1>5 DEF PmInsert, InsertAt
  <2>2. PICK before : before = SubSeq(list, 1, i - 1)
    OBVIOUS
  <2>3. PICK after : after = SubSeq(list, i, Len(list))
    OBVIOUS
  <2>4. PICK front : front = before \o <<n>>
    OBVIOUS
  <2>5. PICK new : new = front \o after
    OBVIOUS
  <2>6. /\ before \in Seq(N) /\ Len(before) = i - 1
        /\ \A k \in 1..(i - 1) : before[k] = list[k]
    <3>1. /\ SubSeq(list, 1, i - 1) \in Seq(N)
          /\ Len(SubSeq(list, 1, i - 1)) = IF 1 <= i - 1 THEN (i - 1) - 1 + 1 ELSE 0
          /\ \A k \in 1..((i - 1) - 1 + 1) : SubSeq(list, 1, i - 1)[k] = list[1 + k - 1]
      BY <1>2, <1>3, <1>5, SubSeqProperties
    <3> QED
      BY <1>2, <1>3, <1>5, <2>2, <3>1
  <2>7. /\ after \in Seq(N) /\ Len(after) = Len(list) - i + 1
        /\ \A k \in 1..(Len(list) - i + 1) : after[k] = list[i + k - 1]
    <3>1. /\ SubSeq(list, i, Len(list)) \in Seq(N)
          /\ Len(SubSeq(list, i, Len(list))) = IF i <= Len(list) THEN Len(list) - i + 1 ELSE 0
          /\ \A k \in 1..(Len(list) - i + 1) : SubSeq(list, i, Len(list))[k] = list[i + k - 1]
      BY <1>2, <1>3, <1>5, SubSeqProperties
    <3> QED
      BY <1>2, <1>3, <1>5, <2>3, <3>1
  <2>8. /\ front \in Seq(N) /\ Len(front) = i
        /\ (\A k \in 1..(i - 1) : front[k] = list[k]) /\ front[i] = n
    <3>1. <<n>> \in Seq(N) /\ Len(<<n>>) = 1 /\ <<n>>[1] = n
      OBVIOUS
    <3>2. /\ front \in Seq(N) /\ Len(front) = (i - 1) + 1
          /\ \A k \in 1..((i - 1) + 1) :
               front[k] = IF k <= i - 1 THEN before[k] ELSE <<n>>[k - (i - 1)]
      BY <2>4, <2>6, <3>1, ConcatProperties
    <3>3. i - (i - 1) = 1 /\ (i - 1) + 1 = i /\ i \in 1..((i - 1) + 1) /\ ~(i <= i - 1)
      BY <2>0
    <3>4. \A k \in 1..(i - 1) : front[k] = list[k]
      BY <1>2, <1>3, <1>5, <2>6, <3>2
    <3>5. front[i] = n
      BY <3>1, <3>2, <3>3
    <3> QED
      BY <3>2, <3>3, <3>4, <3>5
  <2>9. /\ new \in Seq(N) /\ Len(new) = i + (Len(list) - i + 1)
        /\ \A k \in 1..(i + (Len(list) - i + 1)) :
             new[k] = IF k <= i THEN front[k] ELSE after[k - i]
    BY <2>5, <2>7, <2>8, ConcatProperties
  <2>10. Len(new) = Len(list) + 1 /\ i + (Len(list) - i + 1) = Len(list) + 1
    BY <1>2, <1>3, <1>5, <2>9
  <2>11. \A k \in 1..(i - 1) : new[k] = list[k]
    BY <1>2, <1>3, <1>5, <2>8, <2>9, <2>10
  <2>12. new[i] = n
    BY <1>2, <1>3, <1>5, <2>8, <2>9, <2>10
  <2>13. \A k \in (i + 1)..(Len(list) + 1) : new[k] = list[k - 1]
    <3> SUFFICES ASSUME NEW k \in (i + 1)..(Len(list) + 1) PROVE new[k] = list[k - 1]
      OBVIOUS
    <3>1. k - i \in 1..(Len(list) - i + 1) /\ i + (k - i) - 1 = k - 1 /\ ~(k <= i)
          /\ k \in 1..(i + (Len(list) - i + 1))
      BY <2>0
    <3>2. new[k] = after[k - i]
      BY <2>9, <3>1
    <3>3. after[k - i] = list[i + (k - i) - 1]
      BY <2>7, <3>1
    <3> QED
      BY <3>1, <3>2, <3>3
  <2>14. PutIn(list, n, new, i)
    BY <1>2, <1>3, <1>5, <2>10, <2>11, <2>12, <2>13 DEF PutIn
  <2> QED
    BY <2>1, <2>2, <2>3, <2>4, <2>5, <2>9, <2>14
<1> QED
  BY <1>4, <1>5

\* A list in order stays in order.
LEMMA PutInOrder ==
  ASSUME NEW N, Nodes(N), NEW list \in Seq(N), NEW n \in N, NEW new \in Seq(N), NEW at,
         PutIn(list, n, new, at), Descending(list)
  PROVE  Descending(new)
<1>1. /\ n.priority \in Int
      /\ \A k \in 1..Len(list) : list[k].priority \in Int
      /\ Len(list) \in Nat /\ Len(new) = Len(list) + 1
  BY DEF Nodes, PutIn
<1> SUFFICES ASSUME NEW k \in 1..Len(new), NEW l \in 1..Len(new), k < l
             PROVE  new[k].priority >= new[l].priority
  BY DEF Descending
<1>2. CASE l < at
  <2>1. new[l] = list[l] /\ new[k] = list[k] /\ l \in 1..Len(list) /\ k \in 1..Len(list)
    BY <1>1, <1>2 DEF PutIn
  <2> QED
    BY <2>1 DEF Descending
<1>3. CASE l = at
  <2>1. k \in 1..(at - 1) /\ k \in 1..Len(list)
    BY <1>1, <1>3 DEF PutIn
  <2>2. new[l] = n /\ new[k] = list[k] /\ ~(n.priority > list[k].priority)
    BY <1>3, <2>1 DEF PutIn
  <2> QED
    BY <1>1, <2>1, <2>2
<1>4. CASE l > at
  <2>1. new[l] = list[l - 1] /\ l - 1 \in 1..Len(list) /\ at <= l - 1 /\ at \in 1..Len(list)
    BY <1>1, <1>4 DEF PutIn
  <2>2. list[at].priority >= list[l - 1].priority
    BY <1>1, <2>1 DEF Descending
  <2>3. CASE k < at
    <3>1. new[k] = list[k] /\ k \in 1..Len(list) /\ k < l - 1
      BY <1>1, <2>1, <2>3 DEF PutIn
    <3> QED
      BY <2>1, <3>1 DEF Descending
  <2>4. CASE k = at
    BY <1>1, <2>1, <2>2, <2>4 DEF PutIn
  <2>5. CASE k > at
    <3>1. new[k] = list[k - 1] /\ k - 1 \in 1..Len(list) /\ k - 1 < l - 1
      BY <1>1, <2>1, <2>5 DEF PutIn
    <3> QED
      BY <2>1, <3>1 DEF Descending
  <2> QED
    BY <1>1, <2>1, <2>3, <2>4, <2>5
<1> QED
  BY <1>1, <1>2, <1>3, <1>4 DEF PutIn

\* It keeps the nodes it held.
LEMMA PutInKeeps ==
  ASSUME NEW N, NEW list \in Seq(N), NEW n \in N, NEW new \in Seq(N), NEW at,
         PutIn(list, n, new, at), NEW k \in 1..Len(list)
  PROVE  \E l \in 1..Len(new) : new[l] = list[k]
<1>1. Len(list) \in Nat /\ Len(new) = Len(list) + 1 /\ at \in 1..(Len(list) + 1)
  BY DEF PutIn
<1>2. CASE k < at
  BY <1>1, <1>2 DEF PutIn
<1>3. CASE k >= at
  <2>1. k + 1 \in (at + 1)..(Len(list) + 1) /\ (k + 1) - 1 = k
    BY <1>1, <1>3
  <2>2. new[k + 1] = list[k]
    BY <2>1 DEF PutIn
  <2> QED
    BY <1>1, <2>1, <2>2
<1> QED
  BY <1>1, <1>2, <1>3

(***************************************************************************)
(* Any number of registrations.                                            *)
(***************************************************************************)
\* The lists f[0], f[1], ... after none, one, ... of the calls.
Lists(f, calls, k) ==
  f = [i \in 0..k |-> IF i = 0 THEN <<>> ELSE PmInsert(f[i - 1], calls[i])]

\* They exist.
LEMMA ListsExist ==
  ASSUME NEW N, NEW calls \in Seq(N)
  PROVE  \E f : Lists(f, calls, Len(calls))
<1> DEFINE Bad == {k \in 0..Len(calls) : \A f : ~Lists(f, calls, k)}
<1>0. Len(calls) \in Nat
  OBVIOUS
<1>1. SUFFICES ASSUME Bad # {} PROVE FALSE
  BY <1>0
<1>2. PICK k \in Bad : \A l \in Bad : k <= l
  <2>1. Bad \in SUBSET Nat
    BY <1>0
  <2> HIDE DEF Bad
  <2> QED
    BY <1>1, <2>1, LeastNat
<1>3. CASE k = 0
  <2>1. Lists([i \in 0..0 |-> <<>>], calls, 0)
    BY DEF Lists
  <2> QED
    BY <1>2, <1>3, <2>1
<1>4. CASE k # 0
  <2>1. k \in Nat /\ k - 1 \in 0..Len(calls) /\ k - 1 \notin Bad
    BY <1>0, <1>2, <1>4
  <2>2. PICK f : Lists(f, calls, k - 1)
    BY <2>1
  <2> DEFINE g == [i \in 0..k |-> IF i < k THEN f[i] ELSE PmInsert(f[k - 1], calls[k])]
  <2>3. \A i \in 0..(k - 1) : f[i] = IF i = 0 THEN <<>> ELSE PmInsert(f[i - 1], calls[i])
    BY <2>2 DEF Lists
  <2>4. \A i \in 0..k : i < k => g[i] = f[i]
    BY <2>1
  <2>5. g[k] = PmInsert(f[k - 1], calls[k]) /\ g[k - 1] = f[k - 1]
    BY <1>4, <2>1
  <2>6. ASSUME NEW i \in 0..k
        PROVE  g[i] = IF i = 0 THEN <<>> ELSE PmInsert(g[i - 1], calls[i])
    <3> HIDE DEF g
    <3>1. CASE i = k
      BY <1>4, <2>5, <3>1
    <3>2. CASE i # k
      <4>1. i \in 0..(k - 1) /\ i < k /\ (i # 0 => i - 1 \in 0..k /\ i - 1 < k)
        BY <2>1, <3>2
      <4> QED
        BY <2>3, <2>4, <4>1
    <3> QED
      BY <3>1, <3>2
  <2>7. Lists(g, calls, k)
    <3>1. g = [i \in 0..k |-> g[i]]
      OBVIOUS
    <3> HIDE DEF g
    <3> QED
      BY <2>6, <3>1 DEF Lists
  <2> QED
    BY <1>2, <2>7
<1> QED
  BY <1>3, <1>4

\* The list after each call is in order, and holds the nodes of the calls made so far.
LEMMA ListsInOrder ==
  ASSUME NEW N, Nodes(N), NEW calls \in Seq(N), NEW f, Lists(f, calls, Len(calls))
  PROVE  \A k \in 0..Len(calls) :
           /\ f[k] \in Seq(N) /\ Len(f[k]) = k
           /\ Descending(f[k])
           /\ \A i \in 1..k : \E l \in 1..k : f[k][l] = calls[i]
<1> DEFINE Good(k) ==
             /\ f[k] \in Seq(N) /\ Len(f[k]) = k
             /\ Descending(f[k])
             /\ \A i \in 1..k : \E l \in 1..k : f[k][l] = calls[i]
           Bad == {k \in 0..Len(calls) : ~Good(k)}
<1>0. Len(calls) \in Nat
  OBVIOUS
<1>1. SUFFICES ASSUME Bad # {} PROVE FALSE
  OBVIOUS
<1>2. PICK k \in Bad : \A l \in Bad : k <= l
  <2>1. Bad \in SUBSET Nat
    BY <1>0
  <2> HIDE DEF Bad
  <2> QED
    BY <1>1, <2>1, LeastNat
<1>3. k \in 0..Len(calls) /\ ~Good(k)
  BY <1>2
<1>4. \A i \in 0..Len(calls) : f[i] = IF i = 0 THEN <<>> ELSE PmInsert(f[i - 1], calls[i])
  BY DEF Lists
<1>5. CASE k = 0
  <2>1. f[0] = <<>>
    BY <1>0, <1>4
  <2>2. Good(0)
    BY <2>1 DEF Descending
  <2> QED
    BY <1>3, <1>5, <2>2
<1>6. CASE k # 0
  <2>1. k \in Nat /\ k \in 1..Len(calls) /\ k - 1 \in 0..Len(calls) /\ k - 1 \notin Bad
    BY <1>0, <1>2, <1>6
  <2>2. Good(k - 1)
    BY <2>1
  <2>3. PICK old : old = f[k - 1]
    OBVIOUS
  <2>4. PICK n : n = calls[k]
    OBVIOUS
  <2>5. PICK new : new = PmInsert(old, n)
    OBVIOUS
  <2>6. f[k] = new
    BY <1>3, <1>4, <1>6, <2>3, <2>4, <2>5
  <2>7. n \in N /\ old \in Seq(N) /\ Len(old) = k - 1 /\ Descending(old)
        /\ \A i \in 1..(k - 1) : \E l \in 1..(k - 1) : old[l] = calls[i]
    BY <2>1, <2>2, <2>3, <2>4
  <2>8. new \in Seq(N) /\ \E at : PutIn(old, n, new, at)
    BY <2>5, <2>7, InsertPutsIn
  <2>9. PICK at : PutIn(old, n, new, at)
    BY <2>8
  <2>13. new \in Seq(N) /\ n \in N /\ old \in Seq(N)
    BY <2>7, <2>8
  <2> HIDE DEF Good
  <2>10. Descending(new)
    BY <2>7, <2>8, <2>9, PutInOrder
  <2>11. Len(new) = k /\ at \in 1..k /\ new[at] = n
    BY <2>1, <2>7, <2>9 DEF PutIn
  <2>12. ASSUME NEW i \in 1..k PROVE \E l \in 1..k : new[l] = calls[i]
    <3>1. CASE i = k
      BY <2>4, <2>11, <3>1
    <3>2. CASE i # k
      <4>1. i \in 1..(k - 1)
        BY <2>1, <3>2
      <4>2. PICK l \in 1..Len(old) : old[l] = calls[i]
        BY <2>7, <4>1
      <4>3. \E m \in 1..Len(new) : new[m] = old[l]
        BY <2>9, <2>13, PutInKeeps
      <4> QED
        BY <2>11, <4>2, <4>3
    <3> QED
      BY <3>1, <3>2
  <2> QED
    BY <1>3, <2>6, <2>8, <2>10, <2>11, <2>12 DEF Good
<1> QED
  BY <1>5, <1>6

(***************************************************************************)
(* Theorem.                                                                *)
(***************************************************************************)
\* Whatever the order in which components register with halo_pm_register_callback, the list
\* holds each of them, once per call, and nobody is below one of lower priority.
THEOREM RegistrationSorts ==
  ASSUME NEW N, Nodes(N), NEW calls \in Seq(N)
  PROVE  /\ Registered(calls) \in Seq(N) /\ Len(Registered(calls)) = Len(calls)
         /\ Descending(Registered(calls))
         /\ \A i \in 1..Len(calls) : \E l \in 1..Len(calls) : Registered(calls)[l] = calls[i]
<1> DEFINE list == CHOOSE f : Lists(f, calls, Len(calls))
<1>1. Lists(list, calls, Len(calls))
  BY ListsExist
<1>2. Registered(calls) = list[Len(calls)]
  BY DEF Registered, Lists
<1> HIDE DEF list
<1>3. Len(calls) \in 0..Len(calls)
  OBVIOUS
<1> QED
  BY <1>1, <1>2, <1>3, ListsInOrder
==============================================================================
