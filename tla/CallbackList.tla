---------------------------- MODULE CallbackList ----------------------------
(***************************************************************************)
(* The priority list of the power manager: halo_pm_register_callback, on   *)
(* Zephyr's sys_dlist_t.  A suspend chain calls the list head first.       *)
(***************************************************************************)
EXTENDS Naturals, Sequences, SequencesExt

\* Position of the first node of lower priority than p, 0 if there is none.
Successor(list, p) == SelectInSeq(list, LAMBDA n : p > n.priority)

\* Mutant: the node goes before the predecessor of its successor (and before the head
\* that is the list itself, whose predecessor is the tail).
PmInsert_TooEarly(list, n) ==
  LET i == Successor(list, n.priority)
  IN IF i \in {0, 1} THEN Append(list, n) ELSE InsertAt(list, i - 1, n)

\* sys_dlist_insert puts the node before the one it is given.
PmInsert(list, n) ==
  LET i == Successor(list, n.priority)
  IN IF i = 0 THEN Append(list, n) ELSE InsertAt(list, i, n)

\* The list after the calls of halo_pm_register_callback.
Registered(calls) ==
  LET list[i \in 0..Len(calls)] == IF i = 0 THEN <<>> ELSE PmInsert(list[i - 1], calls[i])
  IN list[Len(calls)]
=============================================================================
