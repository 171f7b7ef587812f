---------------------------- MODULE KernelList -----------------------------
(***************************************************************************)
(* The kernel's doubly linked lists (lib/kernel/list.c) as sequences: a    *)
(* list is the sequence of the structures its elements are embedded in.    *)
(***************************************************************************)
EXTENDS Integers, Sequences

(* x is linked into l; l links no structure twice. *)
On(x, l) == \E i \in 1..Len(l) : l[i] = x
NoDuplicates(l) == \A i, j \in 1..Len(l) : l[i] = l[j] => i = j
Elems(l) == {l[i] : i \in 1..Len(l)}

(* l is ordered by the number key gives every structure. *)
Sorted(l, key) == \A i, j \in 1..Len(l) : i < j => key[l[i]] <= key[l[j]]

(* list_insert: x goes before the element at pos, or to the end. *)
ListInsert(l, pos, x) == SubSeq(l, 1, pos - 1) \o <<x>> \o SubSeq(l, pos, Len(l))

(* list_insert_ordered: ELEM goes before the first element it is less than. *)
(* Every order the kernel uses compares a number, so a key stands for LESS. *)
ListInsertOrdered(l, x, key) ==
  LET later == {i \in 1..Len(l) : key[x] < key[l[i]]}
      pos   == IF later = {} THEN Len(l) + 1
                             ELSE CHOOSE i \in later : \A j \in later : i <= j
  IN  ListInsert(l, pos, x)
============================================================================
