------------------------------ MODULE PagePool ------------------------------
(***************************************************************************)
(* What the page allocator promises (threads/palloc.c): a page has at most *)
(* one holder, a group of pages is handed out at once and lies in one      *)
(* pool, and pages come back one by one.                                   *)
(***************************************************************************)
EXTENDS Integers

CONSTANTS
  Thread,
  Pool     \* the pools, each a set of page numbers

VARIABLE holds   \* the pages a thread holds

IsGroup(g) == \E first, last \in g : g = first .. last
Free(pool) == pool \ UNION {holds[t] : t \in Thread}

Get(t, g) ==
  /\ IsGroup(g)
  /\ \E pool \in Pool : g \subseteq Free(pool)
  /\ holds' = [holds EXCEPT ![t] = @ \cup g]

Put(t, page) ==
  /\ page \in holds[t]
  /\ holds' = [holds EXCEPT ![t] = @ \ {page}]

Init == holds = [t \in Thread |-> {}]

Next ==
  \E t \in Thread :
    \/ \E page \in holds[t] : Put(t, page)
    \/ \E g \in {holds'[t] \ holds[t]} : Get(t, g)

Spec == Init /\ [][Next]_holds
=============================================================================
