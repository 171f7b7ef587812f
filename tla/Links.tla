------------------------------- MODULE Links -------------------------------
(***************************************************************************)
(* lib/kernel/list.c on its pointers.  A list is the next and prev members *)
(* of its elements, of "head" and of "tail"; LESS compares keys.  Threads  *)
(* uses these lists as sequences (KernelList), which is what is checked    *)
(* here.  Also lib/stdlib.c's heapsort and binary search.                  *)
(***************************************************************************)
EXTENDS Integers, SequencesExt, FiniteSetsExt

list_begin(l) == l.next["head"]
list_next(l, e) == l.next[e]
list_prev(l, e) == l.prev[e]
list_init == [next |-> [e \in {"head"} |-> "tail"], prev |-> [e \in {"tail"} |-> "head"]]
list_empty(l) == list_begin(l) = "tail"

list_insert(l, before, e) ==
  LET p == l.prev[before]
  IN  [next |-> [x \in DOMAIN l.next \cup {e} |->
                   IF x = e THEN before ELSE IF x = p THEN e ELSE l.next[x]],
       prev |-> [x \in DOMAIN l.prev \cup {e} |->
                   IF x = e THEN p ELSE IF x = before THEN e ELSE l.prev[x]]]

list_remove(l, e) ==
  [next |-> [x \in DOMAIN l.next \ {e} |-> IF x = l.prev[e] THEN l.next[e] ELSE l.next[x]],
   prev |-> [x \in DOMAIN l.prev \ {e} |-> IF x = l.next[e] THEN l.prev[e] ELSE l.prev[x]]]

list_push_back(l, e) == list_insert(l, "tail", e)
list_push_front(l, e) == list_insert(l, list_begin(l), e)

(* Within one list, as list_sort uses it; the six assignments in order. *)
list_splice(l, before, first, end) ==
  IF first = end THEN l
  ELSE LET last == l.prev[end]
           n1 == [l.next EXCEPT ![l.prev[first]] = l.next[last]]
           p1 == [l.prev EXCEPT ![l.next[last]] = l.prev[first]]
           p2 == [p1 EXCEPT ![first] = p1[before]]
           n2 == [n1 EXCEPT ![last] = before]
       IN  [next |-> [n2 EXCEPT ![p2[before]] = first], prev |-> [p2 EXCEPT ![before] = last]]

RECURSIVE swap_links(_, _), find_end_of_run(_, _, _, _), inplace_merge(_, _, _, _, _),
          sort_pass(_, _, _, _), list_sort(_, _), find_place(_, _, _, _),
          unique_from(_, _, _, _), best(_, _, _, _)

(* list_reverse: every element's members are swapped, then the ends. *)
swap_links(l, e) ==
  IF e = "tail" THEN l
  ELSE swap_links([next |-> [l.next EXCEPT ![e] = l.prev[e]],
                   prev |-> [l.prev EXCEPT ![e] = l.next[e]]], l.next[e])
list_reverse(l) ==
  IF list_empty(l) THEN l
  ELSE LET s == swap_links(l, list_begin(l))
           first == s.prev["tail"]
           last == s.next["head"]
       IN  [next |-> [s.next EXCEPT !["head"] = first, ![last] = "tail"],
            prev |-> [s.prev EXCEPT !["tail"] = last, ![first] = "head"]]

find_end_of_run(l, a, b, key) ==
  LET n == l.next[a]
  IN  IF n = b \/ key[n] < key[l.prev[n]] THEN n ELSE find_end_of_run(l, n, b, key)

(* Mutant: equal elements of the second run go first. *)
MergeUnstable(l, a0, a1b0, b1, key) ==
  IF a0 = a1b0 \/ a1b0 = b1 THEN l
  ELSE IF ~(key[a1b0] <= key[a0]) THEN inplace_merge(l, l.next[a0], a1b0, b1, key)
  ELSE inplace_merge(list_splice(l, a0, a1b0, l.next[a1b0]), a0, l.next[a1b0], b1, key)

inplace_merge(l, a0, a1b0, b1, key) ==
  IF a0 = a1b0 \/ a1b0 = b1 THEN l
  ELSE IF ~(key[a1b0] < key[a0]) THEN inplace_merge(l, l.next[a0], a1b0, b1, key)
  ELSE inplace_merge(list_splice(l, a0, a1b0, l.next[a1b0]), a0, l.next[a1b0], b1, key)

(* One pass of list_sort, and the number of runs it leaves. *)
sort_pass(l, a0, runs, key) ==
  IF a0 = "tail" THEN [list |-> l, runs |-> runs]
  ELSE LET a1b0 == find_end_of_run(l, a0, "tail", key)
       IN  IF a1b0 = "tail" THEN [list |-> l, runs |-> runs + 1]
           ELSE LET b1 == find_end_of_run(l, a1b0, "tail", key)
                IN  sort_pass(inplace_merge(l, a0, a1b0, b1, key), b1, runs + 1, key)
list_sort(l, key) ==
  LET pass == sort_pass(l, list_begin(l), 0, key)
  IN  IF pass.runs > 1 THEN list_sort(pass.list, key) ELSE pass.list

find_place(l, e, elem, key) ==
  IF e = "tail" THEN e
  ELSE IF key[elem] < key[e] THEN e ELSE find_place(l, l.next[e], elem, key)
list_insert_ordered(l, elem, key) == list_insert(l, find_place(l, list_begin(l), elem, key), elem)

unique_from(l, dups, elem, key) ==
  LET n == l.next[elem]
  IN  IF n = "tail" THEN [list |-> l, dups |-> dups]
      ELSE IF key[elem] = key[n] THEN unique_from(list_remove(l, n), list_push_back(dups, n), elem, key)
      ELSE unique_from(l, dups, n, key)
list_unique(l, key) ==
  IF list_empty(l) THEN [list |-> l, dups |-> list_init]
  ELSE unique_from(l, list_init, list_begin(l), key)

(* list_max (sign 1) and list_min (sign -1). *)
best(l, e, b, score) ==
  IF e = "tail" THEN b ELSE best(l, l.next[e], IF score[b] < score[e] THEN e ELSE b, score)
list_best(l, key, sign) ==
  IF list_empty(l) THEN "tail"
  ELSE best(l, l.next[list_begin(l)], list_begin(l), [e \in DOMAIN key |-> sign * key[e]])
-----------------------------------------------------------------------------
(* lib/stdlib.c: sort is a heapsort of array[1..cnt]. *)
RECURSIVE heapify(_, _, _), build(_, _), take(_, _), binary_search(_, _, _, _)

do_swap(a, i, j) == [a EXCEPT ![i] = a[j], ![j] = a[i]]
heapify(a, i, cnt) ==
  LET left == 2 * i
      right == 2 * i + 1
      m1 == IF left <= cnt /\ a[left] > a[i] THEN left ELSE i
      max == IF right <= cnt /\ a[right] > a[m1] THEN right ELSE m1
  IN  IF max = i THEN a ELSE heapify(do_swap(a, i, max), max, cnt)
build(a, i) == IF i = 0 THEN a ELSE build(heapify(a, i, Len(a)), i - 1)
take(a, i) == IF i <= 1 THEN a ELSE take(heapify(do_swap(a, 1, i), 1, i - 1), i - 1)
sort(a) == take(build(a, Len(a) \div 2), Len(a))

(* The index found in a[first .. last - 1], 0 for a null pointer. *)
binary_search(key, a, first, last) ==
  IF first >= last THEN 0
  ELSE LET middle == first + (last - first) \div 2
       IN  IF key < a[middle] THEN binary_search(key, a, first, middle)
           ELSE IF key > a[middle] THEN binary_search(key, a, middle + 1, last)
           ELSE middle
-----------------------------------------------------------------------------
FromSeq(s) == FoldLeft(list_push_back, list_init, s)

RECURSIVE ForwardFrom(_, _), BackFrom(_, _)
ForwardFrom(l, e) == IF e = "tail" THEN <<>> ELSE <<e>> \o ForwardFrom(l, l.next[e])
BackFrom(l, e) == IF e = "head" THEN <<>> ELSE Append(BackFrom(l, l.prev[e]), e)

(* The list l holds s, read forwards and backwards. *)
Holds(l, s) == ForwardFrom(l, list_begin(l)) = s /\ BackFrom(l, l.prev["tail"]) = s

(* s in nondecreasing order of key, equal elements in their old order. *)
StableSort(s, key) ==
  LET order == SetToSortSeq(DOMAIN s, LAMBDA i, j : key[s[i]] < key[s[j]] \/ (key[s[i]] = key[s[j]] /\ i < j))
  IN  [i \in DOMAIN s |-> s[order[i]]]
Kept(s, key) == SelectSeq(s, LAMBDA e : \A i \in DOMAIN s : s[i] = e /\ i > 1 => key[s[i - 1]] # key[e])
Rest(s, key) == SelectSeq(s, LAMBDA e : ~Contains(Kept(s, key), e))
FirstBest(s, key, sign) ==
  IF s = <<>> THEN "tail"
  ELSE s[Min({i \in DOMAIN s : \A j \in DOMAIN s : sign * key[s[j]] <= sign * key[s[i]]})]

(* On its pointers list.c does what it does on sequences: sorting is       *)
(* stable, an insertion in order comes after equals, unique keeps the      *)
(* first of equal neighbours, and next and prev agree throughout.          *)
ListsRight(s, key) ==
  LET l == FromSeq(s)
      sorted == StableSort(s, key)
      uniq == list_unique(l, key)
  IN  /\ Holds(list_sort(l, key), sorted)
      /\ Holds(list_reverse(l), Reverse(s))
      /\ Holds(uniq.list, Kept(s, key))
      /\ Holds(uniq.dups, Rest(s, key))
      /\ \A sign \in {1, -1} : list_best(l, key, sign) = FirstBest(s, key, sign)
      /\ s # <<>> => Holds(list_insert_ordered(FromSeq(StableSort(Front(s), key)), Last(s), key), sorted)

(* sort sorts, and binary_search finds a key just when the array has it. *)
ArraysRight(a) ==
  LET s == sort(a)
  IN  /\ \A i \in 1 .. Len(a) - 1 : s[i] <= s[i + 1]
      /\ \A v \in {a[i] : i \in DOMAIN a} :
           Cardinality({i \in DOMAIN a : a[i] = v}) = Cardinality({i \in DOMAIN a : s[i] = v})
      /\ \A key \in 0..4 :
           LET found == binary_search(key, s, 1, Len(s) + 1)
           IN  IF \E i \in DOMAIN a : a[i] = key THEN found \in DOMAIN a /\ s[found] = key ELSE found = 0
=============================================================================
