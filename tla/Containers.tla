----------------------------- MODULE Containers -----------------------------
(***************************************************************************)
(* lib/kernel/bitmap.c, a set of bits kept in words, and lib/kernel/hash.c,*)
(* a table of buckets that grows and shrinks.  A word is the set of its    *)
(* bits that are 1.  The hash table is a machine of its own: malloc may    *)
(* fail in any rehash.                                                     *)
(***************************************************************************)
EXTENDS Integers, SequencesExt, FiniteSetsExt
LOCAL INSTANCE Bitwise

CONSTANTS
  ELEM_BITS,                    \* bits of a bitmap's word: 32 in the code
  Elem, Key, Hash,              \* hash elements, and the key and hash of each
  MinBuckets,                   \* fewest buckets: 4 in the code
  BEST_ELEMS_PER_BUCKET         \* 2 in the code

VARIABLES
  h,                            \* struct hash: its buckets and elem_cnt
  table,                        \* what a caller believes the table to hold
  answer                        \* what the last call returned, and should have
c_vars == <<h, table, answer>>

ASSUME ContainersAssumption ==
  /\ ELEM_BITS \in Nat \ {0}
  /\ MinBuckets \in {1, 2, 4}
  /\ BEST_ELEMS_PER_BUCKET \in Nat \ {0}
-----------------------------------------------------------------------------
elem_idx(bit_idx) == bit_idx \div ELEM_BITS
bit_mask(bit_idx) == {bit_idx % ELEM_BITS}
elem_cnt(bit_cnt) == (bit_cnt + ELEM_BITS - 1) \div ELEM_BITS
last_mask(b) ==
  LET last_bits == b.bit_cnt % ELEM_BITS
  IN  IF last_bits # 0 THEN 0 .. last_bits - 1 ELSE 0 .. ELEM_BITS - 1

bitmap_mark(b, i) == [b EXCEPT !.bits[elem_idx(i)] = @ \cup bit_mask(i)]
bitmap_reset(b, i) == [b EXCEPT !.bits[elem_idx(i)] = @ \ bit_mask(i)]
bitmap_flip(b, i) == [b EXCEPT !.bits[elem_idx(i)] = (@ \ bit_mask(i)) \cup (bit_mask(i) \ @)]
bitmap_set(b, i, value) == IF value THEN bitmap_mark(b, i) ELSE bitmap_reset(b, i)
bitmap_test(b, i) == b.bits[elem_idx(i)] \cap bit_mask(i) # {}

bitmap_set_multiple(b, start, cnt, value) ==
  FoldLeft(LAMBDA c, i : bitmap_set(c, start + i - 1, value), b, [i \in 1 .. cnt |-> i])
bitmap_set_all(b, value) == bitmap_set_multiple(b, 0, b.bit_cnt, value)

(* malloc does not clear the words: garbage is what it left in them. *)
bitmap_create(bit_cnt, garbage) ==
  bitmap_set_all([bit_cnt |-> bit_cnt, bits |-> [i \in 0 .. elem_cnt(bit_cnt) - 1 |-> garbage]], FALSE)

bitmap_count(b, start, cnt, value) ==
  Cardinality({i \in start .. start + cnt - 1 : bitmap_test(b, i) = value})
bitmap_contains(b, start, cnt, value) == \E i \in start .. start + cnt - 1 : bitmap_test(b, i) = value
bitmap_any(b, start, cnt) == bitmap_contains(b, start, cnt, TRUE)
bitmap_none(b, start, cnt) == ~bitmap_contains(b, start, cnt, TRUE)
bitmap_all(b, start, cnt) == ~bitmap_contains(b, start, cnt, FALSE)

BITMAP_ERROR == -1
bitmap_scan(b, start, cnt, value) ==
  LET fits == {i \in start .. b.bit_cnt - cnt : ~bitmap_contains(b, i, cnt, ~value)}
  IN  IF fits = {} THEN BITMAP_ERROR ELSE Min(fits)
bitmap_scan_and_flip(b, start, cnt, value) ==
  LET idx == bitmap_scan(b, start, cnt, value)
  IN  [ret |-> idx, map |-> IF idx = BITMAP_ERROR THEN b ELSE bitmap_set_multiple(b, idx, cnt, ~value)]

bitmap_write(b) == b.bits
bitmap_read(b, file) ==
  IF b.bit_cnt = 0 THEN b
  ELSE [b EXCEPT !.bits = [file EXCEPT ![elem_cnt(b.bit_cnt) - 1] = @ \cap last_mask(b)]]

Bits(b) == {i \in 0 .. b.bit_cnt - 1 : bitmap_test(b, i)}
OfSet(n, bits, garbage) ==
  FoldSet(LAMBDA i, b : bitmap_set(b, i, TRUE), bitmap_create(n, garbage), bits)

(* For every set of n bits, and whatever malloc left in the words, the     *)
(* bitmap answers as the set does, a group found is the first one (for no  *)
(* bits, an empty one at start) and is flipped alone, and what is written   *)
(* is what is read, with no other bit.                                     *)
BitmapRight(n, bits, start, cnt) ==
  LET b == OfSet(n, bits, 0 .. ELEM_BITS - 1)
      Span(i) == i .. i + cnt - 1
      free == {i \in start .. n - cnt : Span(i) \cap bits = {}}
      flipped == bitmap_scan_and_flip(b, start, cnt, FALSE)
      copy == bitmap_read(bitmap_create(n, {}), bitmap_write(b))
  IN  /\ Bits(b) = bits
      /\ start < n => Bits(bitmap_flip(b, start)) = (bits \ {start}) \cup ({start} \ bits)
      /\ start + cnt <= n =>
           /\ bitmap_count(b, start, cnt, TRUE) = Cardinality(bits \cap Span(start))
           /\ bitmap_none(b, start, cnt) = (bits \cap Span(start) = {})
           /\ bitmap_any(b, start, cnt) = ~bitmap_none(b, start, cnt)
           /\ bitmap_all(b, start, cnt) = (Span(start) \subseteq bits)
           /\ Bits(bitmap_set_multiple(b, start, cnt, FALSE)) = bits \ Span(start)
      /\ IF free = {} THEN flipped = [ret |-> BITMAP_ERROR, map |-> b]
         ELSE /\ flipped.ret = Min(free)
              /\ Bits(flipped.map) = bits \cup Span(Min(free))
      /\ Bits(copy) = bits
      /\ UNION {copy.bits[i] : i \in DOMAIN copy.bits} \subseteq {i % ELEM_BITS : i \in bits}
-----------------------------------------------------------------------------
find_bucket(t, e) == (Hash[e] & (Len(t.buckets) - 1)) + 1

find_elem(t, e) ==
  LET same == SelectSeq(t.buckets[find_bucket(t, e)], LAMBDA i : Key[i] = Key[e])
  IN  IF same = <<>> THEN "null" ELSE Head(same)

insert_elem(t, e) ==
  [buckets |-> [t.buckets EXCEPT ![find_bucket(t, e)] = <<e>> \o @], elem_cnt |-> t.elem_cnt + 1]
(* list_remove unlinks e from whichever list it is on. *)
remove_elem(t, e) ==
  [buckets |-> [i \in DOMAIN t.buckets |-> SelectSeq(t.buckets[i], LAMBDA x : x # e)],
   elem_cnt |-> t.elem_cnt - 1]

RECURSIVE power_of_2(_)
turn_off_least_1bit(x) == x & (x - 1)
is_power_of_2(x) == x # 0 /\ turn_off_least_1bit(x) = 0
power_of_2(x) == IF is_power_of_2(x) THEN x ELSE power_of_2(turn_off_least_1bit(x))

hash_apply(t) == FlattenSeq(t.buckets)

(* An iterator is the place of an element, <<>> at the end. *)
RECURSIVE hash_skip(_, _, _), Visited(_, _)
hash_first == <<1, 0>>
hash_skip(t, bucket, place) ==
  IF place <= Len(t.buckets[bucket]) THEN <<bucket, place>>
  ELSE IF bucket + 1 > Len(t.buckets) THEN <<>>
  ELSE hash_skip(t, bucket + 1, 1)
hash_next(t, i) == hash_skip(t, i[1], i[2] + 1)
Visited(t, i) ==
  LET n == hash_next(t, i) IN IF n = <<>> THEN <<>> ELSE <<t.buckets[n[1]][n[2]]>> \o Visited(t, n)

(* malloc: whether the allocation of the new buckets succeeds. *)
Rebucket(t, malloc, least) ==
  LET n == power_of_2(Max({t.elem_cnt \div BEST_ELEMS_PER_BUCKET, least}))
      empty == [buckets |-> [i \in 1 .. n |-> <<>>], elem_cnt |-> 0]
  IN  IF n = Len(t.buckets) \/ ~malloc THEN t
      ELSE FoldLeft(insert_elem, empty, hash_apply(t))

(* Mutant: elements keep their bucket numbers when the table grows. *)
RehashInPlace(t, malloc) ==
  LET n == Len(Rebucket(t, malloc, MinBuckets).buckets)
  IN  IF n <= Len(t.buckets) THEN Rebucket(t, malloc, MinBuckets)
      ELSE [t EXCEPT !.buckets = @ \o [i \in 1 .. n - Len(t.buckets) |-> <<>>]]
rehash(t, malloc) == Rebucket(t, malloc, MinBuckets)

hash_init == [buckets |-> [i \in 1 .. MinBuckets |-> <<>>], elem_cnt |-> 0]
hash_clear(t) == [t EXCEPT !.buckets = [i \in DOMAIN @ |-> <<>>], !.elem_cnt = 0]

Of(t, e) == LET same == {x \in t : Key[x] = Key[e]} IN IF same = {} THEN "null" ELSE CHOOSE x \in same : TRUE

HashInit == h = hash_init /\ table = {} /\ answer = [got |-> "null", due |-> "null"]

HashInsert(e, malloc) ==
  LET old == find_elem(h, e)
  IN  /\ e \notin table
      /\ h' = rehash(IF old = "null" THEN insert_elem(h, e) ELSE h, malloc)
      /\ answer' = [got |-> old, due |-> Of(table, e)]
      /\ table' = IF Of(table, e) = "null" THEN table \cup {e} ELSE table
HashReplace(e, malloc) ==
  LET old == find_elem(h, e)
  IN  /\ e \notin table
      /\ h' = rehash(insert_elem(IF old # "null" THEN remove_elem(h, old) ELSE h, e), malloc)
      /\ answer' = [got |-> old, due |-> Of(table, e)]
      /\ table' = (table \ {Of(table, e)}) \cup {e}
HashDelete(e, malloc) ==
  LET found == find_elem(h, e)
  IN  /\ h' = IF found # "null" THEN rehash(remove_elem(h, found), malloc) ELSE h
      /\ answer' = [got |-> found, due |-> Of(table, e)]
      /\ table' = table \ {Of(table, e)}
HashClear ==
  h' = hash_clear(h) /\ table' = {} /\ answer' = [got |-> "null", due |-> "null"]

HashNext ==
  \/ \E e \in Elem, malloc \in BOOLEAN :
       HashInsert(e, malloc) \/ HashReplace(e, malloc) \/ HashDelete(e, malloc)
  \/ HashClear

(* After any calls, with malloc failing at any of them, the table returns  *)
(* what a set keyed by Key would, an iteration meets every element once    *)
(* and the element count is right.                                         *)
TableRight ==
  /\ answer.got = answer.due
  /\ \A e \in Elem : find_elem(h, e) = Of(table, e)
  /\ Visited(h, hash_first) = hash_apply(h)
  /\ Len(hash_apply(h)) = h.elem_cnt
  /\ h.elem_cnt = Cardinality(table)
  /\ ToSet(hash_apply(h)) = table
=============================================================================
