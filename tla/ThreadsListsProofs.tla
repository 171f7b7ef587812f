------------------------ MODULE ThreadsListsProofs -------------------------
(***************************************************************************)
(* The steps of Threads keep its types and its lists: a thread's one list  *)
(* element is on one list, the one its status and its place name.          *)
(***************************************************************************)
EXTENDS Threads, TLAPS

----------------------------------------------------------------------------
(* Lists: what the operations of KernelList return, for lists of any       *)
(* length over any set.                                                    *)

(* A non-empty set of naturals has a least element.  ThreadsProofs proves  *)
(* it from the library's well-founded relations; the lemmas that need it   *)
(* have it as a hypothesis.                                                *)
LeastNat == \A T \in SUBSET Nat : T # {} => \E x \in T : \A y \in T : x <= y

LEMMA LeastNatural ==
  ASSUME LeastNat, NEW T \in SUBSET Nat, T # {}
  PROVE  \E x \in T : \A y \in T : x <= y
  BY Zenon DEF LeastNat

(* Where the elements of a concatenation come from. *)
LEMMA ConcatShape ==
  ASSUME NEW S, NEW l \in Seq(S), NEW m \in Seq(S)
  PROVE  /\ l \o m \in Seq(S)
         /\ Len(l \o m) = Len(l) + Len(m)
         /\ \A i \in 1..(Len(l) + Len(m)) :
              (l \o m)[i] = IF i <= Len(l) THEN l[i] ELSE m[i - Len(l)]
  OBVIOUS

(* What lies where after t is inserted into l at p. *)
LEMMA ListInsertShape ==
  ASSUME NEW S, NEW l \in Seq(S), NEW t \in S, NEW p \in 1..(Len(l) + 1)
  PROVE  /\ ListInsert(l, p, t) \in Seq(S)
         /\ Len(ListInsert(l, p, t)) = Len(l) + 1
         /\ \A i \in 1..(Len(l) + 1) :
              ListInsert(l, p, t)[i] =
                IF i < p THEN l[i] ELSE IF i = p THEN t ELSE l[i - 1]
<1> DEFINE a == SubSeq(l, 1, p - 1)
           b == SubSeq(l, p, Len(l))
<1>1. Len(l) \in Nat /\ \A i \in 1..Len(l) : l[i] \in S
  OBVIOUS
<1>a. a \in Seq(S) /\ Len(a) = p - 1 /\ \A i \in 1..(p - 1) : a[i] = l[i]
  BY <1>1
<1>b. /\ b \in Seq(S) /\ Len(b) = Len(l) - p + 1
      /\ \A i \in 1..(Len(l) - p + 1) : b[i] = l[p + i - 1]
  BY <1>1
<1>c. ListInsert(l, p, t) = a \o <<t>> \o b
  BY Zenon DEF ListInsert
<1> HIDE DEF a, b
<1>2. <<t>> \in Seq(S) /\ Len(<<t>>) = 1 /\ <<t>>[1] = t
  OBVIOUS
<1>3. /\ a \o <<t>> \in Seq(S)
      /\ Len(a \o <<t>>) = p
      /\ \A i \in 1..p : (a \o <<t>>)[i] = IF i <= p - 1 THEN a[i] ELSE <<t>>[i - (p - 1)]
  BY <1>1, <1>2, <1>a
<1> DEFINE c == a \o <<t>>
<1>4. c \in Seq(S) /\ Len(c) = p /\ \A i \in 1..p : c[i] = IF i < p THEN l[i] ELSE t
  <2>1. ASSUME NEW i \in 1..p PROVE c[i] = IF i < p THEN l[i] ELSE t
    BY <1>2, <1>3, <1>a
  <2> QED
    BY <1>3, <2>1, Zenon
<1> HIDE DEF c
<1>5. /\ c \o b \in Seq(S)
      /\ Len(c \o b) = Len(l) + 1
      /\ \A i \in 1..(Len(l) + 1) : (c \o b)[i] = IF i <= p THEN c[i] ELSE b[i - p]
  <2>1. /\ c \o b \in Seq(S)
        /\ Len(c \o b) = Len(c) + Len(b)
        /\ \A i \in 1..(Len(c) + Len(b)) :
             (c \o b)[i] = IF i <= Len(c) THEN c[i] ELSE b[i - Len(c)]
    BY <1>4, <1>b, ConcatShape, Zenon
  <2>2. Len(c) = p /\ Len(c) + Len(b) = Len(l) + 1
    BY <1>1, <1>4, <1>b
  <2>3. ASSUME NEW i \in 1..(Len(l) + 1)
        PROVE  (c \o b)[i] = IF i <= p THEN c[i] ELSE b[i - p]
    <3>1. i \in 1..(Len(c) + Len(b))
      BY <2>2, Zenon
    <3>2. (c \o b)[i] = IF i <= Len(c) THEN c[i] ELSE b[i - Len(c)]
      BY <2>1, <3>1, Zenon
    <3> QED
      BY <3>2, <2>2, Zenon
  <2>4. Len(c \o b) = Len(l) + 1
    BY <2>1, <2>2, Zenon
  <2> QED
    BY <2>1, <2>3, <2>4, Zenon
<1>6. ASSUME NEW i \in 1..(Len(l) + 1)
      PROVE  (c \o b)[i] = IF i < p THEN l[i] ELSE IF i = p THEN t ELSE l[i - 1]
  <2>1. CASE i <= p
    BY <2>1, <1>1, <1>4, <1>5
  <2>2. CASE i > p
    <3>1. i - p \in 1..(Len(l) - p + 1) /\ p + (i - p) - 1 = i - 1
      BY <2>2, <1>1
    <3>2. b[i - p] = l[i - 1]
      BY <3>1, <1>b, Zenon
    <3> QED
      BY <2>2, <3>2, <1>1, <1>5
  <2>3. i <= p \/ i > p
    BY <1>1
  <2> QED
    BY <2>1, <2>2, <2>3, Zenon
<1> QED
  BY <1>5, <1>6, <1>c, Zenon DEF c

(* m is l with t inserted at p. *)
Inserted(l, p, t, m) ==
  /\ Len(m) = Len(l) + 1
  /\ \A i \in 1..(p - 1) : m[i] = l[i]
  /\ m[p] = t
  /\ \A i \in p..Len(l) : m[i + 1] = l[i]

(* list_insert_ordered puts the new element at one place and keeps the     *)
(* order of the others.                                                    *)
LEMMA InsertShape ==
  ASSUME LeastNat, NEW S, NEW l \in Seq(S), NEW t \in S, NEW key \in [S -> Int]
  PROVE  \E p \in 1..(Len(l) + 1) :
           /\ ListInsertOrdered(l, t, key) \in Seq(S)
           /\ Inserted(l, p, t, ListInsertOrdered(l, t, key))
           /\ \A i \in 1..(p - 1) : key[l[i]] <= key[t]
           /\ p <= Len(l) => key[t] < key[l[p]]
<1> DEFINE later == {i \in 1..Len(l) : key[t] < key[l[i]]}
           pos   == IF later = {} THEN Len(l) + 1
                                  ELSE CHOOSE i \in later : \A j \in later : i <= j
<1>1. Len(l) \in Nat /\ later \in SUBSET Nat /\ \A i \in 1..Len(l) : l[i] \in S
  OBVIOUS
<1>2. /\ pos \in 1..(Len(l) + 1)
      /\ \A i \in 1..(pos - 1) : key[l[i]] <= key[t]
      /\ pos <= Len(l) => key[t] < key[l[pos]]
  <2>1. CASE later = {}
    BY <1>1, <2>1
  <2>2. CASE later # {}
    <3>1. pos \in later /\ \A j \in later : pos <= j
      BY <1>1, <2>2, LeastNatural, Zenon
    <3> HIDE DEF pos
    <3>2. pos \in 1..Len(l) /\ key[t] < key[l[pos]]
      BY <3>1, Zenon
    <3>3. ASSUME NEW i \in 1..(pos - 1) PROVE key[l[i]] <= key[t]
      <4>1. i \in 1..Len(l) /\ i \notin later
        BY <1>1, <3>1, <3>2
      <4> QED
        BY <1>1, <4>1
    <3> QED
      BY <1>1, <3>2, <3>3
  <2> QED
    BY <2>1, <2>2, Zenon
<1> HIDE DEF later, pos
<1>3. ListInsertOrdered(l, t, key) = ListInsert(l, pos, t)
  BY Zenon DEF ListInsertOrdered, later, pos
<1>4. ListInsert(l, pos, t) \in Seq(S) /\ Inserted(l, pos, t, ListInsert(l, pos, t))
  <2> DEFINE m == ListInsert(l, pos, t)
  <2>1. /\ m \in Seq(S)
        /\ Len(m) = Len(l) + 1
        /\ \A i \in 1..(Len(l) + 1) :
             m[i] = IF i < pos THEN l[i] ELSE IF i = pos THEN t ELSE l[i - 1]
    BY <1>2, ListInsertShape
  <2> HIDE DEF m
  <2>2. \A i \in 1..(pos - 1) : m[i] = l[i]
    BY <1>1, <1>2, <2>1
  <2>3. m[pos] = t
    BY <1>1, <1>2, <2>1
  <2>4. ASSUME NEW i \in pos..Len(l) PROVE m[i + 1] = l[i]
    <3>1. /\ pos \in Nat /\ i \in Nat
          /\ i + 1 \in 1..(Len(l) + 1)
          /\ ~(i + 1 < pos) /\ i + 1 # pos /\ (i + 1) - 1 = i
      BY <1>1, <1>2
    <3>2. m[i + 1] = IF i + 1 < pos THEN l[i + 1]
                     ELSE IF i + 1 = pos THEN t ELSE l[(i + 1) - 1]
      BY <2>1, <3>1, Zenon
    <3> QED
      BY <3>1, <3>2, Zenon
  <2>5. Inserted(l, pos, t, m)
    BY <2>1, <2>2, <2>3, <2>4, Zenon DEF Inserted
  <2> QED
    BY <2>1, <2>5, Zenon DEF m
<1> QED
  BY <1>2, <1>3, <1>4, Zenon

(* The threads on a list after an insertion; no thread comes twice.        *)
LEMMA InsertOn ==
  ASSUME LeastNat, NEW S, NEW l \in Seq(S), NEW t \in S, NEW key \in [S -> Int]
  PROVE  /\ ListInsertOrdered(l, t, key) \in Seq(S)
         /\ \A u : On(u, ListInsertOrdered(l, t, key)) <=> u = t \/ On(u, l)
         /\ NoDuplicates(l) /\ ~On(t, l) => NoDuplicates(ListInsertOrdered(l, t, key))
<1> DEFINE m == ListInsertOrdered(l, t, key)
<1>1. PICK p \in 1..(Len(l) + 1) : m \in Seq(S) /\ Inserted(l, p, t, m)
  BY InsertShape, Zenon
<1> HIDE DEF m
<1>2. Len(l) \in Nat
  OBVIOUS
<1>3. ASSUME NEW k \in 1..Len(m)
      PROVE  k = p \/ (k < p /\ k \in 1..Len(l) /\ m[k] = l[k])
                  \/ (k > p /\ k - 1 \in 1..Len(l) /\ m[k] = l[k - 1])
  <2>1. CASE k < p
    BY <1>1, <1>2, <2>1 DEF Inserted
  <2>2. CASE k > p
    <3>1. k - 1 \in p..Len(l) /\ (k - 1) + 1 = k
      BY <1>1, <1>2, <2>2 DEF Inserted
    <3>2. m[(k - 1) + 1] = l[k - 1]
      BY <1>1, <3>1, Zenon DEF Inserted
    <3> QED
      BY <1>2, <2>2, <3>1, <3>2
  <2> QED
    BY <1>2, <2>1, <2>2
<1>4. ASSUME NEW u, On(u, m) PROVE u = t \/ On(u, l)
  <2>1. PICK k \in 1..Len(m) : m[k] = u
    BY <1>4, Zenon DEF On
  <2> QED
    BY <1>1, <1>3, <2>1, Zenon DEF On, Inserted
<1>5. On(t, m)
  BY <1>1, <1>2, Zenon DEF On, Inserted
<1>6. ASSUME NEW u, On(u, l) PROVE On(u, m)
  <2>1. PICK i \in 1..Len(l) : l[i] = u
    BY <1>6, Zenon DEF On
  <2>2. CASE i < p
    <3>1. Len(m) = Len(l) + 1 /\ \A k \in 1..(p - 1) : m[k] = l[k]
      BY <1>1, Zenon DEF Inserted
    <3>2. i \in 1..Len(m) /\ i \in 1..(p - 1)
      BY <1>2, <2>2, <3>1
    <3>3. m[i] = u
      BY <2>1, <3>1, <3>2, Zenon
    <3> QED
      BY <3>2, <3>3, Zenon DEF On
  <2>3. CASE i >= p
    <3>1. Len(m) = Len(l) + 1 /\ \A k \in p..Len(l) : m[k + 1] = l[k]
      BY <1>1, Zenon DEF Inserted
    <3>2. i + 1 \in 1..Len(m) /\ i \in p..Len(l)
      BY <1>2, <2>3, <3>1
    <3>3. m[i + 1] = u
      BY <2>1, <3>1, <3>2, Zenon
    <3> QED
      BY <3>2, <3>3, Zenon DEF On
  <2> QED
    BY <1>2, <2>1, <2>2, <2>3
<1>7. ASSUME NoDuplicates(l), ~On(t, l) PROVE NoDuplicates(m)
  <2> SUFFICES ASSUME NEW i \in 1..Len(m), NEW j \in 1..Len(m), m[i] = m[j]
               PROVE  i = j
    BY Zenon DEF NoDuplicates
  <2>1. m[p] = t
    BY <1>1, Zenon DEF Inserted
  <2>2. i = p <=> j = p
    BY <1>3, <1>7, <2>1, Zenon DEF On
  <2>3. CASE i # p /\ j # p
    <3>1. PICK a \in 1..Len(l) : m[i] = l[a] /\ a = IF i < p THEN i ELSE i - 1
      <4>1. \/ i < p /\ i \in 1..Len(l) /\ m[i] = l[i]
            \/ i > p /\ i - 1 \in 1..Len(l) /\ m[i] = l[i - 1]
        BY <1>3, <2>3, Zenon
      <4>2. i > p => ~(i < p)
        BY <1>2
      <4> QED
        BY <4>1, <4>2, Zenon
    <3>2. PICK b \in 1..Len(l) : m[j] = l[b] /\ b = IF j < p THEN j ELSE j - 1
      <4>1. \/ j < p /\ j \in 1..Len(l) /\ m[j] = l[j]
            \/ j > p /\ j - 1 \in 1..Len(l) /\ m[j] = l[j - 1]
        BY <1>3, <2>3, Zenon
      <4>2. j > p => ~(j < p)
        BY <1>2
      <4> QED
        BY <4>1, <4>2, Zenon
    <3>3. a = b
      BY <1>7, <3>1, <3>2, Zenon DEF NoDuplicates
    <3> QED
      BY <1>2, <2>3, <3>1, <3>2, <3>3
  <2> QED
    BY <2>2, <2>3, Zenon
<1> QED
  BY <1>1, <1>4, <1>5, <1>6, <1>7, Zenon DEF m

(* What taking the front of a list leaves. *)
LEMMA PopFront ==
  ASSUME NEW S, NEW l \in Seq(S), l # <<>>
  PROVE  /\ Head(l) \in S /\ Tail(l) \in Seq(S)
         /\ On(Head(l), l)
         /\ \A u : On(u, Tail(l)) => On(u, l)
         /\ \A u : On(u, l) => u = Head(l) \/ On(u, Tail(l))
         /\ NoDuplicates(l) => NoDuplicates(Tail(l)) /\ ~On(Head(l), Tail(l))
<1> DEFINE m == Tail(l)
<1>1. /\ Len(l) \in Nat \ {0} /\ Head(l) = l[1] /\ Head(l) \in S
      /\ m \in Seq(S) /\ Len(m) = Len(l) - 1
      /\ \A i \in 1..(Len(l) - 1) : m[i] = l[i + 1]
  OBVIOUS
<1> HIDE DEF m
<1>2. On(Head(l), l)
  BY <1>1 DEF On
<1>3. \A u : On(u, m) => On(u, l)
  BY <1>1 DEF On
<1>4. ASSUME NEW u, On(u, l) PROVE u = Head(l) \/ On(u, m)
  <2>1. PICK i \in 1..Len(l) : l[i] = u
    BY <1>4, Zenon DEF On
  <2>2. CASE i # 1
    <3>1. i - 1 \in 1..Len(m) /\ m[i - 1] = u
      BY <1>1, <2>1, <2>2
    <3> QED
      BY <3>1, Zenon DEF On
  <2> QED
    BY <1>1, <2>1, <2>2, Zenon
<1>5. NoDuplicates(l) => NoDuplicates(m) /\ ~On(Head(l), m)
  BY <1>1 DEF NoDuplicates, On
<1> QED
  BY <1>1, <1>2, <1>3, <1>4, <1>5, Zenon DEF m

(* The empty list holds nobody. *)
LEMMA EmptyList ==
  /\ \A S : <<>> \in Seq(S)
  /\ NoDuplicates(<<>>)
  /\ \A u : ~On(u, <<>>)
  /\ \A key : Sorted(<<>>, key)
  BY DEF NoDuplicates, On, Sorted

(* An insertion keeps a list in order. *)
LEMMA InsertSorted ==
  ASSUME LeastNat, NEW S, NEW l \in Seq(S), NEW t \in S, NEW key \in [S -> Int], Sorted(l, key)
  PROVE  Sorted(ListInsertOrdered(l, t, key), key)
<1> DEFINE m == ListInsertOrdered(l, t, key)
<1>1. PICK p \in 1..(Len(l) + 1) :
        /\ m \in Seq(S)
        /\ Inserted(l, p, t, m)
        /\ \A i \in 1..(p - 1) : key[l[i]] <= key[t]
        /\ p <= Len(l) => key[t] < key[l[p]]
  BY InsertShape, Zenon
<1> HIDE DEF m
<1>2. Len(l) \in Nat /\ key[t] \in Int /\ \A i \in 1..Len(l) : key[l[i]] \in Int
  OBVIOUS
<1>3. ASSUME NEW i \in p..Len(l) PROVE key[t] < key[l[i]]
  <2>1. p \in 1..Len(l) /\ i \in 1..Len(l) /\ (p = i \/ p < i)
    BY <1>2
  <2>2. key[l[p]] <= key[l[i]]
    BY <1>2, <2>1 DEF Sorted
  <2> QED
    BY <1>1, <1>2, <2>1, <2>2
<1>4. ASSUME NEW k \in 1..Len(m)
      PROVE  \/ k = p /\ m[k] = t
             \/ k < p /\ k \in 1..Len(l) /\ m[k] = l[k] /\ key[m[k]] <= key[t]
             \/ k > p /\ k - 1 \in p..Len(l) /\ m[k] = l[k - 1] /\ key[t] < key[m[k]]
  <2>1. CASE k < p
    <3>1. k \in 1..(p - 1) /\ k \in 1..Len(l)
      BY <1>2, <2>1
    <3>2. m[k] = l[k] /\ key[l[k]] <= key[t]
      BY <1>1, <3>1, Zenon DEF Inserted
    <3> QED
      BY <2>1, <3>1, <3>2, Zenon
  <2>2. CASE k > p
    <3>1. k - 1 \in p..Len(l) /\ (k - 1) + 1 = k
      BY <1>1, <1>2, <2>2 DEF Inserted
    <3>2. m[(k - 1) + 1] = l[k - 1]
      BY <1>1, <3>1, Zenon DEF Inserted
    <3> QED
      BY <1>3, <2>2, <3>1, <3>2, Zenon
  <2>3. CASE k = p
    BY <1>1, <2>3, Zenon DEF Inserted
  <2> QED
    BY <1>2, <2>1, <2>2, <2>3
<1>5. ASSUME NEW i \in 1..Len(m), NEW j \in 1..Len(m), i < j
      PROVE  key[m[i]] <= key[m[j]]
  <2>1. CASE i < p /\ j < p
    <3>1. i \in 1..Len(l) /\ m[i] = l[i]
      BY <1>4, <2>1
    <3>2. j \in 1..Len(l) /\ m[j] = l[j]
      BY <1>4, <2>1
    <3>3. key[l[i]] <= key[l[j]]
      BY <1>5, <3>1, <3>2, Zenon DEF Sorted
    <3> QED
      BY <3>1, <3>2, <3>3, Zenon
  <2>2. CASE i <= p /\ p <= j
    <3>1. (i = p \/ i < p) /\ (j = p \/ j > p) /\ ~(i = p /\ j = p)
      BY <1>5, <2>2
    <3>2. i # p => i < p /\ ~(i > p)
      BY <3>1
    <3>3. j # p => j > p /\ ~(j < p)
      BY <3>1
    <3>4. i = p => m[i] = t
      BY <1>1, Zenon DEF Inserted
    <3>5. j = p => m[j] = t
      BY <1>1, Zenon DEF Inserted
    <3>6. i # p => key[m[i]] <= key[t] /\ key[m[i]] \in Int
      BY <1>2, <1>4, <3>2, Zenon
    <3>7. j # p => key[t] < key[m[j]] /\ key[m[j]] \in Int
      <4> SUFFICES ASSUME j # p PROVE key[t] < key[m[j]] /\ key[m[j]] \in Int
        BY Zenon
      <4>1. j - 1 \in p..Len(l) /\ m[j] = l[j - 1] /\ key[t] < key[m[j]]
        BY <1>4, <3>3, Zenon
      <4>2. j - 1 \in 1..Len(l)
        BY <1>2, <4>1
      <4> QED
        BY <1>2, <4>1, <4>2, Zenon
    <3> QED
      BY <1>2, <3>1, <3>4, <3>5, <3>6, <3>7
  <2>3. CASE i > p /\ j > p
    <3>1. /\ i - 1 \in 1..Len(l) /\ j - 1 \in 1..Len(l) /\ i - 1 < j - 1
          /\ m[i] = l[i - 1] /\ m[j] = l[j - 1]
      BY <1>2, <1>4, <1>5, <2>3
    <3> QED
      BY <3>1, Zenon DEF Sorted
  <2> QED
    BY <1>2, <1>5, <2>1, <2>2, <2>3
<1> QED
  BY <1>5, Zenon DEF Sorted, m

(* The front of an ordered list is a least element, and the rest stays in  *)
(* order.                                                                  *)
LEMMA PopSorted ==
  ASSUME NEW S, NEW l \in Seq(S), l # <<>>, NEW key \in [S -> Int], Sorted(l, key)
  PROVE  /\ Sorted(Tail(l), key)
         /\ \A u : On(u, l) => key[Head(l)] <= key[u]
<1> DEFINE m == Tail(l)
<1>1. /\ Len(l) \in Nat \ {0} /\ Head(l) = l[1]
      /\ m \in Seq(S) /\ Len(m) = Len(l) - 1
      /\ \A i \in 1..(Len(l) - 1) : m[i] = l[i + 1]
  OBVIOUS
<1> HIDE DEF m
<1>2. ASSUME NEW i \in 1..Len(m), NEW j \in 1..Len(m), i < j
      PROVE  key[m[i]] <= key[m[j]]
  <2>1. /\ i + 1 \in 1..Len(l) /\ j + 1 \in 1..Len(l) /\ i + 1 < j + 1
        /\ m[i] = l[i + 1] /\ m[j] = l[j + 1]
    BY <1>1, <1>2
  <2> QED
    BY <2>1, Zenon DEF Sorted
<1>3. ASSUME NEW i \in 1..Len(l) PROVE key[l[1]] <= key[l[i]]
  <2>1. i = 1 \/ 1 < i
    BY <1>1
  <2>2. 1 \in 1..Len(l) /\ key[l[1]] \in Int
    BY <1>1
  <2> QED
    BY <2>1, <2>2 DEF Sorted
<1>4. Sorted(m, key)
  BY <1>2, Zenon DEF Sorted
<1> QED
  BY <1>1, <1>3, <1>4, Zenon DEF On, m

(* Order survives a change of keys that never turns two elements round.    *)
LEMMA SortedFrame ==
  ASSUME NEW l, NEW key, NEW key2, Sorted(l, key),
         \A a, b : On(a, l) /\ On(b, l) /\ key[a] <= key[b] => key2[a] <= key2[b]
  PROVE  Sorted(l, key2)
  BY Zenon DEF Sorted, On
----------------------------------------------------------------------------
(* Type correctness. *)
SchedOK ==
  /\ cur \in Thread
  /\ status \in [Thread -> Status]
  /\ ready_list \in Seq(Thread)
  /\ thread_ticks \in Nat

(* The order of cmp_priority is one of integers. *)
LEMMA CmpPriorityType ==
  ASSUME NEW pri \in [Thread -> Priority]
  PROVE  CmpPriority(pri) \in [Thread -> Int]
  BY ThreadsAssumption DEF CmpPriority, Priority

(* schedule() keeps the scheduler's variables well typed. *)
LEMMA ScheduleType ==
  ASSUME NEW l \in Seq(Thread), NEW stat \in [Thread -> Status], Schedule(l, stat)
  PROVE  SchedOK'
<1> DEFINE next == IF l = <<>> THEN IdleThread ELSE Head(l)
<1>1. next \in Thread /\ (IF l = <<>> THEN l ELSE Tail(l)) \in Seq(Thread)
  BY ThreadsAssumption, PopFront, Zenon
<1> HIDE DEF next
<1>2. [stat EXCEPT ![next] = "RUNNING"] \in [Thread -> Status]
  BY <1>1, Zenon DEF Status
<1> QED
  BY <1>1, <1>2, Zenon DEF Schedule, SchedOK, next

(* thread_yield, *)
LEMMA YieldType ==
  ASSUME LeastNat, cur \in Thread, NEW l \in Seq(Thread), NEW stat \in [Thread -> Status],
         NEW pri \in [Thread -> Priority], ThreadYield(l, stat, pri)
  PROVE  SchedOK'
<1>1. ListInsertOrdered(l, cur, CmpPriority(pri)) \in Seq(Thread)
  BY CmpPriorityType, InsertOn, Zenon
<1>2. [stat EXCEPT ![cur] = "READY"] \in [Thread -> Status]
  BY Zenon DEF Status
<1>3. (IF cur = IdleThread THEN l ELSE ListInsertOrdered(l, cur, CmpPriority(pri)))
        \in Seq(Thread)
  BY <1>1, Zenon
<1> QED
  BY <1>2, <1>3, ScheduleType, Zenon DEF ThreadYield

(* test_max_priority, *)
LEMMA TestMaxType ==
  ASSUME LeastNat, SchedOK, NEW l \in Seq(Thread), NEW stat \in [Thread -> Status],
         NEW pri \in [Thread -> Priority], TestMaxPriority(l, stat, pri)
  PROVE  SchedOK'
<1>1. CASE OutrankedBy(l, pri)
  BY <1>1, YieldType, Zenon DEF TestMaxPriority, SchedOK
<1>2. CASE ~OutrankedBy(l, pri)
  BY <1>2, Zenon DEF TestMaxPriority, SchedOK
<1> QED
  BY <1>1, <1>2, Zenon

(* thread_block, *)
LEMMA BlockType ==
  ASSUME SchedOK, ThreadBlock
  PROVE  SchedOK'
<1>1. [status EXCEPT ![cur] = "BLOCKED"] \in [Thread -> Status]
  BY Zenon DEF SchedOK, Status
<1> QED
  BY <1>1, ScheduleType, Zenon DEF ThreadBlock, SchedOK

(* thread_unblock *)
LEMMA UnblockType ==
  ASSUME LeastNat, TypeOK, NEW t \in Thread
  PROVE  UnblockedList(t) \in Seq(Thread) /\ UnblockedStatus(t) \in [Thread -> Status]
<1>1. UnblockedList(t) \in Seq(Thread)
  BY CmpPriorityType, InsertOn, Zenon DEF TypeOK, UnblockedList
<1>2. UnblockedStatus(t) \in [Thread -> Status]
  BY Zenon DEF TypeOK, UnblockedStatus, Status
<1> QED
  BY <1>1, <1>2, Zenon

(* The bodies of sema_down and sema_up. *)
LEMMA DownType ==
  ASSUME LeastNat, TypeOK, NEW s \in Sema, SemaDownStep(s)
  PROVE  /\ SchedOK' /\ value' \in [Sema -> Nat] /\ waiters' \in [Sema -> Seq(Thread)]
         /\ pc' \in [Thread -> PC] /\ arg' \in [Thread -> Sema \cup {NULL}]
         /\ \A t \in Thread : t # cur => pc'[t] = pc[t] /\ arg'[t] = arg[t]
         /\ pc'[cur] \in {"down", "own", "run"}
         /\ pc'[cur] = "down" => arg'[cur] = s
         /\ pc'[cur] = "own" => arg'[cur] = s /\ s \in Lock
<1>1. CASE value[s] = 0
  <2>1. ListInsertOrdered(waiters[s], cur, CmpPriority(priority)) \in Seq(Thread)
    BY CmpPriorityType, InsertOn, Zenon DEF TypeOK
  <2>2. SchedOK'
    BY <1>1, BlockType, Zenon DEF SemaDownStep, TypeOK, SchedOK
  <2>3. value' \in [Sema -> Nat] /\ waiters' \in [Sema -> Seq(Thread)]
    BY <1>1, <2>1, Zenon DEF SemaDownStep, TypeOK
  <2>4. pc' = [pc EXCEPT ![cur] = "down"] /\ arg' = [arg EXCEPT ![cur] = s]
    BY <1>1, Zenon DEF SemaDownStep, Goto
  <2> QED
    BY <2>2, <2>3, <2>4, Zenon DEF TypeOK, PC
<1>2. CASE value[s] # 0
  <2>1. value[s] - 1 \in Nat
    BY <1>2 DEF TypeOK
  <2>2. SchedOK'
    BY <1>2, Zenon DEF SemaDownStep, TypeOK, SchedOK, sched
  <2>3. value' \in [Sema -> Nat] /\ waiters' \in [Sema -> Seq(Thread)]
    BY <1>2, <2>1, Zenon DEF SemaDownStep, TypeOK
  <2>4. /\ pc' = [pc EXCEPT ![cur] = IF s \in Lock THEN "own" ELSE "run"]
        /\ arg' = [arg EXCEPT ![cur] = IF s \in Lock THEN s ELSE NULL]
    BY <1>2, Zenon DEF SemaDownStep, Goto, AfterDown
  <2> QED
    BY <2>2, <2>3, <2>4, Zenon DEF TypeOK, PC
<1> QED
  BY <1>1, <1>2, Zenon

(* and sema_up keep the types of the scheduler's variables. *)
LEMMA UpType ==
  ASSUME LeastNat, TypeOK, NEW s \in Sema, SemaUpStep(s)
  PROVE  SchedOK' /\ value' \in [Sema -> Nat] /\ waiters' \in [Sema -> Seq(Thread)]
<1>0. SchedOK /\ priority \in [Thread -> Priority] /\ waiters[s] \in Seq(Thread)
  BY Zenon DEF TypeOK, SchedOK
<1>1. value' \in [Sema -> Nat]
  BY DEF SemaUpStep, TypeOK
<1>2. CASE waiters[s] = <<>>
  BY <1>0, <1>1, <1>2, TestMaxType, Zenon DEF SemaUpStep, TypeOK
<1>3. CASE waiters[s] # <<>>
  <2>1. Head(waiters[s]) \in Thread /\ Tail(waiters[s]) \in Seq(Thread)
    BY <1>0, <1>3, PopFront, Zenon
  <2>2. SchedOK'
    BY <1>0, <1>3, <2>1, UnblockType, TestMaxType, Zenon DEF SemaUpStep
  <2>3. waiters' \in [Sema -> Seq(Thread)]
    BY <1>3, <2>1, Zenon DEF SemaUpStep, TypeOK
  <2> QED
    BY <1>1, <2>2, <2>3, Zenon
<1> QED
  BY <1>2, <1>3, Zenon

TInv == TypeOK /\ Operands

(* Init satisfies it. *)
LEMMA TInvInit == Init => TInv
<1> SUFFICES ASSUME Init PROVE TypeOK /\ Operands
  BY Zenon DEF TInv
<1> USE ThreadsAssumption
<1>1. status \in [Thread -> Status] /\ tid \in [Thread -> Nat]
  BY Zenon DEF Init, Status
<1>2. /\ priority \in [Thread -> Priority] /\ pc \in [Thread -> PC]
      /\ value \in [Sema -> Nat] /\ waiters \in [Sema -> Seq(Thread)]
      /\ holder \in [Lock -> Thread \cup {NULL}]
  BY DEF Init, Priority, PC
<1>a. /\ cur \in Thread /\ ready_list \in Seq(Thread) /\ sleep_list \in Seq(Thread)
      /\ wake_up_time \in [Thread -> Nat] /\ arg \in [Thread -> Sema \cup {NULL}]
      /\ new \in [Thread -> Thread \cup {NULL}] /\ tmp \in [Thread -> Int]
  BY DEF Init
<1>b. /\ next_tid \in Nat /\ ticks \in Nat /\ thread_ticks \in Nat
      /\ in_external_intr \in BOOLEAN /\ yield_on_return \in BOOLEAN
      /\ panic \in BOOLEAN
  BY Zenon DEF Init
<1>3. TypeOK
  BY <1>1, <1>2, <1>a, <1>b, Zenon DEF TypeOK
<1>4. Operands
  BY Zenon DEF Init, Operands
<1> QED
  BY <1>3, <1>4, Zenon

(* Every step keeps TypeOK and Operands. *)
LEMMA TInvNext ==
  ASSUME LeastNat
  PROVE  TInv /\ [Next]_vars => TInv'
<1> SUFFICES ASSUME TypeOK, Operands
             PROVE  [Next]_vars => TypeOK' /\ Operands'
  BY Zenon DEF TInv
<1>a. SchedOK /\ cur \in Thread
  BY Zenon DEF TypeOK, SchedOK
<1>1. ASSUME NEW s \in Sema, SemaDown(s) PROVE TypeOK' /\ Operands'
  <2>1. SemaDownStep(s)
    BY <1>1, Zenon DEF SemaDown
  <2>2. tmp[cur] \in Nat
    BY <1>1, <1>a, Zenon DEF SemaDown, At, Operands
  <2>t. TypeOK'
    BY <1>1, <2>1, DownType, Zenon
       DEF SemaDown, TypeOK, SchedOK, alarm, tids, intr, PC
  <2>o. Operands'
    BY <1>1, <2>1, <2>2, DownType, Zenon DEF SemaDown, Operands, tids
  <2> QED
    BY <2>t, <2>o, Zenon
<1>2. ASSUME SemaDownWoken PROVE TypeOK' /\ Operands'
  <2>1. arg[cur] \in Sema /\ SemaDownStep(arg[cur])
    BY <1>2, <1>a, Zenon DEF SemaDownWoken, Operands, At
  <2>t. TypeOK'
    BY <1>2, <2>1, DownType, Zenon
       DEF SemaDownWoken, At, TypeOK, SchedOK, alarm, tids, intr, PC
  <2>o. Operands'
    BY <1>2, <2>1, DownType, Zenon
       DEF SemaDownWoken, At, TypeOK, Operands, SchedOK, alarm, tids, intr, PC
  <2> QED
    BY <2>t, <2>o, Zenon
<1>3. ASSUME NEW s \in Sema, SemaTryDown(s) PROVE TypeOK' /\ Operands'
  <2>1. value[s] \in Nat /\ value[s] > 0
    BY <1>3, Zenon DEF SemaTryDown, TypeOK
  <2>2. value' \in [Sema -> Nat]
    BY <1>3, <2>1 DEF SemaTryDown, TypeOK
  <2>t. TypeOK'
    BY <1>3, <2>2, Zenon DEF SemaTryDown, TypeOK, sched, alarm, tids, intr, control
  <2>o. Operands'
    BY <1>3, Zenon DEF SemaTryDown, Operands, tids, control
  <2> QED
    BY <2>t, <2>o, Zenon
<1>4. ASSUME NEW s \in Sema, SemaUp(s) PROVE TypeOK' /\ Operands'
  <2>1. SemaUpStep(s)
    BY <1>4, Zenon DEF SemaUp
  <2>t. TypeOK'
    BY <1>4, <2>1, UpType, Zenon
       DEF SemaUp, TypeOK, SchedOK, alarm, tids, intr, control
  <2>o. Operands'
    BY <1>4, <2>1, UpType, Zenon
       DEF SemaUp, TypeOK, Operands, SchedOK, alarm, tids, intr, control
  <2> QED
    BY <2>t, <2>o, Zenon
<1>5. ASSUME NEW l \in Lock, LockAcquire(l) PROVE TypeOK' /\ Operands'
  <2>1. l \in Sema /\ SemaDownStep(l)
    BY <1>5, ThreadsAssumption, Zenon DEF LockAcquire
  <2>2. tmp[cur] \in Nat
    BY <1>5, <1>a, Zenon DEF LockAcquire, At, Operands
  <2>t. TypeOK'
    BY <1>5, <2>1, <2>2, DownType, Zenon
       DEF LockAcquire, TypeOK, SchedOK, alarm, tids, intr, PC
  <2>o. Operands'
    BY <1>5, <2>1, <2>2, DownType, Zenon
       DEF LockAcquire, TypeOK, Operands, SchedOK, alarm, tids, intr, PC
  <2> QED
    BY <2>t, <2>o, Zenon
<1>6. ASSUME NEW l \in Lock, LockTryAcquire(l) PROVE TypeOK' /\ Operands'
  <2>1. l \in Sema /\ value[l] \in Nat /\ value[l] > 0
    BY <1>6, ThreadsAssumption, Zenon DEF LockTryAcquire, TypeOK
  <2>2. /\ value' \in [Sema -> Nat] /\ pc' \in [Thread -> PC]
        /\ arg' \in [Thread -> Sema \cup {NULL}]
    BY <1>6, <2>1 DEF LockTryAcquire, Goto, TypeOK, PC
  <2>t. TypeOK'
    BY <1>6, <2>2, Zenon DEF LockTryAcquire, Goto, TypeOK, sched, alarm, tids, intr
  <2>o. Operands'
    BY <1>6, <2>1, Zenon
       DEF LockTryAcquire, At, Goto, TypeOK, Operands, sched, alarm, tids, intr, PC
  <2> QED
    BY <2>t, <2>o, Zenon
<1>7. ASSUME LockOwn PROVE TypeOK' /\ Operands'
  <2>1. arg[cur] \in Lock
    BY <1>7, <1>a, Zenon DEF LockOwn, At, Operands
  <2>t. TypeOK'
    BY <1>7, <2>1, Zenon
       DEF LockOwn, At, Goto, TypeOK, sched, alarm, tids, intr, PC
  <2>o. Operands'
    BY <1>7, <2>1, Zenon
       DEF LockOwn, At, Goto, TypeOK, Operands, sched, alarm, tids, intr, PC
  <2> QED
    BY <2>t, <2>o, Zenon
<1>8. ASSUME NEW l \in Lock, LockRelease(l) PROVE TypeOK' /\ Operands'
  <2>1. l \in Sema
    BY ThreadsAssumption, Zenon
  <2>2. /\ holder' \in [Lock -> Thread \cup {NULL}]
        /\ arg' \in [Thread -> Sema \cup {NULL}] /\ pc' \in [Thread -> PC]
    BY <1>8, <2>1, Zenon DEF LockRelease, Goto, TypeOK, PC
  <2>t. TypeOK'
    BY <1>8, <2>2, Zenon DEF LockRelease, TypeOK, sched, alarm, tids, intr
  <2>o. Operands'
    BY <1>8, Zenon
       DEF LockRelease, At, Goto, TypeOK, Operands, sched, alarm, tids, intr, PC
  <2> QED
    BY <2>t, <2>o, Zenon
<1>9. ASSUME LockReleaseUp PROVE TypeOK' /\ Operands'
  <2>1. arg[cur] \in Sema /\ SemaUpStep(arg[cur])
    BY <1>9, <1>a, ThreadsAssumption, Zenon DEF LockReleaseUp, At, Operands
  <2>t. TypeOK'
    BY <1>9, <2>1, UpType, Zenon
       DEF LockReleaseUp, At, Goto, AfterUp, TypeOK, SchedOK, alarm, tids, intr, PC
  <2>o. Operands'
    BY <1>9, <2>1, UpType, Zenon
       DEF LockReleaseUp, At, Goto, AfterUp, TypeOK, Operands, SchedOK, alarm, tids, intr, PC
  <2> QED
    BY <2>t, <2>o, Zenon
<1>10. ASSUME NEW t \in Thread, NEW p \in NewPriority, ThreadCreate(t, p)
       PROVE  TypeOK' /\ Operands'
  <2>1. p \in Priority
    BY ThreadsAssumption, Zenon DEF Priority
  <2>2. priority' \in [Thread -> Priority] /\ status' \in [Thread -> Status]
    BY <1>10, <2>1, Zenon DEF ThreadCreate, TypeOK, Status
  <2>3. tid' \in [Thread -> Nat] /\ tmp' \in [Thread -> Int]
    BY <1>10 DEF ThreadCreate, TypeOK
  <2>4. new' \in [Thread -> Thread \cup {NULL}] /\ arg' \in [Thread -> Sema \cup {NULL}]
    BY <1>10, Zenon DEF ThreadCreate, TypeOK
  <2>5. pc' \in [Thread -> PC]
    BY <1>10, Zenon DEF ThreadCreate, TypeOK, PC
  <2>t. TypeOK'
    BY <1>10, <2>2, <2>3, <2>4, <2>5, Zenon DEF ThreadCreate, TypeOK, alarm, synch, intr
  <2>o. Operands'
    BY <1>10, Zenon
       DEF ThreadCreate, At, TypeOK, Operands, alarm, synch, intr, PC, Status, Priority
  <2> QED
    BY <2>t, <2>o, Zenon
<1>11. ASSUME AllocateTidRead PROVE TypeOK' /\ Operands'
  <2>1. tmp' \in [Thread -> Int] /\ pc' \in [Thread -> PC]
    BY <1>11 DEF AllocateTidRead, Goto, TypeOK, PC
  <2>t. TypeOK'
    BY <1>11, <2>1, Zenon DEF AllocateTidRead, TypeOK, sched, alarm, synch, tids, intr
  <2>o. Operands'
    BY <1>11, Zenon
       DEF AllocateTidRead, At, Goto, TypeOK, Operands, sched, alarm, synch, tids, intr, PC
  <2> QED
    BY <2>t, <2>o, Zenon
<1>12. ASSUME AllocateTidWrite PROVE TypeOK' /\ Operands'
  <2>1. tmp[cur] \in Nat
    BY <1>12, <1>a, Zenon DEF AllocateTidWrite, At, Operands
  <2>2. next_tid' \in Nat /\ pc' \in [Thread -> PC]
    BY <1>12, <2>1 DEF AllocateTidWrite, Goto, TypeOK, PC
  <2>t. TypeOK'
    BY <1>12, <2>2, Zenon DEF AllocateTidWrite, TypeOK, sched, alarm, synch, intr
  <2>o. Operands'
    BY <1>12, <2>1, Zenon
       DEF AllocateTidWrite, At, Goto, TypeOK, Operands, sched, alarm, synch, intr, PC
  <2> QED
    BY <2>t, <2>o, Zenon
<1>13. ASSUME ThreadCreateUnblock PROVE TypeOK' /\ Operands'
  <2>1. new[cur] \in Thread /\ tmp[cur] \in Nat
    BY <1>13, <1>a, Zenon DEF ThreadCreateUnblock, At, Operands, TypeOK
  <2>t. TypeOK'
    BY <1>13, <2>1, UnblockType, Zenon
       DEF ThreadCreateUnblock, At, Goto, TypeOK, alarm, synch, intr, PC
  <2>o. Operands'
    BY <1>13, <2>1, UnblockType, Zenon
       DEF ThreadCreateUnblock, At, Goto, TypeOK, Operands, alarm, synch, intr, PC
  <2> QED
    BY <2>t, <2>o, Zenon
<1>14. ASSUME ThreadCreateCheck PROVE TypeOK' /\ Operands'
  <2>1. ThreadYield(ready_list, status, priority) \/ UNCHANGED sched
    BY <1>14, Zenon DEF ThreadCreateCheck
  <2>2. SchedOK'
    BY <2>1, <1>a, YieldType, Zenon DEF SchedOK, TypeOK, sched
  <2>3. /\ new' \in [Thread -> Thread \cup {NULL}]
        /\ tmp' \in [Thread -> Int] /\ pc' \in [Thread -> PC]
    BY <1>14 DEF ThreadCreateCheck, Goto, TypeOK, PC
  <2>t. TypeOK'
    BY <1>14, <2>2, <2>3, Zenon DEF ThreadCreateCheck, TypeOK, SchedOK, alarm, synch, intr
  <2>o. Operands'
    BY <1>14, <2>2, Zenon
       DEF ThreadCreateCheck, At, Goto, TypeOK, Operands, SchedOK, alarm, synch, intr, PC
  <2> QED
    BY <2>t, <2>o, Zenon
<1>15. ASSUME ThreadExit PROVE TypeOK' /\ Operands'
  <2>1. [status EXCEPT ![cur] = IF cur = InitialThread THEN "DYING" ELSE "UNUSED"]
          \in [Thread -> Status]
    BY Zenon DEF TypeOK, Status
  <2>2. SchedOK'
    BY <1>15, <1>a, <2>1, ScheduleType, Zenon DEF ThreadExit, SchedOK
  <2>3. wake_up_time' \in [Thread -> Nat] /\ tid' \in [Thread -> Nat]
    BY <1>15, Zenon DEF ThreadExit, TypeOK
  <2>4. 0 \in Priority
    BY ThreadsAssumption DEF Priority
  <2>5. priority' \in [Thread -> Priority]
    BY <1>15, <2>4, Zenon DEF ThreadExit, TypeOK
  <2>t. TypeOK'
    BY <1>15, <2>2, <2>3, <2>5, Zenon DEF ThreadExit, TypeOK, SchedOK, synch, intr, control
  <2>o. Operands'
    BY <1>15, <2>2, Zenon
       DEF ThreadExit, TypeOK, Operands, SchedOK, synch, intr, control, Priority
  <2> QED
    BY <2>t, <2>o, Zenon
<1>16. ASSUME Yield PROVE TypeOK' /\ Operands'
  <2>1. SchedOK'
    BY <1>16, YieldType, Zenon DEF Yield, TypeOK
  <2>t. TypeOK'
    BY <1>16, <2>1, Zenon
       DEF Yield, TypeOK, SchedOK, alarm, synch, tids, intr, control
  <2>o. Operands'
    BY <1>16, <2>1, Zenon
       DEF Yield, TypeOK, Operands, SchedOK, alarm, synch, tids, intr, control
  <2> QED
    BY <2>t, <2>o, Zenon
<1>17. ASSUME NEW p \in NewPriority, ThreadSetPriority(p) PROVE TypeOK' /\ Operands'
  <2>0. p \in Priority
    BY ThreadsAssumption, Zenon DEF Priority
  <2>1. priority' \in [Thread -> Priority]
    BY <1>17, <2>0, Zenon DEF ThreadSetPriority, TypeOK
  <2>2. TestMaxPriority(ready_list, status, priority') \/ UNCHANGED sched
    BY <1>17, Zenon DEF ThreadSetPriority
  <2>3. SchedOK'
    BY <1>a, <2>1, <2>2, TestMaxType, Zenon DEF SchedOK, sched
  <2>t. TypeOK'
    BY <1>17, <2>1, <2>3, Zenon
       DEF ThreadSetPriority, TypeOK, SchedOK, alarm, synch, tids, intr, control
  <2>o. Operands'
    BY <1>17, <2>1, <2>3, Zenon
       DEF ThreadSetPriority, TypeOK, Operands, SchedOK, alarm, synch, tids, intr, control
  <2> QED
    BY <2>t, <2>o, Zenon
<1>18. ASSUME NEW n \in SleepTicks, TimerSleep(n) PROVE TypeOK' /\ Operands'
  <2>0. ticks + n \in Int /\ IntMax \in Nat
    BY ThreadsAssumption DEF TypeOK
  <2>1. ToInt(ticks + n) \in Int
    BY <2>0 DEF ToInt
  <2>t. TypeOK'
    BY <1>18, <2>1, Zenon
       DEF TimerSleep, At, Goto, TypeOK, sched, alarm, synch, tids, intr, PC
  <2>o. Operands'
    BY <1>18, <2>1, Zenon
       DEF TimerSleep, At, Goto, TypeOK, Operands, sched, alarm, synch, tids, intr, PC
  <2> QED
    BY <2>t, <2>o, Zenon
<1>19. ASSUME ThreadSleep PROVE TypeOK' /\ Operands'
  <2>1. tmp' \in [Thread -> Int] /\ pc' \in [Thread -> PC]
    BY <1>19 DEF ThreadSleep, Goto, TypeOK, PC
  <2>2. /\ SchedOK' /\ sleep_list' \in Seq(Thread)
        /\ wake_up_time' \in [Thread -> Nat]
    <3>1. CASE tmp[cur] <= 0
      BY <1>19, <1>a, <3>1, Zenon DEF ThreadSleep, TypeOK, SchedOK, sched
    <3>2. CASE ~(tmp[cur] <= 0)
      <4>1. tmp[cur] \in Nat
        BY <1>a, <3>2 DEF TypeOK
      <4>2. wake_up_time' \in [Thread -> Nat]
        BY <1>19, <3>2, <4>1, Zenon DEF ThreadSleep, TypeOK
      <4>3. wake_up_time' \in [Thread -> Int] /\ sleep_list \in Seq(Thread)
        BY <4>2 DEF TypeOK
      <4>4. sleep_list' \in Seq(Thread)
        BY <1>19, <1>a, <3>2, <4>3, InsertOn DEF ThreadSleep
      <4> QED
        BY <1>19, <1>a, <3>2, <4>2, <4>4, BlockType, Zenon DEF ThreadSleep
    <3> QED
      BY <3>1, <3>2, Zenon
  <2>t. TypeOK'
    BY <1>19, <2>1, <2>2, Zenon DEF ThreadSleep, TypeOK, SchedOK, synch, tids, intr
  <2>o. Operands'
    BY <1>19, <1>a, Zenon DEF ThreadSleep, Goto, TypeOK, Operands, tids
  <2> QED
    BY <2>t, <2>o, Zenon
<1>20. ASSUME IdleLoop PROVE TypeOK' /\ Operands'
  <2>1. SchedOK'
    BY <1>20, <1>a, BlockType, Zenon DEF IdleLoop
  <2>t. TypeOK'
    BY <1>20, <2>1, Zenon
       DEF IdleLoop, At, Goto, TypeOK, SchedOK, alarm, synch, tids, intr, PC
  <2>o. Operands'
    BY <1>20, <2>1, Zenon
       DEF IdleLoop, At, Goto, TypeOK, Operands, SchedOK, alarm, synch, tids, intr, PC
  <2> QED
    BY <2>t, <2>o, Zenon
<1>21. ASSUME TimerInterrupt PROVE TypeOK' /\ Operands'
  <2>1. priority' \in [Thread -> Priority]
    <3>1. ASSUME NEW t \in Thread PROVE ThreadAging[t] \in Priority
      <4>1. priority[t] \in 0..PriMax /\ PriMax \in Nat
        BY ThreadsAssumption, Zenon DEF TypeOK, Priority
      <4>2. priority[t] < PriMax => priority[t] + 1 \in 0..PriMax
        BY <4>1
      <4>3. ThreadAging[t] \in {priority[t]} \cup {x \in {priority[t] + 1} : priority[t] < PriMax}
        BY Zenon DEF ThreadAging
      <4> QED
        BY <4>1, <4>2, <4>3, Zenon DEF Priority
    <3>2. ThreadAging \in [Thread -> Priority]
      BY <3>1, Zenon DEF ThreadAging
    <3> QED
      BY <1>21, <3>2, Zenon DEF TimerInterrupt, TypeOK
  <2>2. /\ yield_on_return' \in BOOLEAN /\ in_external_intr' \in BOOLEAN
        /\ ticks' \in Nat /\ thread_ticks' \in Nat
    BY <1>21 DEF TimerInterrupt, TypeOK
  <2>t. TypeOK'
    BY <1>21, <2>1, <2>2, Zenon
       DEF TimerInterrupt, TypeOK, synch, tids, control
  <2>o. Operands'
    BY <1>21, <2>1, <2>2, Zenon
       DEF TimerInterrupt, TypeOK, Operands, synch, tids, control
  <2> QED
    BY <2>t, <2>o, Zenon
<1>22. ASSUME ThreadAwake PROVE TypeOK' /\ Operands'
  <2>1. Head(sleep_list) \in Thread /\ Tail(sleep_list) \in Seq(Thread)
    BY <1>22, PopFront, Zenon DEF ThreadAwake, SleeperDue, TypeOK
  <2>t. TypeOK'
    BY <1>22, <2>1, UnblockType, Zenon
       DEF ThreadAwake, TypeOK, synch, tids, intr, control
  <2>o. Operands'
    BY <1>22, <2>1, UnblockType, Zenon
       DEF ThreadAwake, TypeOK, Operands, synch, tids, intr, control
  <2> QED
    BY <2>t, <2>o, Zenon
<1>w. ASSUME WakeIdle
      PROVE  /\ pc' \in [Thread -> PC]
             /\ \A t \in Thread : pc'[t] = pc[t] \/ pc'[t] = "loop"
  BY <1>w, Zenon DEF WakeIdle, TypeOK, PC
<1>23. ASSUME IntrReturn PROVE TypeOK' /\ Operands'
  <2>1. ThreadYield(ready_list, status, priority) \/ UNCHANGED sched
    BY <1>23, Zenon DEF IntrReturn
  <2>2. SchedOK'
    BY <2>1, <1>a, YieldType, Zenon DEF SchedOK, TypeOK, sched
  <2>3. in_external_intr' \in BOOLEAN /\ yield_on_return' \in BOOLEAN /\ WakeIdle
    BY <1>23, Zenon DEF IntrReturn
  <2>4. UNCHANGED <<priority, alarm, synch, tids, panic, arg, tmp>>
    BY <1>23, Zenon DEF IntrReturn
  <2>5. pc' \in [Thread -> PC]
    BY <1>w, <2>3, Zenon
  <2>t. TypeOK'
    BY <2>2, <2>3, <2>4, <2>5, Zenon DEF TypeOK, SchedOK, alarm, synch, tids
  <2>o. Operands'
    BY <1>23, <1>w, <2>3, Zenon DEF IntrReturn, Operands, tids
  <2> QED
    BY <2>t, <2>o, Zenon
<1>24. ASSUME NEW s \in IntrSema, DeviceInterrupt(s) PROVE TypeOK' /\ Operands'
  <2>1. s \in Sema /\ waiters[s] \in Seq(Thread)
    BY ThreadsAssumption, Zenon DEF TypeOK
  <2>2. value' \in [Sema -> Nat] /\ WakeIdle
    BY <1>24, <2>1 DEF DeviceInterrupt, TypeOK
  <2>3. /\ waiters' \in [Sema -> Seq(Thread)] /\ ready_list' \in Seq(Thread)
        /\ status' \in [Thread -> Status]
    <3>1. CASE waiters[s] = <<>>
      BY <1>24, <3>1, Zenon DEF DeviceInterrupt, TypeOK
    <3>2. CASE waiters[s] # <<>>
      <4>1. Head(waiters[s]) \in Thread /\ Tail(waiters[s]) \in Seq(Thread)
        BY <2>1, <3>2, PopFront, Zenon
      <4>2. /\ waiters' = [waiters EXCEPT ![s] = Tail(@)]
            /\ ready_list' = UnblockedList(Head(waiters[s]))
            /\ status' = UnblockedStatus(Head(waiters[s]))
        BY <1>24, <3>2, Zenon DEF DeviceInterrupt
      <4> QED
        BY <2>1, <4>1, <4>2, UnblockType, Zenon DEF TypeOK
    <3> QED
      BY <3>1, <3>2, Zenon
  <2>4. panic' \in BOOLEAN
    BY <1>24, Zenon DEF DeviceInterrupt, OutrankedBy
  <2>t. TypeOK'
    BY <1>24, <1>w, <2>2, <2>3, <2>4, Zenon DEF DeviceInterrupt, TypeOK, alarm, tids
  <2>5. \A t \in Thread : pc'[t] = pc[t] \/ pc'[t] = "loop"
    BY <1>w, <2>2, Zenon
  <2>6. UNCHANGED <<tids, arg, tmp>>
    BY <1>24, Zenon DEF DeviceInterrupt
  <2>o. Operands'
    BY <2>5, <2>6, Zenon DEF Operands, tids
  <2> QED
    BY <2>t, <2>o, Zenon
<1>25. ASSUME UNCHANGED vars PROVE TypeOK' /\ Operands'
  BY <1>25, Zenon
     DEF vars, sched, alarm, synch, tids, intr, control, TypeOK, Operands
<1> QED
  BY <1>1, <1>2, <1>3, <1>4, <1>5, <1>6, <1>7, <1>8, <1>9, <1>10, <1>11, <1>12,
     <1>13, <1>14, <1>15, <1>16, <1>17, <1>18, <1>19, <1>20, <1>21, <1>22, <1>23,
     <1>24, <1>25, Zenon
     DEF Next, ThreadStep, Interrupt, Halted
-----------------------------------------------------------------------------
(* IInv is inductive, and with it t->elem is never on two lists. *)

(* How a switch may change statuses from st to st2: nobody becomes BLOCKED *)
(* or UNUSED, and only idle stops being BLOCKED.                           *)
Kept(st, st2) ==
  \A t \in Thread :
    /\ st2[t] = "BLOCKED" => st[t] = "BLOCKED"
    /\ st2[t] = "UNUSED" => st[t] = "UNUSED"
    /\ st[t] = "BLOCKED" /\ t # IdleThread => st2[t] = "BLOCKED"

IdleOK(p) == p[IdleThread] \in {"hlt", "loop"}

(* What the scheduler's functions leave behind. *)
Switched(sl, ws, stat, p, a) ==
  /\ Linked(ready_list', sl, ws, status', p, a)
  /\ OneRunning'
  /\ Kept(stat, status')

(* Linked looks at the place and the semaphore of blocked threads only. *)
LEMMA LinkedFrame ==
  ASSUME NEW rl, NEW sl, NEW ws, NEW st, NEW p, NEW a, NEW q, NEW b,
         Linked(rl, sl, ws, st, p, a),
         \A t \in Thread : st[t] = "BLOCKED" => q[t] = p[t] /\ b[t] = a[t]
  PROVE  Linked(rl, sl, ws, st, q, b)
  BY Zenon DEF Linked

(* schedule() with nobody running in stat. *)
LEMMA ScheduleLinked ==
  ASSUME NEW l \in Seq(Thread), NEW sl, NEW ws, NEW stat \in [Thread -> Status],
         NEW p, NEW a, IdleOK(p), Linked(l, sl, ws, stat, p, a),
         \A t \in Thread : stat[t] # "RUNNING", Schedule(l, stat)
  PROVE  Switched(sl, ws, stat, p, a)
<1> DEFINE next == IF l = <<>> THEN IdleThread ELSE Head(l)
           rest == IF l = <<>> THEN l ELSE Tail(l)
<1>1. /\ next \in Thread /\ IdleThread \in Thread
      /\ NoDuplicates(rest) /\ ~On(next, rest)
      /\ \A u : On(u, rest) => On(u, l)
      /\ next = IdleThread \/ On(next, l)
  <2>1. CASE l = <<>>
    BY <2>1, EmptyList, ThreadsAssumption, Zenon
  <2>2. CASE l # <<>>
    BY <2>2, PopFront, ThreadsAssumption, Zenon DEF Linked
  <2> QED
    BY <2>1, <2>2, Zenon
<1>2. /\ cur' = next /\ ready_list' = rest
      /\ status' = [stat EXCEPT ![next] = "RUNNING"]
  BY Zenon DEF Schedule
<1> HIDE DEF next, rest
<1>3. next = IdleThread \/ stat[next] = "READY"
  BY <1>1, Zenon DEF Linked
<1>4. ~On(next, sl) /\ \A s \in Sema : ~On(next, ws[s])
  BY <1>1, <1>3, Zenon DEF Linked, IdleOK
<1>5. Linked(ready_list', sl, ws, status', p, a)
  BY <1>1, <1>2, <1>4, Zenon DEF Linked
<1>6. OneRunning'
  BY <1>1, <1>2, Zenon DEF OneRunning
<1>7. Kept(stat, status')
  BY <1>1, <1>2, <1>3, Zenon DEF Kept
<1> QED
  BY <1>5, <1>6, <1>7, Zenon DEF Switched

(* thread_yield, called by the running thread. *)
LEMMA YieldLinked ==
  ASSUME LeastNat, cur \in Thread, NEW l \in Seq(Thread), NEW sl, NEW ws,
         NEW stat \in [Thread -> Status], NEW pri \in [Thread -> Priority],
         NEW p, NEW a, IdleOK(p), Linked(l, sl, ws, stat, p, a),
         \A t \in Thread : stat[t] = "RUNNING" <=> t = cur,
         ThreadYield(l, stat, pri)
  PROVE  Switched(sl, ws, stat, p, a)
<1> DEFINE m == IF cur = IdleThread THEN l
                                    ELSE ListInsertOrdered(l, cur, CmpPriority(pri))
           st == [stat EXCEPT ![cur] = "READY"]
<1>1. /\ m \in Seq(Thread) /\ NoDuplicates(m)
      /\ \A u : On(u, m) => On(u, l) \/ (u = cur /\ cur # IdleThread)
  <2>1. NoDuplicates(l) /\ ~On(cur, l)
    BY Zenon DEF Linked
  <2>2. CASE cur = IdleThread
    BY <2>1, <2>2, Zenon
  <2>3. CASE cur # IdleThread
    BY <2>1, <2>3, CmpPriorityType, InsertOn, Zenon
  <2> QED
    BY <2>2, <2>3, Zenon
<1>2. Schedule(m, st)
  BY Zenon DEF ThreadYield
<1> HIDE DEF m
<1>3. st \in [Thread -> Status]
  BY Zenon DEF Status
<1>4. Linked(m, sl, ws, st, p, a)
  BY <1>1, Zenon DEF Linked
<1>5. \A t \in Thread : st[t] # "RUNNING"
  BY Zenon
<1> HIDE DEF st
<1>6. Switched(sl, ws, st, p, a)
  BY <1>1, <1>2, <1>3, <1>4, <1>5, ScheduleLinked, Zenon
<1> QED
  BY <1>6, Zenon DEF Switched, Kept, st

(* test_max_priority, called by the running thread. *)
LEMMA TestMaxLinked ==
  ASSUME LeastNat, cur \in Thread, NEW l \in Seq(Thread), NEW sl, NEW ws,
         NEW stat \in [Thread -> Status], NEW pri \in [Thread -> Priority],
         NEW p, NEW a, IdleOK(p), Linked(l, sl, ws, stat, p, a),
         \A t \in Thread : stat[t] = "RUNNING" <=> t = cur,
         TestMaxPriority(l, stat, pri)
  PROVE  Switched(sl, ws, stat, p, a)
<1>1. CASE OutrankedBy(l, pri)
  BY <1>1, YieldLinked, Zenon DEF TestMaxPriority
<1>2. CASE ~OutrankedBy(l, pri)
  BY <1>2, Zenon DEF TestMaxPriority, Switched, Kept, OneRunning
<1> QED
  BY <1>1, <1>2, Zenon

(* thread_block, when the lists already are what they will be. *)
LEMMA BlockLinked ==
  ASSUME TypeOK, OneRunning, NEW sl, NEW ws, NEW p, NEW a, IdleOK(p),
         Linked(ready_list, sl, ws, [status EXCEPT ![cur] = "BLOCKED"], p, a),
         ThreadBlock
  PROVE  Switched(sl, ws, [status EXCEPT ![cur] = "BLOCKED"], p, a)
<1> DEFINE st == [status EXCEPT ![cur] = "BLOCKED"]
<1>1. st \in [Thread -> Status] /\ ready_list \in Seq(Thread)
  BY Zenon DEF TypeOK, Status
<1>2. \A t \in Thread : st[t] # "RUNNING"
  BY Zenon DEF OneRunning, TypeOK
<1>3. Schedule(ready_list, st)
  BY Zenon DEF ThreadBlock
<1> HIDE DEF st
<1>4. Linked(ready_list, sl, ws, st, p, a)
  BY Zenon DEF st
<1> QED
  BY <1>1, <1>2, <1>3, <1>4, ScheduleLinked, Zenon DEF st

(* thread_unblock of a blocked thread that is on no list. *)
LEMMA UnblockLinked ==
  ASSUME LeastNat, TypeOK, NEW t \in Thread, NEW sl, NEW ws, NEW p, NEW a,
         Linked(ready_list, sl, ws, status, p, a),
         status[t] = "BLOCKED", t # IdleThread,
         ~On(t, sl), \A s \in Sema : ~On(t, ws[s])
  PROVE  Linked(UnblockedList(t), sl, ws, UnblockedStatus(t), p, a)
<1>1. NoDuplicates(ready_list) /\ ~On(t, ready_list)
  BY Zenon DEF Linked
<1>2. /\ NoDuplicates(UnblockedList(t))
      /\ \A u : On(u, UnblockedList(t)) => u = t \/ On(u, ready_list)
  BY <1>1, CmpPriorityType, InsertOn, Zenon DEF UnblockedList, TypeOK
<1>3. /\ UnblockedStatus(t)[t] = "READY"
      /\ \A u \in Thread : u # t => UnblockedStatus(t)[u] = status[u]
  BY Zenon DEF UnblockedStatus, TypeOK
<1> QED
  BY <1>2, <1>3, Zenon DEF Linked

(* Taking the front of a semaphore's waiters. *)
LEMMA PopWaiter ==
  ASSUME TypeOK, NEW s \in Sema, waiters[s] # <<>>, IdleOK(pc),
         Linked(ready_list, sleep_list, waiters, status, pc, arg)
  PROVE  LET t  == Head(waiters[s])
             ws == [waiters EXCEPT ![s] = Tail(@)]
         IN  /\ t \in Thread /\ t # IdleThread
             /\ status[t] = "BLOCKED" /\ pc[t] = "down"
             /\ ~On(t, sleep_list) /\ \A r \in Sema : ~On(t, ws[r])
             /\ Linked(ready_list, sleep_list, ws, status, pc, arg)
<1> DEFINE t  == Head(waiters[s])
           ws == [waiters EXCEPT ![s] = Tail(@)]
<1>1. waiters[s] \in Seq(Thread) /\ NoDuplicates(waiters[s])
  BY Zenon DEF TypeOK, Linked
<1>2. /\ t \in Thread /\ On(t, waiters[s])
      /\ NoDuplicates(Tail(waiters[s])) /\ ~On(t, Tail(waiters[s]))
      /\ \A u : On(u, Tail(waiters[s])) => On(u, waiters[s])
  BY <1>1, PopFront, Zenon
<1>3. ws[s] = Tail(waiters[s]) /\ \A r \in Sema : r # s => ws[r] = waiters[r]
  BY Zenon DEF TypeOK
<1> HIDE DEF t, ws
<1>4. status[t] = "BLOCKED" /\ pc[t] = "down" /\ arg[t] = s
  BY <1>2, Zenon DEF Linked
<1>5. t # IdleThread /\ ~On(t, sleep_list)
  BY <1>2, <1>4, Zenon DEF Linked, IdleOK
<1>6. \A r \in Sema : ~On(t, ws[r])
  BY <1>2, <1>3, <1>4 DEF Linked
<1>7. Linked(ready_list, sleep_list, ws, status, pc, arg)
  BY <1>2, <1>3 DEF Linked
<1> QED
  BY <1>2, <1>4, <1>5, <1>6, <1>7, Zenon DEF t, ws

Lists ==
  /\ Linked(ready_list, sleep_list, waiters, status, pc, arg)
  /\ OneRunning
  /\ IdleLoops
  /\ Newborn

(* A thread that sema_up or a timer interrupt did not take off a list      *)
(* stays BLOCKED, and so a newborn stays one.                              *)
LEMMA NewbornFrame ==
  ASSUME TypeOK, Newborn, new' = new,
         \A t \in Thread :
           status[t] = "BLOCKED" /\ pc[t] = "run" /\ ~On(t, sleep_list) =>
             status'[t] = "BLOCKED" /\ pc'[t] = "run" /\ ~On(t, sleep_list)',
         \A c \in Thread : pc'[c] # "check" => pc[c] # "check"
  PROVE  Newborn'
<1> SUFFICES ASSUME NEW c \in Thread, NEW t \in Thread, new'[c] = t, pc'[c] # "check"
             PROVE  /\ status'[t] = "BLOCKED" /\ pc'[t] = "run" /\ ~On(t, sleep_list)'
                    /\ \A d \in Thread : new'[d] = t /\ pc'[d] # "check" => d = c
  BY Zenon DEF Newborn
<1>1. new[c] = t /\ pc[c] # "check"
  BY Zenon
<1>2. /\ status[t] = "BLOCKED" /\ pc[t] = "run" /\ ~On(t, sleep_list)
      /\ \A d \in Thread : new[d] = t /\ pc[d] # "check" => d = c
  BY <1>1, Zenon DEF Newborn
<1> QED
  BY <1>2, Zenon

(* A step that only moves the running thread on. *)
LEMMA LocalStep ==
  ASSUME TypeOK, Lists, UNCHANGED <<cur, status, ready_list, sleep_list, waiters, new>>,
         \A t \in Thread : t # cur => pc'[t] = pc[t] /\ arg'[t] = arg[t],
         pc'[cur] \in {"hlt", "loop"} <=> pc[cur] \in {"hlt", "loop"},
         pc'[cur] # "check" => pc[cur] # "check"
  PROVE  Lists'
<1>1. cur \in Thread /\ status[cur] = "RUNNING"
  BY Zenon DEF TypeOK, Lists, OneRunning
<1>l. Linked(ready_list, sleep_list, waiters, status, pc, arg)
  BY Zenon DEF Lists
<1>f. \A u \in Thread : status[u] = "BLOCKED" => pc'[u] = pc[u] /\ arg'[u] = arg[u]
  BY <1>1, Zenon
<1>2. Linked(ready_list, sleep_list, waiters, status, pc', arg')
  BY <1>l, <1>f, LinkedFrame, Zenon
<1>3. Linked(ready_list, sleep_list, waiters, status, pc, arg)'
  BY <1>2, Zenon DEF Linked
<1>4. OneRunning' /\ IdleLoops'
  BY <1>1, Zenon DEF Lists, OneRunning, IdleLoops
<1>5. \A t \in Thread : status[t] = "BLOCKED" => t # cur
  BY <1>1, Zenon
<1>6. Newborn'
  BY <1>5, NewbornFrame, Zenon DEF Lists
<1> QED
  BY <1>3, <1>4, <1>6, Zenon DEF Lists

(* A step after which another thread may run.  stat is the status of the   *)
(* threads when the scheduler was called.                                  *)
LEMMA SwitchStep ==
  ASSUME TypeOK, Lists, new' = new, NEW stat,
         Switched(sleep_list', waiters', stat, pc', arg'),
         stat[IdleThread] # "UNUSED",
         \A t \in Thread : pc'[t] \in {"hlt", "loop"} <=> t = IdleThread,
         \A t \in Thread :
           status[t] = "BLOCKED" /\ pc[t] = "run" /\ ~On(t, sleep_list) =>
             stat[t] = "BLOCKED" /\ pc'[t] = "run" /\ ~On(t, sleep_list)',
         \A c \in Thread : pc'[c] # "check" => pc[c] # "check"
  PROVE  Lists'
<1>1. Linked(ready_list, sleep_list, waiters, status, pc, arg)' /\ OneRunning'
  BY Zenon DEF Switched, Linked
<1>2. IdleLoops'
  BY ThreadsAssumption, Zenon DEF Switched, Kept, IdleLoops
<1>3. ASSUME NEW t \in Thread,
             status[t] = "BLOCKED", pc[t] = "run", ~On(t, sleep_list)
      PROVE  status'[t] = "BLOCKED"
  BY <1>3, Zenon DEF Switched, Kept
<1>4. Newborn'
  BY <1>3, NewbornFrame, Zenon DEF Lists
<1> QED
  BY <1>1, <1>2, <1>4, Zenon DEF Lists

(* sema_down's loop body, run by a thread inside sema_down or lock_acquire. *)
LEMMA DownLists ==
  ASSUME LeastNat, TypeOK, Lists, NEW s \in Sema, SemaDownStep(s), new' = new,
         sleep_list' = sleep_list, pc[cur] \in {"run", "alloc", "down"}
  PROVE  Lists'
<1>0. /\ cur \in Thread /\ cur # IdleThread /\ status[cur] = "RUNNING"
      /\ IdleThread \in Thread
  BY ThreadsAssumption, Zenon DEF TypeOK, Lists, OneRunning, IdleLoops
<1>1. CASE value[s] = 0
  <2> DEFINE st == [status EXCEPT ![cur] = "BLOCKED"]
  <2>1. /\ pc' = [pc EXCEPT ![cur] = "down"] /\ arg' = [arg EXCEPT ![cur] = s]
        /\ waiters' = [waiters EXCEPT ![s] =
                         ListInsertOrdered(waiters[s], cur, CmpPriority(priority))]
        /\ ThreadBlock
    BY <1>1, Zenon DEF SemaDownStep, Goto
  <2>2. /\ NoDuplicates(waiters[s]) /\ waiters[s] \in Seq(Thread)
        /\ ~On(cur, ready_list) /\ ~On(cur, sleep_list)
        /\ \A r \in Sema : ~On(cur, waiters[r])
    BY <1>0, Zenon DEF TypeOK, Lists, Linked
  <2>3. /\ NoDuplicates(waiters'[s])
        /\ \A u : On(u, waiters'[s]) => u = cur \/ On(u, waiters[s])
        /\ \A r \in Sema : r # s => waiters'[r] = waiters[r]
    <3> DEFINE w == ListInsertOrdered(waiters[s], cur, CmpPriority(priority))
    <3>1. CmpPriority(priority) \in [Thread -> Int]
      BY CmpPriorityType, Zenon DEF TypeOK
    <3>2. NoDuplicates(w) /\ \A u : On(u, w) => u = cur \/ On(u, waiters[s])
      BY <1>0, <2>2, <3>1, InsertOn, Zenon
    <3> HIDE DEF w
    <3>3. waiters' = [waiters EXCEPT ![s] = w]
      BY <2>1, Zenon DEF w
    <3>4. waiters'[s] = w /\ \A r \in Sema : r # s => waiters'[r] = waiters[r]
      BY <3>3, Zenon DEF TypeOK
    <3> QED
      BY <3>2, <3>4, Zenon
  <2>4. /\ \A t \in Thread : t # cur => pc'[t] = pc[t] /\ arg'[t] = arg[t]
        /\ pc'[cur] = "down" /\ arg'[cur] = s
    BY <1>0, <2>1, Zenon DEF TypeOK
  <2>5. /\ \A t \in Thread : t # cur => st[t] = status[t]
        /\ st[cur] = "BLOCKED"
    BY <1>0, Zenon DEF TypeOK
  <2> HIDE DEF st
  <2>6. Linked(ready_list, sleep_list, waiters', st, pc', arg')
    <3>1. Linked(ready_list, sleep_list, waiters, status, pc, arg)
      BY Zenon DEF Lists
    <3>2. /\ NoDuplicates(ready_list) /\ NoDuplicates(sleep_list)
          /\ \A r \in Sema : NoDuplicates(waiters'[r])
      BY <2>3, <3>1, Zenon DEF Linked
    <3>3. ASSUME NEW t \in Thread
          PROVE  /\ On(t, ready_list) => st[t] = "READY" /\ t # IdleThread
                 /\ On(t, sleep_list) => st[t] = "BLOCKED" /\ pc'[t] = "run"
                 /\ \A r \in Sema : On(t, waiters'[r]) =>
                      st[t] = "BLOCKED" /\ pc'[t] = "down" /\ arg'[t] = r
      <4>1. CASE t = cur
        BY <2>2, <2>3, <2>4, <2>5, <4>1, Zenon
      <4>2. CASE t # cur
        BY <2>3, <2>4, <2>5, <3>1, <4>2 DEF Linked
      <4> QED
        BY <4>1, <4>2, Zenon
    <3> QED
      BY <3>2, <3>3, Zenon DEF Linked
  <2>7. \A t \in Thread : pc'[t] \in {"hlt", "loop"} <=> t = IdleThread
    BY <1>0, <2>4, Zenon DEF Lists, IdleLoops
  <2>8. Switched(sleep_list, waiters', st, pc', arg')
    <3>1. OneRunning /\ IdleOK(pc') /\ ThreadBlock
      BY <1>0, <2>1, <2>7, Zenon DEF Lists, IdleOK
    <3> QED
      BY <2>6, <3>1, BlockLinked, Zenon DEF st
  <2> QED
    BY <1>0, <2>4, <2>5, <2>7, <2>8, SwitchStep, Zenon DEF Lists, IdleLoops
<1>2. CASE value[s] # 0
  <2>1. /\ pc' = [pc EXCEPT ![cur] = AfterDown(s)]
        /\ \A t \in Thread : t # cur => arg'[t] = arg[t]
        /\ UNCHANGED <<cur, status, ready_list, waiters>>
    BY <1>2, Zenon DEF SemaDownStep, Goto, sched, TypeOK
  <2>2. /\ pc'[cur] \in {"own", "run"}
        /\ \A t \in Thread : t # cur => pc'[t] = pc[t]
    BY <1>0, <2>1, Zenon DEF AfterDown, TypeOK
  <2> QED
    BY <2>1, <2>2, LocalStep, Zenon
<1> QED
  BY <1>1, <1>2, Zenon

(* sema_up, called by a thread. *)
LEMMA UpLists ==
  ASSUME LeastNat, TypeOK, Lists, NEW s \in Sema, SemaUpStep(s), new' = new,
         sleep_list' = sleep_list, pc[cur] \in {"run", "up"},
         pc'[cur] \in {"run", "unblock"},
         \A t \in Thread : t # cur => pc'[t] = pc[t] /\ arg'[t] = arg[t]
  PROVE  Lists'
<1>0. /\ cur \in Thread /\ cur # IdleThread /\ status[cur] = "RUNNING"
      /\ IdleThread \in Thread
      /\ status \in [Thread -> Status] /\ priority \in [Thread -> Priority]
      /\ ready_list \in Seq(Thread)
  BY ThreadsAssumption, Zenon DEF TypeOK, Lists, OneRunning, IdleLoops
<1>1. /\ \A t \in Thread : pc'[t] \in {"hlt", "loop"} <=> t = IdleThread
      /\ IdleOK(pc) /\ IdleOK(pc')
  BY <1>0, Zenon DEF Lists, IdleLoops, IdleOK
<1>f. \A u \in Thread : status[u] = "BLOCKED" => pc'[u] = pc[u] /\ arg'[u] = arg[u]
  BY <1>0, Zenon
<1>2. CASE waiters[s] = <<>>
  <2>1. TestMaxPriority(ready_list, status, priority) /\ waiters' = waiters
    BY <1>2, Zenon DEF SemaUpStep
  <2>l. Linked(ready_list, sleep_list, waiters, status, pc, arg)
    BY Zenon DEF Lists
  <2>2. Linked(ready_list, sleep_list, waiters, status, pc', arg')
    BY <1>f, <2>l, LinkedFrame
  <2>3. \A t \in Thread : status[t] = "RUNNING" <=> t = cur
    BY Zenon DEF Lists, OneRunning
  <2>4. Switched(sleep_list, waiters, status, pc', arg')
    BY <1>0, <1>1, <2>1, <2>2, <2>3, TestMaxLinked, Zenon
  <2> QED
    BY <1>0, <1>1, <2>1, <2>4, SwitchStep, Zenon DEF Lists, IdleLoops
<1>3. CASE waiters[s] # <<>>
  <2> DEFINE t  == Head(waiters[s])
             ws == [waiters EXCEPT ![s] = Tail(@)]
             st == UnblockedStatus(t)
  <2>1. TestMaxPriority(UnblockedList(t), st, priority) /\ waiters' = ws
    BY <1>3, Zenon DEF SemaUpStep
  <2>2. /\ t \in Thread /\ t # IdleThread
        /\ status[t] = "BLOCKED" /\ pc[t] = "down"
        /\ ~On(t, sleep_list) /\ \A r \in Sema : ~On(t, ws[r])
        /\ Linked(ready_list, sleep_list, ws, status, pc, arg)
    BY <1>1, <1>3, PopWaiter, Zenon DEF Lists
  <2> HIDE DEF t, ws
  <2>l. Linked(ready_list, sleep_list, ws, status, pc, arg)
    BY <2>2, Zenon
  <2>3. Linked(ready_list, sleep_list, ws, status, pc', arg')
    BY <1>f, <2>l, LinkedFrame
  <2>4. Linked(UnblockedList(t), sleep_list, ws, st, pc', arg')
    BY <2>2, <2>3, UnblockLinked, Zenon
  <2>5. UnblockedList(t) \in Seq(Thread) /\ st \in [Thread -> Status]
    BY <2>2, UnblockType, Zenon
  <2>6. st[t] = "READY" /\ \A u \in Thread : u # t => st[u] = status[u]
    BY <2>2, Zenon DEF UnblockedStatus, TypeOK
  <2> HIDE DEF st
  <2>7. \A u \in Thread : st[u] = "RUNNING" <=> u = cur
    BY <1>0, <2>2, <2>6, Zenon DEF Lists, OneRunning
  <2>8. Switched(sleep_list, ws, st, pc', arg')
    BY <1>0, <1>1, <2>1, <2>4, <2>5, <2>7, TestMaxLinked, Zenon
  <2>9. /\ st[IdleThread] # "UNUSED"
        /\ \A u \in Thread :
             status[u] = "BLOCKED" /\ pc[u] = "run" /\ ~On(u, sleep_list) =>
               st[u] = "BLOCKED" /\ pc'[u] = "run" /\ ~On(u, sleep_list)'
        /\ \A c \in Thread : pc'[c] # "check" => pc[c] # "check"
    BY <1>0, <2>2, <2>6, Zenon DEF Lists, IdleLoops
  <2>10. Switched(sleep_list', waiters', st, pc', arg')
    BY <2>1, <2>8, Zenon
  <2> QED
    BY <1>1, <2>9, <2>10, SwitchStep, Zenon
<1> QED
  BY <1>2, <1>3, Zenon

(* thread_yield of the running thread, which leaves the other lists alone. *)
LEMMA YieldSwitched ==
  ASSUME LeastNat, TypeOK, Lists, ThreadYield(ready_list, status, priority) \/ UNCHANGED sched,
         pc'[cur] \in {"hlt", "loop"} <=> pc[cur] \in {"hlt", "loop"},
         \A t \in Thread : t # cur => pc'[t] = pc[t] /\ arg'[t] = arg[t]
  PROVE  /\ Switched(sleep_list, waiters, status, pc', arg')
         /\ status[IdleThread] # "UNUSED"
         /\ \A t \in Thread : pc'[t] \in {"hlt", "loop"} <=> t = IdleThread
         /\ \A t \in Thread : status[t] = "BLOCKED" => t # cur
<1>0. /\ cur \in Thread /\ IdleThread \in Thread
      /\ \A t \in Thread : status[t] = "RUNNING" <=> t = cur
      /\ status \in [Thread -> Status] /\ priority \in [Thread -> Priority]
      /\ ready_list \in Seq(Thread)
  BY ThreadsAssumption, Zenon DEF TypeOK, Lists, OneRunning
<1>1. /\ \A t \in Thread : pc'[t] \in {"hlt", "loop"} <=> t = IdleThread
      /\ status[IdleThread] # "UNUSED"
      /\ \A t \in Thread : status[t] = "BLOCKED" => t # cur
  BY <1>0, Zenon DEF Lists, IdleLoops
<1>l. Linked(ready_list, sleep_list, waiters, status, pc, arg)
  BY Zenon DEF Lists
<1>f. \A u \in Thread : status[u] = "BLOCKED" => pc'[u] = pc[u] /\ arg'[u] = arg[u]
  BY <1>1, Zenon
<1>2. Linked(ready_list, sleep_list, waiters, status, pc', arg')
  BY <1>l, <1>f, LinkedFrame, Zenon
<1>3. CASE ThreadYield(ready_list, status, priority)
  <2>1. IdleOK(pc')
    BY <1>0, <1>1, Zenon DEF IdleOK
  <2>2. Switched(sleep_list, waiters, status, pc', arg')
    BY <1>0, <1>2, <1>3, <2>1, YieldLinked, Zenon
  <2> QED
    BY <1>1, <2>2, Zenon
<1>4. CASE UNCHANGED sched
  <2>1. Linked(ready_list', sleep_list, waiters, status', pc', arg')
    BY <1>2, <1>4, Zenon DEF sched
  <2>2. OneRunning' /\ Kept(status, status')
    BY <1>0, <1>4, Zenon DEF OneRunning, Kept, sched
  <2> QED
    BY <1>1, <2>1, <2>2, Zenon DEF Switched
<1> QED
  BY <1>3, <1>4, Zenon

(* thread_yield keeps an element on one list. *)
LEMMA YieldLists ==
  ASSUME LeastNat, TypeOK, Lists, ThreadYield(ready_list, status, priority) \/ UNCHANGED sched,
         new' = new, sleep_list' = sleep_list, waiters' = waiters,
         pc'[cur] \in {"hlt", "loop"} <=> pc[cur] \in {"hlt", "loop"},
         pc'[cur] # "check" => pc[cur] # "check",
         \A t \in Thread : t # cur => pc'[t] = pc[t] /\ arg'[t] = arg[t]
  PROVE  Lists'
<1>1. /\ Switched(sleep_list', waiters', status, pc', arg')
      /\ status[IdleThread] # "UNUSED"
      /\ \A t \in Thread : pc'[t] \in {"hlt", "loop"} <=> t = IdleThread
      /\ \A t \in Thread : status[t] = "BLOCKED" => t # cur
  BY YieldSwitched, Zenon
<1> QED
  BY <1>1, SwitchStep, Zenon

(* Every step keeps the lists consistent. *)
LEMMA ListsNext ==
  ASSUME LeastNat
  PROVE  TypeOK /\ Operands /\ Lists /\ [Next]_vars => Lists'
<1> SUFFICES ASSUME TypeOK, Operands, Lists PROVE [Next]_vars => Lists'
  BY Zenon
<1>a. /\ cur \in Thread /\ IdleThread \in Thread
      /\ status[cur] = "RUNNING" /\ (pc[cur] \in {"hlt", "loop"} <=> cur = IdleThread)
      /\ pc \in [Thread -> PC] /\ arg \in [Thread -> Sema \cup {NULL}]
  BY ThreadsAssumption, Zenon DEF TypeOK, Lists, OneRunning, IdleLoops
<1>1. ASSUME NEW s \in Sema, SemaDown(s) PROVE Lists'
  BY <1>1, DownLists, Zenon DEF SemaDown, At, alarm, tids
<1>2. ASSUME SemaDownWoken PROVE Lists'
  <2>1. arg[cur] \in Sema
    BY <1>2, <1>a, Zenon DEF SemaDownWoken, At, Operands
  <2> QED
    BY <1>2, <2>1, DownLists, Zenon DEF SemaDownWoken, At, alarm, tids
<1>3. ASSUME NEW s \in Sema, SemaTryDown(s) PROVE Lists'
  BY <1>3, LocalStep, Zenon DEF SemaTryDown, sched, alarm, tids, control
<1>4. ASSUME NEW s \in Sema, SemaUp(s) PROVE Lists'
  BY <1>4, UpLists, Zenon DEF SemaUp, At, alarm, tids, control
<1>5. ASSUME NEW l \in Lock, LockAcquire(l) PROVE Lists'
  <2>1. l \in Sema /\ pc[cur] \in {"run", "alloc", "down"}
    BY <1>5, ThreadsAssumption, Zenon DEF LockAcquire, At
  <2> QED
    BY <1>5, <2>1, DownLists, Zenon DEF LockAcquire, alarm, tids
<1>6. ASSUME NEW l \in Lock, LockTryAcquire(l) PROVE Lists'
  BY <1>a, <1>6, LocalStep, Zenon DEF LockTryAcquire, At, Goto, sched, alarm, tids
<1>7. ASSUME LockOwn PROVE Lists'
  BY <1>a, <1>7, LocalStep, Zenon DEF LockOwn, At, Goto, sched, alarm, tids
<1>8. ASSUME NEW l \in Lock, LockRelease(l) PROVE Lists'
  BY <1>a, <1>8, LocalStep, Zenon DEF LockRelease, At, Goto, sched, alarm, tids
<1>9. ASSUME LockReleaseUp PROVE Lists'
  <2>1. arg[cur] \in Sema
    BY <1>9, <1>a, ThreadsAssumption, Zenon DEF LockReleaseUp, At, Operands
  <2>2. /\ pc'[cur] \in {"run", "unblock"}
        /\ \A t \in Thread : t # cur => pc'[t] = pc[t] /\ arg'[t] = arg[t]
    BY <1>9, <1>a, Zenon DEF LockReleaseUp, Goto, AfterUp
  <2> QED
    BY <1>9, <2>1, <2>2, UpLists, Zenon DEF LockReleaseUp, At, alarm, tids
<1>10. ASSUME NEW t \in Thread, NEW q \in NewPriority, ThreadCreate(t, q) PROVE Lists'
  <2>1. /\ status[t] = "UNUSED" /\ pc[cur] = "run" /\ t # cur /\ t # IdleThread
        /\ cur # IdleThread
    BY <1>10, <1>a, Zenon DEF ThreadCreate, At, Lists, IdleLoops
  <2>2. /\ status'[t] = "BLOCKED" /\ pc'[t] = "run" /\ pc'[cur] = "alloc"
        /\ \A u \in Thread : u # t => status'[u] = status[u] /\ arg'[u] = arg[u]
        /\ \A u \in Thread : u \notin {t, cur} => pc'[u] = pc[u]
        /\ UNCHANGED <<cur, ready_list, sleep_list, waiters>>
    BY <1>10, <1>a, <2>1, Zenon DEF ThreadCreate, alarm, synch, TypeOK
  <2>3. /\ new'[cur] = t /\ new'[t] = NULL
        /\ \A u \in Thread : u \notin {t, cur} => new'[u] = new[u]
    BY <1>10, <1>a, <2>1, Zenon DEF ThreadCreate, TypeOK
  <2>4. ~On(t, ready_list) /\ ~On(t, sleep_list) /\ \A s \in Sema : ~On(t, waiters[s])
    BY <2>1, Zenon DEF Lists, Linked
  <2>5. Linked(ready_list, sleep_list, waiters, status, pc, arg)'
    BY <1>a, <2>1, <2>2, <2>4, Zenon DEF Lists, Linked
  <2>6. OneRunning'
    BY <1>a, <2>1, <2>2, Zenon DEF Lists, OneRunning
  <2>7. IdleLoops'
    BY <1>a, <2>1, <2>2, Zenon DEF Lists, IdleLoops
  <2>8. Newborn'
    <3> SUFFICES ASSUME NEW c \in Thread, NEW u \in Thread, new'[c] = u, pc'[c] # "check"
                 PROVE  /\ status'[u] = "BLOCKED" /\ pc'[u] = "run" /\ ~On(u, sleep_list)'
                        /\ \A d \in Thread : new'[d] = u /\ pc'[d] # "check" => d = c
      BY DEF Newborn
    <3>1. \A d \in Thread \ {cur, t} : ~(new[d] = t /\ pc[d] # "check")
      BY <2>1, Zenon DEF Lists, Newborn
    <3>2. c # t
      BY <2>3, ThreadsAssumption, Zenon
    <3>3. CASE c = cur
      <4>1. u = t
        BY <2>3, <3>3, Zenon
      <4>2. status'[u] = "BLOCKED" /\ pc'[u] = "run" /\ ~On(u, sleep_list)'
        BY <2>2, <2>4, <4>1, Zenon
      <4>3. ASSUME NEW d \in Thread, new'[d] = u, pc'[d] # "check" PROVE d = cur
        <5>1. d # t
          BY <2>3, <4>1, <4>3, ThreadsAssumption, Zenon
        <5>2. CASE d # cur
          BY <2>2, <2>3, <3>1, <4>1, <4>3, <5>1, <5>2
        <5> QED
          BY <5>2, Zenon
      <4> QED
        BY <3>3, <4>2, <4>3, Zenon
    <3>4. CASE c # cur
      <4>1. new[c] = u /\ pc[c] # "check"
        BY <2>2, <2>3, <3>2, <3>4, Zenon
      <4>2. /\ status[u] = "BLOCKED" /\ pc[u] = "run" /\ ~On(u, sleep_list)
            /\ \A d \in Thread : new[d] = u /\ pc[d] # "check" => d = c
        BY <4>1, Zenon DEF Lists, Newborn
      <4>3. u # t /\ u # cur
        BY <1>a, <2>1, <4>2, Zenon
      <4>4. status'[u] = "BLOCKED" /\ pc'[u] = "run" /\ ~On(u, sleep_list)'
        BY <2>2, <4>2, <4>3, Zenon
      <4>5. ASSUME NEW d \in Thread, new'[d] = u, pc'[d] # "check" PROVE d = c
        <5>1. d # t /\ d # cur
          BY <2>3, <4>3, <4>5, ThreadsAssumption, Zenon
        <5>2. new[d] = u /\ pc[d] # "check"
          BY <2>2, <2>3, <4>5, <5>1, Zenon
        <5> QED
          BY <4>2, <5>2, Zenon
      <4> QED
        BY <4>4, <4>5, Zenon
    <3> QED
      BY <3>3, <3>4, Zenon
  <2> QED
    BY <2>5, <2>6, <2>7, <2>8, Zenon DEF Lists
<1>11. ASSUME AllocateTidRead PROVE Lists'
  BY <1>a, <1>11, LocalStep, Zenon DEF AllocateTidRead, At, Goto, sched, alarm, synch, tids
<1>12. ASSUME AllocateTidWrite PROVE Lists'
  BY <1>a, <1>12, LocalStep, Zenon DEF AllocateTidWrite, At, Goto, sched, alarm, synch
<1>13. ASSUME ThreadCreateUnblock PROVE Lists'
  <2> DEFINE t == new[cur]
  <2>1. pc[cur] = "unblock" /\ t \in Thread
    BY <1>13, <1>a, Zenon DEF ThreadCreateUnblock, At, Operands, TypeOK
  <2>2. /\ status[t] = "BLOCKED" /\ pc[t] = "run" /\ ~On(t, sleep_list)
        /\ \A d \in Thread : new[d] = t /\ pc[d] # "check" => d = cur
    BY <1>a, <2>1, Zenon DEF Lists, Newborn
  <2>3. /\ ready_list' = UnblockedList(t) /\ status' = UnblockedStatus(t)
        /\ pc'[cur] = "check" /\ \A u \in Thread : u # cur => pc'[u] = pc[u]
        /\ UNCHANGED <<cur, sleep_list, waiters, new, arg>>
    BY <1>13, <1>a, Zenon DEF ThreadCreateUnblock, Goto, alarm, synch
  <2> HIDE DEF t
  <2>4. t # cur /\ t # IdleThread /\ \A s \in Sema : ~On(t, waiters[s])
    BY <1>a, <2>1, <2>2, Zenon DEF Lists, Linked, IdleLoops
  <2>5. Linked(UnblockedList(t), sleep_list, waiters, UnblockedStatus(t), pc, arg)
    BY <2>1, <2>2, <2>4, UnblockLinked, Zenon DEF Lists
  <2>6. status'[t] = "READY" /\ \A u \in Thread : u # t => status'[u] = status[u]
    BY <2>1, <2>3, Zenon DEF UnblockedStatus, TypeOK
  <2>7. Linked(UnblockedList(t), sleep_list, waiters, status', pc', arg')
    <3>1. \A u \in Thread : UnblockedStatus(t)[u] = "BLOCKED" => pc'[u] = pc[u] /\ arg'[u] = arg[u]
      BY <1>a, <2>3, <2>6, Zenon
    <3> QED
      BY <2>3, <2>5, <3>1, LinkedFrame, Zenon
  <2>8. Linked(ready_list, sleep_list, waiters, status, pc, arg)'
    BY <2>3, <2>7, Zenon
  <2>9. OneRunning'
    BY <1>a, <2>1, <2>3, <2>4, <2>6, Zenon DEF Lists, OneRunning
  <2>10. IdleLoops'
    <3>1. cur # IdleThread
      BY <1>a, <2>1, Zenon DEF Lists, IdleLoops
    <3>2. status'[IdleThread] # "UNUSED"
      BY <1>a, <2>4, <2>6, Zenon DEF Lists, IdleLoops
    <3>3. \A u \in Thread : pc'[u] \in {"hlt", "loop"} <=> u = IdleThread
      BY <2>3, <3>1, Zenon DEF Lists, IdleLoops
    <3> QED
      BY <3>2, <3>3, Zenon DEF IdleLoops
  <2>11. Newborn'
    <3> SUFFICES ASSUME NEW c \in Thread, NEW u \in Thread, new'[c] = u, pc'[c] # "check"
                 PROVE  /\ status'[u] = "BLOCKED" /\ pc'[u] = "run" /\ ~On(u, sleep_list)'
                        /\ \A d \in Thread : new'[d] = u /\ pc'[d] # "check" => d = c
      BY Zenon DEF Newborn
    <3>1. c # cur /\ pc[c] # "check" /\ new[c] = u
      BY <2>3, Zenon
    <3>2. /\ status[u] = "BLOCKED" /\ pc[u] = "run" /\ ~On(u, sleep_list)
          /\ \A d \in Thread : new[d] = u /\ pc[d] # "check" => d = c
      BY <3>1, Zenon DEF Lists, Newborn
    <3>3. u # t /\ u # cur
      BY <1>a, <2>2, <3>1, <3>2, Zenon
    <3> QED
      BY <2>3, <2>6, <3>2, <3>3, Zenon
  <2> QED
    BY <2>8, <2>9, <2>10, <2>11, Zenon DEF Lists
<1>14. ASSUME ThreadCreateCheck PROVE Lists'
  <2>1. ThreadYield(ready_list, status, priority) \/ UNCHANGED sched
    BY <1>14, Zenon DEF ThreadCreateCheck
  <2>2. /\ pc[cur] = "check" /\ pc'[cur] = "run" /\ new'[cur] = NULL
        /\ \A u \in Thread : u # cur => pc'[u] = pc[u] /\ new'[u] = new[u]
        /\ UNCHANGED <<sleep_list, waiters, arg>>
    BY <1>14, <1>a, Zenon DEF ThreadCreateCheck, At, Goto, alarm, synch, TypeOK
  <2>3. /\ Switched(sleep_list, waiters, status, pc', arg')
        /\ \A t \in Thread : pc'[t] \in {"hlt", "loop"} <=> t = IdleThread
        /\ \A t \in Thread : status[t] = "BLOCKED" => t # cur
        /\ status[IdleThread] # "UNUSED"
    BY <2>1, <2>2, YieldSwitched, Zenon
  <2>4. Linked(ready_list, sleep_list, waiters, status, pc, arg)' /\ OneRunning'
    BY <2>2, <2>3, Zenon DEF Switched
  <2>5. IdleLoops'
    BY <1>a, <2>3, Zenon DEF Switched, Kept, IdleLoops
  <2>6. Newborn'
    <3> SUFFICES ASSUME NEW c \in Thread, NEW u \in Thread, new'[c] = u, pc'[c] # "check"
                 PROVE  /\ status'[u] = "BLOCKED" /\ pc'[u] = "run" /\ ~On(u, sleep_list)'
                        /\ \A d \in Thread : new'[d] = u /\ pc'[d] # "check" => d = c
      BY Zenon DEF Newborn
    <3>1. c # cur /\ pc[c] # "check" /\ new[c] = u
      BY <2>2, ThreadsAssumption, Zenon
    <3>2. /\ status[u] = "BLOCKED" /\ pc[u] = "run" /\ ~On(u, sleep_list)
          /\ \A d \in Thread : new[d] = u /\ pc[d] # "check" => d = c
      BY <3>1, Zenon DEF Lists, Newborn
    <3>3. u # cur /\ u # IdleThread /\ status'[u] = "BLOCKED"
      BY <2>3, <3>2, Zenon DEF Switched, Kept, Lists, IdleLoops
    <3> QED
      BY <2>2, <3>2, <3>3, ThreadsAssumption, Zenon
  <2> QED
    BY <2>4, <2>5, <2>6, Zenon DEF Lists
<1>15. ASSUME ThreadExit PROVE Lists'
  <2> DEFINE st == [status EXCEPT ![cur] =
                      IF cur = InitialThread THEN "DYING" ELSE "UNUSED"]
  <2>1. Schedule(ready_list, st) /\ pc[cur] = "run"
    BY <1>15, Zenon DEF ThreadExit, At
  <2>2. UNCHANGED <<sleep_list, waiters, new, pc, arg>>
    BY <1>15, Zenon DEF ThreadExit, synch, control
  <2>3. /\ st \in [Thread -> Status] /\ ready_list \in Seq(Thread)
        /\ st[cur] \in {"DYING", "UNUSED"}
        /\ \A t \in Thread : t # cur => st[t] = status[t]
    BY <1>a, Zenon DEF TypeOK, Status
  <2> HIDE DEF st
  <2>4. Linked(ready_list, sleep_list, waiters, st, pc, arg)
    BY <1>a, <2>3, Zenon DEF Lists, Linked
  <2>5. \A t \in Thread : st[t] # "RUNNING"
    BY <1>a, <2>3, Zenon DEF Lists, OneRunning
  <2>6. IdleOK(pc) /\ cur # IdleThread /\ st[IdleThread] # "UNUSED"
    BY <1>a, <2>1, <2>3, Zenon DEF Lists, IdleLoops, IdleOK
  <2>7. Switched(sleep_list, waiters, st, pc, arg)
    BY <2>1, <2>3, <2>4, <2>5, <2>6, ScheduleLinked, Zenon
  <2>8. /\ \A t \in Thread : pc'[t] \in {"hlt", "loop"} <=> t = IdleThread
        /\ \A t \in Thread : status[t] = "BLOCKED" => st[t] = "BLOCKED"
    BY <1>a, <2>2, <2>3, Zenon DEF Lists, IdleLoops
  <2> QED
    BY <2>2, <2>6, <2>7, <2>8, SwitchStep, Zenon
<1>16. ASSUME Yield PROVE Lists'
  BY <1>16, YieldLists, Zenon DEF Yield, alarm, synch, tids, control
<1>17. ASSUME NEW q \in NewPriority, ThreadSetPriority(q) PROVE Lists'
  <2>1. TestMaxPriority(ready_list, status, priority') \/ UNCHANGED sched
    BY <1>17, Zenon DEF ThreadSetPriority
  <2>2. UNCHANGED <<sleep_list, waiters, new, pc, arg>>
    BY <1>17, Zenon DEF ThreadSetPriority, alarm, synch, tids, control
  <2>3. CASE UNCHANGED sched
    BY <2>2, <2>3, LocalStep, Zenon DEF sched
  <2>4. CASE TestMaxPriority(ready_list, status, priority')
    <3>1. q \in Priority
      BY ThreadsAssumption, Zenon DEF Priority
    <3>2. /\ priority' \in [Thread -> Priority]
          /\ status \in [Thread -> Status] /\ ready_list \in Seq(Thread)
      BY <1>17, <3>1, Zenon DEF ThreadSetPriority, TypeOK
    <3>3. /\ IdleOK(pc) /\ status[IdleThread] # "UNUSED"
          /\ \A t \in Thread : status[t] = "RUNNING" <=> t = cur
          /\ \A t \in Thread : pc[t] \in {"hlt", "loop"} <=> t = IdleThread
          /\ Linked(ready_list, sleep_list, waiters, status, pc, arg)
      BY <1>a, Zenon DEF Lists, OneRunning, IdleLoops, IdleOK
    <3>4. Switched(sleep_list, waiters, status, pc, arg)
      BY <1>a, <2>4, <3>2, <3>3, TestMaxLinked, Zenon
    <3> QED
      BY <2>2, <3>3, <3>4, SwitchStep, Zenon
  <2> QED
    BY <2>1, <2>3, <2>4, Zenon
<1>18. ASSUME NEW n \in SleepTicks, TimerSleep(n) PROVE Lists'
  BY <1>a, <1>18, LocalStep, Zenon DEF TimerSleep, At, Goto, sched, alarm, synch, tids
<1>19. ASSUME ThreadSleep PROVE Lists'
  <2>1. /\ pc[cur] = "sleep" /\ pc'[cur] = "run"
        /\ \A t \in Thread : t # cur => pc'[t] = pc[t]
        /\ UNCHANGED <<waiters, new, arg>>
    BY <1>19, <1>a, Zenon DEF ThreadSleep, At, Goto, synch, tids
  <2>2. CASE tmp[cur] <= 0
    BY <1>19, <2>1, <2>2, LocalStep, Zenon DEF ThreadSleep, sched
  <2>3. CASE ~(tmp[cur] <= 0)
    <3> DEFINE st == [status EXCEPT ![cur] = "BLOCKED"]
    <3>1. /\ ThreadBlock
          /\ wake_up_time' = [wake_up_time EXCEPT ![cur] = tmp[cur]]
          /\ sleep_list' = ListInsertOrdered(sleep_list, cur, wake_up_time')
      BY <1>19, <2>3, Zenon DEF ThreadSleep
    <3>2. /\ NoDuplicates(sleep_list) /\ ~On(cur, sleep_list) /\ ~On(cur, ready_list)
          /\ \A s \in Sema : ~On(cur, waiters[s])
      BY <1>a, Zenon DEF Lists, Linked
    <3>3. wake_up_time' \in [Thread -> Int] /\ sleep_list \in Seq(Thread)
      BY <3>1 DEF TypeOK
    <3>4. /\ NoDuplicates(sleep_list')
          /\ \A u : On(u, sleep_list') => u = cur \/ On(u, sleep_list)
      <4> DEFINE m == ListInsertOrdered(sleep_list, cur, wake_up_time')
      <4>1. NoDuplicates(m) /\ \A u : On(u, m) => u = cur \/ On(u, sleep_list)
        BY <1>a, <3>2, <3>3, InsertOn, Zenon
      <4>2. sleep_list' = m
        BY <3>1, Zenon
      <4> QED
        BY <4>1, <4>2, Zenon
    <3>5. st[cur] = "BLOCKED" /\ \A t \in Thread : t # cur => st[t] = status[t]
      BY <1>a, Zenon DEF TypeOK
    <3> HIDE DEF st
    <3>6. Linked(ready_list, sleep_list', waiters, st, pc', arg')
      BY <1>a, <2>1, <3>2, <3>4, <3>5, Zenon DEF Lists, Linked
    <3>7. /\ \A t \in Thread : pc'[t] \in {"hlt", "loop"} <=> t = IdleThread
          /\ OneRunning /\ IdleOK(pc') /\ st[IdleThread] # "UNUSED"
      BY <1>a, <2>1, <3>5, Zenon DEF Lists, IdleLoops, IdleOK
    <3>8. Switched(sleep_list', waiters, st, pc', arg')
      BY <3>1, <3>6, <3>7, BlockLinked, Zenon DEF st
    <3>9. \A t \in Thread :
            status[t] = "BLOCKED" /\ pc[t] = "run" /\ ~On(t, sleep_list) =>
              st[t] = "BLOCKED" /\ pc'[t] = "run" /\ ~On(t, sleep_list)'
      BY <1>a, <2>1, <3>4, <3>5, Zenon
    <3>10. \A c \in Thread : pc'[c] # "check" => pc[c] # "check"
      BY <2>1, Zenon
    <3> QED
      BY <2>1, <3>7, <3>8, <3>9, <3>10, SwitchStep, Zenon
  <2> QED
    BY <2>2, <2>3, Zenon
<1>20. ASSUME IdleLoop PROVE Lists'
  <2> DEFINE st == [status EXCEPT ![cur] = "BLOCKED"]
  <2>1. /\ pc[cur] = "loop" /\ pc'[cur] = "hlt" /\ cur = IdleThread
        /\ \A t \in Thread : t # cur => pc'[t] = pc[t]
        /\ UNCHANGED <<sleep_list, waiters, new, arg>> /\ ThreadBlock
    BY <1>20, <1>a, Zenon DEF IdleLoop, At, Goto, alarm, synch, tids
  <2>2. st[cur] = "BLOCKED" /\ \A t \in Thread : t # cur => st[t] = status[t]
    BY <1>a, Zenon DEF TypeOK
  <2> HIDE DEF st
  <2>3. Linked(ready_list, sleep_list, waiters, st, pc', arg')
    BY <1>a, <2>1, <2>2, Zenon DEF Lists, Linked
  <2>4. /\ \A t \in Thread : pc'[t] \in {"hlt", "loop"} <=> t = IdleThread
        /\ OneRunning /\ IdleOK(pc') /\ st[IdleThread] # "UNUSED"
    BY <1>a, <2>1, <2>2, Zenon DEF Lists, IdleLoops, IdleOK
  <2>5. Switched(sleep_list, waiters, st, pc', arg')
    BY <2>1, <2>3, <2>4, BlockLinked, Zenon DEF st
  <2>6. /\ \A t \in Thread : status[t] = "BLOCKED" => t # cur /\ st[t] = "BLOCKED"
        /\ \A c \in Thread : pc'[c] # "check" => pc[c] # "check"
    BY <1>a, <2>1, <2>2, Zenon
  <2> QED
    BY <2>1, <2>4, <2>5, <2>6, SwitchStep, Zenon
<1>21. ASSUME TimerInterrupt PROVE Lists'
  BY <1>21, LocalStep, Zenon DEF TimerInterrupt, synch, tids, control
<1>22. ASSUME ThreadAwake PROVE Lists'
  <2> DEFINE t == Head(sleep_list)
             st == UnblockedStatus(t)
  <2>1. /\ sleep_list # <<>> /\ sleep_list \in Seq(Thread) /\ NoDuplicates(sleep_list)
        /\ sleep_list' = Tail(sleep_list)
        /\ ready_list' = UnblockedList(t) /\ status' = st
        /\ UNCHANGED <<cur, waiters, new, pc, arg>>
    BY <1>22, Zenon DEF ThreadAwake, SleeperDue, synch, tids, control, Lists, Linked, TypeOK
  <2>2. /\ t \in Thread /\ On(t, sleep_list)
        /\ NoDuplicates(sleep_list') /\ ~On(t, sleep_list')
        /\ \A u : On(u, sleep_list') => On(u, sleep_list)
    BY <2>1, PopFront, Zenon
  <2> HIDE DEF t
  <2>3. /\ status[t] = "BLOCKED" /\ t # IdleThread
        /\ \A s \in Sema : ~On(t, waiters[s])
    BY <1>a, <2>2, Zenon DEF Lists, Linked, IdleLoops
  <2>4. Linked(ready_list, sleep_list', waiters, status, pc, arg)
    BY <2>2, Zenon DEF Lists, Linked
  <2>5. Linked(UnblockedList(t), sleep_list', waiters, UnblockedStatus(t), pc, arg)
    BY <2>2, <2>3, <2>4, UnblockLinked, Zenon
  <2>6. Linked(ready_list, sleep_list, waiters, status, pc, arg)'
    BY <2>1, <2>5, Zenon
  <2>7. status'[t] = "READY" /\ \A u \in Thread : u # t => status'[u] = status[u]
    BY <2>1, <2>2, Zenon DEF UnblockedStatus, TypeOK
  <2>8. OneRunning' /\ IdleLoops'
    BY <1>a, <2>1, <2>2, <2>3, <2>7, Zenon DEF Lists, OneRunning, IdleLoops
  <2>9. Newborn'
    BY <2>1, <2>2, <2>7, NewbornFrame, Zenon DEF Lists
  <2> QED
    BY <2>6, <2>8, <2>9, Zenon DEF Lists
<1>23. ASSUME IntrReturn PROVE Lists'
  <2>1. /\ pc'[cur] \in {"hlt", "loop"} <=> pc[cur] \in {"hlt", "loop"}
        /\ pc'[cur] # "check" => pc[cur] # "check"
        /\ \A t \in Thread : t # cur => pc'[t] = pc[t] /\ arg'[t] = arg[t]
    BY <1>23, <1>a, Zenon DEF IntrReturn, WakeIdle
  <2>2. ThreadYield(ready_list, status, priority) \/ UNCHANGED sched
    BY <1>23, Zenon DEF IntrReturn
  <2> QED
    BY <1>23, <2>1, <2>2, YieldLists, Zenon DEF IntrReturn, alarm, synch, tids
<1>24. ASSUME NEW s \in IntrSema, DeviceInterrupt(s) PROVE Lists'
  <2>1. s \in Sema
    BY ThreadsAssumption, Zenon
  <2>2. /\ UNCHANGED <<cur, sleep_list, new, arg>>
        /\ pc'[cur] \in {"hlt", "loop"} <=> pc[cur] \in {"hlt", "loop"}
        /\ pc'[cur] # "check" => pc[cur] # "check"
        /\ \A t \in Thread : t # cur => pc'[t] = pc[t] /\ arg'[t] = arg[t]
    BY <1>24, <1>a, Zenon DEF DeviceInterrupt, WakeIdle, alarm, tids
  <2>3. CASE waiters[s] = <<>>
    <3>1. UNCHANGED <<status, ready_list, waiters>>
      BY <1>24, <2>3, Zenon DEF DeviceInterrupt
    <3> QED
      BY <2>2, <3>1, LocalStep, Zenon
  <2>4. CASE waiters[s] # <<>>
    <3> DEFINE t  == Head(waiters[s])
               ws == [waiters EXCEPT ![s] = Tail(@)]
    <3>1. waiters' = ws /\ ready_list' = UnblockedList(t) /\ status' = UnblockedStatus(t)
      BY <1>24, <2>4, Zenon DEF DeviceInterrupt
    <3>2. IdleOK(pc)
      BY <1>a, Zenon DEF Lists, IdleLoops, IdleOK
    <3>3. /\ t \in Thread /\ t # IdleThread
          /\ status[t] = "BLOCKED" /\ pc[t] = "down"
          /\ ~On(t, sleep_list) /\ \A r \in Sema : ~On(t, ws[r])
          /\ Linked(ready_list, sleep_list, ws, status, pc, arg)
      BY <2>1, <2>4, <3>2, PopWaiter, Zenon DEF Lists
    <3> HIDE DEF t, ws
    <3>4. Linked(ready_list, sleep_list, ws, status, pc', arg')
      BY <1>a, <2>2, <3>3, LinkedFrame, Zenon
    <3>5. Linked(UnblockedList(t), sleep_list, ws, UnblockedStatus(t), pc', arg')
      BY <3>3, <3>4, UnblockLinked, Zenon
    <3>6. Linked(ready_list, sleep_list, waiters, status, pc, arg)'
      BY <2>2, <3>1, <3>5, Zenon
    <3>7. status'[t] = "READY" /\ \A u \in Thread : u # t => status'[u] = status[u]
      BY <3>1, <3>3, Zenon DEF UnblockedStatus, TypeOK
    <3>8. OneRunning' /\ IdleLoops'
      BY <1>a, <2>2, <3>3, <3>7, Zenon DEF Lists, OneRunning, IdleLoops
    <3>9. Newborn'
      BY <1>a, <2>2, <3>3, <3>7, NewbornFrame, Zenon DEF Lists
    <3> QED
      BY <3>6, <3>8, <3>9, Zenon DEF Lists
  <2> QED
    BY <2>3, <2>4, Zenon
<1>25. ASSUME UNCHANGED vars PROVE Lists'
  BY <1>25, LocalStep, Zenon DEF vars, sched, alarm, synch, tids, control
<1> QED
  BY <1>1, <1>2, <1>3, <1>4, <1>5, <1>6, <1>7, <1>8, <1>9, <1>10, <1>11, <1>12,
     <1>13, <1>14, <1>15, <1>16, <1>17, <1>18, <1>19, <1>20, <1>21, <1>22, <1>23,
     <1>24, <1>25, Zenon
     DEF Next, ThreadStep, Interrupt, Halted

(* It holds when the kernel has started. *)
LEMMA IInvInit ==
  Init => TypeOK /\ IInv
<1> SUFFICES ASSUME Init PROVE TypeOK /\ IInv
  BY Zenon
<1>1. TypeOK /\ Operands
  BY TInvInit, Zenon DEF TInv
<1>2. Linked(ready_list, sleep_list, waiters, status, pc, arg)
  BY EmptyList, Zenon DEF Init, Linked
<1>3. OneRunning /\ IdleLoops /\ Newborn
  BY ThreadsAssumption, Zenon DEF Init, OneRunning, IdleLoops, Newborn
<1> QED
  BY <1>1, <1>2, <1>3, Zenon DEF IInv

(* A list is told by its members' status, place and semaphore. *)
LEMMA ElemOnce ==
  ASSUME IInv PROVE ElemOnOneList
<1>1. Linked(ready_list, sleep_list, waiters, status, pc, arg)
  BY Zenon DEF IInv
<1>2. /\ NoDuplicates(ready_list) /\ NoDuplicates(sleep_list)
      /\ \A s \in Sema : NoDuplicates(waiters[s])
  BY <1>1, Zenon DEF Linked
<1>3. ASSUME NEW t \in Thread
      PROVE  /\ On(t, ready_list) => status[t] = "READY"
             /\ On(t, sleep_list) => status[t] = "BLOCKED" /\ pc[t] = "run"
             /\ \A s \in Sema : On(t, waiters[s]) =>
                  status[t] = "BLOCKED" /\ pc[t] = "down" /\ arg[t] = s
  BY <1>1, Zenon DEF Linked
<1>4. ASSUME NEW t \in Thread, NEW s \in Sema, On(t, waiters[s])
      PROVE  /\ status[t] = "BLOCKED"
             /\ ~On(t, sleep_list)
             /\ \A r \in Sema \ {s} : ~On(t, waiters[r])
  <2>1. status[t] = "BLOCKED" /\ pc[t] = "down" /\ arg[t] = s
    BY <1>3, <1>4, Zenon
  <2>2. On(t, sleep_list) => pc[t] = "run"
    BY <1>3, Zenon
  <2>3. ~On(t, sleep_list)
    BY <2>1, <2>2, Zenon
  <2>4. ASSUME NEW r \in Sema \ {s} PROVE ~On(t, waiters[r])
    <3>1. On(t, waiters[r]) => arg[t] = r
      BY <1>3, Zenon
    <3> QED
      BY <2>1, <3>1, Zenon
  <2> QED
    BY <2>1, <2>3, <2>4, Zenon
<1> QED
  BY <1>2, <1>3, <1>4, Zenon DEF ElemOnOneList
============================================================================
