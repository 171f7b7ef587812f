------------------------------ MODULE Strings ------------------------------
(***************************************************************************)
(* lib/string.c, which the kernel and user programs share.  Memory is a    *)
(* function from addresses to bytes, a string's last byte is 0, and a      *)
(* pointer is an address.                                                  *)
(***************************************************************************)
EXTENDS Integers, SequencesExt, FiniteSetsExt

Null == -1

RECURSIVE strlen(_, _), strchr(_, _, _), memcpy(_, _, _, _), copy_down(_, _, _, _),
          memcmp(_, _, _, _), strcmp(_, _, _), memchr(_, _, _, _), strrchr(_, _, _, _),
          span(_, _, _, _), search(_, _, _, _), skip(_, _, _), token_end(_, _, _)

strlen(m, s) == IF m[s] = 0 THEN 0 ELSE 1 + strlen(m, s + 1)
strnlen(m, s, maxlen) ==
  LET ends == {n \in 0..maxlen : n = maxlen \/ m[s + n] = 0} IN Min(ends)

memset(m, dst, value, size) == [a \in DOMAIN m |-> IF a \in dst .. dst + size - 1 THEN value ELSE m[a]]
memcpy(m, dst, src, size) ==
  IF size = 0 THEN m ELSE memcpy([m EXCEPT ![dst] = m[src]], dst + 1, src + 1, size - 1)
copy_down(m, dst, src, size) ==
  IF size = 0 THEN m
  ELSE copy_down([m EXCEPT ![dst + size - 1] = m[src + size - 1]], dst, src, size - 1)

(* Mutant: memmove always copies upwards. *)
MemmoveUp(m, dst, src, size) == [ret |-> dst, mem |-> memcpy(m, dst, src, size)]

(* Copying upwards moves dst, which is returned, to the end of the block. *)
memmove(m, dst, src, size) ==
  IF dst < src THEN [ret |-> dst + size, mem |-> memcpy(m, dst, src, size)]
  ELSE [ret |-> dst, mem |-> copy_down(m, dst, src, size)]

Sign(a, b) == IF a < b THEN -1 ELSE IF a > b THEN 1 ELSE 0
memcmp(m, a, b, size) ==
  IF size = 0 THEN 0
  ELSE IF m[a] # m[b] THEN Sign(m[a], m[b]) ELSE memcmp(m, a + 1, b + 1, size - 1)
strcmp(m, a, b) ==
  IF m[a] # 0 /\ m[a] = m[b] THEN strcmp(m, a + 1, b + 1) ELSE Sign(m[a], m[b])

memchr(m, block, ch, size) ==
  IF size = 0 THEN Null ELSE IF m[block] = ch THEN block ELSE memchr(m, block + 1, ch, size - 1)
strchr(m, s, c) == IF m[s] = c THEN s ELSE IF m[s] = 0 THEN Null ELSE strchr(m, s + 1, c)
strrchr(m, s, c, p) ==
  IF m[s] = 0 THEN p ELSE strrchr(m, s + 1, c, IF m[s] = c THEN s ELSE p)

(* strspn and strcspn: how far bytes are, or are not, in the other string. *)
span(m, s, set, in) ==
  IF m[s] = 0 \/ (strchr(m, set, m[s]) # Null) # in THEN 0 ELSE 1 + span(m, s + 1, set, in)
strspn(m, s, skipped) == span(m, s, skipped, TRUE)
strcspn(m, s, stop) == span(m, s, stop, FALSE)
strpbrk(m, s, stop) ==
  LET p == s + strcspn(m, s, stop) IN IF m[p] = 0 THEN Null ELSE p

search(m, at, last, needle) ==
  IF at > last THEN Null
  ELSE IF memcmp(m, at, needle, strlen(m, needle)) = 0 THEN at
  ELSE search(m, at + 1, last, needle)
strstr(m, haystack, needle) ==
  search(m, haystack, haystack + strlen(m, haystack) - strlen(m, needle), needle)

(* strtok_r: the token, the memory with its end marked, and save_ptr. *)
skip(m, s, delims) ==
  IF m[s] = 0 \/ strchr(m, delims, m[s]) = Null THEN s ELSE skip(m, s + 1, delims)
token_end(m, s, delims) ==
  IF strchr(m, delims, m[s]) # Null THEN s ELSE token_end(m, s + 1, delims)
strtok_r(m, s, delims) ==
  LET token == skip(m, s, delims)
      end == token_end(m, token, delims)
  IN  IF m[token] = 0 THEN [token |-> Null, mem |-> m, save |-> token]
      ELSE IF m[end] # 0 THEN [token |-> token, mem |-> [m EXCEPT ![end] = 0], save |-> end + 1]
      ELSE [token |-> token, mem |-> m, save |-> end]

strlcpy(m, dst, src, size) ==
  LET len == Min({strlen(m, src), size - 1})
  IN  [ret |-> strlen(m, src),
       mem |-> IF size = 0 THEN m ELSE [memcpy(m, dst, src, len) EXCEPT ![dst + len] = 0]]
strlcat(m, dst, src, size) ==
  LET at == strlen(m, dst)
      len == Min({strlen(m, src), size - at - 1})
  IN  [ret |-> strlen(m, src) + at,
       mem |-> IF size > 0 /\ at < size
               THEN [memcpy(m, dst + at, src, len) EXCEPT ![dst + at + len] = 0] ELSE m]
-----------------------------------------------------------------------------
(* What the functions are for, on the strings themselves. *)
Str(m, s) == [i \in 1..strlen(m, s) |-> m[s + i - 1]]
Place(s, i) == IF i = Null THEN Null ELSE s + i - 1
FirstIn(set) == IF set = {} THEN Null ELSE Min(set)
Less(a, b) ==
  \E i \in 1 .. Len(a) + 1 :
    /\ i <= Len(b)
    /\ \A j \in 1 .. i - 1 : a[j] = b[j]
    /\ i > Len(a) \/ a[i] < b[i]

RECURSIVE Tokens(_, _, _)
Tokens(m, s, delims) ==
  LET r == strtok_r(m, s, delims)
  IN  IF r.token = Null THEN <<>> ELSE <<Str(r.mem, r.token)>> \o Tokens(r.mem, r.save, delims)

(* The longest pieces of a without a byte of set, in order. *)
Pieces(a, set) ==
  LET ends == {<<i, j>> \in (1 .. Len(a)) \X (1 .. Len(a)) :
                 /\ i <= j
                 /\ \A k \in i..j : a[k] \notin set
                 /\ i = 1 \/ a[i - 1] \in set
                 /\ j = Len(a) \/ a[j + 1] \in set}
  IN  LET ordered == SetToSortSeq(ends, LAMBDA p, q : p[1] < q[1])
      IN  [n \in DOMAIN ordered |-> SubSeq(a, ordered[n][1], ordered[n][2])]

Prefix(a, n) == SubSeq(a, 1, Min({n, Len(a)}))

(* string.c does to strings a and b at s and t what its comments say,      *)
(* whatever they hold and however short room is.  One comment does not     *)
(* hold and is not claimed: strlcat limits a to size - 1 characters only   *)
(* if it was no longer before, so that is when its result is looked at.    *)
StringsRight(m, s, t, size) ==
  LET a == Str(m, s)
      b == Str(m, t)
      set == {b[i] : i \in DOMAIN b}
      in == {i \in DOMAIN a : a[i] \in set}
      cat == strlcat(m, s, t, size)
      cpy == strlcpy(m, s, t, size)
  IN  /\ strcmp(m, s, t) = IF Less(a, b) THEN -1 ELSE IF a = b THEN 0 ELSE 1
      /\ strpbrk(m, s, t) = Place(s, FirstIn(in))
      /\ strcspn(m, s, t) = IF in = {} THEN Len(a) ELSE Min(in) - 1
      /\ strspn(m, s, t) = Max({i \in 0 .. Len(a) : 1..i \subseteq in})
      /\ strstr(m, s, t) = Place(s, FirstIn({i \in 1 .. Len(a) - Len(b) + 1 : SubSeq(a, i, i + Len(b) - 1) = b}))
      /\ strrchr(m, s, 1, Null) = Place(s, LET on == {i \in DOMAIN a : a[i] = 1}
                                        IN  IF on = {} THEN Null ELSE Max(on))
      /\ memchr(m, s, 1, size) = Place(s, FirstIn({i \in 1..size : m[s + i - 1] = 1}))
      /\ strnlen(m, s, size) = Min({size, Len(a)})
      /\ Tokens(m, s, t) = Pieces(a, set)
      /\ cpy.ret = Len(b)
      /\ size > 0 => Str(cpy.mem, s) = Prefix(b, size - 1)
      /\ size = 0 => cpy.mem = m
      /\ cat.ret = Len(a) + Len(b)
      /\ Len(a) < size => Str(cat.mem, s) = Prefix(a \o b, size - 1)
      /\ size = 0 => cat.mem = m

(* memmove moves the block, also where it overlaps its copy.  That it      *)
(* returns dst, as its comment has it, is true only where dst >= src.      *)
BlocksRight(m, dst, src, size) ==
  LET moved == memmove(m, dst, src, size)
  IN  /\ \A i \in DOMAIN m : moved.mem[i] = IF i \in dst .. dst + size - 1 THEN m[src + i - dst] ELSE m[i]
      /\ dst >= src => moved.ret = dst
=============================================================================
