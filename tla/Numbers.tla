------------------------------ MODULE Numbers ------------------------------
(***************************************************************************)
(* lib/arithmetic.c, the division of "64-bit" numbers by machine code that *)
(* divides 64 by 32 bits, with W for 32.                                   *)
(***************************************************************************)
EXTENDS Integers, FiniteSetsExt

CONSTANT W                      \* bits of a word: 32 in the code; a power of 2

ASSUME WAssumption == W \in {2, 4, 8}

Word == 2 ^ W
Long == Word * Word
Wrap(x) == x % Long                                     \* uint64_t
Signed(x) == IF x % Long >= Long \div 2 THEN (x % Long) - Long ELSE x % Long

Trap == -1                      \* the CPU's divide error, #DE

divl(n, d) == IF d = 0 \/ n \div d >= Word THEN Trap ELSE n \div d

(* Leading zeros, by halves: 16, 8, 4, 2, 1 bits of 32. *)
RECURSIVE nlz_by(_, _)
nlz_by(x, half) ==
  IF half = 0 THEN 0
  ELSE IF x < 2 ^ (W - half) THEN half + nlz_by(x * 2 ^ half, half \div 2)
  ELSE nlz_by(x, half \div 2)
nlz(x) == nlz_by(x, W \div 2)

(* Mutant: the estimate of the quotient is not corrected. *)
UdivUncorrected(n, d) ==
  IF d < Word THEN divl(Word * ((n \div Word) % d) + (n % Word), d) + Word * ((n \div Word) \div d)
  ELSE IF n < d THEN 0
  ELSE LET s == nlz(d \div Word)
       IN  divl(n \div 2, Wrap(d * 2 ^ s) \div Word) \div 2 ^ (W - 1 - s)

udiv64(n, d) ==
  IF d < Word THEN divl(Word * ((n \div Word) % d) + (n % Word), d) + Word * ((n \div Word) \div d)
  ELSE IF n < d THEN 0
  ELSE LET s == nlz(d \div Word)
           q == divl(n \div 2, Wrap(d * 2 ^ s) \div Word) \div 2 ^ (W - 1 - s)
       IN  IF Wrap(n - (q - 1) * d) < d THEN q - 1 ELSE q

(* The result type of the remainders is a word. *)
umod64(n, d) == Wrap(n - d * udiv64(n, d)) % Word

Abs64(x) == Wrap(IF x >= 0 THEN x ELSE -x)
sdiv64(n, d) ==
  LET q == udiv64(Abs64(n), Abs64(d)) IN Signed(IF (n < 0) = (d < 0) THEN q ELSE -q)
smod64(n, d) ==
  LET r == Wrap(n - d * sdiv64(n, d)) % Word IN IF r >= Word \div 2 THEN r - Word ELSE r

(* The quotient C asks for is rounded towards 0, and the DIVL instruction  *)
(* never traps; the remainder is right whenever it fits its result type.   *)
DivisionRight(n) ==
  LET Trunc(x, d) == LET a == IF x < 0 THEN -x ELSE x
                         b == IF d < 0 THEN -d ELSE d
                     IN  IF (x < 0) = (d < 0) THEN a \div b ELSE -(a \div b)
      sn == Signed(n)
  IN  \A d \in 1 .. Long - 1 :
        LET sd == Signed(d)
            sq == Trunc(sn, sd)
        IN  /\ udiv64(n, d) = n \div d
            /\ d <= Word => umod64(n, d) = n % d
            /\ sq < Long \div 2 => sdiv64(sn, sd) = sq
            /\ sd \in -(Word \div 2) .. Word \div 2 => smod64(sn, sd) = sn - sd * sq
=============================================================================
