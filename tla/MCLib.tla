------------------------------- MODULE MCLib -------------------------------
(***************************************************************************)
(* The kernel's library and the parts of the kernel that compute rather    *)
(* than schedule, for TLC.  What is a function is tried on every input of  *)
(* a small set; what has state is explored, each machine by itself.        *)
(***************************************************************************)
EXTENDS Links, Numbers, Containers, FileBytes, Program, Archive, Screen, Monitor, Mlfqs

VARIABLES
  part,           \* the machine explored
  input           \* the input tried: its kind and its value

UpTo(S, n) == UNION {[1 .. k -> S] : k \in 0 .. n}

Inputs == [
  strings |-> [s : UpTo({1, 2}, 3), t : UpTo({1, 2}, 2), size : 0 .. 5],
  blocks |-> [dst : 0 .. 4, src : 0 .. 4, size : 0 .. 4],
  lists |-> UpTo(1 .. 3, 4),
  numbers |-> 0 .. Long - 1,
  bitmaps |-> {b \in [n : 0 .. 5, bits : SUBSET (0 .. 4), start : 0 .. 5, cnt : 0 .. 3] :
                 b.bits \subseteq 0 .. b.n - 1 /\ b.start <= b.n},
  formats |-> [v : {-1234567, 0, 7, 1000}, flags : SUBSET {"-", "+", " ", "#", "0", "'"},
               width : {0, 9}, precision : {-1, 0, 5}, size : {0, 4, 12}],
  segments |-> [phdr : [p_offset : {0, 8, 63, 72}, p_vaddr : {0, 8, 63, 64, 127, 320, 383, 448, 511},
                        p_filesz : {0, 5, 56, 72}, p_memsz : {0, 5, 56, 72, 400, 511}], length : {0, 10, 96, 144}],
  commands |-> UpTo({1, 2}, 7)]

(* Two strings in one memory, and a list's elements. *)
Memory(s, t) == [i \in 0 .. 15 |-> IF i < Len(s) THEN s[i + 1]
                                   ELSE IF i - 8 \in 0 .. Len(t) - 1 THEN t[i - 7] ELSE 0]
(* The caps of keys 1, 2, A, [ and Delete. *)
Caps == (2 :> <<49, 33>>) @@ (3 :> <<50, 64>>) @@ (30 :> <<97, 65>>) @@ (26 :> <<91, 123>>)
          @@ (83 :> <<127, 127>>)
Letters == <<"a", "b", "c", "d">>

KeyOf == [a |-> 1, b |-> 2, b2 |-> 2, c |-> 3, d |-> 4]
HashOf == [a |-> 1, b |-> 2, b2 |-> 2, c |-> 5, d |-> 3]
TwoFiles == [n \in {<<"a">>, <<".", "/", "b">>} |-> IF n = <<"a">> THEN <<1>> ELSE <<2, 3>>]

Init ==
  /\ part \in {"functions", "hash", "bytes", "archive", "display", "keyboard", "monitor", "mlfqs"}
  /\ input = <<"none", 0>>
  /\ HashInit /\ BytesInit /\ ArchiveInit /\ ScreenInit /\ MonitorInit /\ MlfqsInit

Try == /\ input[1] = "none"
       /\ \E k \in DOMAIN Inputs : \E x \in Inputs[k] : input' = <<k, x>>

Next ==
  /\ \/ part = "functions" /\ Try /\ UNCHANGED <<c_vars, f_vars, ar_vars, vga, kbd, mo_vars, q_vars>>
     \/ part = "hash" /\ HashNext /\ UNCHANGED <<input, f_vars, ar_vars, vga, kbd, mo_vars, q_vars>>
     \/ part = "bytes" /\ BytesNext /\ UNCHANGED <<input, c_vars, ar_vars, vga, kbd, mo_vars, q_vars>>
     \/ part = "archive" /\ ArchiveNext /\ UNCHANGED <<input, c_vars, f_vars, vga, kbd, mo_vars, q_vars>>
     \/ part = "display" /\ DisplayNext /\ UNCHANGED <<input, c_vars, f_vars, ar_vars, kbd, mo_vars, q_vars>>
     \/ part = "keyboard" /\ KeyboardNext /\ UNCHANGED <<input, c_vars, f_vars, ar_vars, vga, mo_vars, q_vars>>
     \/ part = "monitor" /\ MonitorNext /\ UNCHANGED <<input, c_vars, f_vars, ar_vars, vga, kbd, q_vars>>
     \/ part = "mlfqs" /\ MlfqsNext /\ UNCHANGED <<input, c_vars, f_vars, ar_vars, vga, kbd, mo_vars>>
  /\ UNCHANGED part

Spec == Init /\ [][Next]_<<part, input, c_vars, f_vars, ar_vars, vga, kbd, mo_vars, q_vars>>
-----------------------------------------------------------------------------
(* The string functions agree with the strings they are about: searches,   *)
(* comparisons, tokens and bounded copies and concatenations (string.c),   *)
(* and memmove moves a block onto one that overlaps it.                    *)
StringsAgree ==
  LET x == input[2]
  IN  /\ input[1] = "strings" => StringsRight(Memory(x.s, x.t), 0, 8, x.size)
      /\ input[1] = "blocks" => BlocksRight([i \in 0 .. 8 |-> i], x.dst, x.src, x.size)

(* Through every list of list.c, forwards and backwards, are exactly the   *)
(* elements it should have, sorted stably, reversed, without duplicates;   *)
(* sort and binary_search of stdlib.c do what they are for.                *)
ListsAgree ==
  input[1] = "lists" =>
    LET n == Len(input[2])
        s == SubSeq(Letters, 1, n)
    IN  /\ ListsRight(s, [e \in ToSet(s) |-> input[2][CHOOSE i \in 1 .. n : s[i] = e]])
        /\ ArraysRight(input[2])

(* 64-bit division from 32-bit divisions is division (arithmetic.c), and   *)
(* what printf writes has the width, the precision, the digits and the     *)
(* sign that were asked for, cut to the buffer (stdio.c).                  *)
NumbersAgree ==
  LET x == input[2]
  IN  /\ input[1] = "numbers" => DivisionRight(x)
      /\ input[1] = "formats" => FormatRight(x.v, x.flags, x.width, x.precision, x.size)

(* The library's functions on strings, lists, arrays and numbers do what   *)
(* they are for: the three above.                                          *)
LibraryRight == StringsAgree /\ ListsAgree /\ NumbersAgree

(* A hash table finds what was put in, through rehashes that may fail      *)
(* (hash.c), and a bitmap is a set of bits whatever its last word holds    *)
(* (bitmap.c).                                                             *)
TablesAgree ==
  LET x == input[2]
  IN  /\ TableRight
      /\ input[1] = "bitmaps" => BitmapRight(x.n, x.bits, x.start, x.cnt)

(* A program is in memory where its headers say and nowhere else, and the  *)
(* words of every command that load's buffer holds are on its stack        *)
(* (process.c).                                                            *)
ProgramLoaded ==
  LET x == input[2]
  IN  /\ input[1] = "segments" => SegmentRight(x.phdr, [i \in 1 .. x.length |-> i])
      /\ input[1] = "commands" => ArgumentsRight(x)
=============================================================================
