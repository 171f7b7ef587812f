------------------------------- MODULE Format -------------------------------
(***************************************************************************)
(* lib/stdio.c's formatting and lib/stdlib.c's atoi.  Text is a sequence   *)
(* of one-character strings.  Values are those of TLC's 32-bit integers,   *)
(* so the int, long, long long, size_t, ptrdiff_t and intmax_t arguments   *)
(* are not told apart.                                                     *)
(***************************************************************************)
EXTENDS Integers, SequencesExt, FiniteSetsExt

Digits == <<"0", "1", "2", "3", "4", "5", "6", "7", "8", "9", "a", "b", "c", "d", "e", "f">>
isdigit(c) == \E i \in 1 .. 10 : Digits[i] = c
DigitValue(c) == (CHOOSE i \in DOMAIN Digits : Digits[i] = c) - 1
Dup(c, n) == [i \in 1 .. n |-> c]                       \* output_dup

\* struct integer_base
UpperDigits == SubSeq(Digits, 1, 10) \o <<"A", "B", "C", "D", "E", "F">>
base_d == [base |-> 10, digits |-> Digits, x |-> <<>>, group |-> 3]
base_o == [base |-> 8, digits |-> Digits, x |-> <<>>, group |-> 3]
base_x == [base |-> 16, digits |-> Digits, x |-> <<"0", "x">>, group |-> 4]
base_X == [base |-> 16, digits |-> UpperDigits, x |-> <<"0", "X">>, group |-> 4]

RECURSIVE take_flags(_, _), take_number(_, _), accumulate(_, _, _, _), print_from(_, _, _), print_conversion(_, _)

CharAt(s, i) == IF i <= Len(s) THEN s[i] ELSE "nul"

(* parse_conversion.  Each part returns what it read and where it stopped. *)
take_flags(f, i) ==
  IF CharAt(f, i) \in {"-", "+", " ", "#", "0", "'"}
  THEN LET r == take_flags(f, i + 1) IN [flags |-> r.flags \cup {CharAt(f, i)}, at |-> r.at]
  ELSE [flags |-> {}, at |-> i]
take_number(f, i) ==
  LET j == Min({k \in i .. Len(f) + 1 : ~isdigit(CharAt(f, k))})
  IN  [value |-> FoldLeft(LAMBDA v, c : v * 10 + DigitValue(c), 0, SubSeq(f, i, j - 1)), at |-> j]
take_count(f, i, args) ==
  IF CharAt(f, i) = "*" THEN [value |-> Head(args), at |-> i + 1, args |-> Tail(args)]
  ELSE LET n == take_number(f, i) IN [value |-> n.value, at |-> n.at, args |-> args]

take_type(f, p, flags, width) ==
  LET two == CharAt(f, p.at) \in {"h", "l"} /\ CharAt(f, p.at + 1) = CharAt(f, p.at)
  IN  [flags |-> IF p.value >= 0 THEN flags \ {"0"} ELSE flags,
       width |-> IF width < 0 THEN -width ELSE width,
       precision |-> IF p.value < 0 THEN -1 ELSE p.value,
       type |-> IF CharAt(f, p.at) = "h" THEN IF two THEN "CHAR" ELSE "SHORT" ELSE "INT",
       at |-> p.at + (IF two THEN 2 ELSE IF CharAt(f, p.at) \in {"h", "j", "l", "t", "z"} THEN 1 ELSE 0),
       args |-> p.args]
take_precision(f, w, flags) ==
  take_type(f,
            IF CharAt(f, w.at) = "." THEN take_count(f, w.at + 1, w.args) ELSE [w EXCEPT !.value = -1],
            IF w.value < 0 THEN flags \cup {"-"} ELSE flags,
            w.value)
take_width(f, fl, args) ==
  take_precision(f, take_count(f, fl.at, args),
                 fl.flags \ ((IF "-" \in fl.flags THEN {"0"} ELSE {}) \cup (IF "+" \in fl.flags THEN {" "} ELSE {})))
parse_conversion(f, i, args) == take_width(f, take_flags(f, i), args)

(* format_integer's buffer holds the digits in reverse. *)
accumulate(value, cnt, b, flags) ==
  IF value = 0 THEN <<>>
  ELSE (IF "'" \in flags /\ cnt > 0 /\ cnt % b.group = 0 THEN <<",">> ELSE <<>>)
         \o <<b.digits[(value % b.base) + 1]>> \o accumulate(value \div b.base, cnt + 1, b, flags)

BufSize == 64
WithPrecision(buf, precision) == buf \o Dup("0", Max({0, Min({precision, BufSize - 1}) - Len(buf)}))
WithOctal(buf, b, flags) ==
  IF "#" \in flags /\ b.base = 8 /\ (buf = <<>> \/ Last(buf) # "0") THEN Append(buf, "0") ELSE buf
Sign_(negative, flags) ==
  IF negative THEN <<"-">>
  ELSE IF "+" \in flags THEN <<"+">> ELSE IF " " \in flags THEN <<" ">> ELSE <<>>

(* order: whether the sign and the 0x come before the padding zeros. *)
InField(buf, sign, pad, flags, order) ==
  LET zeros == IF "0" \in flags THEN Dup("0", pad) ELSE <<>>
  IN  (IF flags \cap {"-", "0"} = {} THEN Dup(" ", pad) ELSE <<>>)
        \o (IF order THEN sign \o zeros ELSE zeros \o sign) \o Reverse(buf)
        \o (IF "-" \in flags THEN Dup(" ", pad) ELSE <<>>)
Padded(buf, sign, c, order) ==
  InField(buf, sign, Max({0, c.width - Len(buf) - Len(sign)}), c.flags, order)
IntegerPadded(value, is_signed, negative, b, c, order) ==
  Padded(WithOctal(WithPrecision(accumulate(value, 0, b, c.flags), IF c.precision < 0 THEN 1 ELSE c.precision),
                   b, c.flags),
         (IF is_signed THEN Sign_(negative, c.flags) ELSE <<>>)
           \o (IF "#" \in c.flags /\ value # 0 THEN b.x ELSE <<>>),
         c, order)

(* Mutant: the zeros are put before the sign. *)
IntegerZerosFirst(value, is_signed, negative, b, c) == IntegerPadded(value, is_signed, negative, b, c, FALSE)
format_integer(value, is_signed, negative, b, c) == IntegerPadded(value, is_signed, negative, b, c, TRUE)

format_string(s, length, c) ==
  LET pad == Dup(" ", IF c.width > length THEN c.width - length ELSE 0)
  IN  IF "-" \in c.flags THEN SubSeq(s, 1, length) \o pad ELSE pad \o SubSeq(s, 1, length)

Modulus(type) == CASE type = "CHAR" -> 256 [] type = "SHORT" -> 65536 [] OTHER -> 0
AsSigned(v, type) ==
  LET m == Modulus(type) IN IF m = 0 THEN v ELSE ((v + m \div 2) % m) - m \div 2
AsUnsigned(v, type) == IF Modulus(type) = 0 THEN v ELSE v % Modulus(type)

convert(c, ch) ==
  LET v == Head(c.args)
  IN  CASE ch \in {"d", "i"} ->
             LET s == AsSigned(v, c.type)
             IN  format_integer(IF s < 0 THEN -s ELSE s, TRUE, s < 0, base_d, c)
        [] ch = "u" -> format_integer(AsUnsigned(v, c.type), FALSE, FALSE, base_d, c)
        [] ch = "o" -> format_integer(AsUnsigned(v, c.type), FALSE, FALSE, base_o, c)
        [] ch = "x" -> format_integer(AsUnsigned(v, c.type), FALSE, FALSE, base_x, c)
        [] ch = "X" -> format_integer(AsUnsigned(v, c.type), FALSE, FALSE, base_X, c)
        [] ch = "p" -> format_integer(v, FALSE, FALSE, base_x, [c EXCEPT !.flags = {"#"}])
        [] ch = "c" -> format_string(<<v>>, 1, c)
        [] ch = "s" -> LET n == IF c.precision < 0 THEN Len(v) ELSE Min({c.precision, Len(v)})
                       IN  format_string(v, n, c)

Known == {"d", "i", "u", "o", "x", "X", "p", "c", "s"}

(* __vprintf from position i of format f. *)
print_from(f, i, args) ==
  IF i > Len(f) THEN <<>>
  ELSE IF f[i] # "%" THEN <<f[i]>> \o print_from(f, i + 1, args)
  ELSE IF CharAt(f, i + 1) = "%" THEN <<"%">> \o print_from(f, i + 2, args)
  ELSE print_conversion(f, parse_conversion(f, i + 1, args))
print_conversion(f, c) ==
  LET ch == CharAt(f, c.at)
  IN  IF ch \in Known THEN convert(c, ch) \o print_from(f, c.at + 1, Tail(c.args))
      ELSE <<"no conversion">> \o print_from(f, c.at + 1, c.args)
vprintf(f, args) == print_from(f, 1, args)

(* The bytes written to the buffer, and the value returned. *)
Truncated(out, buf_size) ==
  [buffer |-> SubSeq(out, 1, Min({Max({0, buf_size - 1}), Len(out)})) \o (IF buf_size > 0 THEN <<"nul">> ELSE <<>>),
   length |-> Len(out)]
vsnprintf(buf_size, f, args) == Truncated(vprintf(f, args), buf_size)

isspace(c) == c \in {" ", "\t", "\n"}
atoi(s) ==
  LET i == Min({k \in 1 .. Len(s) + 1 : ~isspace(CharAt(s, k))})
      j == IF CharAt(s, i) \in {"+", "-"} THEN i + 1 ELSE i
      n == take_number(s, j).value
  IN  IF CharAt(s, i) = "-" THEN -n ELSE n
-----------------------------------------------------------------------------
Strip(s) == SelectSeq(s, LAMBDA c : c # ",")
BaseValue(s, base) == FoldLeft(LAMBDA v, c : v * base + DigitValue(c), 0, s)
DigitsOf(v) == Cardinality({k \in 0 .. 9 : 10 ^ k <= v})

(* A number printed with any flags, width and precision has the least      *)
(* length these ask for, keeps to its side of the field, and is read back  *)
(* as the same number; a short buffer gets a prefix and its terminator.    *)
(* Widths given as arguments act as written ones, and a negative one as    *)
(* the - flag, but for the 0 flag: it is dropped for a - only before the   *)
(* width is read, and such a field is padded on both sides.                *)
FormatRight(v, flags, width, precision, size) ==
  LET Text(n) == IF n < 0 THEN <<>> ELSE <<Digits[n + 1]>>
      opts == <<"%">> \o SetToSeq(flags)
      dotted == IF precision < 0 THEN <<>> ELSE <<".">> \o Text(precision)
      Printed(ch, x) == vprintf(opts \o (IF width = 0 THEN <<>> ELSE Text(width)) \o dotted \o <<ch>>, <<x>>)
      abs == IF v < 0 THEN -v ELSE v
      signed == IF v < 0 \/ flags \cap {"+", " "} # {} THEN 1 ELSE 0
      digits == DigitsOf(abs)
      commas == IF "'" \in flags /\ digits > 0 THEN (digits - 1) \div 3 ELSE 0
      stars == IF precision < 0 THEN <<"*", "d">> ELSE <<"*", ".", "*", "d">>
      counts == IF precision < 0 THEN <<width>> ELSE <<width, precision>>
      left == flags \cup (IF width > 0 THEN {"-"} ELSE {})
      Right(d, bare, sn) ==
        /\ atoi(Strip(d)) = v
        /\ vprintf(opts \o stars, counts \o <<v>>) = d
        /\ Len(Printed("s", d)) = Max({width, IF precision < 0 THEN Len(d) ELSE Min({precision, Len(d)})})
        /\ Len(d) = Max({width, signed + Max({digits + commas, IF precision < 0 THEN 1 ELSE precision})})
        /\ "-" \in flags => IsPrefix(bare, d)
        /\ "-" \notin flags /\ ("0" \notin flags \/ precision >= 0) => IsSuffix(bare, d)
        /\ sn.length = Len(d)
        /\ size > 0 => Last(sn.buffer) = "nul" /\ Len(sn.buffer) <= size /\ IsPrefix(Front(sn.buffer), d)
        /\ size = 0 => sn.buffer = <<>>
  IN  /\ Right(Printed("d", v), vprintf(opts \o dotted \o <<"d">>, <<v>>), Truncated(Printed("d", v), size))
      /\ "0" \notin flags =>
           vprintf(opts \o <<"*", "d">>, <<-width, v>>)
             = vprintf(<<"%">> \o SetToSeq(left) \o <<"*", "d">>, <<width, v>>)
      /\ BaseValue(SelectSeq(Printed("o", abs), LAMBDA c : isdigit(c)), 8) = abs
      /\ BaseValue(SelectSeq(Printed("x", abs), LAMBDA c : c \in ToSet(Digits)), 16) = abs
      /\ Len(Printed("X", abs)) = Len(Printed("x", abs))
=============================================================================
