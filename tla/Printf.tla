------------------------------- MODULE Printf -------------------------------
(***************************************************************************)
(* lib/stdio.c: the formatting of printf and vsnprintf.  Text is a         *)
(* sequence of one-character strings, NUL ends a format.  Arguments are    *)
(* integers, or texts for %s; Bits gives the width of the integer types,   *)
(* scaled down so that small arguments exceed the narrow ones.             *)
(***************************************************************************)
EXTENDS Integers, FiniteSets, SequencesExt

CONSTANTS Bits, PerLine, Kilo

NUL == "NUL"
Digit == <<"0", "1", "2", "3", "4", "5", "6", "7", "8", "9", "a", "b", "c", "d", "e", "f">>
UpperDigit == SubSeq(Digit, 1, 10) \o <<"A", "B", "C", "D", "E", "F">>
IsDigit(c) == \E i \in 1..10 : Digit[i] = c
DigitValue(c) == (CHOOSE i \in 1..10 : Digit[i] = c) - 1
Repeat(c, n) == [i \in 1..n |-> c]

base_d == [base |-> 10, digits |-> Digit, x |-> "", group |-> 3]
base_o == [base |-> 8, digits |-> Digit, x |-> "", group |-> 3]
base_x == [base |-> 16, digits |-> Digit, x |-> "x", group |-> 4]
base_X == [base |-> 16, digits |-> UpperDigit, x |-> "X", group |-> 4]

FlagOf == [f \in {"-", "+", " ", "#", "0", "'"} |->
             CASE f = "-" -> "MINUS" [] f = "+" -> "PLUS" [] f = " " -> "SPACE"
               [] f = "#" -> "POUND" [] f = "0" -> "ZERO" [] f = "'" -> "GROUP"]

\* A parser state: the position in the format and the arguments that are left.
At(f, p) == IF p.i <= Len(f) THEN f[p.i] ELSE NUL
Skip(p, n) == [p EXCEPT !.i = @ + n]
va_arg(p) == Head(p.args)

RECURSIVE ParseFlags(_, _)
ParseFlags(f, p) ==
  IF At(f, p) \in DOMAIN FlagOf
    THEN ParseFlags(f, Skip([p EXCEPT !.flags = @ \cup {FlagOf[At(f, p)]}], 1))
  ELSE [p EXCEPT !.flags = (@ \ (IF "MINUS" \in @ THEN {"ZERO"} ELSE {}))
                              \ (IF "PLUS" \in @ THEN {"SPACE"} ELSE {})]

\* A run of digits read into a number.
RECURSIVE Number(_, _, _)
Number(f, p, v) ==
  IF IsDigit(At(f, p)) THEN Number(f, Skip(p, 1), v * 10 + DigitValue(At(f, p)))
  ELSE [p EXCEPT !.number = v]
StarOrNumber(f, p) ==
  IF At(f, p) = "*" THEN Skip([p EXCEPT !.number = va_arg(p), !.args = Tail(@)], 1)
                    ELSE Number(f, p, 0)

ParseWidth(f, p) ==
  LET q == StarOrNumber(f, p)
  IN  IF q.number < 0
        THEN [q EXCEPT !.width = -q.number, !.flags = @ \cup {"MINUS"}]
        ELSE [q EXCEPT !.width = q.number]

ParsePrecision(f, p) ==
  IF At(f, p) # "." THEN p
  ELSE LET q == StarOrNumber(f, Skip(p, 1))
       IN  IF q.number < 0 THEN q
           ELSE [q EXCEPT !.precision = q.number, !.flags = @ \ {"ZERO"}]

ParseType(f, p) ==
  LET c == At(f, p)
      twice == At(f, Skip(p, 1)) = c
  IN  CASE c = "h" /\ twice -> Skip([p EXCEPT !.type = "CHAR"], 2)
        [] c = "h" /\ ~twice -> Skip([p EXCEPT !.type = "SHORT"], 1)
        [] c = "j" -> Skip([p EXCEPT !.type = "INTMAX"], 1)
        [] c = "l" /\ twice -> Skip([p EXCEPT !.type = "LONGLONG"], 2)
        [] c = "l" /\ ~twice -> Skip([p EXCEPT !.type = "LONG"], 1)
        [] c = "t" -> Skip([p EXCEPT !.type = "PTRDIFFT"], 1)
        [] c = "z" -> Skip([p EXCEPT !.type = "SIZET"], 1)
        [] OTHER -> p

parse_conversion(f, i, args) ==
  LET p == [i |-> i, args |-> args, number |-> 0, flags |-> {}, width |-> 0,
            precision |-> -1, type |-> "INT"]
  IN  ParseType(f, ParsePrecision(f, ParseWidth(f, ParseFlags(f, p))))

\* The digits, least significant first, with the commas of the ' flag.
RECURSIVE Accumulate(_, _, _, _)
Accumulate(value, b, group, cnt) ==
  IF value = 0 THEN <<>>
  ELSE (IF group /\ cnt > 0 /\ cnt % b.group = 0 THEN <<",">> ELSE <<>>)
         \o <<b.digits[1 + (value % b.base)]>>
         \o Accumulate(value \div b.base, b, group, cnt + 1)

\* Mutant: the sign is not counted when the field is padded.
format_integer_Pad(value, is_signed, negative, b, c) ==
  LET sign == IF ~is_signed THEN <<>> ELSE IF negative THEN <<"-">>
              ELSE IF "PLUS" \in c.flags THEN <<"+">>
              ELSE IF "SPACE" \in c.flags THEN <<" ">> ELSE <<>>
      x == IF "POUND" \in c.flags /\ value # 0 /\ b.x # "" THEN <<"0", b.x>> ELSE <<>>
      num == Accumulate(value, b, "GROUP" \in c.flags, 0)
      precision == IF c.precision < 0 THEN 1 ELSE c.precision
      z == num \o Repeat("0", precision - Len(num))
      buf == IF "POUND" \in c.flags /\ b.base = 8 /\ (z = <<>> \/ Last(z) # "0")
               THEN Append(z, "0") ELSE z
      pad == c.width - Len(buf) - Len(x)
  IN  (IF {"MINUS", "ZERO"} \cap c.flags = {} THEN Repeat(" ", pad) ELSE <<>>)
        \o sign \o x \o (IF "ZERO" \in c.flags THEN Repeat("0", pad) ELSE <<>>)
        \o Reverse(buf) \o (IF "MINUS" \in c.flags THEN Repeat(" ", pad) ELSE <<>>)

\* buf holds the number backwards; its size of 64 is never reached here.
format_integer(value, is_signed, negative, b, c) ==
  LET sign == IF ~is_signed THEN <<>> ELSE IF negative THEN <<"-">>
              ELSE IF "PLUS" \in c.flags THEN <<"+">>
              ELSE IF "SPACE" \in c.flags THEN <<" ">> ELSE <<>>
      x == IF "POUND" \in c.flags /\ value # 0 /\ b.x # "" THEN <<"0", b.x>> ELSE <<>>
      num == Accumulate(value, b, "GROUP" \in c.flags, 0)
      precision == IF c.precision < 0 THEN 1 ELSE c.precision
      z == num \o Repeat("0", precision - Len(num))
      buf == IF "POUND" \in c.flags /\ b.base = 8 /\ (z = <<>> \/ Last(z) # "0")
               THEN Append(z, "0") ELSE z
      pad == c.width - Len(buf) - Len(x) - Len(sign)
  IN  (IF {"MINUS", "ZERO"} \cap c.flags = {} THEN Repeat(" ", pad) ELSE <<>>)
        \o sign \o x \o (IF "ZERO" \in c.flags THEN Repeat("0", pad) ELSE <<>>)
        \o Reverse(buf) \o (IF "MINUS" \in c.flags THEN Repeat(" ", pad) ELSE <<>>)

format_string(s, length, c) ==
  LET pad == Repeat(" ", c.width - length)
  IN  IF "MINUS" \in c.flags THEN SubSeq(s, 1, length) \o pad
                             ELSE pad \o SubSeq(s, 1, length)

\* The value of an argument read as a type, and as its unsigned version.
AsUnsigned(v, type) == v % 2 ^ Bits[type]
AsSigned(v, type) ==
  LET u == AsUnsigned(v, type)
  IN  IF u < 2 ^ (Bits[type] - 1) THEN u ELSE u - 2 ^ Bits[type]

\* The switch on the conversion character.
Convert(conv, c) ==
  LET v == va_arg(c)
      s == AsSigned(v, c.type)
  IN  CASE conv \in {"d", "i"} ->
             format_integer(IF s < 0 THEN -s ELSE s, TRUE, s < 0, base_d, c)
        [] conv = "u" -> format_integer(AsUnsigned(v, c.type), FALSE, FALSE, base_d, c)
        [] conv = "o" -> format_integer(AsUnsigned(v, c.type), FALSE, FALSE, base_o, c)
        [] conv = "x" -> format_integer(AsUnsigned(v, c.type), FALSE, FALSE, base_x, c)
        [] conv = "X" -> format_integer(AsUnsigned(v, c.type), FALSE, FALSE, base_X, c)
        [] conv = "c" -> format_string(v, 1, c)
        [] conv = "s" ->
             format_string(v, IF c.precision >= 0 /\ c.precision < Len(v)
                                THEN c.precision ELSE Len(v), c)
        [] conv = "p" ->
             format_integer(AsUnsigned(v, "INT"), FALSE, FALSE, base_x,
                            [c EXCEPT !.flags = {"POUND"}])

Conversions == {"d", "i", "u", "o", "x", "X", "c", "s", "p"}

\* The loop of __vprintf from position i on; an unknown conversion takes no
\* argument and leaves a note.
RECURSIVE VprintfFrom(_, _, _)
VprintfFrom(f, i, args) ==
  IF i > Len(f) THEN <<>>
  ELSE IF f[i] # "%" THEN <<f[i]>> \o VprintfFrom(f, i + 1, args)
  ELSE IF i < Len(f) /\ f[i + 1] = "%" THEN <<"%">> \o VprintfFrom(f, i + 2, args)
  ELSE LET c == parse_conversion(f, i + 1, args)
           conv == At(f, c)
       IN  IF conv \in Conversions
             THEN Convert(conv, c) \o VprintfFrom(f, c.i + 1, Tail(c.args))
             ELSE <<"no ", conv>> \o VprintfFrom(f, c.i + 1, c.args)

__vprintf(f, args) == VprintfFrom(f, 1, args)

\* vsnprintf stores what fits and counts the rest.
vsnprintf(buffer, buf_size, f, args) ==
  LET out == __vprintf(f, args)
      max == IF buf_size > 0 THEN buf_size - 1 ELSE 0
      n == IF Len(out) < max THEN Len(out) ELSE max
  IN  [ret |-> Len(out),
       buf |-> [i \in DOMAIN buffer |->
                  IF i <= n THEN out[i]
                  ELSE IF i = n + 1 /\ buf_size > 0 THEN NUL ELSE buffer[i]]]

-----------------------------------------------------------------------------
\* What the C standard says of a conversion, stated on the finished field: its
\* number, from the least digits; the prefix; the padding that completes it.
RECURSIVE Numeral(_, _, _)
Numeral(v, base, digits) ==
  IF v = 0 THEN <<>>
  ELSE Numeral(v \div base, base, digits) \o <<digits[1 + (v % base)]>>

\* A specification s has flags, width, precision (-1: none), type and conv; it
\* is written with `*' where star says so, and its arguments come first.
Field(s, v) ==
  LET base == CASE s.conv \in {"d", "u"} -> 10 [] s.conv = "o" -> 8
                [] s.conv \in {"x", "X"} -> 16
      value == IF s.conv = "d" THEN AsSigned(v, s.type) ELSE AsUnsigned(v, s.type)
      abs == IF value < 0 THEN -value ELSE value
      left == "-" \in s.flags \/ s.width < 0
      width == IF s.width < 0 THEN -s.width ELSE s.width
      min == IF s.precision < 0 THEN 1 ELSE s.precision
      d == Numeral(abs, base, IF s.conv = "X" THEN UpperDigit ELSE Digit)
      zeros == Repeat("0", min - Len(d)) \o d
      number == IF "#" \in s.flags /\ base = 8 /\ (zeros = <<>> \/ zeros[1] # "0")
                  THEN <<"0">> \o zeros ELSE zeros
      sign == IF s.conv # "d" THEN <<>> ELSE IF value < 0 THEN <<"-">>
              ELSE IF "+" \in s.flags THEN <<"+">>
              ELSE IF " " \in s.flags THEN <<" ">> ELSE <<>>
      prefix == IF "#" \in s.flags /\ base = 16 /\ abs # 0 THEN <<"0", s.conv>> ELSE <<>>
      room == width - Len(sign \o prefix \o number)
  IN  IF left THEN sign \o prefix \o number \o Repeat(" ", room)
      ELSE IF "0" \in s.flags /\ s.precision < 0
        THEN sign \o prefix \o Repeat("0", room) \o number
        ELSE Repeat(" ", room) \o sign \o prefix \o number

TypeText == [CHAR |-> <<"h", "h">>, SHORT |-> <<"h">>, INT |-> <<>>, LONG |-> <<"l">>,
             LONGLONG |-> <<"l", "l">>, INTMAX |-> <<"j">>, PTRDIFFT |-> <<"t">>,
             SIZET |-> <<"z">>]
Spelled(n) == IF n = 0 THEN <<"0">> ELSE Numeral(n, 10, Digit)
Format(s, star) ==
  <<"[", "%">> \o SetToSeq(s.flags)
    \o (IF star THEN <<"*">> ELSE IF s.width = 0 THEN <<>> ELSE Spelled(s.width))
    \o (IF star THEN <<".", "*">> ELSE IF s.precision < 0 THEN <<>>
                               ELSE <<".">> \o Spelled(s.precision))
    \o TypeText[s.type] \o <<s.conv, "]", "%", "%">>

PrintedOK(s, v, star, size) ==
  (star \/ s.width >= 0) =>
    LET args == IF star THEN <<s.width, s.precision, v>> ELSE <<v>>
        text == <<"[">> \o Field(s, v) \o <<"]", "%">>
        buffer == [i \in 1..12 |-> "?"]
        r == vsnprintf(buffer, size, Format(s, star), args)
        n == IF Len(text) < size - 1 THEN Len(text) ELSE size - 1
    IN  /\ __vprintf(Format(s, star), args) = text
        /\ r.ret = Len(text)
        /\ size > 0 => SubSeq(r.buf, 1, n + 1) = Append(SubSeq(text, 1, n), NUL)
        /\ \A i \in DOMAIN buffer : i > size => r.buf[i] = "?"

\* printf of an integer writes the field the C standard describes, whatever
\* the flags and their order, with the width and precision in the format or as
\* arguments (a negative width means the flag -, a negative precision none) and
\* the argument cut to its type; and a buffer of any size gets the beginning of
\* it, ended by a null byte, and keeps the bytes beyond, while the full length
\* is returned.  The exception is `%0*d' with a negative width.
PrintfOK(s, v, star, size) ==
  ~("0" \in s.flags /\ s.width < 0 /\ s.precision < 0) => PrintedOK(s, v, star, size)

\* A string conversion pads and cuts, and a literal text stays as it is.
StringConversionOK(text, width, precision, left) ==
  LET flags == IF left THEN <<"-">> ELSE <<>>
      cut == IF precision < 0 \/ precision > Len(text) THEN text
             ELSE SubSeq(text, 1, precision)
      pad == Repeat(" ", width - Len(cut))
  IN  /\ __vprintf(<<"%">> \o flags \o <<"*", ".", "*", "s">>, <<width, precision, text>>)
           = IF left THEN cut \o pad ELSE pad \o cut
      /\ __vprintf(text, <<>>) = text

-----------------------------------------------------------------------------
\* The lines of hex_dump, PerLine bytes each: the offset printed first, the
\* column of the first byte and the bytes of the line.
RECURSIVE hex_dump(_, _)
hex_dump(ofs, buf) ==
  IF buf = <<>> THEN <<>>
  ELSE LET start == ofs % PerLine
           end == IF PerLine - start > Len(buf) THEN start + Len(buf) ELSE PerLine
           n == end - start
       IN  <<[ofs |-> ofs - start, start |-> start, bytes |-> SubSeq(buf, 1, n)]>>
             \o hex_dump(ofs + n, SubSeq(buf, n + 1, Len(buf)))

factors == <<"bytes", "kB", "MB", "GB", "TB">>
RECURSIVE Scale(_, _)
Scale(size, f) ==
  IF size >= Kilo /\ f < Len(factors) THEN Scale(size \div Kilo, f + 1)
                                     ELSE [number |-> size, unit |-> f]
print_human_readable_size(size) == Scale(size, 1)

\* Every byte of a dump is printed once, under its own address, and a
\* human-readable size is the size rounded down in the largest unit that does
\* not make it zero.
DumpOK(ofs, buf) ==
  LET lines == hex_dump(ofs, buf)
      Where == UNION {{<<lines[k].ofs + lines[k].start + i - 1, lines[k].bytes[i]>> :
                         i \in DOMAIN lines[k].bytes} : k \in DOMAIN lines}
      h == print_human_readable_size(ofs)
  IN  /\ Where = {<<ofs + i - 1, buf[i]>> : i \in DOMAIN buf}
      /\ FoldLeft(LAMBDA n, l : n + Len(l.bytes), 0, lines) = Len(buf)
      /\ \A k \in DOMAIN lines :
           lines[k].ofs % PerLine = 0 /\ lines[k].start + Len(lines[k].bytes) <= PerLine
      /\ h.number = ofs \div Kilo ^ (h.unit - 1)
      /\ h.number < Kilo \/ h.unit = Len(factors)
      /\ h.unit > 1 => h.number > 0
=============================================================================
