------------------------------ MODULE Vsprintf ------------------------------
(***************************************************************************)
(* lib/vsprintf.c: numbers to text and back.  A format is the sequence of  *)
(* its parts, [conv, flags, width, star, precision, qualifier, arg], where *)
(* conv is "text" for the characters between the conversions (arg);        *)
(* strings of the program are sequences of characters.  Integers are as    *)
(* wide as Bits says of each qualifier.  Letters are small: LARGE only     *)
(* chooses their case.                                                     *)
(***************************************************************************)
EXTENDS Integers, Sequences, FiniteSets, SequencesExt

CONSTANT Bits   \* of "h", "int", "l" and "L"

xdigits == <<"0", "1", "2", "3", "4", "5", "6", "7", "8", "9", "a", "b", "c", "d", "e", "f">>
isxdigit(c) == Contains(xdigits, c)
value(c) == SelectInSeq(xdigits, LAMBDA x : x = c) - 1

Times(c, n) == [i \in 1..n |-> c]
Signed(n, bits) == IF n % 2^bits >= 2^(bits - 1) THEN (n % 2^bits) - 2^bits ELSE n % 2^bits
-----------------------------------------------------------------------------
(* Text to numbers *)

At(cp, i) == IF i \in DOMAIN cp THEN cp[i] ELSE "NUL"

\* The number that starts at i, and where it ends.
strtoul(cp, i, given, bits) ==
  LET hex == At(cp, i) = "0" /\ At(cp, i + 1) = "x" /\ isxdigit(At(cp, i + 2))
      base == IF given # 0 THEN given ELSE IF hex THEN 16 ELSE IF At(cp, i) = "0" THEN 8 ELSE 10
      from == IF given # 0 \/ base = 10 THEN i ELSE IF hex THEN i + 2 ELSE i + 1
      isdigit(k) == isxdigit(At(cp, k)) /\ value(cp[k]) < base
      read[k \in Nat] == \* what is read up to k
        IF k = from THEN 0 ELSE (read[k - 1] * base + value(cp[k - 1])) % 2^bits
      end == CHOOSE k \in from..Len(cp) + 1 : ~isdigit(k) /\ \A j \in from..k - 1 : isdigit(j)
  IN [result |-> read[end], endp |-> end]
strtol(cp, i, base, bits) ==
  IF At(cp, i) = "-"
  THEN LET s == strtoul(cp, i + 1, base, bits) IN [s EXCEPT !.result = Signed(-@, bits)]
  ELSE LET s == strtoul(cp, i, base, bits) IN [s EXCEPT !.result = Signed(@, bits)]
-----------------------------------------------------------------------------
(* Numbers to text *)

digits(n, base) ==
  LET d[k \in Nat] == IF k = 0 THEN <<>> ELSE Append(d[k \div base], xdigits[(k % base) + 1])
  IN IF n = 0 THEN <<"0">> ELSE d[n]

number(num, base, size, precision, type) ==
  LET zeropad == "ZEROPAD" \in type /\ "LEFT" \notin type
      negative == "SIGN" \in type /\ num < 0
      sign == IF "SIGN" \notin type THEN <<>>
              ELSE IF negative THEN <<"-">>
              ELSE IF "PLUS" \in type THEN <<"+">>
              ELSE IF "SPACE" \in type THEN <<" ">> ELSE <<>>
      prefix == IF "SPECIAL" \notin type THEN <<>>
                ELSE IF base = 16 THEN <<"0", "x">> ELSE IF base = 8 THEN <<"0">> ELSE <<>>
      body == digits(IF negative THEN -num ELSE num, base)
      zeros == IF precision > Len(body) THEN precision - Len(body) ELSE 0
      left == size - Len(sign) - Len(prefix) - zeros - Len(body)
  IN (IF zeropad \/ "LEFT" \in type THEN <<>> ELSE Times(" ", left))
     \o sign \o prefix \o (IF zeropad THEN Times("0", left) ELSE <<>>)
     \o Times("0", zeros) \o body \o (IF "LEFT" \in type THEN Times(" ", left) ELSE <<>>)
-----------------------------------------------------------------------------
(* vsnprintf *)

Base(conv) == IF conv = "o" THEN 8 ELSE IF conv \in {"x", "p"} THEN 16 ELSE 10
\* A width that is an argument and negative, a precision that is negative.
Width(d) == IF d.star /\ d.width < 0 THEN -d.width ELSE d.width
Flags(d) == d.flags \cup (IF d.star /\ d.width < 0 THEN {"LEFT"} ELSE {})
                    \cup (IF d.conv = "d" THEN {"SIGN"} ELSE {})
\* The argument as the qualifier reads it.
Argument(d) == IF d.conv = "d" THEN Signed(d.arg, Bits[d.qualifier])
               ELSE d.arg % 2^Bits[d.qualifier]
Padded(text, d) == LET pad == Times(" ", Width(d) - Len(text))
                   IN IF "LEFT" \in Flags(d) THEN text \o pad ELSE pad \o text
Part(d) ==
  CASE d.conv = "text" -> d.arg
    [] d.conv = "%" -> <<"%">>
    [] d.conv = "c" -> Padded(<<d.arg>>, d)
    [] d.conv = "s" -> Padded(IF d.precision = -1 \/ d.precision > Len(d.arg) THEN d.arg
                              ELSE SubSeq(d.arg, 1, d.precision), d)
    [] d.conv = "p" -> IF Width(d) = -1
                       THEN number(d.arg, 16, Bits["l"] \div 4, d.precision,
                                   Flags(d) \cup {"ZEROPAD"})
                       ELSE number(d.arg, 16, Width(d), d.precision, Flags(d))
    [] OTHER -> number(Argument(d), Base(d.conv), Width(d), d.precision, Flags(d))

\* No character is written behind the buffer, the last one gives way to the
\* NUL, and the length is that of the whole text.
vsnprintf(buf, size, fmt) ==
  LET text == FoldLeft(LAMBDA t, d : t \o Part(d), <<>>, fmt)
      all == Append(text, "NUL")
      written == IF Len(text) < size THEN all
                 ELSE IF size = 0 THEN <<>> ELSE SubSeq(text, 1, size - 1) \o <<"NUL">>
  IN [buf |-> written \o SubSeq(buf, Len(written) + 1, Len(buf)), len |-> Len(text)]
-----------------------------------------------------------------------------
\* A number that is printed fills its field, on the side asked for, has the
\* digits and the sign asked for, and strtol or strtoul read it back.
NumberReads(d) ==
  LET text == Part(d)
      blanks == {i \in DOMAIN text : text[i] = " "}
      body == SelectSeq(text, LAMBDA c : c # " ")
      from == IF At(body, 1) = "+" THEN 2 ELSE 1
      base == IF "SPECIAL" \in d.flags /\ d.conv \in {"o", "x", "p"} THEN 0 ELSE Base(d.conv)
      back == IF d.conv = "d" THEN strtol(body, from, base, Bits["L"])
              ELSE strtoul(body, from, base, Bits["L"])
  IN /\ back.result = Argument(d) /\ back.endp = Len(body) + 1
     /\ Len(text) >= Width(d)
     /\ Len(text) > Width(d) =>
          \A i \in blanks : i = 1 /\ "SPACE" \in d.flags
     /\ Cardinality({i \in DOMAIN body : isxdigit(body[i])}) >= d.precision
     /\ \A i \in blanks : IF "LEFT" \in Flags(d)
                          THEN i > Len(body) \/ (i = 1 /\ "SPACE" \in d.flags)
                          ELSE i <= Len(text) - Len(body)
     /\ d.conv = "d" => (At(body, 1) = "-") = (Argument(d) < 0)

\* A buffer that is too small holds the beginning, and the length returned is
\* that of the whole text in either case.
Truncates(buf, fmt) ==
  LET whole == vsnprintf(buf, Len(buf), fmt)
  IN \A size \in 0..Len(buf) :
       LET r == vsnprintf(buf, size, fmt)
           kept == IF whole.len < size THEN whole.len ELSE size - 1
       IN /\ r.len = whole.len
          /\ SubSeq(r.buf, size + 1, Len(buf)) = SubSeq(buf, size + 1, Len(buf))
          /\ size > 0 => /\ r.buf[kept + 1] = "NUL"
                         /\ SubSeq(r.buf, 1, kept) = SubSeq(whole.buf, 1, kept)
=============================================================================
