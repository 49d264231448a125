------------------------------- MODULE Div64 -------------------------------
(***************************************************************************)
(* lib/div64.c and include/div64.h: division of numbers of two words by    *)
(* numbers of one, on words of W bits.                                     *)
(***************************************************************************)
EXTENDS Integers

CONSTANT W

Word == 2^W
u64(n) == n % Word^2
s64(n) == IF u64(n) >= (Word^2) \div 2 THEN u64(n) - Word^2 ELSE u64(n)
abs(n) == IF n > 0 THEN n ELSE -n
fls(n) == IF n = 0 THEN 0 ELSE CHOOSE b \in 1..W : 2^(b - 1) <= n /\ n < 2^b

\* b and d double until b reaches what is left or its sign bit is set, then
\* come down again while b is subtracted where it can be.
__div64_32(n, base) ==
  LET high == n \div Word
      top == IF high >= base THEN high \div base ELSE 0
      rem == n - top * base * Word
      b(k) == u64(base * 2^k)
      k0 == CHOOSE k \in 0..2 * W : /\ ~(s64(b(k)) > 0 /\ b(k) < rem)
                                    /\ \A j \in 0..k - 1 : s64(b(j)) > 0 /\ b(j) < rem
      down[k \in -1..2 * W] == \* what is left, and the quotient, below 2^(k + 1)
        IF k = k0 THEN [rem |-> rem, res |-> top * Word]
        ELSE LET r == down[k + 1]
             IN IF r.rem >= b(k + 1) THEN [rem |-> r.rem - b(k + 1), res |-> u64(r.res + 2^(k + 1))]
                ELSE r
  IN down[-1]

do_div64(n, base) ==
  IF n \div Word = 0 THEN [rem |-> n % base, res |-> n \div base] ELSE __div64_32(n, base)
div_u64(n, divisor) == do_div64(n, divisor).res

div_s64_rem(n, divisor) ==
  LET r == do_div64(u64(abs(n)), abs(divisor))
  IN [res |-> s64(IF (n < 0) = (divisor > 0) THEN -r.res ELSE r.res),
      rem |-> IF n < 0 THEN -r.rem ELSE r.rem]

\* Both are shifted until the divisor fits a word.
div64_u64(n, divisor) ==
  LET shift == fls(divisor \div Word) IN div_u64(n \div 2^shift, divisor \div 2^shift)

iter_div_u64_rem(n, divisor) ==
  LET sub[m \in 0..n] == IF m < divisor THEN [rem |-> m, res |-> 0]
                         ELSE [sub[m - divisor] EXCEPT !.res = (@ + 1) % Word]
  IN sub[n]
-----------------------------------------------------------------------------
\* The quotient and the remainder are those of division, for signed numbers
\* rounded towards zero; with a divisor of two words the quotient is at most
\* one too large.
DivisionExact(n, divisor) ==
  LET exact == [rem |-> n % divisor, res |-> n \div divisor]
      s == s64(n)
      d == IF divisor >= Word \div 2 THEN divisor - Word ELSE divisor
      r == div_s64_rem(s, d)
  IN /\ divisor < Word =>
          /\ do_div64(n, divisor) = exact
          /\ iter_div_u64_rem(n, divisor) = [exact EXCEPT !.res = @ % Word]
          /\ r.rem = IF s < 0 THEN -(abs(s) % abs(d)) ELSE s % abs(d)
          /\ u64(r.res * d + r.rem) = u64(s)
     /\ div64_u64(n, divisor) - exact.res \in {0, 1}
=============================================================================
