------------------------------- MODULE Strings -------------------------------
(***************************************************************************)
(* lib/string.c on a small memory that ends with a NUL.  A pointer is an   *)
(* index; loops that may follow their own writes are translated turn by    *)
(* turn.  strtok and strsep are calls with a memory of their own between   *)
(* them.  The characters are ASCII: strcmp keeps only the low byte of a    *)
(* difference.                                                             *)
(***************************************************************************)
EXTENDS Integers, Sequences, FiniteSets, FiniteSetsExt

CONSTANTS Size,        \* bytes of memory
          Chars,       \* characters but NUL, positive numbers
          tolower      \* from ctype.h

VARIABLES mem,
          first,       \* the memory before the first call
          a, b, fn,    \* the string, the delimiters, and strtok or strsep
          next,        \* ___strtok, or *s of strsep
          tokens       \* the pointers returned so far
vars == <<mem, first, a, b, fn, next, tokens>>

Null == -1   \* NULL
Ptr == 0..Size - 1
-----------------------------------------------------------------------------
(* Searching *)

strlen(m, s) == Min({i \in s..Size - 1 : m[i] = 0}) - s
strnlen(m, s, count) == Min({strlen(m, s), count})

strchr(m, s, c) ==
  LET at[p \in Ptr] == IF m[p] = c THEN p ELSE IF m[p] = 0 THEN Null ELSE at[p + 1]
  IN at[s]
strrchr(m, s, c) ==
  LET at[p \in Ptr] == IF m[p] = c THEN p ELSE IF p - 1 >= s THEN at[p - 1] ELSE Null
  IN at[s + strlen(m, s)]

Within(m, p, set) == \E i \in 0..strlen(m, set) - 1 : m[set + i] = m[p]
strspn(m, s, accept) ==
  LET count[p \in Ptr] == IF m[p] # 0 /\ Within(m, p, accept) THEN 1 + count[p + 1] ELSE 0
  IN count[s]
strpbrk(m, cs, ct) ==
  LET at[p \in Ptr] == IF m[p] = 0 THEN Null ELSE IF Within(m, p, ct) THEN p ELSE at[p + 1]
  IN at[cs]

memcmp(m, s, t, count) ==
  LET res[k \in 0..count] ==
        IF k = count THEN 0
        ELSE IF m[s + k] # m[t + k] THEN m[s + k] - m[t + k] ELSE res[k + 1]
  IN res[0]
memchr(m, s, c, n) ==
  LET at[k \in 0..n] == IF k = n THEN Null ELSE IF m[s + k] = c THEN s + k ELSE at[k + 1]
  IN at[0]
memscan(m, s, c, n) == IF memchr(m, s, c, n) = Null THEN s + n ELSE memchr(m, s, c, n)

\* l1 counts down while s1 moves on.
strstr(m, s1, s2) ==
  LET l2 == strlen(m, s2)
      at[l1 \in -1..Size] ==
        LET s == s1 + strlen(m, s1) - l1
        IN IF l1 < l2 THEN Null ELSE IF memcmp(m, s, s2, l2) = 0 THEN s ELSE at[l1 - 1]
  IN IF l2 = 0 THEN s1 ELSE at[strlen(m, s1)]
-----------------------------------------------------------------------------
(* Comparing: the first character that differs, or both strings' end *)

\* How many characters agree before the first that differs, or both ends.
Agreeing(m, s, t, count, fold) ==
  LET at[k \in 0..count] ==
        IF k = count \/ fold[m[s + k]] # fold[m[t + k]] \/ m[s + k] = 0 THEN k ELSE at[k + 1]
  IN at[0]
strncmp(m, s, t, count) ==
  LET k == Agreeing(m, s, t, count, [c \in Chars \cup {0} |-> c])
  IN IF k = count THEN 0 ELSE m[s + k] - m[t + k]
strcmp(m, s, t) == strncmp(m, s, t, Size)

\* The end of one string ends the comparison before the case is folded.
strnicmp(m, s, t, len) ==
  LET k == Agreeing(m, s, t, len, tolower)
      c == m[s + k]
      d == m[t + k]
  IN IF k = len THEN 0 ELSE IF 0 \in {c, d} THEN c - d ELSE tolower[c] - tolower[d]
-----------------------------------------------------------------------------
(* Copying *)

Forward(m, dest, src, count) ==
  LET c[k \in 0..count] ==
        IF k = 0 THEN m ELSE [c[k - 1] EXCEPT ![dest + k - 1] = c[k - 1][src + k - 1]]
  IN c[count]
Backward(m, dest, src, count) ==
  LET c[k \in 0..count] ==
        IF k = count THEN m ELSE [c[k + 1] EXCEPT ![dest + k] = c[k + 1][src + k]]
  IN c[0]
memcpy(m, dest, src, count) == Forward(m, dest, src, count)
\* Mutant: always from the front.
memmove_forward(m, dest, src, count) == Forward(m, dest, src, count)
memmove(m, dest, src, count) ==
  IF dest <= src THEN Forward(m, dest, src, count) ELSE Backward(m, dest, src, count)
memset(m, s, c, count) == [p \in Ptr |-> IF p \in s..s + count - 1 THEN c ELSE m[p]]

\* The copies of strings end with the NUL, strncpy also without it.
strcpy(m, dest, src) == Forward(m, dest, src, strlen(m, src) + 1)
strncpy(m, dest, src, count) == Forward(m, dest, src, Min({count, strlen(m, src) + 1}))
strcat(m, dest, src) == strcpy(m, dest + strlen(m, dest), src)
strncat(m, dest, src, count) ==
  LET end == dest + strlen(m, dest)
      n == Min({count, strlen(m, src)})
  IN IF count = 0 THEN m ELSE [Forward(m, end, src, n) EXCEPT ![end + n] = 0]
-----------------------------------------------------------------------------
(* strtok and strsep, called until they return NULL *)

Init == /\ first \in {m \in [Ptr -> Chars \cup {0}] : m[Size - 1] = 0}
        /\ mem = first /\ a \in Ptr /\ b \in Ptr /\ fn \in {"strtok", "strsep"}
        /\ next = a /\ tokens = <<>>

\* Cuts the string at the delimiter end, if there is one.
Cut(end) == /\ mem' = IF end = Null THEN mem ELSE [mem EXCEPT ![end] = 0]
            /\ next' = IF end = Null THEN Null ELSE end + 1
strtok ==
  LET begin == next + strspn(mem, next, b)
  IN /\ fn = "strtok" /\ next # Null
     /\ IF mem[begin] = 0 THEN next' = Null /\ UNCHANGED <<mem, tokens>>
        ELSE Cut(strpbrk(mem, begin, b)) /\ tokens' = Append(tokens, begin)
     /\ UNCHANGED <<first, a, b, fn>>
strsep == /\ fn = "strsep" /\ next # Null
          /\ Cut(strpbrk(mem, next, b)) /\ tokens' = Append(tokens, next)
          /\ UNCHANGED <<first, a, b, fn>>
Next == strtok \/ strsep
Spec == Init /\ [][Next]_vars
-----------------------------------------------------------------------------
Sign(n) == IF n < 0 THEN -1 ELSE IF n > 0 THEN 1 ELSE 0
Bytes(m, p, n) == [i \in 1..n |-> m[p + i - 1]]
Text(m, p) == Bytes(m, p, strlen(m, p))
First(S) == IF S = {} THEN Null ELSE Min(S)
Room(p, n) == p + n <= Size
Apart(p, n, q, k) == p + n <= q \/ q + k <= p
Delimiters == {mem[b + i] : i \in 0..strlen(mem, b) - 1}
Folded(t) == [i \in DOMAIN t |-> tolower[t[i]]]
\* The first count bytes of a string, its NUL included.
FirstOf(p, count) == SubSeq(Text(mem, p) \o <<0>>, 1, Min({count, strlen(mem, p) + 1}))
Ordered(t, u) == LET n == Min({Len(t), Len(u)})
                     k == First({i \in 1..n : t[i] # u[i]})
                 IN IF k = Null THEN 0 ELSE Sign(t[k] - u[k])

\* The searches find the first (strrchr: the last) place of what they look for.
SearchesFind ==
  LET text == a..a + strlen(mem, a) - 1
  IN /\ \A c \in Chars \cup {0} :
          LET hits == {i \in a..a + strlen(mem, a) : mem[i] = c}
          IN /\ strchr(mem, a, c) = First(hits)
             /\ strrchr(mem, a, c) = IF hits = {} THEN Null ELSE Max(hits)
             /\ \A n \in 0..Size - a :
                  LET at == First({i \in a..a + n - 1 : mem[i] = c})
                  IN memchr(mem, a, c, n) = at
                     /\ memscan(mem, a, c, n) = IF at = Null THEN a + n ELSE at
     /\ strpbrk(mem, a, b) = First({i \in text : mem[i] \in Delimiters})
     /\ a + strspn(mem, a, b) = Min({i \in text : mem[i] \notin Delimiters}
                                    \cup {a + strlen(mem, a)})
     /\ strstr(mem, a, b) = First({i \in a..a + strlen(mem, a) - strlen(mem, b) :
                                     Bytes(mem, i, strlen(mem, b)) = Text(mem, b)})

\* The comparisons order strings as their characters are ordered, up to a
\* length or an end, and strnicmp is zero for the same letters only.
ComparesOrder ==
  /\ Sign(strcmp(mem, a, b)) = Ordered(FirstOf(a, Size), FirstOf(b, Size))
  /\ \A n \in 0..Size :
       /\ Sign(strncmp(mem, a, b, n)) = Ordered(FirstOf(a, n), FirstOf(b, n))
       /\ (strnicmp(mem, a, b, n) = 0) = (Folded(FirstOf(a, n)) = Folded(FirstOf(b, n)))
       /\ Room(a, n) /\ Room(b, n) =>
            Sign(memcmp(mem, a, b, n)) = Ordered(Bytes(mem, a, n), Bytes(mem, b, n))

\* What is copied arrives and nothing else changes: with memmove also between
\* regions that overlap, with the others between regions that do not.
Copied(m, dest, bytes) ==
  m = [p \in Ptr |-> IF p - dest + 1 \in DOMAIN bytes THEN bytes[p - dest + 1] ELSE mem[p]]
CopiesArrive ==
  LET text == Text(mem, b) \o <<0>>
      end == a + strlen(mem, a)
      Join(n) == SubSeq(text, 1, n) \o IF n < Len(text) THEN <<0>> ELSE <<>>
  IN /\ \A n \in 0..Size : Room(a, n) /\ Room(b, n) =>
          /\ Copied(memmove(mem, a, b, n), a, Bytes(mem, b, n))
          /\ Apart(a, n, b, n) => Copied(memcpy(mem, a, b, n), a, Bytes(mem, b, n))
          /\ Copied(memset(mem, a, 1, n), a, [i \in 1..n |-> 1])
     /\ Room(a, Len(text)) /\ Apart(a, Len(text), b, Len(text)) =>
          /\ Copied(strcpy(mem, a, b), a, text)
          /\ \A n \in 0..Size : Copied(strncpy(mem, a, b, n), a, FirstOf(b, n))
     /\ Room(end, Len(text)) /\ Apart(a, end - a + Len(text), b, Len(text)) =>
          /\ Copied(strcat(mem, a, b), end, text)
          /\ \A n \in 1..Size :
               Copied(strncat(mem, a, b, n), end, Join(Min({n, strlen(mem, b)})))

\* strtok returns the runs of characters that are no delimiters, strsep also
\* the empty ones, whole and in order.
TokensWhole ==
  LET end == a + strlen(first, a)
      delims == {first[b + i] : i \in 0..strlen(first, b) - 1}
      Run(p) == Bytes(first, p, First({i \in p..end : i = end \/ first[i] \in delims}) - p)
      starts == {i \in a..end :
                   /\ i = a \/ first[i - 1] \in delims
                   /\ fn = "strtok" => i < end /\ first[i] \notin delims}
  IN next = Null /\ Apart(a, end - a + 1, b, strlen(first, b) + 1) =>
       /\ {tokens[i] : i \in DOMAIN tokens} = starts
       /\ \A i \in DOMAIN tokens :
            /\ i > 1 => tokens[i - 1] < tokens[i]
            /\ Text(mem, tokens[i]) = Run(tokens[i])

StringsExact == (tokens = <<>> => SearchesFind /\ ComparesOrder /\ CopiesArrive) /\ TokensWhole
=============================================================================
