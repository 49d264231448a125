---------------------------- MODULE ListsProofs ----------------------------
(***************************************************************************)
(* What the list operations do to the set of entries of a list.            *)
(***************************************************************************)
EXTENDS Lists, TLAPS

\* The entries of a list, walked from its head, are the range of the sequence.
LEMMA ToSetElements ==
  ASSUME NEW S, NEW l \in Seq(S)
  PROVE  /\ ToSet(l) \subseteq S
         /\ \A i \in 1..Len(l) : l[i] \in ToSet(l)
         /\ \A e \in ToSet(l) : \E i \in 1..Len(l) : l[i] = e
BY DEF ToSet

\* The elements of a concatenation, by position.
LEMMA Concatenation ==
  ASSUME NEW S, NEW a \in Seq(S), NEW b \in Seq(S)
  PROVE  /\ a \o b \in Seq(S) /\ Len(a \o b) = Len(a) + Len(b)
         /\ Len(a) \in Nat /\ Len(b) \in Nat /\ Len(a \o b) \in Nat
         /\ \A i \in 1..Len(a) : (a \o b)[i] = a[i]
         /\ \A i \in 1..Len(b) : (a \o b)[Len(a) + i] = b[i]
         /\ \A i \in (Len(a) + 1)..Len(a \o b) :
               i - Len(a) \in 1..Len(b) /\ (a \o b)[i] = b[i - Len(a)]
OBVIOUS

\* list_add puts one more entry on the list (include/list.h, list_add).
LEMMA ListAdd ==
  ASSUME NEW S, NEW l \in Seq(S), NEW e \in S
  PROVE  /\ list_add(e, l) \in Seq(S)
         /\ ToSet(list_add(e, l)) = ToSet(l) \cup {e}
         /\ Linked(l) /\ e \notin ToSet(l) => Linked(list_add(e, l))
         /\ list_add(e, l) # <<>>
         /\ Head(list_add(e, l)) = e
<1> DEFINE m == <<e>> \o l
<1>1. /\ m \in Seq(S) /\ Len(m) = Len(l) + 1 /\ m[1] = e
      /\ \A i \in 1..Len(l) : m[i+1] = l[i]
      /\ \A i \in 2..Len(m) : m[i] = l[i-1]
  OBVIOUS
<1>2. ToSet(m) = ToSet(l) \cup {e}
  <2>1. ASSUME NEW x \in ToSet(m) PROVE x \in ToSet(l) \cup {e}
    BY <1>1 DEF ToSet
  <2>2. ASSUME NEW x \in ToSet(l) PROVE x \in ToSet(m)
    <3>1. PICK i \in 1..Len(l) : l[i] = x
      BY DEF ToSet
    <3>2. m[i+1] = x /\ i+1 \in 1..Len(m)
      BY <1>1, <3>1
    <3> QED BY <3>2, <1>1 DEF ToSet
  <2>3. e \in ToSet(m)
    BY <1>1 DEF ToSet
  <2> QED BY <2>1, <2>2, <2>3
<1>3. ASSUME Linked(l), e \notin ToSet(l) PROVE Linked(m)
  <2> SUFFICES ASSUME NEW i \in 1..Len(m), NEW j \in 1..Len(m), m[i] = m[j]
               PROVE  i = j
    BY DEF Linked
  <2>1. \A k \in 2..Len(m) : m[k] # e
    BY <1>1, <1>3, ToSetElements
  <2> QED BY <1>1, <1>3, <2>1 DEF Linked
<1> QED BY <1>1, <1>2, <1>3 DEF list_add

\* list_del takes exactly the named entry off a list and leaves the others
\* linked once (include/list.h, list_del).
LEMMA ListDel ==
  ASSUME NEW S, NEW l \in Seq(S), NEW e, Linked(l)
  PROVE  /\ list_del(e, l) \in Seq(S)
         /\ ToSet(list_del(e, l)) = ToSet(l) \ {e}
         /\ Linked(list_del(e, l))
<1>1. CASE ~ \E i \in 1..Len(l) : l[i] = e
  BY <1>1, ToSetElements DEF list_del, RemoveFirst
<1>2. CASE \E i \in 1..Len(l) : l[i] = e
  <2> DEFINE I == {i \in 1..Len(l) : l[i] = e}
             k == Min(I)
             m == SubSeq(l, 1, k-1) \o SubSeq(l, k+1, Len(l))
  <2>1. PICK n \in 1..Len(l) : l[n] = e
    BY <1>2
  <2>2. I = {n}
    BY <2>1 DEF Linked
  <2>3. k = n
    BY <2>2 DEF Min
  <2>4. list_del(e, l) = m
    BY <1>2, <2>1 DEF list_del, RemoveFirst, RemoveAt, SelectInSeq
  <2> HIDE DEF k
  <2>5. /\ SubSeq(l, 1, n-1) \in Seq(S) /\ Len(SubSeq(l, 1, n-1)) = n - 1
        /\ \A i \in 1..(n-1) : SubSeq(l, 1, n-1)[i] = l[i]
    BY <2>1
  <2>6. /\ SubSeq(l, n+1, Len(l)) \in Seq(S)
        /\ Len(SubSeq(l, n+1, Len(l))) = Len(l) - n
        /\ \A i \in 1..(Len(l) - n) : SubSeq(l, n+1, Len(l))[i] = l[n+i]
    BY <2>1
  <2>7. /\ m \in Seq(S) /\ Len(m) = Len(l) - 1 /\ Len(l) \in Nat /\ Len(m) \in Nat
        /\ \A i \in 1..(n-1) : m[i] = l[i]
        /\ \A i \in n..Len(m) : m[i] = l[i+1]
    <3>1. m = SubSeq(l, 1, n-1) \o SubSeq(l, n+1, Len(l)) BY <2>3
    <3> DEFINE u == SubSeq(l, 1, n-1)  v == SubSeq(l, n+1, Len(l))
    <3> HIDE DEF u, v
    <3>2. /\ u \in Seq(S) /\ v \in Seq(S) /\ Len(u) = n - 1 /\ Len(v) = Len(l) - n
          /\ Len(l) \in Nat
          /\ \A i \in 1..(n-1) : u[i] = l[i]
          /\ \A i \in 1..(Len(l) - n) : v[i] = l[n+i]
      BY <2>5, <2>6 DEF u, v
    <3>3. m = u \o v BY <3>1 DEF u, v
    <3> HIDE DEF m
    <3>4. /\ m \in Seq(S) /\ Len(m) = Len(u) + Len(v)
          /\ \A i \in 1..Len(u) : m[i] = u[i]
          /\ \A i \in (Len(u)+1)..Len(m) : m[i] = v[i - Len(u)]
      <4>1. u \in Seq(S) /\ v \in Seq(S) BY <3>2
      <4> QED BY <4>1, <3>3, Concatenation
    <3>5. ASSUME NEW i \in n..Len(m) PROVE m[i] = l[i+1]
      <4>1. i - Len(u) \in 1..(Len(l) - n) /\ m[i] = v[i - Len(u)] BY <3>2, <3>4
      <4>2. v[i - Len(u)] = l[n + (i - Len(u))] BY <4>1, <3>2
      <4> QED BY <4>1, <4>2, <3>2
    <3> QED BY <3>2, <3>4, <3>5
  <2> HIDE DEF m
  <2>8. ToSet(m) = ToSet(l) \ {e}
    <3>1. ASSUME NEW x \in ToSet(m) PROVE x \in ToSet(l) \ {e}
      <4>1. PICK i \in 1..Len(m) : m[i] = x
        BY <2>7, ToSetElements
      <4>2. PICK j \in 1..Len(l) : j # n /\ l[j] = x
        <5>1. CASE i < n
          <6>1. i \in 1..Len(l) /\ i # n /\ l[i] = x BY <5>1, <4>1, <2>7, <2>1
          <6> QED BY <6>1
        <5>2. CASE i >= n
          <6>1. i+1 \in 1..Len(l) /\ i+1 # n /\ l[i+1] = x BY <5>2, <4>1, <2>7, <2>1
          <6> QED BY <6>1
        <5> QED BY <5>1, <5>2, <2>7
      <4> QED BY <4>2, <2>1, ToSetElements DEF Linked
    <3>2. ASSUME NEW x \in ToSet(l), x # e PROVE x \in ToSet(m)
      <4>1. PICK i \in 1..Len(l) : l[i] = x
        BY ToSetElements
      <4>2. PICK j \in 1..Len(m) : m[j] = x
        <5>1. CASE i < n BY <5>1, <4>1, <2>7, <2>1
        <5>2. CASE i > n
          <6>1. i-1 \in n..Len(m) /\ m[i-1] = x BY <5>2, <4>1, <2>7, <2>1
          <6> QED BY <6>1, <2>1
        <5> QED BY <5>1, <5>2, <4>1, <3>2, <2>1
      <4> QED BY <4>2, <2>7, ToSetElements
    <3> QED BY <3>1, <3>2
  <2>9. Linked(m)
    BY <2>7, <2>1 DEF Linked
  <2> QED BY <2>4, <2>7, <2>8, <2>9
<1> QED BY <1>1, <1>2

\* list_splice links the entries of both lists (include/list.h, list_splice).
LEMMA ListSplice ==
  ASSUME NEW S, NEW a \in Seq(S), NEW b \in Seq(S)
  PROVE  /\ list_splice(a, b) \in Seq(S)
         /\ ToSet(list_splice(a, b)) = ToSet(a) \cup ToSet(b)
         /\ Linked(a) /\ Linked(b) /\ ToSet(a) \cap ToSet(b) = {}
              => Linked(list_splice(a, b))
<1> DEFINE m == a \o b
<1>1. /\ m \in Seq(S) /\ Len(m) = Len(a) + Len(b)
      /\ Len(a) \in Nat /\ Len(b) \in Nat /\ Len(m) \in Nat
      /\ \A i \in 1..Len(a) : m[i] = a[i]
      /\ \A i \in 1..Len(b) : m[Len(a) + i] = b[i]
      /\ \A i \in (Len(a) + 1)..Len(m) : i - Len(a) \in 1..Len(b) /\ m[i] = b[i - Len(a)]
  BY Concatenation
<1> HIDE DEF m
<1>2. ToSet(m) = ToSet(a) \cup ToSet(b)
  <2>1. ASSUME NEW x \in ToSet(m) PROVE x \in ToSet(a) \cup ToSet(b)
    <3>1. PICK i \in 1..Len(m) : m[i] = x
      BY <1>1, ToSetElements
    <3>2. CASE i <= Len(a)
      <4>1. i \in 1..Len(a) /\ a[i] = x BY <3>1, <3>2, <1>1
      <4> QED BY <4>1, ToSetElements
    <3>3. CASE i > Len(a)
      <4>1. i - Len(a) \in 1..Len(b) /\ b[i - Len(a)] = x BY <3>1, <3>3, <1>1
      <4> QED BY <4>1, ToSetElements
    <3> QED BY <3>2, <3>3, <1>1
  <2>2. ASSUME NEW x \in ToSet(a) PROVE x \in ToSet(m)
    <3>1. PICK i \in 1..Len(a) : a[i] = x
      BY ToSetElements
    <3>2. i \in 1..Len(m) /\ m[i] = x
      BY <3>1, <1>1
    <3> QED BY <3>2, <1>1, ToSetElements
  <2>3. ASSUME NEW x \in ToSet(b) PROVE x \in ToSet(m)
    <3>1. PICK i \in 1..Len(b) : b[i] = x
      BY ToSetElements
    <3>2. Len(a) + i \in 1..Len(m) /\ m[Len(a) + i] = x
      BY <3>1, <1>1
    <3> QED BY <3>2, <1>1, ToSetElements
  <2> QED BY <2>1, <2>2, <2>3
<1>3. ASSUME Linked(a), Linked(b), ToSet(a) \cap ToSet(b) = {}
      PROVE  Linked(m)
  <2> SUFFICES ASSUME NEW i \in 1..Len(m), NEW j \in 1..Len(m), m[i] = m[j], i < j
               PROVE  FALSE
    BY <1>1 DEF Linked
  <2>1. CASE j <= Len(a)
    <3>1. i \in 1..Len(a) /\ j \in 1..Len(a) /\ a[i] = a[j] BY <2>1, <1>1
    <3> QED BY <3>1, <1>3 DEF Linked
  <2>2. CASE i > Len(a)
    <3> DEFINE p == i - Len(a)  q == j - Len(a)
    <3>1. p \in 1..Len(b) /\ q \in 1..Len(b) /\ b[p] = b[q] /\ p # q BY <2>2, <1>1
    <3> HIDE DEF p, q
    <3> QED BY <3>1, <1>3 DEF Linked
  <2>3. CASE i <= Len(a) /\ j > Len(a)
    <3> DEFINE q == j - Len(a)
    <3>1. i \in 1..Len(a) /\ q \in 1..Len(b) /\ a[i] = b[q] BY <2>3, <1>1
    <3> HIDE DEF q
    <3>2. a[i] \in ToSet(a) /\ b[q] \in ToSet(b) BY <3>1, ToSetElements
    <3> QED BY <3>1, <3>2, <1>3
  <2> QED BY <1>1, <2>1, <2>2, <2>3
<1> QED BY <1>1, <1>2, <1>3 DEF list_splice, m

\* Popping the first entry of a non-empty list removes exactly that entry.
LEMMA ListPop ==
  ASSUME NEW S, NEW l \in Seq(S), l # <<>>
  PROVE  /\ Head(l) \in ToSet(l) /\ Head(l) \in S
         /\ Tail(l) \in Seq(S)
         /\ Linked(l) => ToSet(Tail(l)) = ToSet(l) \ {Head(l)}
         /\ Linked(l) => Linked(Tail(l))
<1>1. /\ Tail(l) \in Seq(S) /\ Len(l) >= 1 /\ Len(Tail(l)) = Len(l) - 1 /\ Head(l) = l[1]
      /\ \A i \in 1..Len(Tail(l)) : Tail(l)[i] = l[i+1]
  OBVIOUS
<1>2. Head(l) \in ToSet(l) /\ Head(l) \in S
  BY <1>1, ToSetElements
<1>3. ASSUME Linked(l) PROVE ToSet(Tail(l)) = ToSet(l) \ {Head(l)}
  <2>1. ASSUME NEW x \in ToSet(Tail(l)) PROVE x \in ToSet(l) /\ x # Head(l)
    <3>1. PICK i \in 1..Len(Tail(l)) : Tail(l)[i] = x
      BY <1>1, ToSetElements
    <3> QED BY <3>1, <1>1, <1>3, ToSetElements DEF Linked
  <2>2. ASSUME NEW x \in ToSet(l), x # Head(l) PROVE x \in ToSet(Tail(l))
    <3>1. PICK i \in 1..Len(l) : l[i] = x
      BY ToSetElements
    <3>2. i-1 \in 1..Len(Tail(l)) /\ Tail(l)[i-1] = x
      BY <3>1, <2>2, <1>1
    <3> QED BY <3>2, <1>1, ToSetElements
  <2> QED BY <2>1, <2>2
<1>4. ASSUME Linked(l) PROVE Linked(Tail(l))
  BY <1>1, <1>4 DEF Linked
<1> QED BY <1>1, <1>2, <1>3, <1>4
=============================================================================
