---------------------------- MODULE MemoryProofs ----------------------------
(***************************************************************************)
(* The memory management, for every number of pages, tasks and addresses.  *)
(* The blocks of a zone tile it, its flags agree with its lists and free   *)
(* memory is fully merged, so that the zone keeps the promise of           *)
(* PageAllocator; the pieces of kmalloc do not overlap; and every page a   *)
(* program was given has one owner.                                        *)
(***************************************************************************)
EXTENDS Highmem, Kmalloc, UserPages, ListsProofs, WellFoundedInduction, FiniteSetTheorems

-----------------------------------------------------------------------------
(* Numbers.  Induction over the orders is by least elements of sets.        *)

LEMMA LeastNumber ==
  ASSUME NEW T \in SUBSET Nat, T # {}
  PROVE  \E x \in T : \A y \in T : x <= y
<1> DEFINE R == OpToRel(<, Nat)
<1>1. IsWellFoundedOn(R, Nat)
  BY NatLessThanWellFounded
<1>2. \A x, y \in Nat : y < x => <<y, x>> \in R
  BY DEF OpToRel
<1> HIDE DEF R
<1>3. PICK x \in T : \A y \in T : ~ (<<y, x>> \in R)
  BY <1>1, WFMin
<1>4. \A y \in T : ~ (y < x)
  BY <1>2, <1>3
<1> QED BY <1>4

LEMMA Induction ==
  ASSUME NEW T \in SUBSET Nat, 0 \in T, \A n \in T : n + 1 \in T
  PROVE  T = Nat
<1> DEFINE C == Nat \ T
<1>1. SUFFICES ASSUME C # {} PROVE FALSE
  OBVIOUS
<1>2. PICK x \in C : \A y \in C : x <= y
  BY <1>1, LeastNumber
<1>3. x - 1 \in T
  BY <1>2
<1> QED BY <1>2, <1>3

Divides(d, a) == a % d = 0

LEMMA Quotient ==
  ASSUME NEW d \in Nat \ {0}, NEW a \in Int
  PROVE  Divides(d, a) <=> \E k \in Int : a = k * d
<1>1. a = d * (a \div d) + (a % d) /\ a \div d \in Int /\ a % d \in 0..(d - 1)
  OBVIOUS
<1>2. ASSUME Divides(d, a) PROVE \E k \in Int : a = k * d
  <2>1. a = (a \div d) * d
    BY <1>1, <1>2 DEF Divides
  <2> QED BY <1>1, <2>1
<1>3. ASSUME NEW k \in Int, a = k * d PROVE Divides(d, a)
  <2> DEFINE q == a \div d
             r == a % d
  <2>1. q \in Int /\ r \in 0..(d - 1) /\ k * d = d * q + r
    BY <1>1, <1>3
  <2> HIDE DEF q, r
  <2>2. (k - q) * d = r
    BY <2>1
  <2>3. k - q = 0
    <3>1. CASE k - q >= 1
      <4>1. (k - q) * d >= d
        BY <2>1, <3>1
      <4> QED BY <2>1, <2>2, <4>1
    <3>2. CASE k - q <= -1
      <4>1. (k - q) * d < 0
        BY <2>1, <3>2
      <4> QED BY <2>1, <2>2, <4>1
    <3> QED BY <2>1, <3>1, <3>2
  <2> QED BY <2>1, <2>2, <2>3 DEF Divides, r
<1> QED BY <1>2, <1>3

LEMMA Multiple ==
  ASSUME NEW d \in Nat \ {0}, NEW k \in Int
  PROVE  Divides(d, k * d)
<1>1. k * d \in Int
  OBVIOUS
<1> QED BY <1>1, Quotient

LEMMA DividesSum ==
  ASSUME NEW d \in Nat \ {0}, NEW a \in Int, NEW b \in Int, Divides(d, a), Divides(d, b)
  PROVE  Divides(d, a + b) /\ Divides(d, a - b)
<1>1. PICK k \in Int : a = k * d
  BY Quotient
<1>2. PICK l \in Int : b = l * d
  BY Quotient
<1>3. a + b = (k + l) * d /\ a - b = (k - l) * d
  BY <1>1, <1>2
<1>4. Divides(d, (k + l) * d) /\ Divides(d, (k - l) * d)
  <2>1. k + l \in Int /\ k - l \in Int /\ \A j \in Int : Divides(d, j * d)
    BY Multiple
  <2> QED BY <2>1, Zenon
<1> QED BY <1>3, <1>4

LEMMA DividesSelf ==
  ASSUME NEW d \in Nat \ {0}
  PROVE  Divides(d, d) /\ Divides(d, 0)
<1>1. d = 1 * d /\ 0 = 0 * d
  OBVIOUS
<1> QED BY <1>1, Quotient

LEMMA DividesTrans ==
  ASSUME NEW d \in Nat \ {0}, NEW e \in Nat \ {0}, NEW a \in Int,
         Divides(d, e), Divides(e, a)
  PROVE  Divides(d, a)
<1>1. PICK k \in Int : e = k * d
  BY Quotient
<1>2. PICK l \in Int : a = l * e
  BY Quotient
<1>3. a = l * (k * d)
  BY <1>1, <1>2, Zenon
<1>4. l * (k * d) = (l * k) * d
  OBVIOUS
<1> QED BY <1>3, <1>4, Quotient

\* Two multiples of d are at least d apart.
LEMMA DividesGap ==
  ASSUME NEW d \in Nat \ {0}, NEW a \in Int, NEW b \in Int,
         Divides(d, a), Divides(d, b), a < b
  PROVE  a + d <= b
<1>1. PICK k \in Int : a = k * d
  BY Quotient
<1>2. PICK l \in Int : b = l * d
  BY Quotient
<1>3. l - k >= 1
  <2>1. CASE l - k <= 0
    <3>1. (l - k) * d <= 0
      BY <2>1
    <3> QED BY <1>1, <1>2, <3>1
  <2> QED BY <2>1
<1>4. (l - k) * d >= d
  BY <1>3
<1> QED BY <1>1, <1>2, <1>4

\* A multiple of d is a multiple of 2 * d, or d after one.
LEMMA DividesHalf ==
  ASSUME NEW d \in Nat \ {0}, NEW a \in Int
  PROVE  /\ Divides(2 * d, a) => Divides(d, a) /\ ~ Divides(2 * d, a + d)
         /\ Divides(d, a) /\ ~ Divides(2 * d, a) => Divides(2 * d, a - d)
<1>1. 2 * d \in Nat \ {0} /\ a + d \in Int /\ a - d \in Int
  OBVIOUS
<1>2. ASSUME Divides(2 * d, a) PROVE Divides(d, a) /\ ~ Divides(2 * d, a + d)
  <2>1. PICK k \in Int : a = k * (2 * d)
    BY <1>1, <1>2, Quotient
  <2>2. a = (2 * k) * d
    BY <2>1
  <2>3. ASSUME NEW l \in Int, a + d = l * (2 * d) PROVE FALSE
    <3>1. (2 * l - 2 * k - 1) * d = 0
      BY <2>1, <2>3
    <3>2. 2 * l - 2 * k - 1 = 0
      BY <3>1
    <3> QED BY <3>2
  <2> QED BY <1>1, <2>2, <2>3, Quotient
<1>3. ASSUME Divides(d, a), ~ Divides(2 * d, a) PROVE Divides(2 * d, a - d)
  <2>1. PICK k \in Int : a = k * d
    BY <1>3, Quotient
  <2>2. PICK j \in Int : k = 2 * j \/ k = 2 * j + 1
    <3>1. k = 2 * (k \div 2) \/ k = 2 * (k \div 2) + 1
      OBVIOUS
    <3> QED BY <3>1
  <2>3. k # 2 * j
    <3>1. ASSUME k = 2 * j PROVE FALSE
      <4>1. a = j * (2 * d)
        BY <2>1, <3>1
      <4> QED BY <1>1, <1>3, <4>1, Quotient
    <3> QED BY <3>1
  <2>4. a - d = j * (2 * d)
    BY <2>1, <2>2, <2>3
  <2> QED BY <1>1, <2>4, Quotient
<1> QED BY <1>2, <1>3

\* 1 << order is positive, the greater orders are multiples of the smaller
\* ones, and of twice their size.
LEMMA SizePositive == \A o \in Order : Size[o] \in Nat \ {0}
<1> DEFINE T == {o \in Nat : o \in Order => Size[o] \in Nat \ {0}}
<1>1. 0 \in T
  BY SizeAssumption
<1>2. ASSUME NEW n \in T PROVE n + 1 \in T
  <2> SUFFICES ASSUME n + 1 \in Order PROVE Size[n + 1] \in Nat \ {0}
    OBVIOUS
  <2>1. n \in Order /\ n + 1 \in 1..MaxOrder
    BY SizeAssumption DEF Order
  <2>2. Size[n] \in Nat \ {0} /\ Size[n + 1] = 2 * Size[n]
    BY <1>2, <2>1, SizeAssumption
  <2> QED BY <2>2
<1> HIDE DEF T
<1>3. T = Nat
  <2>1. T \subseteq Nat
    BY DEF T
  <2> QED BY <1>1, <1>2, <2>1, Induction
<1> QED BY <1>3 DEF T, Order

LEMMA SizeDouble ==
  ASSUME NEW o \in Order
  PROVE  /\ o # MaxOrder => o + 1 \in Order /\ Size[o + 1] = 2 * Size[o]
         /\ o # 0 => o - 1 \in Order /\ Size[o] = 2 * Size[o - 1]
BY SizeAssumption DEF Order

LEMMA SizeDivides ==
  ASSUME NEW m \in Order, NEW n \in Order, m <= n
  PROVE  /\ Divides(Size[m], Size[n]) /\ Size[m] <= Size[n]
         /\ m < n => Divides(2 * Size[m], Size[n]) /\ 2 * Size[m] <= Size[n]
<1> DEFINE Goal(k) == Divides(2 * Size[m], Size[k]) /\ 2 * Size[m] <= Size[k]
           T == {k \in Nat : k \in Order /\ m < k => Goal(k)}
<1>1. Size[m] \in Nat \ {0} /\ 2 * Size[m] \in Nat \ {0}
  BY SizePositive
<1>2. 0 \in T
  BY DEF Order
<1>3. ASSUME NEW k \in T PROVE k + 1 \in T
  <2> SUFFICES ASSUME k + 1 \in Order, m < k + 1 PROVE Goal(k + 1)
    OBVIOUS
  <2>1. k \in Order /\ k + 1 \in 1..MaxOrder /\ k # MaxOrder
    BY SizeAssumption DEF Order
  <2>2. Size[k] \in Nat \ {0} /\ Size[k + 1] = 2 * Size[k]
    BY <2>1, SizePositive, SizeDouble
  <2>3. CASE k = m
    <3>1. Size[k + 1] = 2 * Size[m]
      BY <2>2, <2>3
    <3>2. Divides(2 * Size[m], 2 * Size[m])
      BY <1>1, DividesSelf
    <3> QED BY <1>1, <3>1, <3>2
  <2>4. CASE k # m
    <3>1. Divides(2 * Size[m], Size[k]) /\ 2 * Size[m] <= Size[k]
      BY <1>3, <2>1, <2>4 DEF Order
    <3>2. Divides(2 * Size[m], Size[k] + Size[k])
      <4> DEFINE d == 2 * Size[m]
                 a == Size[k]
      <4>1. d \in Nat \ {0} /\ a \in Int /\ Divides(d, a)
        BY <1>1, <2>2, <3>1
      <4> HIDE DEF d, a
      <4>2. Divides(d, a + a)
        BY <4>1, DividesSum
      <4> QED BY <4>2 DEF d, a
    <3>3. Size[k] + Size[k] = Size[k + 1] /\ 2 * Size[m] <= Size[k + 1]
      BY <1>1, <2>2, <3>1
    <3> QED BY <3>2, <3>3
  <2> QED BY <2>3, <2>4
<1> HIDE DEF T
<1>4. T = Nat
  <2>1. T \subseteq Nat
    BY DEF T
  <2> QED BY <1>2, <1>3, <2>1, Induction
<1>5. m < n => Goal(n)
  BY <1>4 DEF T, Order
<1>6. CASE m = n
  <2>1. Divides(Size[m], Size[m]) /\ ~ (m < m)
    BY <1>1, DividesSelf DEF Order
  <2> QED BY <1>1, <1>6, <2>1
<1>7. CASE m # n
  <2>1. m < n
    BY <1>7 DEF Order
  <2>2. Size[n] \in Nat
    BY SizePositive
  <2> QED BY <1>1, <1>5, <2>1, <2>2, DividesHalf
<1> QED BY <1>6, <1>7
-----------------------------------------------------------------------------
(* Tilings: a set of aligned blocks that do not overlap and cover the pages *)
(* below n.                                                                 *)

Past(b) == b[1] + Size[b[2]]
Aligned(b) == Divides(Size[b[2]], b[1])
Apart(b, c) == Past(b) <= c[1] \/ Past(c) <= b[1]
Covers(b, x) == b[1] <= x /\ x < Past(b)

Tiles(B, n) ==
  /\ B \subseteq Page \X Order
  /\ \A b \in B : Aligned(b) /\ Past(b) <= n
  /\ \A b, c \in B : b = c \/ Apart(b, c)
  /\ \A x \in 0..(n - 1) : \E b \in B : Covers(b, x)

LEMMA BlockType ==
  ASSUME NEW b \in Page \X Order
  PROVE  /\ b[1] \in Page /\ b[1] \in Nat /\ b[2] \in Order /\ b = <<b[1], b[2]>>
         /\ Size[b[2]] \in Nat \ {0} /\ Past(b) \in Nat /\ b[1] < Past(b)
<1>1. b[1] \in Page /\ b[1] \in Nat /\ b[2] \in Order /\ b = <<b[1], b[2]>>
  BY DEF Page
<1>2. Size[b[2]] \in Nat \ {0}
  BY <1>1, SizePositive
<1> QED BY <1>1, <1>2 DEF Past

\* Of two aligned blocks one lies in the other, or they are apart.
LEMMA Nested ==
  ASSUME NEW b \in Page \X Order, NEW c \in Page \X Order,
         Aligned(b), Aligned(c), b[2] <= c[2]
  PROVE  Apart(b, c) \/ (c[1] <= b[1] /\ Past(b) <= Past(c))
<1> DEFINE d == Size[b[2]]
           e == Size[c[2]]
           p == b[1]
           q == c[1]
<1>1. d \in Nat \ {0} /\ e \in Nat \ {0} /\ p \in Nat /\ q \in Nat
  BY BlockType
<1>2. Divides(d, p) /\ Divides(e, q) /\ Divides(d, e)
  BY SizeDivides, BlockType DEF Aligned
<1>3. SUFFICES (q <= p /\ p + d <= q + e) \/ p + d <= q \/ q + e <= p
  BY DEF Apart, Past
<1> HIDE DEF d, e, p, q
<1>4. Divides(d, q) /\ Divides(d, q + e)
  BY <1>1, <1>2, DividesTrans, DividesSum
<1>5. p < q => p + d <= q
  BY <1>1, <1>2, <1>4, DividesGap
<1>6. p < q + e => p + d <= q + e
  <2> DEFINE z == q + e
  <2>1. z \in Int /\ Divides(d, z)
    BY <1>1, <1>4
  <2> HIDE DEF z
  <2>2. p < z => p + d <= z
    BY <1>1, <1>2, <2>1, DividesGap
  <2> QED BY <2>2 DEF z
<1> QED BY <1>1, <1>5, <1>6

\* The block that covers a page is unique.
LEMMA CoversOnce ==
  ASSUME NEW B, NEW n, Tiles(B, n), NEW b \in B, NEW c \in B, NEW x \in Int,
         Covers(b, x), Covers(c, x)
  PROVE  b = c
<1>1. b \in Page \X Order /\ c \in Page \X Order
  BY DEF Tiles
<1>2. Past(b) \in Nat /\ Past(c) \in Nat /\ b[1] \in Nat /\ c[1] \in Nat
  BY <1>1, BlockType
<1>3. ~ Apart(b, c)
  BY <1>2 DEF Covers, Apart
<1> QED BY <1>3 DEF Tiles

\* A block of the tiling that starts at p is the only one.
LEMMA OneHead ==
  ASSUME NEW B, NEW n, Tiles(B, n), NEW b \in B, NEW c \in B, b[1] = c[1]
  PROVE  b = c
<1>1. b \in Page \X Order /\ c \in Page \X Order
  BY DEF Tiles
<1>2. Covers(b, b[1]) /\ Covers(c, b[1]) /\ b[1] \in Int
  BY <1>1, BlockType DEF Covers
<1> QED BY <1>2, CoversOnce

\* Replacing blocks by others that cover the same pages.
LEMMA Replace ==
  ASSUME NEW B, NEW n \in Nat, Tiles(B, n),
         NEW Old \in SUBSET B, NEW New \in SUBSET (Page \X Order),
         \A b \in New : Aligned(b) /\ Past(b) <= n,
         \A b, c \in New : b = c \/ Apart(b, c),
         \A x \in Nat : (\E b \in Old : Covers(b, x)) <=> (\E b \in New : Covers(b, x))
  PROVE  Tiles((B \ Old) \cup New, n)
<1> DEFINE C == (B \ Old) \cup New
<1>1. C \subseteq Page \X Order
  BY DEF Tiles
<1>2. \A b \in C : Aligned(b) /\ Past(b) <= n
  BY DEF Tiles
<1>3. ASSUME NEW b \in B \ Old, NEW c \in New PROVE Apart(b, c)
  <2>1. b \in Page \X Order /\ c \in Page \X Order /\ Aligned(b) /\ Aligned(c)
    BY DEF Tiles
  <2>2. /\ b[1] \in Nat /\ c[1] \in Nat /\ Past(b) \in Nat /\ Past(c) \in Nat
        /\ b[1] < Past(b) /\ c[1] < Past(c) /\ b[2] \in Int /\ c[2] \in Int
    BY <2>1, BlockType DEF Order
  <2>3. ASSUME NEW x \in Nat, Covers(b, x), Covers(c, x) PROVE FALSE
    <3>1. PICK d \in Old : Covers(d, x)
      BY <2>3
    <3>2. d = b
      BY <2>3, <3>1, CoversOnce
    <3> QED BY <3>2
  <2>4. ASSUME ~ Apart(b, c) PROVE FALSE
    <3>1. CASE c[1] <= b[1]
      <4>1. Covers(b, b[1]) /\ Covers(c, b[1])
        BY <2>2, <2>4, <3>1 DEF Covers, Apart
      <4> QED BY <2>2, <2>3, <4>1
    <3>2. CASE b[1] <= c[1]
      <4>1. Covers(b, c[1]) /\ Covers(c, c[1])
        BY <2>2, <2>4, <3>2 DEF Covers, Apart
      <4> QED BY <2>2, <2>3, <4>1
    <3> QED BY <2>2, <3>1, <3>2
  <2> QED BY <2>4
<1>4. \A b, c \in C : b = c \/ Apart(b, c)
  <2> SUFFICES ASSUME NEW b \in C, NEW c \in C PROVE b = c \/ Apart(b, c)
    OBVIOUS
  <2>1. CASE b \in B \ Old /\ c \in B \ Old
    BY <2>1 DEF Tiles
  <2>2. CASE b \in B \ Old /\ c \in New
    BY <1>3, <2>2
  <2>3. CASE b \in New /\ c \in B \ Old
    BY <1>3, <2>3 DEF Apart
  <2>4. CASE b \in New /\ c \in New
    BY <2>4
  <2> QED BY <2>1, <2>2, <2>3, <2>4
<1>5. ASSUME NEW x \in 0..(n - 1) PROVE \E b \in C : Covers(b, x)
  <2>1. PICK b \in B : Covers(b, x)
    BY DEF Tiles
  <2>2. CASE b \in Old
    BY <2>1, <2>2
  <2>3. CASE b \notin Old
    BY <2>1, <2>3
  <2> QED BY <2>2, <2>3
<1> QED BY <1>1, <1>2, <1>4, <1>5 DEF Tiles

\* The two halves of a block (reduce, expand).
LEMMA Halves ==
  ASSUME NEW p \in Page, NEW o \in Order, o # MaxOrder,
         Divides(2 * Size[o], p), p + 2 * Size[o] <= NrPages
  PROVE  LET q == p + Size[o]
         IN  /\ o + 1 \in Order /\ q \in Page /\ p \in Nat /\ q \in Nat /\ p # q
             /\ Aligned(<<p, o>>) /\ Aligned(<<q, o>>) /\ Aligned(<<p, o + 1>>)
             /\ Apart(<<p, o>>, <<q, o>>)
             /\ Past(<<p, o>>) = q /\ Past(<<q, o>>) = Past(<<p, o + 1>>)
             /\ Past(<<q, o>>) <= NrPages
             /\ \A x \in Nat : Covers(<<p, o + 1>>, x)
                                 <=> Covers(<<p, o>>, x) \/ Covers(<<q, o>>, x)
<1> DEFINE q == p + Size[o]
<1>1. Size[o] \in Nat \ {0} /\ o + 1 \in Order /\ Size[o + 1] = 2 * Size[o]
  BY SizePositive, SizeDouble
<1>2. p \in Nat /\ q \in Nat /\ q \in Page /\ p < q
  BY <1>1, PagesAssumption DEF Page
<1>3. Divides(Size[o], p) /\ Divides(Size[o], q)
  <2>1. Divides(Size[o], p) /\ Divides(Size[o], Size[o])
    BY <1>1, <1>2, DividesHalf, DividesSelf
  <2> QED BY <1>1, <1>2, <2>1, DividesSum
<1> HIDE DEF q
<1>4. Past(<<p, o>>) = q /\ Past(<<q, o>>) = p + 2 * Size[o] /\ Past(<<p, o + 1>>) = p + 2 * Size[o]
  BY <1>1, <1>2 DEF Past, q
<1>5. Aligned(<<p, o>>) /\ Aligned(<<q, o>>) /\ Aligned(<<p, o + 1>>)
  BY <1>1, <1>3 DEF Aligned
<1>6. Apart(<<p, o>>, <<q, o>>)
  BY <1>2, <1>4 DEF Apart
<1>7. ASSUME NEW x \in Nat
      PROVE  Covers(<<p, o + 1>>, x) <=> Covers(<<p, o>>, x) \/ Covers(<<q, o>>, x)
  <2> DEFINE z == p + 2 * Size[o]
  <2>1. z \in Nat /\ q < z
    BY <1>1, <1>2 DEF q
  <2> HIDE DEF z
  <2>2. Past(<<p, o>>) = q /\ Past(<<q, o>>) = z /\ Past(<<p, o + 1>>) = z
    BY <1>4 DEF z
  <2> QED BY <1>2, <2>1, <2>2 DEF Covers
<1>8. Past(<<q, o>>) = Past(<<p, o + 1>>) /\ Past(<<q, o>>) <= NrPages
  BY <1>4
<1> QED BY <1>1, <1>2, <1>4, <1>5, <1>6, <1>7, <1>8 DEF q

\* reduce: a block is split into its halves.
LEMMA Split ==
  ASSUME NEW B, NEW n \in Nat, n <= NrPages, Tiles(B, n),
         NEW p, NEW o \in Order, o # MaxOrder, <<p, o + 1>> \in B
  PROVE  Tiles((B \ {<<p, o + 1>>}) \cup {<<p, o>>, <<p + Size[o], o>>}, n)
<1> DEFINE q == p + Size[o]
           b == <<p, o + 1>>
           New == {<<p, o>>, <<q, o>>}
<1>1. /\ b \in Page \X Order /\ p \in Page /\ o + 1 \in Order
      /\ Aligned(b) /\ Past(b) <= n /\ Size[o + 1] = 2 * Size[o] /\ Size[o] \in Nat
  <2>1. b \in Page \X Order /\ Aligned(b) /\ Past(b) <= n
    BY DEF Tiles
  <2> QED BY <2>1, SizeDouble, SizePositive
<1>2. Divides(2 * Size[o], p) /\ p + 2 * Size[o] <= NrPages
  <2>1. p + 2 * Size[o] <= n /\ p \in Nat
    BY <1>1 DEF Past, Page
  <2> QED BY <1>1, <2>1, PagesAssumption DEF Aligned
<1>3. /\ q \in Page /\ Aligned(<<p, o>>) /\ Aligned(<<q, o>>) /\ Apart(<<p, o>>, <<q, o>>)
      /\ Past(<<p, o>>) = q /\ Past(<<q, o>>) = Past(b) /\ q \in Nat
      /\ \A x \in Nat : Covers(b, x) <=> Covers(<<p, o>>, x) \/ Covers(<<q, o>>, x)
  BY <1>1, <1>2, Halves
<1>4. q <= n
  <2>1. q <= Past(b) /\ Past(b) \in Nat
    BY <1>1, <1>3 DEF Past
  <2> QED BY <1>1, <1>3, <2>1
<1> HIDE DEF q, b
<1>5. New \in SUBSET (Page \X Order)
  BY <1>1, <1>3
<1>6. \A c \in New : Aligned(c) /\ Past(c) <= n
  BY <1>1, <1>3, <1>4
<1>7. \A c, d \in New : c = d \/ Apart(c, d)
  BY <1>3 DEF Apart
<1>8. \A x \in Nat : (\E c \in {b} : Covers(c, x)) <=> (\E c \in New : Covers(c, x))
  BY <1>3
<1>9. {b} \in SUBSET B
  BY DEF b
<1> HIDE DEF New
<1>10. Tiles((B \ {b}) \cup New, n)
  BY <1>5, <1>6, <1>7, <1>8, <1>9, Replace
<1> QED BY <1>10 DEF New, b, q

\* expand: two buddies become one block.
LEMMA Join ==
  ASSUME NEW B, NEW n \in Nat, n <= NrPages, Tiles(B, n),
         NEW p, NEW o \in Order, o # MaxOrder, Divides(2 * Size[o], p),
         <<p, o>> \in B, <<p + Size[o], o>> \in B
  PROVE  Tiles((B \ {<<p, o>>, <<p + Size[o], o>>}) \cup {<<p, o + 1>>}, n)
<1> DEFINE q == p + Size[o]
           b == <<p, o + 1>>
           Old == {<<p, o>>, <<q, o>>}
<1>1. /\ p \in Page /\ p \in Nat /\ Size[o] \in Nat
      /\ <<q, o>> \in Page \X Order /\ Past(<<q, o>>) <= n /\ q \in Nat
  <2>1. <<p, o>> \in Page \X Order /\ <<q, o>> \in Page \X Order /\ Past(<<q, o>>) <= n
    BY DEF Tiles
  <2> QED BY <2>1, SizePositive DEF Page
<1>2. p + 2 * Size[o] <= NrPages
  <2>1. q + Size[o] <= n
    BY <1>1 DEF Past
  <2> QED BY <1>1, <2>1, PagesAssumption
<1>3. /\ o + 1 \in Order /\ Aligned(b) /\ Past(<<q, o>>) = Past(b)
      /\ \A x \in Nat : Covers(b, x) <=> Covers(<<p, o>>, x) \/ Covers(<<q, o>>, x)
  BY <1>1, <1>2, Halves
<1>4. b \in Page \X Order
  BY <1>1, <1>3
<1>5. Old \in SUBSET B
  OBVIOUS
<1> HIDE DEF q, b
<1>6. \A x \in Nat : (\E c \in Old : Covers(c, x)) <=> (\E c \in {b} : Covers(c, x))
  BY <1>3
<1>7. {b} \in SUBSET (Page \X Order) /\ \A c \in {b} : Aligned(c) /\ Past(c) <= n
  BY <1>1, <1>3, <1>4
<1>8. \A c, d \in {b} : c = d \/ Apart(c, d)
  OBVIOUS
<1> HIDE DEF Old
<1>9. Tiles((B \ Old) \cup {b}, n)
  BY <1>5, <1>6, <1>7, <1>8, Replace
<1> QED BY <1>9 DEF Old, b, q

\* _build_zone_buddy_system: the next block starts where the last one ends.
LEMMA Extend ==
  ASSUME NEW B, NEW n \in Nat, Tiles(B, n), NEW o \in Order,
         n + Size[o] <= NrPages, Divides(Size[o], n)
  PROVE  Tiles(B \cup {<<n, o>>}, n + Size[o])
<1> DEFINE m == n + Size[o]
           b == <<n, o>>
<1>1. Size[o] \in Nat \ {0} /\ m \in Nat /\ n < m /\ n \in Page
  BY SizePositive, PagesAssumption DEF Page
<1>2. Past(b) = m /\ Aligned(b) /\ b \in Page \X Order
  BY <1>1 DEF Past, Aligned
<1>3. \A c \in B : Past(c) <= n /\ Past(c) \in Nat
  BY BlockType DEF Tiles
<1> HIDE DEF m
<1>4. \A c \in B : Apart(b, c) /\ Apart(c, b)
  BY <1>3 DEF Apart
<1>5. \A c \in B \cup {b} : Aligned(c) /\ Past(c) <= m
  BY <1>1, <1>2, <1>3 DEF Tiles
<1>6. \A x \in 0..(m - 1) : \E c \in B \cup {b} : Covers(c, x)
  <2> SUFFICES ASSUME NEW x \in 0..(m - 1) PROVE \E c \in B \cup {b} : Covers(c, x)
    OBVIOUS
  <2>1. CASE x < n
    <3>1. x \in 0..(n - 1)
      BY <1>1, <2>1
    <3> QED BY <3>1 DEF Tiles
  <2>2. CASE n <= x
    <3>1. Covers(b, x)
      BY <1>1, <1>2, <2>2 DEF Covers
    <3> QED BY <3>1
  <2> QED BY <1>1, <2>1, <2>2
<1> HIDE DEF b
<1>7. \A c, d \in B \cup {b} : c = d \/ Apart(c, d)
  BY <1>4 DEF Tiles
<1>8. B \cup {b} \subseteq Page \X Order
  BY <1>2 DEF Tiles
<1>9. Tiles(B \cup {b}, m)
  BY <1>5, <1>6, <1>7, <1>8 DEF Tiles
<1> QED BY <1>9 DEF b, m
-----------------------------------------------------------------------------
(* The free lists as a set of blocks *)

FreeOf(fa) == UNION {{<<p, o>> : p \in ToSet(fa[o])} : o \in Order}
Lists(fa) == fa \in [Order -> Seq(Page)] /\ \A o \in Order : Linked(fa[o])

LEMMA FreeIn ==
  ASSUME NEW fa, Lists(fa)
  PROVE  /\ FreeOf(fa) \subseteq Page \X Order
         /\ \A o \in Order : ToSet(fa[o]) \subseteq Page
         /\ \A b \in Page \X Order : b \in FreeOf(fa) <=> b[1] \in ToSet(fa[b[2]])
<1>1. \A o \in Order : ToSet(fa[o]) \subseteq Page
  BY ToSetElements DEF Lists
<1> QED BY <1>1 DEF FreeOf

\* A change of one list, by its effect on the entries.
LEMMA FreeChange ==
  ASSUME NEW fa, Lists(fa), NEW o \in Order, NEW l \in Seq(Page), Linked(l)
  PROVE  /\ Lists([fa EXCEPT ![o] = l])
         /\ \A b \in Page \X Order :
              b \in FreeOf([fa EXCEPT ![o] = l])
                <=> IF b[2] = o THEN b[1] \in ToSet(l) ELSE b \in FreeOf(fa)
<1> DEFINE ga == [fa EXCEPT ![o] = l]
<1>1. ga \in [Order -> Seq(Page)] /\ ga[o] = l /\ \A m \in Order : m # o => ga[m] = fa[m]
  BY DEF Lists
<1> HIDE DEF ga
<1>2. Lists(ga)
  <2>1. \A m \in Order : Linked(ga[m])
    BY <1>1 DEF Lists
  <2> QED BY <1>1, <2>1 DEF Lists
<1>3. \A b \in Page \X Order : /\ b \in FreeOf(ga) <=> b[1] \in ToSet(ga[b[2]])
                               /\ b \in FreeOf(fa) <=> b[1] \in ToSet(fa[b[2]])
  BY <1>2, FreeIn
<1>4. ASSUME NEW b \in Page \X Order
      PROVE  b \in FreeOf(ga) <=> IF b[2] = o THEN b[1] \in ToSet(l) ELSE b \in FreeOf(fa)
  BY <1>1, <1>3
<1> QED BY <1>2, <1>4 DEF ga

\* list_add of a block to its free list.
LEMMA FreePut ==
  ASSUME NEW fa, Lists(fa), NEW p \in Page, NEW o \in Order, <<p, o>> \notin FreeOf(fa)
  PROVE  LET ga == [fa EXCEPT ![o] = list_add(p, fa[o])]
         IN  Lists(ga) /\ FreeOf(ga) = FreeOf(fa) \cup {<<p, o>>}
<1> DEFINE l == list_add(p, fa[o])
           ga == [fa EXCEPT ![o] = l]
<1>1. fa[o] \in Seq(Page) /\ Linked(fa[o]) /\ p \notin ToSet(fa[o])
  BY FreeIn DEF Lists
<1>2. l \in Seq(Page) /\ Linked(l) /\ ToSet(l) = ToSet(fa[o]) \cup {p}
  BY <1>1, ListAdd
<1> HIDE DEF l
<1>3. /\ Lists(ga)
      /\ \A b \in Page \X Order :
           b \in FreeOf(ga) <=> IF b[2] = o THEN b[1] \in ToSet(l) ELSE b \in FreeOf(fa)
  BY <1>2, FreeChange
<1> HIDE DEF ga
<1>4. FreeOf(ga) \subseteq Page \X Order /\ FreeOf(fa) \subseteq Page \X Order
  BY <1>3, FreeIn
<1>5. \A b \in Page \X Order : b[2] = o => (b \in FreeOf(fa) <=> b[1] \in ToSet(fa[o]))
  BY FreeIn
<1>6. \A b \in Page \X Order : b = <<p, o>> <=> b[1] = p /\ b[2] = o
  OBVIOUS
<1>7. \A b \in Page \X Order : b \in FreeOf(ga) <=> b \in FreeOf(fa) \cup {<<p, o>>}
  BY <1>2, <1>3, <1>5, <1>6
<1>8. FreeOf(ga) = FreeOf(fa) \cup {<<p, o>>}
  BY <1>4, <1>7
<1> QED BY <1>3, <1>8 DEF ga, l

\* A block leaves its free list (remove_from_free_area, pop_from_free_area).
LEMMA FreeTake ==
  ASSUME NEW fa, Lists(fa), NEW p \in Page, NEW o \in Order, NEW l \in Seq(Page),
         Linked(l), \A q \in Page : q \in ToSet(l) <=> q \in ToSet(fa[o]) /\ q # p
  PROVE  /\ Lists([fa EXCEPT ![o] = l])
         /\ FreeOf([fa EXCEPT ![o] = l]) = FreeOf(fa) \ {<<p, o>>}
<1> DEFINE ga == [fa EXCEPT ![o] = l]
<1>1. /\ Lists(ga)
      /\ \A b \in Page \X Order :
           b \in FreeOf(ga) <=> IF b[2] = o THEN b[1] \in ToSet(l) ELSE b \in FreeOf(fa)
  BY FreeChange
<1> HIDE DEF ga
<1>2. FreeOf(ga) \subseteq Page \X Order /\ FreeOf(fa) \subseteq Page \X Order
  BY <1>1, FreeIn
<1>3. \A b \in Page \X Order : b[2] = o => (b \in FreeOf(fa) <=> b[1] \in ToSet(fa[o]))
  BY FreeIn
<1>4. \A b \in Page \X Order : b = <<p, o>> <=> b[1] = p /\ b[2] = o
  OBVIOUS
<1>5. \A b \in Page \X Order : b \in FreeOf(ga) <=> b \in FreeOf(fa) \ {<<p, o>>}
  BY <1>1, <1>3, <1>4
<1>6. FreeOf(ga) = FreeOf(fa) \ {<<p, o>>}
  BY <1>2, <1>5
<1> QED BY <1>1, <1>6 DEF ga

LEMMA FreePop ==
  ASSUME NEW fa, Lists(fa), NEW o \in Order, fa[o] # <<>>
  PROVE  LET p == Head(fa[o])
             ga == [fa EXCEPT ![o] = Tail(fa[o])]
         IN  /\ p \in Page /\ <<p, o>> \in FreeOf(fa)
             /\ Lists(ga) /\ FreeOf(ga) = FreeOf(fa) \ {<<p, o>>}
<1> DEFINE p == Head(fa[o])
           l == Tail(fa[o])
<1>1. fa[o] \in Seq(Page) /\ Linked(fa[o])
  BY DEF Lists
<1>2. /\ p \in ToSet(fa[o]) /\ p \in Page
      /\ l \in Seq(Page) /\ Linked(l) /\ ToSet(l) = ToSet(fa[o]) \ {p}
  BY <1>1, ListPop
<1> HIDE DEF p, l
<1>3. <<p, o>> \in FreeOf(fa)
  BY <1>2, FreeIn
<1>4. \A q \in Page : q \in ToSet(l) <=> q \in ToSet(fa[o]) /\ q # p
  BY <1>2
<1>5. Lists([fa EXCEPT ![o] = l]) /\ FreeOf([fa EXCEPT ![o] = l]) = FreeOf(fa) \ {<<p, o>>}
  BY <1>2, <1>4, FreeTake, ZenonT(60)
<1> QED BY <1>2, <1>3, <1>5 DEF p, l

-----------------------------------------------------------------------------
(* The invariant *)

\* The pages below Reached belong to blocks: during the build those that
\* build_zone_buddy_system has passed, later all of them.
Reached == IF op.pc = "build" THEN op.page ELSE NrPages

\* A block is free, handed out or in work: only one of the three.
OneOwner ==
  /\ FreeBlocks \cap held = {}
  /\ OpBlock \cap (FreeBlocks \cup held) = {}

\* The build goes from large blocks to small ones: whatever still fits is
\* aligned where the build has got to, and no block could have been larger.
BuildInv ==
  op.pc = "build" =>
    /\ held = {}
    /\ \A o \in Order : Size[o] <= NrPages - op.page => Divides(Size[o], op.page)
    /\ \A b \in FreeBlocks : b[2] # MaxOrder => NrPages - b[1] < Size[b[2] + 1]

\* Two free blocks are never buddies.
NoBuddies ==
  \A b, c \in FreeBlocks :
    (b[2] = c[2] /\ b[2] # MaxOrder /\ c[1] = Past(b)) => ~ Divides(2 * Size[b[2]], b[1])

BuddyInv ==
  /\ TypeOK
  /\ Lists(free_area)
  /\ Tiles(Blocks, Reached)
  /\ OneOwner
  /\ FlagsAgree
  /\ BuildInv
  /\ NoBuddies
  /\ op.pc = "reduce" => op.want <= op.order

LEMMA Facts ==
  ASSUME BuddyInv
  PROVE  /\ FreeBlocks = FreeOf(free_area)
         /\ FreeBlocks \subseteq Page \X Order /\ Blocks \subseteq Page \X Order
         /\ FreeBlocks \subseteq Blocks /\ held \subseteq Blocks /\ OpBlock \subseteq Blocks
         /\ Reached \in Nat /\ Reached <= NrPages /\ NrPages \in Nat
         /\ private = {b[1] : b \in Blocks} /\ used = {b[1] : b \in held}
<1>1. FreeBlocks = FreeOf(free_area)
  BY DEF FreeBlocks, FreeOf
<1>2. FreeBlocks \subseteq Page \X Order
  BY <1>1, FreeIn DEF BuddyInv
<1>3. Reached \in Nat /\ Reached <= NrPages
  BY PagesAssumption DEF BuddyInv, TypeOK, Op, Reached
<1> QED BY <1>1, <1>2, <1>3, PagesAssumption DEF BuddyInv, Tiles, Blocks, FlagsAgree

\* The block in work.
LEMMA InWork ==
  ASSUME BuddyInv, op.pc \in {"reduce", "merge"}
  PROVE  /\ OpBlock = {<<op.page, op.order>>} /\ <<op.page, op.order>> \in Blocks
         /\ <<op.page, op.order>> \notin FreeBlocks \cup held
         /\ op.page \in Page /\ op.page \in Nat /\ op.order \in Order
         /\ Aligned(<<op.page, op.order>>) /\ Past(<<op.page, op.order>>) <= NrPages
         /\ op \in Op /\ Tiles(Blocks, NrPages) /\ Reached = NrPages
<1>1. OpBlock = {<<op.page, op.order>>} /\ Reached = NrPages
  BY DEF OpBlock, Reached
<1>2. <<op.page, op.order>> \in Blocks /\ <<op.page, op.order>> \in Page \X Order
  BY <1>1, Facts
<1> QED BY <1>1, <1>2 DEF BuddyInv, OneOwner, Tiles, TypeOK, Page

\* While the zone is built, and between operations, no block is in work.
LEMMA NoWork ==
  ASSUME BuddyInv, op.pc \notin {"reduce", "merge"}
  PROVE  OpBlock = {} /\ Blocks = FreeBlocks \cup held
  BY DEF OpBlock, Blocks

LEMMA BuddyTiling ==
  ASSUME BuddyInv
  PROVE  Tiling
<1>1. \A b \in Blocks : b[1] % Size[b[2]] = 0
  BY DEF BuddyInv, Tiles, Aligned, Divides
<1>2. ASSUME NEW b \in Blocks, NEW c \in Blocks, b # c
      PROVE  Pages(b[1], b[2]) \cap Pages(c[1], c[2]) = {}
  <2>1. b \in Page \X Order /\ c \in Page \X Order
    BY Facts
  <2>2. /\ b[1] \in Nat /\ c[1] \in Nat /\ Past(b) \in Nat /\ Past(c) \in Nat
        /\ Pages(b[1], b[2]) = b[1] .. (Past(b) - 1)
        /\ Pages(c[1], c[2]) = c[1] .. (Past(c) - 1)
    BY SMTT(30), <2>1, BlockType DEF Pages, Past
  <2>3. Past(b) <= c[1] \/ Past(c) <= b[1]
    BY <1>2 DEF BuddyInv, Tiles, Apart
  <2> QED BY <2>2, <2>3
<1>3. UNION {Pages(b[1], b[2]) : b \in Blocks} = 0 .. (Reached - 1)
  <2>1. ASSUME NEW b \in Blocks
        PROVE  /\ \A x : x \in Pages(b[1], b[2]) <=> x \in Int /\ Covers(b, x)
               /\ b[1] \in Nat /\ Past(b) \in Nat /\ Past(b) <= Reached
    <3>1. b \in Page \X Order
      BY Facts
    <3>2. /\ b[1] \in Nat /\ Past(b) \in Nat
          /\ Pages(b[1], b[2]) = b[1] .. (Past(b) - 1)
      BY <3>1, BlockType DEF Pages, Past
    <3> QED BY <3>2 DEF BuddyInv, Tiles, Covers
  <2>2. ASSUME NEW x \in 0 .. (Reached - 1)
        PROVE  \E b \in Blocks : x \in Pages(b[1], b[2])
    <3>1. PICK b \in Blocks : Covers(b, x)
      BY DEF BuddyInv, Tiles
    <3> QED BY <2>1, <3>1
  <2>3. ASSUME NEW b \in Blocks, NEW x \in Pages(b[1], b[2])
        PROVE  x \in 0 .. (Reached - 1)
    <3>1. /\ x \in Int /\ b[1] <= x /\ x < Past(b) /\ Reached \in Nat
          /\ b[1] \in Nat /\ Past(b) \in Nat /\ Past(b) <= Reached
      BY <2>1, Facts DEF Covers
    <3> QED BY <3>1
  <2> QED BY <2>2, <2>3
<1>4. \A o \in Order : Linked(free_area[o])
  BY DEF BuddyInv, Lists
<1> QED BY <1>1, <1>2, <1>3, <1>4 DEF Tiling, Reached

\* Between operations an aligned run of free pages lies in one free block: the
\* two halves of the smallest that did not would be two free buddies.
LEMMA BuddyMerged ==
  ASSUME BuddyInv
  PROVE  FullyMerged
<1> DEFINE Run(p, o) ==
             /\ p % Size[o] = 0 /\ p + Size[o] <= NrPages
             /\ \A b \in held : Pages(b[1], b[2]) \cap Pages(p, o) = {}
           Found(p, o) == \E b \in FreeBlocks : Pages(p, o) \subseteq Pages(b[1], b[2])
           T == {o \in Order : \E p \in Page : Run(p, o) /\ ~ Found(p, o)}
<1>1. SUFFICES ASSUME op.pc = "none", T # {} PROVE FALSE
  BY DEF FullyMerged
<1>2. T \in SUBSET Nat
  BY DEF Order
<1>3. PICK o \in T : \A n \in T : o <= n
  BY <1>1, <1>2, LeastNumber
<1>4. PICK p \in Page : Run(p, o) /\ ~ Found(p, o)
  OBVIOUS
<1>5. /\ o \in Order /\ o \in Nat /\ p \in Nat /\ Size[o] \in Nat \ {0}
      /\ Pages(p, o) = p .. (p + Size[o] - 1)
  BY SizePositive DEF Order, Page, Pages
<1>6. \A b \in Page \X Order :
        /\ b[1] \in Nat /\ b[2] \in Order /\ Past(b) \in Nat /\ b[1] < Past(b)
        /\ Pages(b[1], b[2]) = b[1] .. (Past(b) - 1)
  BY BlockType DEF Pages, Past
<1>7. CASE o = 0
  <2>1. Size[o] = 1 /\ p \in 0 .. (NrPages - 1)
    BY <1>7, SizeAssumption DEF Page
  <2>2. Tiles(Blocks, NrPages) /\ Blocks = FreeBlocks \cup held
    BY <1>1, NoWork DEF BuddyInv, Reached
  <2>3. PICK b \in Blocks : Covers(b, p)
    BY <2>1, <2>2 DEF Tiles
  <2>4. b \in Page \X Order
    BY Facts
  <2>5. p \in Pages(b[1], b[2]) /\ Pages(p, o) = {p}
    BY <1>5, <1>6, <2>1, <2>3, <2>4 DEF Covers
  <2>6. b \notin held
    BY <1>4, <2>5
  <2> QED BY <1>4, <2>2, <2>5, <2>6
<1>8. CASE o # 0
  <2> DEFINE h == o - 1
             s == Size[h]
             q == p + s
             L == <<p, h>>
             U == <<q, h>>
             P == <<p, o>>
  <2>1. h \in Order /\ Size[o] = 2 * s /\ s \in Nat \ {0} /\ h # MaxOrder /\ h + 1 = o
    BY <1>5, <1>8, SizeDouble, SizePositive DEF Order
  <2>2. Divides(2 * s, p) /\ p + 2 * s <= NrPages
    BY <1>4, <2>1 DEF Divides
  <2> HIDE DEF h, s
  <2>3. /\ q \in Page /\ p \in Nat /\ q \in Nat
        /\ Aligned(L) /\ Aligned(U) /\ Aligned(P)
        /\ Past(L) = q /\ Past(U) = Past(P) /\ Past(U) <= NrPages /\ q = p + s
    BY <2>1, <2>2, Halves DEF s
  <2>4. Past(U) = q + s /\ Past(P) = p + 2 * s /\ Past(L) = p + s
    BY <2>1 DEF Past, s
  <2> HIDE DEF q
  <2>5. /\ Pages(p, h) = p .. (p + s - 1) /\ Pages(q, h) = q .. (q + s - 1)
        /\ Pages(p, h) \subseteq Pages(p, o) /\ Pages(q, h) \subseteq Pages(p, o)
        /\ p \in Pages(p, h) /\ q \in Pages(q, h)
        /\ Past(L) - 1 \in Pages(p, h) /\ Past(U) - 1 \in Pages(q, h)
    BY <1>5, <2>1, <2>3, <2>4 DEF Pages, s
  <2>6. Run(p, h) /\ Run(q, h)
    <3>1. p % Size[h] = 0 /\ q % Size[h] = 0
      BY <2>3 DEF Aligned, Divides
    <3>2. p + Size[h] <= NrPages /\ q + Size[h] <= NrPages
      <4>1. q + s <= NrPages /\ p + s <= q + s
        BY <2>1, <2>3, <2>4
      <4> QED BY <2>1, <2>3, <4>1, PagesAssumption DEF s
    <3>3. \A b \in held : /\ Pages(b[1], b[2]) \cap Pages(p, h) = {}
                          /\ Pages(b[1], b[2]) \cap Pages(q, h) = {}
      BY <1>4, <2>5
    <3> QED BY <3>1, <3>2, <3>3
  <2>7. h \notin T
    <3>1. h \in T => o <= h
      BY <1>3
    <3>2. ~ (o <= h)
      BY <1>5, <2>1 DEF Order
    <3> QED BY <3>1, <3>2
  <2>8. Found(p, h) /\ Found(q, h)
    BY <2>1, <2>3, <2>6, <2>7
  <2>9. ASSUME NEW b \in FreeBlocks, NEW x \in {L, U},
               Pages(x[1], h) \subseteq Pages(b[1], b[2])
        PROVE  b = x
    <3>1. b \in Page \X Order /\ b \in Blocks /\ Aligned(b)
      BY Facts DEF BuddyInv, Tiles
    <3>2. x \in Page \X Order /\ Aligned(x) /\ x[1] \in Nat /\ x[2] = h /\ Past(x) = x[1] + s
      BY <2>1, <2>3, <2>4
    <3>3. x[1] \in Pages(x[1], h) /\ Past(x) - 1 \in Pages(x[1], h)
      <4>1. CASE x = L
        BY <2>5, <4>1
      <4>2. CASE x = U
        BY <2>5, <4>2
      <4> QED BY <4>1, <4>2
    <3>4. b[1] <= x[1] /\ Past(x) <= Past(b)
      <4>1. x[1] \in Pages(b[1], b[2]) /\ Past(x) - 1 \in Pages(b[1], b[2])
        BY <2>9, <3>3, Zenon
      <4>2. b[1] \in Nat /\ Past(b) \in Nat /\ Pages(b[1], b[2]) = b[1] .. (Past(b) - 1)
        BY <1>6, <3>1
      <4>3. Past(x) \in Nat
        BY <2>1, <3>2
      <4> QED BY <4>1, <4>2, <4>3
    <3>5. ~ (b[2] >= o)
      <4>1. SUFFICES ASSUME b[2] >= o PROVE FALSE
        OBVIOUS
      <4>2. P \in Page \X Order /\ Aligned(P) /\ P[1] = p /\ P[2] = o
        BY <1>5, <2>3
      <4>3. Apart(P, b) \/ (b[1] <= P[1] /\ Past(P) <= Past(b))
        BY <3>1, <4>1, <4>2, Nested
      <4>4. ~ Apart(P, b)
        <5>1. p <= x[1] /\ x[1] < Past(P)
          BY <2>1, <2>3, <2>4
        <5>2. b[1] \in Nat /\ Past(b) \in Nat /\ x[1] < Past(x) /\ Past(x) \in Nat /\ Past(P) \in Nat
          BY <1>6, <2>1, <2>3, <2>4, <3>1, <3>2
        <5> QED BY <3>2, <3>4, <4>2, <5>1, <5>2, <2>3 DEF Apart
      <4>5. b[1] <= p /\ Past(P) <= Past(b)
        BY <4>2, <4>3, <4>4
      <4>6. Pages(p, o) \subseteq Pages(b[1], b[2])
        <5>1. /\ b[1] \in Nat /\ Past(b) \in Nat /\ Past(P) \in Nat
              /\ Pages(b[1], b[2]) = b[1] .. (Past(b) - 1)
          BY <1>5, <1>6, <2>1, <2>4, <3>1
        <5>2. Pages(p, o) = p .. (Past(P) - 1)
          BY <1>5, <2>1, <2>4
        <5>3. ASSUME NEW y \in p .. (Past(P) - 1) PROVE y \in b[1] .. (Past(b) - 1)
          BY <1>5, <4>5, <5>1
        <5> QED BY <5>1, <5>2, <5>3
      <4> QED BY <1>4, <4>6
    <3>6. ~ (b[2] < h)
      <4>1. SUFFICES ASSUME b[2] < h PROVE FALSE
        OBVIOUS
      <4>2. 2 * Size[b[2]] <= s /\ Size[b[2]] \in Nat \ {0}
        <5>1. b[2] \in Order /\ b[2] <= h
          BY <1>6, <2>1, <3>1, <4>1 DEF Order
        <5> QED BY <2>1, <4>1, <5>1, SizeDivides, SizePositive DEF s
      <4>3. Past(b) = b[1] + Size[b[2]] /\ b[1] \in Nat
        BY <1>6, <3>1 DEF Past
      <4> QED BY <2>1, <3>2, <3>4, <4>2, <4>3
    <3>7. b[2] = h
      BY <1>6, <2>1, <3>1, <3>5, <3>6 DEF Order
    <3>8. Past(b) = b[1] + s /\ b[1] \in Nat
      BY <1>6, <3>1, <3>7 DEF Past, s
    <3>9. b[1] = x[1]
      BY <2>1, <3>2, <3>4, <3>8
    <3> QED BY <3>1, <3>2, <3>7, <3>9, BlockType
  <2>10. L \in FreeBlocks /\ U \in FreeBlocks
    <3>1. PICK b \in FreeBlocks : Pages(p, h) \subseteq Pages(b[1], b[2])
      BY <2>8
    <3>2. PICK c \in FreeBlocks : Pages(q, h) \subseteq Pages(c[1], c[2])
      BY <2>8
    <3>3. b = L /\ c = U
      BY <2>9, <3>1, <3>2
    <3> QED BY <3>3
  <2>11. ~ Divides(2 * Size[h], p)
    <3>1. L[2] = U[2] /\ L[2] # MaxOrder /\ U[1] = Past(L) /\ L[1] = p /\ L[2] = h
      BY <2>1, <2>3
    <3> QED BY <2>10, <3>1 DEF BuddyInv, NoBuddies
  <2> QED BY <2>2, <2>11 DEF s
<1> QED BY <1>7, <1>8
-----------------------------------------------------------------------------
(* The steps *)

LEMMA BuddyInit ==
  ASSUME Init
  PROVE  BuddyInv
<1>1. /\ free_area = [o \in Order |-> <<>>] /\ private = {} /\ used = {} /\ held = {}
      /\ op = [pc |-> "build", page |-> 0, order |-> 0, want |-> 0]
  BY DEF Init, NoOp
<1>2. op \in Op
  BY <1>1, SizeAssumption, PagesAssumption DEF Op, Order
<1>3. TypeOK
  BY <1>1, <1>2 DEF TypeOK
<1>4. Lists(free_area) /\ \A o \in Order : ToSet(free_area[o]) = {}
  BY <1>1 DEF Lists, Linked, ToSet
<1>5. FreeBlocks = {} /\ OpBlock = {} /\ Blocks = {}
  BY <1>1, <1>4 DEF FreeBlocks, OpBlock, Blocks
<1>6. Tiles(Blocks, Reached)
  BY <1>1, <1>5 DEF Tiles, Reached
<1>7. BuildInv
  <2>1. \A o \in Order : Divides(Size[o], 0)
    BY SizePositive, DividesSelf
  <2> QED BY <1>1, <1>5, <2>1 DEF BuildInv
<1>8. OneOwner /\ FlagsAgree /\ NoBuddies
  BY <1>1, <1>5 DEF OneOwner, FlagsAgree, NoBuddies
<1> QED BY <1>1, <1>3, <1>4, <1>6, <1>7, <1>8 DEF BuddyInv

LEMMA BuildInvStep ==
  ASSUME BuddyInv, Build
  PROVE  BuddyInv'
<1>1. PICK o \in Order :
        /\ get_order_floor(NrPages - op.page, o)
        /\ private' = private \cup {op.page}
        /\ free_area' = [free_area EXCEPT ![o] = list_add(op.page, @)]
        /\ op' = [op EXCEPT !.page = @ + Size[o]]
  BY DEF Build
<1> DEFINE n == op.page
           s == Size[o]
           N == <<n, o>>
<1>2. op.pc = "build" /\ n < NrPages /\ UNCHANGED <<used, held>> /\ held = {} /\ op \in Op
  BY DEF Build, BuddyInv, BuildInv, TypeOK
<1>3. n \in Nat /\ n \in Page /\ s \in Nat \ {0} /\ n + s <= NrPages /\ NrPages \in Nat
  BY <1>1, <1>2, SizePositive, PagesAssumption DEF Op, Page, get_order_floor
<1>4. op'.pc = "build" /\ op'.page = n + s /\ op' \in Op
  BY <1>1, <1>2, <1>3 DEF Op
<1> HIDE DEF n, s
<1>5. \A m \in Order : Size[m] <= NrPages - n => Divides(Size[m], n)
  BY <1>2 DEF BuddyInv, BuildInv, n
<1>6. \A m \in Order : m > o => NrPages - n < Size[m]
  BY <1>1 DEF get_order_floor, n
<1>7. Blocks = FreeBlocks /\ OpBlock = {} /\ Reached = n /\ Reached' = n + s /\ OpBlock' = {}
  BY <1>2, <1>4 DEF Blocks, OpBlock, Reached, n
<1>8. Tiles(FreeBlocks, n) /\ Lists(free_area) /\ FreeBlocks = FreeOf(free_area)
  BY <1>7, Facts DEF BuddyInv
<1>9. \A b \in FreeBlocks : b \in Page \X Order /\ Past(b) <= n
  BY <1>8 DEF Tiles
<1>10. \A b \in FreeBlocks : b[1] \in Nat /\ b[2] \in Order /\ Past(b) \in Nat /\ b[1] < Past(b)
  BY <1>9, BlockType
<1>11. N \notin FreeBlocks
  BY <1>3, <1>9, <1>10
<1>12. FreeBlocks' = FreeBlocks \cup {N} /\ Lists(free_area)'
  <2> DEFINE ga == [free_area EXCEPT ![o] = list_add(n, free_area[o])]
  <2>1. free_area' = ga
    BY <1>1 DEF n
  <2>2. Lists(ga) /\ FreeOf(ga) = FreeOf(free_area) \cup {N}
    BY <1>3, <1>8, <1>11, FreePut
  <2> HIDE DEF ga
  <2>3. FreeBlocks' = FreeOf(free_area')
    BY DEF FreeBlocks, FreeOf
  <2> QED BY <1>8, <2>1, <2>2, <2>3
<1>13. Blocks' = FreeBlocks \cup {N}
  BY <1>2, <1>7, <1>12 DEF Blocks
<1>14. Tiles(Blocks, Reached)'
  <2>1. s <= NrPages - n
    BY <1>3
  <2>2. Divides(Size[o], n)
    BY <1>5, <2>1 DEF s
  <2>3. n + Size[o] <= NrPages
    BY <1>3 DEF s
  <2>4. Tiles(FreeBlocks \cup {N}, n + s)
    BY <1>3, <1>8, <2>2, <2>3, Extend DEF s
  <2> QED BY <1>7, <1>13, <2>4
<1>15. TypeOK'
  <2>1. private' \subseteq Page
    BY <1>1, <1>3 DEF BuddyInv, TypeOK, n
  <2> QED BY <1>2, <1>4, <1>12, <2>1 DEF BuddyInv, TypeOK, Lists
<1>16. OneOwner' /\ FlagsAgree'
  <2>1. private' = private \cup {N[1]} /\ private = {b[1] : b \in FreeBlocks}
    BY <1>1, <1>7, Facts DEF n
  <2>2. used' = {b[1] : b \in held'}
    BY <1>2, Facts
  <2> QED BY <1>2, <1>7, <1>12, <1>13, <2>1, <2>2 DEF OneOwner, FlagsAgree
<1>17. BuildInv'
  <2>1. ASSUME NEW m \in Order, Size[m] <= NrPages - (n + s)
        PROVE  Divides(Size[m], n + s)
    <3>1. Size[m] \in Nat \ {0} /\ Size[m] <= NrPages - n
      BY <1>3, <2>1, SizePositive
    <3>2. m <= o
      BY <1>3, <1>6, <3>1 DEF Order
    <3>3. Divides(Size[m], s) /\ Divides(Size[m], n)
      BY <1>5, <3>1, <3>2, SizeDivides DEF s
    <3> DEFINE d == Size[m]
    <3>4. d \in Nat \ {0} /\ Divides(d, n) /\ Divides(d, s)
      BY <3>1, <3>3
    <3> HIDE DEF d
    <3>5. Divides(d, n + s)
      BY <1>3, <3>4, DividesSum
    <3> QED BY <3>5 DEF d
  <2>2. o # MaxOrder => NrPages - n < Size[o + 1]
    <3>1. o + 1 > o
      BY DEF Order
    <3> QED BY <1>6, <3>1, SizeDouble
  <2>3. \A b \in FreeBlocks : b[2] # MaxOrder => NrPages - b[1] < Size[b[2] + 1]
    BY <1>2 DEF BuddyInv, BuildInv
  <2>4. \A b \in FreeBlocks' : b[2] # MaxOrder => NrPages - b[1] < Size[b[2] + 1]
    BY <1>12, <2>2, <2>3
  <2> QED BY <1>2, <1>4, <2>1, <2>4 DEF BuildInv
<1>18. NoBuddies'
  <2> SUFFICES ASSUME NEW b \in FreeBlocks', NEW c \in FreeBlocks',
                      b[2] = c[2], b[2] # MaxOrder, c[1] = Past(b)
               PROVE  ~ Divides(2 * Size[b[2]], b[1])
    BY DEF NoBuddies
  <2>1. CASE b \in FreeBlocks /\ c \in FreeBlocks
    BY <2>1 DEF BuddyInv, NoBuddies
  <2>2. CASE b \in FreeBlocks /\ c = N
    <3>1. n = b[1] + s /\ b[2] = o /\ b[1] \in Nat
      BY <1>10, <2>2 DEF Past, s
    <3>2. NrPages - b[1] < Size[o + 1] /\ Size[o + 1] = 2 * s
      BY <1>2, <2>2, <3>1, SizeDouble DEF BuddyInv, BuildInv, s
    <3> QED BY <1>3, <3>1, <3>2
  <2>3. CASE b = N
    <3>1. c[1] = n + s /\ c \in FreeBlocks
      BY <1>3, <1>12, <2>3 DEF Past, s
    <3> QED BY <1>3, <1>9, <1>10, <3>1
  <2> QED BY <1>12, <2>1, <2>2, <2>3
<1>19. op'.pc # "reduce"
  BY <1>4
<1> QED BY <1>12, <1>14, <1>15, <1>16, <1>17, <1>18, <1>19 DEF BuddyInv

\* A step that leaves the set of blocks and their flags as they are.
LEMMA SameBlocks ==
  ASSUME BuddyInv, TypeOK', Lists(free_area)', Blocks' = Blocks, Reached' = Reached,
         OneOwner', private' = private, used' = {b[1] : b \in held'},
         op'.pc # "build", NoBuddies', op'.pc = "reduce" => op'.want <= op'.order
  PROVE  BuddyInv'
<1>1. Tiles(Blocks, Reached)'
  BY DEF BuddyInv
<1>2. FlagsAgree'
  BY DEF BuddyInv, FlagsAgree
<1> QED BY <1>1, <1>2 DEF BuddyInv, BuildInv

LEMMA BuildDoneInv ==
  ASSUME BuddyInv, BuildDone
  PROVE  BuddyInv'
<1>1. /\ op.pc = "build" /\ op.page = NrPages /\ op'.pc = "none" /\ op' = NoOp
      /\ UNCHANGED <<free_area, private, used, held>>
  BY DEF BuildDone, NoOp
<1>2. TypeOK'
  <2>1. op' \in Op
    BY <1>1, SizeAssumption, PagesAssumption DEF NoOp, Op, Order
  <2> QED BY <1>1, <2>1 DEF BuddyInv, TypeOK
<1>3. /\ FreeBlocks' = FreeBlocks /\ OpBlock = {} /\ OpBlock' = {} /\ Reached' = Reached
      /\ Blocks' = Blocks
  BY <1>1 DEF FreeBlocks, OpBlock, Reached, Blocks
<1>4. OneOwner' /\ NoBuddies' /\ Lists(free_area)' /\ used' = {b[1] : b \in held'}
  BY <1>1, <1>3, Facts DEF BuddyInv, OneOwner, NoBuddies
<1> QED BY <1>1, <1>2, <1>3, <1>4, SameBlocks

LEMMA AllocInv ==
  ASSUME BuddyInv, NEW order \in Order, alloc_pages(order)
  PROVE  BuddyInv'
<1>1. PICK o \in Order :
        /\ FirstFit(order, o)
        /\ free_area' = [free_area EXCEPT ![o] = Tail(@)]
        /\ op' = [pc |-> "reduce", page |-> Head(free_area[o]),
                  order |-> o, want |-> order]
  BY DEF alloc_pages
<1> DEFINE p == Head(free_area[o])
           P == <<p, o>>
<1>2. op.pc = "none" /\ UNCHANGED <<private, used, held>> /\ OpBlock = {}
  BY DEF alloc_pages, OpBlock
<1>3. free_area[o] # <<>> /\ order <= o
  BY <1>1 DEF FirstFit
<1>4. Lists(free_area) /\ FreeBlocks = FreeOf(free_area)
  BY Facts DEF BuddyInv
<1>5. /\ p \in Page /\ P \in FreeBlocks
      /\ Lists(free_area') /\ FreeOf(free_area') = FreeBlocks \ {P}
  BY <1>1, <1>3, <1>4, FreePop
<1>6. op'.pc = "reduce" /\ op'.page = p /\ op'.order = o /\ op'.want = order
  BY <1>1
<1>7. op' \in Op
  <2>1. p \in 0..NrPages
    BY <1>5, PagesAssumption DEF Page
  <2> HIDE DEF p
  <2>2. op' = [pc |-> "reduce", page |-> p, order |-> o, want |-> order]
    BY <1>1 DEF p
  <2> QED BY <2>1, <2>2 DEF Op
<1> HIDE DEF p
<1>8. FreeBlocks' = FreeBlocks \ {P} /\ Lists(free_area)'
  BY <1>5 DEF FreeBlocks, FreeOf
<1>9. OpBlock' = {P} /\ Reached' = Reached
  BY <1>2, <1>6 DEF OpBlock, Reached
<1>10. Blocks' = Blocks
  BY <1>2, <1>5, <1>8, <1>9 DEF Blocks
<1>11. OneOwner' /\ NoBuddies'
  BY <1>2, <1>5, <1>8, <1>9 DEF BuddyInv, OneOwner, NoBuddies
<1>12. TypeOK'
  BY <1>2, <1>7, <1>8 DEF BuddyInv, TypeOK, Lists
<1>13. used' = {b[1] : b \in held'}
  BY <1>2, Facts
<1> QED BY <1>2, <1>3, <1>6, <1>8, <1>9, <1>10, <1>11, <1>12, <1>13, SameBlocks

LEMMA ReduceInv ==
  ASSUME BuddyInv, reduce
  PROVE  BuddyInv'
<1> DEFINE o == op.order - 1
           p == op.page
           s == Size[o]
           q == p + s
           P == <<p, o + 1>>
           L == <<p, o>>
           U == <<q, o>>
<1>1. /\ op.pc = "reduce" /\ op.order # op.want /\ UNCHANGED <<used, held>>
      /\ private' = private \cup {q}
      /\ free_area' = [free_area EXCEPT ![o] = list_add(q, free_area[o])]
      /\ op' = [op EXCEPT !.order = @ - 1]
  BY DEF reduce
<1>2. /\ OpBlock = {<<op.page, op.order>>} /\ <<op.page, op.order>> \in Blocks
      /\ <<op.page, op.order>> \notin FreeBlocks \cup held
      /\ op.page \in Page /\ op.page \in Nat /\ op.order \in Order
      /\ Aligned(<<op.page, op.order>>) /\ Past(<<op.page, op.order>>) <= NrPages
      /\ op \in Op /\ Tiles(Blocks, NrPages) /\ Reached = NrPages
  BY <1>1, InWork
<1>3. op.want \in Order /\ op.want <= op.order
  BY <1>1, <1>2 DEF BuddyInv, Op
<1>4. op.order # 0 /\ o \in Order /\ o # MaxOrder /\ o + 1 = op.order /\ op.want <= o
  BY <1>1, <1>2, <1>3, SizeAssumption DEF Order
<1>5. op'.pc = "reduce" /\ op'.page = p /\ op'.order = o /\ op'.want = op.want /\ op' \in Op
  BY <1>1, <1>2, <1>4 DEF Op
<1> HIDE DEF o, p
<1>6. p \in Page /\ p \in Nat /\ P \in Blocks /\ P \notin FreeBlocks \cup held /\ OpBlock = {P}
  BY <1>2, <1>4 DEF p
<1>7. /\ s \in Nat \ {0} /\ Size[o + 1] = 2 * s /\ o + 1 \in Order
      /\ Divides(2 * s, p) /\ p + 2 * s <= NrPages
  BY <1>2, <1>4, SizeDouble, SizePositive DEF Aligned, Past, p
<1>8. q \in Page /\ q \in Nat /\ p # q /\ \A x \in Nat : Covers(L, x) \/ Covers(U, x) => Covers(P, x)
  BY <1>4, <1>6, <1>7, Halves
<1>9. Covers(L, p) /\ Covers(U, q)
  BY <1>6, <1>7, <1>8 DEF Covers, Past
<1> HIDE DEF q
<1>10. L \notin Blocks /\ U \notin Blocks
  <2>1. P # L /\ P # U
    BY <1>4 DEF Order
  <2> QED BY <1>2, <1>6, <1>8, <1>9, <2>1, CoversOnce
<1> HIDE DEF s
<1>11. FreeBlocks' = FreeBlocks \cup {U} /\ Lists(free_area)'
  <2> DEFINE ga == [free_area EXCEPT ![o] = list_add(q, free_area[o])]
  <2>1. free_area' = ga
    BY <1>1
  <2>2. Lists(ga) /\ FreeOf(ga) = FreeOf(free_area) \cup {U}
    <3>1. Lists(free_area) /\ U \notin FreeOf(free_area)
      BY <1>10, Facts DEF BuddyInv
    <3> QED BY <1>4, <1>8, <3>1, FreePut
  <2> HIDE DEF ga
  <2>3. FreeBlocks' = FreeOf(free_area') /\ FreeBlocks = FreeOf(free_area)
    BY DEF FreeBlocks, FreeOf
  <2> QED BY <2>1, <2>2, <2>3
<1>12. OpBlock' = {L}
  BY <1>5 DEF OpBlock
<1> HIDE DEF P, L, U
<1>13. Blocks' = (Blocks \ {P}) \cup {L, U} /\ Reached' = NrPages
  <2>1. held' = held
    BY <1>1
  <2> QED BY <1>5, <1>6, <1>11, <1>12, <2>1 DEF Blocks, Reached
<1>14. Tiles(Blocks, Reached)'
  <2>1. Tiles((Blocks \ {P}) \cup {L, U}, NrPages)
    BY <1>2, <1>4, <1>6, PagesAssumption, Split DEF P, L, U, q, s
  <2> QED BY <1>13, <2>1
<1>15. TypeOK'
  <2>1. private' \subseteq Page
    BY <1>1, <1>8 DEF BuddyInv, TypeOK
  <2> QED BY <1>1, <1>5, <1>11, <2>1 DEF BuddyInv, TypeOK, Lists
<1>16. L # U /\ L[1] = p /\ U[1] = q /\ P[1] = p
  BY <1>8 DEF L, U, P
<1>17. OneOwner'
  BY <1>1, <1>10, <1>11, <1>12, <1>16, Facts DEF BuddyInv, OneOwner
<1>18. FlagsAgree'
  <2>1. private' = {b[1] : b \in Blocks'}
    BY <1>1, <1>6, <1>13, <1>16, Facts
  <2>2. used' = {b[1] : b \in held'}
    BY <1>1, Facts
  <2> QED BY <2>1, <2>2 DEF FlagsAgree
<1>19. NoBuddies'
  <2> SUFFICES ASSUME NEW b \in FreeBlocks', NEW c \in FreeBlocks',
                      b[2] = c[2], b[2] # MaxOrder, c[1] = Past(b)
               PROVE  ~ Divides(2 * Size[b[2]], b[1])
    BY DEF NoBuddies
  <2>1. CASE b \in FreeBlocks /\ c \in FreeBlocks
    BY <2>1 DEF BuddyInv, NoBuddies
  <2>2. CASE b \in FreeBlocks /\ c = U
    <3>1. b \in Page \X Order /\ b \in Blocks /\ b[2] = o
      BY <2>2, Facts DEF U
    <3>2. b[1] + s = q /\ b[1] \in Nat
      BY <1>16, <2>2, <3>1, BlockType DEF Past, s
    <3>3. b[1] = p
      BY <1>6, <1>7, <3>2 DEF q
    <3>4. b = L
      BY <3>1, <3>3, BlockType DEF L
    <3> QED BY <1>10, <3>1, <3>4
  <2>3. CASE b = U
    <3>1. b[2] = o /\ b[1] = q
      BY <2>3 DEF U
    <3>2. ~ Divides(2 * s, p + s)
      <4>1. s \in Nat \ {0} /\ p \in Int /\ Divides(2 * s, p)
        BY <1>6, <1>7
      <4>2. Divides(2 * s, p) => ~ Divides(2 * s, p + s)
        BY <4>1, DividesHalf
      <4> QED BY <4>1, <4>2
    <3> QED BY <3>1, <3>2 DEF q, s
  <2> QED BY <1>11, <2>1, <2>2, <2>3
<1>20. BuildInv'
  BY <1>5 DEF BuildInv
<1>21. op'.pc = "reduce" => op'.want <= op'.order
  BY <1>4, <1>5
<1> QED BY <1>11, <1>14, <1>15, <1>17, <1>18, <1>19, <1>20, <1>21 DEF BuddyInv

LEMMA AllocDoneInv ==
  ASSUME BuddyInv, AllocDone
  PROVE  BuddyInv'
<1> DEFINE P == <<op.page, op.order>>
<1>1. /\ op.pc = "reduce" /\ op' = NoOp /\ op'.pc = "none"
      /\ used' = used \cup {op.page} /\ held' = held \cup {P}
      /\ UNCHANGED <<free_area, private>>
  BY DEF AllocDone, NoOp
<1>2. /\ OpBlock = {P} /\ P \in Blocks /\ P \notin FreeBlocks \cup held
      /\ op.page \in Page /\ op.order \in Order /\ Reached = NrPages
  BY <1>1, InWork
<1>3. P \in Page \X Order /\ P[1] = op.page
  BY <1>2
<1> HIDE DEF P
<1>4. FreeBlocks' = FreeBlocks /\ OpBlock' = {} /\ Reached' = Reached
  BY <1>1, <1>2 DEF FreeBlocks, OpBlock, Reached
<1>5. Blocks' = Blocks
  BY <1>1, <1>2, <1>4 DEF Blocks
<1>6. TypeOK'
  <2>1. op' \in Op
    BY <1>1, SizeAssumption, PagesAssumption DEF NoOp, Op, Order
  <2> QED BY <1>1, <1>2, <1>3, <2>1 DEF BuddyInv, TypeOK
<1>7. OneOwner' /\ NoBuddies' /\ Lists(free_area)'
  BY <1>1, <1>2, <1>4 DEF BuddyInv, OneOwner, NoBuddies
<1>8. used' = {b[1] : b \in held'}
  BY <1>1, <1>3, Facts
<1> QED BY <1>1, <1>4, <1>5, <1>6, <1>7, <1>8, SameBlocks

LEMMA DeallocInv ==
  ASSUME BuddyInv, NEW page \in Page, NEW order \in Order, dealloc_pages(page, order)
  PROVE  BuddyInv'
<1> DEFINE P == <<page, order>>
<1>1. /\ op.pc = "none" /\ P \in held /\ used' = used \ {page} /\ held' = held \ {P}
      /\ op' = [pc |-> "merge", page |-> page, order |-> order, want |-> 0]
      /\ UNCHANGED <<free_area, private>>
  BY DEF dealloc_pages
<1>2. FreeBlocks' = FreeBlocks /\ OpBlock = {} /\ OpBlock' = {P} /\ Reached' = Reached
  BY <1>1 DEF FreeBlocks, OpBlock, Reached
<1>3. P[1] = page
  OBVIOUS
<1>4. op'.pc = "merge" /\ op' \in Op
  <2>1. page \in 0..NrPages /\ 0 \in Order
    BY PagesAssumption, SizeAssumption DEF Page, Order
  <2> QED BY <1>1, <2>1 DEF Op
<1> HIDE DEF P
<1>5. Blocks' = Blocks
  BY <1>1, <1>2 DEF Blocks
<1>6. TypeOK'
  BY <1>1, <1>4 DEF BuddyInv, TypeOK
<1>7. OneOwner' /\ NoBuddies' /\ Lists(free_area)'
  BY <1>1, <1>2 DEF BuddyInv, OneOwner, NoBuddies
<1>8. used' = {b[1] : b \in held'}
  <2>1. \A b \in held : b # P => b[1] # page
    <3>1. \A b \in held : b \in Blocks
      BY Facts
    <3> QED BY <1>1, <1>3, <3>1, OneHead DEF BuddyInv
  <2> QED BY <1>1, <1>3, <2>1, Facts
<1> QED BY <1>1, <1>2, <1>4, <1>5, <1>6, <1>7, <1>8, SameBlocks

\* p and q start the two halves of a block of twice the size.
Buddies(p, q, o) == Divides(2 * Size[o], p) /\ q = p + Size[o]

\* What get_buddy finds through the flags is the free buddy of the block.
LEMMA GetBuddyFree ==
  ASSUME BuddyInv, op.pc = "merge", op.order # MaxOrder,
         NEW u, u = get_buddy(op.page, op.order), u # NULL
  PROVE  /\ u \in Page /\ <<u, op.order>> \in FreeBlocks
         /\ Buddies(op.page, u, op.order) \/ Buddies(u, op.page, op.order)
<1> DEFINE o == op.order
           p == op.page
           s == Size[o]
           P == <<p, o>>
           U == <<u, o>>
<1>1. /\ OpBlock = {P} /\ P \in Blocks /\ P \notin FreeBlocks \cup held
      /\ p \in Page /\ p \in Nat /\ o \in Order /\ Aligned(P) /\ Past(P) <= NrPages
      /\ Tiles(Blocks, NrPages) /\ o # MaxOrder
  BY InWork
<1>2. /\ u = IF Divides(2 * s, p) THEN p + s ELSE p - s
      /\ Divides(2 * s, p) => u + s <= NrPages
      /\ u \in private /\ u \notin used
      /\ o # 0 => u + Size[o - 1] \notin private
  <2> DEFINE left == Divides(2 * s, p)
             b == IF left THEN p + s ELSE p - s
             None == \/ left /\ b + s > NrPages
                     \/ b \notin private \/ b \in used
                     \/ o # 0 /\ b + Size[o - 1] \in private
  <2>1. u = IF None THEN NULL ELSE b
    BY DEF get_buddy, Divides
  <2> HIDE DEF left, b
  <2>2. ~ None /\ u = b
    BY <2>1
  <2>3. left => ~ (u + s > NrPages)
    BY <2>2
  <2>4. left => u + s <= NrPages
    <3>1. left => u + s \in Int
      BY <1>1, <2>2, SizePositive DEF left, b
    <3> QED BY <2>3, <3>1, PagesAssumption
  <2> QED BY <2>2, <2>4 DEF left, b
<1>3. s \in Nat \ {0} /\ Divides(s, p) /\ Past(P) = p + s /\ NrPages \in Nat /\ u \in Page
  BY <1>1, <1>2, SizePositive, PagesAssumption DEF Aligned, Past, BuddyInv, TypeOK
<1>4. u \in Nat
  BY <1>3 DEF Page
<1> HIDE DEF s, o, p
<1>5. \/ Divides(2 * s, p) /\ u = p + s /\ ~ Divides(2 * s, u) /\ u + s <= NrPages
      \/ ~ Divides(2 * s, p) /\ Divides(2 * s, u) /\ p = u + s
  <2>1. /\ Divides(2 * s, p) => ~ Divides(2 * s, p + s)
        /\ Divides(s, p) /\ ~ Divides(2 * s, p) => Divides(2 * s, p - s)
    BY <1>1, <1>3, DividesHalf
  <2>2. CASE Divides(2 * s, p)
    BY <1>2, <2>1, <2>2
  <2>3. CASE ~ Divides(2 * s, p)
    BY <1>1, <1>2, <1>3, <2>1, <2>3
  <2> QED BY <2>2, <2>3
<1>6. Divides(s, u) /\ u # p /\ u + s <= NrPages
  <2>1. Divides(s, s)
    BY <1>3, DividesSelf
  <2>2. Divides(s, p + s) /\ Divides(s, p - s)
    BY <1>1, <1>3, <2>1, DividesSum
  <2>3. CASE u = p + s
    BY <1>1, <1>3, <1>5, <2>2, <2>3
  <2>4. CASE p = u + s
    <3>1. u = p - s /\ p <= NrPages
      BY <1>1, <1>3, <1>4, <2>4 DEF Page
    <3> QED BY <1>1, <1>3, <2>2, <2>4, <3>1
  <2> QED BY <1>5, <2>3, <2>4
<1>7. U \in Page \X Order /\ Aligned(U) /\ Past(U) = u + s /\ U[1] = u /\ U[2] = o
  BY <1>1, <1>3, <1>6 DEF Aligned, Past, s
<1>8. PICK c \in Blocks : c[1] = u
  BY <1>2, Facts
<1>9. c \in FreeBlocks
  <2>1. c \notin held
    BY <1>2, <1>8, Facts
  <2>2. c # P
    BY <1>6, <1>8
  <2> QED BY <1>1, <2>1, <2>2 DEF Blocks
<1>10. /\ c \in Page \X Order /\ Aligned(c) /\ c[2] \in Order /\ Past(c) \in Nat
       /\ Past(c) = u + Size[c[2]] /\ Size[c[2]] \in Nat \ {0} /\ c = <<u, c[2]>>
  <2>1. c \in Page \X Order /\ Aligned(c)
    BY <1>1 DEF Tiles
  <2> QED BY <1>8, <2>1, BlockType DEF Past
<1>11. ~ (c[2] > o)
  <2>1. SUFFICES ASSUME o < c[2] PROVE FALSE
    BY <1>1, <1>10 DEF Order
  <2>2. Divides(2 * s, Size[c[2]]) /\ 2 * s <= Size[c[2]]
    BY <1>1, <1>10, <2>1, SizeDivides DEF s, Order
  <2>3. CASE ~ Divides(2 * s, u)
    <3>1. Divides(Size[c[2]], u)
      BY <1>8, <1>10 DEF Aligned
    <3> DEFINE d == 2 * s
               e == Size[c[2]]
    <3>2. d \in Nat \ {0} /\ e \in Nat \ {0} /\ Divides(d, e) /\ Divides(e, u) /\ ~ Divides(d, u)
      BY <1>3, <1>10, <2>2, <2>3, <3>1
    <3> HIDE DEF d, e
    <3> QED BY <1>4, <3>2, DividesTrans
  <2>4. CASE p = u + s
    <3>1. Covers(c, p) /\ Covers(P, p)
      BY <1>1, <1>3, <1>4, <1>8, <1>10, <2>2, <2>4 DEF Covers
    <3>2. c = P
      BY <1>1, <3>1, CoversOnce
    <3> QED BY <1>1, <1>9, <3>2
  <2> QED BY <1>5, <2>3, <2>4
<1>12. ~ (c[2] < o)
  <2>1. SUFFICES ASSUME c[2] < o PROVE FALSE
    BY <1>1, <1>10 DEF Order
  <2> DEFINE h == o - 1
             t == Size[h]
             x == u + t
  <2>2. /\ h \in Order /\ o # 0 /\ s = 2 * t /\ t \in Nat \ {0} /\ c[2] <= h
        /\ h < o /\ h + 1 = o /\ h \in Int
    BY <1>1, <1>10, <2>1, SizeDouble, SizePositive DEF Order, s
  <2>3. x \notin private /\ x \in 0 .. (NrPages - 1) /\ x \in Nat /\ u < x /\ x < u + s
    BY <1>2, <1>3, <1>4, <1>6, <2>2
  <2>4. PICK d \in Blocks : Covers(d, x)
    BY <1>1, <2>3 DEF Tiles
  <2>5. d \in Page \X Order /\ Aligned(d)
    BY <1>1 DEF Tiles
  <2>6. /\ d[1] \in Nat /\ d[2] \in Order /\ Size[d[2]] \in Nat \ {0} /\ d[2] \in Int
        /\ Past(d) = d[1] + Size[d[2]] /\ d[1] <= x /\ x < Past(d)
    BY <2>4, <2>5, BlockType DEF Past, Covers, Order
  <2> HIDE DEF h, t, x
  <2>7. CASE d[2] >= o
    <3>1. Apart(U, d) \/ (d[1] <= u /\ Past(U) <= Past(d))
      BY <1>1, <1>7, <2>5, <2>7, Nested
    <3>2. d[1] <= u
      BY <1>3, <1>4, <1>7, <2>3, <2>6, <3>1 DEF Apart
    <3>3. Covers(d, u) /\ Covers(c, u)
      BY <1>4, <1>8, <1>10, <2>3, <2>6, <3>2 DEF Covers
    <3>4. d = c
      BY <1>1, <1>4, <3>3, CoversOnce
    <3> QED BY <1>1, <1>10, <2>1, <2>6, <2>7, <3>4 DEF Order
  <2>8. CASE d[2] < o
    <3> DEFINE e == Size[d[2]]
    <3>1. d[2] <= h /\ e \in Nat \ {0} /\ Divides(e, d[1])
      BY <2>2, <2>5, <2>6, <2>8 DEF Aligned
    <3>2. Divides(e, t) /\ Divides(e, s)
      BY <1>1, <2>2, <2>6, <2>8, <3>1, SizeDivides DEF t, s
    <3> HIDE DEF e
    <3>3. Divides(e, u)
      BY <1>3, <1>4, <1>6, <3>1, <3>2, DividesTrans
    <3>4. Divides(e, x)
      <4>1. Divides(e, u + t)
        BY <1>4, <2>2, <3>1, <3>2, <3>3, DividesSum
      <4> QED BY <4>1 DEF x
    <3>5. ~ (d[1] < x)
      <4>1. d[1] < x => d[1] + e <= x
        BY <2>3, <2>6, <3>1, <3>4, DividesGap
      <4>2. x < d[1] + e
        BY <2>6 DEF e
      <4> QED BY <2>3, <2>6, <3>1, <4>1, <4>2
    <3>6. d[1] = x
      BY <2>3, <2>6, <3>5
    <3> QED BY <2>3, <3>6, Facts
  <2> QED BY <1>1, <2>6, <2>7, <2>8 DEF Order
<1>13. c[2] = o
  BY <1>1, <1>10, <1>11, <1>12 DEF Order
<1>14. U \in FreeBlocks
  BY <1>9, <1>10, <1>13
<1> QED BY <1>3, <1>5, <1>14 DEF Buddies, s, o, p

\* The converse: get_buddy does not miss a free buddy.
LEMMA FreeBuddyFound ==
  ASSUME BuddyInv, op.pc = "merge", op.order # MaxOrder,
         NEW u, <<u, op.order>> \in FreeBlocks,
         Buddies(op.page, u, op.order) \/ Buddies(u, op.page, op.order)
  PROVE  get_buddy(op.page, op.order) # NULL
<1> DEFINE o == op.order
           p == op.page
           s == Size[o]
           U == <<u, o>>
           left == Divides(2 * s, p)
           b == IF left THEN p + s ELSE p - s
           None == \/ left /\ b + s > NrPages
                   \/ b \notin private \/ b \in used
                   \/ o # 0 /\ b + Size[o - 1] \in private
<1>1. get_buddy(p, o) = IF None THEN NULL ELSE b
  BY DEF get_buddy, Divides
<1>2. p \in Nat /\ o \in Order /\ Tiles(Blocks, NrPages) /\ U \in Blocks /\ U \notin held
  BY InWork, Facts DEF BuddyInv, OneOwner
<1>3. U \in Page \X Order /\ Past(U) <= NrPages
  BY <1>2 DEF Tiles
<1>4. s \in Nat \ {0} /\ u \in Nat /\ Past(U) = u + s /\ u \in Page
  BY <1>2, <1>3, SizePositive DEF Past, Page
<1> HIDE DEF s, p, o, left
<1>5. b = u
  <2>1. CASE Buddies(op.page, u, op.order)
    BY <2>1 DEF Buddies, s, p, o, left
  <2>2. CASE Buddies(u, op.page, op.order)
    <3>1. Divides(2 * s, u) /\ p = u + s
      BY <2>2 DEF Buddies, s, p, o
    <3>2. ~ left
      <4>1. Divides(2 * s, u) => ~ Divides(2 * s, u + s)
        <5>1. s \in Nat \ {0} /\ u \in Int
          BY <1>4
        <5> QED BY <5>1, DividesHalf
      <4> QED BY <3>1, <4>1 DEF left
    <3> QED BY <1>4, <3>1, <3>2
  <2> QED BY <2>1, <2>2
<1> HIDE DEF b
<1>6. U[1] = u
  OBVIOUS
<1>7. u \in private
  BY <1>2, <1>6, Facts
<1>8. u \notin used
  <2>1. ASSUME NEW c \in held, c[1] = u PROVE FALSE
    <3>1. c = U
      BY <1>2, <1>6, <2>1, Facts, OneHead
    <3> QED BY <1>2, <3>1
  <2> QED BY <2>1, Facts
<1>9. ASSUME o # 0 PROVE u + Size[o - 1] \notin private
  <2> DEFINE t == Size[o - 1]
             x == u + t
  <2>1. s = 2 * t /\ t \in Nat \ {0} /\ x \in Nat /\ u < x /\ x < u + s
    BY <1>2, <1>4, <1>9, SizeDouble, SizePositive DEF s
  <2> HIDE DEF t
  <2>2. ASSUME NEW c \in Blocks, c[1] = x PROVE FALSE
    <3>1. c \in Page \X Order
      BY Facts
    <3>2. Covers(c, x) /\ Covers(U, x)
      BY <1>4, <1>6, <2>1, <2>2, <3>1, BlockType DEF Covers
    <3>3. c = U
      BY <1>2, <2>1, <3>2, CoversOnce
    <3> QED BY <1>4, <1>6, <2>1, <2>2, <3>3
  <2> QED BY <2>2, Facts DEF t
<1>10. ~ (u + s > NrPages)
  BY <1>3, <1>4, PagesAssumption
<1> QED BY <1>1, <1>4, <1>5, <1>7, <1>8, <1>9, <1>10 DEF NULL, p, o

\* remove_from_free_area and expand: the block and its free buddy become one.
LEMMA ExpandInv ==
  ASSUME BuddyInv, expand
  PROVE  BuddyInv'
<1> DEFINE o == op.order
           u == get_buddy(op.page, o)
           l == IF op.page < u THEN op.page ELSE u
           r == IF op.page < u THEN u ELSE op.page
           s == Size[o]
           L == <<l, o>>
           R == <<r, o>>
           U == <<u, o>>
           P == <<op.page, o>>
           N == <<l, o + 1>>
<1>1. /\ op.pc = "merge" /\ o # MaxOrder /\ u # NULL /\ UNCHANGED <<used, held>>
      /\ free_area' = [free_area EXCEPT ![o] = list_del(u, free_area[o])]
      /\ private' = private \ {r}
      /\ op' = [op EXCEPT !.page = l, !.order = @ + 1]
  BY DEF expand
<1>2. /\ OpBlock = {P} /\ P \in Blocks /\ P \notin FreeBlocks \cup held
      /\ op.page \in Page /\ op.page \in Nat /\ o \in Order /\ op \in Op
      /\ Tiles(Blocks, NrPages) /\ Reached = NrPages
  BY <1>1, InWork
<1>3. /\ u \in Page /\ U \in FreeBlocks
      /\ Buddies(op.page, u, o) \/ Buddies(u, op.page, o)
  BY <1>1, GetBuddyFree
<1> HIDE DEF u
<1>4. s \in Nat \ {0} /\ u \in Nat /\ o + 1 \in Order
  BY <1>1, <1>2, <1>3, SizePositive, SizeDouble DEF Page
<1>5. r = l + s /\ Divides(2 * s, l) /\ l \in Page /\ r \in Page /\ {L, R} = {P, U}
  <2>1. CASE Buddies(op.page, u, o)
    <3>1. op.page < u
      BY <1>2, <1>4, <2>1 DEF Buddies
    <3> QED BY <1>2, <1>3, <2>1, <3>1 DEF Buddies
  <2>2. CASE Buddies(u, op.page, o)
    <3>1. ~ (op.page < u)
      BY <1>2, <1>4, <2>2 DEF Buddies
    <3> QED BY <1>2, <1>3, <2>2, <3>1 DEF Buddies
  <2> QED BY <1>3, <2>1, <2>2
<1>6. op'.pc = "merge" /\ op'.page = l /\ op'.order = o + 1 /\ op' \in Op
  <2>1. l \in 0..NrPages
    BY <1>5, PagesAssumption DEF Page
  <2> HIDE DEF l
  <2> QED BY <1>1, <1>2, <1>4, <2>1 DEF Op
<1> HIDE DEF l, r
<1>7. FreeBlocks' = FreeBlocks \ {U} /\ Lists(free_area)'
  <2> DEFINE d == list_del(u, free_area[o])
             ga == [free_area EXCEPT ![o] = d]
  <2>1. free_area' = ga
    BY <1>1
  <2>2. Lists(free_area) /\ free_area[o] \in Seq(Page) /\ Linked(free_area[o])
    BY <1>2 DEF BuddyInv, Lists
  <2>3. d \in Seq(Page) /\ ToSet(d) = ToSet(free_area[o]) \ {u} /\ Linked(d)
    BY <2>2, ListDel
  <2> HIDE DEF d
  <2>4. \A q \in Page : q \in ToSet(d) <=> q \in ToSet(free_area[o]) /\ q # u
    BY <2>3
  <2>5. Lists(ga) /\ FreeOf(ga) = FreeOf(free_area) \ {U}
    BY <1>2, <1>3, <2>2, <2>3, <2>4, FreeTake, ZenonT(60)
  <2> HIDE DEF ga
  <2>6. FreeBlocks' = FreeOf(free_area') /\ FreeBlocks = FreeOf(free_area)
    BY DEF FreeBlocks, FreeOf
  <2> QED BY <2>1, <2>5, <2>6
<1>8. OpBlock' = {N}
  BY <1>6 DEF OpBlock
<1>9. L \in Blocks /\ R \in Blocks /\ U \in Blocks
  BY <1>2, <1>3, <1>5, Facts
<1>10. L[1] = l /\ R[1] = r /\ N[1] = l /\ L # R /\ N # L /\ r # l
  <2>1. r # l
    BY <1>4, <1>5 DEF Page
  <2>2. o # o + 1
    BY <1>2 DEF Order
  <2> QED BY <2>1, <2>2
<1>11. N \notin Blocks
  BY <1>2, <1>9, <1>10, OneHead
<1>12. U \notin held
  BY <1>3 DEF BuddyInv, OneOwner
<1>13. Tiles((Blocks \ {L, R}) \cup {N}, NrPages)
  <2>1. <<l, o>> \in Blocks /\ <<l + Size[o], o>> \in Blocks /\ Divides(2 * Size[o], l)
    BY <1>5, <1>9
  <2>2. Tiles((Blocks \ {<<l, o>>, <<l + Size[o], o>>}) \cup {<<l, o + 1>>}, NrPages)
    BY <1>1, <1>2, <2>1, PagesAssumption, Join
  <2> QED BY <1>5, <2>2
<1> HIDE DEF L, R, U, P, N
<1>14. Blocks' = (Blocks \ {L, R}) \cup {N} /\ Reached' = NrPages
  <2>1. held' = held /\ Blocks = FreeBlocks \cup held \cup {P}
    BY <1>1, <1>2 DEF Blocks
  <2>2. Blocks' = (FreeBlocks \ {U}) \cup held \cup {N}
    BY <1>1, <1>7, <1>8 DEF Blocks
  <2>3. (Blocks \ {L, R}) = (FreeBlocks \ {U}) \cup held
    BY <1>2, <1>3, <1>5, <1>12, <2>1
  <2>4. Reached' = NrPages
    BY <1>6 DEF Reached
  <2> QED BY <2>2, <2>3, <2>4
<1>15. TypeOK'
  <2>1. private' \subseteq Page
    BY <1>1 DEF BuddyInv, TypeOK
  <2> QED BY <1>1, <1>6, <1>7, <2>1 DEF BuddyInv, TypeOK, Lists
<1>16. OneOwner'
  <2>1. N \notin FreeBlocks /\ N \notin held
    BY <1>11, Facts
  <2> QED BY <1>1, <1>7, <1>8, <2>1 DEF BuddyInv, OneOwner
<1>17. FlagsAgree'
  <2>1. \A b \in Blocks : b[1] = r => b = R
    BY <1>2, <1>9, <1>10, OneHead
  <2>2. private' = {b[1] : b \in Blocks'}
    <3>1. ASSUME NEW x \in private' PROVE \E b \in Blocks' : b[1] = x
      <4>1. PICK b \in Blocks : b[1] = x /\ x # r
        BY <1>1, <3>1, Facts
      <4>2. CASE b = L
        BY <1>10, <1>14, <4>1, <4>2
      <4>3. CASE b # L
        <5>1. b \in Blocks'
          BY <1>10, <1>14, <4>1, <4>3
        <5> QED BY <4>1, <5>1
      <4> QED BY <4>2, <4>3
    <3>2. ASSUME NEW b \in Blocks' PROVE b[1] \in private'
      <4>1. l \in private /\ l # r
        BY <1>9, <1>10, Facts
      <4>2. CASE b = N
        BY <1>1, <1>10, <4>1, <4>2
      <4>3. CASE b # N
        <5>1. b \in Blocks /\ b # R
          BY <1>14, <4>3
        <5>2. b[1] \in private /\ b[1] # r
          BY <2>1, <5>1, Facts
        <5> QED BY <1>1, <5>2
      <4> QED BY <4>2, <4>3
    <3> QED BY <3>1, <3>2
  <2>3. used' = {b[1] : b \in held'}
    BY <1>1, Facts
  <2> QED BY <2>2, <2>3 DEF FlagsAgree
<1>18. NoBuddies'
  BY <1>7 DEF BuddyInv, NoBuddies
<1>19. BuildInv' /\ Tiles(Blocks, Reached)' /\ op'.pc # "reduce"
  BY <1>6, <1>13, <1>14 DEF BuildInv
<1> QED BY <1>7, <1>15, <1>16, <1>17, <1>18, <1>19 DEF BuddyInv

LEMMA DeallocDoneInv ==
  ASSUME BuddyInv, DeallocDone
  PROVE  BuddyInv'
<1> DEFINE p == op.page
           o == op.order
           P == <<p, o>>
<1>1. /\ op.pc = "merge"
      /\ o = MaxOrder \/ get_buddy(p, o) = NULL
      /\ free_area' = [free_area EXCEPT ![o] = list_add(p, free_area[o])]
      /\ op' = NoOp /\ op'.pc = "none" /\ UNCHANGED <<private, used, held>>
  BY DEF DeallocDone, NoOp
<1>2. /\ OpBlock = {P} /\ P \in Blocks /\ P \notin FreeBlocks \cup held
      /\ p \in Page /\ p \in Nat /\ o \in Order /\ Reached = NrPages
  BY <1>1, InWork DEF DeallocDone
<1>3. FreeBlocks' = FreeBlocks \cup {P} /\ Lists(free_area)'
  <2> DEFINE ga == [free_area EXCEPT ![o] = list_add(p, free_area[o])]
  <2>1. free_area' = ga
    BY <1>1
  <2>2. Lists(ga) /\ FreeOf(ga) = FreeOf(free_area) \cup {P}
    <3>1. Lists(free_area) /\ P \notin FreeOf(free_area)
      BY <1>2, Facts DEF BuddyInv
    <3> HIDE DEF p, o
    <3> QED BY <1>2, <3>1, FreePut
  <2> HIDE DEF ga
  <2>3. FreeBlocks' = FreeOf(free_area') /\ FreeBlocks = FreeOf(free_area)
    BY DEF FreeBlocks, FreeOf
  <2> QED BY <2>1, <2>2, <2>3
<1>4. OpBlock' = {} /\ Reached' = Reached
  BY <1>1, <1>2 DEF OpBlock, Reached
<1>5. op' \in Op
  BY <1>1, SizeAssumption, PagesAssumption DEF NoOp, Op, Order
<1>6. P[1] = p /\ P[2] = o
  OBVIOUS
<1>7. NoBuddies'
  <2> SUFFICES ASSUME NEW b \in FreeBlocks', NEW c \in FreeBlocks',
                      b[2] = c[2], b[2] # MaxOrder, c[1] = Past(b),
                      Divides(2 * Size[b[2]], b[1])
               PROVE  FALSE
    BY DEF NoBuddies
  <2>1. Buddies(b[1], c[1], b[2])
    BY DEF Buddies, Past
  <2>2. CASE b \in FreeBlocks /\ c \in FreeBlocks
    BY <2>2 DEF BuddyInv, NoBuddies
  <2>3. CASE b = P /\ c \in FreeBlocks
    <3>1. c = <<c[1], o>>
      BY <1>6, <2>3, Facts, BlockType
    <3> QED BY <1>1, <1>6, <2>1, <2>3, <3>1, FreeBuddyFound DEF DeallocDone
  <2>4. CASE b \in FreeBlocks /\ c = P
    <3>1. b = <<b[1], o>>
      BY <1>6, <2>4, Facts, BlockType
    <3> QED BY <1>1, <1>6, <2>1, <2>4, <3>1, FreeBuddyFound DEF DeallocDone
  <2>5. CASE b = P /\ c = P
    <3>1. Size[o] \in Nat \ {0} /\ p = p + Size[o]
      BY <1>2, <1>6, <2>5, SizePositive DEF Past
    <3> QED BY <1>2, <3>1
  <2> QED BY <1>3, <2>2, <2>3, <2>4, <2>5
<1> HIDE DEF P
<1>8. Blocks' = Blocks
  BY <1>1, <1>2, <1>3, <1>4 DEF Blocks
<1>9. TypeOK'
  BY <1>1, <1>3, <1>5 DEF BuddyInv, TypeOK, Lists
<1>10. OneOwner'
  BY <1>1, <1>2, <1>3, <1>4 DEF BuddyInv, OneOwner
<1>11. used' = {b[1] : b \in held'}
  BY <1>1, Facts
<1> QED BY <1>1, <1>3, <1>4, <1>7, <1>8, <1>9, <1>10, <1>11, SameBlocks

LEMMA BuddyNext ==
  ASSUME BuddyInv, [Next]_vars
  PROVE  BuddyInv'
<1>1. CASE UNCHANGED vars
  <2>1. UNCHANGED <<free_area, private, used, held, op>>
    BY <1>1 DEF vars
  <2>2. FreeBlocks' = FreeBlocks /\ OpBlock' = OpBlock /\ Reached' = Reached
    BY <2>1 DEF FreeBlocks, OpBlock, Reached
  <2>3. Blocks' = Blocks
    BY <2>1, <2>2 DEF Blocks
  <2> QED BY <2>1, <2>2, <2>3
      DEF BuddyInv, TypeOK, Lists, OneOwner, FlagsAgree, BuildInv, NoBuddies
<1>2. CASE Build
  BY <1>2, BuildInvStep
<1>3. CASE BuildDone
  BY <1>3, BuildDoneInv
<1>4. ASSUME NEW order \in Order, alloc_pages(order) PROVE BuddyInv'
  BY <1>4, AllocInv
<1>5. CASE reduce
  BY <1>5, ReduceInv
<1>6. CASE AllocDone
  BY <1>6, AllocDoneInv
<1>7. ASSUME NEW page \in Page, NEW order \in Order, dealloc_pages(page, order)
      PROVE  BuddyInv'
  BY <1>7, DeallocInv
<1>8. CASE expand
  BY <1>8, ExpandInv
<1>9. CASE DeallocDone
  BY <1>9, DeallocDoneInv
<1> QED BY <1>1, <1>2, <1>3, <1>4, <1>5, <1>6, <1>7, <1>8, <1>9 DEF Next

\* The lists, the flags and the blocks handed out describe one tiling of the
\* zone, at every turn of the loops of page_alloc.c.
THEOREM BuddyInvariant == Spec => []BuddyInv
<1>1. Init => BuddyInv
  BY BuddyInit
<1>2. BuddyInv /\ [Next]_vars => BuddyInv'
  BY BuddyNext
<1> QED BY <1>1, <1>2, PTL DEF Spec

\* No page is in two blocks and none is lost (alloc_pages, dealloc_pages).
THEOREM BuddyTiles == Spec => []Tiling
<1>1. BuddyInv => Tiling
  BY BuddyTiling
<1> QED BY <1>1, BuddyInvariant, PTL

\* The flag bits get_buddy reads agree with the lists.
THEOREM BuddyFlags == Spec => []FlagsAgree
<1>1. BuddyInv => FlagsAgree
  BY DEF BuddyInv
<1> QED BY <1>1, BuddyInvariant, PTL

\* Free memory is never fragmented below need: dealloc_pages merges whatever
\* can be merged.
THEOREM BuddyFullyMerged == Spec => []FullyMerged
<1>1. BuddyInv => FullyMerged
  BY BuddyMerged
<1> QED BY <1>1, BuddyInvariant, PTL
-----------------------------------------------------------------------------
(* The zone implements the page allocator: the steps that hand out and take *)
(* back a block are those of PageAllocator, the others are stutters.        *)

LEMMA PromiseStep ==
  ASSUME BuddyInv, [Next]_vars
  PROVE  [Promise!Next]_held
<1>1. CASE UNCHANGED held
  BY <1>1
<1>2. CASE AllocDone
  <2> DEFINE P == <<op.page, op.order>>
  <2>1. op.pc = "reduce" /\ held' = held \cup {P}
    BY <1>2 DEF AllocDone
  <2>2. /\ P \in Blocks /\ P \notin FreeBlocks \cup held
        /\ op.page \in Page /\ op.page \in Nat /\ op.order \in Order
        /\ Aligned(P) /\ Past(P) <= NrPages /\ Tiles(Blocks, NrPages)
    BY <2>1, InWork
  <2>3. op.page % Size[op.order] = 0 /\ op.page + Size[op.order] <= NrPages
    BY <2>2 DEF Aligned, Past, Divides
  <2>4. \A b \in held : Pages(b[1], b[2]) \cap Pages(op.page, op.order) = {}
    <3>1. \A b \in held : b \in Blocks /\ b # P
      BY <2>2, Facts
    <3>2. Tiling
      BY BuddyTiling
    <3>3. P[1] = op.page /\ P[2] = op.order
      OBVIOUS
    <3> HIDE DEF P
    <3> QED BY <2>2, <3>1, <3>2, <3>3 DEF Tiling
  <2>5. Promise!Alloc(op.page, op.order)
    BY <2>1, <2>3, <2>4 DEF Promise!Alloc, Promise!Pages, Pages
  <2>6. op.page \in Promise!Page /\ op.order \in Promise!Order
    BY <2>2 DEF Promise!Page, Promise!Order, Page, Order
  <2> QED BY <2>5, <2>6 DEF Promise!Next
<1>3. ASSUME NEW page \in Page, NEW order \in Order, dealloc_pages(page, order)
      PROVE  Promise!Next
  <2>1. Promise!Free(page, order)
    BY <1>3 DEF dealloc_pages, Promise!Free
  <2>2. page \in Promise!Page /\ order \in Promise!Order
    BY DEF Promise!Page, Promise!Order, Page, Order
  <2> QED BY <2>1, <2>2 DEF Promise!Next
<1>4. UNCHANGED held
      \/ AllocDone \/ \E page \in Page, order \in Order : dealloc_pages(page, order)
  BY DEF vars, Next, Build, BuildDone, alloc_pages, reduce, expand, DeallocDone
<1> QED BY <1>1, <1>2, <1>3, <1>4

\* alloc_pages and dealloc_pages keep their promise: aligned blocks of the size
\* asked for, that overlap no other block handed out.
THEOREM BuddyKeepsPromise == Spec => ImplementsPromise
<1>1. Init => Promise!Init
  BY DEF Init, Promise!Init
<1>2. BuddyInv /\ [Next]_vars => [Promise!Next]_held
  BY PromiseStep
<1> QED BY <1>1, <1>2, BuddyInvariant, PTL DEF Spec, ImplementsPromise, Promise!Spec
-----------------------------------------------------------------------------
(* High memory: the addresses are a buddy system, and no two tasks write an *)
(* entry of the same block.                                                 *)

\* Every block handed out is somebody's, who has written some of its entries.
HighType ==
  /\ entry \in [Page -> Nat \cup {NULL}]
  /\ mapping = [b \in held |-> mapping[b]]
  /\ \A b \in held : /\ mapping[b] \in [frame : Nat, next : Nat]
                     /\ mapping[b].next <= Size[b[2]]

HighInv == BuddyInv /\ HighType /\ MappingAgrees

LEMMA HighBuddy ==
  ASSUME HighInv, [HighNext]_high_vars
  PROVE  [Next]_vars
<1>1. DOMAIN mapping = held /\ \A b \in held : b[1] \in Page /\ b[2] \in Order
  <2>1. held \subseteq Page \X Order
    BY Facts DEF HighInv
  <2>2. DOMAIN mapping = held
    BY DEF HighInv, HighType
  <2> QED BY <2>1, <2>2, BlockType
<1>2. CASE UNCHANGED high_vars
  BY <1>2 DEF high_vars
<1>3. ASSUME NEW order \in Order, alloc_high_map(order) PROVE Next
  BY <1>3 DEF alloc_high_map, Next
<1>4. ASSUME NEW order \in MapOrders, kmap(order) PROVE Next
  BY <1>3, <1>4, HighAssumption DEF kmap, Order
<1>5. ASSUME NEW size \in Sizes, ioremap(size) PROVE Next
  BY <1>3, <1>5 DEF ioremap
<1>6. ASSUME NEW b \in DOMAIN mapping, kunmap(b) PROVE Next
  BY <1>1, <1>6 DEF kunmap, dealloc_high_map, Next
<1>7. ASSUME NEW b \in DOMAIN mapping, mk_pgt(b) PROVE UNCHANGED vars
  BY <1>7 DEF mk_pgt
<1>8. (\E frame \in Frames : alloc_high_map_return(frame)) => Next
  BY DEF alloc_high_map_return, Next
<1>9. build_buddy_system \/ reduce_high_map \/ expand_high_map \/ dealloc_high_map_end => Next
  BY DEF build_buddy_system, reduce_high_map, expand_high_map, dealloc_high_map_end, Next
<1> QED BY <1>2, <1>4, <1>5, <1>6, <1>7, <1>8, <1>9 DEF HighNext

\* Steps that leave the blocks handed out and the entries alone.
LEMMA HighSame ==
  ASSUME HighInv, UNCHANGED <<held, entry, mapping>>
  PROVE  HighType' /\ MappingAgrees'
  BY DEF HighInv, HighType, MappingAgrees

\* A block that is handed out has no entry written yet.
LEMMA ReturnInv ==
  ASSUME HighInv, NEW frame \in Frames, alloc_high_map_return(frame)
  PROVE  HighType' /\ MappingAgrees'
<1>1. PICK P, m : P = <<op.page, op.order>> /\ m = [frame |-> frame, next |-> 0]
  OBVIOUS
<1>2. /\ held' = held \cup {P} /\ entry' = entry
      /\ mapping' = [c \in DOMAIN mapping \cup {P} |-> IF c = P THEN m ELSE mapping[c]]
  BY <1>1 DEF alloc_high_map_return, AllocDone, Given
<1>3. P \notin held /\ Size[P[2]] \in Nat
  <2>1. op.pc = "reduce" /\ BuddyInv
    BY DEF HighInv, alloc_high_map_return, AllocDone
  <2>2. P \notin FreeBlocks \cup held /\ op.page \in Page /\ op.order \in Order
    BY <1>1, <2>1, InWork
  <2>3. P \in Page \X Order
    BY <1>1, <2>2
  <2> QED BY <2>2, <2>3, BlockType
<1>4. DOMAIN mapping = held
  BY DEF HighInv, HighType
<1>5. /\ mapping' = [c \in held' |-> mapping'[c]]
      /\ mapping'[P] = m
      /\ \A c \in held : mapping'[c] = mapping[c]
  BY <1>2, <1>3, <1>4
<1>6. m \in [frame : Nat, next : Nat] /\ m.next = 0
  BY <1>1, HighAssumption
<1>7. HighType'
  BY <1>2, <1>3, <1>5, <1>6 DEF HighInv, HighType
<1>8. MappingAgrees'
  <2>1. ASSUME NEW b \in DOMAIN mapping', NEW i \in 0..mapping'[b].next - 1
        PROVE  entry'[b[1] + i] = mapping'[b].frame + i
    <3>1. b \in held /\ b # P
      BY <1>2, <1>4, <1>5, <1>6, <2>1
    <3> QED BY <1>2, <1>4, <1>5, <2>1, <3>1 DEF HighInv, MappingAgrees
  <2> QED BY <2>1 DEF MappingAgrees
<1> QED BY <1>7, <1>8

LEMMA KunmapInv ==
  ASSUME HighInv, NEW b \in DOMAIN mapping, kunmap(b)
  PROVE  HighType' /\ MappingAgrees'
<1>1. DOMAIN mapping = held /\ held \subseteq Page \X Order
  BY Facts DEF HighInv, HighType
<1>2. b = <<b[1], b[2]>>
  BY <1>1, BlockType
<1>3. /\ held' = held \ {b} /\ entry' = entry
      /\ mapping' = [c \in DOMAIN mapping \ {b} |-> mapping[c]]
  BY <1>2 DEF kunmap, dealloc_high_map, dealloc_pages
<1>4. /\ mapping' = [c \in held' |-> mapping'[c]]
      /\ \A c \in held' : c \in held /\ mapping'[c] = mapping[c]
  BY <1>1, <1>3
<1>5. HighType'
  BY <1>3, <1>4 DEF HighInv, HighType
<1>6. MappingAgrees'
  <2>1. DOMAIN mapping' = held'
    BY <1>4
  <2> QED BY <1>1, <1>3, <1>4, <2>1 DEF HighInv, MappingAgrees
<1> QED BY <1>5, <1>6

\* Blocks do not overlap, so the entry written is of no other block.
LEMMA MkPgtInv ==
  ASSUME HighInv, NEW b \in DOMAIN mapping, mk_pgt(b)
  PROVE  HighType' /\ MappingAgrees'
<1>1. /\ DOMAIN mapping = held /\ held \subseteq Page \X Order /\ held \subseteq Blocks
      /\ Tiles(Blocks, Reached) /\ Reached \in Nat /\ Reached <= NrPages /\ NrPages \in Nat
  BY Facts DEF HighInv, HighType, BuddyInv
<1>2. PICK n, f, s : n = mapping[b].next /\ f = mapping[b].frame /\ s = Size[b[2]]
  OBVIOUS
<1>3. n \in Nat /\ f \in Nat /\ s \in Nat /\ n < s /\ b[1] \in Nat /\ b[1] + s <= NrPages
  <2>1. n \in Nat /\ f \in Nat /\ n < s
    BY <1>1, <1>2 DEF HighInv, HighType, mk_pgt
  <2>2. b[1] \in Nat /\ s \in Nat /\ Past(b) \in Nat
    BY <1>1, <1>2, BlockType
  <2>3. Past(b) <= Reached
    BY <1>1 DEF Tiles
  <2> QED BY <1>1, <1>2, <2>1, <2>2, <2>3 DEF Past
<1>4. PICK at : at = b[1] + n
  OBVIOUS
<1>5. at \in Page
  BY <1>1, <1>3, <1>4 DEF Page
<1>6. /\ entry' = [entry EXCEPT ![at] = f + n]
      /\ mapping' = [mapping EXCEPT ![b].next = @ + 1]
      /\ held' = held
  BY <1>2, <1>4 DEF mk_pgt, vars
<1>7. entry'[at] = f + n /\ \A a \in Page : a # at => entry'[a] = entry[a]
  BY <1>5, <1>6 DEF HighInv, HighType
<1>8. /\ mapping' = [c \in held' |-> mapping'[c]]
      /\ mapping'[b] = [frame |-> f, next |-> n + 1]
      /\ \A c \in held : c # b => mapping'[c] = mapping[c]
  <2>1. mapping = [c \in held |-> mapping[c]] /\ mapping[b] \in [frame : Nat, next : Nat]
    BY <1>1 DEF HighInv, HighType
  <2>2. [mapping[b] EXCEPT !.next = @ + 1] = [frame |-> f, next |-> n + 1]
    BY <1>2, <2>1
  <2> QED BY <1>1, <1>6, <2>1, <2>2
<1>9. HighType'
  <2>1. entry' \in [Page -> Nat \cup {NULL}]
    <3>1. PICK v : v = f + n
      OBVIOUS
    <3>2. v \in Nat \cup {NULL} /\ entry \in [Page -> Nat \cup {NULL}]
      BY <1>3, <3>1 DEF HighInv, HighType
    <3>3. entry' = [entry EXCEPT ![at] = v]
      BY <1>6, <3>1
    <3> QED BY ONLY <3>2, <3>3
  <2>2. ASSUME NEW c \in held
        PROVE  mapping'[c] \in [frame : Nat, next : Nat] /\ mapping'[c].next <= Size[c[2]]
    <3>1. CASE c = b
      BY <1>2, <1>3, <1>8, <3>1
    <3>2. CASE c # b
      BY <1>8, <3>2 DEF HighInv, HighType
    <3> QED BY <3>1, <3>2
  <2> QED BY <1>6, <1>8, <2>1, <2>2 DEF HighType
<1>10. ASSUME NEW c \in held, NEW i \in 0..mapping'[c].next - 1
       PROVE  entry'[c[1] + i] = mapping'[c].frame + i
  <2>1. CASE c = b
    <3>1. i \in 0..n
      BY <1>3, <1>8, <2>1
    <3>2. CASE i = n
      BY <1>4, <1>7, <1>8, <2>1, <3>2
    <3>3. CASE i # n
      <4>1. i \in 0..n - 1 /\ b[1] + i # at /\ b[1] + i \in Page
        BY <1>1, <1>3, <1>4, <3>1, <3>3 DEF Page
      <4>2. entry[b[1] + i] = f + i
        BY <1>1, <1>2, <4>1 DEF HighInv, MappingAgrees
      <4> QED BY <1>7, <1>8, <2>1, <4>1, <4>2
    <3> QED BY <3>2, <3>3
  <2>2. CASE c # b
    <3>1. /\ mapping'[c] = mapping[c] /\ mapping[c].next \in Nat
          /\ mapping[c].next <= Size[c[2]] /\ i \in 0..mapping[c].next - 1
      BY <1>8, <2>2 DEF HighInv, HighType
    <3>2. c[1] \in Nat /\ Size[c[2]] \in Nat /\ Past(c) \in Nat /\ Past(b) \in Nat
      BY <1>1, BlockType
    <3>3. Past(c) <= Reached /\ Apart(b, c)
      BY <1>1, <2>2 DEF Tiles
    <3>4. c[1] + i # at
      BY <1>2, <1>3, <1>4, <3>1, <3>2, <3>3 DEF Apart, Past
    <3>5. c[1] + i \in Page
      BY <1>1, <3>1, <3>2, <3>3 DEF Page, Past
    <3>6. entry[c[1] + i] = mapping[c].frame + i
      BY <1>1, <3>1 DEF HighInv, MappingAgrees
    <3> QED BY <1>7, <3>1, <3>4, <3>5, <3>6
  <2> QED BY <2>1, <2>2
<1>11. MappingAgrees'
  <2>1. DOMAIN mapping' = held
    BY <1>6, <1>8
  <2> QED BY <1>10, <2>1 DEF MappingAgrees
<1> QED BY <1>9, <1>11

LEMMA HighStep ==
  ASSUME HighInv, [HighNext]_high_vars
  PROVE  HighInv'
<1>1. BuddyInv'
  BY HighBuddy, BuddyNext DEF HighInv
<1>2. CASE UNCHANGED <<held, entry, mapping>>
  BY <1>1, <1>2, HighSame DEF HighInv
<1>3. ASSUME NEW frame \in Frames, alloc_high_map_return(frame) PROVE HighInv'
  BY <1>1, <1>3, ReturnInv DEF HighInv
<1>4. ASSUME NEW b \in DOMAIN mapping, mk_pgt(b) PROVE HighInv'
  BY <1>1, <1>4, MkPgtInv DEF HighInv
<1>5. ASSUME NEW b \in DOMAIN mapping, kunmap(b) PROVE HighInv'
  BY <1>1, <1>5, KunmapInv DEF HighInv
<1>6. UNCHANGED high_vars => UNCHANGED <<held, entry, mapping>>
  BY DEF high_vars, vars
<1>7. build_buddy_system \/ reduce_high_map \/ expand_high_map \/ dealloc_high_map_end
        => UNCHANGED held
  BY DEF build_buddy_system, reduce_high_map, expand_high_map, dealloc_high_map_end,
         Build, BuildDone, reduce, expand, DeallocDone
<1>8. (\E order \in MapOrders : kmap(order)) \/ (\E size \in Sizes : ioremap(size))
        => UNCHANGED held
  BY DEF kmap, ioremap, alloc_high_map, alloc_pages
<1> QED BY <1>2, <1>3, <1>4, <1>5, <1>6, <1>7, <1>8 DEF HighNext

LEMMA HighInitInv == HighInit => HighInv
<1> SUFFICES ASSUME HighInit PROVE HighInv
  OBVIOUS
<1>1. BuddyInv /\ held = {}
  BY BuddyInit DEF HighInit, Init
<1> QED BY <1>1 DEF HighInit, HighInv, HighType, MappingAgrees

\* highmem.c: the blocks of addresses are those of a buddy system, whatever the
\* tasks that write the entries do in between.
THEOREM HighmemIsBuddy == HighSpec => Spec
<1>1. HighInit => Init
  BY DEF HighInit
<1>2. HighInv /\ [HighNext]_high_vars => HighInv' /\ [Next]_vars
  BY HighStep, HighBuddy
<1> QED BY <1>1, <1>2, HighInitInv, PTL DEF HighSpec, Spec

\* kmap, ioremap and kunmap: every address of a block leads to the page asked for
\* as soon as its entry is written and until the block is given back.
THEOREM MappingsAgree == HighSpec => []MappingAgrees
<1>1. HighInv /\ [HighNext]_high_vars => HighInv'
  BY HighStep
<1>2. HighInv => MappingAgrees
  BY DEF HighInv
<1> QED BY <1>1, <1>2, HighInitInv, PTL DEF HighSpec
-----------------------------------------------------------------------------
(* kmalloc *)

\* The room a piece of a class takes on its page, and where the pieces start.
Room(o) == ObjSize + ClassSize[o]
Offsets(o) == {HeadSize + k * Room(o) : k \in 0..PieceCount(o) - 1}

Fits(size, o) == size <= ClassSize[o] \/ RoundedDown(size)

HeadRecord == [index : SizeClass, used : SUBSET Nat, free : Seq(Nat)]
Listed(p) == p \in ToSet(page_list[page_head[p].index])

KmallocType ==
  /\ page_list \in [SizeClass -> Seq(LowPages)]
  /\ page_head \in [LowPages -> HeadRecord]
  /\ pieces \subseteq [page : LowPages, at : Nat, size : Nat]

\* The free list and the pieces in use share no place of the page.
GoodHead(h) ==
  /\ Linked(h.free)
  /\ ToSet(h.free) \cap h.used = {}
  /\ ToSet(h.free) \cup h.used \subseteq Offsets(h.index)

\* A page on a list is of its class and has a piece in use.
PagesInv ==
  /\ \A o \in SizeClass : Linked(page_list[o])
  /\ \A o \in SizeClass : \A p \in ToSet(page_list[o]) : page_head[p].index = o
  /\ \A p \in LowPages : Listed(p) =>
       /\ GoodHead(page_head[p]) /\ page_head[p].used # {}
       /\ \A x \in page_head[p].used : \E a \in pieces : a.page = p /\ a.at = x + ObjSize

\* A piece in use is of its page's class, and no other has its place.
PieceInv ==
  /\ \A a \in pieces :
       /\ Listed(a.page) /\ a.at - ObjSize \in page_head[a.page].used
       /\ Fits(a.size, page_head[a.page].index)
  /\ \A a, b \in pieces : a.page = b.page /\ a.at = b.at => a = b

KmallocInv == KmallocType /\ PagesInv /\ PieceInv

LEMMA ClassOrder ==
  ASSUME NEW m \in 0..KMALLOC_MAX_ORDER + 1, NEW n \in 0..KMALLOC_MAX_ORDER + 1, m <= n
  PROVE  ClassSize[m] <= ClassSize[n]
<1> DEFINE T == {k \in Nat : m + k \in 0..KMALLOC_MAX_ORDER + 1
                               => ClassSize[m] <= ClassSize[m + k]}
<1>0. KMALLOC_MAX_ORDER \in Nat /\ \A o \in 0..KMALLOC_MAX_ORDER + 1 : ClassSize[o] \in Nat
  BY KmallocAssumption
<1>1. 0 \in T
  BY <1>0
<1>2. ASSUME NEW k \in T PROVE k + 1 \in T
  <2> SUFFICES ASSUME m + (k + 1) \in 0..KMALLOC_MAX_ORDER + 1
               PROVE  ClassSize[m] <= ClassSize[m + (k + 1)]
    OBVIOUS
  <2>1. m + k \in 0..KMALLOC_MAX_ORDER /\ m + (k + 1) = (m + k) + 1
    BY <1>0
  <2>2. ClassSize[m] <= ClassSize[m + k] /\ ClassSize[m + (k + 1)] = 2 * ClassSize[m + k]
    BY <1>0, <1>2, <2>1, KmallocAssumption
  <2> QED BY <1>0, <2>1, <2>2
<1> HIDE DEF T
<1>3. T = Nat
  <2>1. T \subseteq Nat
    BY DEF T
  <2> QED BY <1>1, <1>2, <2>1, Induction
<1>4. n - m \in Nat /\ m + (n - m) = n
  OBVIOUS
<1> QED BY <1>3, <1>4 DEF T

\* What kmalloc_index finds: a class that is large enough, unless it rounds the
\* size down.
LEMMA IndexFits ==
  ASSUME NEW size \in Nat, kmalloc_index(size) # -1
  PROVE  kmalloc_index(size) \in SizeClass /\ Fits(size, kmalloc_index(size))
<1> DEFINE M == KMALLOC_MAX_ORDER
           D == 0..M + 1
           b == Turns(size)
           multiple == size % ClassSize[0] = 0
<1>1. M \in Nat /\ DOMAIN ClassSize = D /\ \A o \in D : ClassSize[o] \in Nat \ {0}
  BY KmallocAssumption
<1>2. kmalloc_index(size) = IF multiple THEN b - 1 ELSE b
  <2>1. b \in Int
    <3>1. CASE \A k \in D : ClassSize[k] <= size
      BY <1>1, <3>1 DEF Turns
    <3>2. CASE ~ \A k \in D : ClassSize[k] <= size
      <4> DEFINE T == {k \in D : size < ClassSize[k]}
      <4>1. T \in SUBSET Nat /\ T # {}
        BY <1>1, <3>2
      <4>2. PICK k \in T : \A j \in T : k <= j
        BY <4>1, LeastNumber
      <4>3. k \in D /\ size < ClassSize[k] /\ (k = 0 \/ ClassSize[k - 1] <= size)
        BY <1>1, <4>2
      <4>4. b \in D
        BY <1>1, <3>2, <4>3 DEF Turns
      <4> QED BY <1>1, <4>4
    <3> QED BY <3>1, <3>2
  <2> HIDE DEF b, multiple
  <2> QED BY <1>1, <2>1 DEF kmalloc_index, b, multiple
<1>3. b \in D /\ size < ClassSize[b] /\ (b = 0 \/ ClassSize[b - 1] <= size)
  <2>1. CASE \A k \in D : ClassSize[k] <= size
    <3>1. b = M + 2
      BY <1>1, <2>1 DEF Turns
    <3> QED BY <1>1, <3>1 DEF kmalloc_index
  <2>2. CASE ~ \A k \in D : ClassSize[k] <= size
    <3> DEFINE T == {k \in D : size < ClassSize[k]}
    <3>1. T \in SUBSET Nat /\ T # {}
      BY <1>1, <2>2
    <3>2. PICK k \in T : \A j \in T : k <= j
      BY <3>1, LeastNumber
    <3>3. k \in D /\ size < ClassSize[k] /\ (k = 0 \/ ClassSize[k - 1] <= size)
      BY <1>1, <3>2
    <3> QED BY <1>1, <2>2, <3>3 DEF Turns
  <2> QED BY <2>1, <2>2
<1> HIDE DEF b
<1>4. CASE ~multiple
  BY <1>1, <1>2, <1>3, <1>4 DEF kmalloc_index, b, SizeClass, Fits
<1>5. CASE multiple
  <2>1. b - 1 \in SizeClass /\ kmalloc_index(size) = b - 1 /\ ClassSize[b - 1] <= size
    BY <1>1, <1>2, <1>3, <1>5 DEF kmalloc_index, b, SizeClass
  <2>2. CASE size = ClassSize[b - 1]
    BY <1>1, <2>1, <2>2 DEF Fits
  <2>3. CASE size # ClassSize[b - 1]
    <3>1. ASSUME NEW o \in SizeClass, size = ClassSize[o] PROVE FALSE
      <4>1. CASE o <= b - 1
        <5>1. ClassSize[o] <= ClassSize[b - 1]
          BY <1>1, <2>1, <4>1, ClassOrder DEF SizeClass
        <5> QED BY <1>1, <2>1, <2>3, <3>1, <5>1 DEF SizeClass
      <4>2. CASE b <= o
        <5>1. ClassSize[b] <= ClassSize[o]
          BY <1>1, <1>3, <4>2, ClassOrder DEF SizeClass
        <5> QED BY <1>1, <1>3, <3>1, <5>1 DEF SizeClass
      <4> QED BY <1>1, <1>3, <4>1, <4>2 DEF SizeClass
    <3> QED BY <1>5, <2>1, <3>1 DEF Fits, RoundedDown
  <2> QED BY <2>2, <2>3
<1> QED BY <1>4, <1>5

\* The places init_page makes lie behind the head of the page, inside it, and
\* a room apart.
LEMMA RoomsApart ==
  ASSUME NEW o \in SizeClass
  PROVE  /\ Room(o) \in Nat \ {0} /\ PieceCount(o) \in Nat \ {0}
         /\ HeadSize \in Nat /\ PageSize \in Nat /\ ObjSize \in Nat /\ ClassSize[o] \in Nat
         /\ \A x \in Offsets(o) : x \in Nat /\ HeadSize <= x /\ x + Room(o) <= PageSize
         /\ \A x, y \in Offsets(o) : x < y => x + Room(o) <= y
<1> DEFINE R == Room(o)
           F == PageSize - HeadSize
           c == PieceCount(o)
<1>1. /\ ClassSize[o] \in Nat \ {0} /\ HeadSize \in Nat /\ PageSize \in Nat /\ ObjSize \in Nat
      /\ ClassSize[o] <= ClassSize[KMALLOC_MAX_ORDER]
      /\ HeadSize + ObjSize + ClassSize[KMALLOC_MAX_ORDER] <= PageSize
      /\ ClassSize[KMALLOC_MAX_ORDER] \in Nat
  BY KmallocAssumption, ClassOrder DEF SizeClass
<1>2. R \in Nat \ {0} /\ F \in Nat /\ R <= F
  BY <1>1 DEF Room
<1>3. c = F \div R
  BY DEF PieceCount, Room
<1> HIDE DEF R, F, c
<1>4. c \in Int /\ F = R * c + (F % R) /\ F % R \in 0..R - 1
  BY <1>2, <1>3
<1>5. c >= 1
  <2>1. CASE c <= 0
    <3>1. R * c <= 0
      BY <1>2, <1>4, <2>1
    <3>2. F < R
      BY <1>2, <1>4, <3>1
    <3> QED BY <1>2, <3>2
  <2> QED BY <1>4, <2>1
<1>6. R * c <= F
  BY <1>2, <1>4, <1>5
<1>7. ASSUME NEW k \in 0..c - 1
      PROVE  /\ k * R \in Nat /\ k * R + R <= F
  <2>1. (k + 1) * R <= c * R /\ c * R = R * c /\ (k + 1) * R = k * R + R /\ k * R \in Nat
    <3>1. (c - (k + 1)) * R >= 0
      BY <1>2, <1>4
    <3>2. c * R = (c - (k + 1)) * R + (k + 1) * R
      BY <1>2, <1>4
    <3> QED BY <1>2, <1>4, <3>1, <3>2
  <2> QED BY <1>2, <1>4, <1>6, <2>1
<1>8. \A x \in Offsets(o) : \E k \in 0..c - 1 : x = HeadSize + k * R
  BY DEF Offsets, R, c
<1>9. ASSUME NEW x \in Offsets(o)
      PROVE  x \in Nat /\ HeadSize <= x /\ x + R <= PageSize
  <2>1. PICK k \in 0..c - 1 : x = HeadSize + k * R
    BY <1>8
  <2>2. k * R \in Nat /\ k * R + R <= F
    BY <1>7
  <2> QED BY <1>1, <1>2, <2>1, <2>2 DEF F
<1>10. ASSUME NEW x \in Offsets(o), NEW y \in Offsets(o), x < y
       PROVE  x + R <= y
  <2>1. PICK k \in 0..c - 1 : x = HeadSize + k * R
    BY <1>8
  <2>2. PICK l \in 0..c - 1 : y = HeadSize + l * R
    BY <1>8
  <2>3. k * R \in Nat /\ l * R \in Nat /\ k * R < l * R
    BY <1>1, <1>7, <1>10, <2>1, <2>2
  <2>4. l - k >= 1
    <3>1. CASE l - k <= 0
      <4>1. k - l >= 0 /\ k - l \in Int /\ R >= 0 /\ R \in Int /\ k \in Int /\ l \in Int
        BY <1>2, <1>4, <3>1
      <4>2. (k - l) * R >= 0
        BY <4>1
      <4>3. k * R = l * R + (k - l) * R
        BY <4>1
      <4> QED BY <2>3, <4>1, <4>2, <4>3
    <3> QED BY <1>4, <3>1
  <2>5. (l - k) * R >= R /\ l * R = k * R + (l - k) * R
    BY <1>2, <1>4, <2>4
  <2> QED BY <1>1, <1>2, <2>1, <2>2, <2>3, <2>5
<1> QED BY <1>1, <1>2, <1>4, <1>5, <1>9, <1>10 DEF R, c

\* A fresh page: all its places are free, in its list once.
LEMMA InitPage ==
  ASSUME NEW o \in SizeClass
  PROVE  /\ init_page(o) \in HeadRecord /\ init_page(o).index = o
         /\ init_page(o).used = {} /\ init_page(o).free # <<>>
         /\ GoodHead(init_page(o))
<1> DEFINE c == PieceCount(o)
           R == Room(o)
           f == [i \in 1..c |-> HeadSize + (c - i) * R]
<1>1. c \in Nat \ {0} /\ R \in Nat \ {0} /\ HeadSize \in Nat /\ Offsets(o) \subseteq Nat
  BY RoomsApart
<1>2. init_page(o) = [index |-> o, used |-> {}, free |-> f]
  BY DEF init_page, Room
<1>3. \A i \in 1..c : c - i \in 0..c - 1 /\ HeadSize + (c - i) * R \in Offsets(o)
  BY <1>1 DEF Offsets
<1> HIDE DEF c, R
<1>4. f \in Seq(Nat) /\ Len(f) = c /\ DOMAIN f = 1..c
  BY <1>1, <1>3
<1>5. f # <<>>
  BY <1>1, <1>4
<1>6. ToSet(f) \subseteq Offsets(o)
  BY <1>3, <1>4 DEF ToSet
<1>7. Linked(f)
  <2> SUFFICES ASSUME NEW i \in 1..c, NEW j \in 1..c, f[i] = f[j] PROVE i = j
    BY <1>4 DEF Linked
  <2>1. (c - i) * R = (c - j) * R
    BY <1>1
  <2>2. (j - i) * R = 0
    BY <1>1, <2>1
  <2>3. j - i = 0
    <3>1. CASE j - i >= 1
      <4>1. (j - i) * R >= R
        BY <1>1, <3>1
      <4> QED BY <1>1, <2>2, <4>1
    <3>2. CASE j - i <= -1
      <4>1. (j - i) * R <= -R
        BY <1>1, <3>2
      <4> QED BY <1>1, <2>2, <4>1
    <3> QED BY <1>1, <3>1, <3>2
  <2> QED BY <1>1, <2>3
<1> HIDE DEF f
<1> QED BY <1>2, <1>4, <1>5, <1>6, <1>7 DEF HeadRecord, GoodHead

\* A page has one class, so it is on one list at most.
LEMMA OneList ==
  ASSUME KmallocInv, NEW p \in LowPages, NEW o \in SizeClass
  PROVE  p \in ToSet(page_list[o]) <=> Listed(p) /\ page_head[p].index = o
  BY DEF KmallocInv, PagesInv, Listed

LEMMA KmallocInitInv == KmallocInit => KmallocInv
<1> SUFFICES ASSUME KmallocInit PROVE KmallocInv
  OBVIOUS
<1>1. KMALLOC_MAX_ORDER \in Nat /\ 0 \in SizeClass
  BY KmallocAssumption DEF SizeClass
<1>2. UnusedPage \in HeadRecord
  BY <1>1 DEF UnusedPage, HeadRecord
<1>3. KmallocType
  BY <1>2 DEF KmallocInit, KmallocType
<1>4. \A o \in SizeClass : ToSet(page_list[o]) = {} /\ Linked(page_list[o])
  BY DEF KmallocInit, ToSet, Linked
<1>5. \A p \in LowPages : ~Listed(p)
  BY <1>1, <1>4 DEF KmallocInit, UnusedPage, Listed
<1> QED BY <1>3, <1>4, <1>5 DEF KmallocInv, PagesInv, PieceInv, KmallocInit

\* A piece is taken from page p, which has the head h with a free piece: one
\* that is on the list already, or a fresh one that list begins with.
LEMMA TakeInv ==
  ASSUME KmallocInv, NEW p \in LowPages, NEW h \in HeadRecord, NEW list \in Seq(LowPages),
         NEW size \in Nat,
         Linked(list), ToSet(list) = ToSet(page_list[h.index]) \cup {p},
         GoodHead(h), h.free # <<>>, Fits(size, h.index),
         (Listed(p) /\ h = page_head[p]) \/ (~Listed(p) /\ h.used = {}),
         Take(p, h, list, size)
  PROVE  KmallocInv'
<1>1. PICK obj, left, o, new, g :
        /\ obj = Head(h.free) /\ left = Tail(h.free) /\ o = h.index
        /\ new = [page |-> p, at |-> obj + ObjSize, size |-> size]
        /\ g = [h EXCEPT !.used = @ \cup {obj}, !.free = left]
  OBVIOUS
<1>2. PICK l : l = IF left = <<>> THEN list_add(p, list_del(p, list)) ELSE list
  OBVIOUS
<1>3. /\ page_head' = [page_head EXCEPT ![p] = g]
      /\ page_list' = [page_list EXCEPT ![o] = l]
      /\ pieces' = pieces \cup {new}
  BY <1>1, <1>2 DEF Take
<1>4. /\ o \in SizeClass /\ h.used \in SUBSET Nat /\ h.free \in Seq(Nat)
  BY <1>1 DEF HeadRecord
<1>5. /\ obj \in Nat /\ obj \in ToSet(h.free) /\ left \in Seq(Nat) /\ Linked(left)
      /\ ToSet(left) = ToSet(h.free) \ {obj}
  BY <1>1, <1>4, ListPop DEF GoodHead
<1>6. /\ g \in HeadRecord /\ g.index = o /\ g.used = h.used \cup {obj} /\ g.free = left
  BY <1>1, <1>4, <1>5 DEF HeadRecord
<1>7. GoodHead(g)
  BY <1>1, <1>5, <1>6 DEF GoodHead
<1>8. /\ l \in Seq(LowPages) /\ Linked(l) /\ ToSet(l) = ToSet(list)
  <2>1. PICK d : d = list_del(p, list)
    OBVIOUS
  <2>2. d \in Seq(LowPages) /\ Linked(d) /\ ToSet(d) = ToSet(list) \ {p}
    BY <2>1, ListDel
  <2>3. /\ list_add(p, d) \in Seq(LowPages) /\ Linked(list_add(p, d))
        /\ ToSet(list_add(p, d)) = ToSet(d) \cup {p}
    <3>1. p \notin ToSet(d)
      BY <2>2
    <3>2. d \in Seq(LowPages) /\ Linked(d)
      BY <2>2
    <3> QED BY ONLY <3>1, <3>2, ListAdd, p \in LowPages
  <2>4. p \in ToSet(list)
    OBVIOUS
  <2>5. ToSet(list_add(p, d)) = ToSet(list)
    BY <2>2, <2>3, <2>4
  <2> QED BY <1>2, <2>1, <2>3, <2>5
<1>9. /\ new \in [page : LowPages, at : Nat, size : Nat]
      /\ new.page = p /\ new.at = obj + ObjSize /\ new.size = size
  <2>1. ObjSize \in Nat /\ obj + ObjSize \in Nat
    BY <1>5, KmallocAssumption
  <2> QED BY <1>1, <2>1
<1>10. KmallocType'
  BY <1>3, <1>4, <1>6, <1>8, <1>9 DEF KmallocInv, KmallocType
<1>11. /\ page_head'[p] = g
       /\ \A q \in LowPages : q # p => page_head'[q] = page_head[q]
       /\ page_list'[o] = l
       /\ \A k \in SizeClass : k # o => page_list'[k] = page_list[k]
  BY <1>3, <1>4 DEF KmallocInv, KmallocType
<1>12. /\ \A k \in SizeClass : \A q \in LowPages : q # p =>
            (q \in ToSet(page_list'[k]) <=> q \in ToSet(page_list[k]))
       /\ p \in ToSet(page_list'[o])
       /\ \A k \in SizeClass : p \in ToSet(page_list'[k]) => k = o
  <2>1. \A k \in SizeClass : p \in ToSet(page_list[k]) => k = o
    BY <1>1, OneList
  <2> QED BY <1>1, <1>4, <1>8, <1>11, <2>1
<1>13. Listed(p)' /\ \A q \in LowPages : q # p => (Listed(q)' <=> Listed(q))
  <2>1. \A q \in LowPages : page_head[q].index \in SizeClass
    BY DEF KmallocInv, KmallocType, HeadRecord
  <2> QED BY <1>6, <1>11, <1>12, <2>1 DEF Listed
<1>14. ~Listed(p) => \A a \in pieces : a.page # p
  BY DEF KmallocInv, PieceInv
<1>15. obj \notin h.used
  BY <1>5 DEF GoodHead
<1>16. PagesInv'
  <2>1. \A k \in SizeClass : Linked(page_list'[k])
    BY <1>8, <1>11 DEF KmallocInv, PagesInv
  <2>2. \A k \in SizeClass : \A q \in ToSet(page_list'[k]) : page_head'[q].index = k
    <3> SUFFICES ASSUME NEW k \in SizeClass, NEW q \in ToSet(page_list'[k])
                 PROVE  page_head'[q].index = k
      OBVIOUS
    <3>1. q \in LowPages
      BY <1>10, ToSetElements DEF KmallocType
    <3> QED BY <1>6, <1>11, <1>12, <3>1 DEF KmallocInv, PagesInv
  <2>3. ASSUME NEW q \in LowPages, Listed(q)'
        PROVE  /\ GoodHead(page_head'[q]) /\ page_head'[q].used # {}
               /\ \A x \in page_head'[q].used : \E a \in pieces' : a.page = q /\ a.at = x + ObjSize
    <3>1. CASE q = p
      <4>1. \A x \in h.used : \E a \in pieces : a.page = p /\ a.at = x + ObjSize
        BY DEF KmallocInv, PagesInv
      <4> QED BY <1>3, <1>6, <1>7, <1>9, <1>11, <3>1, <4>1
    <3>2. CASE q # p
      BY <1>3, <1>11, <1>13, <2>3, <3>2 DEF KmallocInv, PagesInv
    <3> QED BY <3>1, <3>2
  <2> QED BY <2>1, <2>2, <2>3 DEF PagesInv, GoodHead
<1>17. PieceInv'
  <2>1. ASSUME NEW a \in pieces'
        PROVE  /\ Listed(a.page)' /\ a.at - ObjSize \in page_head'[a.page].used
               /\ Fits(a.size, page_head'[a.page].index)
    <3>1. CASE a = new
      <4>1. new.at - ObjSize = obj
        BY <1>5, <1>9, KmallocAssumption
      <4> QED BY <1>1, <1>6, <1>9, <1>11, <1>13, <3>1, <4>1
    <3>2. CASE a # new
      <4>1. /\ a \in pieces /\ a.page \in LowPages /\ Listed(a.page)
            /\ a.at - ObjSize \in page_head[a.page].used
            /\ Fits(a.size, page_head[a.page].index)
        BY <1>3, <3>2 DEF KmallocInv, KmallocType, PieceInv
      <4> QED BY <1>1, <1>6, <1>11, <1>13, <4>1, ZenonT(40)
    <3> QED BY <3>1, <3>2
  <2>2. ASSUME NEW a \in pieces, a.page = p PROVE a.at # new.at
    <3>1. a.at - ObjSize \in h.used /\ a.at \in Nat
      BY <1>14, <2>2 DEF KmallocInv, KmallocType, PieceInv
    <3>2. obj \in Nat /\ ObjSize \in Nat
      BY <1>5, KmallocAssumption
    <3>3. a.at = obj + ObjSize => a.at - ObjSize = obj
      BY <3>1, <3>2
    <3> QED BY <1>9, <1>15, <3>1, <3>3
  <2>3. \A a, b \in pieces' : a.page = b.page /\ a.at = b.at => a = b
    BY <1>3, <1>9, <2>2 DEF KmallocInv, PieceInv
  <2>4. \A a \in pieces' : /\ Listed(a.page)' /\ a.at - ObjSize \in page_head'[a.page].used
                           /\ Fits(a.size, page_head'[a.page].index)
    BY <2>1
  <2> QED BY <2>3, <2>4 DEF PieceInv, Fits
<1> QED BY <1>10, <1>16, <1>17 DEF KmallocInv

LEMMA Members ==
  ASSUME NEW l, NEW e
  PROVE  Contains(l, e) <=> e \in ToSet(l)
BY DEF Contains, ToSet

\* A request takes a piece of the first page of its class, or a fresh page that
\* is on no list, or nothing.
LEMMA KmallocStep ==
  ASSUME KmallocInv, NEW size \in Requests, kmalloc(size)
  PROVE  KmallocInv'
<1>1. PICK index, list, inuse :
        /\ index = kmalloc_index(size) /\ list = page_list[index]
        /\ inuse = {p \in LowPages : \E o \in SizeClass : Contains(page_list[o], p)}
  OBVIOUS
<1>2. size \in Nat /\ index \in SizeClass /\ Fits(size, index)
  BY <1>1, IndexFits, KmallocAssumption DEF kmalloc
<1>3. list \in Seq(LowPages) /\ Linked(list)
  BY <1>1, <1>2 DEF KmallocInv, KmallocType, PagesInv
<1>4. CASE /\ list # <<>> /\ page_head[Head(list)].free # <<>>
           /\ Take(Head(list), page_head[Head(list)], list, size)
  <2>1. PICK p, h : p = Head(list) /\ h = page_head[p]
    OBVIOUS
  <2>2. p \in LowPages /\ p \in ToSet(list)
    BY <1>3, <1>4, <2>1, ListPop
  <2>3. Listed(p) /\ h.index = index
    BY <1>1, <1>2, <2>1, <2>2, OneList
  <2>4. h \in HeadRecord /\ GoodHead(h)
    BY <2>1, <2>2, <2>3 DEF KmallocInv, KmallocType, PagesInv
  <2>5. ToSet(list) = ToSet(page_list[h.index]) \cup {p}
    BY <1>1, <2>2, <2>3
  <2>6. Take(p, h, list, size) /\ h.free # <<>>
    BY <1>4, <2>1
  <2> QED BY <1>2, <1>3, <2>1, <2>2, <2>3, <2>4, <2>5, <2>6, TakeInv
<1>5. ASSUME NEW p \in LowPages \ inuse, Take(p, init_page(index), list_add(p, list), size)
      PROVE  KmallocInv'
  <2>1. PICK h : h = init_page(index)
    OBVIOUS
  <2>2. PICK l : l = list_add(p, list)
    OBVIOUS
  <2>3. /\ h \in HeadRecord /\ h.index = index /\ h.used = {} /\ h.free # <<>>
        /\ GoodHead(h)
    BY <1>2, <2>1, InitPage
  <2>4. \A o \in SizeClass : p \notin ToSet(page_list[o])
    BY <1>1, <1>5, Members
  <2>5. ~Listed(p)
    BY <2>4 DEF Listed, KmallocInv, KmallocType, HeadRecord
  <2>6. p \in LowPages /\ p \notin ToSet(list)
    BY <1>1, <1>2, <2>4
  <2>7. l \in Seq(LowPages) /\ Linked(l) /\ ToSet(l) = ToSet(list) \cup {p}
    <3>1. /\ list_add(p, list) \in Seq(LowPages) /\ Linked(list_add(p, list))
          /\ ToSet(list_add(p, list)) = ToSet(list) \cup {p}
      BY ONLY <1>3, <2>6, ListAdd
    <3> QED BY <2>2, <3>1
  <2>8. Take(p, h, l, size) /\ ToSet(l) = ToSet(page_list[h.index]) \cup {p}
    BY <1>1, <1>5, <2>1, <2>2, <2>3, <2>7
  <2> QED BY <1>2, <2>3, <2>5, <2>6, <2>7, <2>8, TakeInv
<1>6. CASE UNCHANGED kmalloc_vars
  BY <1>6 DEF kmalloc_vars, KmallocInv, KmallocType, PagesInv, PieceInv, Listed, GoodHead, Fits
<1> QED BY <1>1, <1>4, <1>5, <1>6 DEF kmalloc

\* A piece goes back to the front of its page's free list; the page leaves its
\* list with the last one.
LEMMA KfreeStep ==
  ASSUME KmallocInv, NEW a \in pieces, kfree(a)
  PROVE  KmallocInv'
<1>1. PICK p, obj, h, o, list :
        /\ p = a.page /\ obj = a.at - ObjSize
        /\ h = page_head[p] /\ o = h.index /\ list = page_list[o]
  OBVIOUS
<1>2. /\ p \in LowPages /\ a.at \in Nat /\ h \in HeadRecord /\ o \in SizeClass
      /\ h.used \in SUBSET Nat /\ h.free \in Seq(Nat) /\ list \in Seq(LowPages)
  BY <1>1 DEF KmallocInv, KmallocType, HeadRecord
<1>3. Listed(p) /\ obj \in h.used /\ GoodHead(h) /\ Linked(list) /\ p \in ToSet(list)
  BY <1>1, <1>2 DEF KmallocInv, PagesInv, PieceInv, Listed
<1>4. PICK g : g = [h EXCEPT !.used = @ \ {obj}, !.free = list_add(obj, @)]
  OBVIOUS
<1>5. PICK l : l = IF g.used = {} THEN list_del(p, list) ELSE list_add(p, list_del(p, list))
  OBVIOUS
<1>6. /\ g.index = o /\ g.used = h.used \ {obj} /\ g.free = list_add(obj, h.free)
  BY <1>1, <1>2, <1>4 DEF HeadRecord
<1>7. /\ page_head' = [page_head EXCEPT ![p] = g]
      /\ page_list' = [page_list EXCEPT ![o] = l]
      /\ pieces' = pieces \ {a}
  BY <1>1, <1>4, <1>5, <1>6 DEF kfree
<1>8. /\ g.free \in Seq(Nat) /\ Linked(g.free) /\ ToSet(g.free) = ToSet(h.free) \cup {obj}
  <2>1. obj \in Nat /\ obj \notin ToSet(h.free) /\ Linked(h.free)
    BY <1>2, <1>3 DEF GoodHead
  <2>2. h.free \in Seq(Nat)
    BY <1>2
  <2>3. PICK f : f = h.free
    OBVIOUS
  <2>4. /\ list_add(obj, f) \in Seq(Nat) /\ Linked(list_add(obj, f))
        /\ ToSet(list_add(obj, f)) = ToSet(f) \cup {obj}
    BY ONLY <2>1, <2>2, <2>3, ListAdd
  <2> QED BY <1>6, <2>3, <2>4
<1>9. g \in HeadRecord /\ GoodHead(g)
  <2>1. g \in HeadRecord
    BY <1>2, <1>4, <1>6, <1>8 DEF HeadRecord
  <2>2. ToSet(g.free) \cap g.used = {} /\ ToSet(g.free) \cup g.used \subseteq Offsets(g.index)
    BY <1>1, <1>3, <1>6, <1>8 DEF GoodHead
  <2> QED BY <1>8, <2>1, <2>2 DEF GoodHead
<1>10. /\ l \in Seq(LowPages) /\ Linked(l)
       /\ \A q : q # p => (q \in ToSet(l) <=> q \in ToSet(list))
       /\ p \in ToSet(l) <=> g.used # {}
  <2>1. PICK d : d = list_del(p, list)
    OBVIOUS
  <2>2. d \in Seq(LowPages) /\ Linked(d) /\ ToSet(d) = ToSet(list) \ {p}
    BY <1>2, <1>3, <2>1, ListDel
  <2>3. p \notin ToSet(d) /\ d \in Seq(LowPages) /\ Linked(d) /\ p \in LowPages
    BY <1>2, <2>2
  <2>4. /\ list_add(p, d) \in Seq(LowPages) /\ Linked(list_add(p, d))
        /\ ToSet(list_add(p, d)) = ToSet(d) \cup {p}
    BY ONLY <2>3, ListAdd
  <2> QED BY <1>5, <2>1, <2>2, <2>4
<1>11. KmallocType'
  BY <1>2, <1>7, <1>9, <1>10 DEF KmallocInv, KmallocType
<1>12. /\ page_head'[p] = g
       /\ \A q \in LowPages : q # p => page_head'[q] = page_head[q]
       /\ page_list'[o] = l
       /\ \A k \in SizeClass : k # o => page_list'[k] = page_list[k]
  BY <1>2, <1>7 DEF KmallocInv, KmallocType
<1>13. /\ \A k \in SizeClass : \A q \in LowPages : q # p =>
            (q \in ToSet(page_list'[k]) <=> q \in ToSet(page_list[k]))
       /\ \A k \in SizeClass : p \in ToSet(page_list'[k]) => k = o
  <2>1. \A k \in SizeClass : p \in ToSet(page_list[k]) => k = o
    BY <1>1, <1>2, OneList
  <2> QED BY <1>1, <1>2, <1>10, <1>12, <2>1
<1>14. /\ Listed(p)' <=> g.used # {}
       /\ \A q \in LowPages : q # p => (Listed(q)' <=> Listed(q))
  <2>1. \A q \in LowPages : page_head[q].index \in SizeClass
    BY DEF KmallocInv, KmallocType, HeadRecord
  <2> QED BY <1>2, <1>6, <1>10, <1>12, <1>13, <2>1 DEF Listed
<1>15. ObjSize \in Nat
  BY KmallocAssumption
<1>16. PagesInv'
  <2>1. \A k \in SizeClass : Linked(page_list'[k])
    BY <1>10, <1>12 DEF KmallocInv, PagesInv
  <2>2. \A k \in SizeClass : \A q \in ToSet(page_list'[k]) : page_head'[q].index = k
    <3> SUFFICES ASSUME NEW k \in SizeClass, NEW q \in ToSet(page_list'[k])
                 PROVE  page_head'[q].index = k
      OBVIOUS
    <3>1. q \in LowPages
      BY <1>11, ToSetElements DEF KmallocType
    <3> QED BY <1>6, <1>12, <1>13, <3>1 DEF KmallocInv, PagesInv
  <2>3. ASSUME NEW q \in LowPages, Listed(q)'
        PROVE  /\ GoodHead(page_head'[q]) /\ page_head'[q].used # {}
               /\ \A x \in page_head'[q].used : \E b \in pieces' : b.page = q /\ b.at = x + ObjSize
    <3>1. CASE q = p
      <4>1. ASSUME NEW x \in g.used
            PROVE  \E b \in pieces' : b.page = p /\ b.at = x + ObjSize
        <5>1. PICK b \in pieces : b.page = p /\ b.at = x + ObjSize
          BY <1>1, <1>2, <1>3, <1>6 DEF KmallocInv, PagesInv
        <5>2. x # obj /\ x \in Nat
          BY <1>2, <1>6
        <5>3. b.at - ObjSize = x
          BY <1>15, <5>1, <5>2
        <5>4. b # a
          BY <1>1, <5>2, <5>3
        <5> QED BY <1>7, <5>1, <5>4
      <4> QED BY <1>9, <1>12, <1>14, <2>3, <3>1, <4>1
    <3>2. CASE q # p
      <4>1. Listed(q) /\ page_head'[q] = page_head[q]
        BY <1>12, <1>14, <2>3, <3>2
      <4>2. \A x \in page_head[q].used : \E b \in pieces : b.page = q /\ b.at = x + ObjSize
        BY <4>1 DEF KmallocInv, PagesInv
      <4>3. \A x \in page_head[q].used : \E b \in pieces' : b.page = q /\ b.at = x + ObjSize
        BY <1>1, <1>7, <3>2, <4>2
      <4> QED BY <4>1, <4>3 DEF KmallocInv, PagesInv
    <3> QED BY <3>1, <3>2
  <2> QED BY <2>1, <2>2, <2>3 DEF PagesInv, GoodHead
<1>17. PieceInv'
  <2>1. ASSUME NEW b \in pieces'
        PROVE  /\ Listed(b.page)' /\ b.at - ObjSize \in page_head'[b.page].used
               /\ Fits(b.size, page_head'[b.page].index)
    <3>1. /\ b \in pieces /\ b # a /\ b.page \in LowPages /\ b.at \in Nat /\ Listed(b.page)
          /\ b.at - ObjSize \in page_head[b.page].used
          /\ Fits(b.size, page_head[b.page].index)
      BY <1>7 DEF KmallocInv, KmallocType, PieceInv
    <3>2. CASE b.page = p
      <4>1. b.at # a.at
        BY <1>1, <3>1, <3>2 DEF KmallocInv, PieceInv
      <4>2. b.at - ObjSize # obj
        BY <1>1, <1>2, <1>15, <3>1, <4>1
      <4>3. b.at - ObjSize \in g.used
        BY <1>1, <1>6, <3>1, <3>2, <4>2
      <4> QED BY <1>1, <1>6, <1>12, <1>14, <3>1, <3>2, <4>3
    <3>3. CASE b.page # p
      BY <1>12, <1>14, <3>1, <3>3
    <3> QED BY <3>2, <3>3
  <2>2. \A b \in pieces' : /\ Listed(b.page)' /\ b.at - ObjSize \in page_head'[b.page].used
                           /\ Fits(b.size, page_head'[b.page].index)
    BY <2>1
  <2>3. \A b, c \in pieces' : b.page = c.page /\ b.at = c.at => b = c
    BY <1>7 DEF KmallocInv, PieceInv
  <2> QED BY <2>2, <2>3 DEF PieceInv, Fits
<1> QED BY <1>11, <1>16, <1>17 DEF KmallocInv

\* kmalloc.c: a page on a list is of its class and has pieces in use, the free
\* list of a page and its pieces in use share no place, and every piece handed
\* out is a place in use, of a class that is large enough unless its size was
\* rounded down; whatever is asked for and returned, in any order.
THEOREM KmallocInvariant == KmallocSpec => []KmallocInv
<1>1. KmallocInv /\ [KmallocNext]_kmalloc_vars => KmallocInv'
  <2>1. ASSUME KmallocInv, UNCHANGED kmalloc_vars PROVE KmallocInv'
    BY <2>1 DEF kmalloc_vars, KmallocInv, KmallocType, PagesInv, PieceInv, Listed, GoodHead, Fits
  <2> QED BY <2>1, KmallocStep, KfreeStep DEF KmallocNext
<1> QED BY <1>1, KmallocInitInv, PTL DEF KmallocSpec

\* No two pieces that are handed out overlap, nor does one overlap a page head
\* or another's links, unless its size was rounded down; and a page is on the
\* list of its class exactly while it has a piece handed out.
THEOREM PiecesAreDisjoint == KmallocSpec => []PiecesDisjoint
<1>1. KmallocInv => PiecesDisjoint
  <2> SUFFICES ASSUME KmallocInv PROVE PiecesDisjoint
    OBVIOUS
  <2>0. ObjSize \in Nat
    BY KmallocAssumption
  <2>1. \A a, b \in pieces : a # b => a.page # b.page \/ a.at # b.at
    BY DEF KmallocInv, PieceInv
  <2>2. ASSUME NEW a \in pieces
        PROVE  /\ a.page \in LowPages /\ a.at \in Nat /\ a.size \in Nat
               /\ Listed(a.page) /\ page_head[a.page].index \in SizeClass
               /\ a.at - ObjSize \in Offsets(page_head[a.page].index)
               /\ Fits(a.size, page_head[a.page].index)
    BY DEF KmallocInv, KmallocType, PagesInv, PieceInv, GoodHead, HeadRecord
  <2>3. ASSUME NEW a \in pieces, ~RoundedDown(a.size)
        PROVE  /\ a.at >= HeadSize + ObjSize /\ a.at + a.size <= PageSize
               /\ \A b \in pieces \ {a} :
                    a.page = b.page /\ a.at < b.at => a.at + a.size <= b.at - ObjSize
    <3>0. PICK o, x : o = page_head[a.page].index /\ x = a.at - ObjSize
      OBVIOUS
    <3>1. o \in SizeClass /\ x \in Offsets(o)
      BY <2>2, <3>0
    <3>2. /\ ClassSize[o] \in Nat /\ HeadSize \in Nat /\ PageSize \in Nat
          /\ Room(o) \in Nat /\ x \in Nat /\ HeadSize <= x /\ x + Room(o) <= PageSize
          /\ \A y \in Offsets(o) : x < y => x + Room(o) <= y /\ y \in Nat
      BY <3>1, RoomsApart
    <3>3. Room(o) = ObjSize + ClassSize[o] /\ a.size <= ClassSize[o]
      BY <2>2, <2>3, <3>0 DEF Room, Fits
    <3>4. a.at \in Nat /\ a.size \in Nat /\ a.at = x + ObjSize
      BY <2>0, <2>2, <3>0
    <3>5. ASSUME NEW b \in pieces, a.page = b.page, a.at < b.at
          PROVE  a.at + a.size <= b.at - ObjSize
      <4>1. b.at \in Nat /\ b.at - ObjSize \in Offsets(o)
        BY <2>2, <3>0, <3>5
      <4>2. PICK y : y = b.at - ObjSize
        OBVIOUS
      <4>3. y \in Offsets(o) /\ y \in Int /\ x < y
        BY <2>0, <3>2, <3>4, <3>5, <4>1, <4>2
      <4>4. x + Room(o) <= y
        BY <3>2, <4>3
      <4>5. a.at + a.size <= y
        BY <2>0, <3>2, <3>3, <3>4, <4>3, <4>4
      <4> QED BY <4>2, <4>5
    <3> QED BY <2>0, <3>2, <3>3, <3>4, <3>5
  <2>4. ASSUME NEW o \in SizeClass, NEW p \in LowPages
        PROVE  Contains(page_list[o], p) <=>
                 page_head[p].index = o /\ \E piece \in pieces : piece.page = p
    <3>1. Contains(page_list[o], p) <=> Listed(p) /\ page_head[p].index = o
      BY OneList, Members
    <3>2. Listed(p) => \E piece \in pieces : piece.page = p
      BY DEF KmallocInv, PagesInv
    <3> QED BY <2>2, <3>1, <3>2
  <2> QED BY <2>1, <2>3, <2>4 DEF PiecesDisjoint
<1> QED BY <1>1, KmallocInvariant, PTL
-----------------------------------------------------------------------------
(* The pages of the programs                                               *)

Address == 0..Top - 1
Loading == {"load", "argv", "argc", "stack", "return"}
Phases == {"none", "copy", "dir", "user", "exit", "reaped"} \cup Loading

ProcRecord == [at : Phases, task : Normal \cup {Nil}, pgd : Normal \cup {Nil},
               n : Nat, len : Nat, ok : BOOLEAN]
UserType ==
  /\ free_pages \subseteq AnyPage
  /\ caller \in [Task -> Normal \cup {Nil}]
  /\ proc \in [Task -> ProcRecord]
  /\ dir \in [Task -> [Dir -> Normal \cup {Nil}]]
  /\ pte \in [Normal -> [Slot -> AnyPage \cup {Nil}]]

\* The roles a page can have.
IsArg(p) == \E t \in Task : caller[t] = p
IsTask(p) == \E t \in Task : proc[t].task = p
IsDir(p) == \E t \in Task : proc[t].pgd = p
IsTable(p) == \E t \in Task : \E i \in Dir : dir[t][i] = p
IsEntry(p) == \E q \in Normal : \E j \in Slot : pte[q][j] = p

\* Every page is free or has one role; a page that is no table is empty.
OneRole(p) ==
  /\ p \in free_pages \/ IsArg(p) \/ IsTask(p) \/ IsDir(p) \/ IsTable(p) \/ IsEntry(p)
  /\ p \in free_pages => ~IsArg(p) /\ ~IsTask(p) /\ ~IsDir(p) /\ ~IsTable(p) /\ ~IsEntry(p)
  /\ IsArg(p) => ~IsTask(p) /\ ~IsDir(p) /\ ~IsTable(p) /\ ~IsEntry(p)
  /\ IsTask(p) => ~IsDir(p) /\ ~IsTable(p) /\ ~IsEntry(p)
  /\ IsDir(p) => ~IsTable(p) /\ ~IsEntry(p)
  /\ IsTable(p) => ~IsEntry(p)
Roles == /\ \A p \in AnyPage : OneRole(p)
         /\ \A p \in Normal : IsTable(p) \/ pte[p] = NoTable

\* No page has its role twice.
Distinct ==
  /\ \A t, u \in Task : caller[t] = caller[u] => caller[t] = Nil \/ t = u
  /\ \A t, u \in Task : proc[t].task = proc[u].task => proc[t].task = Nil \/ t = u
  /\ \A t, u \in Task : proc[t].pgd = proc[u].pgd => proc[t].pgd = Nil \/ t = u
  /\ \A t, u \in Task : \A i, k \in Dir :
       dir[t][i] = dir[u][k] => dir[t][i] = Nil \/ (t = u /\ i = k)
  /\ \A p, q \in Normal : \A j, k \in Slot :
       pte[p][j] = pte[q][k] => pte[p][j] = Nil \/ (p = q /\ j = k)

\* The addresses of a program that are mapped: those below n, and S.
MappedIs(t, n, S) == \A a \in Address : IsMapped(t, a) <=> a < n \/ a \in S

\* What a program has at every point of exec.
Has(t) ==
  /\ (proc[t].task # Nil) <=> proc[t].at \notin {"none", "copy", "reaped"}
  /\ (proc[t].pgd # Nil) <=> proc[t].at \notin {"none", "copy", "dir", "reaped"}
  /\ proc[t].at \in {"none", "copy", "dir", "reaped"} => dir[t] = NoDir /\ proc[t].n = 0
  /\ proc[t].at = "none" => caller[t] = Nil
  /\ proc[t].at \in Loading \cup {"copy", "dir", "reaped"} => caller[t] # Nil
  /\ proc[t].at = "exit" /\ ~proc[t].ok => caller[t] # Nil
  /\ proc[t].at = "user" => proc[t].ok
  /\ proc[t].at \in Loading \cup {"copy", "dir", "user"} => proc[t].len < Top - 3
Holds(t) ==
  /\ proc[t].at = "load" => proc[t].n <= proc[t].len /\ MappedIs(t, proc[t].n, {})
  /\ proc[t].at = "argv" => MappedIs(t, proc[t].len + 1, {})
  /\ proc[t].at = "argc" => MappedIs(t, proc[t].len + 1, {Top - 2})
  /\ proc[t].at = "stack" => MappedIs(t, proc[t].len + 1, {Top - 2, Top - 1})
  /\ proc[t].at = "user" \/ (proc[t].at = "return" /\ proc[t].ok) =>
       MappedIs(t, proc[t].len + 1, {Top - 3, Top - 2, Top - 1})
Progress == \A t \in Task : Has(t) /\ Holds(t)

UserInv == UserType /\ Distinct /\ Roles /\ Progress
-----------------------------------------------------------------------------
\* Every address has a place of its own in the tables.
LEMMA Places ==
  /\ PerTable \in Nat \ {0} /\ Top \in Nat
  /\ \A a \in Address : a \div PerTable \in Dir /\ a % PerTable \in Slot
  /\ \A a, b \in Address :
       a \div PerTable = b \div PerTable /\ a % PerTable = b % PerTable => a = b
<1> DEFINE P == PerTable
           k == Top \div P
<1>1. P \in Nat /\ P > 0 /\ Top \in Nat /\ Top % P = 0
  BY UserAssumption
<1>2. \A a \in Int : a = P * (a \div P) + (a % P) /\ a \div P \in Int /\ a % P \in 0..P - 1
  BY <1>1
<1>3. k \in Int /\ Top = P * k
  BY <1>1, <1>2
<1>4. ASSUME NEW a \in Address PROVE a \div P \in Dir /\ a % P \in Slot
  <2> DEFINE q == a \div P
             r == a % P
  <2>1. q \in Int /\ r \in 0..P - 1 /\ a = P * q + r /\ 0 <= a /\ a < P * k
    BY <1>1, <1>2, <1>3 DEF Address
  <2> HIDE DEF q, r, P, k
  <2>2. q < k
    <3>1. CASE q >= k
      <4>1. P * q >= P * k
        BY <1>1, <1>3, <2>1, <3>1
      <4> QED BY <1>1, <1>3, <2>1, <4>1
    <3> QED BY <1>3, <2>1, <3>1
  <2>3. q >= 0
    <3>1. CASE q <= -1
      <4>1. P * q <= -P
        BY <1>1, <2>1, <3>1
      <4> QED BY <1>1, <2>1, <4>1
    <3> QED BY <2>1, <3>1
  <2>4. q \in 0..k - 1 /\ r \in 0..P - 1
    BY <1>3, <2>1, <2>2, <2>3
  <2> QED BY <2>4 DEF q, r, P, k, Dir, Slot
<1>5. ASSUME NEW a \in Address, NEW b \in Address, a \div P = b \div P, a % P = b % P
      PROVE  a = b
  <2>1. a \in Int /\ b \in Int
    BY <1>1 DEF Address
  <2>2. a = P * (a \div P) + (a % P) /\ b = P * (b \div P) + (b % P)
    BY <1>2, <2>1
  <2> QED BY <1>5, <2>2
<1> QED BY <1>1, <1>4, <1>5

LEMMA Picked == ASSUME NEW S, S # {} PROVE Some(S) \in S
  BY DEF Some

\* The facts about pages that every step uses.
LEMMA PageFacts ==
  /\ Nil \notin AnyPage /\ Normal \subseteq AnyPage /\ High \subseteq AnyPage
  /\ LowFree \subseteq Normal /\ LowFree \subseteq free_pages
  /\ NoDir \in [Dir -> Normal \cup {Nil}] /\ NoTable \in [Slot -> AnyPage \cup {Nil}]
  /\ \A i \in Dir : NoDir[i] = Nil
  /\ \A j \in Slot : NoTable[j] = Nil
  BY UserAssumption DEF AnyPage, LowFree, NoDir, NoTable, Dir

LEMMA UserInitInv == UserInit => UserInv
<1> SUFFICES ASSUME UserInit PROVE UserInv
  OBVIOUS
<1>1. UserType
  <2>1. NoTask \in ProcRecord
    BY DEF NoTask, ProcRecord, Phases
  <2> QED BY <2>1, PageFacts DEF UserInit, UserType
<1>2. Distinct
  BY PageFacts DEF UserInit, Distinct, NoTask
<1>3. Roles
  BY PageFacts DEF UserInit, Roles, OneRole, IsArg, IsTask, IsDir, IsTable, IsEntry, NoTask
<1>4. Progress
  BY DEF UserInit, Progress, Has, Holds, NoTask, Loading
<1> QED BY <1>1, <1>2, <1>3, <1>4 DEF UserInv
-----------------------------------------------------------------------------
(* The steps that take a page for the program and touch no table. *)

\* The tables stay what they are.
LEMMA SameTables ==
  ASSUME UserType, UNCHANGED <<dir, pte>>
  PROVE  /\ \A p : IsTable(p)' <=> IsTable(p)
         /\ \A p : IsEntry(p)' <=> IsEntry(p)
         /\ \A t, a : IsMapped(t, a)' <=> IsMapped(t, a)
  BY DEF IsTable, IsEntry, IsMapped

\* What a step does to the roles of pages if it changes the fields of one task.
LEMMA FieldRoles ==
  ASSUME UserInv, UserType', NEW t \in Task,
         \A u \in Task : u # t => caller'[u] = caller[u] /\ proc'[u] = proc[u]
  PROVE  \A q \in AnyPage :
           /\ IsArg(q)' <=> q = caller'[t] \/ (IsArg(q) /\ q # caller[t])
           /\ IsTask(q)' <=> q = proc'[t].task \/ (IsTask(q) /\ q # proc[t].task)
           /\ IsDir(q)' <=> q = proc'[t].pgd \/ (IsDir(q) /\ q # proc[t].pgd)
<1> SUFFICES ASSUME NEW q \in AnyPage
             PROVE  /\ IsArg(q)' <=> q = caller'[t] \/ (IsArg(q) /\ q # caller[t])
                    /\ IsTask(q)' <=> q = proc'[t].task \/ (IsTask(q) /\ q # proc[t].task)
                    /\ IsDir(q)' <=> q = proc'[t].pgd \/ (IsDir(q) /\ q # proc[t].pgd)
  OBVIOUS
<1>1. q # Nil
  BY PageFacts
<1>2. IsArg(q)' <=> q = caller'[t] \/ (IsArg(q) /\ q # caller[t])
  BY <1>1 DEF UserInv, Distinct, IsArg
<1>3. IsTask(q)' <=> q = proc'[t].task \/ (IsTask(q) /\ q # proc[t].task)
  BY <1>1 DEF UserInv, Distinct, IsTask
<1>4. IsDir(q)' <=> q = proc'[t].pgd \/ (IsDir(q) /\ q # proc[t].pgd)
  BY <1>1 DEF UserInv, Distinct, IsDir
<1> QED BY <1>2, <1>3, <1>4

\* A step that changes the fields of one task and no table: a page it writes
\* into one was there before or was free, and it gives back what it clears.
LEMMA FieldStep ==
  ASSUME UserInv, UNCHANGED <<dir, pte>>,
         NEW t \in Task, NEW c \in Normal \cup {Nil}, NEW r \in ProcRecord,
         caller' = [caller EXCEPT ![t] = c], proc' = [proc EXCEPT ![t] = r],
         c \in {Nil, caller[t]} \cup free_pages,
         r.task \in {Nil, proc[t].task} \cup free_pages,
         r.pgd \in {Nil, proc[t].pgd} \cup free_pages,
         c # Nil => c # r.task /\ c # r.pgd,
         r.task # Nil => r.task # r.pgd,
         free_pages' = (free_pages \cup {caller[t], proc[t].task, proc[t].pgd})
                         \ {c, r.task, r.pgd, Nil},
         Has(t)', Holds(t)'
  PROVE  UserInv'
<1>a. UserType'
  <2>1. proc[t].task \in Normal \cup {Nil} /\ proc[t].pgd \in Normal \cup {Nil}
    BY DEF UserInv, UserType, ProcRecord
  <2> QED BY <2>1, PageFacts DEF UserInv, UserType
<1>b. /\ caller'[t] = c /\ proc'[t] = r
      /\ \A u \in Task : u # t => caller'[u] = caller[u] /\ proc'[u] = proc[u]
  BY DEF UserInv, UserType
<1>1. Roles'
  <2>1. \A q \in AnyPage : OneRole(q)'
    <3> SUFFICES ASSUME NEW q \in AnyPage PROVE OneRole(q)'
      OBVIOUS
    <3>1. OneRole(q) /\ q # Nil
      BY PageFacts DEF UserInv, Roles
    <3>2. /\ q = caller[t] => IsArg(q)
          /\ q = proc[t].task => IsTask(q)
          /\ q = proc[t].pgd => IsDir(q)
      BY DEF IsArg, IsTask, IsDir
    <3>4. q \in free_pages' <=> /\ q \in free_pages \cup {caller[t], proc[t].task, proc[t].pgd}
                              /\ q \notin {c, r.task, r.pgd}
      BY <3>1
    <3>3. (IsTable(q)' <=> IsTable(q)) /\ (IsEntry(q)' <=> IsEntry(q))
      BY SameTables DEF UserInv
    <3> QED BY <3>1, <3>2, <3>3, <3>4, <1>a, <1>b, FieldRoles DEF OneRole
  <2>2. \A q \in Normal : (IsTable(q) \/ pte[q] = NoTable)'
    BY SameTables DEF UserInv, Roles
  <2> QED BY <2>1, <2>2 DEF Roles
<1>2. Distinct'
  <2>1. \A q \in free_pages : ~IsArg(q) /\ ~IsTask(q) /\ ~IsDir(q)
    BY DEF UserInv, UserType, Roles, OneRole
  <2>2. \A u, v \in Task : caller'[u] = caller'[v] => caller'[u] = Nil \/ u = v
    BY <1>b, <2>1 DEF UserInv, Distinct, IsArg
  <2>3. \A u, v \in Task :
          proc'[u].task = proc'[v].task => proc'[u].task = Nil \/ u = v
    BY <1>b, <2>1 DEF UserInv, Distinct, IsTask
  <2>4. \A u, v \in Task : proc'[u].pgd = proc'[v].pgd => proc'[u].pgd = Nil \/ u = v
    BY <1>b, <2>1 DEF UserInv, Distinct, IsDir
  <2> QED BY <2>2, <2>3, <2>4 DEF UserInv, Distinct
<1>3. Progress'
  <2> SUFFICES ASSUME NEW u \in Task PROVE Has(u)' /\ Holds(u)'
    BY DEF Progress
  <2>1. CASE u = t
    BY <2>1
  <2>2. CASE u # t
    BY <1>b, <2>2, SameTables DEF UserInv, Progress, Has, Holds, MappedIs
  <2> QED BY <2>1, <2>2
<1> QED BY <1>a, <1>1, <1>2, <1>3 DEF UserInv

\* What the fields of a task are: pages of the normal zone that are not free.
LEMMA Fields ==
  ASSUME UserInv, NEW t \in Task
  PROVE  /\ proc[t] \in ProcRecord /\ caller[t] \in Normal \cup {Nil}
         /\ caller[t] \notin free_pages /\ proc[t].task \notin free_pages
         /\ proc[t].pgd \notin free_pages
         /\ caller[t] # Nil => caller[t] # proc[t].task /\ caller[t] # proc[t].pgd
         /\ proc[t].task # Nil => proc[t].task # proc[t].pgd
         /\ Has(t) /\ Holds(t) /\ Nil \notin free_pages
<1>1. proc[t] \in ProcRecord /\ caller[t] \in Normal \cup {Nil} /\ Has(t) /\ Holds(t)
  BY DEF UserInv, UserType, Progress
<1>2. proc[t].task \in Normal \cup {Nil} /\ proc[t].pgd \in Normal \cup {Nil}
  BY <1>1 DEF ProcRecord
<1>3. IsArg(caller[t]) /\ IsTask(proc[t].task) /\ IsDir(proc[t].pgd)
  BY DEF IsArg, IsTask, IsDir
<1>4. /\ caller[t] # Nil => OneRole(caller[t])
      /\ proc[t].task # Nil => OneRole(proc[t].task)
      /\ proc[t].pgd # Nil => OneRole(proc[t].pgd)
  BY <1>1, <1>2, PageFacts DEF UserInv, Roles
<1>5. Nil \notin free_pages
  BY PageFacts DEF UserInv, UserType
<1> QED BY <1>1, <1>3, <1>4, <1>5 DEF OneRole


LEMMA ArgPageInv ==
  ASSUME UserInv, NEW t \in Task, NEW len \in Lengths, exec_arg_page(t, len)
  PROVE  UserInv'
<1>1. PICK p \in LowFree :
      /\ proc[t].at = "none" /\ caller[t] = Nil
      /\ caller' = [caller EXCEPT ![t] = p] /\ free_pages' = free_pages \ {p}
      /\ proc' = [proc EXCEPT ![t] = [@ EXCEPT !.at = "copy", !.len = len]]
      /\ UNCHANGED <<dir, pte>>
  BY Picked DEF exec_arg_page
<1>2. p \in Normal /\ p \in free_pages /\ p # Nil /\ len \in Nat /\ len < Top - 3
  BY <1>1, PageFacts, UserAssumption
<1> DEFINE r == [proc[t] EXCEPT !.at = "copy", !.len = len]
<1>3. /\ r \in ProcRecord /\ r.at = "copy" /\ r.task = Nil /\ r.pgd = Nil /\ r.len = len
      /\ r.n = proc[t].n /\ proc[t].task = Nil /\ proc[t].pgd = Nil
  BY <1>1, <1>2, Fields DEF ProcRecord, Phases, Has
<1>4. caller'[t] = p /\ proc' = [proc EXCEPT ![t] = r] /\ proc'[t] = r
  BY <1>1 DEF UserInv, UserType
<1> HIDE DEF r
<1>5. Has(t)' /\ Holds(t)'
  BY <1>1, <1>2, <1>3, <1>4, Fields DEF Has, Holds, Loading
<1>6. free_pages' = (free_pages \cup {caller[t], proc[t].task, proc[t].pgd})
                      \ {p, r.task, r.pgd, Nil}
  BY <1>1, <1>3, Fields
<1> QED BY <1>1, <1>2, <1>3, <1>4, <1>5, <1>6, FieldStep

LEMMA ReleasedInv ==
  ASSUME UserInv, NEW t \in Task, proc[t].at \in {"copy", "dir"}, Released(t)
  PROVE  UserInv'
<1>1. /\ NoTask \in ProcRecord /\ NoTask.at = "none" /\ NoTask.task = Nil
      /\ NoTask.pgd = Nil /\ NoTask.n = 0 /\ NoTask.ok
  BY DEF NoTask, ProcRecord, Phases
<1>2. proc[t].pgd = Nil /\ dir[t] = NoDir
  BY Fields DEF Has
<1>3. caller'[t] = Nil /\ proc' = [proc EXCEPT ![t] = NoTask] /\ proc'[t] = NoTask
  BY DEF Released, UserInv, UserType
<1>4. Has(t)' /\ Holds(t)'
  BY <1>1, <1>2, <1>3 DEF Has, Holds, Loading, Released
<1>5. free_pages' = (free_pages \cup {caller[t], proc[t].task, proc[t].pgd})
                      \ {Nil, NoTask.task, NoTask.pgd, Nil}
  BY <1>1, <1>2, Fields DEF Released
<1> QED BY <1>1, <1>2, <1>3, <1>4, <1>5, FieldStep DEF Released

LEMMA KernelThreadInv ==
  ASSUME UserInv, NEW t \in Task, kernel_thread(t)
  PROVE  UserInv'
<1>1. CASE LowFree = {} /\ Released(t)
  BY <1>1, ReleasedInv DEF kernel_thread
<1>2. CASE ~(LowFree = {} /\ Released(t))
  <2>1. PICK p \in LowFree :
        /\ proc[t].at = "copy" /\ free_pages' = free_pages \ {p}
        /\ proc' = [proc EXCEPT ![t] = [@ EXCEPT !.at = "dir", !.task = p]]
        /\ UNCHANGED <<caller, dir, pte>>
    BY <1>2, Picked DEF kernel_thread
  <2>2. p \in Normal /\ p \in free_pages /\ p # Nil
    BY <2>1, PageFacts
  <2> DEFINE r == [proc[t] EXCEPT !.at = "dir", !.task = p]
  <2>3. /\ r \in ProcRecord /\ r.at = "dir" /\ r.task = p /\ r.pgd = Nil
        /\ r.len = proc[t].len /\ r.n = proc[t].n
        /\ proc[t].task = Nil /\ proc[t].pgd = Nil
    BY <2>1, <2>2, Fields DEF ProcRecord, Phases, Has
  <2>4. proc' = [proc EXCEPT ![t] = r] /\ proc'[t] = r /\ caller' = [caller EXCEPT ![t] = caller[t]]
    BY <2>1 DEF UserInv, UserType
  <2> HIDE DEF r
  <2>5. Has(t)' /\ Holds(t)'
    BY <2>1, <2>2, <2>3, <2>4, Fields DEF Has, Holds, Loading
  <2>6. free_pages' = (free_pages \cup {caller[t], proc[t].task, proc[t].pgd})
                        \ {caller[t], r.task, r.pgd, Nil}
    BY <2>1, <2>3, Fields
  <2>7. /\ caller[t] \in Normal \cup {Nil} /\ caller[t] # p
    BY <2>2, Fields
  <2>8. PICK c \in Normal \cup {Nil} : c = caller[t]
    BY <2>7
  <2>9. /\ caller' = [caller EXCEPT ![t] = c] /\ c # Nil => c # r.task /\ c # r.pgd
        /\ free_pages' = (free_pages \cup {caller[t], proc[t].task, proc[t].pgd})
                            \ {c, r.task, r.pgd, Nil}
    BY <2>3, <2>4, <2>6, <2>7, <2>8
  <2> QED BY <2>1, <2>2, <2>3, <2>4, <2>5, <2>8, <2>9, FieldStep
<1> QED BY <1>1, <1>2

LEMMA EmptyPageDirInv ==
  ASSUME UserInv, NEW t \in Task, copy_empty_page_dir(t)
  PROVE  UserInv'
<1>1. CASE LowFree = {} /\ Released(t)
  BY <1>1, ReleasedInv DEF copy_empty_page_dir
<1>2. CASE ~(LowFree = {} /\ Released(t))
  <2>1. PICK p \in LowFree :
        /\ proc[t].at = "dir" /\ free_pages' = free_pages \ {p}
        /\ proc' = [proc EXCEPT ![t] = [@ EXCEPT !.at = "load", !.pgd = p]]
        /\ dir' = [dir EXCEPT ![t] = NoDir] /\ UNCHANGED <<caller, pte>>
    <3>1. /\ LowFree # {} /\ proc[t].at = "dir"
          /\ free_pages' = free_pages \ {Some(LowFree)}
          /\ proc' = [proc EXCEPT ![t] = [@ EXCEPT !.at = "load", !.pgd = Some(LowFree)]]
          /\ dir' = [dir EXCEPT ![t] = NoDir] /\ UNCHANGED <<caller, pte>>
      BY <1>2 DEF copy_empty_page_dir
    <3>2. Some(LowFree) \in LowFree
      BY <3>1, Picked
    <3> QED BY <3>1, <3>2
  <2>2. p \in Normal /\ p \in free_pages /\ p # Nil
    BY <2>1, PageFacts
  <2> DEFINE r == [proc[t] EXCEPT !.at = "load", !.pgd = p]
  <2>3. /\ r \in ProcRecord /\ r.at = "load" /\ r.task = proc[t].task /\ r.pgd = p
        /\ r.len = proc[t].len /\ r.n = 0 /\ r.len \in Nat /\ proc[t].pgd = Nil
        /\ dir[t] = NoDir
    <3>1. proc[t] \in ProcRecord /\ proc[t].n = 0 /\ proc[t].pgd = Nil /\ dir[t] = NoDir
      BY <2>1, Fields DEF Has
    <3>2. r \in ProcRecord
      BY <2>2, <3>1 DEF ProcRecord, Phases, Loading
    <3>3. /\ r.at = "load" /\ r.task = proc[t].task /\ r.pgd = p
          /\ r.len = proc[t].len /\ r.n = proc[t].n
      BY <3>1 DEF ProcRecord
    <3> HIDE DEF r
    <3>4. r.len \in Nat
      BY <3>2 DEF ProcRecord
    <3> QED BY <3>1, <3>2, <3>3, <3>4
  <2>4. /\ proc' = [proc EXCEPT ![t] = r] /\ proc'[t] = r
        /\ caller' = [caller EXCEPT ![t] = caller[t]] /\ UNCHANGED <<dir, pte>>
    BY <2>1, <2>3 DEF UserInv, UserType
  <2> HIDE DEF r
  <2>5. MappedIs(t, 0, {})'
    BY <2>3, <2>4, Places, PageFacts DEF MappedIs, IsMapped, Address
  <2>6. Has(t)' /\ Holds(t)'
    BY <2>1, <2>2, <2>3, <2>4, <2>5, Fields DEF Has, Holds, Loading, MappedIs
  <2>7. free_pages' = (free_pages \cup {caller[t], proc[t].task, proc[t].pgd})
                        \ {caller[t], r.task, r.pgd, Nil}
    BY <2>1, <2>3, Fields
  <2>8. /\ caller[t] \in Normal \cup {Nil} /\ caller[t] # p
        /\ caller[t] # Nil => caller[t] # r.task
        /\ r.task # Nil => r.task # p
    BY <2>2, <2>3, Fields
  <2>9. PICK c \in Normal \cup {Nil} : c = caller[t]
    BY <2>8
  <2>10. /\ caller' = [caller EXCEPT ![t] = c] /\ c # Nil => c # r.task /\ c # r.pgd
         /\ free_pages' = (free_pages \cup {caller[t], proc[t].task, proc[t].pgd})
                             \ {c, r.task, r.pgd, Nil}
    BY <2>3, <2>4, <2>7, <2>8, <2>9
  <2> QED BY <2>2, <2>3, <2>4, <2>6, <2>8, <2>9, <2>10, FieldStep
<1> QED BY <1>1, <1>2

\* A step of exec_wrapper, of exit or of the caller that takes no page.
LEMMA PhaseInv ==
  ASSUME UserInv, NEW t \in Task, NEW to \in Phases, NEW ok \in BOOLEAN,
         proc' = [proc EXCEPT ![t] = [@ EXCEPT !.at = to, !.ok = ok]],
         UNCHANGED <<free_pages, dir, pte, caller>>, Has(t)', Holds(t)'
  PROVE  UserInv'
<1> DEFINE r == [proc[t] EXCEPT !.at = to, !.ok = ok]
<1>1. r \in ProcRecord /\ r.task = proc[t].task /\ r.pgd = proc[t].pgd
  BY Fields DEF ProcRecord
<1>2. caller' = [caller EXCEPT ![t] = caller[t]] /\ proc' = [proc EXCEPT ![t] = r]
  BY DEF UserInv, UserType
<1> HIDE DEF r
<1>3. free_pages' = (free_pages \cup {caller[t], proc[t].task, proc[t].pgd})
                      \ {caller[t], r.task, r.pgd, Nil}
  BY <1>1, Fields
<1>4. PICK c \in Normal \cup {Nil} : c = caller[t]
  BY Fields
<1>5. /\ caller' = [caller EXCEPT ![t] = c] /\ c # Nil => c # r.task /\ c # r.pgd
      /\ r.task # Nil => r.task # r.pgd
      /\ free_pages' = (free_pages \cup {caller[t], proc[t].task, proc[t].pgd})
                          \ {c, r.task, r.pgd, Nil}
  BY <1>1, <1>2, <1>3, <1>4, Fields
<1> QED BY <1>1, <1>2, <1>4, <1>5, FieldStep

LEMMA WrapperInv ==
  ASSUME UserInv, NEW t \in Task, exec_wrapper(t) \/ sys_exit(t)
  PROVE  UserInv'
<1>1. PICK to \in {"user", "exit"}, ok \in BOOLEAN :
      /\ proc' = [proc EXCEPT ![t] = [@ EXCEPT !.at = to, !.ok = ok]]
      /\ UNCHANGED <<free_pages, dir, pte, caller>>
      /\ \/ proc[t].at = "return" /\ ok = proc[t].ok /\ to = IF ok THEN "user" ELSE "exit"
         \/ proc[t].at = "user" /\ ok /\ to = "exit"
  <2>1. proc[t].ok \in BOOLEAN
    BY Fields DEF ProcRecord
  <2>2. CASE exec_wrapper(t)
    BY <2>1, <2>2 DEF exec_wrapper, Goes
  <2>3. CASE sys_exit(t)
    BY <2>3 DEF sys_exit, Goes
  <2> QED BY <2>2, <2>3
<1>2. /\ proc'[t].at = to /\ proc'[t].ok = ok /\ proc'[t].task = proc[t].task
      /\ proc'[t].pgd = proc[t].pgd /\ proc'[t].len = proc[t].len
  BY <1>1, Fields DEF UserInv, UserType, ProcRecord
<1>3. Has(t)'
  BY <1>1, <1>2, Fields DEF Has, Loading
<1>4. Holds(t)'
  BY <1>1, <1>2, Fields, SameTables DEF UserInv, Holds, MappedIs
<1> QED BY <1>1, <1>3, <1>4, PhaseInv DEF Phases

LEMMA ExecReturnInv ==
  ASSUME UserInv, NEW t \in Task, exec_return(t)
  PROVE  UserInv'
<1> DEFINE to == IF proc[t].at = "reaped" THEN "none" ELSE proc[t].at
           r == [proc[t] EXCEPT !.at = to]
<1>1. /\ r \in ProcRecord /\ r.at = to /\ r.task = proc[t].task /\ r.pgd = proc[t].pgd
      /\ r.n = proc[t].n /\ r.len = proc[t].len /\ r.ok = proc[t].ok
  BY Fields DEF ProcRecord, Phases
<1>2. /\ proc' = [proc EXCEPT ![t] = r] /\ proc'[t] = r
      /\ caller' = [caller EXCEPT ![t] = Nil] /\ caller'[t] = Nil
      /\ UNCHANGED <<dir, pte>> /\ caller[t] # Nil
  BY DEF exec_return, UserInv, UserType
<1> HIDE DEF r
<1>3. Has(t)' /\ Holds(t)'
  <2>1. Has(t)'
    BY <1>1, <1>2, Fields DEF exec_return, Has, Loading
  <2>2. Holds(t)'
    BY <1>1, <1>2, Fields, SameTables DEF exec_return, UserInv, Holds, MappedIs
  <2> QED BY <2>1, <2>2
<1>4. free_pages' = (free_pages \cup {caller[t], proc[t].task, proc[t].pgd})
                      \ {Nil, r.task, r.pgd, Nil}
  BY <1>1, <1>2, Fields DEF exec_return
<1> QED BY <1>1, <1>2, <1>3, <1>4, Fields, FieldStep

-----------------------------------------------------------------------------
(* The steps that map a page. *)

\* What load_page does: it takes the page p, and a table for it if addr has none.
LEMMA LoadPage ==
  ASSUME UserInv, NEW t \in Task, NEW addr \in Address, ~IsMapped(t, addr),
         load_page(t, addr, TRUE)
  PROVE  \E p \in free_pages, table \in Normal, i \in Dir, s \in Slot :
           /\ i = addr \div PerTable /\ s = addr % PerTable /\ p # table
           /\ \/ dir[t][i] = Nil /\ table \in free_pages
              \/ dir[t][i] = table
           /\ pte[table][s] = Nil
           /\ dir[t][i] = Nil => pte[table] = NoTable
           /\ free_pages' = free_pages \ {p, table}
           /\ dir' = [dir EXCEPT ![t] = [@ EXCEPT ![i] = table]]
           /\ pte' = [pte EXCEPT ![table] = [@ EXCEPT ![s] = p]]
<1> DEFINE i == addr \div PerTable
           s == addr % PerTable
           p == Some(AvailPages)
           tables == LowFree \ {p}
           table == IF dir[t][i] = Nil THEN Some(tables) ELSE dir[t][i]
<1>1. i \in Dir /\ s \in Slot
  BY Places
<1>2. /\ AvailPages # {} /\ (dir[t][i] = Nil => tables # {})
      /\ free_pages' = (free_pages \ {p}) \ {table}
      /\ dir' = [dir EXCEPT ![t] = [@ EXCEPT ![i] = table]]
      /\ pte' = [pte EXCEPT ![table] = [@ EXCEPT ![s] = p]]
  BY DEF load_page
<1>3. p \in free_pages
  BY <1>2, Picked DEF AvailPages, LowFree
<1>4. dir[t][i] # Nil => dir[t][i] \in Normal /\ dir[t][i] \notin free_pages
  <2>1. dir[t][i] \in Normal \cup {Nil} /\ IsTable(dir[t][i])
    BY <1>1 DEF UserInv, UserType, IsTable
  <2> QED BY <2>1, PageFacts DEF UserInv, Roles, OneRole
<1>5. dir[t][i] = Nil => table \in tables
  BY <1>2, Picked
<1>6. table \in Normal /\ p # table
  BY <1>3, <1>4, <1>5, PageFacts
<1>7. dir[t][i] = Nil => pte[table] = NoTable
  <2>1. dir[t][i] = Nil => table \in free_pages
    BY <1>5, PageFacts
  <2> QED BY <1>6, <2>1, PageFacts DEF UserInv, Roles, OneRole
<1>8. pte[table][s] = Nil
  <2>1. CASE dir[t][i] = Nil
    BY <1>1, <1>7, <2>1, PageFacts
  <2>2. CASE dir[t][i] # Nil
    BY <2>2 DEF IsMapped
  <2> QED BY <2>1, <2>2
<1>9. free_pages' = free_pages \ {p, table}
  BY <1>2
<1>10. \/ dir[t][i] = Nil /\ table \in free_pages
       \/ dir[t][i] = table
  BY <1>5, PageFacts
<1> HIDE DEF i, s, p, tables, table
<1>11. i = addr \div PerTable /\ s = addr % PerTable
  BY DEF i, s
<1> QED BY <1>1, <1>2, <1>3, <1>6, <1>7, <1>8, <1>9, <1>10, <1>11

\* A step that maps addr keeps the invariant if it leaves the phase of the
\* program right.
LEMMA LoadStep ==
  ASSUME UserInv, NEW t \in Task, NEW addr \in Address, ~IsMapped(t, addr),
         load_page(t, addr, TRUE), UNCHANGED caller,
         NEW r \in ProcRecord, proc' = [proc EXCEPT ![t] = r],
         r.task = proc[t].task, r.pgd = proc[t].pgd
  PROVE  /\ UserType' /\ Roles' /\ Distinct'
         /\ \A u \in Task : \A a \in Address :
              IsMapped(u, a)' <=> IsMapped(u, a) \/ (u = t /\ a = addr)
         /\ \A u \in Task : u # t => dir'[u] = dir[u] /\ proc'[u] = proc[u]
<1>1. PICK p \in free_pages, table \in Normal, i \in Dir, s \in Slot :
           /\ i = addr \div PerTable /\ s = addr % PerTable /\ p # table
           /\ \/ dir[t][i] = Nil /\ table \in free_pages
              \/ dir[t][i] = table
           /\ pte[table][s] = Nil
           /\ dir[t][i] = Nil => pte[table] = NoTable
           /\ free_pages' = free_pages \ {p, table}
           /\ dir' = [dir EXCEPT ![t] = [@ EXCEPT ![i] = table]]
           /\ pte' = [pte EXCEPT ![table] = [@ EXCEPT ![s] = p]]
  BY LoadPage, ZenonT(40)
<1>2. UserType
  BY DEF UserInv
<1>3. /\ p \in AnyPage /\ p # Nil /\ table \in AnyPage /\ table # Nil
      /\ ~IsArg(p) /\ ~IsTask(p) /\ ~IsDir(p) /\ ~IsTable(p) /\ ~IsEntry(p)
      /\ ~IsArg(table) /\ ~IsTask(table) /\ ~IsDir(table) /\ ~IsEntry(table)
      /\ dir[t][i] = Nil => ~IsTable(table)
  <2>1. p \in AnyPage /\ p # Nil /\ table \in AnyPage /\ table # Nil
    BY <1>1, <1>2, PageFacts DEF UserType
  <2>2. dir[t][i] = table => IsTable(table)
    BY DEF IsTable
  <2>3. OneRole(p) /\ OneRole(table)
    BY <2>1 DEF UserInv, Roles
  <2> QED BY <1>1, <2>1, <2>2, <2>3 DEF OneRole
<1>4. UserType'
  BY <1>1, <1>2, <1>3 DEF UserType
<1>5. /\ dir'[t][i] = table
      /\ \A u \in Task : \A k \in Dir : (u = t /\ k = i) \/ dir'[u][k] = dir[u][k]
  BY <1>1, <1>2 DEF UserType
<1>6. /\ pte'[table][s] = p
      /\ \A q \in Normal : \A j \in Slot : (q = table /\ j = s) \/ pte'[q][j] = pte[q][j]
      /\ \A q \in Normal : q # table => pte'[q] = pte[q]
  BY <1>1, <1>2 DEF UserType
<1>7. \A q \in AnyPage : IsTable(q)' <=> IsTable(q) \/ q = table
  BY <1>1, <1>5, PageFacts DEF IsTable
<1>8. \A q \in AnyPage : IsEntry(q)' <=> IsEntry(q) \/ q = p
  BY <1>1, <1>6, PageFacts DEF IsEntry
<1>9. \A u \in Task : proc'[u].task = proc[u].task /\ proc'[u].pgd = proc[u].pgd
  BY <1>2 DEF UserType
<1>10. \A q : (IsArg(q)' <=> IsArg(q)) /\ (IsTask(q)' <=> IsTask(q)) /\ (IsDir(q)' <=> IsDir(q))
  BY <1>9 DEF IsArg, IsTask, IsDir
<1>11. Roles'
  <2>1. \A q \in AnyPage : OneRole(q)'
    <3> SUFFICES ASSUME NEW q \in AnyPage PROVE OneRole(q)'
      OBVIOUS
    <3>1. OneRole(q)
      BY DEF UserInv, Roles
    <3>2. q \in free_pages' <=> q \in free_pages /\ q # p /\ q # table
      BY <1>1
    <3> QED BY <1>1, <1>3, <1>7, <1>8, <1>10, <3>1, <3>2 DEF OneRole
  <2>2. \A q \in Normal : (IsTable(q) \/ pte[q] = NoTable)'
    BY <1>6, <1>7, PageFacts DEF UserInv, Roles
  <2> QED BY <2>1, <2>2 DEF Roles
<1>12. Distinct'
  <2>1. /\ \A u, v \in Task : caller'[u] = caller'[v] => caller'[u] = Nil \/ u = v
        /\ \A u, v \in Task : proc'[u].task = proc'[v].task => proc'[u].task = Nil \/ u = v
        /\ \A u, v \in Task : proc'[u].pgd = proc'[v].pgd => proc'[u].pgd = Nil \/ u = v
    BY <1>9 DEF UserInv, Distinct
  <2>2. \A u, v \in Task : \A k, l \in Dir :
          dir'[u][k] = dir'[v][l] => dir'[u][k] = Nil \/ (u = v /\ k = l)
    <3>1. CASE dir[t][i] = Nil
      BY <1>3, <1>5, <3>1 DEF UserInv, Distinct, IsTable
    <3>2. CASE dir[t][i] = table
      BY <1>5, <3>2 DEF UserInv, Distinct
    <3> QED BY <1>1, <3>1, <3>2
  <2>3. \A q, w \in Normal : \A j, k \in Slot :
          pte'[q][j] = pte'[w][k] => pte'[q][j] = Nil \/ (q = w /\ j = k)
    BY <1>3, <1>6 DEF UserInv, Distinct, IsEntry
  <2> QED BY <2>1, <2>2, <2>3 DEF Distinct
<1>13. ASSUME NEW u \in Task, NEW a \in Address
       PROVE  IsMapped(u, a)' <=> IsMapped(u, a) \/ (u = t /\ a = addr)
  <2> DEFINE k == a \div PerTable
             j == a % PerTable
  <2>1. k \in Dir /\ j \in Slot /\ (k = i /\ j = s <=> a = addr)
    BY <1>1, Places
  <2>2. /\ IsMapped(u, a) <=> dir[u][k] # Nil /\ pte[dir[u][k]][j] # Nil
        /\ IsMapped(u, a)' <=> dir'[u][k] # Nil /\ pte'[dir'[u][k]][j] # Nil
    BY DEF IsMapped
  <2> HIDE DEF k, j
  <2>3. CASE u = t /\ k = i
    BY <1>1, <1>3, <1>5, <1>6, <2>1, <2>2, <2>3, PageFacts
  <2>4. CASE ~(u = t /\ k = i)
    <3>1. dir'[u][k] = dir[u][k]
      BY <1>5, <2>1, <2>4
    <3>2. dir[u][k] # table
      <4>1. CASE dir[t][i] = Nil
        BY <1>3, <2>1, <4>1 DEF IsTable
      <4>2. CASE dir[t][i] = table
        BY <1>3, <2>1, <2>4, <4>2 DEF UserInv, Distinct
      <4> QED BY <1>1, <4>1, <4>2
    <3>3. dir[u][k] = Nil \/ dir[u][k] \in Normal
      BY <1>2, <2>1 DEF UserType
    <3> QED BY <1>6, <2>1, <2>2, <2>4, <3>1, <3>2, <3>3
  <2> QED BY <2>3, <2>4
<1>14. \A u \in Task : u # t => dir'[u] = dir[u] /\ proc'[u] = proc[u]
  BY <1>1, <1>2 DEF UserType
<1> QED BY <1>4, <1>11, <1>12, <1>13, <1>14

LEMMA LoadMaps ==
  ASSUME UserInv, NEW t \in Task, NEW addr \in Address, ~IsMapped(t, addr),
         load_page(t, addr, TRUE), UNCHANGED caller,
         NEW r \in ProcRecord, proc' = [proc EXCEPT ![t] = r],
         r.task = proc[t].task, r.pgd = proc[t].pgd
  PROVE  \A a \in Address : IsMapped(t, a)' <=> IsMapped(t, a) \/ a = addr
<1>1. \A u \in Task : \A a \in Address :
        IsMapped(u, a)' <=> IsMapped(u, a) \/ (u = t /\ a = addr)
  BY LoadStep
<1> QED BY <1>1

LEMMA LoadInv ==
  ASSUME UserInv, NEW t \in Task, NEW addr \in Address, ~IsMapped(t, addr),
         load_page(t, addr, TRUE), UNCHANGED caller,
         NEW r \in ProcRecord, proc' = [proc EXCEPT ![t] = r],
         r.task = proc[t].task, r.pgd = proc[t].pgd,
         Has(t)', Holds(t)'
  PROVE  UserInv'
<1>1. Progress'
  <2> SUFFICES ASSUME NEW u \in Task PROVE Has(u)' /\ Holds(u)'
    BY DEF Progress
  <2>1. CASE u = t
    BY <2>1
  <2>2. CASE u # t
    <3>1. dir'[u] = dir[u] /\ proc'[u] = proc[u]
      BY <2>2, LoadStep
    <3>2. \A a \in Address : IsMapped(u, a)' <=> IsMapped(u, a)
      BY <2>2, LoadStep
    <3>3. Has(u) /\ Holds(u)
      BY DEF UserInv, Progress
    <3> QED BY <3>1, <3>2, <3>3 DEF Has, Holds, MappedIs
  <2> QED BY <2>1, <2>2
<1>2. UserType' /\ Roles' /\ Distinct'
  BY LoadStep
<1> QED BY <1>1, <1>2 DEF UserInv

\* A failed load leaves the pages and ends the loading.
LEMMA LoadFailedInv ==
  ASSUME UserInv, NEW t \in Task, NEW addr, load_page(t, addr, FALSE),
         Goes(t, "return", FALSE), proc[t].at \in Loading
  PROVE  UserInv'
<1>1. /\ proc' = [proc EXCEPT ![t] = [@ EXCEPT !.at = "return", !.ok = FALSE]]
      /\ UNCHANGED <<free_pages, dir, pte, caller>>
  BY DEF load_page, load_failed, Goes
<1>2. /\ proc'[t].at = "return" /\ proc'[t].ok = FALSE /\ proc'[t].task = proc[t].task
      /\ proc'[t].pgd = proc[t].pgd /\ proc'[t].len = proc[t].len
  BY <1>1, Fields DEF UserInv, UserType, ProcRecord
<1>3. Has(t)' /\ Holds(t)'
  BY <1>1, <1>2, Fields DEF Has, Holds, Loading
<1> QED BY <1>1, <1>3, PhaseInv DEF Phases, Loading

\* With addr the program has its own pages and S.
Adds(t, addr, S) ==
  \A a \in Address : IsMapped(t, a) \/ a = addr <=> a < proc[t].len + 1 \/ a \in S

\* A page was loaded and the program goes on to the phase "to".
LEMMA GoesInv ==
  ASSUME UserInv, NEW t \in Task, NEW addr \in Address, ~IsMapped(t, addr),
         load_page(t, addr, TRUE), NEW to \in Loading \ {"load"}, NEW ok \in BOOLEAN,
         Goes(t, to, ok), proc[t].at \in Loading \ {"return"},
         NEW S, Adds(t, addr, S),
         to = "argv" => S = {},
         to = "argc" => S = {Top - 2},
         to = "stack" => S = {Top - 2, Top - 1},
         to = "return" /\ ok => S = {Top - 3, Top - 2, Top - 1}
  PROVE  UserInv'
<1>1. PICK r : r = [proc[t] EXCEPT !.at = to, !.ok = ok]
  OBVIOUS
<1>a. /\ r \in ProcRecord /\ r.task = proc[t].task /\ r.pgd = proc[t].pgd
      /\ r.at = to /\ r.ok = ok /\ r.len = proc[t].len /\ r.n = proc[t].n
      /\ r.len \in Nat
  <2>1. proc[t] \in ProcRecord
    BY Fields
  <2> QED BY <1>1, <2>1 DEF ProcRecord, Phases
<1>2. proc' = [proc EXCEPT ![t] = r] /\ proc'[t] = r /\ UNCHANGED caller
  BY <1>1 DEF Goes, UserInv, UserType
<1>3. \A a \in Address : IsMapped(t, a)' <=> IsMapped(t, a) \/ a = addr
  BY <1>a, <1>2, LoadMaps
<1>4. Has(t)'
  BY <1>a, <1>2, Fields DEF Has, Loading
<1>5. \A a \in Address : IsMapped(t, a)' <=> a < r.len + 1 \/ a \in S
  BY <1>a, <1>3 DEF Adds
<1>6. Holds(t)'
  <2>1. CASE to = "argv"
    BY <1>a, <1>2, <1>5, <2>1 DEF Holds, MappedIs, Address
  <2>2. CASE to = "argc"
    BY <1>a, <1>2, <1>5, <2>2 DEF Holds, MappedIs
  <2>3. CASE to = "stack"
    BY <1>a, <1>2, <1>5, <2>3 DEF Holds, MappedIs
  <2>4. CASE to = "return"
    BY <1>a, <1>2, <1>5, <2>4 DEF Holds, MappedIs
  <2> QED BY <2>1, <2>2, <2>3, <2>4 DEF Loading
<1> QED BY <1>a, <1>2, <1>4, <1>6, LoadInv

LEMMA ProgramInv ==
  ASSUME UserInv, NEW t \in Task, write_program_to_user(t)
  PROVE  UserInv'
<1>0. PICK n : n = proc[t].n
  OBVIOUS
<1>1. /\ proc[t].at = "load" /\ proc[t] \in ProcRecord /\ n \in Nat /\ proc[t].len \in Nat
      /\ n <= proc[t].len /\ proc[t].len < Top - 3 /\ MappedIs(t, n, {})
  BY <1>0, Fields DEF write_program_to_user, Has, Holds, ProcRecord, Loading
<1>2. n \in Address /\ ~IsMapped(t, n)
  BY <1>1, Places DEF Address, MappedIs
<1>3. CASE load_page(t, n, FALSE) /\ Goes(t, "return", FALSE)
  BY <1>1, <1>3, LoadFailedInv DEF Loading
<1>4. CASE load_page(t, n, TRUE) /\ n < proc[t].len /\ UNCHANGED caller
           /\ proc' = [proc EXCEPT ![t] = [@ EXCEPT !.n = n + 1]]
  <2>0. PICK r : r = [proc[t] EXCEPT !.n = n + 1]
    OBVIOUS
  <2>1. /\ r \in ProcRecord /\ r.task = proc[t].task /\ r.pgd = proc[t].pgd
        /\ r.at = "load" /\ r.len = proc[t].len /\ r.n = n + 1
    BY <1>1, <2>0 DEF ProcRecord
  <2>2. proc' = [proc EXCEPT ![t] = r] /\ proc'[t] = r
    BY <1>4, <2>0 DEF UserInv, UserType
  <2>3. Has(t)'
    BY <1>1, <1>4, <2>1, <2>2, Fields DEF Has, Loading
  <2>4. \A a \in Address : IsMapped(t, a)' <=> IsMapped(t, a) \/ a = n
    BY <1>2, <1>4, <2>1, <2>2, LoadMaps
  <2>5. \A a \in Address : IsMapped(t, a)' <=> a < r.n
    BY <1>1, <2>1, <2>4 DEF MappedIs, Address
  <2>6. Holds(t)'
    BY <1>1, <1>4, <2>1, <2>2, <2>5 DEF Holds, MappedIs
  <2> QED BY <1>2, <1>4, <2>1, <2>2, <2>3, <2>6, LoadInv
<1>5. CASE load_page(t, n, TRUE) /\ n = proc[t].len /\ Goes(t, "argv", TRUE)
  <2>1. Adds(t, n, {})
    BY <1>1, <1>5 DEF Adds, MappedIs, Address
  <2> QED BY <1>1, <1>2, <1>5, <2>1, GoesInv DEF Loading
<1>6. CASE load_page(t, n, TRUE) /\ Goes(t, "return", FALSE)
  <2> DEFINE r == [proc[t] EXCEPT !.at = "return", !.ok = FALSE]
  <2>1. /\ r \in ProcRecord /\ r.task = proc[t].task /\ r.pgd = proc[t].pgd
        /\ r.at = "return" /\ r.len = proc[t].len /\ ~r.ok
    BY <1>1 DEF ProcRecord, Phases, Loading
  <2>2. proc' = [proc EXCEPT ![t] = r] /\ proc'[t] = r /\ UNCHANGED caller
    BY <1>6 DEF Goes, UserInv, UserType
  <2> HIDE DEF r
  <2>3. Has(t)' /\ Holds(t)'
    BY <1>1, <2>1, <2>2, Fields DEF Has, Holds, Loading
  <2> QED BY <1>2, <1>6, <2>1, <2>2, <2>3, LoadInv
<1>7. \/ load_page(t, n, FALSE) /\ Goes(t, "return", FALSE)
      \/ load_page(t, n, TRUE) /\ n < proc[t].len /\ UNCHANGED caller
           /\ proc' = [proc EXCEPT ![t] = [@ EXCEPT !.n = n + 1]]
      \/ load_page(t, n, TRUE) /\ n = proc[t].len /\ Goes(t, "argv", TRUE)
      \/ load_page(t, n, TRUE) /\ Goes(t, "return", FALSE)
  BY <1>0 DEF write_program_to_user
<1> QED BY <1>3, <1>4, <1>5, <1>6, <1>7

LEMMA ArgumentsInv ==
  ASSUME UserInv, NEW t \in Task,
         write_argv_to_user(t) \/ write_argc_to_user(t) \/ create_user_stack(t)
  PROVE  UserInv'
<1> DEFINE Step(S, addr, to, ok) ==
      /\ proc[t].at \in Loading \ {"return"} /\ MappedIs(t, proc[t].len + 1, S)
      /\ load_page(t, addr, ok) /\ Goes(t, IF ok THEN to ELSE "return", ok)
      /\ S \in SUBSET {Top - 1, Top - 2} /\ addr \notin S
      /\ \/ to = "argc" /\ S \cup {addr} = {Top - 2}
         \/ to = "stack" /\ S \cup {addr} = {Top - 2, Top - 1}
         \/ to = "return" /\ S \cup {addr} = {Top - 3, Top - 2, Top - 1}
<1>1. \E S : \E addr \in {Top - 1, Top - 2, Top - 3}, to \in Loading, ok \in BOOLEAN :
        Step(S, addr, to, ok)
  <2>0. Top \in Nat /\ Holds(t)
    BY Places, Fields
  <2>1. CASE write_argv_to_user(t)
    <3>1. proc[t].at = "argv" /\ MappedIs(t, proc[t].len + 1, {})
      BY <2>0, <2>1 DEF write_argv_to_user, Then, Holds
    <3>2. PICK ok \in BOOLEAN :
            load_page(t, Top - 2, ok) /\ Goes(t, IF ok THEN "argc" ELSE "return", ok)
      BY <2>1 DEF write_argv_to_user, Then
    <3>3. Step({}, Top - 2, "argc", ok)
      BY <2>0, <3>1, <3>2 DEF Loading
    <3> HIDE DEF Step
    <3> QED BY <3>3 DEF Loading
  <2>2. CASE write_argc_to_user(t)
    <3>1. proc[t].at = "argc" /\ MappedIs(t, proc[t].len + 1, {Top - 2})
      BY <2>0, <2>2 DEF write_argc_to_user, Then, Holds
    <3>2. PICK ok \in BOOLEAN :
            load_page(t, Top - 1, ok) /\ Goes(t, IF ok THEN "stack" ELSE "return", ok)
      BY <2>2 DEF write_argc_to_user, Then
    <3>3. Step({Top - 2}, Top - 1, "stack", ok)
      BY <2>0, <3>1, <3>2 DEF Loading
    <3> HIDE DEF Step
    <3> QED BY <3>3 DEF Loading
  <2>3. CASE create_user_stack(t)
    <3>1. proc[t].at = "stack" /\ MappedIs(t, proc[t].len + 1, {Top - 2, Top - 1})
      BY <2>0, <2>3 DEF create_user_stack, Then, Holds
    <3>2. PICK ok \in BOOLEAN :
            load_page(t, Top - 3, ok) /\ Goes(t, IF ok THEN "return" ELSE "return", ok)
      BY <2>3 DEF create_user_stack, Then
    <3>3. Step({Top - 2, Top - 1}, Top - 3, "return", ok)
      BY <2>0, <3>1, <3>2 DEF Loading
    <3> HIDE DEF Step
    <3> QED BY <3>3 DEF Loading
  <2> QED BY <2>1, <2>2, <2>3
<1>6. PICK S, addr, to, ok :
        /\ addr \in {Top - 1, Top - 2, Top - 3} /\ to \in Loading /\ ok \in BOOLEAN
        /\ Step(S, addr, to, ok)
  <2> HIDE DEF Step
  <2> QED BY <1>1
<1>2. proc[t].len \in Nat /\ proc[t].len < Top - 3
  BY <1>6, Fields DEF Has, ProcRecord
<1>3. addr \in Address /\ ~IsMapped(t, addr)
  BY <1>6, <1>2, Places DEF Address, MappedIs
<1>4. CASE ok
  <2>1. load_page(t, addr, TRUE) /\ Goes(t, to, ok)
    BY <1>6, <1>4
  <2>2. PICK T : T = S \cup {addr}
    OBVIOUS
  <2>3. Adds(t, addr, T)
    BY <1>2, <1>6, <2>2 DEF Adds, MappedIs, Address
  <2>4. /\ proc[t].at \in Loading \ {"return"}
        /\ to = "argv" => T = {}
        /\ to = "argc" => T = {Top - 2}
        /\ to = "stack" => T = {Top - 2, Top - 1}
        /\ to = "return" /\ ok => T = {Top - 3, Top - 2, Top - 1}
    BY <1>6, <2>2
  <2>5. to \in Loading \ {"load"} /\ ok \in BOOLEAN
    BY <1>6
  <2> HIDE DEF Step
  <2> QED BY <1>3, <2>1, <2>3, <2>4, <2>5, GoesInv
<1>5. CASE ~ok
  <2>1. load_page(t, addr, FALSE) /\ Goes(t, "return", FALSE)
    BY <1>6, <1>5
  <2> QED BY <1>6, <2>1, LoadFailedInv
<1> QED BY <1>4, <1>5

\* The end of a program: its tables and their entries become free together.
LEMMA KthreadReleaseInv ==
  ASSUME UserInv, NEW t \in Task, kthread_release(t)
  PROVE  UserInv'
<1>1. PICK r : r = [NoTask EXCEPT !.at = IF proc[t].ok THEN "none" ELSE "reaped"]
  OBVIOUS
<1>2. /\ r \in ProcRecord /\ r.task = Nil /\ r.pgd = Nil /\ r.n = 0
      /\ r.at = IF proc[t].ok THEN "none" ELSE "reaped"
  BY <1>1 DEF NoTask, ProcRecord, Phases
<1>3. /\ proc' = [proc EXCEPT ![t] = r] /\ proc'[t] = r /\ caller' = caller
      /\ dir' = [dir EXCEPT ![t] = NoDir]
      /\ pte' = [p \in Normal |-> IF p \in Tables(t) THEN NoTable ELSE pte[p]]
      /\ free_pages' = free_pages \cup Mapped(t) \cup Tables(t) \cup {proc[t].pgd, proc[t].task}
      /\ proc[t].at = "exit" /\ proc[t].ok = (caller[t] = Nil)
  BY <1>1 DEF kthread_release, free_page_dir, UserInv, UserType
<1>4. /\ \A u \in Task : u # t => proc'[u] = proc[u] /\ dir'[u] = dir[u]
      /\ dir'[t] = NoDir
  BY <1>3 DEF UserInv, UserType
<1>5. /\ \A q : q \in Tables(t) <=> q # Nil /\ \E i \in Dir : dir[t][i] = q
      /\ Tables(t) \subseteq Normal
  BY DEF UserInv, UserType, Tables
<1>6. /\ \A q : q \in Mapped(t) <=> q # Nil /\ \E w \in Tables(t) : \E j \in Slot : pte[w][j] = q
      /\ Mapped(t) \subseteq AnyPage
  <2>1. \A q : q \in Mapped(t) <=> q # Nil /\ \E w \in Tables(t) : \E j \in Slot : pte[w][j] = q
    BY DEF Mapped
  <2>2. \A w \in Tables(t) : \A j \in Slot : pte[w][j] \in AnyPage \cup {Nil}
    BY <1>5 DEF UserInv, UserType
  <2> QED BY <2>1, <2>2
<1>7. /\ proc[t].pgd \in Normal /\ proc[t].task \in Normal
      /\ IsDir(proc[t].pgd) /\ IsTask(proc[t].task)
  BY <1>3, Fields DEF Has, ProcRecord, IsDir, IsTask
<1>8. UserType'
  <2>1. free_pages' \subseteq AnyPage
    BY <1>3, <1>5, <1>6, <1>7, PageFacts DEF UserInv, UserType
  <2>2. dir' \in [Task -> [Dir -> Normal \cup {Nil}]]
    BY <1>3, PageFacts DEF UserInv, UserType
  <2>3. pte' \in [Normal -> [Slot -> AnyPage \cup {Nil}]]
    BY <1>3, PageFacts DEF UserInv, UserType
  <2> QED BY <1>2, <1>3, <2>1, <2>2, <2>3 DEF UserInv, UserType
<1>9. \A q \in AnyPage : IsTable(q)' <=> IsTable(q) /\ q \notin Tables(t)
  <2> SUFFICES ASSUME NEW q \in AnyPage
               PROVE  IsTable(q)' <=> IsTable(q) /\ q \notin Tables(t)
    OBVIOUS
  <2>1. ASSUME IsTable(q)' PROVE IsTable(q) /\ q \notin Tables(t)
    <3>1. PICK u \in Task, i \in Dir : dir'[u][i] = q
      BY <2>1 DEF IsTable
    <3>2. u # t /\ dir[u][i] = q /\ q # Nil
      BY <1>4, <3>1, PageFacts
    <3>3. \A k \in Dir : dir[t][k] # q
      BY <3>2 DEF UserInv, Distinct
    <3> QED BY <1>5, <3>2, <3>3 DEF IsTable
  <2>2. ASSUME IsTable(q), q \notin Tables(t) PROVE IsTable(q)'
    BY <1>4, <1>5, <2>2, PageFacts DEF IsTable
  <2> QED BY <2>1, <2>2
<1>10. \A w \in Normal : pte'[w] = IF w \in Tables(t) THEN NoTable ELSE pte[w]
  BY <1>3
<1>11. \A q \in AnyPage : IsEntry(q)' <=> IsEntry(q) /\ q \notin Mapped(t)
  <2> SUFFICES ASSUME NEW q \in AnyPage
               PROVE  IsEntry(q)' <=> IsEntry(q) /\ q \notin Mapped(t)
    OBVIOUS
  <2>1. ASSUME IsEntry(q)' PROVE IsEntry(q) /\ q \notin Mapped(t)
    <3>1. PICK w \in Normal, j \in Slot : pte'[w][j] = q
      BY <2>1 DEF IsEntry
    <3>2. w \notin Tables(t) /\ pte[w][j] = q /\ q # Nil
      BY <1>10, <3>1, PageFacts
    <3>3. \A v \in Tables(t) : \A k \in Slot : pte[v][k] # q
      BY <1>5, <3>2 DEF UserInv, Distinct
    <3> QED BY <1>6, <3>2, <3>3 DEF IsEntry
  <2>2. ASSUME IsEntry(q), q \notin Mapped(t) PROVE IsEntry(q)'
    BY <1>6, <1>10, <2>2, PageFacts DEF IsEntry
  <2> QED BY <2>1, <2>2
<1>12. \A q \in AnyPage :
         /\ IsArg(q)' <=> IsArg(q)
         /\ IsTask(q)' <=> IsTask(q) /\ q # proc[t].task
         /\ IsDir(q)' <=> IsDir(q) /\ q # proc[t].pgd
  <2>1. \A q : IsArg(q)' <=> IsArg(q)
    BY <1>3 DEF IsArg
  <2>2. \A u \in Task : u # t => caller'[u] = caller[u] /\ proc'[u] = proc[u]
    BY <1>3, <1>4
  <2> QED BY <1>2, <1>3, <1>8, <2>1, <2>2, FieldRoles, PageFacts
<1>13. Roles'
  <2>1. \A q \in AnyPage : OneRole(q)'
    <3> SUFFICES ASSUME NEW q \in AnyPage PROVE OneRole(q)'
      OBVIOUS
    <3>1. OneRole(q)
      BY DEF UserInv, Roles
    <3>2. /\ q \in Tables(t) => IsTable(q)
          /\ q \in Mapped(t) => IsEntry(q)
      BY <1>5, <1>6 DEF IsTable, IsEntry
    <3>3. q \in free_pages' <=>
            q \in free_pages \/ q \in Mapped(t) \/ q \in Tables(t)
              \/ q = proc[t].pgd \/ q = proc[t].task
      BY <1>3
    <3> QED BY <1>7, <1>9, <1>11, <1>12, <3>1, <3>2, <3>3 DEF OneRole
  <2>2. \A q \in Normal : (IsTable(q) \/ pte[q] = NoTable)'
    BY <1>9, <1>10, PageFacts DEF UserInv, Roles
  <2> QED BY <2>1, <2>2 DEF Roles
<1>14. Distinct'
  <2>1. /\ \A u, v \in Task : caller'[u] = caller'[v] => caller'[u] = Nil \/ u = v
        /\ \A u, v \in Task : proc'[u].task = proc'[v].task => proc'[u].task = Nil \/ u = v
        /\ \A u, v \in Task : proc'[u].pgd = proc'[v].pgd => proc'[u].pgd = Nil \/ u = v
    BY <1>2, <1>3, <1>4 DEF UserInv, Distinct
  <2>2. \A u, v \in Task : \A k, l \in Dir :
          dir'[u][k] = dir'[v][l] => dir'[u][k] = Nil \/ (u = v /\ k = l)
    BY <1>4, PageFacts DEF UserInv, Distinct
  <2>3. \A q, w \in Normal : \A j, k \in Slot :
          pte'[q][j] = pte'[w][k] => pte'[q][j] = Nil \/ (q = w /\ j = k)
    BY <1>10, PageFacts DEF UserInv, Distinct
  <2> QED BY <2>1, <2>2, <2>3 DEF Distinct
<1>15. Progress'
  <2> SUFFICES ASSUME NEW u \in Task PROVE Has(u)' /\ Holds(u)'
    BY DEF Progress
  <2>1. CASE u = t
    BY <1>2, <1>3, <1>4, <2>1 DEF Has, Holds, Loading
  <2>2. CASE u # t
    <3>1. \A a \in Address : IsMapped(u, a)' <=> IsMapped(u, a)
      <4> SUFFICES ASSUME NEW a \in Address PROVE IsMapped(u, a)' <=> IsMapped(u, a)
        OBVIOUS
      <4> DEFINE w == dir[u][a \div PerTable]
      <4>1. a \div PerTable \in Dir /\ w \in Normal \cup {Nil}
        BY Places DEF UserInv, UserType
      <4>2. w # Nil => w \notin Tables(t)
        BY <1>5, <2>2, <4>1 DEF UserInv, Distinct
      <4>3. w # Nil => pte'[w] = pte[w]
        BY <1>10, <4>1, <4>2
      <4> QED BY <1>4, <2>2, <4>3 DEF IsMapped
    <3>2. Has(u) /\ Holds(u)
      BY DEF UserInv, Progress
    <3> QED BY <1>3, <1>4, <2>2, <3>1, <3>2 DEF Has, Holds, MappedIs
  <2> QED BY <2>1, <2>2
<1> QED BY <1>8, <1>13, <1>14, <1>15 DEF UserInv

LEMMA UserStep == UserInv /\ [UserNext]_user_vars => UserInv'
<1> SUFFICES ASSUME UserInv, [UserNext]_user_vars PROVE UserInv'
  OBVIOUS
<1>1. CASE UNCHANGED user_vars
  BY <1>1, SMTT(30) DEF user_vars, UserInv, UserType, Distinct, Roles, OneRole, IsArg, IsTask, IsDir,
              IsTable, IsEntry, Progress, Has, Holds, MappedIs, IsMapped
<1>2. CASE UserNext
  <2>1. PICK t \in Task :
          \/ \E len \in Lengths : exec_arg_page(t, len)
          \/ copy_argv_failed(t) \/ kernel_thread(t) \/ copy_empty_page_dir(t)
          \/ write_program_to_user(t) \/ write_argv_to_user(t) \/ write_argc_to_user(t)
          \/ create_user_stack(t) \/ exec_wrapper(t) \/ sys_exit(t)
          \/ kthread_release(t) \/ exec_return(t)
    BY <1>2 DEF UserNext
  <2>2. CASE \E len \in Lengths : exec_arg_page(t, len)
    BY <2>2, ArgPageInv
  <2>3. CASE copy_argv_failed(t)
    BY <2>3, ReleasedInv DEF copy_argv_failed
  <2>4. CASE kernel_thread(t)
    BY <2>4, KernelThreadInv
  <2>5. CASE copy_empty_page_dir(t)
    BY <2>5, EmptyPageDirInv
  <2>6. CASE write_program_to_user(t)
    BY <2>6, ProgramInv
  <2>7. CASE write_argv_to_user(t) \/ write_argc_to_user(t) \/ create_user_stack(t)
    BY <2>7, ArgumentsInv
  <2>8. CASE exec_wrapper(t) \/ sys_exit(t)
    BY <2>8, WrapperInv
  <2>9. CASE kthread_release(t)
    BY <2>9, KthreadReleaseInv
  <2>10. CASE exec_return(t)
    BY <2>10, ExecReturnInv
  <2> QED BY <2>1, <2>2, <2>3, <2>4, <2>5, <2>6, <2>7, <2>8, <2>9, <2>10
<1> QED BY <1>1, <1>2

THEOREM UserInvariant == UserSpec => []UserInv
<1> QED BY UserInitInv, UserStep, PTL DEF UserSpec

\* Who owns a page, role by role.
LEMMA OwnersMember ==
  ASSUME UserInv, NEW p \in AnyPage, NEW o
  PROVE  o \in Owners(p) <=>
           \/ \E t \in Task : o = <<t, "arg">> /\ caller[t] = p
           \/ \E t \in Task : o = <<t, "task">> /\ proc[t].task = p
           \/ \E t \in Task : o = <<t, "dir">> /\ proc[t].pgd = p
           \/ \E t \in Task : \E i \in Dir : o = <<t, i>> /\ dir[t][i] = p
           \/ \E t \in Task : \E i \in Dir : \E j \in Slot :
                o = <<t, i, j>> /\ dir[t][i] # Nil /\ pte[dir[t][i]][j] = p
<1> DEFINE B == {x \in Task \X Dir : dir[x[1]][x[2]] = p}
           E == {x \in Task \X Dir \X Slot :
                   dir[x[1]][x[2]] # Nil /\ pte[dir[x[1]][x[2]]][x[3]] = p}
<1>1. o \in B <=> \E t \in Task : \E i \in Dir : o = <<t, i>> /\ dir[t][i] = p
  OBVIOUS
<1>2. o \in E <=> \E t \in Task : \E i \in Dir : \E j \in Slot :
                    o = <<t, i, j>> /\ dir[t][i] # Nil /\ pte[dir[t][i]][j] = p
  OBVIOUS
<1>3. o \in Owners(p) <=>
        \/ \E t \in Task : o = <<t, "arg">> /\ caller[t] = p
        \/ \E t \in Task : o = <<t, "task">> /\ proc[t].task = p
        \/ \E t \in Task : o = <<t, "dir">> /\ proc[t].pgd = p
        \/ o \in B \/ o \in E
  BY DEF Owners
<1> QED BY <1>1, <1>2, <1>3

\* A page in use has one owner.
LEMMA OneOwnerOf ==
  ASSUME UserInv, NEW p \in AnyPage, p \notin free_pages
  PROVE  \E o : Owners(p) = {o}
<1>1. OneRole(p) /\ p # Nil
  BY PageFacts DEF UserInv, Roles
<1>2. \A t \in Task : \A i \in Dir : \A j \in Slot :
        dir[t][i] # Nil /\ pte[dir[t][i]][j] = p => IsEntry(p)
  BY DEF UserInv, UserType, IsEntry
<1>3. CASE IsArg(p)
  <2>1. PICK t \in Task : caller[t] = p
    BY <1>3 DEF IsArg
  <2>2. \A u \in Task : caller[u] = p => u = t
    BY <1>1, <2>1 DEF UserInv, Distinct
  <2>3. \A o : o \in Owners(p) <=> o = <<t, "arg">>
    <3> SUFFICES ASSUME NEW o PROVE o \in Owners(p) <=> o = <<t, "arg">>
      OBVIOUS
    <3>a. o \in Owners(p) <=>
           \/ \E u \in Task : o = <<u, "arg">> /\ caller[u] = p
           \/ \E u \in Task : o = <<u, "task">> /\ proc[u].task = p
           \/ \E u \in Task : o = <<u, "dir">> /\ proc[u].pgd = p
           \/ \E u \in Task : \E k \in Dir : o = <<u, k>> /\ dir[u][k] = p
           \/ \E u \in Task : \E k \in Dir : \E l \in Slot :
                o = <<u, k, l>> /\ dir[u][k] # Nil /\ pte[dir[u][k]][l] = p
      BY OwnersMember
    <3>b. /\ \A u \in Task : proc[u].task # p
          /\ \A u \in Task : proc[u].pgd # p
          /\ \A u \in Task : \A k \in Dir : dir[u][k] # p
          /\ \A u \in Task : \A k \in Dir : \A l \in Slot :
             dir[u][k] = Nil \/ pte[dir[u][k]][l] # p
      BY <1>1, <1>2, <1>3 DEF OneRole, IsTask, IsDir, IsTable
    <3>c. o = <<t, "arg">> => o \in Owners(p)
      BY <3>a, <2>1, <2>2
    <3>d. o \in Owners(p) => o = <<t, "arg">>
      BY <3>a, <3>b, <2>1, <2>2
    <3> QED BY <3>c, <3>d
  <2>5. Owners(p) = {<<t, "arg">>}
    BY <2>3
  <2> QED BY <2>5
<1>4. CASE IsTask(p)
  <2>1. PICK t \in Task : proc[t].task = p
    BY <1>4 DEF IsTask
  <2>2. \A u \in Task : proc[u].task = p => u = t
    BY <1>1, <2>1 DEF UserInv, Distinct
  <2>3. \A o : o \in Owners(p) <=> o = <<t, "task">>
    <3> SUFFICES ASSUME NEW o PROVE o \in Owners(p) <=> o = <<t, "task">>
      OBVIOUS
    <3>a. o \in Owners(p) <=>
           \/ \E u \in Task : o = <<u, "arg">> /\ caller[u] = p
           \/ \E u \in Task : o = <<u, "task">> /\ proc[u].task = p
           \/ \E u \in Task : o = <<u, "dir">> /\ proc[u].pgd = p
           \/ \E u \in Task : \E k \in Dir : o = <<u, k>> /\ dir[u][k] = p
           \/ \E u \in Task : \E k \in Dir : \E l \in Slot :
                o = <<u, k, l>> /\ dir[u][k] # Nil /\ pte[dir[u][k]][l] = p
      BY OwnersMember
    <3>b. /\ \A u \in Task : caller[u] # p
          /\ \A u \in Task : proc[u].pgd # p
          /\ \A u \in Task : \A k \in Dir : dir[u][k] # p
          /\ \A u \in Task : \A k \in Dir : \A l \in Slot :
             dir[u][k] = Nil \/ pte[dir[u][k]][l] # p
      BY <1>1, <1>2, <1>4 DEF OneRole, IsArg, IsDir, IsTable
    <3>c. o = <<t, "task">> => o \in Owners(p)
      BY <3>a, <2>1, <2>2
    <3>d. o \in Owners(p) => o = <<t, "task">>
      BY <3>a, <3>b, <2>1, <2>2
    <3> QED BY <3>c, <3>d
  <2>5. Owners(p) = {<<t, "task">>}
    BY <2>3
  <2> QED BY <2>5
<1>5. CASE IsDir(p)
  <2>1. PICK t \in Task : proc[t].pgd = p
    BY <1>5 DEF IsDir
  <2>2. \A u \in Task : proc[u].pgd = p => u = t
    BY <1>1, <2>1 DEF UserInv, Distinct
  <2>3. \A o : o \in Owners(p) <=> o = <<t, "dir">>
    <3> SUFFICES ASSUME NEW o PROVE o \in Owners(p) <=> o = <<t, "dir">>
      OBVIOUS
    <3>a. o \in Owners(p) <=>
           \/ \E u \in Task : o = <<u, "arg">> /\ caller[u] = p
           \/ \E u \in Task : o = <<u, "task">> /\ proc[u].task = p
           \/ \E u \in Task : o = <<u, "dir">> /\ proc[u].pgd = p
           \/ \E u \in Task : \E k \in Dir : o = <<u, k>> /\ dir[u][k] = p
           \/ \E u \in Task : \E k \in Dir : \E l \in Slot :
                o = <<u, k, l>> /\ dir[u][k] # Nil /\ pte[dir[u][k]][l] = p
      BY OwnersMember
    <3>b. /\ \A u \in Task : caller[u] # p
          /\ \A u \in Task : proc[u].task # p
          /\ \A u \in Task : \A k \in Dir : dir[u][k] # p
          /\ \A u \in Task : \A k \in Dir : \A l \in Slot :
             dir[u][k] = Nil \/ pte[dir[u][k]][l] # p
      BY <1>1, <1>2, <1>5 DEF OneRole, IsArg, IsTask, IsTable
    <3>c. o = <<t, "dir">> => o \in Owners(p)
      BY <3>a, <2>1, <2>2
    <3>d. o \in Owners(p) => o = <<t, "dir">>
      BY <3>a, <3>b, <2>1, <2>2
    <3> QED BY <3>c, <3>d
  <2>5. Owners(p) = {<<t, "dir">>}
    BY <2>3
  <2> QED BY <2>5
<1>6. CASE IsTable(p)
  <2>1. PICK t \in Task, i \in Dir : dir[t][i] = p
    BY <1>6 DEF IsTable
  <2>2. \A u \in Task : \A k \in Dir : dir[u][k] = p => u = t /\ k = i
    BY <1>1, <2>1 DEF UserInv, Distinct
  <2>3. \A o : o \in Owners(p) <=> o = <<t, i>>
    <3> SUFFICES ASSUME NEW o PROVE o \in Owners(p) <=> o = <<t, i>>
      OBVIOUS
    <3>a. o \in Owners(p) <=>
           \/ \E u \in Task : o = <<u, "arg">> /\ caller[u] = p
           \/ \E u \in Task : o = <<u, "task">> /\ proc[u].task = p
           \/ \E u \in Task : o = <<u, "dir">> /\ proc[u].pgd = p
           \/ \E u \in Task : \E k \in Dir : o = <<u, k>> /\ dir[u][k] = p
           \/ \E u \in Task : \E k \in Dir : \E l \in Slot :
                o = <<u, k, l>> /\ dir[u][k] # Nil /\ pte[dir[u][k]][l] = p
      BY OwnersMember
    <3>b. /\ \A u \in Task : caller[u] # p
          /\ \A u \in Task : proc[u].task # p
          /\ \A u \in Task : proc[u].pgd # p
          /\ \A u \in Task : \A k \in Dir : \A l \in Slot :
             dir[u][k] = Nil \/ pte[dir[u][k]][l] # p
      BY <1>1, <1>2, <1>6 DEF OneRole, IsArg, IsTask, IsDir
    <3>c. o = <<t, i>> => o \in Owners(p)
      BY <3>a, <2>1, <2>2
    <3>d. o \in Owners(p) => o = <<t, i>>
      BY <3>a, <3>b, <2>1, <2>2
    <3> QED BY <3>c, <3>d
  <2>5. Owners(p) = {<<t, i>>}
    BY <2>3
  <2> QED BY <2>5
<1>7. CASE IsEntry(p)
  <2>1. PICK q \in Normal, j \in Slot : pte[q][j] = p
    BY <1>7 DEF IsEntry
  <2>2. PICK t \in Task, i \in Dir : dir[t][i] = q
    BY <1>1, <2>1, PageFacts DEF UserInv, Roles, IsTable
  <2>3. \A u \in Task : \A k \in Dir : \A l \in Slot :
          dir[u][k] # Nil /\ pte[dir[u][k]][l] = p => u = t /\ k = i /\ l = j
    <3> SUFFICES ASSUME NEW u \in Task, NEW k \in Dir, NEW l \in Slot,
                        dir[u][k] # Nil, pte[dir[u][k]][l] = p
                 PROVE  u = t /\ k = i /\ l = j
      OBVIOUS
    <3>1. dir[u][k] \in Normal
      BY DEF UserInv, UserType
    <3>2. dir[u][k] = q /\ l = j
      BY <1>1, <2>1, <3>1 DEF UserInv, Distinct
    <3> QED BY <2>2, <3>2, PageFacts DEF UserInv, Distinct
  <2>4. \A o : o \in Owners(p) <=> o = <<t, i, j>>
    <3> SUFFICES ASSUME NEW o PROVE o \in Owners(p) <=> o = <<t, i, j>>
      OBVIOUS
    <3>a. o \in Owners(p) <=>
           \/ \E u \in Task : o = <<u, "arg">> /\ caller[u] = p
           \/ \E u \in Task : o = <<u, "task">> /\ proc[u].task = p
           \/ \E u \in Task : o = <<u, "dir">> /\ proc[u].pgd = p
           \/ \E u \in Task : \E k \in Dir : o = <<u, k>> /\ dir[u][k] = p
           \/ \E u \in Task : \E k \in Dir : \E l \in Slot :
                o = <<u, k, l>> /\ dir[u][k] # Nil /\ pte[dir[u][k]][l] = p
      BY OwnersMember
    <3>1. dir[t][i] # Nil /\ pte[dir[t][i]][j] = p
      BY <2>1, <2>2, PageFacts
    <3>2. ~IsArg(p) /\ ~IsTask(p) /\ ~IsDir(p) /\ ~IsTable(p)
      BY <1>1, <1>7 DEF OneRole
    <3>b. /\ \A u \in Task : caller[u] # p
          /\ \A u \in Task : proc[u].task # p
          /\ \A u \in Task : proc[u].pgd # p
          /\ \A u \in Task : \A k \in Dir : dir[u][k] # p
      BY <3>2 DEF IsArg, IsTask, IsDir, IsTable
    <3>c. o = <<t, i, j>> => o \in Owners(p)
      BY <3>a, <3>1
    <3>d. o \in Owners(p) => o = <<t, i, j>>
      BY <2>3, <3>a, <3>b, <3>1
    <3> QED BY <3>c, <3>d
  <2>5. Owners(p) = {<<t, i, j>>}
    BY <2>4
  <2> QED BY <2>5
<1> QED BY <1>1, <1>3, <1>4, <1>5, <1>6, <1>7 DEF OneRole

LEMMA NoOwnerOf ==
  ASSUME UserInv, NEW p \in AnyPage, p \in free_pages
  PROVE  Owners(p) = {}
<1>1. OneRole(p)
  BY DEF UserInv, Roles
<1>2. \A t \in Task : \A i \in Dir : \A j \in Slot :
        dir[t][i] # Nil /\ pte[dir[t][i]][j] = p => IsEntry(p)
  BY DEF UserInv, UserType, IsEntry
<1>3. \A o : o \notin Owners(p)
  BY <1>1, <1>2, OwnersMember DEF OneRole, IsArg, IsTask, IsDir, IsTable
<1> QED BY <1>3

\* Whatever allocation fails while programs are loaded, every page is free or
\* has one owner, and a program that runs has exactly its pages, its arguments
\* and its stack (load_page, free_page_dir, the error paths of sys_exec).
THEOREM PagesAreAccounted == UserSpec => []PagesAccounted
<1>1. UserInv => PagesAccounted
  <2> SUFFICES ASSUME UserInv PROVE PagesAccounted
    OBVIOUS
  <2>1. ASSUME NEW p \in AnyPage
        PROVE  Cardinality(Owners(p)) = IF p \in free_pages THEN 0 ELSE 1
    <3>1. CASE p \in free_pages
      BY <3>1, NoOwnerOf, FS_EmptySet
    <3>2. CASE p \notin free_pages
      <4>1. PICK o : Owners(p) = {o}
        BY <3>2, OneOwnerOf
      <4>2. Cardinality({o}) = 1
        BY FS_Singleton
      <4> QED BY <3>2, <4>1, <4>2
    <3> QED BY <3>1, <3>2
  <2>2. ASSUME NEW t \in Task, proc[t].at = "user", NEW a \in 0..Top - 1
        PROVE  IsMapped(t, a) <=> a \in 0..proc[t].len \cup Top - 3..Top - 1
    <3>1. MappedIs(t, proc[t].len + 1, {Top - 3, Top - 2, Top - 1})
      BY <2>2, Fields DEF Holds
    <3>2. proc[t].len \in Nat /\ Top \in Nat
      BY Fields, Places DEF ProcRecord
    <3> QED BY <3>1, <3>2 DEF MappedIs, Address
  <2> QED BY <2>1, <2>2 DEF PagesAccounted
<1> QED BY <1>1, UserInvariant, PTL
=============================================================================
