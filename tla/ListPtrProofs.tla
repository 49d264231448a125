---------------------------- MODULE ListPtrProofs ----------------------------
(***************************************************************************)
(* The pointers of list.h form closed rings, for every set of heads and    *)
(* entries.  Each function that writes pointers gets a lemma on the rings  *)
(* of its memory; the pointers of nodes outside V are stale and may hold   *)
(* anything.                                                               *)
(***************************************************************************)
EXTENDS ListPtr, TLAPS

Mem == [next : [Node -> Node], prev : [Node -> Node]]
Ring(m, V) ==
  /\ m \in Mem /\ V \subseteq Node
  /\ \A x \in V : /\ m.next[x] \in V /\ m.prev[m.next[x]] = x
                  /\ m.prev[x] \in V /\ m.next[m.prev[x]] = x

\* An assignment to a next or prev member changes that member only.
LEMMA SetNextIs ==
  ASSUME NEW m \in Mem, NEW a \in Node, NEW b \in Node
  PROVE  /\ SetNext(m, a, b) \in Mem
         /\ SetNext(m, a, b).prev = m.prev
         /\ \A x \in Node : SetNext(m, a, b).next[x] = IF x = a THEN b ELSE m.next[x]
BY DEF SetNext, Mem

\* The same for a prev member.
LEMMA SetPrevIs ==
  ASSUME NEW m \in Mem, NEW a \in Node, NEW b \in Node
  PROVE  /\ SetPrev(m, a, b) \in Mem
         /\ SetPrev(m, a, b).next = m.next
         /\ \A x \in Node : SetPrev(m, a, b).prev[x] = IF x = a THEN b ELSE m.prev[x]
BY DEF SetPrev, Mem

\* INIT_LIST_HEAD of a node that is on no list makes it a ring of its own.
LEMMA InitRing ==
  ASSUME NEW m, NEW V, Ring(m, V), NEW l \in Node, l \in V => m.next[l] = l
  PROVE  /\ Ring(INIT_LIST_HEAD(m, l), V \cup {l})
         /\ \A x \in Node : INIT_LIST_HEAD(m, l).next[x] = IF x = l THEN l ELSE m.next[x]
<1> DEFINE m1 == SetNext(m, l, l)
           m2 == SetPrev(m1, l, l)
<1>1. m1 \in Mem /\ m1.prev = m.prev
      /\ \A x \in Node : m1.next[x] = IF x = l THEN l ELSE m.next[x]
  BY SetNextIs DEF Ring
<1>2. m2 \in Mem /\ m2.next = m1.next
      /\ \A x \in Node : m2.prev[x] = IF x = l THEN l ELSE m1.prev[x]
  BY <1>1, SetPrevIs
<1>3. INIT_LIST_HEAD(m, l) = m2
  BY DEF INIT_LIST_HEAD
<1> HIDE DEF m1, m2
<1>4. V \subseteq Node /\ V \cup {l} \subseteq Node
  BY DEF Ring
<1>5. ASSUME NEW x \in V \cup {l}
      PROVE  /\ m2.next[x] \in V \cup {l} /\ m2.prev[m2.next[x]] = x
             /\ m2.prev[x] \in V \cup {l} /\ m2.next[m2.prev[x]] = x
  <2>1. CASE x = l
    BY <1>1, <1>2, <2>1
  <2>2. CASE x # l
    <3>1. x \in V /\ m.next[x] \in V /\ m.prev[x] \in V
          /\ m.prev[m.next[x]] = x /\ m.next[m.prev[x]] = x
      BY <2>2 DEF Ring
    <3>2. m.next[x] # l /\ m.prev[x] # l
      BY <2>2, <3>1 DEF Ring
    <3> QED
      BY <1>1, <1>2, <1>4, <2>2, <3>1, <3>2
  <2> QED
    BY <2>1, <2>2
<1> QED
  BY <1>1, <1>2, <1>3, <1>4, <1>5 DEF Ring

\* __list_add links a node that is on no list between two neighbours.
LEMMA AddRing ==
  ASSUME NEW m, NEW V, Ring(m, V), NEW p \in V, NEW new \in Node,
         p # new, new \in V => m.next[new] = new
  PROVE  /\ Ring(add_between(m, new, p, m.next[p]), V \cup {new})
         /\ \A x \in Node : add_between(m, new, p, m.next[p]).next[x] =
                IF x = p THEN new ELSE IF x = new THEN m.next[p] ELSE m.next[x]
<1>0. PICK n : n = m.next[p]
  OBVIOUS
<1>1. /\ m \in Mem /\ V \subseteq Node /\ p \in Node /\ n \in V /\ n \in Node
      /\ n # new /\ m.prev[n] = p
  BY <1>0 DEF Ring
<1>a. PICK m1 \in Mem : /\ m1 = SetPrev(m, n, new) /\ m1.next = m.next
                        /\ \A x \in Node : m1.prev[x] = IF x = n THEN new ELSE m.prev[x]
  BY <1>1, SetPrevIs
<1>b. PICK m2 \in Mem : /\ m2 = SetNext(m1, new, n) /\ m2.prev = m1.prev
                        /\ \A x \in Node : m2.next[x] = IF x = new THEN n ELSE m1.next[x]
  BY <1>1, SetNextIs
<1>c. PICK m3 \in Mem : /\ m3 = SetPrev(m2, new, p) /\ m3.next = m2.next
                        /\ \A x \in Node : m3.prev[x] = IF x = new THEN p ELSE m2.prev[x]
  BY <1>1, SetPrevIs
<1>d. PICK m4 \in Mem : /\ m4 = SetNext(m3, p, new) /\ m4.prev = m3.prev
                        /\ \A x \in Node : m4.next[x] = IF x = p THEN new ELSE m3.next[x]
  BY <1>1, SetNextIs
<1>5. add_between(m, new, p, m.next[p]) = m4
  BY <1>0, <1>a, <1>b, <1>c, <1>d DEF add_between
<1>6. ASSUME NEW x \in V \cup {new}
      PROVE  /\ m4.next[x] \in V \cup {new} /\ m4.prev[m4.next[x]] = x
             /\ m4.prev[x] \in V \cup {new} /\ m4.next[m4.prev[x]] = x
  <2>1. CASE x = new
    BY <1>1, <1>a, <1>b, <1>c, <1>d, <2>1
  <2>2. CASE x # new
    <3>1. x \in V /\ m.next[x] \in V /\ m.prev[x] \in V
          /\ m.prev[m.next[x]] = x /\ m.next[m.prev[x]] = x
      BY <2>2 DEF Ring
    <3>2. m.next[x] # new /\ m.prev[x] # new
      BY <2>2, <3>1 DEF Ring
    <3>3. m4.next[x] = IF x = p THEN new ELSE m.next[x]
      BY <1>1, <1>a, <1>b, <1>c, <1>d, <2>2, <3>1
    <3>4. m4.prev[x] = IF x = n THEN new ELSE m.prev[x]
      BY <1>1, <1>a, <1>b, <1>c, <1>d, <2>2, <3>1
    <3>5. m4.next[new] = n /\ m4.prev[new] = p
      BY <1>1, <1>a, <1>b, <1>c, <1>d
    <3>6. \A y \in V : y # new => /\ m4.next[y] = IF y = p THEN new ELSE m.next[y]
                                  /\ m4.prev[y] = IF y = n THEN new ELSE m.prev[y]
      BY <1>1, <1>a, <1>b, <1>c, <1>d
    <3>7. (x = p <=> m.next[x] = n) /\ (x = n <=> m.prev[x] = p)
      BY <1>0, <1>1, <3>1
    <3> QED
      BY <1>1, <3>1, <3>2, <3>3, <3>4, <3>5, <3>6, <3>7
  <2> QED
    BY <2>1, <2>2
<1> QED
  <2>1. \A x \in Node : m4.next[x] =
          IF x = p THEN new ELSE IF x = new THEN m.next[p] ELSE m.next[x]
    BY <1>0, <1>1, <1>a, <1>b, <1>c, <1>d
  <2> QED
    BY <1>1, <1>d, <1>5, <1>6, <2>1 DEF Ring

\* __list_del closes the ring behind the entry that leaves.
LEMMA DelRing ==
  ASSUME NEW m, NEW V, Ring(m, V), NEW e \in V
  PROVE  /\ Ring(list_del(m, e), V \ {e})
         /\ \A x \in Node : list_del(m, e).next[x] =
                IF x = m.prev[e] THEN m.next[e] ELSE m.next[x]
<1>0. PICK p, n : p = m.prev[e] /\ n = m.next[e]
  OBVIOUS
<1>1. /\ m \in Mem /\ V \subseteq Node /\ p \in Node /\ n \in Node
      /\ p \in V /\ n \in V /\ m.next[p] = e /\ m.prev[n] = e
  BY <1>0 DEF Ring
<1>2. PICK m1 \in Mem : /\ m1 = SetPrev(m, n, p) /\ m1.next = m.next
                        /\ \A x \in Node : m1.prev[x] = IF x = n THEN p ELSE m.prev[x]
  BY <1>1, SetPrevIs
<1>3. PICK m2 \in Mem : /\ m2 = SetNext(m1, p, n) /\ m2.prev = m1.prev
                        /\ \A x \in Node : m2.next[x] = IF x = p THEN n ELSE m1.next[x]
  BY <1>1, SetNextIs
<1>4. list_del(m, e) = m2
  BY <1>0, <1>2, <1>3 DEF list_del, del_between
<1>5. ASSUME NEW x \in V \ {e}
      PROVE  /\ m2.next[x] \in V \ {e} /\ m2.prev[m2.next[x]] = x
             /\ m2.prev[x] \in V \ {e} /\ m2.next[m2.prev[x]] = x
  <2>1. x \in V /\ m.next[x] \in V /\ m.prev[x] \in V
        /\ m.prev[m.next[x]] = x /\ m.next[m.prev[x]] = x
    BY DEF Ring
  <2>2. (x = p <=> m.next[x] = e) /\ (x = n <=> m.prev[x] = e)
    BY <1>0, <1>1, <2>1
  <2>3. \A y \in V : /\ m2.next[y] = IF y = p THEN n ELSE m.next[y]
                     /\ m2.prev[y] = IF y = n THEN p ELSE m.prev[y]
    BY <1>1, <1>2, <1>3
  <2>4. x = p => n # e
    BY <1>0, <1>1, <2>1, <2>2
  <2>5. x = n => p # e
    BY <1>0, <1>1, <2>1, <2>2
  <2> QED
    BY <1>0, <1>1, <2>1, <2>2, <2>3, <2>4, <2>5
<1> QED
  <2>1. Ring(m2, V \ {e})
    BY <1>1, <1>3, <1>5 DEF Ring
  <2>2. \A x \in Node : m2.next[x] = IF x = m.prev[e] THEN m.next[e] ELSE m.next[x]
    BY <1>0, <1>1, <1>2, <1>3
  <2> QED
    BY <1>4, <2>1, <2>2
\* list_replace puts new into the place of old, whose pointers stay behind; a
\* ring of old alone becomes one of new alone.
LEMMA ReplaceRing ==
  ASSUME NEW m, NEW V, Ring(m, V), NEW old \in V, NEW new \in Node,
         old # new, new \in V => m.next[new] = new
  PROVE  /\ Ring(list_replace(m, old, new), (V \ {old}) \cup {new})
         /\ \A x \in V : x # new => list_replace(m, old, new).next[x] =
                IF x = m.prev[old] /\ x # old THEN new ELSE m.next[x]
         /\ list_replace(m, old, new).next[new] =
                IF m.prev[old] = old THEN new ELSE m.next[old]
<1>0. PICK p, n : p = m.prev[old] /\ n = m.next[old]
  OBVIOUS
<1>1. /\ m \in Mem /\ V \subseteq Node /\ p \in V /\ n \in V /\ p \in Node /\ n \in Node
      /\ old \in Node /\ m.next[p] = old /\ m.prev[n] = old /\ p # new /\ n # new
  BY <1>0 DEF Ring
<1>2. PICK m1 \in Mem : /\ m1 = SetNext(m, new, n) /\ m1.prev = m.prev
                        /\ \A x \in Node : m1.next[x] = IF x = new THEN n ELSE m.next[x]
  BY <1>1, SetNextIs
<1>3. PICK m2 \in Mem : /\ m2 = SetPrev(m1, n, new) /\ m2.next = m1.next
                        /\ \A x \in Node : m2.prev[x] = IF x = n THEN new ELSE m1.prev[x]
  BY <1>1, SetPrevIs
<1>4. PICK q : q = m2.prev[old]
  OBVIOUS
<1>5. q = IF p = old THEN new ELSE p
  BY <1>0, <1>1, <1>2, <1>3, <1>4
<1>6. q \in Node
  BY <1>1, <1>5
<1>7. PICK m3 \in Mem : /\ m3 = SetPrev(m2, new, q) /\ m3.next = m2.next
                        /\ \A x \in Node : m3.prev[x] = IF x = new THEN q ELSE m2.prev[x]
  BY <1>6, SetPrevIs
<1>8. PICK m4 \in Mem : /\ m4 = SetNext(m3, q, new) /\ m4.prev = m3.prev
                        /\ \A x \in Node : m4.next[x] = IF x = q THEN new ELSE m3.next[x]
  BY <1>6, SetNextIs
<1>9. list_replace(m, old, new) = m4
  <2>1. m1.next[new] = n
    BY <1>2
  <2>2. m3.prev[new] = q
    BY <1>7
  <2>3. /\ SetNext(m, new, m.next[old]) = m1
        /\ SetPrev(m1, m1.next[new], new) = m2
        /\ SetPrev(m2, new, m2.prev[old]) = m3
        /\ SetNext(m3, m3.prev[new], new) = m4
    BY <1>0, <1>2, <1>3, <1>4, <1>7, <1>8, <2>1, <2>2
  <2> QED
    BY <2>3, Zenon DEF list_replace
<1>10. /\ m4.next[new] = IF p = old THEN new ELSE n
       /\ m4.prev[new] = q
       /\ \A y \in V : y # new => /\ m4.next[y] = IF y = q THEN new ELSE m.next[y]
                                  /\ m4.prev[y] = IF y = n THEN new ELSE m.prev[y]
  BY <1>1, <1>2, <1>3, <1>5, <1>7, <1>8
<1>11. ASSUME NEW x \in (V \ {old}) \cup {new}
       PROVE  /\ m4.next[x] \in (V \ {old}) \cup {new} /\ m4.prev[m4.next[x]] = x
              /\ m4.prev[x] \in (V \ {old}) \cup {new} /\ m4.next[m4.prev[x]] = x
  <2>1. CASE x = new /\ p = old
    BY <1>5, <1>10, <2>1
  <2>2. CASE x = new /\ p # old
    <3>1. n # old
      BY <1>0, <1>1, <2>2
    <3> QED
      BY <1>1, <1>5, <1>10, <2>2, <3>1
  <2>3. CASE x # new
    <3>1. x \in V /\ x # old /\ m.next[x] \in V /\ m.prev[x] \in V
          /\ m.prev[m.next[x]] = x /\ m.next[m.prev[x]] = x
      BY <2>3 DEF Ring
    <3>2. m.next[x] # new /\ m.prev[x] # new
      BY <2>3, <3>1 DEF Ring
    <3>3. (x = p <=> m.next[x] = old) /\ (x = n <=> m.prev[x] = old)
      BY <1>0, <1>1, <3>1
    <3>4. (x = p => p # old) /\ (x = n => n # old)
      BY <3>1
    <3>5. (x = q <=> x = p) /\ (n = old <=> p = old)
      BY <1>0, <1>1, <1>5, <2>3, <3>1
    <3> QED
      BY <1>1, <1>5, <1>10, <2>3, <3>1, <3>2, <3>3, <3>4, <3>5
  <2> QED
    BY <2>1, <2>2, <2>3
<1> QED
  <2>1. (V \ {old}) \cup {new} \subseteq Node
    BY <1>1
  <2> QED
    <3>1. Ring(m4, (V \ {old}) \cup {new})
      BY <1>8, <1>11, <2>1 DEF Ring
    <3>2. \A x \in V : x # new =>
            m4.next[x] = IF x = m.prev[old] /\ x # old THEN new ELSE m.next[x]
      BY <1>0, <1>5, <1>10
    <3>3. m4.next[new] = IF m.prev[old] = old THEN new ELSE m.next[old]
      BY <1>0, <1>10
    <3> QED
      BY <1>9, <3>1, <3>2, <3>3

\* __list_splice moves the entries of l between two neighbours of another ring;
\* the pointers of l stay behind.
LEMMA SpliceRing ==
  ASSUME NEW m, NEW V, Ring(m, V), NEW l \in V, NEW p \in V,
         m.next[l] # l, p # l, m.next[p] # l
  PROVE  /\ Ring(splice_between(m, l, p, m.next[p]), V \ {l})
         /\ \A x \in Node : splice_between(m, l, p, m.next[p]).next[x] =
                IF x = m.prev[l] THEN m.next[p] ELSE IF x = p THEN m.next[l] ELSE m.next[x]
<1>0. PICK n, f, t : n = m.next[p] /\ f = m.next[l] /\ t = m.prev[l]
  OBVIOUS
<1>1. /\ m \in Mem /\ V \subseteq Node /\ {l, p, n, f, t} \subseteq V
      /\ l \in Node /\ p \in Node /\ n \in Node /\ f \in Node /\ t \in Node
      /\ m.prev[n] = p /\ m.prev[f] = l /\ m.next[t] = l
      /\ n # l /\ p # l /\ f # l /\ t # l
  BY <1>0 DEF Ring
<1>2. f # n /\ t # p
  BY <1>0, <1>1
<1>3. PICK m1 \in Mem : /\ m1 = SetPrev(m, f, p) /\ m1.next = m.next
                        /\ \A x \in Node : m1.prev[x] = IF x = f THEN p ELSE m.prev[x]
  BY <1>1, SetPrevIs
<1>4. PICK m2 \in Mem : /\ m2 = SetNext(m1, p, f) /\ m2.prev = m1.prev
                        /\ \A x \in Node : m2.next[x] = IF x = p THEN f ELSE m1.next[x]
  BY <1>1, SetNextIs
<1>5. PICK m3 \in Mem : /\ m3 = SetNext(m2, t, n) /\ m3.prev = m2.prev
                        /\ \A x \in Node : m3.next[x] = IF x = t THEN n ELSE m2.next[x]
  BY <1>1, SetNextIs
<1>6. PICK m4 \in Mem : /\ m4 = SetPrev(m3, n, t) /\ m4.next = m3.next
                        /\ \A x \in Node : m4.prev[x] = IF x = n THEN t ELSE m3.prev[x]
  BY <1>1, SetPrevIs
<1>7. splice_between(m, l, p, m.next[p]) = m4
  BY <1>0, <1>3, <1>4, <1>5, <1>6 DEF splice_between
<1>8. \A x \in Node : /\ m4.next[x] = IF x = t THEN n ELSE IF x = p THEN f ELSE m.next[x]
                      /\ m4.prev[x] = IF x = n THEN t ELSE IF x = f THEN p ELSE m.prev[x]
  BY <1>3, <1>4, <1>5, <1>6
<1>9. ASSUME NEW x \in V \ {l}
      PROVE  /\ m4.next[x] \in V \ {l} /\ m4.prev[m4.next[x]] = x
             /\ m4.prev[x] \in V \ {l} /\ m4.next[m4.prev[x]] = x
  <2>1. /\ x \in V /\ m.next[x] \in V /\ m.prev[x] \in V /\ x \in Node
        /\ m.next[x] \in Node /\ m.prev[x] \in Node
        /\ m.prev[m.next[x]] = x /\ m.next[m.prev[x]] = x
    BY DEF Ring
  <2>2. /\ x = t <=> m.next[x] = l
        /\ x = p <=> m.next[x] = n
        /\ x = f <=> m.prev[x] = l
        /\ x = n <=> m.prev[x] = p
    BY <1>0, <1>1, <2>1
  <2>3. m.next[x] = f <=> x = l
    BY <1>0, <1>1, <2>1
  <2>4. m.prev[x] = t <=> x = l
    BY <1>0, <1>1, <2>1
  <2>5. m4.next[x] \in V \ {l} /\ m4.prev[m4.next[x]] = x
    BY <1>1, <1>2, <1>8, <2>1, <2>2, <2>3
  <2>6. m4.prev[x] \in V \ {l} /\ m4.next[m4.prev[x]] = x
    BY <1>1, <1>2, <1>8, <2>1, <2>2, <2>4
  <2> QED
    BY <2>5, <2>6
<1> QED
  BY <1>0, <1>1, <1>6, <1>7, <1>8, <1>9 DEF Ring

\* __list_cut_position puts l, which is on no list, in front of the entries up
\* to e and h in front of the rest.
LEMMA CutRing ==
  ASSUME NEW m, NEW V, Ring(m, V), NEW h \in V, NEW e \in V, e # h,
         NEW l \in Node, l # h, l # e, l \in V => m.next[l] = l
  PROVE  /\ Ring(cut_between(m, l, h, e), V \cup {l})
         /\ \A x \in Node : cut_between(m, l, h, e).next[x] =
                IF x = h THEN m.next[e] ELSE IF x = e THEN l
                ELSE IF x = l THEN m.next[h] ELSE m.next[x]
<1>0. PICK f, n : f = m.next[e] /\ n = m.next[h]
  OBVIOUS
<1>1. /\ m \in Mem /\ V \subseteq Node /\ f \in V /\ n \in V
      /\ h \in Node /\ e \in Node /\ f \in Node /\ n \in Node
      /\ m.prev[f] = e /\ m.prev[n] = h /\ f # n /\ f # l /\ n # l
  BY <1>0 DEF Ring
<1>2. PICK m1 \in Mem : /\ m1 = SetNext(m, l, n) /\ m1.prev = m.prev
                        /\ \A x \in Node : m1.next[x] = IF x = l THEN n ELSE m.next[x]
  BY <1>1, SetNextIs
<1>3. PICK m2 \in Mem : /\ m2 = SetPrev(m1, n, l) /\ m2.next = m1.next
                        /\ \A x \in Node : m2.prev[x] = IF x = n THEN l ELSE m1.prev[x]
  BY <1>1, SetPrevIs
<1>4. PICK a \in Mem : /\ a = SetPrev(m2, l, e) /\ a.next = m2.next
                       /\ \A x \in Node : a.prev[x] = IF x = l THEN e ELSE m2.prev[x]
  BY <1>1, SetPrevIs
<1>5. PICK m3 \in Mem : /\ m3 = SetNext(a, e, l) /\ m3.prev = a.prev
                        /\ \A x \in Node : m3.next[x] = IF x = e THEN l ELSE a.next[x]
  BY <1>1, SetNextIs
<1>6. PICK b \in Mem : /\ b = SetNext(m3, h, f) /\ b.prev = m3.prev
                       /\ \A x \in Node : b.next[x] = IF x = h THEN f ELSE m3.next[x]
  BY <1>1, SetNextIs
<1>7. PICK m4 \in Mem : /\ m4 = SetPrev(b, f, h) /\ m4.next = b.next
                        /\ \A x \in Node : m4.prev[x] = IF x = f THEN h ELSE b.prev[x]
  BY <1>1, SetPrevIs
<1>8. cut_between(m, l, h, e) = m4
  <2>1. m1.next[l] = n
    BY <1>2
  <2>2. /\ SetNext(m, l, m.next[h]) = m1
        /\ SetPrev(m1, m1.next[l], l) = m2
        /\ SetNext(SetPrev(m2, l, e), e, l) = m3
        /\ SetPrev(SetNext(m3, h, m.next[e]), m.next[e], h) = m4
    BY <1>0, <1>2, <1>3, <1>4, <1>5, <1>6, <1>7, <2>1
  <2> QED
    BY <2>2, Zenon DEF cut_between
<1>9. \A x \in Node :
        /\ m4.next[x] = IF x = h THEN f ELSE IF x = e THEN l ELSE IF x = l THEN n ELSE m.next[x]
        /\ m4.prev[x] = IF x = f THEN h ELSE IF x = l THEN e ELSE IF x = n THEN l ELSE m.prev[x]
  BY <1>2, <1>3, <1>4, <1>5, <1>6, <1>7
<1>10. ASSUME NEW x \in V \cup {l}
       PROVE  /\ m4.next[x] \in V \cup {l} /\ m4.prev[m4.next[x]] = x
              /\ m4.prev[x] \in V \cup {l} /\ m4.next[m4.prev[x]] = x
  <2>1. CASE x = l
    BY <1>1, <1>9, <2>1
  <2>2. CASE x # l
    <3>1. /\ x \in V /\ m.next[x] \in V /\ m.prev[x] \in V /\ x \in Node
          /\ m.next[x] \in Node /\ m.prev[x] \in Node
          /\ m.prev[m.next[x]] = x /\ m.next[m.prev[x]] = x
      BY <2>2 DEF Ring
    <3>2. m.next[x] # l /\ m.prev[x] # l
      BY <2>2, <3>1 DEF Ring
    <3>3. /\ x = h <=> m.next[x] = n
          /\ x = e <=> m.next[x] = f
          /\ x = n <=> m.prev[x] = h
          /\ x = f <=> m.prev[x] = e
      BY <1>0, <1>1, <3>1
    <3>4. m4.next[x] \in V \cup {l} /\ m4.prev[m4.next[x]] = x
      BY <1>1, <1>9, <2>2, <3>1, <3>2, <3>3
    <3>5. m4.prev[x] \in V \cup {l} /\ m4.next[m4.prev[x]] = x
      BY <1>1, <1>9, <2>2, <3>1, <3>2, <3>3
    <3> QED
      BY <3>4, <3>5
  <2> QED
    BY <2>1, <2>2
<1> QED
  BY <1>0, <1>1, <1>7, <1>8, <1>9, <1>10 DEF Ring
-----------------------------------------------------------------------------
(***************************************************************************)
(* The rings alone are not inductive: a splice of two heads that share a   *)
(* ring would leave a pointer to the head that is given up.  Every ring    *)
(* has one owner, and a head owns the ring it is in.                       *)
(***************************************************************************)
Owned(m, V, own) ==
  /\ Ring(m, V) /\ own \in [V -> Node]
  /\ \A x \in V : own[m.next[x]] = own[x]
  /\ \A h \in V \cap Heads : own[h] = h
Rings(m, V) == \E own : Owned(m, V, own)

\* A node alone gets a ring it owns itself.
LEMMA InitOwned ==
  ASSUME NEW m, NEW V, Rings(m, V), NEW l \in Node, l \in V => m.next[l] = l
  PROVE  Rings(INIT_LIST_HEAD(m, l), V \cup {l})
<1>1. PICK own : Owned(m, V, own)
  BY DEF Rings
<1>2. PICK r : r = INIT_LIST_HEAD(m, l)
  OBVIOUS
<1>3. Ring(r, V \cup {l}) /\ \A x \in Node : r.next[x] = IF x = l THEN l ELSE m.next[x]
  BY <1>1, <1>2, InitRing DEF Owned
<1>4. PICK o : o = [x \in V \cup {l} |-> IF x = l THEN l ELSE own[x]]
  OBVIOUS
<1>5. ASSUME NEW x \in V, x # l
      PROVE  x \in Node /\ m.next[x] \in V /\ m.next[x] # l
  BY <1>1, <1>5 DEF Owned, Ring
<1>6. o \in [V \cup {l} -> Node]
  BY <1>1, <1>4 DEF Owned
<1>7. \A x \in V \cup {l} : o[r.next[x]] = o[x]
  BY <1>1, <1>3, <1>4, <1>5 DEF Owned
<1>8. \A h \in (V \cup {l}) \cap Heads : o[h] = h
  BY <1>1, <1>4 DEF Owned
<1> QED
  BY <1>2, <1>3, <1>6, <1>7, <1>8 DEF Owned, Rings

\* An entry joins the ring it is linked into.
LEMMA AddOwned ==
  ASSUME NEW m, NEW V, Rings(m, V), NEW p \in V, NEW new \in Entry,
         p # new, new \in V => m.next[new] = new
  PROVE  Rings(add_between(m, new, p, m.next[p]), V \cup {new})
<1>1. PICK own : Owned(m, V, own)
  BY DEF Rings
<1>2. PICK r : r = add_between(m, new, p, m.next[p])
  OBVIOUS
<1>3. new \in Node /\ new \notin Heads
  BY NodeAssumption DEF Node
<1>4. Ring(r, V \cup {new})
      /\ \A x \in Node : r.next[x] = IF x = p THEN new ELSE IF x = new THEN m.next[p] ELSE m.next[x]
  <2>1. Ring(m, V)
    BY <1>1 DEF Owned
  <2> QED
    BY <1>2, <1>3, <2>1, AddRing
<1>5. PICK o : o = [x \in V \cup {new} |-> IF x = new THEN own[p] ELSE own[x]]
  OBVIOUS
<1>6. ASSUME NEW x \in V, x # new
      PROVE  x \in Node /\ m.next[x] \in V /\ m.next[x] # new
  BY <1>1, <1>6 DEF Owned, Ring
<1>7. o \in [V \cup {new} -> Node]
  BY <1>1, <1>5 DEF Owned
<1>8. \A x \in V \cup {new} : o[r.next[x]] = o[x]
  BY <1>1, <1>3, <1>4, <1>5, <1>6 DEF Owned
<1>9. \A h \in (V \cup {new}) \cap Heads : o[h] = h
  BY <1>1, <1>3, <1>5 DEF Owned
<1> QED
  BY <1>2, <1>4, <1>7, <1>8, <1>9 DEF Owned, Rings

\* list_add and list_add_tail are two places to link at.
LEMMA AddsOwned ==
  ASSUME NEW m, NEW V, Rings(m, V), NEW h \in V, NEW new \in Entry,
         h # new, new \in V => m.next[new] = new
  PROVE  Rings(list_add(m, new, h), V \cup {new}) /\ Rings(list_add_tail(m, new, h), V \cup {new})
<1>1. Rings(add_between(m, new, h, m.next[h]), V \cup {new})
  BY AddOwned
<1>2. PICK p : p = m.prev[h]
  OBVIOUS
<1>3. p \in V /\ m.next[p] = h /\ p # new
  BY <1>2 DEF Rings, Owned, Ring
<1>4. Rings(add_between(m, new, p, m.next[p]), V \cup {new})
  BY <1>3, AddOwned
<1> QED
  BY <1>1, <1>2, <1>3, <1>4 DEF list_add, list_add_tail

\* An entry that leaves takes nothing of the ring with it.
LEMMA DelOwned ==
  ASSUME NEW m, NEW V, Rings(m, V), NEW e \in V
  PROVE  Rings(list_del(m, e), V \ {e})
<1>1. PICK own : Owned(m, V, own)
  BY DEF Rings
<1>2. PICK r : r = list_del(m, e)
  OBVIOUS
<1>3. Ring(r, V \ {e})
      /\ \A x \in Node : r.next[x] = IF x = m.prev[e] THEN m.next[e] ELSE m.next[x]
  BY <1>1, <1>2, DelRing DEF Owned
<1>4. PICK o : o = [x \in V \ {e} |-> own[x]]
  OBVIOUS
<1>5. o \in [V \ {e} -> Node]
  BY <1>1, <1>4 DEF Owned
<1>6. ASSUME NEW x \in V \ {e} PROVE o[r.next[x]] = o[x]
  <2>1. x \in Node /\ r.next[x] \in V \ {e} /\ m.next[x] \in V
    BY <1>1, <1>3 DEF Owned, Ring
  <2>2. CASE x = m.prev[e]
    <3>1. m.next[x] = e
      BY <1>1, <2>2 DEF Owned, Ring
    <3> QED
      BY <1>1, <1>3, <1>4, <2>1, <2>2, <3>1 DEF Owned
  <2>3. CASE x # m.prev[e]
    BY <1>1, <1>3, <1>4, <2>1, <2>3 DEF Owned
  <2> QED
    BY <2>2, <2>3
<1>7. \A h \in (V \ {e}) \cap Heads : o[h] = h
  BY <1>1, <1>4 DEF Owned
<1> QED
  BY <1>2, <1>3, <1>5, <1>6, <1>7 DEF Owned, Rings

\* list_del leaves the entry itself alone, so that it can be linked again.
LEMMA MoveOwned ==
  ASSUME NEW m, NEW V, Rings(m, V), NEW e \in V \cap Entry, NEW h \in V, e # h
  PROVE  Rings(list_move(m, e, h), V) /\ Rings(list_move_tail(m, e, h), V)
<1>1. Rings(list_del(m, e), V \ {e})
  BY DelOwned
<1>2. h \in V \ {e} /\ e \notin V \ {e} /\ (V \ {e}) \cup {e} = V
  OBVIOUS
<1>3. /\ Rings(list_add(list_del(m, e), e, h), (V \ {e}) \cup {e})
      /\ Rings(list_add_tail(list_del(m, e), e, h), (V \ {e}) \cup {e})
  BY <1>1, <1>2, AddsOwned
<1> QED
  BY <1>2, <1>3 DEF list_move, list_move_tail

\* The ring of old becomes the ring of new.
LEMMA ReplaceOwned ==
  ASSUME NEW m, NEW V, Rings(m, V), NEW old \in V, NEW new \in Node,
         old # new, new \in V => m.next[new] = new, old \in Heads <=> new \in Heads
  PROVE  Rings(list_replace(m, old, new), (V \ {old}) \cup {new})
<1>1. PICK own : Owned(m, V, own)
  BY DEF Rings
<1>2. PICK r, W : r = list_replace(m, old, new) /\ W = (V \ {old}) \cup {new}
  OBVIOUS
<1>3. Ring(m, V)
  BY <1>1 DEF Owned
<1>4. /\ Ring(r, W)
      /\ \A x \in V : x # new =>
           r.next[x] = IF x = m.prev[old] /\ x # old THEN new ELSE m.next[x]
      /\ r.next[new] = IF m.prev[old] = old THEN new ELSE m.next[old]
  BY <1>2, <1>3, ReplaceRing
<1>5. PICK sub : sub = [y \in Node |-> IF y = old THEN new ELSE y]
  OBVIOUS
<1>6. PICK o : o = [x \in W |-> IF x = new THEN sub[own[old]] ELSE sub[own[x]]]
  OBVIOUS
<1>7. V \subseteq Node /\ own \in [V -> Node] /\ W \subseteq Node
  BY <1>1, <1>2 DEF Owned, Ring
<1>8. sub \in [Node -> Node]
  BY <1>5
<1>9. o \in [W -> Node]
  BY <1>2, <1>6, <1>7, <1>8
<1>10. ASSUME NEW x \in W PROVE o[r.next[x]] = o[x]
  <2>1. CASE x = new /\ m.prev[old] = old
    BY <1>4, <2>1
  <2>2. CASE x = new /\ m.prev[old] # old
    <3>1. m.next[old] \in V /\ m.next[old] # old /\ m.next[old] # new
      BY <1>3, <2>2 DEF Ring
    <3> QED
      BY <1>1, <1>2, <1>4, <1>6, <2>2, <3>1 DEF Owned
  <2>3. CASE x # new
    <3>1. x \in V /\ x # old /\ m.next[x] \in V /\ m.next[x] # new
          /\ (m.next[x] = old <=> x = m.prev[old])
      BY <1>2, <1>3, <2>3 DEF Ring
    <3>2. own[m.next[x]] = own[x]
      BY <1>1, <3>1 DEF Owned
    <3>3. CASE x = m.prev[old]
      BY <1>2, <1>4, <1>6, <2>3, <3>1, <3>2, <3>3
    <3>4. CASE x # m.prev[old]
      BY <1>2, <1>4, <1>6, <2>3, <3>1, <3>2, <3>4
    <3> QED
      BY <3>3, <3>4
  <2> QED
    BY <2>1, <2>2, <2>3
<1>11. ASSUME NEW h \in W \cap Heads PROVE o[h] = h
  <2>1. CASE h = new
    BY <1>1, <1>5, <1>6, <1>7, <2>1 DEF Owned
  <2>2. CASE h # new
    BY <1>1, <1>2, <1>5, <1>6, <1>7, <2>2 DEF Owned
  <2> QED
    BY <2>1, <2>2
<1> QED
  BY <1>2, <1>4, <1>9, <1>10, <1>11 DEF Owned, Rings

\* l and h own different rings: the entries of l join the ring of h.
LEMMA SpliceOwned ==
  ASSUME NEW m, NEW V, Rings(m, V), NEW l \in V \cap Heads, NEW h \in V \cap Heads, l # h
  PROVE  LET W == IF list_empty(m, l) THEN V ELSE V \ {l}
         IN Rings(list_splice(m, l, h), W) /\ Rings(list_splice_tail(m, l, h), W)
<1>1. PICK own : Owned(m, V, own)
  BY DEF Rings
<1>2. Ring(m, V) /\ V \subseteq Node /\ own \in [V -> Node] /\ own[h] = h /\ own[l] = l
  BY <1>1 DEF Owned, Ring
<1>3. CASE list_empty(m, l)
  BY <1>3 DEF list_splice, list_splice_tail
<1>4. CASE ~list_empty(m, l)
  <2>1. m.next[l] # l
    BY <1>4 DEF list_empty
  <2>2. ASSUME NEW p \in V, own[p] = h
        PROVE  Rings(splice_between(m, l, p, m.next[p]), V \ {l})
    <3>1. m.next[p] \in V /\ own[m.next[p]] = h /\ p # l /\ m.next[p] # l
      BY <1>1, <1>2, <2>2 DEF Owned, Ring
    <3>2. PICK r : r = splice_between(m, l, p, m.next[p])
      OBVIOUS
    <3>3. /\ Ring(r, V \ {l})
          /\ \A x \in Node : r.next[x] =
                IF x = m.prev[l] THEN m.next[p] ELSE IF x = p THEN m.next[l] ELSE m.next[x]
      <4>1. Ring(m, V) /\ l \in V
        BY <1>2
      <4> QED
        BY <2>1, <3>1, <3>2, <4>1, SpliceRing
    <3>4. PICK o : o = [x \in V \ {l} |-> IF own[x] = l THEN h ELSE own[x]]
      OBVIOUS
    <3>5. o \in [V \ {l} -> Node]
      BY <1>2, <3>4
    <3>6. ASSUME NEW x \in V \ {l} PROVE o[r.next[x]] = o[x]
      <4>1. x \in Node /\ r.next[x] \in V \ {l} /\ own[m.next[x]] = own[x] /\ own[m.next[l]] = l
        BY <1>1, <1>2, <3>3 DEF Owned, Ring
      <4>2. CASE x = m.prev[l]
        <5>1. own[x] = l
          BY <1>1, <1>2, <4>1, <4>2 DEF Owned, Ring
        <5> QED
          BY <3>1, <3>3, <3>4, <4>1, <4>2, <5>1
      <4>3. CASE x # m.prev[l] /\ x = p
        BY <2>2, <3>1, <3>3, <3>4, <4>1, <4>3
      <4>4. CASE x # m.prev[l] /\ x # p
        BY <3>3, <3>4, <4>1, <4>4
      <4> QED
        BY <4>2, <4>3, <4>4
    <3>7. ASSUME NEW g \in (V \ {l}) \cap Heads PROVE o[g] = g
      BY <1>1, <3>4 DEF Owned
    <3> QED
      BY <3>2, <3>3, <3>5, <3>6, <3>7 DEF Owned, Rings
  <2>3. Rings(splice_between(m, l, h, m.next[h]), V \ {l})
    BY <1>2, <2>2
  <2>4. PICK p : p = m.prev[h]
    OBVIOUS
  <2>5. p \in V /\ m.next[p] = h /\ own[p] = h
    BY <1>1, <1>2, <2>4 DEF Owned, Ring
  <2>6. Rings(splice_between(m, l, p, h), V \ {l})
    BY <2>2, <2>5
  <2> QED
    BY <1>4, <2>3, <2>4, <2>6 DEF list_splice, list_splice_tail
<1> QED
  BY <1>3, <1>4

\* Whoever is on the list of h is in the ring h owns.
LEMMA IsOnOwned ==
  ASSUME Ring(mem, valid), NEW own, Owned(mem, valid, own), NEW h \in valid \cap Heads,
         NEW e \in valid, IsOn(e, h)
  PROVE  /\ own[e] = h
         /\ mem.next[h] = mem.prev[h] => e \in {h, mem.next[h]}
<1>1. /\ valid \subseteq Node
      /\ \A x \in valid : mem.next[x] \in valid /\ own[mem.next[x]] = own[x]
      /\ own[h] = h /\ mem.next[mem.prev[h]] = h
  BY DEF Owned, Ring
<1>2. own[e] = h
  <2>1. PICK S : S = {x \in valid : own[x] = h}
    OBVIOUS
  <2>2. S \in SUBSET Node /\ h \in S /\ \A x \in S : mem.next[x] \in S
    BY <1>1, <2>1
  <2> QED
    BY <2>1, <2>2 DEF IsOn
<1>3. ASSUME mem.next[h] = mem.prev[h] PROVE e \in {h, mem.next[h]}
  <2>1. PICK S : S = {h, mem.next[h]}
    OBVIOUS
  <2>2. S \in SUBSET Node /\ h \in S /\ \A x \in S : mem.next[x] \in S
    BY <1>1, <1>3, <2>1
  <2> QED
    BY <2>1, <2>2 DEF IsOn
<1> QED
  BY <1>2, <1>3

\* The entries of h up to e are what lies both before e and behind h: nothing
\* else points into them or out of them.
LEMMA Segment ==
  ASSUME NEW own, Owned(mem, valid, own), NEW h \in valid \cap Heads,
         NEW e \in valid, e # h, IsOn(e, h)
  PROVE  \E G \in SUBSET valid :
           /\ e \in G /\ mem.next[h] \in G /\ h \notin G /\ mem.next[e] \notin G
           /\ \A x \in G : own[x] = h
           /\ \A x \in valid \ {h, e} : x \in G <=> mem.next[x] \in G
<1>1. /\ valid \subseteq Node
      /\ \A x \in valid : /\ mem.next[x] \in valid /\ own[mem.next[x]] = own[x]
                         /\ mem.prev[x] \in valid /\ mem.prev[mem.next[x]] = x
                         /\ mem.next[mem.prev[x]] = x
      /\ own[h] = h
  BY DEF Owned, Ring
<1>2. PICK n, f : n = mem.next[h] /\ f = mem.next[e]
  OBVIOUS
<1>3. n \in valid /\ f \in valid /\ mem.prev[n] = h /\ mem.prev[f] = e /\ n # f
  BY <1>1, <1>2
<1> DEFINE Back(S) == e \in S /\ \A y \in S : y # n => mem.prev[y] \in S
           Forth(S) == n \in S /\ \A y \in S : y # e => mem.next[y] \in S
<1>4. PICK Q : Q = {x \in valid : \A S \in SUBSET valid : Back(S) => x \in S}
  OBVIOUS
<1>5. PICK B : B = {x \in valid : \A S \in SUBSET valid : Forth(S) => x \in S}
  OBVIOUS
<1>6. Q \in SUBSET valid /\ B \in SUBSET valid
  BY <1>4, <1>5
<1>7. Back(Q) /\ \A S \in SUBSET valid : Back(S) => Q \subseteq S
  BY <1>1, <1>4
<1>8. Forth(B) /\ \A S \in SUBSET valid : Forth(S) => B \subseteq S
  BY <1>1, <1>3, <1>5
<1>9. ASSUME NEW x \in Q, x # e PROVE mem.next[x] \in Q /\ mem.next[x] # n
  <2>1. SUFFICES ASSUME ~(mem.next[x] \in Q /\ mem.next[x] # n) PROVE FALSE
    OBVIOUS
  <2>2. Back(Q \ {x})
    <3>1. ASSUME NEW y \in Q \ {x}, y # n PROVE mem.prev[y] \in Q \ {x}
      <4>1. mem.prev[y] \in Q
        BY <1>7, <3>1
      <4>2. mem.prev[y] # x
        BY <1>1, <1>6, <2>1, <3>1
      <4> QED
        BY <4>1, <4>2
    <3> QED
      BY <1>7, <1>9, <3>1
  <2> QED
    BY <1>6, <1>7, <2>2
<1>10. ASSUME NEW x \in B, x # n PROVE mem.prev[x] \in B /\ mem.prev[x] # e
  <2>1. SUFFICES ASSUME ~(mem.prev[x] \in B /\ mem.prev[x] # e) PROVE FALSE
    OBVIOUS
  <2>2. Forth(B \ {x})
    <3>1. ASSUME NEW y \in B \ {x}, y # e PROVE mem.next[y] \in B \ {x}
      <4>1. mem.next[y] \in B
        BY <1>8, <3>1
      <4>2. mem.next[y] # x
        BY <1>1, <1>6, <2>1, <3>1
      <4> QED
        BY <4>1, <4>2
    <3> QED
      BY <1>8, <1>10, <3>1
  <2> QED
    BY <1>6, <1>8, <2>2
<1>11. h \notin Q
  BY <1>2, <1>9
<1>12. f \notin B
  BY <1>3, <1>10
<1>13. n \in Q
  <2>1. SUFFICES ASSUME n \notin Q PROVE FALSE
    OBVIOUS
  <2>2. PICK S : S = valid \ Q
    OBVIOUS
  <2>3. ASSUME NEW x \in S PROVE mem.next[x] \in S
    <3>1. x \in valid /\ x \notin Q /\ mem.next[x] \in valid
      BY <1>1, <2>2
    <3>2. mem.next[x] \notin Q
      BY <1>1, <1>7, <2>1, <3>1
    <3> QED
      BY <2>2, <3>1, <3>2
  <2>4. S \in SUBSET Node /\ h \in S
    BY <1>1, <1>11, <2>2
  <2>5. e \in S
    BY <2>3, <2>4 DEF IsOn
  <2> QED
    BY <1>7, <2>2, <2>5
<1>14. e \in B
  <2>1. SUFFICES ASSUME e \notin B PROVE FALSE
    OBVIOUS
  <2>2. PICK S : S = B \cup {h}
    OBVIOUS
  <2>3. S \in SUBSET Node /\ h \in S
    BY <1>1, <1>6, <2>2
  <2>4. ASSUME NEW x \in S PROVE mem.next[x] \in S
    BY <1>2, <1>8, <2>1, <2>2
  <2>5. e \in S
    BY <2>3, <2>4 DEF IsOn
  <2> QED
    BY <2>1, <2>2, <2>5
<1>15. \A x \in B : own[x] = h
  <2>1. PICK S : S = {x \in valid : own[x] = h}
    OBVIOUS
  <2>2. S \in SUBSET valid /\ Forth(S)
    BY <1>1, <1>2, <1>3, <2>1
  <2> QED
    BY <1>8, <2>1, <2>2
<1>16. PICK G : G = Q \cap B
  OBVIOUS
<1>17. e \in G /\ mem.next[h] \in G /\ h \notin G /\ mem.next[e] \notin G
  BY <1>2, <1>7, <1>8, <1>11, <1>12, <1>13, <1>14, <1>16
<1>18. ASSUME NEW x \in valid \ {h, e} PROVE x \in G <=> mem.next[x] \in G
  <2>1. ASSUME x \in G PROVE mem.next[x] \in G
    BY <1>8, <1>9, <1>16, <2>1
  <2>2. ASSUME mem.next[x] \in G PROVE x \in G
    <3>1. mem.next[x] # n /\ mem.prev[mem.next[x]] = x
      BY <1>1, <1>3
    <3> QED
      BY <1>7, <1>10, <1>16, <2>2, <3>1
  <2> QED
    BY <2>1, <2>2
<1> QED
  BY <1>6, <1>15, <1>16, <1>17, <1>18

\* The entries up to e become the ring of l.
LEMMA CutOwned ==
  ASSUME Rings(mem, valid), NEW l \in Heads, NEW h \in valid \cap Heads, l # h,
         NEW e \in valid, e = h \/ IsOn(e, h), Alone(l)
  PROVE  Rings(list_cut_position(mem, l, h, e),
               IF list_empty(mem, h) THEN valid ELSE valid \cup {l})
<1>1. PICK own : Owned(mem, valid, own)
  BY DEF Rings
<1>2. Ring(mem, valid) /\ valid \subseteq Node /\ own \in [valid -> Node] /\ own[h] = h
  BY <1>1 DEF Owned, Ring
<1>3. l \in Node /\ (l \in valid => mem.next[l] = l)
  BY DEF Alone, Node
<1>4. CASE list_empty(mem, h)
  BY <1>4 DEF list_cut_position
<1>5. CASE ~list_empty(mem, h) /\ e = h
  <2>1. list_cut_position(mem, l, h, e) = INIT_LIST_HEAD(mem, l)
    BY <1>5 DEF list_cut_position
  <2>2. Rings(INIT_LIST_HEAD(mem, l), valid \cup {l})
    BY <1>3, InitOwned
  <2> QED
    BY <1>5, <2>1, <2>2
<1>6. CASE ~list_empty(mem, h) /\ e # h
  <2>1. own[e] = h /\ (mem.next[h] = mem.prev[h] => e \in {h, mem.next[h]})
    BY <1>1, <1>2, <1>6, IsOnOwned
  <2>2. PICK r : r = cut_between(mem, l, h, e)
    OBVIOUS
  <2>3. list_cut_position(mem, l, h, e) = r
    BY <1>6, <2>1, <2>2 DEF list_cut_position, list_is_singular
  <2>4. l # e
    <3>1. l \in valid => own[l] = l
      BY <1>1 DEF Owned
    <3> QED
      BY <2>1, <3>1
  <2>5. /\ Ring(r, valid \cup {l})
        /\ \A x \in Node : r.next[x] =
              IF x = h THEN mem.next[e] ELSE IF x = e THEN l
              ELSE IF x = l THEN mem.next[h] ELSE mem.next[x]
    <3>1. h \in valid /\ e # h
      BY <1>6
    <3>2. Ring(mem, valid)
      BY <1>2
    <3>3. l \in Node
      BY <1>3
    <3>4. l \in valid => mem.next[l] = l
      BY <1>3
    <3> QED
      BY <2>2, <2>4, <3>1, <3>2, <3>3, <3>4, CutRing
  <2>6. PICK G \in SUBSET valid :
           /\ e \in G /\ mem.next[h] \in G /\ h \notin G /\ mem.next[e] \notin G
           /\ \A x \in G : own[x] = h
           /\ \A x \in valid \ {h, e} : x \in G <=> mem.next[x] \in G
    BY <1>1, <1>6, Segment
  <2>7. PICK o : o = [x \in valid \cup {l} |-> IF x \in G \cup {l} THEN l ELSE own[x]]
    OBVIOUS
  <2>8. o \in [valid \cup {l} -> Node]
    BY <1>2, <1>3, <2>7
  <2>9. ASSUME NEW x \in valid \cup {l} PROVE o[r.next[x]] = o[x]
    <3>1. CASE x = l
      BY <1>2, <1>3, <2>4, <2>5, <2>6, <2>7, <3>1
    <3>2. CASE x = e
      BY <1>2, <1>6, <2>5, <2>6, <2>7, <3>2
    <3>3. CASE x = h
      <4>1. mem.next[e] \in valid /\ own[mem.next[e]] = h /\ mem.next[e] # l
        BY <1>1, <1>2, <1>3, <2>1, <2>4 DEF Owned, Ring
      <4> QED
        BY <1>2, <2>5, <2>6, <2>7, <3>3, <4>1
    <3>4. CASE x \notin {l, e, h}
      <4>1. /\ x \in valid /\ mem.next[x] \in valid /\ own[mem.next[x]] = own[x]
            /\ mem.next[x] # l
        BY <1>1, <1>2, <1>3, <3>4 DEF Owned, Ring
      <4> QED
        BY <1>2, <2>5, <2>6, <2>7, <3>4, <4>1
    <3> QED
      BY <3>1, <3>2, <3>3, <3>4
  <2>10. ASSUME NEW g \in (valid \cup {l}) \cap Heads PROVE o[g] = g
    BY <1>1, <2>6, <2>7 DEF Owned
  <2>11. Rings(r, valid \cup {l})
    BY <2>5, <2>8, <2>9, <2>10 DEF Owned, Rings
  <2> QED
    BY <1>6, <2>3, <2>11
<1> QED
  BY <1>4, <1>5, <1>6
-----------------------------------------------------------------------------
\* An entry on a list is deleted, with or without a new ring of its own.
LEMMA DelStep ==
  ASSUME Rings(mem, valid), NEW e, del(e)
  PROVE  Rings(mem, valid)'
<1>1. e \in Entry /\ e \in valid /\ e \in Node
  BY DEF del, OnList, Node
<1>2. Rings(list_del(mem, e), valid \ {e})
  BY <1>1, DelOwned
<1>3. CASE Do(list_del(mem, e), valid \ {e})
  BY <1>2, <1>3 DEF Do
<1>4. CASE Do(list_del_init(mem, e), valid)
  <2>1. Rings(INIT_LIST_HEAD(list_del(mem, e), e), (valid \ {e}) \cup {e})
    <3>1. e \notin valid \ {e}
      OBVIOUS
    <3> QED
      BY <1>1, <1>2, <3>1, InitOwned
  <2>2. (valid \ {e}) \cup {e} = valid
    BY <1>1
  <2> QED
    BY <1>4, <2>1, <2>2 DEF Do, list_del_init
<1> QED
  BY <1>3, <1>4 DEF del

\* An entry is moved to the front or to the back of a list.
LEMMA MoveStep ==
  ASSUME Rings(mem, valid), NEW e \in Entry, NEW h \in Heads, move(e, h)
  PROVE  Rings(mem, valid)'
<1>1. e \in valid \cap Entry /\ h \in valid /\ e # h
  BY NodeAssumption DEF move
<1>2. Rings(list_move(mem, e, h), valid) /\ Rings(list_move_tail(mem, e, h), valid)
  BY <1>1, MoveOwned
<1> QED
  BY <1>2 DEF move, Do

\* An entry that is on no list is added.
LEMMA AddStep ==
  ASSUME Rings(mem, valid), NEW e \in Entry, NEW h \in Heads, add(e, h)
  PROVE  Rings(mem, valid)'
<1>1. h \in valid /\ h # e /\ (e \in valid => mem.next[e] = e)
  BY NodeAssumption DEF add, Alone
<1>2. /\ Rings(list_add(mem, e, h), valid \cup {e})
      /\ Rings(list_add_tail(mem, e, h), valid \cup {e})
  BY <1>1, AddsOwned
<1> QED
  BY <1>2 DEF add, Do

\* list_replace gives old up, list_replace_init makes it a ring of its own.
LEMMA ReplaceStep ==
  ASSUME Rings(mem, valid), NEW old \in Node, NEW new \in Node, replace(old, new)
  PROVE  Rings(mem, valid)'
<1>1. /\ old \in valid /\ old # new /\ (new \in valid => mem.next[new] = new)
      /\ old \in Heads <=> new \in Heads
  BY DEF replace, Alone
<1>2. Rings(list_replace(mem, old, new), (valid \ {old}) \cup {new})
  BY <1>1, ReplaceOwned
<1>3. CASE Do(list_replace(mem, old, new), (valid \ {old}) \cup {new})
  BY <1>2, <1>3 DEF Do
<1>4. CASE Do(INIT_LIST_HEAD(list_replace(mem, old, new), old), valid \cup {new})
  <2>1. old \notin (valid \ {old}) \cup {new}
    BY <1>1
  <2>2. Rings(INIT_LIST_HEAD(list_replace(mem, old, new), old),
              ((valid \ {old}) \cup {new}) \cup {old})
    BY <1>2, <2>1, InitOwned
  <2>3. ((valid \ {old}) \cup {new}) \cup {old} = valid \cup {new}
    BY <1>1
  <2> QED
    BY <1>4, <2>2, <2>3 DEF Do
<1> QED
  BY <1>3, <1>4 DEF replace

\* list_splice gives l up unless it is empty, list_splice_init empties it.
LEMMA SpliceStep ==
  ASSUME Rings(mem, valid), NEW l \in Heads, NEW h \in Heads, splice(l, h)
  PROVE  Rings(mem, valid)'
<1>1. l \in valid \cap Heads /\ h \in valid \cap Heads /\ l # h /\ l \in Node
  BY DEF splice, Node
<1>2. PICK W : W = IF list_empty(mem, l) THEN valid ELSE valid \ {l}
  OBVIOUS
<1>3. Rings(list_splice(mem, l, h), W) /\ Rings(list_splice_tail(mem, l, h), W)
  BY <1>1, <1>2, SpliceOwned
<1>4. /\ Rings(list_splice_init(mem, l, h), valid)
      /\ Rings(list_splice_tail_init(mem, l, h), valid)
  <2>1. CASE list_empty(mem, l)
    BY <2>1 DEF list_splice_init, list_splice_tail_init
  <2>2. CASE ~list_empty(mem, l)
    <3>1. W = valid \ {l} /\ l \notin W /\ W \cup {l} = valid
      BY <1>1, <1>2, <2>2
    <3>2. Rings(INIT_LIST_HEAD(list_splice(mem, l, h), l), W \cup {l})
      BY <1>1, <1>3, <3>1, InitOwned
    <3>3. Rings(INIT_LIST_HEAD(list_splice_tail(mem, l, h), l), W \cup {l})
      BY <1>1, <1>3, <3>1, InitOwned
    <3> QED
      BY <2>2, <3>1, <3>2, <3>3 DEF list_splice_init, list_splice_tail_init
  <2> QED
    BY <2>1, <2>2
<1> QED
  BY <1>2, <1>3, <1>4 DEF splice, Do

\* The rings are an inductive invariant of every use the callers make of the
\* functions of list.h.
LEMMA RingsStep ==
  ASSUME Rings(mem, valid), [Next]_vars
  PROVE  Rings(mem, valid)'
<1>1. ASSUME NEW h \in Heads, init(h) PROVE Rings(mem, valid)'
  <2>1. h \in Node /\ (h \in valid => mem.next[h] = h)
    BY <1>1 DEF init, Alone, Node
  <2>2. Rings(INIT_LIST_HEAD(mem, h), valid \cup {h})
    BY <2>1, InitOwned
  <2> QED
    BY <1>1, <2>2 DEF init, Do
<1>2. ASSUME NEW h \in Heads, list_for_each_safe(h) PROVE Rings(mem, valid)'
  BY <1>2 DEF list_for_each_safe
<1>3. ASSUME NEW e \in Entry, del(e) PROVE Rings(mem, valid)'
  BY <1>3, DelStep
<1>4. ASSUME NEW e \in Entry, NEW h \in Heads, add(e, h) \/ move(e, h)
      PROVE  Rings(mem, valid)'
  BY <1>4, AddStep, MoveStep
<1>5. ASSUME NEW x \in Node, NEW y \in Node, replace(x, y) PROVE Rings(mem, valid)'
  BY <1>5, ReplaceStep
<1>6. ASSUME NEW l \in Heads, NEW h \in Heads, splice(l, h) PROVE Rings(mem, valid)'
  BY <1>6, SpliceStep
<1>7. ASSUME NEW l \in Heads, NEW h \in Heads, NEW e \in Node, cut(l, h, e)
      PROVE  Rings(mem, valid)'
  <2>1. h \in valid \cap Heads /\ e \in valid /\ l # h /\ Alone(l) /\ (e = h \/ IsOn(e, h))
    BY <1>7 DEF cut
  <2>2. Rings(list_cut_position(mem, l, h, e),
              IF list_empty(mem, h) THEN valid ELSE valid \cup {l})
    BY <2>1, CutOwned
  <2> QED
    BY <1>7, <2>2 DEF cut, Do
<1>8. CASE each
  BY <1>8 DEF each
<1>9. CASE body
  BY <1>9, DelStep, MoveStep DEF body
<1>10. CASE UNCHANGED vars
  BY <1>10 DEF vars
<1> QED
  BY <1>1, <1>2, <1>3, <1>4, <1>5, <1>6, <1>7, <1>8, <1>9, <1>10 DEF Next

\* At first every head is a ring of its own.
LEMMA RingsInit ==
  ASSUME Init
  PROVE  Rings(mem, valid)
<1>1. mem \in Mem /\ valid = Heads /\ Heads \subseteq Node
      /\ \A x \in Node : mem.next[x] = x /\ mem.prev[x] = x
  BY DEF Init, Mem, Node
<1>2. PICK own : own = [x \in valid |-> x]
  OBVIOUS
<1>3. Ring(mem, valid)
  BY <1>1 DEF Ring
<1>4. Owned(mem, valid, own)
  BY <1>1, <1>2, <1>3 DEF Owned
<1> QED
  BY <1>4 DEF Rings

\* Whatever the kernel does to its lists, next and prev of the nodes in use
\* stay inside them and are each other's inverse, stale pointers or not.
THEOREM ListRings == Spec => []RingInv
<1>1. Rings(mem, valid) => RingInv
  BY DEF Rings, Owned, Ring, RingInv
<1> QED
  BY <1>1, RingsInit, RingsStep, PTL DEF Spec
=============================================================================
