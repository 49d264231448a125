------------------------------ MODULE ListPtr ------------------------------
(***************************************************************************)
(* The doubly linked lists of include/list.h, pointer by pointer.  An      *)
(* operation maps the memory before to the memory after, assignment by     *)
(* assignment.  list_del and list_splice leave pointers behind that point  *)
(* into lists their owner is no longer on: these are kept, and valid is    *)
(* the set of the nodes whose pointers may be followed.                    *)
(***************************************************************************)
EXTENDS Integers, Sequences, FiniteSets

CONSTANTS Heads, Entry, NULL, LOST
Node == Heads \cup Entry
ASSUME NodeAssumption == Heads \cap Entry = {} /\ NULL \notin Node

VARIABLES mem,   \* the next and the prev member of every node
          valid,
          walk   \* list_for_each_safe: its head, pos and n
vars == <<mem, valid, walk>>

NoWalk == [head |-> NULL, pos |-> NULL, n |-> NULL]
-----------------------------------------------------------------------------
(* The functions of list.h *)

SetNext(m, a, b) == [m EXCEPT !.next[a] = b]
SetPrev(m, a, b) == [m EXCEPT !.prev[a] = b]

INIT_LIST_HEAD(m, l) == SetPrev(SetNext(m, l, l), l, l)
list_empty(m, h) == m.next[h] = h
list_is_singular(m, h) == ~list_empty(m, h) /\ m.next[h] = m.prev[h]

add_between(m, new, p, n) ==
  SetNext(SetPrev(SetNext(SetPrev(m, n, new), new, n), new, p), p, new)
list_add(m, new, h) == add_between(m, new, h, m.next[h])
list_add_tail(m, new, h) == add_between(m, new, m.prev[h], h)

del_between(m, p, n) == SetNext(SetPrev(m, n, p), p, n)
list_del(m, e) == del_between(m, m.prev[e], m.next[e])
list_del_init(m, e) == INIT_LIST_HEAD(list_del(m, e), e)
list_move(m, e, h) == list_add(list_del(m, e), e, h)
list_move_tail(m, e, h) == list_add_tail(list_del(m, e), e, h)

list_replace(m, old, new) ==
  LET m1 == SetNext(m, new, m.next[old])
      m2 == SetPrev(m1, m1.next[new], new)
      m3 == SetPrev(m2, new, m2.prev[old])
  IN SetNext(m3, m3.prev[new], new)

\* Mutant: the prev pointer of the entry behind is forgotten.
splice_between_half(m, l, p, n) ==
  LET first == m.next[l]
      last  == m.prev[l]
  IN SetNext(SetNext(SetPrev(m, first, p), p, first), last, n)
splice_between(m, l, p, n) ==
  LET first == m.next[l]
      last  == m.prev[l]
  IN SetPrev(SetNext(SetNext(SetPrev(m, first, p), p, first), last, n), n, last)
list_splice(m, l, h) ==
  IF list_empty(m, l) THEN m ELSE splice_between(m, l, h, m.next[h])
list_splice_tail(m, l, h) ==
  IF list_empty(m, l) THEN m ELSE splice_between(m, l, m.prev[h], h)
list_splice_init(m, l, h) ==
  IF list_empty(m, l) THEN m ELSE INIT_LIST_HEAD(list_splice(m, l, h), l)
list_splice_tail_init(m, l, h) ==
  IF list_empty(m, l) THEN m ELSE INIT_LIST_HEAD(list_splice_tail(m, l, h), l)

cut_between(m, l, h, e) ==
  LET first == m.next[e]
      m1 == SetNext(m, l, m.next[h])
      m2 == SetPrev(m1, m1.next[l], l)
      m3 == SetNext(SetPrev(m2, l, e), e, l)
  IN SetPrev(SetNext(m3, h, first), first, h)
list_cut_position(m, l, h, e) ==
  IF list_empty(m, h) \/ (list_is_singular(m, h) /\ m.next[h] # e /\ h # e) THEN m
  ELSE IF e = h THEN INIT_LIST_HEAD(m, l) ELSE cut_between(m, l, h, e)
-----------------------------------------------------------------------------
(* Their callers: an entry is added only when it is on no list, a head is   *)
(* used only once it is initialised.                                       *)

Alone(x) == x \in valid => mem.next[x] = x
OnList(e) == e \in Entry /\ e \in valid /\ mem.next[e] # e

Init == /\ mem = [next |-> [x \in Node |-> x], prev |-> [x \in Node |-> x]]
        /\ valid = Heads /\ walk = NoWalk

Do(m, v) == mem' = m /\ valid' = v /\ UNCHANGED walk

\* The nodes behind x, by the pointers p, up to the head of the list.
Behind(p, x) ==
  LET nodes[y \in Node, k \in 0..Cardinality(Node)] ==
        IF k = 0 \/ p[y] \in Heads THEN <<>> ELSE <<p[y]>> \o nodes[p[y], k - 1]
  IN nodes[x, Cardinality(Node)]
\* e is on the list of h: whoever follows next from h meets it.
IsOn(e, h) == \A S \in SUBSET Node :
                h \in S /\ (\A x \in S : mem.next[x] \in S) => e \in S

init(h) == h \in Heads /\ Alone(h) /\ Do(INIT_LIST_HEAD(mem, h), valid \cup {h})
add(e, h) ==
  /\ Alone(e) /\ h \in valid
  /\ \/ Do(list_add(mem, e, h), valid \cup {e})
     \/ Do(list_add_tail(mem, e, h), valid \cup {e})
del(e) == /\ OnList(e)
          /\ \/ Do(list_del(mem, e), valid \ {e})
             \/ Do(list_del_init(mem, e), valid)
move(e, h) ==
  /\ e \in valid /\ h \in valid
  /\ \/ Do(list_move(mem, e, h), valid)
     \/ Do(list_move_tail(mem, e, h), valid)
replace(old, new) ==
  /\ old # new /\ (old \in Heads <=> new \in Heads)
  /\ old \in valid /\ Alone(new)
  /\ \/ Do(list_replace(mem, old, new), (valid \ {old}) \cup {new})
     \/ Do(INIT_LIST_HEAD(list_replace(mem, old, new), old), valid \cup {new})
splice(l, h) ==
  /\ l # h /\ {l, h} \subseteq valid
  /\ LET left == IF list_empty(mem, l) THEN valid ELSE valid \ {l}
     IN \/ Do(list_splice(mem, l, h), left)
        \/ Do(list_splice_tail(mem, l, h), left)
        \/ Do(list_splice_init(mem, l, h), valid)
        \/ Do(list_splice_tail_init(mem, l, h), valid)
cut(l, h, e) ==
  /\ l # h /\ Alone(l) /\ {h, e} \subseteq valid /\ (e = h \/ IsOn(e, h))
  /\ Do(list_cut_position(mem, l, h, e),
        IF list_empty(mem, h) THEN valid ELSE valid \cup {l})

\* list_for_each_safe: n is read before the body runs, and the body may take
\* the entry at pos off the list or move it to another one.
list_for_each_safe(h) ==
  /\ h \in valid
  /\ walk' = [head |-> h, pos |-> mem.next[h], n |-> mem.next[mem.next[h]]]
  /\ UNCHANGED <<mem, valid>>
\* Mutant: the next entry is read only after the body has run.
each_next_late == mem.next[walk.pos]
each_next == walk.n
each ==
  /\ walk # NoWalk
  /\ walk' = IF walk.pos = walk.head THEN NoWalk
             ELSE [walk EXCEPT !.pos = each_next, !.n = mem.next[each_next]]
  /\ UNCHANGED <<mem, valid>>
body == \/ del(walk.pos)
        \/ \E h \in Heads \ {walk.head} : walk.pos \in Entry /\ move(walk.pos, h)

Next ==
  \/ /\ walk = NoWalk
     /\ \/ \E h \in Heads : init(h) \/ list_for_each_safe(h)
        \/ \E e \in Entry : del(e) \/ \E h \in Heads : add(e, h) \/ move(e, h)
        \/ \E x, y \in Node : replace(x, y)
        \/ \E l, h \in Heads : splice(l, h) \/ \E e \in Node : cut(l, h, e)
  \/ each
  \/ walk # NoWalk /\ walk.pos # walk.head /\ body

Spec == Init /\ [][Next]_vars
-----------------------------------------------------------------------------
TypeOK == /\ mem \in [next : [Node -> Node], prev : [Node -> Node]]
          /\ valid \subseteq Node
          /\ walk = NoWalk \/ walk \in [head : Heads, pos : Node, n : Node]

\* Pointers that may be followed stay among the nodes whose pointers may be
\* followed, and next and prev are each other's inverse: the lists are closed
\* rings whatever stale pointers lie around.
RingInv ==
  \A x \in valid : /\ mem.next[x] \in valid /\ mem.prev[mem.next[x]] = x
                   /\ mem.prev[x] \in valid /\ mem.next[mem.prev[x]] = x

\* The lists are the sequences their users think of, in both directions, and a
\* safe walk visits what the list held.
Lists(p) == [h \in Heads |-> IF h \in valid THEN Behind(p, h) ELSE LOST]
ToVisit == IF walk = NoWalk \/ walk.pos = walk.head THEN <<>>
           ELSE IF walk.n = walk.head THEN <<walk.pos>>
           ELSE <<walk.pos, walk.n>> \o Behind(mem.next, walk.n)
Abstract == INSTANCE ListSpec WITH fwd <- Lists(mem.next), bwd <- Lists(mem.prev),
                                   todo <- ToVisit
ImplementsLists == Abstract!Spec
=============================================================================
