------------------------------ MODULE ListSpec ------------------------------
(***************************************************************************)
(* What the callers of include/list.h rely on: a head holds a sequence of  *)
(* entries that reads the same in both directions, and an operation        *)
(* changes it as its comment says.  The entries of a head are LOST after   *)
(* they were spliced away or the head was replaced, until it is            *)
(* initialised again.                                                      *)
(***************************************************************************)
EXTENDS Integers, Sequences, SequencesExt

CONSTANTS Heads, Entry, LOST
VARIABLES fwd,   \* the entries from a head on by next
          bwd,   \* ... and by prev
          todo   \* what a list_for_each_safe has still to visit

L == INSTANCE Lists

Becomes(f) ==
  /\ fwd' = f
  /\ bwd' = [h \in Heads |-> IF f[h] = LOST THEN LOST ELSE Reverse(f[h])]

On(e, h) == fwd[h] # LOST /\ Contains(fwd[h], e)
Without(e) == [h \in Heads |-> IF On(e, h) THEN L!list_del(e, fwd[h]) ELSE fwd[h]]
Unused(h) == fwd[h] \in {<<>>, LOST}

Init == /\ fwd = [h \in Heads |-> <<>>] /\ bwd = fwd /\ todo = <<>>

Reset(h) == Unused(h) /\ Becomes([fwd EXCEPT ![h] = <<>>])

\* Adding, moving and deleting.
Put(e, h) == fwd[h] # LOST /\ Becomes([Without(e) EXCEPT ![h] = L!list_add(e, @)])
PutTail(e, h) == fwd[h] # LOST /\ Becomes([Without(e) EXCEPT ![h] = Append(@, e)])
Del(e) == Becomes(Without(e))

Replace(e, n) ==
  \E h \in {g \in Heads : On(e, g)} : \E i \in 1..Len(fwd[h]) :
    fwd[h][i] = e /\ Becomes([fwd EXCEPT ![h][i] = n])
Rename(h, n, left) ==
  /\ fwd[h] # LOST /\ Unused(n)
  /\ Becomes([fwd EXCEPT ![n] = fwd[h], ![h] = left])

\* Joining two lists, and cutting one into two; list_splice does not touch the
\* head whose entries it takes.
Splice(l, h, joined, left) ==
  /\ l # h /\ fwd[l] # LOST /\ fwd[h] # LOST
  /\ Becomes([fwd EXCEPT ![h] = joined, ![l] = IF fwd[l] = <<>> THEN <<>> ELSE left])
Cut(l, h, i) ==
  /\ l # h /\ Unused(l) /\ fwd[h] # LOST /\ i \in 0..Len(fwd[h])
  /\ Becomes([fwd EXCEPT ![l] = IF fwd[h] = <<>> THEN @ ELSE SubSeq(fwd[h], 1, i),
                         ![h] = SubSeq(@, i + 1, Len(@))])

Change ==
  \/ \E h \in Heads : Reset(h)
  \/ \E e \in Entry, h \in Heads : Put(e, h) \/ PutTail(e, h)
  \/ \E e \in Entry : Del(e)
  \/ \E e, n \in Entry : Replace(e, n)
  \/ \E h, n \in Heads, left \in {<<>>, LOST} : Rename(h, n, left)
  \/ \E l, h \in Heads, left \in {<<>>, LOST} :
       \/ fwd[l] # LOST /\ fwd[h] # LOST
          /\ \/ Splice(l, h, L!list_splice(fwd[l], fwd[h]), left)
             \/ Splice(l, h, fwd[h] \o fwd[l], left)
  \/ \E l, h \in Heads, i \in 0..Cardinality(Entry) : Cut(l, h, i)

\* A walk visits every entry the list had, whatever happens to the entries it
\* visits.
Visit == /\ \/ todo # <<>> /\ todo' = Tail(todo)
            \/ \E h \in Heads : fwd[h] # LOST /\ todo' = fwd[h]
         /\ UNCHANGED <<fwd, bwd>>

Next == (Change /\ UNCHANGED todo) \/ Visit
Spec == Init /\ [][Next]_<<fwd, bwd, todo>>
=============================================================================
