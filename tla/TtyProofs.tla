------------------------------ MODULE TtyProofs -----------------------------
(***************************************************************************)
(* No key is lost and none arrives out of order, for every number of       *)
(* readers, open files and events; and the semaphore that lets the readers *)
(* in one at a time excludes.                                              *)
(***************************************************************************)
EXTENDS Tty, ListsProofs, SequenceTheorems

\* Where a reader is and what it holds: it owns read_sem from the entry of
\* tty_read to its return, it sleeps only at the head of the loop, and once the
\* line is complete it does not give the processor away.
ReaderInv ==
  /\ \A t \in Task : at[t] = "user" <=> sem[t] = "out"
  /\ \A t \in Task : at[t] = "copy" => cpu = t
  /\ cpu # NoTask => sem[cpu] = "in" /\ cpu \notin ToSet(wait_kbd)
  /\ \A t \in ToSet(wait_kbd) : sem[t] = "in" /\ at[t] = "read"

\* The keys wait in the order in which they were pressed, and those that were
\* taken from the queue are older.
EventsInOrder ==
  /\ \A i, j \in 1..Len(events_list) : i < j => events_list[i].key < events_list[j].key
  /\ \A i \in 1..Len(events_list) : events_list[i].key <= keys
  /\ \A f \in File : \A n \in ToSet(chars[f]) : n <= keys

TtyInv ==
  /\ TypeOK /\ SemInv /\ ReaderInv
  /\ NoLostKey /\ EventsInOrder /\ KeysInOrder
-----------------------------------------------------------------------------
(* The semaphore *)

\* down keeps the count, the queue and the owner consistent.
LEMMA DownInv ==
  ASSUME SemTypeOK, SemInv, NEW t \in Task, down(t)
  PROVE  SemTypeOK' /\ SemInv'
<1> USE DEF SemTypeOK
<1>0. waiting \in Seq(Task) /\ Len(waiting) \in Nat /\ sem[t] = "out" /\ t \notin ToSet(waiting)
  BY DEF down, SemInv
<1>1. CASE count' = 1
  <2>1. count = 0 /\ waiting' = waiting /\ sem' = [sem EXCEPT ![t] = "in"] /\ count' = 1
    BY <1>1 DEF down
  <2>2. Len(waiting) = 0 /\ ~ \E u \in Task : sem[u] = "in"
    BY <2>1, <1>0 DEF SemInv
  <2>3. waiting = <<>>
    BY <2>2, <1>0
  <2> QED BY <2>1, <2>2, <2>3, <1>0 DEF SemInv, MutualExclusion, OwnerWhileWaiting, Linked
<1>2. CASE count' # 1
  <2>1. /\ count' = count + 1 /\ count # 0
        /\ waiting' = list_add(t, waiting) /\ sem' = [sem EXCEPT ![t] = "waiting"]
    BY <1>2 DEF down
  <2>2. PICK u \in Task : sem[u] = "in"
    <3>1. CASE waiting = <<>>
      <4>1. Len(waiting) = 0
        BY <3>1
      <4> QED BY <4>1, <2>1 DEF SemInv
    <3>2. CASE waiting # <<>>
      BY <3>2 DEF SemInv, OwnerWhileWaiting
    <3> QED BY <3>1, <3>2
  <2>3. sem'[u] = "in"
    BY <2>1, <2>2, <1>0
  <2>4. /\ waiting' \in Seq(Task) /\ Linked(waiting') /\ ToSet(waiting') = ToSet(waiting) \cup {t}
    <3>1. Linked(waiting)
      BY DEF SemInv
    <3> HIDE DEF SemTypeOK
    <3>2. /\ list_add(t, waiting) \in Seq(Task) /\ Linked(list_add(t, waiting))
          /\ ToSet(list_add(t, waiting)) = ToSet(waiting) \cup {t}
      BY <3>1, <1>0, ListAdd
    <3> QED BY <2>1, <3>2
  <2>5. Len(waiting') = Len(waiting) + 1
    BY <2>1, <1>0 DEF list_add
  <2>6. SemTypeOK'
    BY <2>1, <2>4
  <2>7. MutualExclusion' /\ OwnerWhileWaiting'
    BY <2>1, <2>3, <1>0 DEF SemInv, MutualExclusion, OwnerWhileWaiting
  <2>8. \A x \in Task : sem'[x] = "waiting" <=> x \in ToSet(waiting')
    BY <2>1, <2>4, <1>0 DEF SemInv
  <2>9. count' = Len(waiting') + (IF \E x \in Task : sem'[x] = "in" THEN 1 ELSE 0)
    BY <2>1, <2>2, <2>3, <2>5, <1>0 DEF SemInv
  <2> QED BY <2>4, <2>6, <2>7, <2>8, <2>9 DEF SemInv
<1> QED BY <1>1, <1>2

\* up hands the semaphore to the task at the head of the queue, if any.
LEMMA UpInv ==
  ASSUME SemTypeOK, SemInv, NEW t \in Task, up(t)
  PROVE  SemTypeOK' /\ SemInv'
<1> USE DEF SemTypeOK
<1>0. /\ waiting \in Seq(Task) /\ Len(waiting) \in Nat /\ sem[t] = "in"
      /\ count = Len(waiting) + 1 /\ count' = Len(waiting)
      /\ \A u \in Task : u # t => sem[u] # "in"
  <2>1. sem[t] = "in" /\ count' = count - 1
    BY DEF up
  <2>2. count = Len(waiting) + 1
    BY <2>1 DEF SemInv
  <2> QED BY <2>1, <2>2 DEF SemInv, MutualExclusion
<1>1. CASE waiting = <<>>
  <2>1. waiting' = <<>> /\ sem' = [sem EXCEPT ![t] = "out"]
    BY <1>1 DEF up
  <2> QED BY <1>0, <1>1, <2>1 DEF SemInv, MutualExclusion, OwnerWhileWaiting
<1>2. CASE waiting # <<>>
  <2> DEFINE h == Head(waiting)
  <2>1. waiting' = Tail(waiting) /\ sem' = [sem EXCEPT ![t] = "out", ![h] = "in"]
    BY <1>2 DEF up
  <2>2. /\ h \in Task /\ h \in ToSet(waiting) /\ waiting' \in Seq(Task)
        /\ ToSet(waiting') = ToSet(waiting) \ {h} /\ Linked(waiting')
    <3>1. Linked(waiting)
      BY DEF SemInv
    <3> QED BY <3>1, <1>0, <1>2, <2>1, ListPop
  <2>3. sem[h] = "waiting" /\ h # t
    BY <2>2, <1>0 DEF SemInv
  <2>4. Len(waiting') = Len(waiting) - 1
    BY <1>0, <1>2, <2>1
  <2> HIDE DEF h
  <2>5. sem'[h] = "in" /\ \A u \in Task : u # h => sem'[u] # "in"
    BY <2>1, <2>2, <2>3, <1>0
  <2>6. SemTypeOK'
    BY <2>1, <2>2, <2>4, <1>0
  <2>7. MutualExclusion' /\ OwnerWhileWaiting'
    BY <2>2, <2>5 DEF MutualExclusion, OwnerWhileWaiting
  <2>8. \A x \in Task : sem'[x] = "waiting" <=> x \in ToSet(waiting')
    BY <2>1, <2>2, <2>3, <1>0 DEF SemInv
  <2>9. count' = Len(waiting') + (IF \E x \in Task : sem'[x] = "in" THEN 1 ELSE 0)
    BY <2>2, <2>5, <2>4, <1>0
  <2> QED BY <2>2, <2>6, <2>7, <2>8, <2>9 DEF SemInv
<1> QED BY <1>1, <1>2

\* A new semaphore is free.
LEMMA SemaphoreStarts == SemInit => SemTypeOK /\ SemInv
BY DEF SemInit, SemTypeOK, SemInv, MutualExclusion, OwnerWhileWaiting, Linked, ToSet

\* kernel/semaphore.c: the count, the queue and the owner always agree.
THEOREM SemaphoreInvariant == SemSpec => [](SemTypeOK /\ SemInv)
<1>1. SemInit => SemTypeOK /\ SemInv
  BY SemaphoreStarts
<1>2. SemTypeOK /\ SemInv /\ [SemNext]_semVars => (SemTypeOK /\ SemInv)'
  <2> SUFFICES ASSUME SemTypeOK, SemInv, [SemNext]_semVars
               PROVE  (SemTypeOK /\ SemInv)'
    OBVIOUS
  <2>1. CASE SemNext
    BY <2>1, DownInv, UpInv DEF SemNext
  <2>2. CASE UNCHANGED semVars
    BY <2>2 DEF semVars, SemTypeOK, SemInv, MutualExclusion, OwnerWhileWaiting
  <2> QED BY <2>1, <2>2
<1> QED BY <1>1, <1>2, PTL DEF SemSpec

\* Between down and up a task is alone, for any set of tasks.
THEOREM SemaphoreExcludes == SemSpec => []MutualExclusion
<1>1. SemInv => MutualExclusion
  BY DEF SemInv
<1> QED BY <1>1, SemaphoreInvariant, PTL
-----------------------------------------------------------------------------
(* Characters in the order of their keys *)

Increasing(l) == \A i, j \in 1..Len(l) : i < j => l[i] < l[j]

\* A part of a line: backspace (pop_char) and the copy of the first characters.
LEMMA PartOfLine ==
  ASSUME NEW S, NEW l \in Seq(S), NEW m \in Nat \ {0}, NEW n \in Int, n <= Len(l)
  PROVE  /\ SubSeq(l, m, n) \in Seq(S)
         /\ ToSet(SubSeq(l, m, n)) \subseteq ToSet(l)
         /\ Increasing(l) => Increasing(SubSeq(l, m, n))
<1> DEFINE p == SubSeq(l, m, n)
<1>1. \A i \in m..n : l[i] \in S
  BY ElementOfSeq
<1>2. /\ p \in Seq(S) /\ Len(p) = IF m <= n THEN n - m + 1 ELSE 0
      /\ \A i \in 1..(n - m + 1) : p[i] = l[m + i - 1]
  BY <1>1, SubSeqProperties
<1> HIDE DEF p
<1>3. \A i \in 1..Len(p) : m + i - 1 \in 1..Len(l) /\ p[i] = l[m + i - 1]
  BY <1>2
<1>4. ToSet(p) \subseteq ToSet(l)
  <2> SUFFICES ASSUME NEW x \in ToSet(p) PROVE x \in ToSet(l)
    OBVIOUS
  <2>1. PICK i \in 1..Len(p) : p[i] = x
    BY <1>2, ToSetElements
  <2> QED BY <2>1, <1>3, ToSetElements
<1>5. ASSUME Increasing(l) PROVE Increasing(p)
  <2> SUFFICES ASSUME NEW i \in 1..Len(p), NEW j \in 1..Len(p), i < j
               PROVE  p[i] < p[j]
    BY DEF Increasing
  <2> DEFINE a == m + i - 1
             b == m + j - 1
  <2>1. a \in 1..Len(l) /\ b \in 1..Len(l) /\ a < b /\ p[i] = l[a] /\ p[j] = l[b]
    BY <1>2, <1>3
  <2> HIDE DEF a, b
  <2> QED BY <2>1, <1>5 DEF Increasing
<1> QED BY <1>2, <1>4, <1>5 DEF p

\* A character with a newer key at the end of a line (push_char).
LEMMA EndOfLine ==
  ASSUME NEW S \in SUBSET Nat, NEW l \in Seq(S), NEW n \in S,
         Increasing(l), \A x \in ToSet(l) : x < n
  PROVE  /\ Append(l, n) \in Seq(S)
         /\ ToSet(Append(l, n)) = ToSet(l) \cup {n}
         /\ Increasing(Append(l, n))
<1> DEFINE a == Append(l, n)
<1>1. /\ a \in Seq(S) /\ Len(a) = Len(l) + 1 /\ Len(l) \in Nat /\ a[Len(l) + 1] = n
      /\ \A i \in 1..Len(l) : a[i] = l[i]
  BY AppendProperties, LenProperties
<1> HIDE DEF a
<1>2. \A i \in 1..Len(a) : i \in 1..Len(l) \/ i = Len(l) + 1
  BY <1>1
<1>3. ToSet(a) = ToSet(l) \cup {n}
  <2>1. ASSUME NEW x \in ToSet(a) PROVE x \in ToSet(l) \cup {n}
    <3>1. PICK i \in 1..Len(a) : a[i] = x
      BY <1>1, ToSetElements
    <3> QED BY <3>1, <1>1, <1>2, ToSetElements
  <2>2. ASSUME NEW x \in ToSet(l) PROVE x \in ToSet(a)
    <3>1. PICK i \in 1..Len(l) : l[i] = x
      BY ToSetElements
    <3>2. i \in 1..Len(a) /\ a[i] = x
      BY <3>1, <1>1
    <3> QED BY <3>2, <1>1, ToSetElements
  <2>3. n \in ToSet(a)
    <3>1. Len(l) + 1 \in 1..Len(a)
      BY <1>1
    <3> QED BY <3>1, <1>1, ToSetElements
  <2> QED BY <2>1, <2>2, <2>3
<1>4. Increasing(a)
  <2> SUFFICES ASSUME NEW i \in 1..Len(a), NEW j \in 1..Len(a), i < j
               PROVE  a[i] < a[j]
    BY DEF Increasing
  <2>1. i \in 1..Len(l) /\ a[i] = l[i]
    BY <1>1
  <2>2. CASE j = Len(l) + 1
    BY <2>1, <2>2, <1>1, ToSetElements
  <2>3. CASE j # Len(l) + 1
    <3>1. j \in 1..Len(l) /\ a[j] = l[j]
      BY <2>3, <1>1
    <3> QED BY <2>1, <3>1 DEF Increasing
  <2> QED BY <2>2, <2>3
<1> QED BY <1>1, <1>3, <1>4 DEF a

\* Keys are numbered, and the numbers go up to that of the last key.
LEMMA Numbered ==
  ASSUME TtyInv
  PROVE  /\ keys \in Nat /\ Len(events_list) \in Nat /\ events_list \in Seq(Event)
         /\ \A i \in 1..Len(events_list) :
              events_list[i].key \in Nat /\ events_list[i].key <= keys
         /\ \A f \in File : chars[f] \in Seq(1..MaxKeys)
         /\ \A f \in File : \A n \in ToSet(chars[f]) : n \in Nat /\ n <= keys
<1>1. \A f \in File : chars[f] \in Seq(1..MaxKeys)
  BY DEF TtyInv, TypeOK
<1>2. ASSUME NEW f \in File, NEW n \in ToSet(chars[f]) PROVE n \in Nat /\ n <= keys
  <2>1. n \in 1..MaxKeys
    BY <1>1, ToSetElements
  <2>2. n <= keys
    BY DEF TtyInv, EventsInOrder
  <2> QED BY <2>1, <2>2
<1>3. events_list \in Seq(Event) /\ keys \in Nat
  BY TtyAssumption DEF TtyInv, TypeOK
<1>4. ASSUME NEW i \in 1..Len(events_list)
      PROVE  events_list[i].key \in Nat /\ events_list[i].key <= keys
  <2>1. events_list[i] \in Event
    BY <1>3, ElementOfSeq
  <2>2. events_list[i].key \in Nat
    BY <2>1 DEF Event
  <2> QED BY <2>2 DEF TtyInv, EventsInOrder
<1>5. Len(events_list) \in Nat
  BY <1>3, LenProperties
<1> QED BY <1>1, <1>2, <1>3, <1>4, <1>5

\* A step that takes characters away, and perhaps the oldest event, leaves
\* the rest in order.
LEMMA ShrinkOrder ==
  ASSUME TtyInv, TypeOK', keys' = keys,
         events_list' \in {events_list, Tail(events_list)},
         events_list' # events_list => events_list # <<>>,
         \A f \in File : Increasing(chars'[f]) /\ ToSet(chars'[f]) \subseteq ToSet(chars[f])
  PROVE  EventsInOrder' /\ KeysInOrder'
<1> DEFINE e == events_list
<1>1. e \in Seq(Event) /\ Len(e) \in Nat
  BY DEF TtyInv, TypeOK
<1>2. PICK k \in {0, 1} : /\ \A i \in 1..Len(e') : i + k \in 1..Len(e) /\ e'[i] = e[i + k]
  <2>1. CASE e' = e
    BY <2>1, <1>1
  <2>2. CASE e' # e
    <3>1. e # <<>> /\ e' = Tail(e)
      BY <2>2
    <3>2. Len(Tail(e)) = Len(e) - 1 /\ \A i \in 1..Len(Tail(e)) : Tail(e)[i] = e[i + 1]
      BY <1>1, <3>1, HeadTailProperties
    <3>3. Len(e') = Len(e) - 1 /\ \A i \in 1..Len(e') : e'[i] = e[i + 1]
      BY <3>1, <3>2
    <3>4. \A i \in 1..Len(e') : i + 1 \in 1..Len(e) /\ e'[i] = e[i + 1]
      BY <1>1, <3>3
    <3> QED BY <3>4
  <2> QED BY <2>1, <2>2
<1>3. Len(e') \in Nat
  BY DEF TypeOK
<1>4. EventsInOrder'
  <2>1. ASSUME NEW i \in 1..Len(e'), NEW j \in 1..Len(e'), i < j
        PROVE  e'[i].key < e'[j].key
    <3> DEFINE a == i + k
               b == j + k
    <3>1. a \in 1..Len(e) /\ b \in 1..Len(e) /\ a < b /\ e'[i] = e[a] /\ e'[j] = e[b]
      BY <1>2, <1>3, <2>1
    <3> HIDE DEF a, b
    <3> QED BY <3>1 DEF TtyInv, EventsInOrder
  <2>2. \A i \in 1..Len(e') : e'[i].key <= keys
    BY <1>2 DEF TtyInv, EventsInOrder
  <2>3. \A f \in File : \A n \in ToSet(chars'[f]) : n <= keys
    BY DEF TtyInv, EventsInOrder
  <2> QED BY <2>1, <2>2, <2>3 DEF EventsInOrder
<1>5. KeysInOrder'
  <2>1. \A f, g \in File : f # g => ToSet(chars'[f]) \cap ToSet(chars'[g]) = {}
    BY DEF TtyInv, KeysInOrder
  <2>2. \A f \in File, i \in 1..Len(e') : \A n \in ToSet(chars'[f]) : n < e'[i].key
    BY <1>2 DEF TtyInv, KeysInOrder
  <2> QED BY <2>1, <2>2 DEF KeysInOrder, Increasing
<1> QED BY <1>4, <1>5
-----------------------------------------------------------------------------
(* The steps *)

\* Nobody reads yet.
LEMMA InitTty == Init => TtyInv
<1> SUFFICES ASSUME Init PROVE TtyInv
  OBVIOUS
<1>1. SemTypeOK /\ SemInv
  BY SemaphoreStarts DEF Init
<1>2. ToSet(<<>>) = {}
  BY DEF ToSet
<1>3. TypeOK
  BY <1>1, TtyAssumption DEF Init, TypeOK
<1>4. ReaderInv
  BY <1>2, TtyAssumption DEF Init, SemInit, ReaderInv
<1>5. NoLostKey /\ EventsInOrder /\ KeysInOrder
  BY <1>2 DEF Init, NoLostKey, EventsInOrder, KeysInOrder
<1> QED BY <1>1, <1>3, <1>4, <1>5 DEF TtyInv

\* At most one task sleeps on wait_kbd: it owns read_sem.
LEMMA OneSleeper ==
  ASSUME TtyInv, NEW t \in Task, sem[t] = "in"
  PROVE  /\ t \notin ToSet(wait_kbd) => wait_kbd = <<>>
         /\ cpu \in {t, NoTask}
         /\ \A u \in Task : u # t => sem[u] # "in" /\ at[u] # "copy"
<1>1. \A u \in Task : sem[u] = "in" => u = t
  BY DEF TtyInv, SemInv, MutualExclusion
<1>2. cpu \in {t, NoTask}
  BY <1>1 DEF TtyInv, ReaderInv, TypeOK
<1>3. ASSUME t \notin ToSet(wait_kbd) PROVE wait_kbd = <<>>
  <2>1. wait_kbd \in Seq(Task)
    BY DEF TtyInv, TypeOK
  <2>2. \A u \in ToSet(wait_kbd) : u = t
    BY <1>1, <2>1, ToSetElements DEF TtyInv, ReaderInv
  <2>3. wait_kbd # <<>> => Head(wait_kbd) \in ToSet(wait_kbd)
    BY <2>1, ListPop
  <2> QED BY <1>3, <2>2, <2>3
<1>4. \A u \in Task : u # t => at[u] # "copy"
  <2> SUFFICES ASSUME NEW u \in Task, u # t, at[u] = "copy" PROVE FALSE
    OBVIOUS
  <2>1. cpu = u /\ cpu # NoTask
    BY TtyAssumption DEF TtyInv, ReaderInv
  <2> QED BY <1>1, <2>1 DEF TtyInv, ReaderInv
<1> QED BY <1>1, <1>2, <1>3, <1>4

\* The interrupt handler puts the newest key at the end and wakes the reader.
LEMMA HandlerInv ==
  ASSUME TtyInv, NEW kind \in Kind, keyboard_handler(kind)
  PROVE  TtyInv'
<1> DEFINE e == events_list
           n == [kind |-> kind, key |-> keys + 1]
<1>1. /\ cpu = NoTask /\ keys < MaxKeys /\ keys' = keys + 1 /\ keys \in Nat
      /\ UNCHANGED <<semVars, cpu, at, size, chars>>
      /\ e \in Seq(Event) /\ Len(e) \in Nat /\ wait_kbd \in Seq(Task) /\ n \in Event
  BY TtyAssumption DEF keyboard_handler, TtyInv, TypeOK, Event
<1>2. UNCHANGED <<count, waiting, sem>>
  BY <1>1 DEF semVars
<1>3. SemTypeOK' /\ SemInv'
  BY <1>2 DEF TtyInv, TypeOK, SemTypeOK, SemInv, MutualExclusion, OwnerWhileWaiting
<1>4. keys' \in 0..MaxKeys
  BY <1>1, TtyAssumption
<1>5. \A f \in File : \A x \in ToSet(chars[f]) : x <= keys + 1 /\ x < keys + 1
  <2> SUFFICES ASSUME NEW f \in File, NEW x \in ToSet(chars[f])
               PROVE  x <= keys + 1 /\ x < keys + 1
    OBVIOUS
  <2>1. x \in Nat /\ x <= keys
    BY Numbered
  <2> QED BY <2>1, <1>1
<1>6. \A i \in 1..Len(e) : e[i].key \in Nat /\ e[i].key < keys + 1
  <2> SUFFICES ASSUME NEW i \in 1..Len(e)
               PROVE  e[i].key \in Nat /\ e[i].key < keys + 1
    OBVIOUS
  <2>1. e[i].key \in Nat /\ e[i].key <= keys
    BY Numbered
  <2> QED BY <2>1, <1>1
<1>7. CASE Full
  <2>1. UNCHANGED <<events_list, wait_kbd>>
    BY <1>7 DEF keyboard_handler
  <2>2. TypeOK'
    BY <1>1, <1>3, <1>4, <2>1 DEF TtyInv, TypeOK
  <2>3. ReaderInv' /\ NoLostKey' /\ KeysInOrder'
    BY <1>1, <1>2, <2>1 DEF TtyInv, ReaderInv, NoLostKey, KeysInOrder
  <2>4. EventsInOrder'
    <3>1. \A i \in 1..Len(e) : e[i].key <= keys + 1
      BY <1>1, <1>6
    <3> QED BY <1>1, <2>1, <3>1, <1>5 DEF TtyInv, EventsInOrder
  <2> QED BY <1>3, <2>2, <2>3, <2>4 DEF TtyInv
<1>8. CASE ~Full
  <2>1. e' = Append(e, n) /\ wait_kbd' = (IF wait_kbd = <<>> THEN <<>> ELSE Tail(wait_kbd))
    BY <1>1, <1>8 DEF keyboard_handler, Queued, wake_kbd
  <2>2. /\ Append(e, n) \in Seq(Event) /\ Len(Append(e, n)) = Len(e) + 1
        /\ \A i \in 1..Len(e) : Append(e, n)[i] = e[i]
        /\ Append(e, n)[Len(e) + 1] = n
    BY <1>1, AppendProperties
  <2> HIDE DEF n
  <2>3. n.key = keys + 1
    BY DEF n
  <2>4. \A i \in 1..Len(e') : \/ i \in 1..Len(e) /\ e'[i] = e[i]
                              \/ i = Len(e) + 1 /\ e'[i].key = keys + 1
    BY <1>1, <2>1, <2>2, <2>3
  <2>5. wait_kbd' = <<>>
    <3>1. CASE wait_kbd = <<>>
      BY <3>1, <2>1
    <3>2. CASE wait_kbd # <<>>
      <4>1. Len(wait_kbd) = 1
        BY <3>2 DEF TtyInv, NoLostKey
      <4> QED BY <3>2, <4>1, <1>1, <2>1
    <3> QED BY <3>1, <3>2
  <2>6. TypeOK'
    <3>1. Len(e') <= NrEvents /\ e' \in Seq(Event)
      BY <1>1, <1>8, <2>1, <2>2, TtyAssumption DEF Full, TtyInv, TypeOK
    <3> QED BY <1>1, <1>3, <1>4, <2>5, <3>1 DEF TtyInv, TypeOK
  <2>7. ReaderInv'
    <3>1. ToSet(wait_kbd') = {}
      BY <2>5 DEF ToSet
    <3> QED BY <1>1, <1>2, <3>1 DEF TtyInv, ReaderInv
  <2>8. NoLostKey'
    BY <2>5 DEF NoLostKey
  <2>9. EventsInOrder'
    <3>1. \A i, j \in 1..Len(e') : i < j => e'[i].key < e'[j].key
      <4> SUFFICES ASSUME NEW i \in 1..Len(e'), NEW j \in 1..Len(e'), i < j
                   PROVE  e'[i].key < e'[j].key
        OBVIOUS
      <4>1. i \in 1..Len(e) /\ e'[i] = e[i]
        BY <1>1, <2>1, <2>2, <2>4
      <4>2. CASE j \in 1..Len(e)
        <5>1. e'[j] = e[j] /\ e[i].key < e[j].key
          BY <4>1, <4>2, <1>1, <2>4 DEF TtyInv, EventsInOrder
        <5> QED BY <4>1, <5>1
      <4>3. CASE j \notin 1..Len(e)
        BY <4>1, <4>3, <1>6, <2>4
      <4> QED BY <4>2, <4>3
    <3>2. \A i \in 1..Len(e') : e'[i].key <= keys'
      BY <1>1, <1>6, <2>4, SMTT(30)
    <3>3. \A f \in File : \A x \in ToSet(chars'[f]) : x <= keys'
      BY <1>1, <1>5
    <3> QED BY <3>1, <3>2, <3>3 DEF EventsInOrder
  <2>10. KeysInOrder'
    <3>1. \A f \in File, i \in 1..Len(e') : \A x \in ToSet(chars[f]) : x < e'[i].key
      BY <1>5, <2>4 DEF TtyInv, KeysInOrder
    <3> QED BY <1>1, <3>1 DEF TtyInv, KeysInOrder
  <2> QED BY <1>3, <2>6, <2>7, <2>8, <2>9, <2>10 DEF TtyInv
<1> QED BY <1>7, <1>8

\* down(&read_sem): the task enters, or sleeps as a waiting one.
LEMMA ReadInv ==
  ASSUME TtyInv, NEW t \in Task, NEW n \in Size, tty_read(t, n)
  PROVE  TtyInv'
<1>1. /\ cpu = NoTask /\ at[t] = "user" /\ down(t)
      /\ at' = [at EXCEPT ![t] = "read"] /\ size' = [size EXCEPT ![t] = n]
      /\ UNCHANGED <<events_list, wait_kbd, cpu, chars, keys>>
  BY DEF tty_read
<1>2. SemTypeOK' /\ SemInv'
  BY <1>1, DownInv DEF TtyInv, TypeOK
<1>3. TypeOK'
  BY <1>1, <1>2 DEF TtyInv, TypeOK
<1>4. /\ sem'[t] # "out" /\ \A u \in Task : u # t => sem'[u] = sem[u]
      /\ sem[t] = "out"
  BY <1>1 DEF TtyInv, TypeOK, SemTypeOK, down
<1>5. ReaderInv'
  <2>1. \A u \in ToSet(wait_kbd) : u \in Task /\ u # t
    <3>1. wait_kbd \in Seq(Task)
      BY DEF TtyInv, TypeOK
    <3> QED BY <3>1, <1>4, ToSetElements DEF TtyInv, ReaderInv
  <2> QED BY <1>1, <1>4, <2>1 DEF TtyInv, TypeOK, ReaderInv
<1>6. NoLostKey' /\ EventsInOrder' /\ KeysInOrder'
  BY <1>1 DEF TtyInv, NoLostKey, EventsInOrder, KeysInOrder
<1> QED BY <1>2, <1>3, <1>5, <1>6 DEF TtyInv

\* The reader goes to sleep: there is no event and no other sleeper.
LEMMA KbdWaitInv ==
  ASSUME TtyInv, NEW t \in Task, keyboard_wait(t)
  PROVE  TtyInv'
<1>1. /\ cpu \in {t, NoTask} /\ at[t] = "read" /\ sem[t] = "in" /\ t \notin ToSet(wait_kbd)
      /\ events_list = <<>> /\ wait_kbd' = list_add(t, wait_kbd) /\ cpu' = NoTask
      /\ UNCHANGED <<semVars, events_list, at, size, chars, keys>>
  BY DEF keyboard_wait, Reading
<1>2. wait_kbd' = <<t>>
  <2>1. wait_kbd = <<>>
    BY <1>1, OneSleeper
  <2> QED BY <1>1, <2>1 DEF list_add
<1>3. UNCHANGED <<count, waiting, sem>>
  BY <1>1 DEF semVars
<1>4. SemTypeOK' /\ SemInv'
  BY <1>3 DEF TtyInv, TypeOK, SemTypeOK, SemInv, MutualExclusion, OwnerWhileWaiting
<1>5. wait_kbd' \in Seq(Task) /\ Len(wait_kbd') = 1
  BY <1>2
<1>6. TypeOK'
  BY <1>1, <1>4, <1>5 DEF TtyInv, TypeOK
<1>7. ReaderInv'
  <2>1. \A u \in ToSet(wait_kbd') : u = t
    BY <1>2 DEF ToSet
  <2>2. \A u \in Task : at[u] # "copy"
    <3> SUFFICES ASSUME NEW u \in Task, at[u] = "copy" PROVE FALSE
      OBVIOUS
    <3>1. u = t
      BY <1>1, OneSleeper
    <3> QED BY <3>1, <1>1
  <2> QED BY <1>1, <1>3, <2>1, <2>2 DEF TtyInv, ReaderInv
<1>8. NoLostKey' /\ EventsInOrder' /\ KeysInOrder'
  BY <1>1, <1>5 DEF TtyInv, NoLostKey, EventsInOrder, KeysInOrder
<1> QED BY <1>4, <1>6, <1>7, <1>8 DEF TtyInv

\* The oldest event is taken; a character goes to the end of the line, which
\* only holds older ones.
LEMMA KbdReadInv ==
  ASSUME TtyInv, NEW t \in Task, keyboard_read(t)
  PROVE  TtyInv'
<1> DEFINE e == events_list
           n == Head(e).key
           f == Filp[t]
<1>1. /\ cpu \in {t, NoTask} /\ at[t] = "read" /\ sem[t] = "in" /\ t \notin ToSet(wait_kbd)
      /\ e # <<>> /\ e' = Tail(e) /\ cpu' = t
      /\ at' = at \/ at' = [at EXCEPT ![t] = "copy"]
      /\ \/ chars' = chars
         \/ chars' = [chars EXCEPT ![f] = Append(chars[f], n)]
         \/ chars' = [chars EXCEPT ![f] = pop_last(chars[f])]
      /\ UNCHANGED <<semVars, wait_kbd, size, keys>>
  BY DEF keyboard_read, Reading
<1>2. UNCHANGED <<count, waiting, sem>>
  BY <1>1 DEF semVars
<1>3. SemTypeOK' /\ SemInv'
  BY <1>2 DEF TtyInv, TypeOK, SemTypeOK, SemInv, MutualExclusion, OwnerWhileWaiting
<1>4. /\ e \in Seq(Event) /\ Len(e) \in Nat /\ Len(e) >= 1 /\ e' \in Seq(Event)
      /\ Len(e') = Len(e) - 1
      /\ \A i \in 1..Len(e') : i + 1 \in 2..Len(e) /\ e'[i] = e[i + 1]
      /\ Head(e) = e[1] /\ n = e[1].key
  <2>1. e \in Seq(Event) /\ Len(e) \in Nat
    BY Numbered
  <2> QED BY <1>1, <2>1, HeadTailProperties
<1>5. f \in File /\ chars[f] \in Seq(1..MaxKeys) /\ Len(chars[f]) \in Nat
  <2>1. f \in File
    BY TtyAssumption
  <2> QED BY <2>1, Numbered, LenProperties
<1>6. n \in 1..MaxKeys /\ n <= keys
  <2>1. Head(e) \in Event
    BY <1>1, <1>4, HeadTailProperties
  <2> QED BY <2>1, <1>4, Numbered DEF Event
<1>7. /\ \A g \in File : \A x \in ToSet(chars[g]) : x < n
      /\ \A g \in File : Increasing(chars[g])
  BY <1>4 DEF TtyInv, KeysInOrder, Increasing
<1>8. ReaderInv' /\ NoLostKey'
  <2>1. wait_kbd = <<>>
    BY <1>1, OneSleeper
  <2>2. \A u \in Task : u # t => at[u] # "copy"
    BY <1>1, OneSleeper
  <2>3. at'[t] \in {"read", "copy"} /\ \A u \in Task : u # t => at'[u] = at[u]
    BY <1>1 DEF TtyInv, TypeOK
  <2>4. ToSet(wait_kbd') = {}
    BY <1>1, <2>1 DEF ToSet
  <2>5. ReaderInv'
    BY <1>1, <1>2, <2>2, <2>3, <2>4 DEF TtyInv, ReaderInv
  <2> QED BY <1>1, <2>1, <2>5 DEF NoLostKey
<1>9. ASSUME chars' \in [File -> Seq(1..MaxKeys)] PROVE TypeOK'
  <2>1. Len(e') <= NrEvents
    BY <1>4, TtyAssumption DEF TtyInv, TypeOK
  <2>2. at' \in [Task -> {"user", "read", "copy"}]
    BY <1>1 DEF TtyInv, TypeOK
  <2> QED BY <1>1, <1>3, <1>4, <1>9, <2>1, <2>2 DEF TtyInv, TypeOK
<1>10. CASE chars' = chars \/ chars' = [chars EXCEPT ![f] = pop_last(chars[f])]
  <2>1. /\ pop_last(chars[f]) \in Seq(1..MaxKeys)
        /\ ToSet(pop_last(chars[f])) \subseteq ToSet(chars[f])
        /\ Increasing(pop_last(chars[f]))
    <3>1. CASE chars[f] = <<>>
      BY <3>1, <1>5, <1>7 DEF pop_last
    <3>2. CASE chars[f] # <<>>
      <4> DEFINE k == Len(chars[f]) - 1
      <4>1. k \in Int /\ k <= Len(chars[f])
        BY <1>5
      <4>2. pop_last(chars[f]) = SubSeq(chars[f], 1, k)
        BY <3>2 DEF pop_last, Front
      <4>3. 1 \in Nat \ {0} /\ Increasing(chars[f])
        BY <1>5, <1>7
      <4> HIDE DEF k
      <4>4. /\ SubSeq(chars[f], 1, k) \in Seq(1..MaxKeys)
            /\ ToSet(SubSeq(chars[f], 1, k)) \subseteq ToSet(chars[f])
            /\ Increasing(chars[f]) => Increasing(SubSeq(chars[f], 1, k))
        BY <4>1, <4>3, <1>5, PartOfLine
      <4> QED BY <4>2, <4>3, <4>4
    <3> QED BY <3>1, <3>2
  <2>2. \A g \in File : /\ Increasing(chars'[g]) /\ ToSet(chars'[g]) \subseteq ToSet(chars[g])
                        /\ chars'[g] = chars[g] \/ (g = f /\ chars'[g] = pop_last(chars[f]))
    BY <1>5, <1>7, <1>10, <2>1 DEF TtyInv, TypeOK
  <2>3. chars' \in [File -> Seq(1..MaxKeys)]
    BY <1>10, <2>1 DEF TtyInv, TypeOK
  <2>4. EventsInOrder' /\ KeysInOrder'
    BY <1>1, <1>9, <2>2, <2>3, ShrinkOrder
  <2> QED BY <1>3, <1>8, <1>9, <2>3, <2>4 DEF TtyInv
<1>11. CASE chars' = [chars EXCEPT ![f] = Append(chars[f], n)]
  <2> DEFINE l == Append(chars[f], n)
  <2>1. /\ l \in Seq(1..MaxKeys) /\ ToSet(l) = ToSet(chars[f]) \cup {n} /\ Increasing(l)
    <3>1. 1..MaxKeys \in SUBSET Nat
      BY TtyAssumption
    <3> QED BY <3>1, <1>5, <1>6, <1>7, EndOfLine
  <2> HIDE DEF l
  <2>2. chars' \in [File -> Seq(1..MaxKeys)]
    BY <1>11, <2>1 DEF TtyInv, TypeOK, l
  <2>3. chars'[f] = l /\ \A g \in File : g # f => chars'[g] = chars[g]
    BY <1>5, <1>11 DEF TtyInv, TypeOK, l
  <2>4. \A i \in 1..Len(e') : n < e'[i].key /\ e'[i].key <= keys
    <3> SUFFICES ASSUME NEW i \in 1..Len(e') PROVE n < e'[i].key /\ e'[i].key <= keys
      OBVIOUS
    <3> DEFINE j == i + 1
    <3>1. j \in 2..Len(e) /\ e'[i] = e[j]
      BY <1>4
    <3> HIDE DEF j
    <3>2. j \in 1..Len(e) /\ 1 \in 1..Len(e) /\ 1 < j
      BY <3>1, <1>4
    <3> QED BY <3>1, <3>2, <1>4 DEF TtyInv, EventsInOrder
  <2>5. EventsInOrder'
    <3>1. ASSUME NEW i \in 1..Len(e'), NEW j \in 1..Len(e'), i < j
          PROVE  e'[i].key < e'[j].key
      <4> DEFINE a == i + 1
                 b == j + 1
      <4>1. a \in 1..Len(e) /\ b \in 1..Len(e) /\ a < b /\ e'[i] = e[a] /\ e'[j] = e[b]
        BY <1>4, <3>1
      <4> HIDE DEF a, b
      <4> QED BY <4>1 DEF TtyInv, EventsInOrder
    <3>2. \A g \in File : \A x \in ToSet(chars'[g]) : x <= keys
      BY <1>6, <2>1, <2>3 DEF TtyInv, EventsInOrder
    <3> QED BY <1>1, <2>4, <3>1, <3>2 DEF EventsInOrder
  <2>6. KeysInOrder'
    <3>1. \A g \in File : Increasing(chars'[g])
      BY <1>7, <2>1, <2>3
    <3>2. \A g \in File : n \notin ToSet(chars[g])
      BY <1>6, <1>7
    <3>3. \A g, h \in File : g # h => ToSet(chars'[g]) \cap ToSet(chars'[h]) = {}
      BY <2>1, <2>3, <3>2, SMTT(30) DEF TtyInv, KeysInOrder
    <3>4. ASSUME NEW g \in File, NEW i \in 1..Len(e'), NEW x \in ToSet(chars'[g])
          PROVE  x < e'[i].key
      <4>1. CASE x \in ToSet(chars[g])
        <5>1. i + 1 \in 1..Len(e) /\ e'[i] = e[i + 1]
          BY <1>4
        <5> QED BY <4>1, <5>1 DEF TtyInv, KeysInOrder
      <4>2. CASE x \notin ToSet(chars[g])
        <5>1. x = n
          BY <4>2, <2>1, <2>3
        <5> QED BY <5>1, <2>4
      <4> QED BY <4>1, <4>2
    <3> QED BY <3>1, <3>3, <3>4 DEF KeysInOrder, Increasing
  <2> QED BY <1>3, <1>8, <1>9, <2>2, <2>5, <2>6 DEF TtyInv
<1> QED BY <1>1, <1>10, <1>11

\* The program gets the first characters; up and the return to user mode.
LEMMA CopyInv ==
  ASSUME TtyInv, NEW t \in Task, tty_copy(t)
  PROVE  TtyInv'
<1> DEFINE f == Filp[t]
           l == SubSeq(chars[f], size[t] + 1, Len(chars[f]))
<1>1. /\ at[t] = "copy" /\ cpu = t /\ chars' = [chars EXCEPT ![f] = l] /\ up(t)
      /\ cpu' = NoTask /\ at' = [at EXCEPT ![t] = "user"] /\ size' = [size EXCEPT ![t] = 0]
      /\ UNCHANGED <<events_list, wait_kbd, keys>>
  BY DEF tty_copy
<1>2. SemTypeOK' /\ SemInv'
  BY <1>1, UpInv DEF TtyInv, TypeOK
<1>3. f \in File /\ chars[f] \in Seq(1..MaxKeys) /\ Len(chars[f]) \in Nat
  <2>1. f \in File
    BY TtyAssumption
  <2> QED BY <2>1, Numbered, LenProperties
<1>4. /\ l \in Seq(1..MaxKeys) /\ ToSet(l) \subseteq ToSet(chars[f])
      /\ Increasing(chars[f]) => Increasing(l)
  <2> DEFINE m == size[t] + 1
             k == Len(chars[f])
  <2>1. m \in Nat \ {0}
    <3>1. size[t] \in Size \cup {0}
      BY DEF TtyInv, TypeOK
    <3>2. CASE size[t] \in Size
      <4>1. size[t] \in Nat
        BY <3>2, TtyAssumption, Zenon
      <4> QED BY <4>1
    <3>3. CASE size[t] = 0
      BY <3>3
    <3> QED BY <3>1, <3>2, <3>3
  <2>2. k \in Int /\ k <= Len(chars[f])
    BY <1>3
  <2> HIDE DEF m, k
  <2>3. /\ SubSeq(chars[f], m, k) \in Seq(1..MaxKeys)
        /\ ToSet(SubSeq(chars[f], m, k)) \subseteq ToSet(chars[f])
        /\ Increasing(chars[f]) => Increasing(SubSeq(chars[f], m, k))
    BY <1>3, <2>1, <2>2, PartOfLine
  <2> QED BY <2>3 DEF m, k
<1> HIDE DEF l
<1>5. \A g \in File : Increasing(chars'[g]) /\ ToSet(chars'[g]) \subseteq ToSet(chars[g])
  <2>1. \A g \in File : Increasing(chars[g])
    BY DEF TtyInv, KeysInOrder, Increasing
  <2>2. chars'[f] = l /\ \A g \in File : g # f => chars'[g] = chars[g]
    BY <1>1, <1>3 DEF TtyInv, TypeOK
  <2> QED BY <1>3, <1>4, <2>1, <2>2
<1>6. TypeOK'
  <2>1. chars' \in [File -> Seq(1..MaxKeys)]
    BY <1>1, <1>4 DEF TtyInv, TypeOK
  <2> QED BY <1>1, <1>2, <2>1 DEF TtyInv, TypeOK
<1>7. EventsInOrder' /\ KeysInOrder'
  BY <1>1, <1>5, <1>6, ShrinkOrder
<1>8. ReaderInv' /\ NoLostKey'
  <2>1. sem[t] = "in" /\ t \notin ToSet(wait_kbd) /\ t \in Task
    BY <1>1, TtyAssumption DEF TtyInv, ReaderInv
  <2>2. wait_kbd = <<>> /\ \A u \in Task : u # t => at[u] # "copy"
    BY <2>1, OneSleeper
  <2>3. \A u \in Task : sem'[u] = "out" <=> (u = t \/ sem[u] = "out")
    <3>1. CASE waiting = <<>>
      BY <1>1, <2>1, <3>1 DEF up, TtyInv, TypeOK, SemTypeOK
    <3>2. CASE waiting # <<>>
      <4>1. Head(waiting) \in ToSet(waiting) /\ Head(waiting) \in Task
        BY <3>2, ListPop DEF TtyInv, TypeOK, SemTypeOK
      <4>2. sem[Head(waiting)] = "waiting"
        BY <4>1 DEF TtyInv, SemInv
      <4>3. sem' = [sem EXCEPT ![t] = "out", ![Head(waiting)] = "in"]
        BY <1>1, <3>2 DEF up
      <4> QED BY <2>1, <4>1, <4>2, <4>3 DEF TtyInv, TypeOK, SemTypeOK
    <3> QED BY <3>1, <3>2
  <2>4. ToSet(wait_kbd') = {}
    BY <1>1, <2>2 DEF ToSet
  <2>5. at'[t] = "user" /\ \A u \in Task : u # t => at'[u] = at[u]
    BY <1>1 DEF TtyInv, TypeOK
  <2>6. ReaderInv'
    BY <1>1, <2>2, <2>3, <2>4, <2>5 DEF TtyInv, ReaderInv
  <2> QED BY <1>1, <2>2, <2>6 DEF NoLostKey
<1> QED BY <1>2, <1>6, <1>7, <1>8 DEF TtyInv

\* tty_close: nobody reads from the file.
LEMMA CloseInv ==
  ASSUME TtyInv, NEW f \in File, tty_close(f)
  PROVE  TtyInv'
<1>1. /\ chars' = [chars EXCEPT ![f] = <<>>]
      /\ UNCHANGED <<semVars, events_list, wait_kbd, cpu, at, size, keys>>
  BY DEF tty_close
<1>2. UNCHANGED <<count, waiting, sem>>
  BY <1>1 DEF semVars
<1>3. SemTypeOK' /\ SemInv'
  BY <1>2 DEF TtyInv, TypeOK, SemTypeOK, SemInv, MutualExclusion, OwnerWhileWaiting
<1>4. TypeOK'
  <2>1. chars' \in [File -> Seq(1..MaxKeys)]
    <3>1. <<>> \in Seq(1..MaxKeys)
      OBVIOUS
    <3> QED BY <1>1, <3>1 DEF TtyInv, TypeOK
  <2> QED BY <1>1, <1>3, <2>1 DEF TtyInv, TypeOK
<1>5. \A g \in File : Increasing(chars'[g]) /\ ToSet(chars'[g]) \subseteq ToSet(chars[g])
  <2>1. \A g \in File : Increasing(chars[g])
    BY DEF TtyInv, KeysInOrder, Increasing
  <2>2. chars'[f] = <<>> /\ \A g \in File : g # f => chars'[g] = chars[g]
    BY <1>1 DEF TtyInv, TypeOK
  <2>3. ToSet(<<>>) = {} /\ Increasing(<<>>)
    BY DEF ToSet, Increasing
  <2> QED BY <2>1, <2>2, <2>3
<1>6. EventsInOrder' /\ KeysInOrder'
  BY <1>1, <1>4, <1>5, ShrinkOrder
<1>7. ReaderInv' /\ NoLostKey'
  BY <1>1, <1>2 DEF TtyInv, ReaderInv, NoLostKey
<1> QED BY <1>3, <1>4, <1>6, <1>7 DEF TtyInv

\* The readers, the queue of events and the lines always fit together.
THEOREM TtyInvariant == Spec => []TtyInv
<1>1. TtyInv /\ [Next]_allVars => TtyInv'
  <2> SUFFICES ASSUME TtyInv, [Next]_allVars PROVE TtyInv'
    OBVIOUS
  <2>1. CASE UNCHANGED allVars
    BY <2>1 DEF allVars, ttyVars, semVars, TtyInv, TypeOK, SemTypeOK, SemInv, MutualExclusion,
                OwnerWhileWaiting, ReaderInv, NoLostKey, EventsInOrder, KeysInOrder
  <2>2. CASE Next
    BY <2>2, HandlerInv, ReadInv, KbdWaitInv, KbdReadInv, CopyInv, CloseInv
       DEF Next, ReadStep
  <2> QED BY <2>1, <2>2
<1> QED BY <1>1, InitTty, PTL DEF Spec

\* wait_event(&wait_kbd, !list_empty(&events_list)) loses no wake-up.
THEOREM TtyNoLostKey == Spec => []NoLostKey
<1>1. TtyInv => NoLostKey
  BY DEF TtyInv
<1> QED BY <1>1, TtyInvariant, PTL

\* Every line holds its characters in the order of the keys.
THEOREM TtyKeysInOrder == Spec => []KeysInOrder
<1>1. TtyInv => KeysInOrder
  BY DEF TtyInv
<1> QED BY <1>1, TtyInvariant, PTL

\* read_sem keeps excluding among the readers, whatever else they do.
THEOREM TtySemaphore == Spec => []SemInv
<1>1. TtyInv => SemInv
  BY DEF TtyInv
<1> QED BY <1>1, TtyInvariant, PTL
=============================================================================
