------------------------------ MODULE HdProofs ------------------------------
(***************************************************************************)
(* The disk transfers one block at a time and completely, and nobody is    *)
(* left asleep, for every number of tasks and of sectors in a block.  And  *)
(* what the MINIX file system and the block device read of the disk is     *)
(* what is on it, for every size of a block and every file.                *)
(***************************************************************************)
EXTENDS Hd, Minix, ListsProofs, SequenceTheorems

\* The first n sectors of t's block, in order and once each.
Filled(t, n) == [i \in 1..n |-> <<t, i>>]

\* Who sleeps where: a task is on the queue its program counter says, and
\* the one on wait_done is the one whose block is transferred.
SleepInv ==
  /\ Linked(wait_hd)
  /\ \A t \in Task : t \in ToSet(wait_hd) <=> pc[t] = "wait_hd" /\ t \in asleep
  /\ wait_done = <<>> \/ wait_done = <<wait_blk>>
  /\ \A t \in Task : wait_done = <<t>> <=> pc[t] = "wait_done" /\ t \in asleep
  /\ \A t \in asleep : pc[t] \in {"wait_hd", "wait_done"}

\* The progress of the request: the handler has moved as many sectors as the
\* controller has offered, and once it has moved all of them it moves none.
TransferInv ==
  /\ wait_done # <<>> =>
       /\ wait_blk \in Task /\ do_hd = rw[wait_blk]
       /\ device.task = wait_blk /\ intr_done + 1 = device.next
       /\ moved[wait_blk] = Filled(wait_blk, intr_done)
  /\ wait_done = <<>> => device = Idle /\ (do_hd # "NULL" => intr_done = Sectors)
  /\ do_hd # "NULL" => wait_blk \in Task
  /\ \A t \in Task : pc[t] = "wait_hd" => moved[t] = <<>>

HdInv == TypeOK /\ SleepInv /\ TransferInv /\ BlockComplete /\ NoStrandedWaiter
-----------------------------------------------------------------------------
\* One more sector is appended to those moved before.
LEMMA FilledAppend ==
  ASSUME NEW t \in Task, NEW n \in Nat
  PROVE  /\ Filled(t, n + 1) \in Seq(Task \X Nat)
         /\ Append(Filled(t, n), <<t, n + 1>>) = Filled(t, n + 1)
<1> DEFINE f == Filled(t, n)
           g == Filled(t, n + 1)
           e == <<t, n + 1>>
<1>1. ASSUME NEW k \in Nat
      PROVE  Filled(t, k) \in Seq(Task \X Nat) /\ Len(Filled(t, k)) = k
  <2>1. \A i \in 1..k : <<t, i>> \in Task \X Nat
    OBVIOUS
  <2>2. Filled(t, k) \in Seq(Task \X Nat)
    <3>1. Filled(t, k) \in [1..k -> Task \X Nat]
      BY <2>1 DEF Filled
    <3> QED BY <3>1, SeqDef
  <2>3. DOMAIN Filled(t, k) = 1..k
    BY DEF Filled
  <2> QED BY <2>2, <2>3, LenProperties
<1>2. f \in Seq(Task \X Nat) /\ Len(f) = n /\ g \in Seq(Task \X Nat) /\ Len(g) = n + 1
  <2>1. n + 1 \in Nat
    OBVIOUS
  <2> QED BY <1>1, <2>1
<1>3. /\ \A i \in 1..n : f[i] = <<t, i>>
      /\ \A i \in 1..(n + 1) : g[i] = <<t, i>>
  BY DEF Filled
<1> HIDE DEF f, g
<1>4. e \in Task \X Nat
  OBVIOUS
<1> HIDE DEF e
<1>5. /\ Append(f, e) \in Seq(Task \X Nat) /\ Len(Append(f, e)) = n + 1
      /\ \A i \in 1..n : Append(f, e)[i] = f[i]
      /\ Append(f, e)[n + 1] = e
  BY <1>2, <1>4, AppendProperties
<1>6. \A i \in 1..(n + 1) : Append(f, e)[i] = g[i]
  <2> SUFFICES ASSUME NEW i \in 1..(n + 1) PROVE Append(f, e)[i] = g[i]
    OBVIOUS
  <2>1. CASE i = n + 1
    BY <2>1, <1>3, <1>5 DEF e
  <2>2. CASE i # n + 1
    <3>1. i \in 1..n
      BY <2>2
    <3> QED BY <3>1, <1>3, <1>5
  <2> QED BY <2>1, <2>2
<1>7. Append(f, e) = g
  BY <1>2, <1>5, <1>6, SeqEqual
<1> QED BY <1>2, <1>7 DEF e, f, g

\* Nothing sleeps, nothing has been moved.
LEMMA InitInv == Init => HdInv
BY HdAssumption, TaskAssumption
   DEF Init, HdInv, TypeOK, SleepInv, TransferInv, BlockComplete, NoStrandedWaiter,
       Idle, Linked, ToSet, Rw

\* A new request touches only the caller, which is on no queue.
LEMMA RequestInv ==
  ASSUME HdInv, NEW t \in Task, NEW dir \in Rw, hd_rw_handler(t, dir)
  PROVE  HdInv'
<1> USE DEF HdInv, TypeOK
<1>1. pc[t] = "idle" /\ t \notin asleep
  BY DEF hd_rw_handler, SleepInv
<1>2. TypeOK'
  BY DEF hd_rw_handler
<1>3. SleepInv'
  BY <1>1 DEF hd_rw_handler, SleepInv
<1>4. wait_done # <<>> => wait_blk # t
  BY <1>1 DEF SleepInv, TransferInv
<1>5. TransferInv'
  BY <1>1, <1>4 DEF hd_rw_handler, TransferInv
<1>6. BlockComplete'
  BY <1>1 DEF hd_rw_handler, BlockComplete
<1>7. NoStrandedWaiter'
  BY <1>1 DEF hd_rw_handler, NoStrandedWaiter
<1> QED BY <1>2, <1>3, <1>5, <1>6, <1>7

\* The caller goes to sleep on wait_hd while a transfer is in progress.
LEMMA WaitInv ==
  ASSUME HdInv, NEW t \in Task, hd_out_wait(t)
  PROVE  HdInv'
<1> USE DEF HdInv
<1>1. /\ pc[t] = "wait_hd" /\ t \notin asleep /\ wait_done # <<>>
      /\ wait_hd' = list_add(t, wait_hd) /\ asleep' = asleep \cup {t}
      /\ UNCHANGED <<wait_done, do_hd, wait_blk, intr_done, pc, moved, flag, rw, device>>
  BY DEF hd_out_wait
<1>2. /\ wait_hd' \in Seq(Task) /\ Linked(wait_hd')
      /\ ToSet(wait_hd') = ToSet(wait_hd) \cup {t}
  <2>1. Linked(wait_hd) /\ t \notin ToSet(wait_hd) /\ wait_hd \in Seq(Task)
    BY <1>1 DEF SleepInv, TypeOK
  <2>2. /\ list_add(t, wait_hd) \in Seq(Task) /\ Linked(list_add(t, wait_hd))
        /\ ToSet(list_add(t, wait_hd)) = ToSet(wait_hd) \cup {t}
    BY <2>1, ListAdd
  <2> QED BY <1>1, <2>2
<1>3. TypeOK'
  BY <1>1, <1>2 DEF TypeOK
<1>4. SleepInv'
  BY <1>1, <1>2 DEF SleepInv
<1>5. TransferInv'
  BY <1>1 DEF TransferInv
<1>6. BlockComplete' /\ NoStrandedWaiter'
  BY <1>1 DEF BlockComplete, NoStrandedWaiter
<1> QED BY <1>3, <1>4, <1>5, <1>6

\* The controller is programmed; the caller is the one on wait_done.
LEMMA OutInv ==
  ASSUME HdInv, NEW t \in Task, hd_out(t)
  PROVE  HdInv'
<1> USE DEF HdInv
<1>1. /\ pc[t] = "wait_hd" /\ t \notin asleep /\ wait_done = <<>> /\ moved[t] = <<>>
      /\ pc' = [pc EXCEPT ![t] = "wait_done"] /\ asleep' = asleep \cup {t}
      /\ intr_done' = 0 /\ do_hd' = rw[t] /\ device' = [task |-> t, next |-> 1]
      /\ UNCHANGED <<wait_hd, moved, flag, rw>>
  BY DEF hd_out, TransferInv
<1>2. wait_done' = <<t>> /\ wait_blk' = t
  BY <1>1 DEF hd_out, list_add
<1>3. TypeOK'
  <2>1. device' \in [task : Task \cup {NoBlock}, next : 0..Sectors] /\ intr_done' \in 0..Sectors
    BY <1>1, HdAssumption
  <2>2. wait_done' \in Seq(Task)
    BY <1>2
  <2>3. pc' \in [Task -> {"idle", "wait_hd", "wait_done", "done"}] /\ do_hd' \in Rw
    BY <1>1 DEF TypeOK
  <2> QED BY <1>1, <1>2, <2>1, <2>2, <2>3 DEF TypeOK
<1>4. /\ pc'[t] = "wait_done" /\ \A u \in Task : u # t => pc'[u] = pc[u]
      /\ \A u \in Task : wait_done' = <<u>> <=> u = t
  BY <1>1, <1>2 DEF TypeOK
<1>5. SleepInv'
  <2>1. t \notin ToSet(wait_hd)
    BY <1>1 DEF SleepInv
  <2>2. \A u \in Task : ~(pc[u] = "wait_done" /\ u \in asleep)
    <3>1. \A u \in Task : wait_done # <<u>>
      BY <1>1
    <3> QED BY <3>1 DEF SleepInv
  <2> QED BY <1>1, <1>2, <1>4, <2>1, <2>2 DEF SleepInv, TypeOK
<1>6. moved[t] = Filled(t, 0)
  BY <1>1 DEF Filled
<1>7. TransferInv'
  <2>1. wait_done' # <<>>
    BY <1>2
  <2>2. do_hd' = rw'[t] /\ device'.task = t /\ device'.next = 1 /\ moved' = moved
    BY <1>1
  <2> QED BY <1>1, <1>2, <1>4, <1>6, <2>1, <2>2 DEF TransferInv
<1>8. BlockComplete'
  BY <1>1, <1>4 DEF BlockComplete
<1>9. NoStrandedWaiter'
  BY <1>2 DEF NoStrandedWaiter
<1> QED BY <1>3, <1>5, <1>7, <1>8, <1>9

\* The caller goes on; it is awake and on no queue.
LEMMA ReturnInv ==
  ASSUME HdInv, NEW t \in Task, hd_return(t) \/ Continue(t)
  PROVE  HdInv'
<1> USE DEF HdInv, TypeOK, hd_return, Continue
<1>1. pc[t] \in {"wait_done", "done"} /\ t \notin asleep
  BY DEF SleepInv
<1>2. TypeOK'
  OBVIOUS
<1>3. SleepInv'
  BY <1>1 DEF SleepInv
<1>4. TransferInv'
  BY <1>1 DEF TransferInv
<1>5. BlockComplete'
  BY <1>1 DEF BlockComplete
<1>6. NoStrandedWaiter'
  BY <1>1 DEF NoStrandedWaiter
<1> QED BY <1>2, <1>3, <1>4, <1>5, <1>6

\* wake_up on wait_hd: the first sleeper runs, the others stay.
LEMMA PoppedHd ==
  ASSUME TypeOK, SleepInv
  PROVE  /\ Popped(wait_hd) \in Seq(Task) /\ Linked(Popped(wait_hd))
         /\ ToSet(Popped(wait_hd)) = ToSet(wait_hd) \ Woken(wait_hd)
         /\ Woken(wait_hd) \subseteq ToSet(wait_hd)
         /\ wait_hd # <<>> => Woken(wait_hd) # {}
         /\ wait_hd = <<>> => Popped(wait_hd) = <<>>
<1>1. wait_hd \in Seq(Task) /\ Linked(wait_hd)
  BY DEF TypeOK, SleepInv
<1>2. CASE wait_hd = <<>>
  BY <1>1, <1>2 DEF Popped, Woken
<1>3. CASE wait_hd # <<>>
  BY <1>1, <1>3, ListPop DEF Popped, Woken
<1> QED BY <1>2, <1>3

\* The last interrupt of a request, and a late one: the first sleeper of each
\* queue is woken, and whoever is woken on wait_done has its whole block.
LEMMA LastInv ==
  ASSUME HdInv, wait_blk \in Task,
         wait_done # <<>> => moved'[wait_blk] = Filled(wait_blk, Sectors),
         moved' \in [Task -> Seq(Task \X Nat)],
         \A t \in Task : t # wait_blk \/ wait_done = <<>> => moved'[t] = moved[t],
         flag' = [flag EXCEPT ![wait_blk] = TRUE],
         wait_done' = Popped(wait_done), wait_hd' = Popped(wait_hd),
         asleep' = asleep \ (Woken(wait_done) \cup Woken(wait_hd)),
         intr_done' = Sectors, device' = Idle,
         UNCHANGED <<do_hd, wait_blk, pc, rw>>
  PROVE  HdInv'
<1> USE DEF HdInv
<1>1. /\ wait_hd' \in Seq(Task) /\ Linked(wait_hd')
      /\ ToSet(wait_hd') = ToSet(wait_hd) \ Woken(wait_hd)
      /\ Woken(wait_hd) \subseteq ToSet(wait_hd)
      /\ wait_hd # <<>> => Woken(wait_hd) # {}
      /\ wait_hd = <<>> => wait_hd' = <<>>
  BY PoppedHd
<1>2. wait_done' = <<>> /\ Woken(wait_done) = IF wait_done = <<>> THEN {} ELSE {wait_blk}
  <2>1. CASE wait_done = <<>>
    BY <2>1 DEF Popped, Woken
  <2>2. CASE wait_done # <<>>
    <3>1. wait_done = <<wait_blk>>
      BY <2>2 DEF SleepInv
    <3> QED BY <3>1 DEF Popped, Woken
  <2> QED BY <2>1, <2>2
<1>3. wait_done # <<>> => pc[wait_blk] = "wait_done" /\ wait_blk \in asleep
  BY DEF SleepInv
<1>4. \A t \in Task : t \in Woken(wait_hd) => pc[t] = "wait_hd" /\ t \in asleep
  BY <1>1 DEF SleepInv
<1>5. TypeOK'
  <2>1. Sectors \in 0..Sectors /\ 0 \in 0..Sectors
    BY HdAssumption
  <2>2. Idle \in [task : Task \cup {NoBlock}, next : 0..Sectors]
    BY <2>1 DEF Idle
  <2>3. wait_done' \in Seq(Task) /\ asleep' \subseteq Task
    BY <1>2 DEF TypeOK
  <2>4. flag' \in [Task -> BOOLEAN]
    BY DEF TypeOK
  <2> QED BY <1>1, <2>1, <2>2, <2>3, <2>4 DEF TypeOK
<1>6. SleepInv'
  <2>1. ASSUME NEW t \in Task
        PROVE  t \in ToSet(wait_hd') <=> pc[t] = "wait_hd" /\ t \in asleep'
    BY <1>1, <1>2, <1>3 DEF SleepInv
  <2>2. ASSUME NEW t \in Task, pc[t] = "wait_done"
        PROVE  t \notin asleep'
    <3>1. CASE t \in asleep
      <4>1. wait_done = <<t>>
        BY <2>2, <3>1 DEF SleepInv
      <4>2. wait_done = <<wait_blk>>
        BY <4>1 DEF SleepInv
      <4>3. t \in Woken(wait_done)
        BY <4>1, <4>2, <1>2
      <4> QED BY <4>3
    <3>2. CASE t \notin asleep
      BY <3>2
    <3> QED BY <3>1, <3>2
  <2>3. \A t \in asleep' : pc[t] \in {"wait_hd", "wait_done"}
    BY DEF SleepInv
  <2>4. \A t \in Task : wait_done' # <<t>>
    BY <1>2
  <2> QED BY <1>1, <1>2, <2>1, <2>2, <2>3, <2>4 DEF SleepInv
<1>7. TransferInv'
  <2>1. ASSUME NEW t \in Task, pc[t] = "wait_hd" PROVE moved'[t] = <<>>
    BY <2>1, <1>3 DEF TransferInv
  <2> QED BY <1>2, <2>1 DEF TransferInv
<1>8. BlockComplete'
  <2> SUFFICES ASSUME NEW t \in Task, pc[t] \in {"wait_done", "done"}, t \notin asleep'
               PROVE  flag'[t] /\ moved'[t] = Filled(t, Sectors)
    BY DEF BlockComplete, Filled
  <2>1. CASE t \in asleep
    <3>1. t = wait_blk /\ wait_done # <<>>
      BY <2>1, <1>2, <1>4
    <3> QED BY <3>1 DEF TypeOK
  <2>2. CASE t \notin asleep
    <3>1. flag[t] /\ moved[t] = Filled(t, Sectors)
      BY <2>2 DEF BlockComplete, Filled
    <3>2. moved'[t] = moved[t]
      BY <2>2, <1>3
    <3>3. flag'[t]
      BY <3>1 DEF TypeOK
    <3> QED BY <3>1, <3>2, <3>3
  <2> QED BY <2>1, <2>2
<1>9. NoStrandedWaiter'
  <2> SUFFICES ASSUME wait_hd' # <<>>
               PROVE  \E t \in Task : pc[t] = "wait_hd" /\ t \notin asleep'
    BY DEF NoStrandedWaiter
  <2>1. wait_hd # <<>>
    BY <1>1
  <2>2. PICK t \in Woken(wait_hd) : t \in Task
    BY <2>1, ListPop DEF TypeOK, Woken
  <2> QED BY <2>2, <1>4
<1> QED BY <1>5, <1>6, <1>7, <1>8, <1>9

\* An interrupt with data: the next sector of the block in work is moved.
LEMMA IntrInv == HdInv /\ device.task # NoBlock /\ Interrupt(TRUE) => HdInv'
<1> SUFFICES ASSUME HdInv, device.task # NoBlock, Interrupt(TRUE) PROVE HdInv'
  OBVIOUS
<1> USE DEF HdInv
<1> DEFINE b == wait_blk
<1>1. /\ wait_done = <<b>> /\ b \in Task /\ device.task = b /\ intr_done + 1 = device.next
      /\ moved[b] = Filled(b, intr_done) /\ pc[b] = "wait_done" /\ b \in asleep
  <2>2. wait_done # <<>>
    BY DEF TransferInv, Idle
  <2>3. wait_done = <<b>> /\ b \in Task
    BY <2>2 DEF TransferInv, SleepInv
  <2> QED BY <2>2, <2>3 DEF TransferInv, SleepInv
<1>2. intr_done \in Nat /\ device.next \in 1..Sectors /\ intr_done # Sectors /\ Sectors \in Nat
  BY <1>1, HdAssumption DEF TypeOK
<1>3. /\ intr_done' = intr_done + 1
      /\ moved' = [moved EXCEPT ![b] = Append(moved[b], <<b, intr_done + 1>>)]
  BY <1>1, <1>2 DEF Interrupt, rw_intr, Counted
<1>4. /\ moved' \in [Task -> Seq(Task \X Nat)]
      /\ moved'[b] = Filled(b, intr_done + 1)
      /\ \A t \in Task : t # b => moved'[t] = moved[t]
  <2>1. /\ Filled(b, intr_done + 1) \in Seq(Task \X Nat)
        /\ Append(Filled(b, intr_done), <<b, intr_done + 1>>) = Filled(b, intr_done + 1)
    <3>1. b \in Task /\ intr_done \in Nat
      BY <1>1, <1>2
    <3> QED BY <3>1, FilledAppend
  <2>2. moved' = [moved EXCEPT ![b] = Filled(b, intr_done + 1)]
    BY <1>1, <1>3, <2>1
  <2> QED BY <1>1, <2>1, <2>2 DEF TypeOK
<1>5. CASE device.next = Sectors
  <2>1. /\ flag' = [flag EXCEPT ![b] = TRUE]
        /\ wait_done' = Popped(wait_done) /\ wait_hd' = Popped(wait_hd)
        /\ asleep' = asleep \ (Woken(wait_done) \cup Woken(wait_hd))
        /\ device' = Idle /\ intr_done' = Sectors
    BY <1>1, <1>2, <1>3, <1>5 DEF Interrupt, rw_intr, Counted
  <2>2. UNCHANGED <<do_hd, wait_blk, pc, rw>>
    BY DEF Interrupt
  <2>3. moved'[b] = Filled(b, Sectors)
    BY <1>1, <1>4, <1>5
  <2> QED BY <1>1, <1>4, <2>1, <2>2, <2>3, LastInv
<1>6. CASE device.next # Sectors
  <2>1. /\ device' = [device EXCEPT !.next = @ + 1]
        /\ UNCHANGED <<flag, wait_done, wait_hd, asleep, do_hd, wait_blk, pc, rw>>
    BY <1>1, <1>2, <1>6 DEF Interrupt, rw_intr, Counted
  <2>2. device'.task = b /\ device'.next = device.next + 1
    BY <2>1, <1>1 DEF TypeOK
  <2>3. TypeOK'
    <3>1. intr_done' \in 0..Sectors /\ device.next + 1 \in 0..Sectors
      BY <1>1, <1>2, <1>3, <1>6
    <3>2. device' \in [task : Task \cup {NoBlock}, next : 0..Sectors]
      BY <2>1, <3>1 DEF TypeOK
    <3> QED BY <1>4, <2>1, <3>1, <3>2 DEF TypeOK
  <2>4. SleepInv' /\ NoStrandedWaiter'
    BY <2>1 DEF SleepInv, NoStrandedWaiter
  <2>5. TransferInv'
    BY <1>1, <1>2, <1>3, <1>4, <2>1, <2>2 DEF TransferInv
  <2>6. BlockComplete'
    BY <1>1, <1>4, <2>1 DEF BlockComplete
  <2> QED BY <2>3, <2>4, <2>5, <2>6
<1> QED BY <1>5, <1>6

\* A late interrupt: between two sectors it does nothing, after the last one
\* it wakes one waiter too early, which finds the controller free.
LEMMA SpuriousInv == HdInv /\ do_hd # "NULL" /\ Interrupt(FALSE) => HdInv'
<1> SUFFICES ASSUME HdInv, do_hd # "NULL", Interrupt(FALSE) PROVE HdInv'
  OBVIOUS
<1> USE DEF HdInv
<1>1. do_hd # "NULL" /\ wait_blk \in Task /\ Sectors \in Nat
  BY HdAssumption DEF TransferInv
<1>2. CASE wait_done = <<>>
  <2>1. /\ intr_done = Sectors /\ device = Idle
    BY <1>1, <1>2 DEF TransferInv
  <2>2. /\ flag' = [flag EXCEPT ![wait_blk] = TRUE] /\ moved' = moved
        /\ wait_done' = Popped(wait_done) /\ wait_hd' = Popped(wait_hd)
        /\ asleep' = asleep \ (Woken(wait_done) \cup Woken(wait_hd))
        /\ intr_done' = Sectors /\ device' = Idle
        /\ UNCHANGED <<do_hd, wait_blk, pc, rw>>
    BY <2>1 DEF Interrupt, rw_intr
  <2>3. moved' \in [Task -> Seq(Task \X Nat)]
    BY <2>2 DEF TypeOK
  <2> QED BY <1>1, <1>2, <2>2, <2>3, LastInv
<1>3. CASE wait_done # <<>>
  <2>1. intr_done # Sectors
    BY <1>1, <1>3 DEF TypeOK, TransferInv
  <2>2. UNCHANGED vars
    BY <2>1 DEF Interrupt, rw_intr, vars
  <2> QED BY <2>2 DEF vars, TypeOK, SleepInv, TransferInv, BlockComplete, NoStrandedWaiter
<1> QED BY <1>2, <1>3

\* hd_intr, on either kind of interrupt.
LEMMA InterruptInv == HdInv /\ (hd_intr \/ hd_intr_spurious) => HdInv'
<1> SUFFICES ASSUME HdInv, hd_intr \/ hd_intr_spurious PROVE HdInv'
  OBVIOUS
<1>1. CASE hd_intr
  BY <1>1, IntrInv DEF hd_intr
<1>2. CASE hd_intr_spurious
  <2>1. PICK drq \in BOOLEAN : (drq => device.task # NoBlock) /\ Interrupt(drq)
    BY <1>2 DEF hd_intr_spurious
  <2>2. CASE drq = TRUE
    BY <2>1, <2>2, IntrInv
  <2>3. CASE drq = FALSE
    BY <1>2, <2>1, <2>3, SpuriousInv DEF hd_intr_spurious
  <2> QED BY <2>2, <2>3
<1> QED BY <1>1, <1>2

\* drivers/hd.c: who sleeps where, and how far the request in progress is.
THEOREM HdInvariant == Spec => []HdInv
<1>1. HdInv /\ [Next]_vars => HdInv'
  <2> SUFFICES ASSUME HdInv, [Next]_vars PROVE HdInv'
    OBVIOUS
  <2>1. CASE UNCHANGED vars
    BY <2>1 DEF vars, HdInv, TypeOK, SleepInv, TransferInv, BlockComplete, NoStrandedWaiter
  <2>2. CASE Next
    BY <2>2, RequestInv, WaitInv, OutInv, ReturnInv, InterruptInv DEF Next
  <2> QED BY <2>1, <2>2
<1> QED BY <1>1, InitInv, PTL DEF Spec

\* One request at a time (hd_out, drivers/hd.c).
THEOREM HdOneRequest == Spec => []OneRequest
<1>1. HdInv => OneRequest
  <2> SUFFICES ASSUME HdInv PROVE OneRequest
    OBVIOUS
  <2>1. CASE wait_done = <<>>
    BY <2>1 DEF HdInv, TransferInv, OneRequest, Idle
  <2>2. CASE wait_done # <<>>
    <3>1. wait_done = <<wait_blk>>
      BY <2>2 DEF HdInv, SleepInv
    <3>2. Len(wait_done) = 1 /\ Head(wait_done) = wait_blk
      BY <3>1
    <3> QED BY <2>2, <3>2 DEF HdInv, TransferInv, OneRequest
  <2> QED BY <2>1, <2>2
<1> QED BY <1>1, HdInvariant, PTL

\* hd_out returns with the whole block of its caller, for every block size.
THEOREM HdBlockComplete == Spec => []BlockComplete
<1>1. HdInv => BlockComplete
  BY DEF HdInv
<1> QED BY <1>1, HdInvariant, PTL

\* wake_up(&wait_hd) is never lost, however many tasks wait.
THEOREM HdNoStrandedWaiter == Spec => []NoStrandedWaiter
<1>1. HdInv => NoStrandedWaiter
  BY DEF HdInv
<1> QED BY <1>1, HdInvariant, PTL
-----------------------------------------------------------------------------
(* fs/minix and fs/block_dev.c.  Proved by way of the numbers they compute   *)
(* with: the quotients and remainders, the block map, the turns of a loop.   *)

\* Quotient and remainder.
LEMMA DivMod ==
  ASSUME NEW k \in Nat, NEW n \in Nat \ {0}
  PROVE  /\ k \div n \in Nat /\ k % n \in 0..(n - 1)
         /\ k = (k \div n) * n + (k % n)
<1> DEFINE q == k \div n
           s == k % n
<1>1. k = n * q + s /\ q \in Int /\ s \in 0..(n - 1)
  OBVIOUS
<1> HIDE DEF q, s
<1>2. q >= 0
  <2>1. CASE q <= -1
    <3>1. n * q <= -n
      BY <1>1, <2>1
    <3> QED BY <1>1, <3>1
  <2> QED BY <1>1, <2>1
<1>3. q \in Nat /\ k = q * n + s
  BY <1>1, <1>2
<1> QED BY <1>1, <1>3 DEF q, s

\* Products, for the steps that need one law of them at a time.
LEMMA Distribute ==
  ASSUME NEW a \in Int, NEW b \in Int, NEW c \in Int
  PROVE  (a + b) * c = a * c + b * c /\ (a * b) * c = a * (b * c) /\ a * b = b * a
         /\ a * b \in Int
OBVIOUS

LEMMA TimesOrder ==
  ASSUME NEW a \in Nat, NEW b \in Nat, NEW n \in Nat, a <= b
  PROVE  a * n <= b * n /\ a * n \in Nat
OBVIOUS

\* They are the only ones.
LEMMA DivUnique ==
  ASSUME NEW q \in Nat, NEW n \in Nat \ {0}, NEW r \in 0..(n - 1)
  PROVE  (q * n + r) \div n = q /\ (q * n + r) % n = r
<1> DEFINE k == q * n + r
           d == k \div n
<1>1. k \in Nat
  BY TimesOrder
<1>2. d \in Nat /\ k % n \in 0..(n - 1) /\ k = d * n + (k % n)
  BY <1>1, DivMod
<1>3. ASSUME NEW a \in Nat, NEW b \in Nat, NEW x \in 0..(n - 1), NEW y \in 0..(n - 1),
             a * n + x = b * n + y, a < b
      PROVE  FALSE
  <2>1. (a + 1) * n <= b * n
    BY <1>3, TimesOrder
  <2>2. (a + 1) * n = a * n + n
    BY Distribute
  <2>3. a * n \in Nat /\ b * n \in Nat
    BY TimesOrder
  <2> QED BY <1>3, <2>1, <2>2, <2>3
<1>4. d = q
  <2> DEFINE s == k % n
  <2>1. q * n + r = d * n + s /\ d \in Nat /\ s \in 0..(n - 1)
    BY <1>2
  <2> HIDE DEF d, s
  <2>2. ~(q < d) /\ ~(d < q)
    BY <1>3, <2>1
  <2> QED BY <2>1, <2>2
<1> QED BY <1>1, <1>2, <1>4, TimesOrder

LEMMA MinPair ==
  ASSUME NEW a \in Int, NEW b \in Int
  PROVE  Min({a, b}) = IF a <= b THEN a ELSE b
BY DEF Min
-----------------------------------------------------------------------------
\* What is assumed of the sizes.
LEMMA Sizes ==
  /\ Direct \in Nat \ {0} /\ Per \in Nat \ {0} /\ MINIX_BLOCK_SIZE \in Nat \ {0}
  /\ Ratio \in Nat \ {0} /\ DENTRIES_PER_BLOCK \in Nat \ {0}
  /\ BLOCK_SIZE \in Nat \ {0} /\ MaxBlocks \in Nat
<1>1. /\ Direct \in Nat \ {0} /\ Per \in Nat \ {0} /\ MINIX_BLOCK_SIZE \in Nat \ {0}
      /\ Ratio \in Nat \ {0} /\ DENTRIES_PER_BLOCK \in Nat \ {0}
  BY MinixAssumption
<1>2. Per * Per \in Nat
  BY <1>1, TimesOrder
<1>3. BLOCK_SIZE \in Nat \ {0}
  BY <1>1 DEF BLOCK_SIZE
<1> QED BY <1>1, <1>2, <1>3 DEF MaxBlocks

\* get_minix_block finds the data of its block: half a BLOCK_SIZE block per
\* MINIX block, or whatever their ratio is.
LEMMA MinixBlock ==
  ASSUME NEW nr \in Nat, NEW o \in 0..(MINIX_BLOCK_SIZE - 1)
  PROVE  /\ get_minix_block(nr) = IF nr \div Ratio \in file.bad THEN -1
                                  ELSE nr * MINIX_BLOCK_SIZE
         /\ nr * MINIX_BLOCK_SIZE \in Nat
         /\ (nr * MINIX_BLOCK_SIZE + o) \div BLOCK_SIZE = nr \div Ratio
<1> DEFINE q == nr \div Ratio
           s == nr % Ratio
           M == MINIX_BLOCK_SIZE
<1>1. q \in Nat /\ s \in 0..(Ratio - 1) /\ nr = q * Ratio + s
  BY Sizes, DivMod
<1>2. M \in Nat \ {0} /\ Ratio \in Nat \ {0} /\ BLOCK_SIZE = Ratio * M /\ BLOCK_SIZE \in Nat \ {0}
  BY Sizes DEF BLOCK_SIZE
<1> HIDE DEF M
<1>3. nr * M = q * BLOCK_SIZE + s * M
  <2> HIDE DEF q, s
  <2>1. (q * Ratio + s) * M = (q * Ratio) * M + s * M /\ (q * Ratio) * M = q * (Ratio * M)
    BY <1>1, <1>2
  <2> QED BY <1>1, <1>2, <2>1
<1>4. s * M + o \in 0..(BLOCK_SIZE - 1) /\ s * M \in Nat
  <2> HIDE DEF s, q
  <2>1. o \in 0..(M - 1)
    BY DEF M
  <2>2. (s + 1) * M <= Ratio * M /\ (s + 1) * M = s * M + M /\ s * M \in Nat
    BY <1>1, <1>2, TimesOrder, Distribute
  <2> QED BY <1>2, <2>1, <2>2
<1>5. nr * M \in Nat
  BY <1>2, TimesOrder
<1>6. (nr * M + o) \div BLOCK_SIZE = q
  <2>1. (q * BLOCK_SIZE + (s * M + o)) \div BLOCK_SIZE = q
    BY <1>1, <1>2, <1>4, DivUnique
  <2> HIDE DEF q, s
  <2>2. q * BLOCK_SIZE \in Nat
    BY <1>1, <1>2
  <2>3. nr * M + o = q * BLOCK_SIZE + (s * M + o)
    BY <1>3, <1>4, <2>2
  <2> QED BY <2>1, <2>3
<1>7. get_minix_block(nr) = IF q \in file.bad THEN -1 ELSE q * BLOCK_SIZE + s * M
  BY DEF get_minix_block, bread, M
<1> QED BY <1>3, <1>5, <1>6, <1>7 DEF M

\* What the code reads from an index block is what is there, or 0 when the
\* block cannot be read.
LEMMA ZoneEntry ==
  ASSUME Layout(file), NEW z \in {0} \cup DOMAIN file.ptr, NEW i \in 0..(Per - 1)
  PROVE  /\ Entry(file, z, i) \in Nat
         /\ Zone(z, i) = IF IndexBad(z) THEN 0 ELSE Entry(file, z, i)
<1>1. CASE z = 0
  BY <1>1 DEF Zone, Entry, IndexBad
<1>2. CASE z # 0
  <2>1. z \in Nat /\ z \in DOMAIN file.ptr /\ file.ptr[z] \in [0..(Per - 1) -> Nat]
    BY <1>2 DEF Layout
  <2>2. Entry(file, z, i) = file.ptr[z][i] /\ file.ptr[z][i] \in Nat
    BY <1>2, <2>1 DEF Entry
  <2>3. Zone(z, i) = IF get_minix_block(z) = -1 THEN 0 ELSE file.ptr[z][i]
    BY <1>2 DEF Zone
  <2>4. 0 \in 0..(MINIX_BLOCK_SIZE - 1)
    BY Sizes
  <2>5. get_minix_block(z) = -1 <=> z \div Ratio \in file.bad
    <3>1. z * MINIX_BLOCK_SIZE # -1
      BY <2>1, <2>4, MinixBlock
    <3> QED BY <2>1, <2>4, <3>1, MinixBlock
  <2> QED BY <1>2, <2>1, <2>2, <2>3, <2>5 DEF IndexBad
<1> QED BY <1>1, <1>2

\* The block map, over the zones of the inode and two levels of index blocks,
\* gives the zones of the file in order, and 0 for the
\* ones whose index blocks cannot be read.
LEMMA Bmap ==
  ASSUME Layout(file), NEW b \in Nat, b < MaxBlocks
  PROVE  /\ bmap(b) \in Nat
         /\ b < Len(file.zones) => bmap(b) = ZoneOf(b)
<1> DEFINE c == b - Direct
           d == c - Per
<1>1. CASE b < Direct
  <2>1. b \in 0..(Direct - 1) /\ b \in 0..(Direct + 1)
    BY <1>1, Sizes
  <2>2. bmap(b) = file.zone[b]
    BY <1>1 DEF bmap
  <2>3. ~Unreached(b)
    BY <2>1, Sizes DEF Unreached
  <2> QED BY <2>1, <2>2, <2>3 DEF Layout, ZoneOf
<1>2. CASE ~(b < Direct) /\ c < Per
  <2>1. c \in 0..(Per - 1) /\ b = Direct + c
    BY <1>2, Sizes
  <2>2. bmap(b) = Zone(file.zone[Direct], c)
    BY <1>2 DEF bmap
  <2>3. file.zone[Direct] \in {0} \cup DOMAIN file.ptr
    BY DEF Layout
  <2>4. b < Len(file.zones) => file.zones[b + 1] = Entry(file, file.zone[Direct], c)
    <3> HIDE DEF c
    <3> QED BY <2>1 DEF Layout
  <2> HIDE DEF c
  <2>5. /\ Entry(file, file.zone[Direct], c) \in Nat
        /\ Zone(file.zone[Direct], c) = IF IndexBad(file.zone[Direct]) THEN 0
                                        ELSE Entry(file, file.zone[Direct], c)
    BY <2>1, <2>3, ZoneEntry
  <2>6. Unreached(b) <=> IndexBad(file.zone[Direct])
    <3>1. b \in Direct..(Direct + Per - 1) /\ ~(b - Direct - Per >= 0)
      BY <2>1, Sizes
    <3> QED BY <3>1 DEF Unreached
  <2> QED BY <2>2, <2>4, <2>5, <2>6 DEF ZoneOf
<1>3. CASE ~(b < Direct) /\ ~(c < Per)
  <2> DEFINE i == d \div Per
             j == d % Per
             z == file.zone[Direct + 1]
  <2>1. d \in Nat /\ b = Direct + Per + d
    BY <1>3, Sizes
  <2>2. i \in Nat /\ j \in 0..(Per - 1) /\ d = i * Per + j
    BY <2>1, Sizes, DivMod
  <2>3. bmap(b) = Zone(Zone(z, i), j)
    BY <1>3 DEF bmap
  <2> HIDE DEF d, i, j
  <2>4. i \in 0..(Per - 1)
    <3>1. d < Per * Per
      <4>1. Per * Per \in Nat
        BY Sizes, TimesOrder
      <4> QED BY <2>1, <4>1, Sizes DEF MaxBlocks
    <3>2. CASE i >= Per
      <4> DEFINE x == Per * Per
                 y == i * Per
      <4>1. x <= y /\ x \in Nat /\ y \in Nat
        BY <2>2, <3>2, Sizes, TimesOrder
      <4>2. d = y + j /\ d < x
        BY <2>2, <3>1
      <4> HIDE DEF x, y
      <4> QED BY <2>2, <4>1, <4>2
    <3> QED BY <2>2, <3>2, Sizes
  <2>5. /\ z \in {0} \cup DOMAIN file.ptr
        /\ Entry(file, z, i) \in {0} \cup DOMAIN file.ptr
    BY <2>4 DEF Layout
  <2>6. b < Len(file.zones) => file.zones[b + 1] = Entry(file, Entry(file, z, i), j)
    <3>1. b = Direct + Per + i * Per + j
      <4>1. i * Per \in Nat
        BY <2>2, Sizes, TimesOrder
      <4> QED BY <2>1, <2>2, <4>1, Sizes
    <3> HIDE DEF z
    <3>2. Direct + Per + i * Per + j < Len(file.zones) =>
            file.zones[(Direct + Per + i * Per + j) + 1] =
              Entry(file, Entry(file, file.zone[Direct + 1], i), j)
      BY <2>2, <2>4 DEF Layout
    <3> QED BY <3>1, <3>2 DEF z
  <2> HIDE DEF z
  <2>7. Zone(z, i) = IF IndexBad(z) THEN 0 ELSE Entry(file, z, i)
    BY <2>4, <2>5, ZoneEntry
  <2>8. Zone(z, i) \in {0} \cup DOMAIN file.ptr
    BY <2>5, <2>7
  <2>9. /\ Entry(file, Zone(z, i), j) \in Nat
        /\ Zone(Zone(z, i), j) = IF IndexBad(Zone(z, i)) THEN 0 ELSE Entry(file, Zone(z, i), j)
    BY <2>2, <2>8, ZoneEntry
  <2>10. Unreached(b) <=> IndexBad(z) \/ IndexBad(Entry(file, z, i))
    <3>1. ~(b \in Direct..(Direct + Per - 1)) /\ b - Direct - Per >= 0 /\ b - Direct - Per = d
      BY <2>1, Sizes
    <3> QED BY <3>1 DEF Unreached, i, z
  <2>11. ~IndexBad(0) /\ Entry(file, 0, j) = 0
    BY DEF IndexBad, Entry
  <2> QED BY <2>3, <2>6, <2>7, <2>9, <2>10, <2>11 DEF ZoneOf
<1> QED BY <1>1, <1>2, <1>3
-----------------------------------------------------------------------------
\* A run of bytes of the disk, and one of zeros.
LEMMA BytesAre ==
  ASSUME NEW a \in Int, NEW n \in Nat
  PROVE  /\ Bytes(a, n) \in Seq(Int) /\ Len(Bytes(a, n)) = n
         /\ \A i \in 1..n : Bytes(a, n)[i] = a + i - 1
<1>1. \A i \in 1..n : a + i - 1 \in Int
  OBVIOUS
<1>2. Bytes(a, n) \in [1..n -> Int]
  BY <1>1 DEF Bytes
<1>3. Bytes(a, n) \in Seq(Int)
  BY <1>2, SeqDef
<1>4. DOMAIN Bytes(a, n) = 1..n /\ \A i \in 1..n : Bytes(a, n)[i] = a + i - 1
  BY DEF Bytes
<1> QED BY <1>3, <1>4, LenProperties

LEMMA HolesAre ==
  ASSUME NEW n \in Nat
  PROVE  /\ [i \in 1..n |-> HOLE] \in Seq(Int) /\ Len([i \in 1..n |-> HOLE]) = n
         /\ \A i \in 1..n : [j \in 1..n |-> HOLE][i] = HOLE
<1> DEFINE f == [i \in 1..n |-> HOLE]
<1>1. f \in [1..n -> Int] /\ DOMAIN f = 1..n /\ \A i \in 1..n : f[i] = HOLE
  BY DEF HOLE
<1> HIDE DEF f
<1>2. f \in Seq(Int)
  BY <1>1, SeqDef
<1>3. Len(f) = n
  BY <1>1, <1>2, LenProperties
<1> QED BY <1>1, <1>2, <1>3 DEF f

\* What is read of a block, up to its end, is its bytes.
LEMMA MemoryIs ==
  ASSUME NEW block \in Nat, NEW offset \in Nat, NEW n \in Nat
  PROVE  /\ Memory(block, offset, n) \in Seq(Int) /\ Len(Memory(block, offset, n)) = n
         /\ \A i \in 1..n : offset + i <= BLOCK_SIZE =>
              Memory(block, offset, n)[i] = block * BLOCK_SIZE + offset + i - 1
<1> DEFINE a == block * BLOCK_SIZE
           f == [i \in 1..n |-> IF offset + i <= BLOCK_SIZE THEN a + offset + i - 1 ELSE BEYOND]
<1>1. a \in Nat
  BY Sizes, TimesOrder
<1> HIDE DEF a
<1>2. f \in [1..n -> Int]
  <2>1. \A i \in 1..n :
          (IF offset + i <= BLOCK_SIZE THEN a + offset + i - 1 ELSE BEYOND) \in Int
    BY <1>1 DEF BEYOND
  <2> QED BY <2>1
<1>3. DOMAIN f = 1..n /\ \A i \in 1..n : offset + i <= BLOCK_SIZE => f[i] = a + offset + i - 1
  OBVIOUS
<1>4. f = Memory(block, offset, n)
  BY Zenon DEF Memory, a
<1> HIDE DEF f
<1>5. f \in Seq(Int)
  BY <1>2, SeqDef
<1>6. Len(f) = n
  BY <1>3, <1>5, LenProperties
<1> QED BY <1>3, <1>4, <1>5, <1>6 DEF a

\* The bytes of the file within a block: its holes are holes, and the others
\* lie one after the other on the disk.
LEMMA ByteInBlock ==
  ASSUME Layout(file), NEW b \in Nat, b < Len(file.zones), NEW o \in 0..(MINIX_BLOCK_SIZE - 1)
  PROVE  /\ b * MINIX_BLOCK_SIZE + o \in Nat /\ ZoneOf(b) \in Nat
         /\ Byte(b * MINIX_BLOCK_SIZE + o) =
              IF ZoneOf(b) = 0 THEN HOLE ELSE ZoneOf(b) * MINIX_BLOCK_SIZE + o
         /\ Byte(b * MINIX_BLOCK_SIZE + o) \in Int
<1> DEFINE k == b * MINIX_BLOCK_SIZE + o
           z == ZoneOf(b)
<1>1. k \div MINIX_BLOCK_SIZE = b /\ k % MINIX_BLOCK_SIZE = o
  BY Sizes, DivUnique
<1>2. k \in Nat
  <2>1. b * MINIX_BLOCK_SIZE \in Nat
    BY Sizes, TimesOrder
  <2> QED BY <2>1, Sizes
<1>3. file.zones \in Seq(Nat) /\ b + 1 \in 1..Len(file.zones)
  BY DEF Layout
<1>4. z \in Nat
  <2>1. file.zones[b + 1] \in Nat
    BY <1>3, ElementOfSeq
  <2> QED BY <2>1 DEF ZoneOf
<1>5. Byte(k) = IF z = 0 THEN HOLE ELSE z * MINIX_BLOCK_SIZE + o
  BY <1>1, Zenon DEF Byte
<1>6. z * MINIX_BLOCK_SIZE \in Nat
  BY <1>4, Sizes, TimesOrder
<1>7. Byte(k) \in Int
  BY <1>5, <1>6, Sizes DEF HOLE
<1> QED BY <1>2, <1>4, <1>5, <1>7

\* A position of the file is in a block that it has.
LEMMA Within ==
  ASSUME Layout(file), NEW k \in Nat, k < file.size
  PROVE  /\ k \div MINIX_BLOCK_SIZE \in Nat /\ k \div MINIX_BLOCK_SIZE < Len(file.zones)
         /\ k \div MINIX_BLOCK_SIZE < MaxBlocks
         /\ k % MINIX_BLOCK_SIZE \in 0..(MINIX_BLOCK_SIZE - 1)
         /\ k = (k \div MINIX_BLOCK_SIZE) * MINIX_BLOCK_SIZE + (k % MINIX_BLOCK_SIZE)
         /\ Byte(k) \in Int
<1> DEFINE M == MINIX_BLOCK_SIZE
           b == k \div M
           o == k % M
<1>1. b \in Nat /\ o \in 0..(M - 1) /\ k = b * M + o
  BY Sizes, DivMod
<1> HIDE DEF b, o
<1>2. M \in Nat \ {0} /\ Len(file.zones) \in Nat /\ k < Len(file.zones) * M
  <2>1. M \in Nat \ {0}
    BY Sizes
  <2>2. Len(file.zones) \in Nat /\ file.size \in Nat /\ file.size <= Len(file.zones) * M
    BY LenProperties DEF Layout
  <2> DEFINE x == Len(file.zones) * M
  <2>3. x \in Nat
    BY <2>1, <2>2
  <2> HIDE DEF x
  <2>4. k < x
    BY <2>2, <2>3 DEF x
  <2> QED BY <2>1, <2>2, <2>4 DEF x
<1>3. b < Len(file.zones)
  <2>1. CASE Len(file.zones) <= b
    <3> DEFINE x == Len(file.zones) * M
               y == b * M
    <3>1. x <= y /\ x \in Nat /\ y \in Nat
      BY <1>1, <1>2, <2>1, TimesOrder
    <3>2. k = y + o /\ k < x
      BY <1>1, <1>2
    <3> HIDE DEF x, y
    <3> QED BY <1>1, <1>2, <3>1, <3>2
  <2> QED BY <1>1, <1>2, <2>1
<1>4. b < MaxBlocks
  BY <1>1, <1>2, <1>3, Sizes DEF Layout
<1>5. Byte(b * M + o) \in Int
  BY <1>1, <1>3, ByteInBlock
<1> QED BY <1>1, <1>3, <1>4, <1>5 DEF b, o

\* One turn's bytes: where the block of the position is, if the file has it.
LEMMA Run ==
  ASSUME Layout(file), NEW k \in Nat, NEW n \in Nat, n >= 1, k + n <= file.size,
         (k % MINIX_BLOCK_SIZE) + n <= MINIX_BLOCK_SIZE
  PROVE  LET nr == bmap(k \div MINIX_BLOCK_SIZE)
             o == k % MINIX_BLOCK_SIZE
         IN /\ nr = 0 => \A i \in 1..n : Byte(k + i - 1) = HOLE
            /\ nr # 0 => \A i \in 1..n : Byte(k + i - 1) = nr * MINIX_BLOCK_SIZE + o + i - 1
            /\ nr # 0 /\ get_minix_block(nr) = -1 => Unreadable(Byte(k))
<1> DEFINE M == MINIX_BLOCK_SIZE
           b == k \div M
           o == k % M
           nr == bmap(b)
<1>1. b \in Nat /\ b < Len(file.zones) /\ b < MaxBlocks /\ o \in 0..(M - 1) /\ k = b * M + o
  <2>1. k < file.size
    BY DEF Layout
  <2> QED BY <2>1, Within
<1>2. nr \in Nat /\ nr = ZoneOf(b)
  BY <1>1, Bmap
<1>3. M \in Nat \ {0} /\ o + n <= M
  BY Sizes
<1> HIDE DEF b, o, nr
<1>4. ASSUME NEW i \in 1..n
      PROVE  Byte(k + i - 1) = IF nr = 0 THEN HOLE ELSE nr * M + (o + i - 1)
  <2>1. o + i - 1 \in 0..(M - 1)
    BY <1>1, <1>3
  <2>2. Byte(b * M + (o + i - 1)) = IF nr = 0 THEN HOLE ELSE nr * M + (o + i - 1)
    BY <1>1, <1>2, <2>1, ByteInBlock
  <2>3. b * M \in Nat
    BY <1>1, <1>3, TimesOrder
  <2>4. b * M + (o + i - 1) = k + i - 1
    BY <1>1, <1>3, <2>1, <2>3
  <2> QED BY <2>2, <2>4
<1>5. nr * M \in Nat
  BY <1>2, <1>3, TimesOrder
<1>6. ASSUME nr # 0, NEW i \in 1..n PROVE Byte(k + i - 1) = nr * M + o + i - 1
  <2>1. nr * M + (o + i - 1) = nr * M + o + i - 1
    BY <1>1, <1>3, <1>5
  <2> QED BY <1>4, <1>6, <2>1
<1>7. ASSUME nr # 0, get_minix_block(nr) = -1 PROVE Unreadable(Byte(k))
  <2>1. /\ get_minix_block(nr) = IF nr \div Ratio \in file.bad THEN -1 ELSE nr * M
        /\ (nr * M + o) \div BLOCK_SIZE = nr \div Ratio
    BY <1>1, <1>2, MinixBlock
  <2>2. nr \div Ratio \in file.bad
    BY <1>5, <1>7, <2>1
  <2>3. Byte(k) = nr * M + o
    <3>1. 1 \in 1..n
      OBVIOUS
    <3>2. Byte(k + 1 - 1) = nr * M + o + 1 - 1
      BY <1>6, <1>7, <3>1
    <3>3. k + 1 - 1 = k /\ nr * M + o + 1 - 1 = nr * M + o
      BY <1>1, <1>3, <1>5
    <3> QED BY <3>2, <3>3
  <2>4. nr * M + o # HOLE
    BY <1>1, <1>3, <1>5 DEF HOLE
  <2> QED BY <2>1, <2>2, <2>3, <2>4 DEF Unreadable
<1> QED BY <1>4, <1>6, <1>7 DEF nr, b, o
-----------------------------------------------------------------------------
CallRecord == [fn : {"read", "blkdev"}, done : BOOLEAN, ret : Int, at : Nat, from : Nat,
               size : Nat, left : Nat, got : Seq(Int)]
CallType ==
  /\ file \in Files /\ call \in CallRecord
  /\ Len(call.got) + call.left = call.size

\* minix_file_read so far: got is the file from the position on, a read under
\* way is where got ends, and one that is over has a reason.
Taken(from, got) ==
  /\ got # <<>> => from + Len(got) <= file.size
  /\ \A i \in 1..Len(got) : got[i] = Byte(from + i - 1)
Under(from, got, at) ==
  /\ at = from + Len(got)
  /\ got # <<>> => at < file.size
Over(from, got, left) ==
  left > 0 /\ from + Len(got) < file.size =>
    \/ Byte(from + Len(got)) = HOLE \/ Unreadable(Byte(from + Len(got)))
    \/ Len(got) > 0 /\ got[Len(got)] = HOLE
ReadInv ==
  call.fn = "read" =>
    /\ CallType
    /\ call.from <= file.size /\ Taken(call.from, call.got)
    /\ ~call.done => Under(call.from, call.got, call.at)
    /\ call.done /\ call.ret # BUG =>
         /\ call.ret = IF Len(call.got) > 0 THEN Len(call.got) ELSE EIO
         /\ Over(call.from, call.got, call.left)
    /\ call.done /\ call.ret = BUG =>
         call.from = file.size /\ file.size = MaxBlocks * MINIX_BLOCK_SIZE

\* The bytes of a turn behind those of the turns before.
LEMMA TurnTakes ==
  ASSUME NEW got \in Seq(Int), NEW bytes \in Seq(Int), NEW from \in Nat, NEW at \in Nat,
         NEW size \in Nat, size = file.size, Taken(from, got), Under(from, got, at),
         at >= size => bytes = <<>>,
         at < size => Len(bytes) >= 1 /\ at + Len(bytes) <= size,
         \A i \in 1..Len(bytes) : bytes[i] = Byte(at + i - 1)
  PROVE  /\ Taken(from, got \o bytes)
         /\ at + Len(bytes) < size => Under(from, got \o bytes, at + Len(bytes))
         /\ \A left \in Nat :
              at + Len(bytes) >= size \/ (bytes # <<>> /\ bytes[Len(bytes)] = HOLE)
              => Over(from, got \o bytes, left)
<1> DEFINE m == Len(got)
           n == Len(bytes)
           more == got \o bytes
<1>1. m \in Nat /\ n \in Nat /\ at = from + m
      /\ (got # <<>> => m > 0 /\ at < size /\ from + m <= size) /\ (bytes # <<>> => n > 0)
  BY EmptySeq, LenProperties DEF Taken, Under
<1>2. /\ more \in Seq(Int) /\ Len(more) = m + n
      /\ \A i \in 1..(m + n) : more[i] = IF i <= m THEN got[i] ELSE bytes[i - m]
  <2>1. /\ got \o bytes \in Seq(Int) /\ Len(got \o bytes) = Len(got) + Len(bytes)
        /\ \A i \in 1 .. Len(got) + Len(bytes) :
             (got \o bytes)[i] = IF i <= Len(got) THEN got[i] ELSE bytes[i - Len(got)]
    BY ConcatProperties
  <2> QED BY <2>1, Zenon
<1>3. \A i \in 1..m : got[i] = Byte(from + i - 1)
  BY DEF Taken
<1>4. \A i \in 1..n : bytes[i] = Byte(at + i - 1)
  OBVIOUS
<1>5. at >= size => n = 0
  BY EmptySeq
<1>6. at < size => n >= 1 /\ at + n <= size
  OBVIOUS
<1> HIDE DEF m, n, more
<1>7. \A i \in 1..(m + n) : more[i] = Byte(from + i - 1)
  <2> TAKE i \in 1..(m + n)
  <2>1. CASE i <= m
    BY <1>1, <1>2, <1>3, <2>1, SMTT(30)
  <2>2. CASE i > m
    <3>1. i - m \in 1..n /\ at + (i - m) - 1 = from + i - 1 /\ ~(i <= m)
      BY <1>1, <2>2
    <3>2. bytes[i - m] = Byte(at + (i - m) - 1)
      BY <1>4, <3>1
    <3> QED BY <1>2, <3>1, <3>2
  <2> QED BY <1>1, <2>1, <2>2
<1>8. more # <<>> => m + n > 0
  BY <1>1, <1>2, EmptySeq
<1>9. Taken(from, more)
  <2>1. m + n > 0 => from + (m + n) <= size
    <3>1. m > 0 => got # <<>>
      BY EmptySeq DEF m
    <3> QED BY <1>1, <1>5, <1>6, <3>1
  <2> QED BY <1>2, <1>7, <1>8, <2>1 DEF Taken
<1>10. at + n < size => Under(from, more, at + n)
  <2> SUFFICES ASSUME at + n < size PROVE at + n = from + Len(more) /\ at + n < file.size
    BY DEF Under
  <2> QED BY <1>1, <1>2
<1>11. ASSUME NEW left \in Nat, at + n >= size \/ (bytes # <<>> /\ bytes[n] = HOLE)
       PROVE  Over(from, more, left)
  <2>1. CASE at + n >= size
    <3>1. ~(from + Len(more) < file.size)
      BY <1>1, <1>2, <2>1, SMTT(30)
    <3> QED BY <3>1 DEF Over
  <2>2. CASE bytes # <<>> /\ bytes[n] = HOLE
    <3>1. m + n \in 1..(m + n) /\ ~(m + n <= m) /\ (m + n) - m = n /\ m + n > 0
      BY <1>1, <2>2
    <3>2. more[m + n] = HOLE
      BY <1>2, <2>2, <3>1
    <3> QED BY <1>2, <3>1, <3>2 DEF Over
  <2> QED BY <1>11, <2>1, <2>2
<1> QED BY <1>9, <1>10, <1>11 DEF m, n, more

\* A call does not change the disk.
LEMMA SameFile ==
  ASSUME UNCHANGED file
  PROVE  /\ Taken(call.from, call.got)' <=> Taken(call'.from, call'.got)
         /\ Under(call.from, call.got, call.at)' <=> Under(call'.from, call'.got, call'.at)
         /\ Over(call.from, call.got, call.left)' <=> Over(call'.from, call'.got, call'.left)
BY DEF IndexBad, Entry, Unreached, ZoneOf, Taken, Under, Over, Byte, Unreadable

\* What a call returns: the bytes it has, or an error if it has none.
LEMMA Returned ==
  ASSUME NEW c \in CallRecord, Len(c.got) + c.left = c.size
  PROVE  /\ Returns(c) \in CallRecord /\ Returns(c).done = TRUE
         /\ Returns(c).ret = IF Len(c.got) > 0 THEN Len(c.got) ELSE EIO
         /\ Returns(c).fn = c.fn /\ Returns(c).at = c.at /\ Returns(c).from = c.from
         /\ Returns(c).size = c.size /\ Returns(c).left = c.left /\ Returns(c).got = c.got
<1>1. /\ c.got \in Seq(Int) /\ c.left \in Nat /\ c.size \in Nat
  BY DEF CallRecord
<1>2. Len(c.got) \in Nat
  BY <1>1
<1> DEFINE ret == IF c.size > c.left THEN c.size - c.left ELSE EIO
<1>3. ret = IF Len(c.got) > 0 THEN Len(c.got) ELSE EIO
  BY <1>1, <1>2
<1>4. ret \in Int
  BY <1>2, <1>3 DEF EIO
<1>5. Returns(c) = [c EXCEPT !.done = TRUE, !.ret = ret]
  BY DEF Returns
<1> HIDE DEF ret
<1> QED BY <1>3, <1>4, <1>5 DEF CallRecord

\* The call after a turn.
LEMMA TurnCall ==
  ASSUME call \in CallRecord, Len(call.got) + call.left = call.size,
         NEW bytes \in Seq(Int), Len(bytes) <= call.left
  PROVE  LET n == Len(bytes)
             c == [call EXCEPT !.at = @ + n, !.left = @ - n, !.got = @ \o bytes]
         IN /\ c \in CallRecord /\ Len(c.got) + c.left = c.size
            /\ c.fn = call.fn /\ c.done = call.done /\ c.at = call.at + n
            /\ c.from = call.from /\ c.size = call.size /\ c.left = call.left - n
            /\ c.got = call.got \o bytes
<1> DEFINE n == Len(bytes)
           got == call.got \o bytes
           c == [call EXCEPT !.at = @ + n, !.left = @ - n, !.got = got]
<1>1. call.got \in Seq(Int) /\ call.at \in Nat /\ call.left \in Nat /\ call.size \in Nat
  BY DEF CallRecord
<1>2. got \in Seq(Int) /\ Len(got) = Len(call.got) + n /\ n \in Nat
  BY <1>1, ConcatProperties, LenProperties
<1>3. call.at + n \in Nat /\ call.left - n \in Nat
  BY <1>1, <1>2
<1> HIDE DEF n, got
<1>4. /\ c \in CallRecord
      /\ c.fn = call.fn /\ c.done = call.done /\ c.at = call.at + n
      /\ c.from = call.from /\ c.size = call.size /\ c.left = call.left - n
      /\ c.got = got
  BY <1>2, <1>3 DEF CallRecord
<1>5. Len(c.got) + c.left = c.size
  <2> HIDE DEF c
  <2>1. Len(call.got) \in Nat
    BY <1>1, LenProperties
  <2>2. Len(c.got) = Len(call.got) + n /\ c.left = call.left - n /\ c.size = call.size
    BY <1>2, <1>4
  <2> QED BY <1>1, <1>2, <2>1, <2>2
<1> QED BY <1>4, <1>5 DEF n, got

\* minix_file_read takes the bytes of a turn, and returns or goes on.
LEMMA ReadTurn ==
  ASSUME ReadInv, call.fn = "read", ~call.done, UNCHANGED file,
         NEW bytes \in Seq(Int), Len(bytes) <= call.left, NEW ends \in BOOLEAN,
         LET n == Len(bytes)
             c == [call EXCEPT !.at = @ + n, !.left = @ - n, !.got = @ \o bytes]
         IN call' = IF ends THEN Returns(c) ELSE c,
         call.at >= file.size => bytes = <<>>,
         call.at < file.size => Len(bytes) >= 1 /\ call.at + Len(bytes) <= file.size,
         \A i \in 1..Len(bytes) : bytes[i] = Byte(call.at + i - 1),
         ends => call.at + Len(bytes) >= file.size \/ (bytes # <<>> /\ bytes[Len(bytes)] = HOLE),
         ~ends => call.at + Len(bytes) < file.size
  PROVE  ReadInv'
<1> DEFINE n == Len(bytes)
           c == [call EXCEPT !.at = @ + n, !.left = @ - n, !.got = @ \o bytes]
<1>1. call \in CallRecord /\ Len(call.got) + call.left = call.size /\ file \in Files
  BY DEF ReadInv, CallType
<1>2. /\ c \in CallRecord /\ Len(c.got) + c.left = c.size
      /\ c.fn = "read" /\ c.done = FALSE /\ c.at = call.at + n
      /\ c.from = call.from /\ c.size = call.size /\ c.left = call.left - n
      /\ c.got = call.got \o bytes
  BY <1>1, TurnCall DEF CallRecord
<1>3. call' = IF ends THEN Returns(c) ELSE c
  OBVIOUS
<1> HIDE DEF c
<1>4. /\ call' \in CallRecord /\ Len(call'.got) + call'.left = call'.size
      /\ call'.done = ends /\ call'.at = call.at + n /\ call'.from = call.from
      /\ call'.left \in Nat /\ call'.got = call.got \o bytes
      /\ ends => call'.ret = IF Len(call'.got) > 0 THEN Len(call'.got) ELSE EIO
      /\ ends => call'.ret # BUG
  <2>1. CASE ends
    <3>1. /\ Returns(c) \in CallRecord /\ Returns(c).done = TRUE
          /\ Returns(c).ret = IF Len(c.got) > 0 THEN Len(c.got) ELSE EIO
          /\ Returns(c).at = c.at /\ Returns(c).from = c.from
          /\ Returns(c).size = c.size /\ Returns(c).left = c.left /\ Returns(c).got = c.got
      BY <1>2, Returned
    <3>2. c.left \in Nat /\ call' = Returns(c)
      BY <1>2, <1>3, <2>1 DEF CallRecord
    <3>3. Len(c.got) \in Nat
      BY <1>2, LenProperties DEF CallRecord
    <3>4. /\ call'.got = c.got /\ call'.left = c.left /\ call'.size = c.size
          /\ call'.at = c.at /\ call'.from = c.from /\ call'.done = TRUE
          /\ call'.ret = IF Len(c.got) > 0 THEN Len(c.got) ELSE EIO
      BY <3>1, <3>2
    <3>5. call'.ret # BUG
      BY <3>3, <3>4 DEF EIO, BUG
    <3> HIDE DEF n
    <3> QED BY <1>2, <2>1, <3>1, <3>2, <3>4, <3>5
  <2>2. CASE ~ends
    BY <1>2, <1>3, <2>2 DEF CallRecord
  <2> QED BY <2>1, <2>2
<1>5. /\ Taken(call'.from, call'.got)
      /\ ~call'.done => Under(call'.from, call'.got, call'.at)
      /\ call'.done => Over(call'.from, call'.got, call'.left)
  <2>1. /\ Taken(call.from, call.got) /\ Under(call.from, call.got, call.at)
        /\ \A i \in 1..Len(bytes) : bytes[i] = Byte(call.at + i - 1)
    BY DEF ReadInv
  <2>2. file.size \in Nat /\ call.got \in Seq(Int) /\ call.from \in Nat /\ call.at \in Nat
    BY <1>1, MinixAssumption DEF CallRecord, Layout
  <2>3. /\ Taken(call.from, call.got \o bytes)
        /\ call.at + n < file.size => Under(call.from, call.got \o bytes, call.at + n)
        /\ \A left \in Nat :
             call.at + n >= file.size \/ (bytes # <<>> /\ bytes[n] = HOLE)
             => Over(call.from, call.got \o bytes, left)
    BY <2>1, <2>2, TurnTakes
  <2> QED BY <1>4, <2>3
<1>6. CallType'
  BY <1>1, <1>4 DEF CallType, CallRecord
<1>7. call'.from <= file'.size
  BY <1>4 DEF ReadInv
<1>8. Taken(call.from, call.got)' /\ (~call.done => Under(call.from, call.got, call.at))'
  BY <1>4, <1>5, SameFile
<1>9. (call.done => Over(call.from, call.got, call.left))'
  BY <1>4, <1>5, SameFile
<1> QED BY <1>4, <1>6, <1>7, <1>8, <1>9 DEF ReadInv

\* minix_file_read returns what the turns before have taken.
LEMMA ReadStops ==
  ASSUME ReadInv, call.fn = "read", ~call.done, UNCHANGED file, NEW a \in Nat,
         call' = Returns([call EXCEPT !.at = a]),
         call.left > 0 /\ call.at < file.size
           => Byte(call.at) = HOLE \/ Unreadable(Byte(call.at))
  PROVE  ReadInv'
<1> DEFINE c == [call EXCEPT !.at = a]
<1>1. call \in CallRecord /\ Len(call.got) + call.left = call.size /\ file \in Files
  BY DEF ReadInv, CallType
<1>2. /\ c \in CallRecord /\ c.fn = call.fn /\ c.from = call.from /\ c.size = call.size
      /\ c.left = call.left /\ c.got = call.got
  BY <1>1 DEF CallRecord
<1>3. call' = Returns(c)
  OBVIOUS
<1> HIDE DEF c
<1>4. /\ call' \in CallRecord /\ Len(call'.got) + call'.left = call'.size
      /\ call'.done = TRUE /\ call'.from = call.from /\ call'.left = call.left
      /\ call'.got = call.got
      /\ call'.ret = (IF Len(call'.got) > 0 THEN Len(call'.got) ELSE EIO) /\ call'.ret # BUG
  <2>1. Len(call.got) \in Nat
    BY <1>1, LenProperties DEF CallRecord
  <2>2. Len(c.got) + c.left = c.size
    BY <1>1, <1>2
  <2>3. /\ call' \in CallRecord /\ call'.done = TRUE
        /\ call'.ret = IF Len(c.got) > 0 THEN Len(c.got) ELSE EIO
        /\ call'.from = c.from /\ call'.size = c.size /\ call'.left = c.left
        /\ call'.got = c.got
    BY <1>2, <1>3, <2>2, Returned
  <2>4. call'.ret # BUG
    BY <1>2, <2>1, <2>3 DEF EIO, BUG
  <2> QED BY <1>1, <1>2, <2>3, <2>4
<1>5. Taken(call.from, call.got) /\ Over(call.from, call.got, call.left)
  <2>1. Taken(call.from, call.got) /\ Under(call.from, call.got, call.at)
    BY DEF ReadInv
  <2> QED BY <2>1 DEF Under, Over
<1>6. CallType'
  BY <1>1, <1>4 DEF CallType, CallRecord
<1>7. call'.from <= file'.size
  BY <1>4 DEF ReadInv
<1>8. Taken(call.from, call.got)' /\ (~call.done => Under(call.from, call.got, call.at))'
  BY <1>4, <1>5, SameFile
<1>9. (call.done => Over(call.from, call.got, call.left))'
  BY <1>4, <1>5, SameFile
<1> QED BY <1>4, <1>6, <1>7, <1>8, <1>9 DEF ReadInv

\* BUG_ON of bmap: the turns before have stayed within the file, so the read
\* starts at its end, behind the last block a file can have.
LEMMA ReadBug ==
  ASSUME ReadInv, call.fn = "read", ~call.done, UNCHANGED file,
         call.at \div MINIX_BLOCK_SIZE >= MaxBlocks,
         call' = [call EXCEPT !.done = TRUE, !.ret = BUG]
  PROVE  ReadInv'
<1> DEFINE M == MINIX_BLOCK_SIZE
           at == call.at
<1>1. /\ call \in CallRecord /\ Len(call.got) + call.left = call.size /\ file \in Files
      /\ Layout(file) /\ call.from \in Nat /\ call.got \in Seq(Int) /\ at \in Nat
      /\ file.size \in Nat
  BY MinixAssumption DEF ReadInv, CallType, CallRecord, Layout
<1>2. call.from <= file.size /\ Taken(call.from, call.got) /\ Under(call.from, call.got, at)
  BY DEF ReadInv
<1>3. /\ call' \in CallRecord /\ call'.done = TRUE /\ call'.ret = BUG /\ call'.from = call.from
      /\ call'.size = call.size /\ call'.left = call.left /\ call'.got = call.got
  <2>1. BUG \in Int
    BY DEF BUG
  <2>2. call' = [call EXCEPT !.done = TRUE, !.ret = BUG]
    OBVIOUS
  <2> HIDE DEF at, M
  <2> QED BY <1>1, <2>1, <2>2 DEF CallRecord
<1>4. M \in Nat \ {0} /\ MaxBlocks \in Nat
  BY Sizes
<1> DEFINE most == MaxBlocks * M
<1>5. most \in Nat /\ file.size <= most
  <2> DEFINE x == Len(file.zones) * M
  <2>1. /\ Len(file.zones) \in Nat /\ Len(file.zones) <= MaxBlocks /\ file.size <= x
    BY <1>1, LenProperties DEF Layout
  <2>2. x <= most /\ x \in Nat /\ most \in Nat
    <3>1. Len(file.zones) \in Nat /\ Len(file.zones) <= MaxBlocks
      BY <2>1
    <3> QED BY <1>4, <3>1, TimesOrder
  <2> HIDE DEF x, most
  <2> QED BY <1>1, <2>1, <2>2
<1>6. at >= most
  <2> DEFINE q == at \div M
             y == q * M
  <2>1. q \in Nat /\ at % M \in 0..(M - 1) /\ at = y + (at % M)
    BY <1>1, <1>4, DivMod
  <2>2. MaxBlocks <= q
    OBVIOUS
  <2>3. most <= y /\ y \in Nat
    BY <1>4, <2>1, <2>2, TimesOrder
  <2> HIDE DEF y, q, most, at
  <2> DEFINE o == at % M
  <2>4. o \in 0..(M - 1) /\ at = y + o
    BY <2>1
  <2> HIDE DEF o
  <2> QED BY <1>4, <1>5, <2>3, <2>4
<1> HIDE DEF most
<1>7. call.from = file.size /\ file.size = most
  <2>1. call.got = <<>> /\ at = call.from + Len(call.got)
    <3>1. ~(at < file.size)
      BY <1>1, <1>5, <1>6
    <3> QED BY <1>2, <3>1 DEF Under
  <2>2. Len(call.got) = 0
    BY <2>1
  <2> HIDE DEF at
  <2>3. at = call.from
    BY <1>1, <2>1, <2>2
  <2> QED BY <1>1, <1>2, <1>5, <1>6, <2>3
<1>8. CallType'
  BY <1>1, <1>3 DEF CallType
<1>9. Taken(call.from, call.got)' /\ call'.from <= file'.size
  BY <1>2, <1>3, SameFile
<1> QED BY <1>3, <1>7, <1>8, <1>9 DEF ReadInv, most

\* A turn of minix_file_read, through each of its exits.
LEMMA ReadStep == ReadInv /\ minix_file_read => ReadInv'
<1> SUFFICES ASSUME ReadInv, minix_file_read PROVE ReadInv'
  OBVIOUS
<1> DEFINE at == call.at
           left == call.left
           nr == bmap(at \div MINIX_BLOCK_SIZE)
           off == at % MINIX_BLOCK_SIZE
           chars == Min({MINIX_BLOCK_SIZE - off, left})
           rest == IF at < file.size THEN file.size - at ELSE 0
           remains == Min({chars, rest})
           turn(bytes) == [call EXCEPT !.at = @ + remains, !.left = @ - remains, !.got = @ \o bytes]
<1>1. /\ call.fn = "read" /\ ~call.done /\ UNCHANGED file
      /\ call' = IF left = 0 THEN Returns(call)
                 ELSE IF at \div MINIX_BLOCK_SIZE >= MaxBlocks
                 THEN [call EXCEPT !.done = TRUE, !.ret = BUG]
                 ELSE IF nr # 0 /\ get_minix_block(nr) = -1 THEN Returns(call)
                 ELSE IF nr # 0
                 THEN LET c == turn(Bytes(get_minix_block(nr) + off, remains))
                      IN IF c.at >= file.size THEN Returns(c) ELSE c
                 ELSE IF at + remains < file.size
                 THEN Returns(turn([i \in 1..remains |-> HOLE]))
                 ELSE Returns([call EXCEPT !.at = @ + remains])
  BY DEF minix_file_read
<1>2. /\ file \in Files /\ Layout(file) /\ call \in CallRecord /\ file.size \in Nat
      /\ at \in Nat /\ left \in Nat
  BY <1>1, MinixAssumption DEF ReadInv, CallType, CallRecord, Layout
<1>3. [call EXCEPT !.at = at] = call
  BY <1>2 DEF CallRecord
<1>4. off \in 0..(MINIX_BLOCK_SIZE - 1) /\ MINIX_BLOCK_SIZE \in Nat \ {0}
  BY <1>2, Sizes, DivMod
<1>5. /\ remains \in Nat /\ remains <= left /\ off + remains <= MINIX_BLOCK_SIZE
      /\ at >= file.size => remains = 0
      /\ at < file.size /\ left # 0 => remains >= 1 /\ at + remains <= file.size
  <2> HIDE DEF off, at, left
  <2>1. chars = IF MINIX_BLOCK_SIZE - off <= left THEN MINIX_BLOCK_SIZE - off ELSE left
    BY <1>2, <1>4, MinPair
  <2>2. rest \in Nat /\ chars \in Nat
    BY <1>2, <1>4, <2>1
  <2> HIDE DEF chars, rest
  <2>3. remains = IF chars <= rest THEN chars ELSE rest
    BY <2>2, MinPair
  <2> QED BY <1>2, <1>4, <2>1, <2>2, <2>3 DEF rest
<1>6. CASE left = 0
  BY <1>1, <1>2, <1>3, <1>6, ReadStops
<1>14. CASE left # 0 /\ at \div MINIX_BLOCK_SIZE >= MaxBlocks
  BY <1>1, <1>14, ReadBug
<1> SUFFICES ASSUME left # 0, ~(at \div MINIX_BLOCK_SIZE >= MaxBlocks) PROVE ReadInv'
  BY <1>6, <1>14
<1>7. nr \in Nat
  <2>1. at \div MINIX_BLOCK_SIZE \in Nat
    BY <1>2, Sizes, DivMod
  <2> QED BY <1>2, <2>1, Sizes, Bmap
<1>8. ASSUME NEW n \in Nat, n >= 1, n <= remains, at < file.size
      PROVE  /\ nr = 0 => \A i \in 1..n : Byte(at + i - 1) = HOLE
             /\ nr # 0 => \A i \in 1..n : Byte(at + i - 1) = nr * MINIX_BLOCK_SIZE + off + i - 1
             /\ nr # 0 /\ get_minix_block(nr) = -1 => Unreadable(Byte(at))
  <2>1. at + n <= file.size /\ off + n <= MINIX_BLOCK_SIZE
    <3> HIDE DEF at, left, off, remains
    <3> QED BY <1>2, <1>4, <1>5, <1>8
  <2> QED BY <1>2, <1>8, <2>1, Run
<1>9. /\ nr * MINIX_BLOCK_SIZE \in Nat
      /\ get_minix_block(nr) # -1 => get_minix_block(nr) = nr * MINIX_BLOCK_SIZE
  BY <1>4, <1>7, MinixBlock
<1> HIDE DEF at, left, nr, off, remains
<1>10. CASE nr # 0 /\ get_minix_block(nr) = -1
  <2>1. call' = Returns([call EXCEPT !.at = at])
    BY <1>1, <1>3, <1>10
  <2>2. at < file.size => Unreadable(Byte(at))
    BY <1>5, <1>8, <1>10
  <2> QED BY <1>1, <1>2, <2>1, <2>2, ReadStops DEF at
<1>11. CASE nr # 0 /\ get_minix_block(nr) # -1
  <2> DEFINE bytes == Bytes(nr * MINIX_BLOCK_SIZE + off, remains)
             c == turn(bytes)
             ends == at + remains >= file.size
  <2>1. nr * MINIX_BLOCK_SIZE + off \in Int
    BY <1>4, <1>9
  <2>2. /\ bytes \in Seq(Int) /\ Len(bytes) = remains
        /\ \A i \in 1..remains : bytes[i] = nr * MINIX_BLOCK_SIZE + off + i - 1
    BY <1>5, <2>1, BytesAre
  <2>3. call' = IF c.at >= file.size THEN Returns(c) ELSE c
    BY <1>1, <1>9, <1>11
  <2>4. c.at = at + remains
    BY <1>2 DEF CallRecord, at
  <2> HIDE DEF bytes
  <2>5. call' = IF ends THEN Returns(c) ELSE c
    BY <2>3, <2>4
  <2>6. c = [call EXCEPT !.at = @ + Len(bytes), !.left = @ - Len(bytes), !.got = @ \o bytes]
    BY <2>2
  <2> HIDE DEF c
  <2>7. at >= file.size => bytes = <<>>
    BY <1>5, <2>2, EmptySeq
  <2>8. \A i \in 1..Len(bytes) : bytes[i] = Byte(at + i - 1)
    <3> SUFFICES ASSUME NEW i \in 1..remains PROVE bytes[i] = Byte(at + i - 1)
      BY <2>2
    <3>1. remains >= 1 /\ at < file.size
      BY <1>2, <1>5
    <3>2. \A j \in 1..remains : Byte(at + j - 1) = nr * MINIX_BLOCK_SIZE + off + j - 1
      BY <1>5, <1>8, <1>11, <3>1
    <3> QED BY <2>2, <3>2
  <2>9. ~ends => at + remains < file.size
    BY <1>2, <1>5
  <2>10. ends \in BOOLEAN
    OBVIOUS
  <2> HIDE DEF ends
  <2> QED BY <1>1, <1>5, <2>2, <2>5, <2>6, <2>7, <2>8, <2>9, <2>10, ReadTurn DEF at, left, ends
<1>12. CASE nr = 0 /\ at + remains < file.size
  <2> DEFINE bytes == [i \in 1..remains |-> HOLE]
             c == turn(bytes)
  <2>1. /\ bytes \in Seq(Int) /\ Len(bytes) = remains
        /\ \A i \in 1..remains : bytes[i] = HOLE
    BY <1>5, HolesAre
  <2>2. at < file.size /\ remains >= 1
    BY <1>2, <1>5, <1>12
  <2>3. call' = Returns(c)
    BY <1>1, <1>12
  <2> HIDE DEF bytes
  <2>4. c = [call EXCEPT !.at = @ + Len(bytes), !.left = @ - Len(bytes), !.got = @ \o bytes]
    BY <2>1
  <2> HIDE DEF c
  <2> DEFINE ends == TRUE
  <2>5. call' = (IF ends THEN Returns(c) ELSE c) /\ ends \in BOOLEAN /\ ends
    BY <2>3
  <2> HIDE DEF ends
  <2>6. \A i \in 1..Len(bytes) : bytes[i] = Byte(at + i - 1)
    BY <1>5, <1>8, <1>12, <2>1, <2>2
  <2>7. bytes # <<>> /\ bytes[Len(bytes)] = HOLE
    BY <1>5, <2>1, <2>2, EmptySeq
  <2>8. at >= file.size => bytes = <<>>
    BY <1>2, <2>2
  <2> QED BY <1>1, <1>5, <2>1, <2>4, <2>5, <2>6, <2>7, <2>8, ReadTurn DEF at, left
<1>13. CASE nr = 0 /\ ~(at + remains < file.size)
  <2>1. call' = Returns([call EXCEPT !.at = at + remains]) /\ at + remains \in Nat
    BY <1>1, <1>2, <1>5, <1>13 DEF at
  <2>2. at < file.size => Byte(at) = HOLE
    <3> SUFFICES ASSUME at < file.size PROVE Byte(at) = HOLE
      OBVIOUS
    <3>1. \A i \in 1..1 : Byte(at + i - 1) = HOLE
      BY <1>5, <1>8, <1>13
    <3>2. at + 1 - 1 = at
      BY <1>2
    <3> QED BY <3>1, <3>2
  <2> QED BY <1>1, <2>1, <2>2, ReadStops DEF at
<1> QED BY <1>10, <1>11, <1>12, <1>13

\* What ReadInv says of a read that is over is what is asked of it.
LEMMA ReadOver == ReadInv => FileRead
<1> SUFFICES ASSUME ReadInv, call.fn = "read", call.done
             PROVE  LET n == Len(call.got)
                    IN /\ call.got = SubSeq(Asked, 1, n)
                       /\ call.ret # BUG =>
                            /\ call.ret = IF n > 0 THEN n ELSE EIO
                            /\ n < Len(Asked) =>
                                 \/ Asked[n + 1] = HOLE \/ Unreadable(Asked[n + 1])
                                 \/ n > 0 /\ Asked[n] = HOLE
  BY DEF FileRead, ReadInv
<1> DEFINE from == call.from
           got == call.got
           n == Len(got)
           size == file.size
           hi == Min({from + call.size, size})
<1>1. /\ Layout(file) /\ call \in CallRecord /\ n + call.left = call.size /\ size \in Nat
      /\ from \in Nat /\ got \in Seq(Int) /\ call.left \in Nat /\ call.size \in Nat
  BY MinixAssumption DEF ReadInv, CallType, CallRecord, Layout
<1>2. n \in Nat /\ (got # <<>> => n > 0) /\ (n > 0 => got # <<>>)
  BY <1>1, LenProperties, EmptySeq
<1>3. Taken(from, got) /\ (call.ret # BUG => Over(from, got, call.left))
  BY DEF ReadInv
<1>4. call.ret # BUG => call.ret = IF n > 0 THEN n ELSE EIO
  BY DEF ReadInv
<1>5. hi = IF from + call.size <= size THEN from + call.size ELSE size
  <2>1. from + call.size \in Int /\ size \in Int
    BY <1>1
  <2> QED BY <2>1, MinPair
<1>6. hi \in Nat /\ hi <= size /\ hi <= from + call.size
  BY <1>1, <1>5
<1>7. \A i \in 1..size : Content[i] = Byte(i - 1) /\ Byte(i - 1) \in Int
  <2> TAKE i \in 1..size
  <2>1. i - 1 \in Nat /\ i - 1 < size
    BY <1>1
  <2> QED BY <1>1, <2>1, Within DEF Content
<1>8. Asked = SubSeq(Content, from + 1, hi)
  BY DEF Asked
<1> HIDE DEF hi, size, from, got, n
<1>9. /\ Asked \in Seq(Int) /\ Len(Asked) = IF from + 1 <= hi THEN hi - (from + 1) + 1 ELSE 0
      /\ \A i \in 1..(hi - (from + 1) + 1) : Asked[i] = Content[(from + 1) + i - 1]
  <2>1. \A i \in (from + 1)..hi : Content[i] \in Int
    BY <1>1, <1>6, <1>7
  <2>2. from + 1 \in Int /\ hi \in Int
    BY <1>1, <1>6
  <2> QED BY <1>8, <2>1, <2>2, SubSeqProperties
<1>10. \A i \in 1..Len(Asked) : Asked[i] = Byte(from + i - 1)
  <2> SUFFICES ASSUME NEW i \in Nat, i >= 1, i <= Len(Asked) PROVE Asked[i] = Byte(from + i - 1)
    BY <1>9, LenProperties
  <2>1. /\ i \in 1..(hi - (from + 1) + 1) /\ from + i \in 1..size
        /\ (from + 1) + i - 1 = from + i /\ (from + i) - 1 = from + i - 1
    BY <1>1, <1>6, <1>9
  <2>2. Asked[i] = Content[from + i]
    BY <1>9, <2>1
  <2>3. Content[from + i] = Byte((from + i) - 1)
    BY <1>7, <2>1
  <2> QED BY <2>1, <2>2, <2>3
<1>11. n <= Len(Asked)
  <2>1. n > 0 => from + n <= size
    BY <1>2, <1>3 DEF Taken, n, size
  <2>2. n <= call.size
    BY <1>1, <1>2
  <2>3. CASE n = 0
    BY <1>2, <1>9, <2>3, LenProperties
  <2>4. CASE n > 0
    <3>1. from + n <= hi
      BY <1>1, <1>2, <1>5, <2>1, <2>2, <2>4
    <3> QED BY <1>1, <1>2, <1>6, <1>9, <2>4, <3>1
  <2> QED BY <1>2, <2>3, <2>4
<1>12. \A i \in 1..n : got[i] = Asked[i]
  <2> TAKE i \in 1..n
  <2>1. i \in 1..Len(Asked)
    BY <1>2, <1>9, <1>11, LenProperties
  <2> QED BY <1>3, <1>10, <2>1 DEF Taken, n
<1>13. got = SubSeq(Asked, 1, n)
  <2>1. \A i \in 1..n : Asked[i] \in Int
    <3> TAKE i \in 1..n
    <3>1. i \in 1..Len(Asked)
      BY <1>2, <1>9, <1>11, LenProperties
    <3> QED BY <1>9, <3>1, ElementOfSeq
  <2>2. 1 \in Int /\ n \in Int
    BY <1>2
  <2>3. /\ SubSeq(Asked, 1, n) \in Seq(Int)
        /\ Len(SubSeq(Asked, 1, n)) = IF 1 <= n THEN n - 1 + 1 ELSE 0
        /\ \A i \in 1..(n - 1 + 1) : SubSeq(Asked, 1, n)[i] = Asked[1 + i - 1]
    BY <2>1, <2>2, SubSeqProperties
  <2> DEFINE sub == SubSeq(Asked, 1, n)
  <2>4. sub \in Seq(Int) /\ Len(sub) = n /\ n - 1 + 1 = n
    BY <1>2, <2>3
  <2>5. \A i \in 1..n : sub[i] = got[i]
    <3> TAKE i \in 1..n
    <3>1. 1 + i - 1 = i /\ i \in 1..(n - 1 + 1)
      BY <1>2
    <3> QED BY <1>12, <2>3, <3>1
  <2> HIDE DEF sub
  <2> QED BY <1>1, <2>4, <2>5, SeqEqual DEF n, sub
<1>14. ASSUME n < Len(Asked), call.ret # BUG
       PROVE  \/ Asked[n + 1] = HOLE \/ Unreadable(Asked[n + 1])
              \/ n > 0 /\ Asked[n] = HOLE
  <2>1. from + n < size /\ call.left > 0
    BY <1>1, <1>2, <1>6, <1>9, <1>14, SMTT(30)
  <2>2. \/ Byte(from + n) = HOLE \/ Unreadable(Byte(from + n))
        \/ n > 0 /\ got[n] = HOLE
    BY <1>3, <1>14, <2>1 DEF Over, n, size
  <2>3. Asked[n + 1] = Byte(from + n)
    <3>1. n + 1 \in 1..Len(Asked) /\ from + (n + 1) - 1 = from + n
      BY <1>1, <1>2, <1>9, <1>14, LenProperties
    <3> QED BY <1>10, <3>1
  <2>4. n > 0 => Asked[n] = got[n]
    BY <1>2, <1>12
  <2> QED BY <2>2, <2>3, <2>4
<1> QED BY <1>4, <1>13, <1>14 DEF n, got
-----------------------------------------------------------------------------
\* blkdev_read so far: the first turn ends with the block or before it, and
\* the others take whole blocks.
Exact(from, i) == from % BLOCK_SIZE = 0 \/ (from % BLOCK_SIZE) + i <= BLOCK_SIZE
Whole(m) == \E q \in Nat : q >= 1 /\ m = q * BLOCK_SIZE
DeviceInv ==
  call.fn = "blkdev" =>
    /\ CallType
    /\ \A i \in 1..Len(call.got) : Exact(call.from, i) => call.got[i] = call.from + i - 1
    /\ ~call.done => /\ call.at = call.from + Len(call.got)
                     /\ call.left > 0 => call.got = <<>> \/ Whole(Len(call.got))
    /\ call.done /\ call.left > 0 => (call.from + Len(call.got)) \div BLOCK_SIZE \in file.bad

\* A turn of blkdev_read: the bytes in the first block are right, and those
\* behind it are when the read starts with a block.
LEMMA DeviceStep == DeviceInv /\ blkdev_read => DeviceInv'
<1> SUFFICES ASSUME DeviceInv, blkdev_read PROVE DeviceInv'
  OBVIOUS
<1> DEFINE at == call.at
           from == call.from
           left == call.left
           got == call.got
           m == Len(got)
           block == at \div BLOCK_SIZE
           offset == IF got = <<>> THEN from % BLOCK_SIZE ELSE 0
           chars == Min({left, BLOCK_SIZE})
           bytes == Memory(block, offset, chars)
           c == [call EXCEPT !.at = @ + chars, !.left = @ - chars, !.got = @ \o bytes]
<1>1. /\ call.fn = "blkdev" /\ ~call.done /\ UNCHANGED file
      /\ call' = IF left = 0 THEN [call EXCEPT !.done = TRUE, !.ret = call.size]
                 ELSE IF ~bread(block) THEN Returns(call) ELSE c
  BY DEF blkdev_read
<1>2. /\ file \in Files /\ call \in CallRecord /\ m + left = call.size
      /\ from \in Nat /\ at \in Nat /\ left \in Nat /\ got \in Seq(Int)
      /\ call.size \in Nat
  BY <1>1 DEF DeviceInv, CallType, CallRecord
<1>3. m \in Nat /\ (got = <<>> <=> m = 0)
  BY <1>2, LenProperties, EmptySeq
<1>4. /\ \A i \in 1..m : Exact(from, i) => got[i] = from + i - 1
      /\ at = from + m
      /\ left > 0 => got = <<>> \/ Whole(m)
  BY <1>1 DEF DeviceInv
<1>6. CASE left = 0
  <2>1. /\ call' \in CallRecord /\ call'.done = TRUE /\ call'.from = from
        /\ call'.size = call.size /\ call'.left = 0 /\ call'.got = got
    <3>1. call' = [call EXCEPT !.done = TRUE, !.ret = call.size] /\ call.left = 0
      BY <1>1, <1>6, Zenon
    <3>2. call.size \in Int
      BY <1>2
    <3> QED BY <1>2, <3>1, <3>2 DEF CallRecord
  <2>2. CallType'
    BY <1>1, <1>2, <1>6, <2>1 DEF CallType
  <2> QED BY <1>4, <2>1, <2>2 DEF DeviceInv, Exact
<1>7. CASE left # 0 /\ ~bread(block)
  <2>1. call' = Returns(call)
    BY <1>1, <1>7
  <2>2. /\ call' \in CallRecord /\ call'.done = TRUE /\ call'.from = from
        /\ call'.size = call.size /\ call'.left = left /\ call'.got = got
    BY <1>2, <2>1, Returned
  <2>3. CallType'
    BY <1>1, <1>2, <2>2 DEF CallType
  <2>4. (from + m) \div BLOCK_SIZE \in file.bad
    BY <1>4, <1>7 DEF bread
  <2> QED BY <1>1, <1>4, <2>2, <2>3, <2>4 DEF DeviceInv, Exact
<1>8. CASE left # 0 /\ bread(block)
  <2> DEFINE B == BLOCK_SIZE
  <2>1. call' = c
    BY <1>1, <1>8
  <2>2. /\ B \in Nat \ {0} /\ block \in Nat /\ at % B \in 0..(B - 1)
        /\ at = block * B + (at % B) /\ from % B \in 0..(B - 1)
    BY <1>2, Sizes, DivMod
  <2>3. offset \in Nat /\ block * B \in Nat
    <3>1. offset = from % B \/ offset = 0
      OBVIOUS
    <3>2. from % B \in Nat /\ 0 \in Nat
      BY <2>2
    <3>3. offset \in Nat
      BY <3>1, <3>2, Zenon
    <3>4. block \in Nat /\ B \in Nat
      BY <2>2
    <3> HIDE DEF B, block
    <3> QED BY <3>3, <3>4
  <2>4. chars = IF left <= B THEN left ELSE B
    <3>1. left \in Nat
      BY <1>2
    <3>2. BLOCK_SIZE \in Nat
      BY Sizes
    <3> HIDE DEF left
    <3>3. left \in Int /\ BLOCK_SIZE \in Int
      BY <3>1, <3>2
    <3>4. chars = IF left <= BLOCK_SIZE THEN left ELSE BLOCK_SIZE
      BY <3>3, MinPair
    <3> QED BY <3>4
  <2>5. chars \in Nat /\ chars <= left /\ chars <= B /\ chars >= 1
    <3> HIDE DEF B, chars, left
    <3> QED BY <1>2, <1>8, <2>2, <2>4
  <2>6. /\ bytes \in Seq(Int) /\ Len(bytes) = chars
        /\ \A i \in 1..chars : offset + i <= B => bytes[i] = block * B + offset + i - 1
    <3> HIDE DEF block, offset, chars
    <3> QED BY <2>2, <2>3, <2>5, MemoryIs
  <2>7. got = <<>> \/ Whole(m)
    BY <1>2, <1>4, <1>8
  <2>8. ASSUME NEW i \in 1..chars, Exact(from, m + i)
        PROVE  offset + i <= B /\ block * B + offset = at
    <3>1. CASE got = <<>>
      <4>1. m = 0 /\ at = from /\ offset = at % B
        BY <1>2, <1>3, <1>4, <3>1
      <4>2. offset + i <= B
        <5>1. from % B = 0 \/ (from % B) + (m + i) <= B
          BY <2>8 DEF Exact
        <5> HIDE DEF B, m, at, offset, chars
        <5> DEFINE o == at % B
        <5>2. (o = 0 \/ o + (0 + i) <= B) /\ offset = o /\ o \in 0..(B - 1)
          BY <2>2, <4>1, <5>1
        <5> HIDE DEF o
        <5> QED BY <2>2, <2>5, <5>2
      <4> QED BY <2>2, <4>1, <4>2
    <3>2. CASE got # <<>>
      <4>1. PICK q \in Nat : q >= 1 /\ m = q * B
        BY <2>7, <3>2 DEF Whole
      <4>2. 1 * B <= m
        BY <2>2, <4>1, TimesOrder
      <4> DEFINE o == from % B
                 p == from \div B
      <4>3. o = 0 /\ p \in Nat /\ from = p * B
        <5>1. o = 0 \/ o + (m + i) <= B
          BY <2>8 DEF Exact
        <5>2. o \in 0..(B - 1) /\ p \in Nat /\ from = p * B + o
          BY <1>2, <2>2, DivMod
        <5>3. p * B \in Nat
          BY <2>2, <5>2, TimesOrder
        <5> HIDE DEF B, o, p, m, chars, from
        <5>4. o = 0
          BY <1>3, <2>2, <2>5, <4>2, <5>1, <5>2
        <5> QED BY <5>2, <5>3, <5>4
      <4> HIDE DEF o, p
      <4>4. at = (p + q) * B /\ p + q \in Nat
        BY <1>4, <2>2, <4>1, <4>3
      <4>5. at \div B = p + q
        <5>1. 0 \in 0..(B - 1) /\ (p + q) * B + 0 = (p + q) * B
          BY <2>2, <4>4
        <5>2. ((p + q) * B + 0) \div B = p + q
          BY <2>2, <4>4, <5>1, DivUnique
        <5> QED BY <4>4, <5>1, <5>2
      <4>6. offset = 0 /\ block * B = at
        BY <3>2, <4>4, <4>5
      <4>7. i <= B /\ at + 0 = at /\ 0 + i = i
        <5> HIDE DEF B, chars, at
        <5> QED BY <1>2, <2>2, <2>5
      <4> QED BY <4>6, <4>7
    <3> QED BY <3>1, <3>2
  <2>9. ASSUME left - chars > 0 PROVE Whole(m + chars)
    <3>1. chars = B
      <4> HIDE DEF B, chars, left
      <4> QED BY <1>2, <2>2, <2>4, <2>9
    <3>2. CASE got = <<>>
      <4>1. m + chars = 1 * B
        BY <1>3, <2>2, <3>1, <3>2
      <4> QED BY <4>1 DEF Whole
    <3>3. CASE got # <<>>
      <4>1. PICK q \in Nat : q >= 1 /\ m = q * B
        BY <2>7, <3>3 DEF Whole
      <4>2. m + chars = (q + 1) * B /\ q + 1 \in Nat /\ q + 1 >= 1
        BY <2>2, <3>1, <4>1
      <4> QED BY <4>2 DEF Whole
    <3> QED BY <3>2, <3>3
  <2> HIDE DEF at, from, left, got, m, block, offset, chars, bytes, B
  <2>10. /\ c \in CallRecord /\ Len(c.got) + c.left = c.size
         /\ c.fn = call.fn /\ c.done = call.done /\ c.at = at + chars
         /\ c.from = from /\ c.size = call.size /\ c.left = left - chars
         /\ c.got = got \o bytes
    <3> DEFINE n == Len(bytes)
               e == [call EXCEPT !.at = @ + n, !.left = @ - n, !.got = @ \o bytes]
    <3>1. e = c
      BY <2>6
    <3>2. /\ e \in CallRecord /\ Len(e.got) + e.left = e.size
          /\ e.fn = call.fn /\ e.done = call.done /\ e.at = call.at + n
          /\ e.from = call.from /\ e.size = call.size /\ e.left = call.left - n
          /\ e.got = call.got \o bytes
      BY <1>2, <2>5, <2>6, TurnCall DEF m, got, left
    <3> HIDE DEF e, c
    <3> QED BY <2>6, <3>1, <3>2 DEF at, from, left, got
  <2> HIDE DEF c
  <2>11. /\ got \o bytes \in Seq(Int) /\ Len(got \o bytes) = m + chars
         /\ \A i \in 1..(m + chars) :
              (got \o bytes)[i] = IF i <= m THEN got[i] ELSE bytes[i - m]
    BY <1>2, <2>6, ConcatProperties DEF m
  <2>12. CallType'
    BY <1>1, <1>2, <2>1, <2>10 DEF CallType
  <2>13. ASSUME NEW i \in 1..(m + chars), Exact(from, i)
         PROVE  (got \o bytes)[i] = from + i - 1
    <3>1. CASE i <= m
      <4>1. i \in 1..m
        BY <1>3, <2>5, <3>1
      <4> QED BY <1>4, <2>11, <2>13, <3>1, <4>1
    <3>2. CASE ~(i <= m)
      <4>1. i - m \in 1..chars /\ m + (i - m) = i
        BY <1>3, <2>5, <3>2
      <4>2. offset + (i - m) <= B /\ block * B + offset = at
        BY <2>8, <2>13, <4>1
      <4>3. bytes[i - m] = block * B + offset + (i - m) - 1
        BY <2>6, <4>1, <4>2
      <4>4. block * B + offset + (i - m) - 1 = at + (i - m) - 1
        BY <4>2
      <4>5. at + (i - m) - 1 = from + i - 1
        BY <1>2, <1>3, <1>4, <2>5
      <4> QED BY <2>11, <3>2, <4>3, <4>4, <4>5
    <3> QED BY <3>1, <3>2
  <2>14. at + chars = from + (m + chars)
    BY <1>2, <1>3, <1>4, <2>5
  <2>15. /\ call'.fn = "blkdev" /\ call'.done = FALSE /\ call'.at = at + chars
         /\ call'.from = from /\ call'.left = left - chars
         /\ call'.got = got \o bytes /\ Len(call'.got) = m + chars
    BY <1>1, <1>2, <2>1, <2>10, <2>11 DEF CallRecord
  <2> QED BY <2>9, <2>12, <2>13, <2>14, <2>15 DEF DeviceInv, Exact, Whole
<1> QED BY <1>6, <1>7, <1>8

\* What DeviceInv says of a read that is over is what is asked of it.
LEMMA DeviceOver == DeviceInv => DeviceRead
<1> SUFFICES ASSUME DeviceInv, call.fn = "blkdev", call.done
             PROVE  /\ \A i \in 1..Len(call.got) :
                         Exact(call.from, i) => call.got[i] = call.from + i - 1
                    /\ Len(call.got) < call.size => Unreadable(call.from + Len(call.got))
  BY DEF DeviceRead, Exact
<1>1. /\ Len(call.got) + call.left = call.size /\ call.from \in Nat /\ call.left \in Nat
      /\ call.got \in Seq(Int) /\ call.size \in Nat
  BY DEF DeviceInv, CallType, CallRecord
<1>2. Len(call.got) \in Nat
  BY <1>1, LenProperties
<1>3. /\ \A i \in 1..Len(call.got) : Exact(call.from, i) => call.got[i] = call.from + i - 1
      /\ call.left > 0 => (call.from + Len(call.got)) \div BLOCK_SIZE \in file.bad
  BY DEF DeviceInv
<1>4. Len(call.got) < call.size => Unreadable(call.from + Len(call.got))
  BY <1>1, <1>2, <1>3 DEF Unreadable, HOLE
<1> QED BY <1>3, <1>4
-----------------------------------------------------------------------------
\* minix_lookup so far: as long as the search has not run past a block, the
\* entry it looks at is number i of the directory, and none before it matches.
Hit(x) == file.entries[x].inr # 0 /\ file.entries[x].name = call.name
SearchInv ==
  call.fn = "lookup" =>
    /\ file \in Directories
    /\ call \in [fn : {"lookup"}, done : BOOLEAN, name : Names, i : Nat, k : Nat, j : Nat,
                 astray : BOOLEAN, ret : Nat]
    /\ ~call.astray /\ ~call.done =>
         /\ call.i <= Len(file.entries) /\ call.ret = 0
         /\ call.k * DENTRIES_PER_BLOCK + call.j = call.i /\ call.j <= DENTRIES_PER_BLOCK
         /\ \A x \in 1..call.i : ~Hit(x)
    /\ ~call.astray /\ call.done => call.ret = Found

\* The first entry that matches is the one to find.
LEMMA FoundIs ==
  ASSUME file.entries \in Seq([inr : Nat, name : Names])
  PROVE  /\ (\A x \in 1..Len(file.entries) : ~Hit(x)) => Found = 0
         /\ \A x \in 1..Len(file.entries) :
              Hit(x) /\ (\A y \in 1..(x - 1) : ~Hit(y)) => Found = file.entries[x].inr
<1> DEFINE hits == {x \in DOMAIN file.entries : file.entries[x].inr # 0
                                                  /\ file.entries[x].name = call.name}
<1>1. DOMAIN file.entries = 1..Len(file.entries) /\ Len(file.entries) \in Nat
  BY LenProperties
<1>2. hits = {x \in 1..Len(file.entries) : Hit(x)}
  BY <1>1 DEF Hit
<1>3. Found = IF hits = {} THEN 0 ELSE file.entries[Min(hits)].inr
  BY DEF Found
<1> HIDE DEF hits
<1>4. (\A x \in 1..Len(file.entries) : ~Hit(x)) => Found = 0
  BY <1>2, <1>3
<1>5. ASSUME NEW x \in 1..Len(file.entries), Hit(x), \A y \in 1..(x - 1) : ~Hit(y)
      PROVE  Found = file.entries[x].inr
  <2>1. x \in hits
    BY <1>2, <1>5
  <2>2. \A y \in hits : x <= y
    <3> SUFFICES ASSUME NEW y \in 1..Len(file.entries), Hit(y), ~(x <= y) PROVE FALSE
      BY <1>2
    <3>1. y \in 1..(x - 1)
      BY <1>1
    <3> QED BY <1>5, <3>1
  <2>3. \A y \in hits : y \in Int
    BY <1>1, <1>2
  <2>4. Min(hits) \in hits /\ \A y \in hits : Min(hits) <= y
    <3> HIDE DEF Hit
    <3> QED BY <2>1, <2>2 DEF Min
  <2>5. Min(hits) = x
    <3> DEFINE m == Min(hits)
    <3>1. m \in Int /\ x \in Int /\ x <= m /\ m <= x
      BY <2>1, <2>2, <2>3, <2>4
    <3> HIDE DEF m
    <3>2. m = x
      BY <3>1
    <3> QED BY <3>2 DEF m
  <2> QED BY <1>3, <2>1, <2>5
<1> QED BY <1>4, <1>5

\* An entry of the search: the one of the next block is number i, because the
\* block was numbered by the entries seen.
LEMMA SearchStep == SearchInv /\ minix_lookup => SearchInv'
<1> SUFFICES ASSUME SearchInv, minix_lookup PROVE SearchInv'
  OBVIOUS
<1> DEFINE D == DENTRIES_PER_BLOCK
           i == call.i
           len == Len(file.entries)
           beyond == call.j = D
<1>1. PICK inr \in {0, 1} :
        LET k == IF beyond /\ inr # 0 THEN i \div D ELSE call.k
            j == IF beyond /\ inr # 0 THEN 0 ELSE call.j
            d == IF beyond /\ inr = 0 THEN [inr |-> 0, name |-> ""]
                 ELSE file.entries[k * D + j + 1]
        IN call' = IF i = len \/ call.astray THEN [call EXCEPT !.done = TRUE]
                   ELSE IF d.inr # 0 /\ d.name = call.name
                   THEN [call EXCEPT !.done = TRUE, !.ret = d.inr]
                   ELSE [call EXCEPT !.i = @ + 1, !.k = k, !.j = j + 1,
                                     !.astray = beyond /\ inr = 0]
  BY DEF minix_lookup
<1> DEFINE k == IF beyond /\ inr # 0 THEN i \div D ELSE call.k
           j == IF beyond /\ inr # 0 THEN 0 ELSE call.j
           fake == beyond /\ inr = 0
           d == IF fake THEN [inr |-> 0, name |-> ""] ELSE file.entries[k * D + j + 1]
           Calls == [fn : {"lookup"}, done : BOOLEAN, name : Names, i : Nat, k : Nat, j : Nat,
                     astray : BOOLEAN, ret : Nat]
<1>2. /\ call.fn = "lookup" /\ ~call.done /\ UNCHANGED file
      /\ file \in Directories /\ call \in Calls
  BY DEF minix_lookup, SearchInv
<1>3. /\ file.entries \in Seq([inr : Nat, name : Names]) /\ len \in Nat
      /\ D \in Nat \ {0} /\ i \in Nat /\ call.k \in Nat /\ call.j \in Nat
  BY <1>2, MinixAssumption, Sizes, LenProperties
<1>4. k \in Nat /\ j \in Nat
  BY <1>3, DivMod
<1>5. ~call.astray =>
        /\ i <= len /\ call.ret = 0 /\ call.k * D + call.j = i /\ call.j <= D
        /\ \A x \in 1..i : ~Hit(x)
  BY <1>2 DEF SearchInv
<1>6. ASSUME call'.name = call.name
      PROVE  /\ Found' = Found /\ \A x \in 1..len : Hit(x)' <=> Hit(x)
  BY <1>2, <1>6 DEF Found, Hit
<1>7. CASE i = len \/ call.astray
  <2>1. call' = [call EXCEPT !.done = TRUE]
    BY <1>1, <1>7
  <2>2. /\ call' \in Calls /\ call'.done = TRUE /\ call'.name = call.name
        /\ call'.astray = call.astray /\ call'.ret = call.ret
    BY <1>2, <2>1
  <2>3. ~call.astray => call.ret = Found
    BY <1>3, <1>5, <1>7, FoundIs
  <2> QED BY <1>2, <1>6, <2>2, <2>3 DEF SearchInv
<1>8. CASE ~(i = len \/ call.astray)
  <2>1. i + 1 \in 1..len /\ i < len
    BY <1>3, <1>5, <1>8, SMTT(30)
  <2>2. ~fake => k * D + j = i /\ j + 1 <= D
    <3>1. CASE beyond /\ inr # 0
      <4>1. i = (call.k + 1) * D /\ call.k + 1 \in Nat
        BY <1>3, <1>5, <1>8, <3>1
      <4>2. 0 \in 0..(D - 1) /\ (call.k + 1) * D + 0 = (call.k + 1) * D
        BY <1>3, <4>1
      <4>3. ((call.k + 1) * D + 0) \div D = call.k + 1
        BY <1>3, <4>1, <4>2, DivUnique
      <4>4. k = call.k + 1 /\ j = 0
        BY <3>1, <4>1, <4>2, <4>3
      <4> QED BY <1>3, <4>1, <4>2, <4>4
    <3>2. CASE ~beyond
      BY <1>3, <1>5, <1>8, <3>2
    <3> QED BY <1>1, <3>1, <3>2
  <2>3. ~fake => d = file.entries[i + 1]
    BY <2>2
  <2>4. d.inr \in Nat
    <3>1. file.entries[i + 1] \in [inr : Nat, name : Names]
      BY <1>3, <2>1, ElementOfSeq
    <3>2. file.entries[i + 1].inr \in Nat
      BY <3>1
    <3> QED BY <2>3, <3>2
  <2>5. fake => d.inr = 0
    OBVIOUS
  <2>6. d.inr # 0 /\ d.name = call.name <=> ~fake /\ Hit(i + 1)
    BY <2>3, <2>5 DEF Hit
  <2>7. call' = IF d.inr # 0 /\ d.name = call.name
                THEN [call EXCEPT !.done = TRUE, !.ret = d.inr]
                ELSE [call EXCEPT !.i = @ + 1, !.k = k, !.j = j + 1, !.astray = fake]
    BY <1>1, <1>8
  <2>8. fake \in BOOLEAN
    OBVIOUS
  <2> HIDE DEF d, k, j, fake
  <2>9. CASE d.inr # 0 /\ d.name = call.name
    <3>1. /\ call' \in Calls /\ call'.done = TRUE /\ call'.name = call.name
          /\ call'.astray = call.astray /\ call'.ret = d.inr
      BY <1>2, <2>4, <2>7, <2>9
    <3>2. Found = d.inr
      <4>1. Hit(i + 1) /\ d = file.entries[i + 1] /\ (i + 1) - 1 = i
        BY <1>3, <2>3, <2>6, <2>9
      <4>2. \A y \in 1..((i + 1) - 1) : ~Hit(y)
        BY <1>5, <1>8, <4>1
      <4> QED BY <1>3, <2>1, <4>1, <4>2, FoundIs
    <3> QED BY <1>2, <1>6, <3>1, <3>2 DEF SearchInv
  <2>10. CASE ~(d.inr # 0 /\ d.name = call.name)
    <3>1. /\ call' \in Calls /\ call'.done = FALSE /\ call'.name = call.name
          /\ call'.astray = fake /\ call'.ret = call.ret
          /\ call'.i = i + 1 /\ call'.k = k /\ call'.j = j + 1
      <4>1. i + 1 \in Nat /\ j + 1 \in Nat
        BY <1>3, <1>4
      <4>2. call' = [call EXCEPT !.i = i + 1, !.k = k, !.j = j + 1, !.astray = fake]
        BY <2>7, <2>10
      <4> QED BY <1>2, <1>4, <2>8, <4>1, <4>2
    <3>2. ASSUME ~fake PROVE k * D + (j + 1) = i + 1 /\ j + 1 <= D
      <4>1. k * D \in Nat
        BY <1>3, <1>4, TimesOrder
      <4> QED BY <1>3, <1>4, <2>2, <3>2, <4>1
    <3>3. ASSUME ~fake, NEW x \in 1..(i + 1) PROVE ~Hit(x)
      <4>1. x \in 1..i \/ x = i + 1
        BY <1>3
      <4> QED BY <1>5, <1>8, <2>6, <2>10, <3>3, <4>1
    <3>4. \A x \in 1..(i + 1) : x \in 1..len
      BY <1>3, <2>1
    <3> QED BY <1>2, <1>5, <1>6, <1>8, <2>1, <3>1, <3>2, <3>3, <3>4 DEF SearchInv
  <2> QED BY <2>9, <2>10
<1> QED BY <1>7, <1>8
-----------------------------------------------------------------------------
MinixInv == call.fn \in {"read", "blkdev", "lookup"} /\ ReadInv /\ DeviceInv /\ SearchInv

\* A call at its start.
LEMMA MinixInitInv == MinixInit => MinixInv
<1> SUFFICES ASSUME MinixInit PROVE MinixInv
  OBVIOUS
<1>1. ASSUME file \in Files, NEW fn \in {"read", "blkdev"}, NEW pos \in Positions,
             NEW n \in Counts, call = Call(fn, pos, n), fn = "read" => pos <= file.size
      PROVE  MinixInv
  <2>1. pos \in Nat /\ n \in Nat
    BY MinixAssumption
  <2>2. <<>> \in Seq(Int) /\ Len(<<>>) = 0
    BY EmptySeq
  <2>3. /\ call \in CallRecord /\ call.fn = fn /\ call.got = <<>> /\ call.left = n /\ call.size = n
        /\ call.from = pos /\ call.at = pos /\ call.done = FALSE
    BY <1>1, <2>1, <2>2 DEF Call, CallRecord
  <2>4. CallType
    BY <1>1, <2>1, <2>2, <2>3 DEF CallType
  <2>5. Taken(call.from, call.got) /\ Under(call.from, call.got, call.at)
    BY <2>1, <2>2, <2>3 DEF Taken, Under
  <2>6. ReadInv
    BY <1>1, <2>3, <2>4, <2>5 DEF ReadInv
  <2>7. DeviceInv
    <3>1. pos = pos + 0
      BY <2>1
    <3> QED BY <2>2, <2>3, <2>4, <3>1 DEF DeviceInv
  <2> QED BY <2>3, <2>6, <2>7 DEF MinixInv, SearchInv
<1>2. ASSUME file \in Directories, NEW name \in Names, call = Search(name)
      PROVE  MinixInv
  <2>1. /\ call \in [fn : {"lookup"}, done : BOOLEAN, name : Names, i : Nat, k : Nat, j : Nat,
                     astray : BOOLEAN, ret : Nat]
        /\ call.fn = "lookup" /\ call.done = FALSE /\ call.i = 0 /\ call.k = 0 /\ call.j = 0
        /\ call.ret = 0
    BY <1>2 DEF Search
  <2>2. Len(file.entries) \in Nat
    BY <1>2, MinixAssumption, LenProperties
  <2>3. 0 * DENTRIES_PER_BLOCK + 0 = 0 /\ 0 <= DENTRIES_PER_BLOCK
    BY Sizes
  <2>4. SearchInv
    BY <1>2, <2>1, <2>2, <2>3 DEF SearchInv
  <2> QED BY <2>1, <2>4 DEF MinixInv, ReadInv, DeviceInv
<1> QED BY <1>1, <1>2 DEF MinixInit

\* A call stays the call it is.
LEMMA SameCall ==
  ASSUME MinixInv, MinixNext
  PROVE  call'.fn = call.fn
<1>1. CASE minix_file_read
  BY <1>1 DEF MinixInv, ReadInv, CallType, CallRecord, minix_file_read, Returns
<1>2. CASE blkdev_read
  BY <1>2 DEF MinixInv, DeviceInv, CallType, CallRecord, blkdev_read, Returns
<1>3. CASE minix_lookup
  BY <1>3 DEF MinixInv, SearchInv, minix_lookup
<1> QED BY <1>1, <1>2, <1>3 DEF MinixNext

\* fs/minix and fs/block_dev.c: where each of the loops is in the file, on the
\* device and in the directory, whatever their sizes.
THEOREM MinixInvariant == MinixSpec => []MinixInv
<1>1. MinixInv /\ [MinixNext]_minix_vars => MinixInv'
  <2> SUFFICES ASSUME MinixInv, [MinixNext]_minix_vars PROVE MinixInv'
    OBVIOUS
  <2>1. CASE UNCHANGED minix_vars
    BY <2>1, SameFile
       DEF minix_vars, MinixInv, ReadInv, DeviceInv, SearchInv, CallType, Hit, Found
  <2>2. CASE minix_file_read
    <3>1. ReadInv' /\ call'.fn = "read"
      BY <2>2, ReadStep, SameCall DEF MinixInv, MinixNext, minix_file_read
    <3> QED BY <3>1 DEF MinixInv, DeviceInv, SearchInv
  <2>3. CASE blkdev_read
    <3>1. DeviceInv' /\ call'.fn = "blkdev"
      BY <2>3, DeviceStep, SameCall DEF MinixInv, MinixNext, blkdev_read
    <3> QED BY <3>1 DEF MinixInv, ReadInv, SearchInv
  <2>4. CASE minix_lookup
    <3>1. SearchInv' /\ call'.fn = "lookup"
      BY <2>4, SearchStep, SameCall DEF MinixInv, MinixNext, minix_lookup
    <3> QED BY <3>1 DEF MinixInv, ReadInv, DeviceInv
  <2> QED BY <2>1, <2>2, <2>3, <2>4 DEF MinixNext
<1> QED BY <1>1, MinixInitInv, PTL DEF MinixSpec

\* The search of minix_lookup finds the first entry of the name.
LEMMA SearchOver == SearchInv => LookupFinds
BY DEF SearchInv, LookupFinds

\* minix_file_read, blkdev_read and minix_lookup, for every file, position and
\* count.  A read of a file returns its bytes, with zeros for a block it does not
\* have and for one whose index block cannot be read; a read of the device
\* returns the bytes of the disk up to the end of its first block, or all of
\* them when it starts with a block.  Both stop short only at an unreadable
\* block, the first also at a zero; BUG_ON stops only a read at the end of a
\* file of the largest size.  A search that does not run past the end of a block
\* finds the first entry of the name.
THEOREM ReadsAreExact == MinixSpec => []ReadsFile
<1>1. MinixInv => ReadsFile
  BY ReadOver, DeviceOver, SearchOver DEF MinixInv, ReadsFile
<1> QED BY <1>1, MinixInvariant, PTL
=============================================================================
