--------------------------------- MODULE Hd --------------------------------
(***************************************************************************)
(* The disk driver (drivers/hd.c): hd_out, which waits for the controller, *)
(* programs it and sleeps, and the interrupt handlers, which move one      *)
(* sector per interrupt and wake the sleeper after the last one.  A        *)
(* runnable task may run at any time; hd_out runs with interrupts off but  *)
(* gives them up when it sleeps.                                           *)
(*                                                                         *)
(* The controller is external.  It owes an interrupt with DRQ_STAT for     *)
(* every sector it has read and for every sector of a write after the      *)
(* first.  It waits for the first sector of a write without an interrupt,  *)
(* and hd_out neither polls DRQ_STAT nor sends that sector.  Other         *)
(* interrupts may come at any time.                                        *)
(***************************************************************************)
EXTENDS Lists, FiniteSets

CONSTANTS Task,
          Sectors       \* sectors of a block: 2048/256 = 8 in the code

ASSUME HdAssumption == Sectors \in Nat \ {0}

VARIABLES
  wait_hd,    \* tasks that wait for the controller
  wait_done,  \* the task whose request is in progress
  do_hd,      \* the handler of the request: "read" or "write"; "NULL" at first
  wait_blk,   \* the task whose block is transferred; initially none
  intr_done,  \* sectors transferred: intr_done / 256
  pc,         \* "idle", "wait_hd", "wait_done" or "done"
  asleep,     \* tasks in state TASK_WAIT
  moved,      \* moved[t][i]: what sector i of the task's block was copied from
  flag,       \* blk->uptodate for a read, !blk->dirty for a write
  rw,         \* the direction of the task's request
  device      \* the controller: the request it works on and its next sector

vars == <<wait_hd, wait_done, do_hd, wait_blk, intr_done, pc, asleep, moved,
          flag, rw, device>>

Rw == {"read", "write"}
NoBlock == "none"
Idle == [task |-> NoBlock, next |-> 0]
ASSUME TaskAssumption == NoBlock \notin Task

TypeOK ==
  /\ wait_hd \in Seq(Task) /\ wait_done \in Seq(Task)
  /\ do_hd \in Rw \cup {"NULL"}
  /\ wait_blk \in Task \cup {NoBlock}
  /\ intr_done \in 0..Sectors
  /\ pc \in [Task -> {"idle", "wait_hd", "wait_done", "done"}]
  /\ asleep \subseteq Task
  /\ moved \in [Task -> Seq(Task \X Nat)]
  /\ flag \in [Task -> BOOLEAN]
  /\ rw \in [Task -> Rw]
  /\ device \in [task : Task \cup {NoBlock}, next : 0..Sectors]

Init ==
  /\ wait_hd = <<>> /\ wait_done = <<>>
  /\ do_hd = "NULL" /\ wait_blk = NoBlock /\ intr_done = 0
  /\ pc = [t \in Task |-> "idle"]
  /\ asleep = {}
  /\ moved = [t \in Task |-> <<>>]
  /\ flag = [t \in Task |-> FALSE]
  /\ rw = [t \in Task |-> "read"]
  /\ device = Idle
-----------------------------------------------------------------------------
\* Mutant: wake_up forgets the queue.
Woken_nobody(q) == {}

\* wake_up on one of the two queues, as a change of queue and of asleep.
Popped(q) == IF q = <<>> THEN q ELSE Tail(q)
Woken(q) == IF q = <<>> THEN {} ELSE {Head(q)}

\* hd_rw_handler and rw_abs_hd: a request for a block of the caller.
hd_rw_handler(t, dir) ==
  /\ pc[t] = "idle"
  /\ pc' = [pc EXCEPT ![t] = "wait_hd"]
  /\ rw' = [rw EXCEPT ![t] = dir]
  /\ flag' = [flag EXCEPT ![t] = FALSE]
  /\ moved' = [moved EXCEPT ![t] = <<>>]
  /\ UNCHANGED <<wait_hd, wait_done, do_hd, wait_blk, intr_done, asleep,
                 device>>

\* hd_out, one turn of wait_event(&wait_hd, list_empty(&wait_done)): sleep ...
hd_out_wait(t) ==
  /\ pc[t] = "wait_hd" /\ t \notin asleep
  /\ wait_done # <<>>
  /\ wait_hd' = list_add(t, wait_hd)
  /\ asleep' = asleep \cup {t}
  /\ UNCHANGED <<wait_done, do_hd, wait_blk, intr_done, pc, moved, flag, rw,
                 device>>

\* Mutants: the count of the last request is kept; the caller does not wait
\* for the controller.
hd_out_count(t) ==
  /\ pc[t] = "wait_hd" /\ t \notin asleep
  /\ wait_done = <<>>
  /\ do_hd' = rw[t]
  /\ wait_blk' = t
  /\ device' = [task |-> t, next |-> 1]
  /\ wait_done' = list_add(t, wait_done)
  /\ asleep' = asleep \cup {t}
  /\ pc' = [pc EXCEPT ![t] = "wait_done"]
  /\ UNCHANGED <<wait_hd, intr_done, moved, flag, rw>>
hd_out_busy(t) ==
  /\ pc[t] = "wait_hd" /\ t \notin asleep
  /\ intr_done' = 0
  /\ do_hd' = rw[t]
  /\ wait_blk' = t
  /\ device' = [task |-> t, next |-> 1]
  /\ wait_done' = list_add(t, wait_done)
  /\ asleep' = asleep \cup {t}
  /\ pc' = [pc EXCEPT ![t] = "wait_done"]
  /\ UNCHANGED <<wait_hd, moved, flag, rw>>

\* ... or program the controller and wait for the last interrupt.
hd_out(t) ==
  /\ pc[t] = "wait_hd" /\ t \notin asleep
  /\ wait_done = <<>>
  /\ intr_done' = 0
  /\ do_hd' = rw[t]
  /\ wait_blk' = t
  /\ device' = [task |-> t, next |-> 1]
  /\ wait_done' = list_add(t, wait_done)
  /\ asleep' = asleep \cup {t}
  /\ pc' = [pc EXCEPT ![t] = "wait_done"]
  /\ UNCHANGED <<wait_hd, moved, flag, rw>>

\* hd_out returns to the caller.
hd_return(t) ==
  /\ pc[t] = "wait_done" /\ t \notin asleep
  /\ pc' = [pc EXCEPT ![t] = "done"]
  /\ UNCHANGED <<wait_hd, wait_done, do_hd, wait_blk, intr_done, asleep, moved,
                 flag, rw, device>>

\* The caller goes on.
Continue(t) ==
  /\ pc[t] = "done"
  /\ pc' = [pc EXCEPT ![t] = "idle"]
  /\ UNCHANGED <<wait_hd, wait_done, do_hd, wait_blk, intr_done, asleep, moved,
                 flag, rw, device>>
-----------------------------------------------------------------------------
\* intr_done after a sector.  Mutant: the count is of bytes, not of words.
Counted_bytes(n) == n + 2
Counted(n) == n + 1

\* read_intr and write_intr, which differ in the direction and in the flag of
\* the block they set.  drq is the state of DRQ_STAT.
rw_intr(drq) ==
  LET transfer == drq /\ intr_done # Sectors
      done     == IF transfer THEN Counted(intr_done) ELSE intr_done
  IN /\ intr_done' = done
     /\ moved' = IF transfer
                 THEN [moved EXCEPT ![wait_blk] =
                         Append(@, <<device.task, device.next>>)]
                 ELSE moved
     /\ IF done = Sectors
        THEN /\ flag' = [flag EXCEPT ![wait_blk] = TRUE]
             /\ wait_done' = Popped(wait_done)
             /\ wait_hd' = Popped(wait_hd)
             /\ asleep' = asleep \ (Woken(wait_done) \cup Woken(wait_hd))
        ELSE UNCHANGED <<flag, wait_done, wait_hd, asleep>>

\* The handler, and what the controller does with the sector it moves.
Interrupt(drq) ==
  /\ rw_intr(drq)
  /\ device' = IF ~drq THEN device
               ELSE IF device.next = Sectors THEN Idle ELSE [device EXCEPT !.next = @ + 1]
  /\ UNCHANGED <<do_hd, wait_blk, pc, rw>>

\* hd_intr, on an interrupt that the controller owes: a sector has been read, or
\* the one before has been written.
hd_intr ==
  /\ device.task # NoBlock
  /\ do_hd = "write" => device.next > 1
  /\ Interrupt(TRUE)

\* hd_intr, on any other interrupt after the first command (BUG_ON(do_hd == NULL)):
\* late, or early, when DRQ_STAT may be on.
hd_intr_spurious ==
  /\ do_hd # "NULL"
  /\ \E drq \in BOOLEAN : (drq => device.task # NoBlock) /\ Interrupt(drq)

Next ==
  \/ \E t \in Task : \/ \E dir \in Rw : hd_rw_handler(t, dir)
                     \/ hd_out_wait(t) \/ hd_out(t) \/ hd_return(t) \/ Continue(t)
  \/ hd_intr \/ hd_intr_spurious

Spec == Init /\ [][Next]_vars

\* The controller raises the interrupts it owes, and a runnable task runs (see
\* Sched).  No other interrupt need ever come.
FairSpec ==
  /\ Spec
  /\ WF_vars(hd_intr)
  /\ \A t \in Task : WF_vars(hd_out_wait(t) \/ hd_out(t) \/ hd_return(t) \/ Continue(t))
-----------------------------------------------------------------------------
\* One request at a time: the sleeper of wait_done is the one whose block the
\* handler fills and whose command the controller executes.
OneRequest ==
  /\ Len(wait_done) <= 1
  /\ wait_done # <<>> => /\ Head(wait_done) = wait_blk /\ do_hd = rw[wait_blk]
                         /\ device.task = wait_blk /\ intr_done + 1 = device.next
  /\ wait_done = <<>> => device.task = NoBlock

\* hd_out returns only after every sector of the caller's own block was moved,
\* in order and once, whatever interrupts came late or in between.
BlockComplete ==
  \A t \in Task : pc[t] \in {"wait_done", "done"} /\ t \notin asleep =>
    flag[t] /\ moved[t] = [i \in 1..Sectors |-> <<t, i>>]

\* No lost wake-up: while tasks wait for the controller it is busy, or a task
\* that will take it and wake the next one has already been woken.
NoStrandedWaiter ==
  wait_hd # <<>> => \/ wait_done # <<>>
                    \/ \E t \in Task : pc[t] = "wait_hd" /\ t \notin asleep

\* The first sector of a write was not sent: the controller owes no interrupt.
WriteUnsent == wait_done # <<>> /\ do_hd = "write" /\ device.next = 1

\* The disk never stops while there is work: as long as requests wait, one of
\* them is completed in the end, unless a write holds the controller for ever.
\* (Not each of them: wake_up takes the newest waiter, and a task that comes back
\* at once can be served first for ever.)
RequestsServed ==
  (\E t \in Task : pc[t] = "wait_hd") ~> ((\E t \in Task : pc[t] = "done") \/ []WriteUnsent)
=============================================================================
