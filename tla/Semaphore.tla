----------------------------- MODULE Semaphore -----------------------------
(***************************************************************************)
(* The semaphore of kernel/semaphore.c.  down and up run with interrupts   *)
(* off, so each is one step.  A task that has to wait is put at the head   *)
(* of the wait queue; up wakes the task at the head, which then owns the   *)
(* semaphore, whenever it gets to run.                                     *)
(***************************************************************************)
EXTENDS Lists, FiniteSets

CONSTANT Task

VARIABLES count,    \* s->count: owners and waiting tasks
          waiting,  \* s->wait
          sem       \* whether a task is outside, waiting or the owner

semVars == <<count, waiting, sem>>

SemTypeOK ==
  /\ count \in Nat
  /\ waiting \in Seq(Task)
  /\ sem \in [Task -> {"out", "waiting", "in"}]

SemInit ==
  /\ count = 0
  /\ waiting = <<>>
  /\ sem = [t \in Task |-> "out"]

down(t) ==
  /\ sem[t] = "out"
  /\ count' = count + 1
  /\ \/ /\ count' = 1
        /\ sem' = [sem EXCEPT ![t] = "in"]
        /\ UNCHANGED waiting
     \/ /\ count' # 1
        /\ sem' = [sem EXCEPT ![t] = "waiting"]
        /\ waiting' = list_add(t, waiting)

\* Mutant: nobody is woken.
up_silent(t) ==
  /\ sem[t] = "in"
  /\ count' = count - 1
  /\ sem' = [sem EXCEPT ![t] = "out"]
  /\ UNCHANGED waiting

up(t) ==
  /\ sem[t] = "in"
  /\ count' = count - 1
  /\ \/ /\ waiting = <<>>
        /\ sem' = [sem EXCEPT ![t] = "out"]
        /\ UNCHANGED waiting
     \/ /\ waiting # <<>>
        /\ sem' = [sem EXCEPT ![t] = "out", ![Head(waiting)] = "in"]
        /\ waiting' = Tail(waiting)

SemNext == \E t \in Task : down(t) \/ up(t)

SemSpec == SemInit /\ [][SemNext]_semVars
-----------------------------------------------------------------------------
\* At most one task is between down and up.
MutualExclusion == \A t, u \in Task : sem[t] = "in" /\ sem[u] = "in" => t = u

\* No lost hand-off: when a task waits, another one owns the semaphore and
\* will wake it.
OwnerWhileWaiting == waiting # <<>> => \E t \in Task : sem[t] = "in"

\* What makes the two inductive: the count is the number of tasks inside or
\* on the queue, and the queue holds exactly the waiting tasks, once each.
SemInv ==
  /\ MutualExclusion
  /\ OwnerWhileWaiting
  /\ count = Len(waiting) + (IF \E t \in Task : sem[t] = "in" THEN 1 ELSE 0)
  /\ Linked(waiting)
  /\ \A t \in Task : sem[t] = "waiting" <=> t \in ToSet(waiting)
=============================================================================
