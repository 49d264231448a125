---------------------------- MODULE SchedProofs ----------------------------
(***************************************************************************)
(* The task lists and the family tree of the kernel stay consistent for    *)
(* every number of tasks, wait queues and every length of the time slice;  *)
(* and no wake-up is lost: a task asleep on its wait_exit has nothing to   *)
(* reap, the caller of sys_exec sleeps only while its child has yet to     *)
(* call wake_up, and a zombie is freed by its parent alone.                *)
(***************************************************************************)
EXTENDS Sched, ListsProofs

-----------------------------------------------------------------------------
(* What the list operations of kernel/sched.c do to the run lists and the   *)
(* wait queues.  Queues(run, ready, q, st) says of any two run lists, wait  *)
(* queues and task states what QueueInv says of the kernel's; the lemmas    *)
(* give the effect of each operation on it, to be combined below.           *)

Queues(run, ready, q, st) ==
  /\ run \in Seq(Task) /\ ready \in Seq(Task)
  /\ q \in [Queue -> Seq(Task)]
  /\ st \in [Task -> State]
  /\ Linked(run) /\ Linked(ready)
  /\ ToSet(run) \cap ToSet(ready) = {}
  /\ \A x \in Queue : Linked(q[x])
  /\ \A x \in Queue : \A t \in ToSet(q[x]) : st[t] = "WAIT"
  /\ \A x, y \in Queue : x # y => ToSet(q[x]) \cap ToSet(q[y]) = {}
  /\ \A t \in Task : st[t] = "WAIT" => \E x \in Queue : t \in ToSet(q[x])
  /\ \A t \in Task : st[t] = "RUNNABLE" <=> t \in ToSet(run) \cup ToSet(ready)

\* Alive tasks are the ones schedule() may still run.
Alive == {"RUNNABLE", "WAIT"}

\* wait() moves the running task from run_list to a wait queue.
LEMMA QueuesWait ==
  ASSUME NEW run, NEW ready, NEW q, NEW st, Queues(run, ready, q, st),
         NEW c \in ToSet(run), NEW id \in Queue
  PROVE  Queues(list_del(c, run), ready, [q EXCEPT ![id] = list_add(c, @)],
                [st EXCEPT ![c] = "WAIT"])
<1> DEFINE r2 == list_del(c, run)
           l2 == list_add(c, q[id])
           q2 == [q EXCEPT ![id] = list_add(c, @)]
           s2 == [st EXCEPT ![c] = "WAIT"]
<1>1. /\ run \in Seq(Task) /\ ready \in Seq(Task) /\ q[id] \in Seq(Task)
      /\ Linked(run) /\ Linked(ready) /\ Linked(q[id]) /\ c \in Task
  BY ToSetElements DEF Queues
<1>2. r2 \in Seq(Task) /\ ToSet(r2) = ToSet(run) \ {c} /\ Linked(r2)
  BY <1>1, ListDel
<1>3. st[c] = "RUNNABLE" /\ c \notin ToSet(ready) /\ \A x \in Queue : c \notin ToSet(q[x])
  BY <1>1 DEF Queues
<1>4. l2 \in Seq(Task) /\ ToSet(l2) = ToSet(q[id]) \cup {c} /\ Linked(l2)
  <2>1. c \notin ToSet(q[id])
    BY <1>3
  <2> DEFINE w == q[id]
  <2>2. w \in Seq(Task) /\ Linked(w) /\ c \notin ToSet(w) /\ c \in Task
    BY <2>1, <1>1
  <2> HIDE DEF w
  <2>3. /\ list_add(c, w) \in Seq(Task) /\ Linked(list_add(c, w))
        /\ ToSet(list_add(c, w)) = ToSet(w) \cup {c}
    BY <2>2, ListAdd
  <2> QED BY <2>3 DEF w
<1>5. q2 = [q EXCEPT ![id] = l2]
  OBVIOUS
<1> HIDE DEF r2, l2, q2
<1>6. /\ q2 \in [Queue -> Seq(Task)] /\ q2[id] = l2
      /\ \A x \in Queue : x # id => q2[x] = q[x]
  BY <1>4, <1>5 DEF Queues
<1>7. s2 \in [Task -> State] /\ s2[c] = "WAIT" /\ \A t \in Task : t # c => s2[t] = st[t]
  BY <1>1 DEF Queues, State
<1> HIDE DEF s2
<1>8. \A x \in Queue : /\ Linked(q2[x])
                       /\ \A t \in ToSet(q2[x]) : t \in Task /\ s2[t] = "WAIT"
  <2> SUFFICES ASSUME NEW x \in Queue
               PROVE  /\ Linked(q2[x])
                      /\ \A t \in ToSet(q2[x]) : t \in Task /\ s2[t] = "WAIT"
    OBVIOUS
  <2>1. q[x] \in Seq(Task) /\ ToSet(q[x]) \subseteq Task
    BY ToSetElements DEF Queues
  <2>2. CASE x = id
    BY <2>1, <2>2, <1>1, <1>4, <1>6, <1>7 DEF Queues
  <2>3. CASE x # id
    BY <2>1, <2>3, <1>3, <1>6, <1>7 DEF Queues
  <2> QED BY <2>2, <2>3
<1>9. \A x, y \in Queue : x # y => ToSet(q2[x]) \cap ToSet(q2[y]) = {}
  <2> SUFFICES ASSUME NEW x \in Queue, NEW y \in Queue, x # y
               PROVE  ToSet(q2[x]) \cap ToSet(q2[y]) = {}
    OBVIOUS
  <2>1. ToSet(q[x]) \cap ToSet(q[y]) = {}
    BY DEF Queues
  <2>2. /\ ToSet(q2[x]) = ToSet(q[x]) \/ (x = id /\ ToSet(q2[x]) = ToSet(q[x]) \cup {c})
        /\ ToSet(q2[y]) = ToSet(q[y]) \/ (y = id /\ ToSet(q2[y]) = ToSet(q[y]) \cup {c})
    BY <1>4, <1>6
  <2> QED BY <2>1, <2>2, <1>3
<1>10. \A t \in Task : s2[t] = "WAIT" => \E x \in Queue : t \in ToSet(q2[x])
  <2> SUFFICES ASSUME NEW t \in Task, s2[t] = "WAIT"
               PROVE  \E x \in Queue : t \in ToSet(q2[x])
    OBVIOUS
  <2>1. CASE t = c
    BY <2>1, <1>4, <1>6
  <2>2. CASE t # c
    <3>1. PICK x \in Queue : t \in ToSet(q[x])
      BY <2>2, <1>7 DEF Queues
    <3>2. t \in ToSet(q2[x])
      BY <3>1, <1>4, <1>6
    <3> QED BY <3>2
  <2> QED BY <2>1, <2>2
<1>11. \A t \in Task : s2[t] = "RUNNABLE" <=> t \in ToSet(r2) \cup ToSet(ready)
  BY <1>2, <1>3, <1>7 DEF Queues
<1>12. ToSet(r2) \cap ToSet(ready) = {}
  BY <1>2 DEF Queues
<1>13. Queues(r2, ready, q2, s2)
  BY <1>1, <1>2, <1>6, <1>7, <1>8, <1>9, <1>10, <1>11, <1>12 DEF Queues
<1> QED BY <1>13 DEF r2, q2, s2

\* wake_up() moves the head of a wait queue, if any, to run_list.
LEMMA QueuesWake ==
  ASSUME NEW run, NEW ready, NEW q, NEW st, Queues(run, ready, q, st), NEW id \in Queue
  PROVE  /\ Queues(WokenRun(run, q, id), ready, WokenQueue(q, id), WokenState(st, q, id))
         /\ ToSet(run) \subseteq ToSet(WokenRun(run, q, id))
         /\ \A t \in Task : \/ WokenState(st, q, id)[t] = st[t]
                            \/ st[t] = "WAIT" /\ WokenState(st, q, id)[t] = "RUNNABLE"
<1>1. CASE q[id] = <<>>
  BY <1>1 DEF WokenRun, WokenQueue, WokenState, Queues
<1>2. CASE q[id] # <<>>
  <2> DEFINE h == Head(q[id])
             tl == Tail(q[id])
             r2 == list_add(h, run)
             q2 == [q EXCEPT ![id] = Tail(@)]
             s2 == [st EXCEPT ![h] = "RUNNABLE"]
  <2>1. /\ run \in Seq(Task) /\ ready \in Seq(Task) /\ q[id] \in Seq(Task)
        /\ Linked(run) /\ Linked(ready) /\ Linked(q[id])
    BY DEF Queues
  <2>2. /\ h \in ToSet(q[id]) /\ h \in Task /\ tl \in Seq(Task)
        /\ ToSet(tl) = ToSet(q[id]) \ {h} /\ Linked(tl)
    BY <2>1, <1>2, ListPop
  <2>3. q2 = [q EXCEPT ![id] = tl]
    OBVIOUS
  <2> HIDE DEF h, tl, q2
  <2>4. /\ st[h] = "WAIT" /\ h \notin ToSet(run) /\ h \notin ToSet(ready)
        /\ \A x \in Queue : x # id => h \notin ToSet(q[x])
    BY <2>2 DEF Queues
  <2>5. r2 \in Seq(Task) /\ ToSet(r2) = ToSet(run) \cup {h} /\ Linked(r2)
    BY <2>1, <2>2, <2>4, ListAdd
  <2> HIDE DEF r2
  <2>6. /\ q2 \in [Queue -> Seq(Task)] /\ q2[id] = tl
        /\ \A x \in Queue : x # id => q2[x] = q[x]
    BY <2>2, <2>3 DEF Queues
  <2>7. s2 \in [Task -> State] /\ s2[h] = "RUNNABLE" /\ \A t \in Task : t # h => s2[t] = st[t]
    BY <2>2 DEF Queues, State
  <2> HIDE DEF s2
  <2>8. \A x \in Queue : Linked(q2[x]) /\ ToSet(q2[x]) \subseteq ToSet(q[x]) \ {h}
    <3> SUFFICES ASSUME NEW x \in Queue
                 PROVE  Linked(q2[x]) /\ ToSet(q2[x]) \subseteq ToSet(q[x]) \ {h}
      OBVIOUS
    <3>1. CASE x = id
      BY <3>1, <2>2, <2>6
    <3>2. CASE x # id
      <4>1. q2[x] = q[x] /\ h \notin ToSet(q[x])
        BY <3>2, <2>4, <2>6
      <4>2. Linked(q[x])
        BY DEF Queues
      <4> QED BY <4>1, <4>2
    <3> QED BY <3>1, <3>2
  <2>9. \A x \in Queue : \A t \in ToSet(q2[x]) : s2[t] = "WAIT"
    <3> SUFFICES ASSUME NEW x \in Queue, NEW t \in ToSet(q2[x]) PROVE s2[t] = "WAIT"
      OBVIOUS
    <3>1. q[x] \in Seq(Task) /\ t \in ToSet(q[x]) /\ t # h
      BY <2>8 DEF Queues
    <3>2. t \in Task /\ st[t] = "WAIT"
      BY <3>1, ToSetElements DEF Queues
    <3> QED BY <3>1, <3>2, <2>7
  <2>10. \A x, y \in Queue : x # y => ToSet(q2[x]) \cap ToSet(q2[y]) = {}
    BY <2>8 DEF Queues
  <2>11. \A t \in Task : s2[t] = "WAIT" => \E x \in Queue : t \in ToSet(q2[x])
    <3> SUFFICES ASSUME NEW t \in Task, s2[t] = "WAIT"
                 PROVE  \E x \in Queue : t \in ToSet(q2[x])
      OBVIOUS
    <3>1. t # h /\ st[t] = "WAIT"
      BY <2>7
    <3>2. PICK x \in Queue : t \in ToSet(q[x])
      BY <3>1 DEF Queues
    <3>3. t \in ToSet(q2[x])
      BY <3>1, <3>2, <2>2, <2>6
    <3> QED BY <3>3
  <2>12. \A t \in Task : s2[t] = "RUNNABLE" <=> t \in ToSet(r2) \cup ToSet(ready)
    BY <2>2, <2>5, <2>7 DEF Queues
  <2>13. ToSet(r2) \cap ToSet(ready) = {}
    BY <2>4, <2>5 DEF Queues
  <2>14. Queues(r2, ready, q2, s2)
    BY <2>1, <2>5, <2>6, <2>7, <2>8, <2>9, <2>10, <2>11, <2>12, <2>13 DEF Queues
  <2>15. r2 = WokenRun(run, q, id) /\ q2 = WokenQueue(q, id) /\ s2 = WokenState(st, q, id)
    BY <1>2 DEF WokenRun, WokenQueue, WokenState, r2, q2, s2, h
  <2>16. \A t \in Task : s2[t] = st[t] \/ (st[t] = "WAIT" /\ s2[t] = "RUNNABLE")
    BY <2>4, <2>7
  <2> QED BY <2>5, <2>14, <2>15, <2>16
<1> QED BY <1>1, <1>2

\* wake_up_all() moves a whole wait queue to run_list.
LEMMA QueuesWakeAll ==
  ASSUME NEW run, NEW ready, NEW q, NEW st, Queues(run, ready, q, st), NEW id \in Queue
  PROVE  /\ Queues(list_splice(q[id], run), ready, [q EXCEPT ![id] = <<>>],
                   [t \in Task |-> IF t \in ToSet(q[id]) THEN "RUNNABLE" ELSE st[t]])
         /\ ToSet(run) \subseteq ToSet(list_splice(q[id], run))
<1> DEFINE W == ToSet(q[id])
           r2 == list_splice(q[id], run)
           q2 == [q EXCEPT ![id] = <<>>]
           s2 == [t \in Task |-> IF t \in ToSet(q[id]) THEN "RUNNABLE" ELSE st[t]]
<1>1. /\ run \in Seq(Task) /\ ready \in Seq(Task) /\ q[id] \in Seq(Task)
      /\ Linked(run) /\ Linked(ready) /\ Linked(q[id])
  BY DEF Queues
<1>2. W \subseteq Task
  BY <1>1, ToSetElements
<1>3. \A t \in W : st[t] = "WAIT" /\ t \notin ToSet(run) /\ t \notin ToSet(ready)
  BY <1>2 DEF Queues
<1>4. r2 \in Seq(Task) /\ ToSet(r2) = W \cup ToSet(run) /\ Linked(r2)
  <2>1. ToSet(q[id]) \cap ToSet(run) = {}
    BY <1>3
  <2> QED BY <2>1, <1>1, ListSplice
<1>5. /\ s2 \in [Task -> State]
      /\ \A t \in Task : s2[t] = IF t \in W THEN "RUNNABLE" ELSE st[t]
  BY DEF Queues, State
<1>6. ToSet(<<>>) = {} /\ Linked(<<>>) /\ <<>> \in Seq(Task)
  BY DEF ToSet, Linked
<1> HIDE DEF r2, s2, W
<1>7. /\ q2 \in [Queue -> Seq(Task)] /\ q2[id] = <<>>
      /\ \A x \in Queue : x # id => q2[x] = q[x]
  BY <1>6 DEF Queues
<1> HIDE DEF q2
<1>8. \A x \in Queue : /\ Linked(q2[x])
                       /\ ToSet(q2[x]) \subseteq ToSet(q[x])
                       /\ ToSet(q2[x]) \cap W = {}
  <2> SUFFICES ASSUME NEW x \in Queue
               PROVE  /\ Linked(q2[x])
                      /\ ToSet(q2[x]) \subseteq ToSet(q[x])
                      /\ ToSet(q2[x]) \cap W = {}
    OBVIOUS
  <2>1. CASE x = id
    BY <2>1, <1>6, <1>7
  <2>2. CASE x # id
    <3>1. Linked(q[x]) /\ ToSet(q[x]) \cap ToSet(q[id]) = {}
      BY <2>2 DEF Queues
    <3> QED BY <3>1, <2>2, <1>7 DEF W
  <2> QED BY <2>1, <2>2
<1>9. \A x \in Queue : \A t \in ToSet(q2[x]) : s2[t] = "WAIT"
  <2> SUFFICES ASSUME NEW x \in Queue, NEW t \in ToSet(q2[x]) PROVE s2[t] = "WAIT"
    OBVIOUS
  <2>1. q[x] \in Seq(Task) /\ t \in ToSet(q[x]) /\ t \notin W
    BY <1>8 DEF Queues
  <2>2. t \in Task /\ st[t] = "WAIT"
    BY <2>1, ToSetElements DEF Queues
  <2> QED BY <2>1, <2>2, <1>5
<1>10. \A x, y \in Queue : x # y => ToSet(q2[x]) \cap ToSet(q2[y]) = {}
  BY <1>8 DEF Queues
<1>11. \A t \in Task : s2[t] = "WAIT" => \E x \in Queue : t \in ToSet(q2[x])
  <2> SUFFICES ASSUME NEW t \in Task, s2[t] = "WAIT"
               PROVE  \E x \in Queue : t \in ToSet(q2[x])
    OBVIOUS
  <2>1. t \notin W /\ st[t] = "WAIT"
    BY <1>5
  <2>2. PICK x \in Queue : t \in ToSet(q[x])
    BY <2>1 DEF Queues
  <2>3. t \in ToSet(q2[x])
    BY <2>1, <2>2, <1>7 DEF W
  <2> QED BY <2>3
<1>12. \A t \in Task : s2[t] = "RUNNABLE" <=> t \in ToSet(r2) \cup ToSet(ready)
  BY <1>2, <1>4, <1>5 DEF Queues
<1>13. ToSet(r2) \cap ToSet(ready) = {}
  BY <1>3, <1>4 DEF Queues
<1>14. Queues(r2, ready, q2, s2)
  BY <1>1, <1>4, <1>5, <1>7, <1>8, <1>9, <1>10, <1>11, <1>12, <1>13 DEF Queues
<1> QED BY <1>14, <1>4 DEF r2, q2, s2

\* A task that exits leaves run_list and is on no list any more.
LEMMA QueuesExit ==
  ASSUME NEW run, NEW ready, NEW q, NEW st, Queues(run, ready, q, st), NEW c \in ToSet(run)
  PROVE  Queues(list_del(c, run), ready, q, [st EXCEPT ![c] = "ZOMBIE"])
<1> DEFINE r2 == list_del(c, run)
           s2 == [st EXCEPT ![c] = "ZOMBIE"]
<1>1. run \in Seq(Task) /\ Linked(run) /\ c \in Task
  BY ToSetElements DEF Queues
<1>2. r2 \in Seq(Task) /\ ToSet(r2) = ToSet(run) \ {c} /\ Linked(r2)
  BY <1>1, ListDel
<1>3. st[c] = "RUNNABLE" /\ c \notin ToSet(ready)
  BY <1>1 DEF Queues
<1>4. s2 \in [Task -> State] /\ s2[c] = "ZOMBIE" /\ \A t \in Task : t # c => s2[t] = st[t]
  BY <1>1 DEF Queues, State
<1> HIDE DEF r2, s2
<1>5. \A x \in Queue : \A t \in ToSet(q[x]) : s2[t] = "WAIT"
  <2> SUFFICES ASSUME NEW x \in Queue, NEW t \in ToSet(q[x]) PROVE s2[t] = "WAIT"
    OBVIOUS
  <2>1. q[x] \in Seq(Task) /\ st[t] = "WAIT"
    BY DEF Queues
  <2>2. t \in Task
    BY <2>1, ToSetElements
  <2> QED BY <2>1, <2>2, <1>3, <1>4
<1>6. \A t \in Task : s2[t] = "WAIT" => \E x \in Queue : t \in ToSet(q[x])
  BY <1>4 DEF Queues
<1>7. \A t \in Task : s2[t] = "RUNNABLE" <=> t \in ToSet(r2) \cup ToSet(ready)
  BY <1>2, <1>3, <1>4 DEF Queues
<1>8. Queues(r2, ready, q, s2)
  BY <1>2, <1>4, <1>5, <1>6, <1>7 DEF Queues
<1> QED BY <1>8 DEF r2, s2

\* kernel_thread() puts a new task on ready_list.
LEMMA QueuesNew ==
  ASSUME NEW run, NEW ready, NEW q, NEW st, Queues(run, ready, q, st),
         NEW n \in Task, st[n] = "DEAD"
  PROVE  Queues(run, list_add(n, ready), q, [st EXCEPT ![n] = "RUNNABLE"])
<1> DEFINE r2 == list_add(n, ready)
           s2 == [st EXCEPT ![n] = "RUNNABLE"]
<1>1. ready \in Seq(Task) /\ Linked(ready) /\ n \notin ToSet(run) /\ n \notin ToSet(ready)
  BY DEF Queues
<1>2. r2 \in Seq(Task) /\ ToSet(r2) = ToSet(ready) \cup {n} /\ Linked(r2)
  BY <1>1, ListAdd
<1>3. s2 \in [Task -> State] /\ s2[n] = "RUNNABLE" /\ \A t \in Task : t # n => s2[t] = st[t]
  BY DEF Queues, State
<1> HIDE DEF r2, s2
<1>4. \A x \in Queue : \A t \in ToSet(q[x]) : s2[t] = "WAIT"
  <2> SUFFICES ASSUME NEW x \in Queue, NEW t \in ToSet(q[x]) PROVE s2[t] = "WAIT"
    OBVIOUS
  <2>1. q[x] \in Seq(Task) /\ st[t] = "WAIT"
    BY DEF Queues
  <2>2. t \in Task
    BY <2>1, ToSetElements
  <2> QED BY <2>1, <2>2, <1>3
<1>5. \A t \in Task : s2[t] = "WAIT" => \E x \in Queue : t \in ToSet(q[x])
  BY <1>3 DEF Queues
<1>6. \A t \in Task : s2[t] = "RUNNABLE" <=> t \in ToSet(run) \cup ToSet(r2)
  BY <1>2, <1>3 DEF Queues
<1>7. ToSet(run) \cap ToSet(r2) = {}
  BY <1>1, <1>2 DEF Queues
<1>8. Queues(run, r2, q, s2)
  BY <1>2, <1>3, <1>4, <1>5, <1>6, <1>7 DEF Queues
<1> QED BY <1>8 DEF r2, s2

\* Freeing a zombie does not touch a list.
LEMMA QueuesFree ==
  ASSUME NEW run, NEW ready, NEW q, NEW st, Queues(run, ready, q, st),
         NEW d \in Task, st[d] = "ZOMBIE"
  PROVE  Queues(run, ready, q, [st EXCEPT ![d] = "DEAD"])
<1> DEFINE s2 == [st EXCEPT ![d] = "DEAD"]
<1>1. s2 \in [Task -> State] /\ s2[d] = "DEAD" /\ \A t \in Task : t # d => s2[t] = st[t]
  BY DEF Queues, State
<1> HIDE DEF s2
<1>2. \A x \in Queue : \A t \in ToSet(q[x]) : s2[t] = "WAIT"
  <2> SUFFICES ASSUME NEW x \in Queue, NEW t \in ToSet(q[x]) PROVE s2[t] = "WAIT"
    OBVIOUS
  <2>1. q[x] \in Seq(Task) /\ st[t] = "WAIT"
    BY DEF Queues
  <2>2. t \in Task
    BY <2>1, ToSetElements
  <2> QED BY <2>1, <2>2, <1>1
<1>3. \A t \in Task : s2[t] = "WAIT" => \E x \in Queue : t \in ToSet(q[x])
  BY <1>1 DEF Queues
<1>4. \A t \in Task : s2[t] = "RUNNABLE" <=> t \in ToSet(run) \cup ToSet(ready)
  BY <1>1 DEF Queues
<1>5. Queues(run, ready, q, s2)
  BY <1>1, <1>2, <1>3, <1>4 DEF Queues
<1> QED BY <1>5 DEF s2

\* A task whose time slice is used up moves to ready_list.
LEMMA QueuesExpired ==
  ASSUME NEW run, NEW ready, NEW q, NEW st, Queues(run, ready, q, st), NEW c \in ToSet(run)
  PROVE  Queues(list_del(c, run), list_add(c, ready), q, st)
<1> DEFINE r2 == list_del(c, run)
           y2 == list_add(c, ready)
<1>1. /\ run \in Seq(Task) /\ Linked(run) /\ ready \in Seq(Task) /\ Linked(ready)
      /\ c \in Task /\ c \notin ToSet(ready)
  BY ToSetElements DEF Queues
<1>2. r2 \in Seq(Task) /\ ToSet(r2) = ToSet(run) \ {c} /\ Linked(r2)
  BY <1>1, ListDel
<1>3. y2 \in Seq(Task) /\ ToSet(y2) = ToSet(ready) \cup {c} /\ Linked(y2)
  BY <1>1, ListAdd
<1> HIDE DEF r2, y2
<1>4. \A t \in Task : st[t] = "RUNNABLE" <=> t \in ToSet(r2) \cup ToSet(y2)
  BY <1>1, <1>2, <1>3 DEF Queues
<1>5. ToSet(r2) \cap ToSet(y2) = {}
  BY <1>2, <1>3 DEF Queues
<1>6. Queues(r2, y2, q, st)
  BY <1>2, <1>3, <1>4, <1>5 DEF Queues
<1> QED BY <1>6 DEF r2, y2

\* The end of schedule(): as long as some task is runnable there is a task to
\* switch to, and changing the roles of the two lists loses nobody.
LEMMA PickNext ==
  ASSUME NEW run, NEW ready, NEW q, NEW st, Queues(run, ready, q, st),
         \E t \in Task : st[t] = "RUNNABLE",
         pick_next(run, ready, st)
  PROVE  /\ Queues(run_list', ready_list', q, st) /\ state' = st
         /\ current' \in Task /\ current' \in ToSet(run_list')
<1>1. run \in Seq(Task) /\ ready \in Seq(Task) /\ st \in [Task -> State]
  BY DEF Queues
<1>2. \A t \in ToSet(ready) : t \in Task => st[t] = "RUNNABLE"
  BY DEF Queues
<1>3. state' = st
  <2>1. state' = [t \in Task |-> IF run = <<>> /\ t \in ToSet(ready) THEN "RUNNABLE" ELSE st[t]]
    BY DEF pick_next
  <2>2. \A t \in Task : state'[t] = st[t]
    BY <2>1, <1>2
  <2> QED BY <2>1, <2>2, <1>1
<1>4. CASE run # <<>>
  <2>1. run_list' = run /\ ready_list' = ready /\ current' = Head(run)
    BY <1>4 DEF pick_next
  <2>2. Head(run) \in ToSet(run) /\ Head(run) \in Task
    BY <1>1, <1>4, ListPop
  <2> QED BY <2>1, <2>2, <1>3
<1>5. CASE run = <<>>
  <2>1. run_list' = list_splice(ready, run) /\ ready_list' = <<>> /\ current' = Head(run_list')
    BY <1>5 DEF pick_next
  <2>2. ToSet(run) = {} /\ ToSet(<<>>) = {} /\ Linked(<<>>) /\ <<>> \in Seq(Task)
    BY <1>5 DEF ToSet, Linked
  <2> DEFINE r2 == list_splice(ready, run)
  <2>3. r2 \in Seq(Task) /\ ToSet(r2) = ToSet(ready) /\ Linked(r2)
    <3>1. Linked(ready) /\ Linked(run)
      BY DEF Queues
    <3>2. ToSet(ready) \cap ToSet(run) = {}
      BY <2>2
    <3>3. r2 \in Seq(Task) /\ ToSet(r2) = ToSet(ready) \cup ToSet(run) /\ Linked(r2)
      BY <3>1, <3>2, <1>1, ListSplice
    <3> QED BY <3>3, <2>2
  <2> HIDE DEF r2
  <2>4. Queues(r2, <<>>, q, st)
    BY <2>2, <2>3 DEF Queues
  <2>5. PICK t \in Task : st[t] = "RUNNABLE"
    OBVIOUS
  <2>6. t \in ToSet(r2)
    BY <2>5, <2>2, <2>3 DEF Queues
  <2>7. r2 # <<>>
    BY <2>6, <2>2
  <2>8. Head(r2) \in ToSet(r2) /\ Head(r2) \in Task
    BY <2>3, <2>7, ListPop
  <2>9. run_list' = r2
    BY <2>1 DEF r2
  <2> QED BY <2>1, <2>4, <2>8, <2>9, <1>3
<1> QED BY <1>4, <1>5
-----------------------------------------------------------------------------
(* The invariant of the scheduler *)

\* What FamilyInv says, of any parent pointers, child lists and states; and a
\* page that is not a task is nobody's child.
Family(par, act, zom, st) ==
  /\ par \in [Task -> Task \cup {NoTask}]
  /\ act \in [Task -> SUBSET Task]
  /\ zom \in [Task -> Seq(Task)]
  /\ st \in [Task -> State]
  /\ \A p \in Task : Linked(zom[p])
  /\ \A t, p \in Task : t \in act[p] <=> par[t] = p /\ st[t] \in Alive
  /\ \A t, p \in Task : t \in ToSet(zom[p]) <=> par[t] = p /\ st[t] = "ZOMBIE"
  /\ \A t \in Task : st[t] # "DEAD" /\ t # Idle => par[t] \in Task /\ st[par[t]] # "DEAD"
  /\ \A t \in Task : st[t] = "DEAD" => par[t] = NoTask
  /\ par[Idle] = NoTask

\* Where a task may be in the code, and what its local variables refer to
\* there.
InitPc == {"none", "init_start", "init_loop", "exec_wait", "exec_reap",
           "wait_chld", "panic"}

ControlInv ==
  /\ \A t \in Task : state[t] \in {"ZOMBIE", "DEAD"} => pc[t] = "none"
  /\ \A t \in Task : pc[t] = "wait_chk" => arg[t] \in Task
  /\ \A t \in Task : pc[t] \in {"exec_wait", "exec_reap", "wait_pid"} =>
                       arg[t] \in Task /\ parent[arg[t]] = t
  /\ \A t \in Task : pc[t] = "exec_load" => params[t] \in Task
  /\ \A t \in Task : t # Idle /\ state[t] # "DEAD" => state[InitTask] # "DEAD"
  /\ pc[InitTask] \in InitPc
  /\ state[InitTask] # "ZOMBIE"
  /\ pc[Idle] = "boot" => state[InitTask] = "DEAD"
  /\ IdleInv

\* The variables no list operation changes have their types.
RestOK ==
  /\ time_slice \in [Task -> 0..TimeSlice]
  /\ pc \in [Task -> Pc]
  /\ arg \in [Task -> Task \cup {NoTask}]
  /\ ret \in [Task -> {"unset", "SUCCESS", "ERROR"}]
  /\ params \in [Task -> Task \cup {NoTask}]
  /\ argc \in [Task -> {"none", "own", "stale"}]

\* The inductive invariant.
SchedInv ==
  /\ RestOK
  /\ Queues(run_list, ready_list, queue, state)
  /\ current \in Task /\ current \in ToSet(run_list)
  /\ Family(parent, chld_active, chld_zombie, state)
  /\ ControlInv
-----------------------------------------------------------------------------
(* The family tree *)

\* The tree does not tell a waiting task from a runnable one.
LEMMA FamilySame ==
  ASSUME NEW par, NEW act, NEW zom, NEW st, Family(par, act, zom, st),
         NEW s2 \in [Task -> State],
         \A t \in Task : s2[t] = st[t] \/ (st[t] \in Alive /\ s2[t] \in Alive)
  PROVE  Family(par, act, zom, s2)
<1>1. \A t \in Task : /\ s2[t] \in Alive <=> st[t] \in Alive
                      /\ s2[t] = "ZOMBIE" <=> st[t] = "ZOMBIE"
                      /\ s2[t] = "DEAD" <=> st[t] = "DEAD"
  BY DEF Alive
<1> QED BY <1>1 DEF Family

\* kernel_thread: the new task is a child of the running one.
LEMMA FamilyNew ==
  ASSUME NEW par, NEW act, NEW zom, NEW st, Family(par, act, zom, st),
         NEW c \in Task, st[c] \in Alive, NEW n \in Task, n # Idle, st[n] = "DEAD"
  PROVE  Family([par EXCEPT ![n] = c], [act EXCEPT ![c] = @ \cup {n}, ![n] = {}],
                [zom EXCEPT ![n] = <<>>], [st EXCEPT ![n] = "RUNNABLE"])
<1> DEFINE p2 == [par EXCEPT ![n] = c]
           a2 == [act EXCEPT ![c] = @ \cup {n}, ![n] = {}]
           z2 == [zom EXCEPT ![n] = <<>>]
           s2 == [st EXCEPT ![n] = "RUNNABLE"]
<1>1. c # n
  BY DEF Alive
<1>2. \A t \in Task : par[t] # n
  BY TasksAssumption DEF Family
<1>3. ToSet(<<>>) = {} /\ Linked(<<>>) /\ <<>> \in Seq(Task)
  BY DEF ToSet, Linked
<1>4. p2 \in [Task -> Task \cup {NoTask}] /\ p2[n] = c /\ \A t \in Task : t # n => p2[t] = par[t]
  BY DEF Family
<1>5. /\ a2 \in [Task -> SUBSET Task] /\ a2[n] = {} /\ a2[c] = act[c] \cup {n}
      /\ \A t \in Task : t # n /\ t # c => a2[t] = act[t]
  <2>1. act \in [Task -> SUBSET Task]
    BY DEF Family
  <2>2. a2 = [t \in Task |-> IF t = n THEN {} ELSE IF t = c THEN act[c] \cup {n} ELSE act[t]]
    BY <1>1, <2>1
  <2>3. \A t \in Task : act[t] \subseteq Task
    BY <2>1
  <2> HIDE DEF a2
  <2> QED BY <1>1, <2>2, <2>3
<1>6. z2 \in [Task -> Seq(Task)] /\ z2[n] = <<>> /\ \A t \in Task : t # n => z2[t] = zom[t]
  BY <1>3 DEF Family
<1>7. s2 \in [Task -> State] /\ s2[n] = "RUNNABLE" /\ \A t \in Task : t # n => s2[t] = st[t]
  BY DEF Family, State
<1> HIDE DEF p2, a2, z2, s2
<1>8. \A p \in Task : Linked(z2[p])
  BY ZenonT(40), <1>3, <1>6 DEF Family
<1>9. \A t, p \in Task : t \in a2[p] <=> p2[t] = p /\ s2[t] \in Alive
  <2> SUFFICES ASSUME NEW t \in Task, NEW p \in Task
               PROVE  t \in a2[p] <=> p2[t] = p /\ s2[t] \in Alive
    OBVIOUS
  <2>1. t \in act[p] <=> par[t] = p /\ st[t] \in Alive
    BY DEF Family
  <2>2. CASE t = n
    <3>1. t \notin act[p]
      BY <2>1, <2>2 DEF Alive
    <3>2. t \in a2[p] <=> p = c
      BY <3>1, <2>2, <1>1, <1>5
    <3> QED BY <3>2, <2>2, <1>4, <1>7 DEF Alive
  <2>3. CASE t # n
    <3>1. p = n => t \notin act[p]
      BY <2>1, <1>2
    <3>2. t \in a2[p] <=> t \in act[p]
      BY <3>1, <2>3, <1>1, <1>5
    <3> QED BY <3>2, <2>1, <2>3, <1>4, <1>7
  <2> QED BY <2>2, <2>3
<1>10. \A t, p \in Task : t \in ToSet(z2[p]) <=> p2[t] = p /\ s2[t] = "ZOMBIE"
  <2> SUFFICES ASSUME NEW t \in Task, NEW p \in Task
               PROVE  t \in ToSet(z2[p]) <=> p2[t] = p /\ s2[t] = "ZOMBIE"
    OBVIOUS
  <2>1. t \in ToSet(zom[p]) <=> par[t] = p /\ st[t] = "ZOMBIE"
    BY DEF Family
  <2>2. CASE t = n
    BY <2>1, <2>2, <1>3, <1>6, <1>7
  <2>3. CASE t # n /\ p = n
    BY <2>3, <1>2, <1>3, <1>4, <1>6
  <2>4. CASE t # n /\ p # n
    BY <2>1, <2>4, <1>4, <1>6, <1>7
  <2> QED BY <2>2, <2>3, <2>4
<1>11. \A t \in Task : s2[t] # "DEAD" /\ t # Idle => p2[t] \in Task /\ s2[p2[t]] # "DEAD"
  <2> SUFFICES ASSUME NEW t \in Task, s2[t] # "DEAD", t # Idle
               PROVE  p2[t] \in Task /\ s2[p2[t]] # "DEAD"
    OBVIOUS
  <2>1. CASE t = n
    BY <2>1, <1>1, <1>4, <1>7 DEF Alive
  <2>2. CASE t # n
    <3>1. par[t] \in Task /\ st[par[t]] # "DEAD"
      BY <2>2, <1>7 DEF Family
    <3> QED BY <3>1, <2>2, <1>2, <1>4, <1>7
  <2> QED BY <2>1, <2>2
<1>12. \A t \in Task : s2[t] = "DEAD" => p2[t] = NoTask
  BY <1>4, <1>7 DEF Family
<1>13. p2[Idle] = NoTask
  BY <1>4, TasksAssumption DEF Family
<1>14. Family(p2, a2, z2, s2)
  BY <1>4, <1>5, <1>6, <1>7, <1>8, <1>9, <1>10, <1>11, <1>12, <1>13 DEF Family
<1> QED BY <1>14 DEF p2, a2, z2, s2

\* sys_exit: the running task becomes a zombie child of its parent.
LEMMA FamilyExit ==
  ASSUME NEW par, NEW act, NEW zom, NEW st, Family(par, act, zom, st),
         NEW c \in Task, c # Idle, st[c] \in Alive
  PROVE  /\ par[c] \in Task
         /\ Family(par, [act EXCEPT ![par[c]] = @ \ {c}],
                   [zom EXCEPT ![par[c]] = list_add(c, @)], [st EXCEPT ![c] = "ZOMBIE"])
<1> DEFINE q == par[c]
           l2 == list_add(c, zom[q])
           a2 == [act EXCEPT ![q] = @ \ {c}]
           z2 == [zom EXCEPT ![q] = list_add(c, @)]
           s2 == [st EXCEPT ![c] = "ZOMBIE"]
<1>1. q \in Task
  BY DEF Family, Alive
<1>2. zom[q] \in Seq(Task) /\ Linked(zom[q]) /\ c \notin ToSet(zom[q])
  BY <1>1 DEF Family, Alive
<1> HIDE DEF q
<1>3. l2 \in Seq(Task) /\ ToSet(l2) = ToSet(zom[q]) \cup {c} /\ Linked(l2)
  BY <1>2, ListAdd
<1>4. z2 = [zom EXCEPT ![q] = l2]
  OBVIOUS
<1> HIDE DEF l2, z2
<1>5. /\ a2 \in [Task -> SUBSET Task] /\ a2[q] = act[q] \ {c}
      /\ \A p \in Task : p # q => a2[p] = act[p]
  BY <1>1 DEF Family
<1>6. z2 \in [Task -> Seq(Task)] /\ z2[q] = l2 /\ \A p \in Task : p # q => z2[p] = zom[p]
  BY <1>1, <1>3, <1>4 DEF Family
<1>7. s2 \in [Task -> State] /\ s2[c] = "ZOMBIE" /\ \A t \in Task : t # c => s2[t] = st[t]
  BY DEF Family, State
<1> HIDE DEF a2, s2
<1>8. \A p \in Task : Linked(z2[p])
  BY <1>3, <1>6 DEF Family
<1>9. \A t, p \in Task : t \in a2[p] <=> par[t] = p /\ s2[t] \in Alive
  <2> SUFFICES ASSUME NEW t \in Task, NEW p \in Task
               PROVE  t \in a2[p] <=> par[t] = p /\ s2[t] \in Alive
    OBVIOUS
  <2>1. t \in act[p] <=> par[t] = p /\ st[t] \in Alive
    BY DEF Family
  <2>2. CASE t = c
    <3>1. s2[t] \notin Alive
      BY <2>2, <1>7 DEF Alive
    <3>2. t \notin a2[p]
      BY <2>1, <2>2, <1>1, <1>5 DEF q
    <3> QED BY <3>1, <3>2
  <2>3. CASE t # c
    BY <2>1, <2>3, <1>5, <1>7
  <2> QED BY <2>2, <2>3
<1>10. \A t, p \in Task : t \in ToSet(z2[p]) <=> par[t] = p /\ s2[t] = "ZOMBIE"
  <2> SUFFICES ASSUME NEW t \in Task, NEW p \in Task
               PROVE  t \in ToSet(z2[p]) <=> par[t] = p /\ s2[t] = "ZOMBIE"
    OBVIOUS
  <2>1. t \in ToSet(zom[p]) <=> par[t] = p /\ st[t] = "ZOMBIE"
    BY DEF Family
  <2>2. t \in ToSet(z2[p]) <=> t \in ToSet(zom[p]) \/ (t = c /\ p = q)
    BY <1>3, <1>6
  <2>3. CASE t = c
    <3>1. t \notin ToSet(zom[p])
      BY <2>1, <2>3 DEF Alive
    <3> QED BY <3>1, <2>2, <2>3, <1>7 DEF q
  <2>4. CASE t # c
    BY <2>1, <2>2, <2>4, <1>7
  <2> QED BY <2>3, <2>4
<1>11. \A t \in Task : s2[t] = "DEAD" <=> st[t] = "DEAD"
  BY <1>7 DEF Alive
<1>12. Family(par, a2, z2, s2)
  BY <1>5, <1>6, <1>7, <1>8, <1>9, <1>10, <1>11 DEF Family
<1>13. Family(par, [act EXCEPT ![q] = @ \ {c}], [zom EXCEPT ![q] = list_add(c, @)],
              [st EXCEPT ![c] = "ZOMBIE"])
  BY <1>12 DEF a2, z2, s2
<1> QED BY <1>1, <1>13 DEF q

\* What kthread_release(d) of the task c makes of the parent pointers, the
\* child lists and the states.
FreedParent(par, act, zom, d) ==
  [t \in Task |-> IF t = d THEN NoTask ELSE
                  IF t \in act[d] \cup ToSet(zom[d]) THEN InitTask ELSE par[t]]
FreedActive(act, d) == [[act EXCEPT ![InitTask] = @ \cup act[d]] EXCEPT ![d] = {}]
Unlinked(zom, c, d) == [zom EXCEPT ![c] = list_del(d, @)]
Spliced(z, d) == [z EXCEPT ![InitTask] = list_splice(z[d], @)]
FreedZombie(zom, c, d) == [Spliced(Unlinked(zom, c, d), d) EXCEPT ![d] = <<>>]
FreedState(st, d) == [st EXCEPT ![d] = "DEAD"]

\* kthread_release: the children of the task that is freed go to init.
LEMMA FamilyRelease ==
  ASSUME NEW par, NEW act, NEW zom, NEW st, Family(par, act, zom, st),
         NEW c \in Task, NEW d \in Task, par[d] = c, st[d] = "ZOMBIE", c # d,
         d # InitTask, st[InitTask] # "DEAD"
  PROVE  Family(FreedParent(par, act, zom, d), FreedActive(act, d), FreedZombie(zom, c, d),
                FreedState(st, d))
<1> USE TasksAssumption
<1> DEFINE moved == act[d] \cup ToSet(zom[d])
           zombie == [zom EXCEPT ![c] = list_del(d, @)]
           spliced == [zombie EXCEPT ![InitTask] = list_splice(zombie[d], @)]
           p2 == [t \in Task |-> IF t = d THEN NoTask ELSE
                                 IF t \in act[d] \cup ToSet(zom[d]) THEN InitTask ELSE par[t]]
           a2 == [[act EXCEPT ![InitTask] = @ \cup act[d]] EXCEPT ![d] = {}]
           z2 == [spliced EXCEPT ![d] = <<>>]
           s2 == [st EXCEPT ![d] = "DEAD"]
<1>1. d # Idle
  BY DEF Family
<1>2. \A t \in Task : t \in moved <=> par[t] = d
  <2> SUFFICES ASSUME NEW t \in Task PROVE t \in moved <=> par[t] = d
    OBVIOUS
  <2>1. /\ t \in act[d] <=> par[t] = d /\ st[t] \in Alive
        /\ t \in ToSet(zom[d]) <=> par[t] = d /\ st[t] = "ZOMBIE"
        /\ st[t] = "DEAD" => par[t] = NoTask
        /\ st[t] \in State
    BY DEF Family
  <2> QED BY <2>1 DEF Alive, State
<1>3. \A t \in Task : p2[t] = IF t = d THEN NoTask ELSE IF par[t] = d THEN InitTask ELSE par[t]
  BY <1>2
<1>4. p2 \in [Task -> Task \cup {NoTask}]
  <2>1. \A t \in Task : par[t] \in Task \cup {NoTask}
    BY DEF Family
  <2> QED BY <2>1
<1>5. s2 \in [Task -> State] /\ s2[d] = "DEAD" /\ \A t \in Task : t # d => s2[t] = st[t]
  BY DEF Family, State
<1>6. /\ a2 \in [Task -> SUBSET Task] /\ a2[d] = {} /\ a2[InitTask] = act[InitTask] \cup act[d]
      /\ \A p \in Task : p # d /\ p # InitTask => a2[p] = act[p]
  <2>1. act \in [Task -> SUBSET Task]
    BY DEF Family
  <2>2. a2 = [t \in Task |-> IF t = d THEN {} ELSE
                             IF t = InitTask THEN act[InitTask] \cup act[d] ELSE act[t]]
    BY <2>1
  <2>3. \A t \in Task : act[t] \subseteq Task
    BY <2>1
  <2> HIDE DEF a2
  <2> QED BY <2>2, <2>3
<1>7. /\ zombie \in [Task -> Seq(Task)]
      /\ \A p \in Task : Linked(zombie[p]) /\ ToSet(zombie[p]) = ToSet(zom[p]) \ {d}
  <2> DEFINE l2 == list_del(d, zom[c])
  <2>1. zom[c] \in Seq(Task) /\ Linked(zom[c]) /\ zom \in [Task -> Seq(Task)]
    BY DEF Family
  <2>2. l2 \in Seq(Task) /\ ToSet(l2) = ToSet(zom[c]) \ {d} /\ Linked(l2)
    BY <2>1, ListDel
  <2>3. zombie = [zom EXCEPT ![c] = l2]
    OBVIOUS
  <2> HIDE DEF l2
  <2>4. zombie \in [Task -> Seq(Task)] /\ zombie[c] = l2 /\ \A p \in Task : p # c => zombie[p] = zom[p]
    BY <2>1, <2>2, <2>3
  <2>5. \A p \in Task : Linked(zom[p]) /\ (p # c => d \notin ToSet(zom[p]))
    BY DEF Family
  <2>6. \A p \in Task : Linked(zombie[p]) /\ ToSet(zombie[p]) = ToSet(zom[p]) \ {d}
    <3> SUFFICES ASSUME NEW p \in Task
                 PROVE  Linked(zombie[p]) /\ ToSet(zombie[p]) = ToSet(zom[p]) \ {d}
      OBVIOUS
    <3>1. CASE p = c
      BY <3>1, <2>2, <2>4
    <3>2. CASE p # c
      BY <3>2, <2>4, <2>5
    <3> QED BY <3>1, <3>2
  <2> QED BY <2>4, <2>6
<1> HIDE DEF zombie
<1>8. ToSet(zombie[d]) \cap ToSet(zombie[InitTask]) = {}
  <2> SUFFICES ASSUME NEW t, t \in ToSet(zombie[d]), t \in ToSet(zombie[InitTask]) PROVE FALSE
    OBVIOUS
  <2>1. t \in ToSet(zom[d]) /\ t \in ToSet(zom[InitTask])
    BY <1>7
  <2>2. zom[d] \in Seq(Task)
    BY DEF Family
  <2>3. t \in Task
    BY <2>1, <2>2, ToSetElements
  <2> QED BY <2>1, <2>3 DEF Family
<1>9. /\ z2 \in [Task -> Seq(Task)]
      /\ \A p \in Task : Linked(z2[p])
      /\ ToSet(z2[d]) = {}
      /\ ToSet(z2[InitTask]) = (ToSet(zom[InitTask]) \cup ToSet(zom[d])) \ {d}
      /\ \A p \in Task : p # d /\ p # InitTask => ToSet(z2[p]) = ToSet(zom[p]) \ {d}
  <2> DEFINE w == list_splice(zombie[d], zombie[InitTask])
  <2>1. w \in Seq(Task) /\ ToSet(w) = ToSet(zombie[d]) \cup ToSet(zombie[InitTask]) /\ Linked(w)
    <3>1. /\ zombie[d] \in Seq(Task) /\ zombie[InitTask] \in Seq(Task)
          /\ Linked(zombie[d]) /\ Linked(zombie[InitTask])
      BY <1>7
    <3> QED BY <3>1, <1>8, ListSplice
  <2>2. spliced = [zombie EXCEPT ![InitTask] = w]
    OBVIOUS
  <2> HIDE DEF w
  <2>3. ToSet(<<>>) = {} /\ Linked(<<>>) /\ <<>> \in Seq(Task)
    BY DEF ToSet, Linked
  <2>4. /\ z2 \in [Task -> Seq(Task)] /\ z2[d] = <<>> /\ z2[InitTask] = w
        /\ \A p \in Task : p # d /\ p # InitTask => z2[p] = zombie[p]
    <3>1. zombie \in [Task -> Seq(Task)]
      BY <1>7
    <3>2. /\ spliced \in [Task -> Seq(Task)] /\ spliced[InitTask] = w
          /\ \A p \in Task : p # InitTask => spliced[p] = zombie[p]
      BY <3>1, <2>1, <2>2
    <3> QED BY <3>2, <2>3
  <2> HIDE DEF z2
  <2>5. ToSet(z2[InitTask]) = (ToSet(zom[InitTask]) \cup ToSet(zom[d])) \ {d}
    BY <2>1, <2>4, <1>7
  <2>6. \A p \in Task : p # d /\ p # InitTask => ToSet(z2[p]) = ToSet(zom[p]) \ {d}
    BY <2>4, <1>7
  <2>7. \A p \in Task : Linked(z2[p])
    BY <2>1, <2>3, <2>4, <1>7
  <2> QED BY <2>3, <2>4, <2>5, <2>6, <2>7
<1> HIDE DEF moved, p2, a2, z2, s2
<1>10. \A t, p \in Task : t \in a2[p] <=> p2[t] = p /\ s2[t] \in Alive
  <2> SUFFICES ASSUME NEW t \in Task, NEW p \in Task
               PROVE  t \in a2[p] <=> p2[t] = p /\ s2[t] \in Alive
    OBVIOUS
  <2>1. /\ t \in act[p] <=> par[t] = p /\ st[t] \in Alive
        /\ t \in act[d] <=> par[t] = d /\ st[t] \in Alive
        /\ t \in act[InitTask] <=> par[t] = InitTask /\ st[t] \in Alive
    BY DEF Family
  <2>2. CASE t = d
    <3>1. t \notin act[p] /\ t \notin act[d] /\ t \notin act[InitTask]
      BY <2>1, <2>2 DEF Alive
    <3>2. t \notin a2[p]
      BY <3>1, <1>6
    <3> QED BY <3>2, <2>2, <1>5 DEF Alive
  <2>3. CASE t # d
    <3>1. s2[t] = st[t] /\ p2[t] = IF par[t] = d THEN InitTask ELSE par[t]
      BY <2>3, <1>3, <1>5
    <3>2. CASE p = d
      BY <3>1, <3>2, <1>6
    <3>3. CASE p = InitTask
      BY <3>1, <3>3, <2>1, <1>6
    <3>4. CASE p # d /\ p # InitTask
      BY <3>1, <3>4, <2>1, <1>6
    <3> QED BY <3>2, <3>3, <3>4
  <2> QED BY <2>2, <2>3
<1>11. \A t, p \in Task : t \in ToSet(z2[p]) <=> p2[t] = p /\ s2[t] = "ZOMBIE"
  <2> SUFFICES ASSUME NEW t \in Task, NEW p \in Task
               PROVE  t \in ToSet(z2[p]) <=> p2[t] = p /\ s2[t] = "ZOMBIE"
    OBVIOUS
  <2>1. /\ t \in ToSet(zom[p]) <=> par[t] = p /\ st[t] = "ZOMBIE"
        /\ t \in ToSet(zom[d]) <=> par[t] = d /\ st[t] = "ZOMBIE"
        /\ t \in ToSet(zom[InitTask]) <=> par[t] = InitTask /\ st[t] = "ZOMBIE"
    BY DEF Family
  <2>2. CASE t = d
    <3>1. t \notin ToSet(z2[p])
      BY <2>2, <1>9
    <3> QED BY <3>1, <2>2, <1>5
  <2>3. CASE t # d
    <3>1. s2[t] = st[t] /\ p2[t] = IF par[t] = d THEN InitTask ELSE par[t]
      BY <2>3, <1>3, <1>5
    <3>2. CASE p = d
      BY <3>1, <3>2, <1>9
    <3>3. CASE p = InitTask
      BY <3>1, <3>3, <2>1, <2>3, <1>9
    <3>4. CASE p # d /\ p # InitTask
      BY <3>1, <3>4, <2>1, <2>3, <1>9
    <3> QED BY <3>2, <3>3, <3>4
  <2> QED BY <2>2, <2>3
<1>12. \A t \in Task : s2[t] # "DEAD" /\ t # Idle => p2[t] \in Task /\ s2[p2[t]] # "DEAD"
  <2> SUFFICES ASSUME NEW t \in Task, s2[t] # "DEAD", t # Idle
               PROVE  p2[t] \in Task /\ s2[p2[t]] # "DEAD"
    OBVIOUS
  <2>1. t # d /\ st[t] # "DEAD"
    BY <1>5
  <2>2. par[t] \in Task /\ st[par[t]] # "DEAD"
    BY <2>1 DEF Family
  <2>3. CASE par[t] = d
    BY <2>1, <2>3, <1>3, <1>5
  <2>4. CASE par[t] # d
    BY <2>1, <2>2, <2>4, <1>3, <1>5
  <2> QED BY <2>3, <2>4
<1>13. \A t \in Task : s2[t] = "DEAD" => p2[t] = NoTask
  <2> SUFFICES ASSUME NEW t \in Task, s2[t] = "DEAD" PROVE p2[t] = NoTask
    OBVIOUS
  <2>1. CASE t = d
    BY <2>1, <1>3
  <2>2. CASE t # d
    <3>1. par[t] = NoTask
      BY <2>2, <1>5 DEF Family
    <3> QED BY <3>1, <2>2, <1>3
  <2> QED BY <2>1, <2>2
<1>14. p2[Idle] = NoTask
  <2>1. par[Idle] = NoTask
    BY DEF Family
  <2> QED BY <2>1, <1>1, <1>3
<1>15. Family(p2, a2, z2, s2)
  BY <1>4, <1>5, <1>6, <1>9, <1>10, <1>11, <1>12, <1>13, <1>14 DEF Family
<1>16. /\ p2 = FreedParent(par, act, zom, d) /\ a2 = FreedActive(act, d)
       /\ z2 = FreedZombie(zom, c, d) /\ s2 = FreedState(st, d)
  BY DEF p2, a2, z2, s2, zombie, spliced, FreedParent, FreedActive, FreedZombie, FreedState,
         Unlinked, Spliced
<1> QED BY <1>15, <1>16
-----------------------------------------------------------------------------
(* The steps *)

\* The running task is runnable, and not the idle task outside the idle loop.
LEMMA CurrentFacts ==
  ASSUME SchedInv
  PROVE  /\ current \in Task /\ state[current] = "RUNNABLE"
         /\ state \in [Task -> State] /\ state[Idle] = "RUNNABLE"
         /\ pc[current] \notin {"boot", "idle"} => current # Idle
BY TasksAssumption DEF SchedInv, Queues, ControlInv, IdleInv

\* Waking and sleeping do not change where tasks are in the code.
LEMMA ControlSame ==
  ASSUME ControlInv, pc' = pc, arg' = arg, params' = params, parent' = parent,
         \A t \in Task : state'[t] = state[t] \/ (state[t] \in Alive /\ state'[t] \in Alive),
         state'[Idle] = "RUNNABLE"
  PROVE  ControlInv'
<1>1. \A t \in Task : /\ state'[t] = "ZOMBIE" <=> state[t] = "ZOMBIE"
                      /\ state'[t] = "DEAD" <=> state[t] = "DEAD"
  BY DEF Alive
<1> QED BY <1>1, TasksAssumption DEF ControlInv, IdleInv

\* wait() in any of the contexts it is called from.
LEMMA WaitStep ==
  ASSUME SchedInv, current # Idle, NEW id \in Queue, NEW ready, NEW st,
         Queues(run_list, ready, queue, st), st[Idle] = "RUNNABLE",
         wait(id, ready, st)
  PROVE  /\ Queues(run_list', ready_list', queue', state')
         /\ current' \in Task /\ current' \in ToSet(run_list')
         /\ state' = [st EXCEPT ![current] = "WAIT"]
<1> DEFINE r2 == list_del(current, run_list)
           s2 == [st EXCEPT ![current] = "WAIT"]
<1>1. queue' = [queue EXCEPT ![id] = list_add(current, @)] /\ pick_next(r2, ready, s2)
  BY DEF wait
<1>2. current \in Task /\ current \in ToSet(run_list)
  BY DEF SchedInv
<1>3. Queues(r2, ready, queue', s2)
  BY <1>1, <1>2, QueuesWait
<1>4. s2[Idle] = "RUNNABLE"
  BY <1>2, TasksAssumption DEF Queues
<1> HIDE DEF r2, s2
<1>5. /\ Queues(run_list', ready_list', queue', s2) /\ state' = s2
      /\ current' \in Task /\ current' \in ToSet(run_list')
  BY <1>1, <1>3, <1>4, TasksAssumption, PickNext
<1> QED BY <1>5 DEF s2

\* sched_tick
LEMMA TickInv == ASSUME SchedInv, sched_tick PROVE SchedInv'
<1> DEFINE left == IF time_slice[current] # 0 THEN time_slice[current] - 1 ELSE 0
           sl == [time_slice EXCEPT ![current] = left]
<1>1. /\ current \in Task /\ current \in ToSet(run_list) /\ state[Idle] = "RUNNABLE"
      /\ time_slice \in [Task -> 0..TimeSlice] /\ Queues(run_list, ready_list, queue, state)
  BY CurrentFacts DEF SchedInv, RestOK
<1>2. left \in 0..TimeSlice
  <2>1. time_slice[current] \in 0..TimeSlice
    BY <1>1
  <2> QED BY <2>1, TimeSliceAssumption
<1>3. sl \in [Task -> 0..TimeSlice]
  BY <1>1, <1>2
<1>4. UNCHANGED <<family, queue, pc, arg, exec>>
  BY DEF sched_tick
<1>5. CASE left # 0
  <2>1. time_slice' = sl /\ UNCHANGED <<run_list, ready_list, current, state>>
    BY <1>5 DEF sched_tick, schedule_expired
  <2> QED BY <2>1, <1>3, <1>4
       DEF SchedInv, RestOK, ControlInv, IdleInv, family, exec
<1>6. CASE left = 0
  <2>1. schedule_expired(sl)
    BY <1>6 DEF sched_tick
  <2>2. /\ time_slice' = [sl EXCEPT ![current] = TimeSlice]
        /\ pick_next(list_del(current, run_list), list_add(current, ready_list), state)
    BY <2>1 DEF schedule_expired
  <2>3. time_slice' \in [Task -> 0..TimeSlice]
    BY <2>2, <1>3, TimeSliceAssumption
  <2>4. Queues(list_del(current, run_list), list_add(current, ready_list), queue, state)
    BY <1>1, QueuesExpired
  <2>5. /\ Queues(run_list', ready_list', queue, state) /\ state' = state
        /\ current' \in Task /\ current' \in ToSet(run_list')
    BY <2>2, <2>4, <1>1, TasksAssumption, PickNext
  <2> QED BY <2>3, <2>5, <1>4
       DEF SchedInv, RestOK, ControlInv, IdleInv, family, exec
<1> QED BY <1>5, <1>6

\* wake_up of any queue, with the rest of the state left alone.
LEMMA WakeStep ==
  ASSUME SchedInv, NEW id \in Queue, wake_up(id), ready_list' = ready_list, current' = current
  PROVE  /\ Queues(run_list', ready_list', queue', state')
         /\ current' \in Task /\ current' \in ToSet(run_list')
         /\ state' \in [Task -> State] /\ state'[Idle] = "RUNNABLE"
         /\ \A t \in Task : state'[t] = state[t] \/ (state[t] \in Alive /\ state'[t] \in Alive)
         /\ Family(parent, chld_active, chld_zombie, state')
<1>1. /\ run_list' = WokenRun(run_list, queue, id) /\ queue' = WokenQueue(queue, id)
      /\ state' = WokenState(state, queue, id)
  BY DEF wake_up
<1>2. Queues(run_list, ready_list, queue, state)
  BY DEF SchedInv
<1>3. /\ Queues(run_list', ready_list, queue', state')
      /\ ToSet(run_list) \subseteq ToSet(run_list')
      /\ \A t \in Task : state'[t] = state[t] \/ (state[t] = "WAIT" /\ state'[t] = "RUNNABLE")
  BY <1>1, <1>2, QueuesWake
<1>4. state' \in [Task -> State]
  BY <1>3 DEF Queues
<1>5. \A t \in Task : state'[t] = state[t] \/ (state[t] \in Alive /\ state'[t] \in Alive)
  BY <1>3 DEF Alive
<1>6. state'[Idle] = "RUNNABLE"
  BY <1>3, CurrentFacts, TasksAssumption
<1>7. Family(parent, chld_active, chld_zombie, state')
  BY <1>4, <1>5, FamilySame DEF SchedInv
<1> QED BY <1>3, <1>4, <1>5, <1>6, <1>7 DEF SchedInv

\* The queue of a device
LEMMA IoQueueIn == ASSUME NEW d \in IoQueue PROVE <<"io", d>> \in Queue
BY DEF Queue

\* IoWake
LEMMA IoWakeInv == ASSUME SchedInv, NEW d \in IoQueue, IoWake(d) PROVE SchedInv'
<1>1. /\ wake_up(<<"io", d>>) /\ UNCHANGED <<ready_list, current, time_slice, family, pc, arg, exec>>
  BY DEF IoWake
<1>2. <<"io", d>> \in Queue
  BY IoQueueIn
<1>3. /\ Queues(run_list', ready_list', queue', state')
      /\ current' \in Task /\ current' \in ToSet(run_list')
      /\ state'[Idle] = "RUNNABLE"
      /\ \A t \in Task : state'[t] = state[t] \/ (state[t] \in Alive /\ state'[t] \in Alive)
      /\ Family(parent, chld_active, chld_zombie, state')
  BY <1>1, <1>2, WakeStep
<1>4. ControlInv'
  BY <1>1, <1>3, ControlSame DEF SchedInv, family, exec
<1> QED BY <1>1, <1>3, <1>4 DEF SchedInv, RestOK, family, exec

\* wake_up_all
LEMMA WakeAllInv == ASSUME SchedInv, NEW d \in IoQueue, wake_up_all(d) PROVE SchedInv'
<1> DEFINE id == <<"io", d>>
<1>1. /\ run_list' = list_splice(queue[id], run_list)
      /\ queue' = [queue EXCEPT ![id] = <<>>]
      /\ state' = [t \in Task |-> IF t \in ToSet(queue[id]) THEN "RUNNABLE" ELSE state[t]]
      /\ UNCHANGED <<ready_list, current, time_slice, family, pc, arg, exec>>
  BY DEF wake_up_all
<1>2. id \in Queue
  BY IoQueueIn
<1> HIDE DEF id
<1>3. Queues(run_list, ready_list, queue, state)
  BY DEF SchedInv
<1>4. /\ Queues(run_list', ready_list, queue', state')
      /\ ToSet(run_list) \subseteq ToSet(run_list')
  <2>1. /\ Queues(list_splice(queue[id], run_list), ready_list, [queue EXCEPT ![id] = <<>>],
                  [t \in Task |-> IF t \in ToSet(queue[id]) THEN "RUNNABLE" ELSE state[t]])
        /\ ToSet(run_list) \subseteq ToSet(list_splice(queue[id], run_list))
    BY <1>2, <1>3, QueuesWakeAll
  <2> QED BY <1>1, <2>1
<1>5. \A t \in Task : t \in ToSet(queue[id]) => state[t] = "WAIT"
  BY <1>2, <1>3 DEF Queues
<1>6. \A t \in Task : state'[t] = state[t] \/ (state[t] \in Alive /\ state'[t] \in Alive)
  BY <1>1, <1>5 DEF Alive
<1>7. state' \in [Task -> State] /\ state'[Idle] = "RUNNABLE"
  BY <1>1, <1>4, CurrentFacts, TasksAssumption DEF Queues
<1>8. Family(parent, chld_active, chld_zombie, state')
  BY <1>6, <1>7, FamilySame DEF SchedInv
<1>9. ControlInv'
  BY <1>1, <1>6, <1>7, ControlSame DEF SchedInv, family, exec
<1> QED BY <1>1, <1>4, <1>8, <1>9 DEF SchedInv, RestOK, family, exec

\* The current task sleeps and nothing else changes: IoWait and the first
\* branch of the wait_event loops.
LEMMA SleepInv ==
  ASSUME SchedInv, current # Idle, NEW id \in Queue, wait(id, ready_list, state),
         UNCHANGED <<time_slice, family, pc, arg, exec>>
  PROVE  SchedInv'
<1>1. Queues(run_list, ready_list, queue, state) /\ state[Idle] = "RUNNABLE"
  BY CurrentFacts DEF SchedInv
<1>2. /\ Queues(run_list', ready_list', queue', state')
      /\ current' \in Task /\ current' \in ToSet(run_list')
      /\ state' = [state EXCEPT ![current] = "WAIT"]
  BY <1>1, WaitStep
<1>3. \A t \in Task : state'[t] = state[t] \/ (state[t] \in Alive /\ state'[t] \in Alive)
  BY <1>2, CurrentFacts DEF Alive
<1>4. state' \in [Task -> State] /\ state'[Idle] = "RUNNABLE"
  BY <1>2, CurrentFacts, TasksAssumption DEF Queues
<1>5. Family(parent, chld_active, chld_zombie, state')
  BY <1>3, <1>4, FamilySame DEF SchedInv
<1>6. ControlInv'
  BY <1>3, <1>4, ControlSame DEF SchedInv, family, exec
<1> QED BY <1>2, <1>5, <1>6 DEF SchedInv, RestOK, family, exec

\* IoWait
LEMMA IoWaitInv == ASSUME SchedInv, NEW d \in IoQueue, IoWait(d) PROVE SchedInv'
<1>1. /\ pc[current] \in {"user", "init_start", "exec_load"}
      /\ wait(<<"io", d>>, ready_list, state) /\ UNCHANGED <<time_slice, family, pc, arg, exec>>
  BY DEF IoWait
<1>2. current # Idle
  BY <1>1, CurrentFacts
<1>3. <<"io", d>> \in Queue
  BY IoQueueIn
<1> QED BY <1>1, <1>2, <1>3, SleepInv

\* A step that changes neither a list nor a state nor the tree.
LEMMA QuietInv ==
  ASSUME SchedInv, UNCHANGED <<lists, state, family>>, RestOK',
         NEW k, pc' = [pc EXCEPT ![current] = k], current # Idle,
         \A t \in Task : t # current => arg'[t] = arg[t] /\ params'[t] = params[t],
         k = "wait_chk" => arg'[current] \in Task,
         k \in {"exec_wait", "exec_reap", "wait_pid"} =>
            arg'[current] \in Task /\ parent[arg'[current]] = current,
         k # "exec_load", current = InitTask => k \in InitPc
  PROVE  SchedInv'
<1>1. /\ run_list' = run_list /\ ready_list' = ready_list /\ queue' = queue
      /\ current' = current /\ state' = state /\ parent' = parent
      /\ chld_active' = chld_active /\ chld_zombie' = chld_zombie
  BY DEF lists, family
<1>2. current \in Task /\ state[current] = "RUNNABLE"
  BY CurrentFacts
<1>3. pc \in [Task -> Pc]
  BY DEF SchedInv, RestOK
<1>4. pc'[current] = k /\ \A t \in Task : t # current => pc'[t] = pc[t]
  BY <1>2, <1>3
<1>5. ControlInv
  BY DEF SchedInv
<1>6. ControlInv'
  <2>1. \A t \in Task : state'[t] \in {"ZOMBIE", "DEAD"} => pc'[t] = "none"
    BY <1>1, <1>2, <1>4, <1>5 DEF ControlInv
  <2>2. \A t \in Task : pc'[t] = "wait_chk" => arg'[t] \in Task
    BY <1>4, <1>5 DEF ControlInv
  <2>3. \A t \in Task : pc'[t] \in {"exec_wait", "exec_reap", "wait_pid"} =>
                           arg'[t] \in Task /\ parent'[arg'[t]] = t
    BY <1>1, <1>4, <1>5 DEF ControlInv
  <2>4. \A t \in Task : pc'[t] = "exec_load" => params'[t] \in Task
    BY <1>4, <1>5 DEF ControlInv
  <2>5. pc'[InitTask] \in InitPc
    BY <1>4, <1>5, TasksAssumption DEF ControlInv
  <2>6. pc'[Idle] = pc[Idle]
    BY <1>4, TasksAssumption
  <2> QED BY <2>1, <2>2, <2>3, <2>4, <2>5, <2>6, <1>1, <1>5 DEF ControlInv, IdleInv
<1> QED BY <1>1, <1>6 DEF SchedInv

\* exec_return
LEMMA ExecReturnInv == ASSUME SchedInv, exec_return PROVE SchedInv'
<1> DEFINE k == IF ret[current] = "ERROR" THEN "exec_reap" ELSE AfterExec(current, TRUE)
<1>1. /\ pc[current] = "exec_wait" /\ pc' = [pc EXCEPT ![current] = k]
      /\ arg' = [arg EXCEPT ![current] = IF ret[current] = "ERROR" THEN @ ELSE NoTask]
      /\ ret' = [ret EXCEPT ![current] = "unset"]
      /\ UNCHANGED <<lists, state, family, params, argc>>
  BY DEF exec_return
<1>2. current \in Task /\ current # Idle
  BY <1>1, CurrentFacts
<1>3. k \in Pc /\ k \notin {"wait_chk", "exec_load", "exec_wait", "wait_pid"}
      /\ (current = InitTask => k \in InitPc)
      /\ (k = "exec_reap" => ret[current] = "ERROR")
  BY DEF AfterExec, Pc, Preemptible, InitPc
<1> HIDE DEF k
<1>4. RestOK
  BY DEF SchedInv
<1>5. RestOK'
  BY <1>1, <1>2, <1>3, <1>4 DEF RestOK, lists
<1>6. \A t \in Task : t # current => arg'[t] = arg[t] /\ params'[t] = params[t]
  BY <1>1, <1>4 DEF RestOK
<1>7. k = "exec_reap" => arg'[current] \in Task /\ parent[arg'[current]] = current
  <2> SUFFICES ASSUME k = "exec_reap" PROVE arg'[current] \in Task /\ parent[arg'[current]] = current
    OBVIOUS
  <2>1. arg'[current] = arg[current]
    BY <1>1, <1>2, <1>3, <1>4 DEF RestOK
  <2>2. arg[current] \in Task /\ parent[arg[current]] = current
    BY <1>1, <1>2 DEF SchedInv, ControlInv
  <2> QED BY <2>1, <2>2
<1> QED BY <1>1, <1>2, <1>3, <1>5, <1>6, <1>7, QuietInv

\* exec_user_mode
LEMMA ExecUserInv == ASSUME SchedInv, exec_user_mode PROVE SchedInv'
<1>1. /\ pc[current] = "exec_user" /\ pc' = [pc EXCEPT ![current] = "user"]
      /\ \E v \in {"own", "stale"} : argc' = [argc EXCEPT ![current] = v]
      /\ params' = [params EXCEPT ![current] = NoTask]
      /\ UNCHANGED <<lists, state, family, arg, ret>>
  BY DEF exec_user_mode
<1>2. current \in Task /\ current # Idle
  BY <1>1, CurrentFacts
<1>3. current # InitTask
  BY <1>1 DEF SchedInv, ControlInv, InitPc
<1>4. RestOK
  BY DEF SchedInv
<1>5. RestOK'
  BY <1>1, <1>2, <1>4 DEF RestOK, lists, Pc, Preemptible
<1>6. \A t \in Task : t # current => arg'[t] = arg[t] /\ params'[t] = params[t]
  BY <1>1, <1>4 DEF RestOK
<1> QED BY <1>1, <1>2, <1>3, <1>5, <1>6, QuietInv

\* sys_wait_pid
LEMMA SysWaitPidInv == ASSUME SchedInv, NEW t \in Task, sys_wait_pid(t) PROVE SchedInv'
<1>1. /\ pc[current] = "user" /\ pc' = [pc EXCEPT ![current] = "wait_chk"]
      /\ arg' = [arg EXCEPT ![current] = t]
      /\ UNCHANGED <<lists, state, family, exec>>
  BY DEF sys_wait_pid
<1>2. current \in Task /\ current # Idle
  BY <1>1, CurrentFacts
<1>3. current # InitTask
  BY <1>1 DEF SchedInv, ControlInv, InitPc
<1>4. RestOK
  BY DEF SchedInv
<1>5. RestOK'
  BY <1>1, <1>2, <1>4 DEF RestOK, lists, exec, Pc, Preemptible
<1>6. arg'[current] = t /\ \A u \in Task : u # current => arg'[u] = arg[u] /\ params'[u] = params[u]
  BY <1>1, <1>2, <1>4 DEF RestOK, exec
<1> QED BY <1>1, <1>2, <1>3, <1>5, <1>6, QuietInv

\* wait_pid_check
LEMMA WaitPidCheckInv == ASSUME SchedInv, wait_pid_check PROVE SchedInv'
<1> DEFINE mine == parent[arg[current]] = current
           k == IF mine THEN "wait_pid" ELSE "user"
<1>1. /\ pc[current] = "wait_chk" /\ pc' = [pc EXCEPT ![current] = k]
      /\ arg' = [arg EXCEPT ![current] = IF mine THEN @ ELSE NoTask]
      /\ UNCHANGED <<lists, state, family, exec>>
  BY DEF wait_pid_check
<1>2. current \in Task /\ current # Idle
  BY <1>1, CurrentFacts
<1>3. current # InitTask /\ arg[current] \in Task
  BY <1>1, <1>2 DEF SchedInv, ControlInv, InitPc
<1>4. RestOK
  BY DEF SchedInv
<1>5. k \in {"wait_pid", "user"} /\ (k = "wait_pid" => mine)
  OBVIOUS
<1> HIDE DEF k
<1>6. RestOK'
  BY <1>1, <1>2, <1>4, <1>5 DEF RestOK, lists, exec, Pc, Preemptible
<1>7. \A u \in Task : u # current => arg'[u] = arg[u] /\ params'[u] = params[u]
  BY <1>1, <1>4 DEF RestOK, exec
<1>8. mine => arg'[current] = arg[current]
  BY <1>1, <1>2, <1>4 DEF RestOK
<1>9. k = "wait_pid" => arg'[current] \in Task /\ parent[arg'[current]] = current
  BY <1>3, <1>5, <1>8
<1> QED BY <1>1, <1>2, <1>3, <1>5, <1>6, <1>7, <1>9, QuietInv

\* sys_wait_chld
LEMMA SysWaitChldInv == ASSUME SchedInv, sys_wait_chld PROVE SchedInv'
<1>1. /\ pc[current] \in {"user", "init_loop"} /\ pc' = [pc EXCEPT ![current] = "wait_chld"]
      /\ UNCHANGED <<lists, state, family, arg, exec>>
  BY DEF sys_wait_chld
<1>2. current \in Task /\ current # Idle
  BY <1>1, CurrentFacts
<1>3. RestOK'
  BY <1>1, <1>2 DEF SchedInv, RestOK, lists, exec, Pc, Preemptible
<1>4. arg' = arg /\ params' = params
  BY <1>1 DEF exec
<1>5. "wait_chld" \in InitPc
  BY DEF InitPc
<1> QED BY <1>1, <1>2, <1>3, <1>4, <1>5, QuietInv

\* exec_wrapper
LEMMA ExecWrapperInv ==
  ASSUME SchedInv, NEW r \in {"SUCCESS", "ERROR"}, exec_wrapper(r)
  PROVE  SchedInv'
<1> DEFINE k == IF r = "SUCCESS" THEN "exec_user" ELSE "exec_fail"
           id == ParamsWait(params[current])
<1>1. /\ pc[current] = "exec_load" /\ pc' = [pc EXCEPT ![current] = k]
      /\ ret' = [ret EXCEPT ![params[current]] = r]
      /\ wake_up(id)
      /\ UNCHANGED <<ready_list, current, time_slice, family, arg, params, argc>>
  BY DEF exec_wrapper
<1>2. current \in Task /\ current # Idle /\ state[current] = "RUNNABLE"
  BY <1>1, CurrentFacts
<1>3. current # InitTask /\ params[current] \in Task
  BY <1>1, <1>2 DEF SchedInv, ControlInv, InitPc
<1>4. id \in Queue
  BY <1>3 DEF ParamsWait, Queue
<1>5. k \in {"exec_user", "exec_fail"}
  OBVIOUS
<1> HIDE DEF k, id
<1>6. /\ Queues(run_list', ready_list', queue', state')
      /\ current' \in Task /\ current' \in ToSet(run_list')
      /\ state'[Idle] = "RUNNABLE"
      /\ \A t \in Task : state'[t] = state[t] \/ (state[t] \in Alive /\ state'[t] \in Alive)
      /\ Family(parent, chld_active, chld_zombie, state')
  BY <1>1, <1>4, WakeStep
<1>7. RestOK /\ ControlInv
  BY DEF SchedInv
<1>8. RestOK'
  BY <1>1, <1>2, <1>3, <1>5, <1>7 DEF RestOK, Pc, Preemptible
<1>9. pc'[current] = k /\ \A t \in Task : t # current => pc'[t] = pc[t]
  BY <1>1, <1>2, <1>7 DEF RestOK
<1>10. \A t \in Task : /\ state'[t] = "ZOMBIE" <=> state[t] = "ZOMBIE"
                       /\ state'[t] = "DEAD" <=> state[t] = "DEAD"
  BY <1>6 DEF Alive
<1>11. ControlInv'
  <2>1. \A t \in Task : state'[t] \in {"ZOMBIE", "DEAD"} => pc'[t] = "none"
    BY <1>2, <1>7, <1>9, <1>10 DEF ControlInv
  <2>2. /\ \A t \in Task : pc'[t] = "wait_chk" => arg'[t] \in Task
        /\ \A t \in Task : pc'[t] \in {"exec_wait", "exec_reap", "wait_pid"} =>
                             arg'[t] \in Task /\ parent'[arg'[t]] = t
        /\ \A t \in Task : pc'[t] = "exec_load" => params'[t] \in Task
    BY <1>1, <1>5, <1>7, <1>9 DEF ControlInv, family
  <2>3. pc'[InitTask] = pc[InitTask] /\ pc'[Idle] = pc[Idle]
    BY <1>2, <1>3, <1>9, TasksAssumption
  <2> QED BY <2>1, <2>2, <2>3, <1>6, <1>7, <1>10, TasksAssumption DEF ControlInv, IdleInv
<1> QED BY <1>1, <1>6, <1>8, <1>11 DEF SchedInv, family

\* StartInit
LEMMA StartInitInv == ASSUME SchedInv, StartInit PROVE SchedInv'
<1> USE TasksAssumption
<1>1. /\ current = Idle /\ pc[Idle] = "boot"
      /\ Started(InitTask)
      /\ ready_list' = list_add(InitTask, ready_list)
      /\ state' = [state EXCEPT ![InitTask] = "RUNNABLE"]
      /\ pc' = [pc EXCEPT ![Idle] = "idle", ![InitTask] = "init_start"]
      /\ UNCHANGED <<run_list, current, queue, arg, ret, params>>
  BY DEF StartInit
<1>2. /\ time_slice' = [time_slice EXCEPT ![InitTask] = TimeSlice]
      /\ parent' = [parent EXCEPT ![InitTask] = current]
      /\ chld_active' = [chld_active EXCEPT ![current] = @ \cup {InitTask}, ![InitTask] = {}]
      /\ chld_zombie' = [chld_zombie EXCEPT ![InitTask] = <<>>]
      /\ argc' = [argc EXCEPT ![InitTask] = "none"]
  BY <1>1 DEF Started
<1>3. RestOK /\ ControlInv /\ state \in [Task -> State] /\ state[Idle] = "RUNNABLE"
  BY CurrentFacts DEF SchedInv
<1>4. state[InitTask] = "DEAD" /\ state[current] \in Alive
  BY <1>1, <1>3 DEF ControlInv, Alive
<1>5. Queues(run_list', ready_list', queue', state')
  BY <1>1, <1>4, QueuesNew DEF SchedInv
<1>6. Family(parent', chld_active', chld_zombie', state')
  BY <1>1, <1>2, <1>4, FamilyNew DEF SchedInv
<1>7. RestOK'
  <2>1. pc' \in [Task -> Pc]
    BY <1>1, <1>3 DEF RestOK, Pc, Preemptible
  <2>2. time_slice' \in [Task -> 0..TimeSlice]
    <3>1. TimeSlice \in 0..TimeSlice
      BY TimeSliceAssumption
    <3> QED BY <3>1, <1>2, <1>3 DEF RestOK
  <2>3. arg' \in [Task -> Task \cup {NoTask}] /\ params' \in [Task -> Task \cup {NoTask}]
    BY <1>1, <1>3 DEF RestOK
  <2>4. ret' \in [Task -> {"unset", "SUCCESS", "ERROR"}]
    BY <1>1, <1>3 DEF RestOK
  <2>5. argc' \in [Task -> {"none", "own", "stale"}]
    BY <1>2, <1>3 DEF RestOK
  <2> QED BY <2>1, <2>2, <2>3, <2>4, <2>5 DEF RestOK
<1>8. /\ pc'[Idle] = "idle" /\ pc'[InitTask] = "init_start"
      /\ \A t \in Task : t # Idle /\ t # InitTask => pc'[t] = pc[t]
  BY <1>1, <1>3 DEF RestOK
<1>9. state'[InitTask] = "RUNNABLE" /\ \A t \in Task : t # InitTask => state'[t] = state[t]
  BY <1>1, <1>3
<1>10. parent[InitTask] = NoTask
  BY <1>4 DEF SchedInv, Family
<1>11. \A t \in Task : t # InitTask => parent'[t] = parent[t]
  BY <1>2 DEF SchedInv, Family
<1>12. ControlInv'
  <2>1. \A t \in Task : state'[t] \in {"ZOMBIE", "DEAD"} => pc'[t] = "none"
    BY <1>3, <1>8, <1>9 DEF ControlInv
  <2>2. /\ \A t \in Task : pc'[t] = "wait_chk" => arg'[t] \in Task
        /\ \A t \in Task : pc'[t] = "exec_load" => params'[t] \in Task
    BY <1>1, <1>3, <1>8 DEF ControlInv
  <2>3. \A t \in Task : pc'[t] \in {"exec_wait", "exec_reap", "wait_pid"} =>
                           arg'[t] \in Task /\ parent'[arg'[t]] = t
    BY <1>1, <1>3, <1>8, <1>10, <1>11 DEF ControlInv
  <2>4. pc'[InitTask] \in InitPc
    BY <1>8 DEF InitPc
  <2> QED BY <2>1, <2>2, <2>3, <2>4, <1>3, <1>8, <1>9 DEF ControlInv, IdleInv
<1>13. current' \in Task /\ current' \in ToSet(run_list')
  BY <1>1 DEF SchedInv
<1> QED BY <1>5, <1>6, <1>7, <1>12, <1>13 DEF SchedInv

\* sys_exec
LEMMA SysExecInv == ASSUME SchedInv, NEW n \in Task, sys_exec(n) PROVE SchedInv'
<1> USE TasksAssumption
<1> DEFINE st == [state EXCEPT ![n] = "RUNNABLE"]
           id == ParamsWait(current)
<1>1. /\ pc[current] \in {"user", "init_start"}
      /\ n # Idle /\ n # InitTask /\ state[n] = "DEAD"
      /\ Started(n)
      /\ wait(id, list_add(n, ready_list), st)
      /\ pc' = [pc EXCEPT ![current] = "exec_wait", ![n] = "exec_load"]
      /\ arg' = [arg EXCEPT ![current] = n, ![n] = NoTask]
      /\ ret' = [ret EXCEPT ![current] = "unset", ![n] = "unset"]
      /\ params' = [params EXCEPT ![n] = current]
  BY DEF sys_exec
<1>2. /\ time_slice' = [time_slice EXCEPT ![n] = TimeSlice]
      /\ parent' = [parent EXCEPT ![n] = current]
      /\ chld_active' = [chld_active EXCEPT ![current] = @ \cup {n}, ![n] = {}]
      /\ chld_zombie' = [chld_zombie EXCEPT ![n] = <<>>]
      /\ argc' = [argc EXCEPT ![n] = "none"]
  BY <1>1 DEF Started
<1>3. /\ current \in Task /\ current # Idle /\ state[current] = "RUNNABLE" /\ current # n
      /\ RestOK /\ ControlInv /\ state \in [Task -> State] /\ state[Idle] = "RUNNABLE"
  BY <1>1, CurrentFacts DEF SchedInv
<1>4. id \in Queue
  BY <1>3 DEF ParamsWait, Queue
<1>5. Queues(run_list, list_add(n, ready_list), queue, st)
  BY <1>1, QueuesNew DEF SchedInv
<1>6. /\ st \in [Task -> State] /\ st[n] = "RUNNABLE" /\ \A t \in Task : t # n => st[t] = state[t]
  BY <1>3 DEF State
<1>7. Family(parent', chld_active', chld_zombie', st)
  <2>1. state[current] \in Alive
    BY <1>3 DEF Alive
  <2> QED BY <2>1, <1>1, <1>2, <1>3, FamilyNew DEF SchedInv
<1> HIDE DEF st, id
<1>8. /\ Queues(run_list', ready_list', queue', state')
      /\ current' \in Task /\ current' \in ToSet(run_list')
      /\ state' = [st EXCEPT ![current] = "WAIT"]
  <2>1. st[Idle] = "RUNNABLE"
    BY <1>1, <1>3, <1>6
  <2> QED BY <2>1, <1>1, <1>3, <1>4, <1>5, WaitStep
<1>9. /\ state' \in [Task -> State] /\ state'[current] = "WAIT" /\ state'[n] = "RUNNABLE"
      /\ \A t \in Task : t # n /\ t # current => state'[t] = state[t]
  BY <1>3, <1>6, <1>8 DEF Queues
<1>10. Family(parent', chld_active', chld_zombie', state')
  <2>1. \A t \in Task : state'[t] = st[t] \/ (st[t] \in Alive /\ state'[t] \in Alive)
    BY <1>3, <1>6, <1>9 DEF Alive
  <2> QED BY <2>1, <1>7, <1>9, FamilySame
<1>11. RestOK'
  <2>1. pc' \in [Task -> Pc]
    BY <1>1, <1>3 DEF RestOK, Pc, Preemptible
  <2>2. time_slice' \in [Task -> 0..TimeSlice]
    <3>1. TimeSlice \in 0..TimeSlice
      BY TimeSliceAssumption
    <3> QED BY <3>1, <1>2, <1>3 DEF RestOK
  <2>3. arg' \in [Task -> Task \cup {NoTask}] /\ params' \in [Task -> Task \cup {NoTask}]
    BY <1>1, <1>3 DEF RestOK
  <2>4. ret' \in [Task -> {"unset", "SUCCESS", "ERROR"}]
    BY <1>1, <1>3 DEF RestOK
  <2>5. argc' \in [Task -> {"none", "own", "stale"}]
    BY <1>2, <1>3 DEF RestOK
  <2> QED BY <2>1, <2>2, <2>3, <2>4, <2>5 DEF RestOK
<1>12. /\ pc'[current] = "exec_wait" /\ pc'[n] = "exec_load" /\ arg'[current] = n
       /\ params'[n] = current
       /\ \A t \in Task : t # n /\ t # current =>
             pc'[t] = pc[t] /\ arg'[t] = arg[t] /\ params'[t] = params[t]
  BY <1>1, <1>3 DEF RestOK
<1>13. /\ parent[n] = NoTask /\ parent'[n] = current
       /\ \A t \in Task : t # n => parent'[t] = parent[t]
  BY <1>1, <1>2 DEF SchedInv, Family
<1>14. ControlInv'
  <2>1. \A t \in Task : state'[t] \in {"ZOMBIE", "DEAD"} => pc'[t] = "none"
    BY <1>3, <1>9, <1>12 DEF ControlInv
  <2>2. /\ \A t \in Task : pc'[t] = "wait_chk" => arg'[t] \in Task
        /\ \A t \in Task : pc'[t] = "exec_load" => params'[t] \in Task
    BY <1>3, <1>12 DEF ControlInv
  <2>3. \A t \in Task : pc'[t] \in {"exec_wait", "exec_reap", "wait_pid"} =>
                           arg'[t] \in Task /\ parent'[arg'[t]] = t
    <3> SUFFICES ASSUME NEW t \in Task, pc'[t] \in {"exec_wait", "exec_reap", "wait_pid"}
                 PROVE  arg'[t] \in Task /\ parent'[arg'[t]] = t
      OBVIOUS
    <3>1. CASE t = current
      BY <3>1, <1>12, <1>13
    <3>2. CASE t # current
      <4>1. t # n
        BY <1>12
      <4>2. arg[t] \in Task /\ parent[arg[t]] = t /\ arg'[t] = arg[t]
        BY <3>2, <4>1, <1>3, <1>12 DEF ControlInv
      <4> QED BY <4>2, <1>13
    <3> QED BY <3>1, <3>2
  <2>4. state[InitTask] # "DEAD"
    BY <1>3 DEF ControlInv
  <2>5. state'[InitTask] # "DEAD" /\ state'[InitTask] # "ZOMBIE"
    BY <2>4, <1>1, <1>3, <1>9 DEF ControlInv
  <2>6. pc'[InitTask] \in InitPc
    BY <1>1, <1>3, <1>12 DEF ControlInv, InitPc
  <2>7. pc'[Idle] = pc[Idle] /\ state'[Idle] = "RUNNABLE"
    BY <1>1, <1>3, <1>9, <1>12
  <2> QED BY <2>1, <2>2, <2>3, <2>4, <2>5, <2>6, <2>7, <1>3 DEF ControlInv, IdleInv
<1> QED BY <1>8, <1>10, <1>11, <1>14 DEF SchedInv

\* sys_exit
LEMMA SysExitInv == ASSUME SchedInv, sys_exit PROVE SchedInv'
<1> USE TasksAssumption
<1> DEFINE p == parent[current]
           id == WaitExit(p)
           r1 == list_del(current, run_list)
           s1 == [state EXCEPT ![current] = "ZOMBIE"]
           r2 == WokenRun(r1, queue, id)
           s2 == WokenState(s1, queue, id)
<1>1. /\ pc[current] \in {"user", "exec_fail"}
      /\ chld_active' = [chld_active EXCEPT ![p] = @ \ {current}]
      /\ chld_zombie' = [chld_zombie EXCEPT ![p] = list_add(current, @)]
      /\ queue' = WokenQueue(queue, id)
      /\ pick_next(r2, ready_list, s2)
      /\ pc' = [pc EXCEPT ![current] = "none"]
      /\ params' = [params EXCEPT ![current] = NoTask]
      /\ argc' = [argc EXCEPT ![current] = "none"]
      /\ UNCHANGED <<time_slice, parent, arg, ret>>
  BY DEF sys_exit, schedule_zombie
<1>2. /\ current \in Task /\ current # Idle /\ state[current] = "RUNNABLE"
      /\ current \in ToSet(run_list)
      /\ RestOK /\ ControlInv /\ state \in [Task -> State] /\ state[Idle] = "RUNNABLE"
      /\ Queues(run_list, ready_list, queue, state)
  BY <1>1, CurrentFacts DEF SchedInv
<1>3. current # InitTask
  BY <1>1, <1>2 DEF ControlInv, InitPc
<1>4. Queues(r1, ready_list, queue, s1)
  BY <1>2, QueuesExit
<1>5. p \in Task /\ Family(parent, chld_active', chld_zombie', s1)
  <2>1. state[current] \in Alive
    BY <1>2 DEF Alive
  <2>2. Family(parent, chld_active, chld_zombie, state)
    BY DEF SchedInv
  <2> QED BY <2>1, <2>2, <1>1, <1>2, FamilyExit
<1>6. id \in Queue
  BY <1>5 DEF WaitExit, Queue
<1>7. s1[current] = "ZOMBIE" /\ \A t \in Task : t # current => s1[t] = state[t]
  BY <1>2
<1> HIDE DEF p, id, r1, s1
<1>8. /\ Queues(r2, ready_list, queue', s2)
      /\ \A t \in Task : s2[t] = s1[t] \/ (s1[t] = "WAIT" /\ s2[t] = "RUNNABLE")
  BY <1>1, <1>4, <1>6, QueuesWake
<1> HIDE DEF r2, s2
<1>9. s2[Idle] = "RUNNABLE"
  BY <1>2, <1>7, <1>8
<1>10. /\ Queues(run_list', ready_list', queue', s2) /\ state' = s2
       /\ current' \in Task /\ current' \in ToSet(run_list')
  BY <1>1, <1>8, <1>9, PickNext
<1>11. state' \in [Task -> State]
  BY <1>10 DEF Queues
<1>12. \A t \in Task : state'[t] = s1[t] \/ (s1[t] \in Alive /\ state'[t] \in Alive)
  BY <1>8, <1>10 DEF Alive
<1>13. Family(parent', chld_active', chld_zombie', state')
  BY <1>1, <1>5, <1>11, <1>12, FamilySame
<1>14. RestOK'
  BY <1>1, <1>2 DEF RestOK, Pc
<1>15. /\ pc'[current] = "none"
       /\ \A t \in Task : t # current => pc'[t] = pc[t] /\ params'[t] = params[t]
  BY <1>1, <1>2 DEF RestOK
<1>16. \A t \in Task : t # current =>
         /\ state'[t] = "ZOMBIE" <=> state[t] = "ZOMBIE"
         /\ state'[t] = "DEAD" <=> state[t] = "DEAD"
  BY <1>7, <1>12 DEF Alive
<1>17. ControlInv'
  <2>1. \A t \in Task : state'[t] \in {"ZOMBIE", "DEAD"} => pc'[t] = "none"
    BY <1>2, <1>15, <1>16 DEF ControlInv
  <2>2. /\ \A t \in Task : pc'[t] = "wait_chk" => arg'[t] \in Task
        /\ \A t \in Task : pc'[t] = "exec_load" => params'[t] \in Task
        /\ \A t \in Task : pc'[t] \in {"exec_wait", "exec_reap", "wait_pid"} =>
                             arg'[t] \in Task /\ parent'[arg'[t]] = t
    BY <1>1, <1>2, <1>15 DEF ControlInv
  <2>3. state[InitTask] # "DEAD"
    BY <1>2 DEF ControlInv
  <2>4. /\ state'[InitTask] # "DEAD" /\ state'[InitTask] # "ZOMBIE"
        /\ pc'[InitTask] = pc[InitTask] /\ pc'[Idle] = pc[Idle] /\ state'[Idle] = "RUNNABLE"
    BY <2>3, <1>2, <1>3, <1>9, <1>10, <1>15, <1>16 DEF ControlInv
  <2> QED BY <2>1, <2>2, <2>3, <2>4, <1>2 DEF ControlInv, IdleInv
<1> QED BY <1>10, <1>13, <1>14, <1>17 DEF SchedInv

\* kthread_release of a zombie child of the current task.
LEMMA ReleaseStep ==
  ASSUME SchedInv, current # Idle, NEW d \in Task, state[d] = "ZOMBIE", parent[d] = current,
         kthread_release(d)
  PROVE  /\ Queues(run_list', ready_list', queue', state')
         /\ current' = current /\ current' \in ToSet(run_list')
         /\ Family(parent', chld_active', chld_zombie', state')
         /\ time_slice' = time_slice
         /\ state'[d] = "DEAD" /\ state'[Idle] = "RUNNABLE"
         /\ \A t \in Task : t # d =>
               state'[t] = state[t] \/ (state[t] \in Alive /\ state'[t] \in Alive)
         /\ \A t \in Task : t # d => parent'[t] = parent[t] \/ parent[t] = d
<1> USE TasksAssumption
<1> DEFINE moved   == chld_active[d] \cup ToSet(chld_zombie[d])
           zombie  == [chld_zombie EXCEPT ![current] = list_del(d, @)]
           spliced == [zombie EXCEPT ![InitTask] = list_splice(zombie[d], @)]
           dead    == [state EXCEPT ![d] = "DEAD"]
           id      == WaitExit(InitTask)
           told    == moved # {} /\ spliced[InitTask] # <<>>
<1>1. /\ parent' = [t \in Task |-> IF t = d THEN NoTask ELSE
                                   IF t \in moved THEN InitTask ELSE parent[t]]
      /\ chld_active' = [[chld_active EXCEPT ![InitTask] = @ \cup chld_active[d]] EXCEPT ![d] = {}]
      /\ chld_zombie' = [spliced EXCEPT ![d] = <<>>]
      /\ run_list' = IF told THEN WokenRun(run_list, queue, id) ELSE run_list
      /\ queue' = IF told THEN WokenQueue(queue, id) ELSE queue
      /\ state' = IF told THEN WokenState(dead, queue, id) ELSE dead
      /\ UNCHANGED <<ready_list, current, time_slice>>
  BY DEF kthread_release, Told
<1>2. /\ current \in Task /\ state[current] = "RUNNABLE" /\ current \in ToSet(run_list)
      /\ state \in [Task -> State] /\ state[Idle] = "RUNNABLE" /\ ControlInv
      /\ Queues(run_list, ready_list, queue, state)
      /\ Family(parent, chld_active, chld_zombie, state)
  BY CurrentFacts DEF SchedInv
<1>3. d # current /\ d # Idle /\ d # InitTask /\ state[InitTask] # "DEAD"
  BY <1>2 DEF ControlInv
<1>4. Family(parent', chld_active', chld_zombie', dead)
  <2>1. Family(FreedParent(parent, chld_active, chld_zombie, d), FreedActive(chld_active, d),
               FreedZombie(chld_zombie, current, d), FreedState(state, d))
    BY <1>2, <1>3, FamilyRelease
  <2>2. /\ parent' = FreedParent(parent, chld_active, chld_zombie, d)
        /\ chld_active' = FreedActive(chld_active, d)
        /\ chld_zombie' = FreedZombie(chld_zombie, current, d) /\ dead = FreedState(state, d)
    BY <1>1 DEF FreedParent, FreedActive, FreedZombie, FreedState, Unlinked, Spliced
  <2> QED BY <2>1, <2>2
<1>5. Queues(run_list, ready_list, queue, dead)
  BY <1>2, QueuesFree
<1>6. id \in Queue
  BY DEF WaitExit, Queue
<1>7. dead[d] = "DEAD" /\ dead \in [Task -> State] /\ \A t \in Task : t # d => dead[t] = state[t]
  BY <1>2 DEF State
<1>8. \A t \in Task : t # d => parent'[t] = parent[t] \/ parent[t] = d
  <2> SUFFICES ASSUME NEW t \in Task, t # d, t \in moved PROVE parent[t] = d
    BY <1>1
  <2> QED BY <1>2 DEF Family
<1> HIDE DEF moved, zombie, spliced, dead, id, told
<1>9. /\ Queues(run_list', ready_list, queue', state')
      /\ ToSet(run_list) \subseteq ToSet(run_list')
      /\ \A t \in Task : state'[t] = dead[t] \/ (dead[t] = "WAIT" /\ state'[t] = "RUNNABLE")
  <2>1. CASE told
    <3>1. /\ run_list' = WokenRun(run_list, queue, id) /\ queue' = WokenQueue(queue, id)
          /\ state' = WokenState(dead, queue, id)
      BY <2>1, <1>1
    <3> QED BY <3>1, <1>5, <1>6, QueuesWake
  <2>2. CASE ~told
    <3>1. run_list' = run_list /\ queue' = queue /\ state' = dead
      BY <2>2, <1>1
    <3> QED BY <3>1, <1>5
  <2> QED BY <2>1, <2>2
<1>10. state' \in [Task -> State]
  BY <1>9 DEF Queues
<1>11. \A t \in Task : state'[t] = dead[t] \/ (dead[t] \in Alive /\ state'[t] \in Alive)
  BY <1>9 DEF Alive
<1>12. Family(parent', chld_active', chld_zombie', state')
  BY <1>4, <1>10, <1>11, FamilySame
<1>13. state'[d] = "DEAD" /\ state'[Idle] = "RUNNABLE"
  BY <1>2, <1>3, <1>7, <1>9
<1>14. \A t \in Task : t # d => state'[t] = state[t] \/ (state[t] \in Alive /\ state'[t] \in Alive)
  BY <1>7, <1>11
<1> QED BY <1>1, <1>2, <1>8, <1>9, <1>12, <1>13, <1>14

\* The branch of sys_wait_pid, sys_exec and sys_wait_chld that reaps.
LEMMA ReapInv ==
  ASSUME SchedInv, current # Idle, NEW d \in Task, state[d] = "ZOMBIE", parent[d] = current,
         kthread_release(d), UNCHANGED exec, RestOK',
         NEW k, pc' = [pc EXCEPT ![current] = k],
         k \notin {"wait_chk", "exec_wait", "exec_reap", "wait_pid", "exec_load"},
         \A t \in Task : t # current => arg'[t] = arg[t],
         current = InitTask => k \in InitPc
  PROVE  SchedInv'
<1> USE TasksAssumption
<1>1. /\ Queues(run_list', ready_list', queue', state')
      /\ current' = current /\ current' \in ToSet(run_list')
      /\ Family(parent', chld_active', chld_zombie', state')
      /\ state'[d] = "DEAD" /\ state'[Idle] = "RUNNABLE"
      /\ \A t \in Task : t # d =>
               state'[t] = state[t] \/ (state[t] \in Alive /\ state'[t] \in Alive)
      /\ \A t \in Task : t # d => parent'[t] = parent[t] \/ parent[t] = d
  BY ReleaseStep
<1>2. /\ current \in Task /\ state[current] = "RUNNABLE" /\ ControlInv /\ RestOK
  BY CurrentFacts DEF SchedInv
<1>3. d # current /\ d # Idle /\ d # InitTask /\ state[InitTask] # "DEAD" /\ pc[d] = "none"
  BY <1>1, <1>2, CurrentFacts DEF ControlInv
<1>4. pc'[current] = k /\ \A t \in Task : t # current => pc'[t] = pc[t]
  BY <1>2 DEF RestOK
<1>5. params' = params
  BY DEF exec
<1>6. \A t \in Task : t # d =>
        /\ state'[t] = "ZOMBIE" <=> state[t] = "ZOMBIE"
        /\ state'[t] = "DEAD" <=> state[t] = "DEAD"
  BY <1>1 DEF Alive
<1>7. ControlInv'
  <2>1. \A t \in Task : state'[t] \in {"ZOMBIE", "DEAD"} => pc'[t] = "none"
    <3> SUFFICES ASSUME NEW t \in Task, state'[t] \in {"ZOMBIE", "DEAD"} PROVE pc'[t] = "none"
      OBVIOUS
    <3>1. CASE t = d
      BY <3>1, <1>3, <1>4
    <3>2. CASE t # d
      <4>1. state[t] \in {"ZOMBIE", "DEAD"}
        BY <3>2, <1>6
      <4> QED BY <4>1, <1>2, <1>4 DEF ControlInv
    <3> QED BY <3>1, <3>2
  <2>2. /\ \A t \in Task : pc'[t] = "wait_chk" => arg'[t] \in Task
        /\ \A t \in Task : pc'[t] = "exec_load" => params'[t] \in Task
    BY <1>2, <1>4, <1>5 DEF ControlInv
  <2>3. \A t \in Task : pc'[t] \in {"exec_wait", "exec_reap", "wait_pid"} =>
                           arg'[t] \in Task /\ parent'[arg'[t]] = t
    <3> SUFFICES ASSUME NEW t \in Task, pc'[t] \in {"exec_wait", "exec_reap", "wait_pid"}
                 PROVE  arg'[t] \in Task /\ parent'[arg'[t]] = t
      OBVIOUS
    <3>1. t # current /\ t # d
      BY <1>3, <1>4
    <3>2. arg'[t] = arg[t] /\ arg[t] \in Task /\ parent[arg[t]] = t
      BY <3>1, <1>2, <1>4 DEF ControlInv
    <3>3. arg[t] # d
      BY <3>1, <3>2
    <3>4. parent'[arg[t]] = t
      BY <3>1, <3>2, <3>3, <1>1
    <3> QED BY <3>2, <3>4
  <2>4. pc'[InitTask] \in InitPc /\ state'[InitTask] # "DEAD" /\ state'[InitTask] # "ZOMBIE"
    BY <1>2, <1>3, <1>4, <1>6 DEF ControlInv
  <2>5. pc'[Idle] = pc[Idle]
    BY <1>4
  <2>6. pc[Idle] # "boot" /\ pc[Idle] \in {"boot", "idle"}
    BY <1>2, <1>3 DEF ControlInv, IdleInv
  <2> QED BY <2>1, <2>2, <2>3, <2>4, <2>5, <2>6, <1>1 DEF ControlInv, IdleInv
<1> QED BY <1>1, <1>2, <1>7 DEF SchedInv

\* The wait_event loop of sys_wait_pid, also as sys_exec runs it.
LEMMA WaitPidEventInv ==
  ASSUME SchedInv, NEW at \in {"wait_pid", "exec_reap"}, NEW k, wait_pid_event(at, k),
         k \in {"user", "init_loop", "panic"}, current = InitTask => k \in InitPc
  PROVE  SchedInv'
<1>1. pc[current] = at /\ UNCHANGED exec
  BY DEF wait_pid_event
<1>2. current \in Task /\ current # Idle /\ RestOK
  BY <1>1, CurrentFacts DEF SchedInv
<1>3. arg[current] \in Task /\ parent[arg[current]] = current
  BY <1>1, <1>2 DEF SchedInv, ControlInv
<1>4. CASE state[arg[current]] # "ZOMBIE"
  <2>1. wait(WaitExit(current), ready_list, state) /\ UNCHANGED <<time_slice, family, pc, arg>>
    BY <1>4 DEF wait_pid_event
  <2>2. WaitExit(current) \in Queue
    BY <1>2 DEF WaitExit, Queue
  <2> QED BY <2>1, <2>2, <1>1, <1>2, SleepInv
<1>5. CASE state[arg[current]] = "ZOMBIE"
  <2> DEFINE d == arg[current]
  <2>1. /\ kthread_release(d) /\ pc' = [pc EXCEPT ![current] = k]
        /\ arg' = [arg EXCEPT ![current] = NoTask]
    BY <1>5 DEF wait_pid_event
  <2>2. d \in Task /\ state[d] = "ZOMBIE" /\ parent[d] = current
    BY <1>3, <1>5
  <2> HIDE DEF d
  <2>3. time_slice' = time_slice
    BY <2>1 DEF kthread_release
  <2>4. RestOK'
    BY <2>1, <2>3, <1>1, <1>2 DEF RestOK, exec, Pc, Preemptible
  <2>5. \A t \in Task : t # current => arg'[t] = arg[t]
    BY <2>1, <1>2 DEF RestOK
  <2> QED BY <2>1, <2>2, <2>4, <2>5, <1>1, <1>2, ReapInv
<1> QED BY <1>4, <1>5

\* The wait_event loop of sys_wait_chld.
LEMMA WaitChldEventInv == ASSUME SchedInv, wait_chld_event PROVE SchedInv'
<1> DEFINE k == IF current = InitTask THEN "init_loop" ELSE "user"
<1>1. pc[current] = "wait_chld" /\ UNCHANGED <<arg, exec>>
  BY DEF wait_chld_event
<1>2. current \in Task /\ current # Idle /\ RestOK
  BY <1>1, CurrentFacts DEF SchedInv
<1>3. CASE chld_zombie[current] = <<>>
  <2>1. wait(WaitExit(current), ready_list, state) /\ UNCHANGED <<time_slice, family, pc>>
    BY <1>3 DEF wait_chld_event
  <2>2. WaitExit(current) \in Queue
    BY <1>2 DEF WaitExit, Queue
  <2> QED BY <2>1, <2>2, <1>1, <1>2, SleepInv
<1>4. CASE chld_zombie[current] # <<>>
  <2> DEFINE d == Head(chld_zombie[current])
  <2>1. kthread_release(d) /\ pc' = [pc EXCEPT ![current] = k]
    BY <1>4 DEF wait_chld_event
  <2>2. chld_zombie[current] \in Seq(Task)
    BY <1>2 DEF SchedInv, Family
  <2>3. d \in Task /\ d \in ToSet(chld_zombie[current])
    BY <2>2, <1>4, ListPop
  <2> HIDE DEF d
  <2>4. state[d] = "ZOMBIE" /\ parent[d] = current
    BY <2>3, <1>2 DEF SchedInv, Family
  <2>5. time_slice' = time_slice
    BY <2>1 DEF kthread_release
  <2>6. k \in {"init_loop", "user"} /\ (current = InitTask => k \in InitPc)
    BY DEF InitPc
  <2> HIDE DEF k
  <2>7. RestOK'
    BY <2>1, <2>5, <2>6, <1>1, <1>2 DEF RestOK, exec, Pc, Preemptible
  <2> QED BY <2>1, <2>3, <2>4, <2>6, <2>7, <1>1, <1>2, ReapInv
<1> QED BY <1>3, <1>4
-----------------------------------------------------------------------------
(* The theorems *)

\* The boot state: the idle task alone.
LEMMA InitSchedInv == Init => SchedInv
<1> SUFFICES ASSUME Init PROVE SchedInv
  OBVIOUS
<1> USE TasksAssumption
<1>1. ToSet(<<>>) = {} /\ Linked(<<>>) /\ <<>> \in Seq(Task)
  BY DEF ToSet, Linked
<1>2. ToSet(run_list) = {Idle} /\ Linked(run_list) /\ run_list \in Seq(Task)
  <2>1. run_list = <<Idle>>
    BY DEF Init
  <2> QED BY <2>1 DEF ToSet, Linked
<1>3. RestOK
  BY TimeSliceAssumption DEF Init, RestOK, Pc, Preemptible
<1>4. Queues(run_list, ready_list, queue, state)
  BY <1>1, <1>2 DEF Init, Queues, State
<1>5. Family(parent, chld_active, chld_zombie, state)
  BY <1>1 DEF Init, Family, State, Alive
<1>6. ControlInv
  BY DEF Init, ControlInv, IdleInv, InitPc
<1> QED BY <1>2, <1>3, <1>4, <1>5, <1>6 DEF Init, SchedInv

\* Every step of a task and every interrupt keeps the invariant.
LEMMA NextSchedInv == SchedInv /\ [Next]_vars => SchedInv'
<1> SUFFICES ASSUME SchedInv, [Next]_vars PROVE SchedInv'
  OBVIOUS
<1>1. CASE StartInit
  BY <1>1, StartInitInv
<1>2. ASSUME NEW n \in Task, sys_exec(n) PROVE SchedInv'
  BY <1>2, SysExecInv
<1>3. CASE exec_return
  BY <1>3, ExecReturnInv
<1>4. ASSUME NEW r \in {"SUCCESS", "ERROR"}, exec_wrapper(r) PROVE SchedInv'
  BY <1>4, ExecWrapperInv
<1>5. CASE exec_user_mode
  BY <1>5, ExecUserInv
<1>6. CASE sys_exit
  BY <1>6, SysExitInv
<1>7. ASSUME NEW t \in Task, sys_wait_pid(t) PROVE SchedInv'
  BY <1>7, SysWaitPidInv
<1>8. CASE wait_pid_check
  BY <1>8, WaitPidCheckInv
<1>9. CASE WaitPidEvent
  <2>1. pc[current] = "wait_pid" /\ wait_pid_event("wait_pid", "user")
    BY <1>9 DEF WaitPidEvent, wait_pid_event
  <2>2. current # InitTask
    BY <2>1 DEF SchedInv, ControlInv, InitPc
  <2> QED BY <2>1, <2>2, WaitPidEventInv
<1>10. CASE ExecReap
  <2> DEFINE k == AfterExec(current, FALSE)
  <2>1. wait_pid_event("exec_reap", k)
    BY <1>10 DEF ExecReap
  <2>2. k \in {"user", "init_loop", "panic"} /\ (current = InitTask => k \in InitPc)
    BY DEF AfterExec, InitPc
  <2> HIDE DEF k
  <2> QED BY <2>1, <2>2, WaitPidEventInv
<1>11. CASE sys_wait_chld
  BY <1>11, SysWaitChldInv
<1>12. CASE wait_chld_event
  BY <1>12, WaitChldEventInv
<1>13. ASSUME NEW d \in IoQueue, IoWait(d) \/ IoWake(d) \/ wake_up_all(d) PROVE SchedInv'
  BY <1>13, IoWaitInv, IoWakeInv, WakeAllInv
<1>14. CASE sched_tick
  BY <1>14, TickInv
<1>15. CASE UNCHANGED vars
  BY <1>15 DEF vars, SchedInv, RestOK, ControlInv, IdleInv
<1>16. CASE Panic
  BY <1>15, <1>16 DEF Panic
<1> QED BY <1>1, <1>2, <1>3, <1>4, <1>5, <1>6, <1>7, <1>8, <1>9, <1>10, <1>11, <1>12,
           <1>13, <1>14, <1>15, <1>16 DEF Next, TaskStep

\* The invariant of the scheduler holds in every reachable state.
THEOREM SchedInvariant == Spec => []SchedInv
<1> QED BY InitSchedInv, NextSchedInv, PTL DEF Spec

\* Every variable of the scheduler keeps its type.
THEOREM SchedTypes == Spec => []TypeOK
<1>1. SchedInv => TypeOK
  BY DEF SchedInv, RestOK, Queues, Family, TypeOK
<1> QED BY <1>1, SchedInvariant, PTL

\* Every task is linked on exactly the list its state calls for, so no
\* list_del or list_add of kernel/sched.c corrupts a list.
THEOREM SchedQueues == Spec => []QueueInv
<1>1. SchedInv => QueueInv
  BY DEF SchedInv, Queues, QueueInv
<1> QED BY <1>1, SchedInvariant, PTL

\* BUG_ON(list_empty(&run_list)) of schedule() is unreachable: the idle task
\* stays runnable.
THEOREM SchedIdle == Spec => []IdleInv
<1>1. SchedInv => IdleInv
  BY DEF SchedInv, ControlInv
<1> QED BY <1>1, SchedInvariant, PTL

\* The family tree is consistent after any number of exits, releases and
\* adoptions by init.
THEOREM SchedFamily == Spec => []FamilyInv
<1>1. SchedInv => FamilyInv
  BY DEF SchedInv, Family, FamilyInv, Alive
<1> QED BY <1>1, SchedInvariant, PTL

\* The child that sys_wait_pid sleeps for is not freed or adopted meanwhile.
THEOREM SchedWaitTarget == Spec => []WaitTargetInv
<1>1. SchedInv => WaitTargetInv
  <2> SUFFICES ASSUME SchedInv, NEW t \in Task, pc[t] \in {"wait_pid", "exec_reap"}
               PROVE  arg[t] \in Task /\ parent[arg[t]] = t /\ state[arg[t]] # "DEAD"
    BY DEF WaitTargetInv
  <2>1. arg[t] \in Task /\ parent[arg[t]] = t
    BY DEF SchedInv, ControlInv
  <2>2. state[arg[t]] # "DEAD"
    BY <2>1, TasksAssumption DEF SchedInv, Family
  <2> QED BY <2>1, <2>2
<1> QED BY <1>1, SchedInvariant, PTL
-----------------------------------------------------------------------------
(* No wake-up is lost *)

\* The condition of the wait_event loop that t sleeps in is still false.
NothingToReap(t) ==
  \/ pc[t] \in {"wait_pid", "exec_reap"} /\ state[arg[t]] # "ZOMBIE"
  \/ pc[t] = "wait_chld" /\ chld_zombie[t] = <<>>

\* The child that t has started has not reached wake_up(&params->wait).
AwaitsLoad(t) ==
  /\ pc[t] = "exec_wait" /\ ret[t] = "unset"
  /\ arg[t] \in Task /\ pc[arg[t]] = "exec_load" /\ params[arg[t]] = t

\* Who sleeps where and why; and a task that is loading its program has its
\* own caller asleep, so that its wake_up finds him and nobody else.
SleepersInv ==
  /\ \A t, u \in Task : t \in ToSet(queue[WaitExit(u)]) => t = u /\ NothingToReap(t)
  /\ \A t, u \in Task : t \in ToSet(queue[ParamsWait(u)]) => t = u /\ AwaitsLoad(t)
  /\ \A c \in Task : pc[c] = "exec_load" =>
       /\ params[c] \in ToSet(queue[ParamsWait(params[c])])
       /\ arg[params[c]] = c

\* What OnlyParentReaps says of one step.
ReapedByParent ==
  \A t \in Task : state[t] = "ZOMBIE" /\ state'[t] # "ZOMBIE" =>
    state'[t] = "DEAD" /\ current = parent[t]
-----------------------------------------------------------------------------
(* Steps that concern no sleeper *)

\* The wait queues of different tasks and kinds are different.
LEMMA QueueNames ==
  ASSUME NEW t \in Task, NEW u \in Task
  PROVE  /\ WaitExit(t) \in Queue /\ ParamsWait(t) \in Queue
         /\ WaitExit(t) # ParamsWait(u)
         /\ \A d : WaitExit(t) # <<"io", d>> /\ ParamsWait(t) # <<"io", d>>
         /\ t # u => WaitExit(t) # WaitExit(u) /\ ParamsWait(t) # ParamsWait(u)
BY DEF WaitExit, ParamsWait, Queue

\* A sleeper waits; the current task does not sleep.
LEMMA SleepersWait ==
  ASSUME SchedInv
  PROVE  /\ \A q \in Queue : \A t \in Task : t \in ToSet(queue[q]) => state[t] = "WAIT"
         /\ \A q \in Queue : queue[q] \in Seq(Task) /\ Linked(queue[q])
         /\ current \in Task /\ state[current] = "RUNNABLE"
BY CurrentFacts DEF SchedInv, Queues

\* A sleeper goes on sleeping for the same reason.
LEMMA StillNothing ==
  ASSUME SchedInv, SleepersInv,
         NEW t \in Task, NEW u \in Task, t \in ToSet(queue[WaitExit(u)]),
         pc'[t] = pc[t], arg'[t] = arg[t],
         pc[t] \in {"wait_pid", "exec_reap"} /\ arg[t] \in Task
           /\ state[arg[t]] # "ZOMBIE" => state'[arg[t]] # "ZOMBIE",
         chld_zombie[t] = <<>> => chld_zombie'[t] = <<>>
  PROVE  t = u /\ NothingToReap(t)'
<1>1. t = u /\ NothingToReap(t)
  BY DEF SleepersInv
<1>2. pc[t] \in {"wait_pid", "exec_reap"} => arg[t] \in Task
  BY DEF SchedInv, ControlInv
<1> QED BY <1>1, <1>2 DEF NothingToReap

\* A step that neither starts nor finishes the loading of a program.
LEMMA NoHandOff ==
  ASSUME SchedInv, SleepersInv,
         \A t \in Task : state[t] = "WAIT" =>
            pc'[t] = pc[t] /\ arg'[t] = arg[t] /\ ret'[t] = ret[t],
         \A t \in Task : pc[t] = "exec_load" => pc'[t] = pc[t] /\ params'[t] = params[t],
         \A t \in Task : pc'[t] = "exec_load" => pc[t] = "exec_load",
         \A u \in Task : queue'[ParamsWait(u)] = queue[ParamsWait(u)],
         \A t, u \in Task : t \in ToSet(queue'[WaitExit(u)]) => t = u /\ NothingToReap(t)'
  PROVE  SleepersInv'
<1>1. \A t, u \in Task : t \in ToSet(queue'[ParamsWait(u)]) => t = u /\ AwaitsLoad(t)'
  <2> SUFFICES ASSUME NEW t \in Task, NEW u \in Task, t \in ToSet(queue'[ParamsWait(u)])
               PROVE  t = u /\ AwaitsLoad(t)'
    OBVIOUS
  <2>1. t = u /\ AwaitsLoad(t)
    BY DEF SleepersInv
  <2>2. state[t] = "WAIT"
    BY SleepersWait, QueueNames
  <2> QED BY <2>1, <2>2 DEF AwaitsLoad
<1>2. ASSUME NEW c \in Task, pc'[c] = "exec_load"
      PROVE  params'[c] \in ToSet(queue'[ParamsWait(params'[c])]) /\ arg'[params'[c]] = c
  <2>1. pc[c] = "exec_load" /\ params'[c] = params[c] /\ params[c] \in Task
    BY <1>2 DEF SchedInv, ControlInv
  <2>2. params[c] \in ToSet(queue[ParamsWait(params[c])]) /\ arg[params[c]] = c
    BY <2>1 DEF SleepersInv
  <2>3. state[params[c]] = "WAIT"
    BY <2>1, <2>2, SleepersWait, QueueNames
  <2> QED BY <2>1, <2>2, <2>3
<1>3. \A x : ParamsWait(x)' = ParamsWait(x) /\ WaitExit(x)' = WaitExit(x)
  BY DEF ParamsWait, WaitExit
<1> QED BY <1>1, <1>2, <1>3 DEF SleepersInv

\* A step that leaves the wait queues, the states and the zombies alone.
LEMMA QuietSleepers ==
  ASSUME SchedInv, SleepersInv,
         queue' = queue, state' = state, chld_zombie' = chld_zombie,
         \A t \in Task : t # current => pc'[t] = pc[t] /\ arg'[t] = arg[t]
                                        /\ ret'[t] = ret[t] /\ params'[t] = params[t],
         pc[current] = "exec_load" =>
           pc'[current] = pc[current] /\ params'[current] = params[current],
         pc'[current] = "exec_load" => pc[current] = "exec_load"
  PROVE  SleepersInv' /\ ReapedByParent
<1>1. \A t \in Task : state[t] = "WAIT" => t # current
  BY SleepersWait
<1>2. \A t, u \in Task : t \in ToSet(queue'[WaitExit(u)]) => t = u /\ NothingToReap(t)'
  <2> SUFFICES ASSUME NEW t \in Task, NEW u \in Task, t \in ToSet(queue[WaitExit(u)])
               PROVE  t = u /\ NothingToReap(t)'
    OBVIOUS
  <2>1. t # current
    BY <1>1, SleepersWait, QueueNames
  <2> QED BY <2>1, StillNothing
<1>3. SleepersInv'
  BY <1>1, <1>2, NoHandOff
<1> QED BY <1>3 DEF ReapedByParent

\* The system calls that only move the current task on.
LEMMA MoveOn ==
  ASSUME SchedInv, SleepersInv,
         \/ exec_return \/ exec_user_mode \/ \E t \in Task : sys_wait_pid(t)
         \/ wait_pid_check \/ sys_wait_chld
  PROVE  SleepersInv' /\ ReapedByParent
<1>1. current \in Task /\ RestOK
  BY CurrentFacts DEF SchedInv
<1>2. UNCHANGED <<lists, state, family>>
  BY DEF exec_return, exec_user_mode, sys_wait_pid, wait_pid_check, sys_wait_chld
<1>3. queue' = queue /\ state' = state /\ chld_zombie' = chld_zombie
  BY <1>2 DEF lists, family
<1>4. /\ \A t \in Task : t # current => pc'[t] = pc[t] /\ arg'[t] = arg[t]
                                        /\ ret'[t] = ret[t] /\ params'[t] = params[t]
      /\ pc[current] # "exec_load" /\ pc'[current] # "exec_load"
  <2>1. CASE exec_return
    BY <2>1, <1>1 DEF exec_return, RestOK, AfterExec
  <2>2. CASE exec_user_mode
    BY <2>2, <1>1 DEF exec_user_mode, RestOK
  <2>3. CASE \E t \in Task : sys_wait_pid(t)
    BY <2>3, <1>1 DEF sys_wait_pid, RestOK, exec
  <2>4. CASE wait_pid_check
    BY <2>4, <1>1 DEF wait_pid_check, RestOK, exec
  <2>5. CASE sys_wait_chld
    BY <2>5, <1>1 DEF sys_wait_chld, RestOK, exec
  <2> QED BY <2>1, <2>2, <2>3, <2>4, <2>5
<1> QED BY <1>3, <1>4, QuietSleepers

\* sched_tick: the lists of runnable tasks change, and nothing else.
LEMMA TickSleepers ==
  ASSUME SchedInv, SleepersInv, sched_tick
  PROVE  SleepersInv' /\ ReapedByParent
<1>1. UNCHANGED <<family, queue, pc, arg, exec>>
  BY DEF sched_tick
<1>2. state' = state
  <2> DEFINE sl == [time_slice EXCEPT ![current] =
                      IF time_slice[current] # 0 THEN time_slice[current] - 1 ELSE 0]
  <2>1. CASE schedule_expired(sl)
    <3>1. pick_next(list_del(current, run_list), list_add(current, ready_list), state)
      BY <2>1 DEF schedule_expired
    <3>2. Queues(list_del(current, run_list), list_add(current, ready_list), queue, state)
      BY QueuesExpired DEF SchedInv
    <3> QED BY <3>1, <3>2, PickNext, CurrentFacts
  <2> QED BY <2>1 DEF sched_tick
<1> QED BY <1>1, <1>2, QuietSleepers DEF family, exec

\* A device wakes its sleepers, or the current task becomes one of them.
LEMMA IoSleepers ==
  ASSUME SchedInv, SleepersInv, NEW d \in IoQueue,
         IoWait(d) \/ IoWake(d) \/ wake_up_all(d)
  PROVE  SleepersInv' /\ ReapedByParent
<1> DEFINE id == <<"io", d>>
<1>1. id \in Queue
  BY IoQueueIn
<1>2. UNCHANGED <<family, pc, arg, exec>>
  BY DEF IoWait, IoWake, wake_up_all
<1>3. \A q \in Queue : q # id => queue'[q] = queue[q]
  <2>1. queue \in [Queue -> Seq(Task)]
    BY DEF SchedInv, Queues
  <2> QED BY <2>1, <1>1 DEF IoWait, wait, IoWake, wake_up, WokenQueue, wake_up_all
<1>4. \A t \in Task : state'[t] = "ZOMBIE" <=> state[t] = "ZOMBIE"
  <2>1. CASE IoWait(d)
    <3>1. wait(id, ready_list, state) /\ current # Idle
      BY <2>1, CurrentFacts DEF IoWait
    <3>2. state' = [state EXCEPT ![current] = "WAIT"]
      BY <3>1, <1>1, WaitStep, CurrentFacts DEF SchedInv
    <3> QED BY <3>2, CurrentFacts
  <2>2. CASE IoWake(d)
    <3>1. wake_up(id) /\ ready_list' = ready_list /\ current' = current
      BY <2>2 DEF IoWake
    <3> QED BY <3>1, <1>1, WakeStep DEF Alive
  <2>3. CASE wake_up_all(d)
    <3>1. state' = [t \in Task |-> IF t \in ToSet(queue[id]) THEN "RUNNABLE" ELSE state[t]]
      BY <2>3 DEF wake_up_all
    <3> QED BY <3>1, <1>1, SleepersWait
  <2> QED BY <2>1, <2>2, <2>3
<1>5. \A u \in Task : /\ queue'[ParamsWait(u)] = queue[ParamsWait(u)]
                      /\ queue'[WaitExit(u)] = queue[WaitExit(u)]
  BY <1>3, QueueNames
<1>6. \A t, u \in Task : t \in ToSet(queue'[WaitExit(u)]) => t = u /\ NothingToReap(t)'
  BY <1>2, <1>4, <1>5, StillNothing DEF family
<1>7. SleepersInv'
  BY <1>2, <1>5, <1>6, NoHandOff DEF exec
<1> QED BY <1>4, <1>7 DEF ReapedByParent
-----------------------------------------------------------------------------
(* Loading a program *)

\* start_kernel starts init, which sleeps nowhere yet.
LEMMA StartInitSleepers ==
  ASSUME SchedInv, SleepersInv, StartInit
  PROVE  SleepersInv' /\ ReapedByParent
<1> USE TasksAssumption
<1>1. /\ current = Idle /\ pc[Idle] = "boot" /\ state[InitTask] = "DEAD"
      /\ RestOK /\ Family(parent, chld_active, chld_zombie, state)
      /\ pc[InitTask] = "none"
  BY DEF StartInit, SchedInv, ControlInv
<1>2. /\ queue' = queue /\ arg' = arg /\ ret' = ret /\ params' = params
      /\ state' = [state EXCEPT ![InitTask] = "RUNNABLE"]
      /\ pc' = [pc EXCEPT ![Idle] = "idle", ![InitTask] = "init_start"]
      /\ chld_zombie' = [chld_zombie EXCEPT ![InitTask] = <<>>]
  BY DEF StartInit, Started
<1>3. /\ \A t \in Task : t # Idle /\ t # InitTask => pc'[t] = pc[t] /\ state'[t] = state[t]
      /\ pc'[Idle] = "idle" /\ pc'[InitTask] = "init_start"
      /\ state'[InitTask] = "RUNNABLE" /\ state'[Idle] = state[Idle]
      /\ \A t \in Task : chld_zombie[t] = <<>> => chld_zombie'[t] = <<>>
  <2>1. state \in [Task -> State] /\ pc \in [Task -> Pc] /\ chld_zombie \in [Task -> Seq(Task)]
    BY <1>1 DEF Family, RestOK
  <2> QED BY <2>1, <1>2
<1>4. \A t \in Task : state[t] = "WAIT" => t # Idle /\ t # InitTask
  BY <1>1, CurrentFacts
<1>5. \A t, u \in Task : t \in ToSet(queue'[WaitExit(u)]) => t = u /\ NothingToReap(t)'
  <2> SUFFICES ASSUME NEW t \in Task, NEW u \in Task, t \in ToSet(queue[WaitExit(u)])
               PROVE  t = u /\ NothingToReap(t)'
    BY <1>2
  <2>1. t # Idle /\ t # InitTask
    BY <1>4, SleepersWait, QueueNames
  <2>2. \A x \in Task : state'[x] = "ZOMBIE" => state[x] = "ZOMBIE"
    BY <1>3
  <2> QED BY <2>1, <2>2, <1>2, <1>3, StillNothing
<1>6. SleepersInv'
  BY <1>1, <1>2, <1>3, <1>4, <1>5, NoHandOff
<1> QED BY <1>1, <1>3, <1>6 DEF ReapedByParent

\* sys_exec puts its caller to sleep before the new task can run: "promise
\* wait called before wake_up" (fs/exec.c).
LEMMA SysExecSleepers ==
  ASSUME SchedInv, SleepersInv, NEW n \in Task, sys_exec(n)
  PROVE  SleepersInv' /\ ReapedByParent
<1> USE TasksAssumption
<1> DEFINE c == current
           id == ParamsWait(c)
           st == [state EXCEPT ![n] = "RUNNABLE"]
<1>1. /\ pc[c] \in {"user", "init_start"} /\ n \notin {Idle, InitTask} /\ state[n] = "DEAD"
      /\ chld_zombie' = [chld_zombie EXCEPT ![n] = <<>>]
      /\ wait(id, list_add(n, ready_list), st)
      /\ pc' = [pc EXCEPT ![c] = "exec_wait", ![n] = "exec_load"]
      /\ arg' = [arg EXCEPT ![c] = n, ![n] = NoTask]
      /\ ret' = [ret EXCEPT ![c] = "unset", ![n] = "unset"]
      /\ params' = [params EXCEPT ![n] = c]
  BY DEF sys_exec, Started
<1>2. /\ c \in Task /\ c # Idle /\ state[c] = "RUNNABLE" /\ c # n /\ pc[n] = "none"
      /\ RestOK /\ Queues(run_list, ready_list, queue, state)
      /\ chld_zombie \in [Task -> Seq(Task)] /\ state \in [Task -> State]
  BY <1>1, CurrentFacts DEF SchedInv, ControlInv, Family
<1>3. id \in Queue
  BY <1>2, QueueNames
<1>4. /\ pc'[c] = "exec_wait" /\ pc'[n] = "exec_load" /\ arg'[c] = n
      /\ ret'[c] = "unset" /\ params'[n] = c
      /\ \A t \in Task : t # c /\ t # n =>
            /\ pc'[t] = pc[t] /\ arg'[t] = arg[t] /\ ret'[t] = ret[t]
            /\ params'[t] = params[t] /\ chld_zombie'[t] = chld_zombie[t]
  BY <1>1, <1>2 DEF RestOK
<1>5. /\ state' = [st EXCEPT ![c] = "WAIT"]
  <2>1. Queues(run_list, list_add(n, ready_list), queue, st)
    BY <1>1, <1>2, QueuesNew
  <2>2. st[Idle] = "RUNNABLE"
    BY <1>1, <1>2, CurrentFacts
  <2> HIDE DEF st, id
  <2> QED BY <2>1, <2>2, <1>1, <1>2, <1>3, WaitStep
<1>6. \A t \in Task : state'[t] = "ZOMBIE" <=> state[t] = "ZOMBIE"
  BY <1>1, <1>2, <1>5
<1>7. /\ ToSet(queue'[id]) = ToSet(queue[id]) \cup {c}
      /\ \A q \in Queue : q # id => queue'[q] = queue[q]
  <2>1. queue' = [queue EXCEPT ![id] = list_add(c, @)]
    BY <1>1 DEF wait
  <2> DEFINE w == queue[id]
  <2>2. w \in Seq(Task) /\ c \in Task
    BY <1>2, <1>3, SleepersWait
  <2> HIDE DEF w, c
  <2>3. ToSet(list_add(c, w)) = ToSet(w) \cup {c}
    BY <2>2, ListAdd
  <2> QED BY <2>1, <2>3, <1>2, <1>3 DEF Queues, w
<1>8. \A t \in Task : state[t] = "WAIT" => t # c /\ t # n
  BY <1>1, <1>2
<1> HIDE DEF c, id, st
<1>9. \A t, u \in Task : t \in ToSet(queue'[WaitExit(u)]) => t = u /\ NothingToReap(t)'
  <2> SUFFICES ASSUME NEW t \in Task, NEW u \in Task, t \in ToSet(queue'[WaitExit(u)])
               PROVE  t = u /\ NothingToReap(t)'
    OBVIOUS
  <2>1. t \in ToSet(queue[WaitExit(u)])
    BY <1>2, <1>7, QueueNames DEF id
  <2>2. t # c /\ t # n
    BY <2>1, <1>8, SleepersWait, QueueNames
  <2> QED BY <2>1, <2>2, <1>4, <1>6, StillNothing
<1>10. \A t, u \in Task : t \in ToSet(queue'[ParamsWait(u)]) => t = u /\ AwaitsLoad(t)'
  <2> SUFFICES ASSUME NEW t \in Task, NEW u \in Task, t \in ToSet(queue'[ParamsWait(u)])
               PROVE  t = u /\ AwaitsLoad(t)'
    OBVIOUS
  <2>1. CASE t \in ToSet(queue[ParamsWait(u)])
    <3>1. t = u /\ AwaitsLoad(t) /\ t # c /\ t # n
      BY <2>1, <1>8, SleepersWait, QueueNames DEF SleepersInv
    <3>2. arg[t] # c /\ arg[t] # n
      BY <3>1, <1>1, <1>2 DEF AwaitsLoad
    <3> QED BY <3>1, <3>2, <1>4 DEF AwaitsLoad
  <2>2. CASE t \notin ToSet(queue[ParamsWait(u)])
    <3>1. t = c /\ u = c
      BY <2>2, <1>2, <1>7, QueueNames DEF id
    <3> QED BY <3>1, <1>4 DEF AwaitsLoad
  <2> QED BY <2>1, <2>2
<1>11. ASSUME NEW x \in Task, pc'[x] = "exec_load"
       PROVE  params'[x] \in ToSet(queue'[ParamsWait(params'[x])]) /\ arg'[params'[x]] = x
  <2>1. CASE x = n
    BY <2>1, <1>4, <1>7 DEF id
  <2>2. CASE x # n
    <3>1. pc[x] = "exec_load" /\ params'[x] = params[x] /\ params[x] \in Task
      BY <2>2, <1>4, <1>11 DEF SchedInv, ControlInv
    <3>2. params[x] \in ToSet(queue[ParamsWait(params[x])]) /\ arg[params[x]] = x
      BY <3>1 DEF SleepersInv
    <3>3. params[x] # c /\ params[x] # n
      BY <3>1, <3>2, <1>8, SleepersWait, QueueNames
    <3> QED BY <3>1, <3>2, <3>3, <1>2, <1>4, <1>7, QueueNames DEF id
  <2> QED BY <2>1, <2>2
<1>12. \A x : ParamsWait(x)' = ParamsWait(x) /\ WaitExit(x)' = WaitExit(x)
  BY DEF ParamsWait, WaitExit
<1> QED BY <1>6, <1>9, <1>10, <1>11, <1>12 DEF SleepersInv, ReapedByParent

\* exec_wrapper wakes the caller of the sys_exec that made the task, and
\* nobody else.
LEMMA ExecWrapperSleepers ==
  ASSUME SchedInv, SleepersInv, NEW r \in {"SUCCESS", "ERROR"}, exec_wrapper(r)
  PROVE  SleepersInv' /\ ReapedByParent
<1> DEFINE c == current
           p == params[c]
           id == ParamsWait(p)
<1>1. /\ pc[c] = "exec_load" /\ ret' = [ret EXCEPT ![p] = r] /\ wake_up(id)
      /\ pc' = [pc EXCEPT ![c] = IF r = "SUCCESS" THEN "exec_user" ELSE "exec_fail"]
      /\ UNCHANGED <<ready_list, current, time_slice, family, arg, params, argc>>
  BY DEF exec_wrapper
<1>2. /\ c \in Task /\ state[c] = "RUNNABLE" /\ p \in Task /\ RestOK
      /\ p \in ToSet(queue[id]) /\ arg[p] = c
  BY <1>1, CurrentFacts DEF SchedInv, ControlInv, SleepersInv
<1>3. id \in Queue
  BY <1>2, QueueNames
<1>4. /\ pc'[c] # "exec_load" /\ \A t \in Task : t # c => pc'[t] = pc[t]
      /\ \A t \in Task : t # p => ret'[t] = ret[t]
  BY <1>1, <1>2 DEF RestOK
<1>5. \A t \in Task : state'[t] = "ZOMBIE" <=> state[t] = "ZOMBIE"
  BY <1>1, <1>3, WakeStep DEF Alive
<1>6. /\ \A t \in Task : t \notin ToSet(queue'[id])
      /\ \A q \in Queue : q # id => queue'[q] = queue[q]
  <2> DEFINE w == queue[id]
  <2>1. w \in Seq(Task) /\ Linked(w) /\ queue \in [Queue -> Seq(Task)]
    BY <1>3, SleepersWait DEF SchedInv, Queues
  <2>2. w # <<>>
    BY <1>2 DEF ToSet
  <2>3. \A t \in Task : t \in ToSet(w) => t = p
    BY <1>2 DEF SleepersInv
  <2>4. queue' = [queue EXCEPT ![id] = Tail(@)]
    BY <1>1, <2>2 DEF wake_up, WokenQueue
  <2> HIDE DEF w
  <2>5. Head(w) \in ToSet(w) /\ Head(w) \in Task /\ ToSet(Tail(w)) = ToSet(w) \ {Head(w)}
    BY <2>1, <2>2, ListPop
  <2>6. \A t \in Task : t \notin ToSet(Tail(w))
    BY <2>3, <2>5
  <2> QED BY <2>1, <2>4, <2>6, <1>3 DEF w
<1>7. \A t \in Task : state[t] = "WAIT" => t # c
  BY <1>2
<1> HIDE DEF c, p, id
<1>8. \A t, u \in Task : t \in ToSet(queue'[WaitExit(u)]) => t = u /\ NothingToReap(t)'
  <2> SUFFICES ASSUME NEW t \in Task, NEW u \in Task, t \in ToSet(queue'[WaitExit(u)])
               PROVE  t = u /\ NothingToReap(t)'
    OBVIOUS
  <2>1. t \in ToSet(queue[WaitExit(u)])
    BY <1>2, <1>6, QueueNames DEF id
  <2>2. t # c
    BY <2>1, <1>7, SleepersWait, QueueNames
  <2> QED BY <2>1, <2>2, <1>1, <1>4, <1>5, StillNothing DEF family
<1>9. \A t, u \in Task : t \in ToSet(queue'[ParamsWait(u)]) => t = u /\ AwaitsLoad(t)'
  <2> SUFFICES ASSUME NEW t \in Task, NEW u \in Task, t \in ToSet(queue'[ParamsWait(u)])
               PROVE  t = u /\ AwaitsLoad(t)'
    OBVIOUS
  <2>1. u # p /\ t \in ToSet(queue[ParamsWait(u)])
    BY <1>2, <1>6, QueueNames DEF id
  <2>2. t = u /\ AwaitsLoad(t) /\ t # c
    BY <2>1, <1>7, SleepersWait, QueueNames DEF SleepersInv
  <2>3. arg[t] # c
    BY <2>1, <2>2 DEF AwaitsLoad, p
  <2> QED BY <2>1, <2>2, <2>3, <1>1, <1>4 DEF AwaitsLoad
<1>10. ASSUME NEW x \in Task, pc'[x] = "exec_load"
       PROVE  params'[x] \in ToSet(queue'[ParamsWait(params'[x])]) /\ arg'[params'[x]] = x
  <2>1. x # c /\ pc[x] = "exec_load" /\ params'[x] = params[x] /\ params[x] \in Task
    BY <1>1, <1>4, <1>10 DEF SchedInv, ControlInv
  <2>2. params[x] \in ToSet(queue[ParamsWait(params[x])]) /\ arg[params[x]] = x
    BY <2>1 DEF SleepersInv
  <2>3. params[x] # p
    BY <2>1, <2>2, <1>2
  <2> QED BY <2>1, <2>2, <2>3, <1>1, <1>2, <1>6, QueueNames DEF id
<1>11. \A x : ParamsWait(x)' = ParamsWait(x) /\ WaitExit(x)' = WaitExit(x)
  BY DEF ParamsWait, WaitExit
<1> QED BY <1>5, <1>8, <1>9, <1>10, <1>11 DEF SleepersInv, ReapedByParent
-----------------------------------------------------------------------------
(* exit and wait *)

\* schedule() of a zombie wakes the parent, the only one who sleeps on its
\* wait_exit, and concerns no other sleeper.
LEMMA ExitSleepers ==
  ASSUME SchedInv, SleepersInv, sys_exit
  PROVE  SleepersInv' /\ ReapedByParent
<1> USE TasksAssumption
<1> DEFINE c == current
           p == parent[c]
           id == WaitExit(p)
           s1 == [state EXCEPT ![c] = "ZOMBIE"]
           r1 == list_del(c, run_list)
           r2 == WokenRun(r1, queue, id)
           s2 == WokenState(s1, queue, id)
<1>1. /\ pc[c] \in {"user", "exec_fail"}
      /\ chld_zombie' = [chld_zombie EXCEPT ![p] = list_add(c, @)]
      /\ queue' = WokenQueue(queue, id) /\ pick_next(r2, ready_list, s2)
      /\ pc' = [pc EXCEPT ![c] = "none"] /\ params' = [params EXCEPT ![c] = NoTask]
      /\ UNCHANGED <<time_slice, parent, arg, ret>>
  BY DEF sys_exit, schedule_zombie
<1>2. /\ c \in Task /\ c # Idle /\ state[c] = "RUNNABLE" /\ c \in ToSet(run_list)
      /\ RestOK /\ state \in [Task -> State] /\ state[Idle] = "RUNNABLE"
      /\ Queues(run_list, ready_list, queue, state)
      /\ Family(parent, chld_active, chld_zombie, state)
  BY <1>1, CurrentFacts DEF SchedInv
<1>3. p \in Task /\ id \in Queue
  <2>1. p \in Task
    BY <1>2 DEF Family
  <2> QED BY <2>1, QueueNames
<1>4. Queues(r1, ready_list, queue, s1)
  BY <1>2, QueuesExit
<1>5. s1[c] = "ZOMBIE" /\ \A t \in Task : t # c => s1[t] = state[t]
  BY <1>2
<1>6. /\ \A t \in Task : t # c => pc'[t] = pc[t] /\ params'[t] = params[t]
      /\ pc'[c] = "none" /\ pc[c] # "exec_load"
      /\ \A t \in Task : t # p => chld_zombie'[t] = chld_zombie[t]
  BY <1>1, <1>2, <1>3 DEF RestOK, Family
<1>7. /\ \A t \in Task : t \notin ToSet(queue'[id])
      /\ \A q \in Queue : q # id => queue'[q] = queue[q]
  <2> DEFINE w == queue[id]
  <2>1. w \in Seq(Task) /\ Linked(w) /\ queue \in [Queue -> Seq(Task)]
    BY <1>2, <1>3, SleepersWait DEF Queues
  <2>2. \A t \in Task : t \in ToSet(w) => t = p
    BY <1>3 DEF SleepersInv
  <2>3. CASE w = <<>>
    <3>1. queue' = queue
      BY <2>3, <1>1 DEF WokenQueue
    <3>2. ToSet(<<>>) = {}
      BY DEF ToSet
    <3> QED BY <2>3, <3>1, <3>2
  <2>4. CASE w # <<>>
    <3>1. queue' = [queue EXCEPT ![id] = Tail(@)]
      BY <2>4, <1>1 DEF WokenQueue
    <3> HIDE DEF w
    <3>2. Head(w) \in ToSet(w) /\ Head(w) \in Task /\ ToSet(Tail(w)) = ToSet(w) \ {Head(w)}
      BY <2>1, <2>4, ListPop
    <3>3. \A t \in Task : t \notin ToSet(Tail(w))
      BY <2>2, <3>2
    <3> QED BY <2>1, <3>1, <3>3, <1>3 DEF w
  <2> QED BY <2>3, <2>4
<1> HIDE DEF p, id, r1, s1, c
<1>8. /\ Queues(r2, ready_list, queue', s2)
      /\ \A t \in Task : s2[t] = s1[t] \/ (s1[t] = "WAIT" /\ s2[t] = "RUNNABLE")
  BY <1>1, <1>3, <1>4, QueuesWake
<1> HIDE DEF r2, s2
<1>9. s2[Idle] = "RUNNABLE"
  BY <1>2, <1>5, <1>8
<1>10. state' = s2
  BY <1>1, <1>8, <1>9, PickNext
<1>11. \A t \in Task : t # c => (state'[t] = "ZOMBIE" <=> state[t] = "ZOMBIE")
  BY <1>5, <1>8, <1>10
<1>12. \A t \in Task : state[t] = "WAIT" => t # c
  BY <1>2
<1>13. \A t, u \in Task : t \in ToSet(queue'[WaitExit(u)]) => t = u /\ NothingToReap(t)'
  <2> SUFFICES ASSUME NEW t \in Task, NEW u \in Task, t \in ToSet(queue'[WaitExit(u)])
               PROVE  t = u /\ NothingToReap(t)'
    OBVIOUS
  <2>1. u # p /\ t \in ToSet(queue[WaitExit(u)])
    BY <1>3, <1>7, QueueNames DEF id
  <2>2. t = u /\ t # c
    BY <2>1, <1>12, SleepersWait, QueueNames DEF SleepersInv
  <2>3. pc[t] \in {"wait_pid", "exec_reap"} => arg[t] # c
    BY <2>1, <2>2, <1>3 DEF SchedInv, ControlInv, p
  <2> QED BY <2>1, <2>2, <2>3, <1>1, <1>6, <1>11, StillNothing
<1>14. SleepersInv'
  <2>1. \A u \in Task : queue'[ParamsWait(u)] = queue[ParamsWait(u)]
    BY <1>3, <1>7, QueueNames DEF id
  <2> QED BY <2>1, <1>1, <1>2, <1>6, <1>12, <1>13, NoHandOff
<1>15. ReapedByParent
  BY <1>2, <1>11 DEF ReapedByParent
<1> QED BY <1>14, <1>15

\* kthread_release of a zombie child d: d leaves its parent, and init, who
\* gets the children of d, is told when there is a zombie among them.
LEMMA ReapSleepers ==
  ASSUME SchedInv, SleepersInv, current # Idle, NEW d \in Task, state[d] = "ZOMBIE",
         parent[d] = current, kthread_release(d), UNCHANGED exec,
         NEW k, pc' = [pc EXCEPT ![current] = k], pc[current] # "exec_load", k # "exec_load",
         \A t \in Task : t # current => arg'[t] = arg[t]
  PROVE  SleepersInv' /\ ReapedByParent
<1> USE TasksAssumption
<1> DEFINE moved   == chld_active[d] \cup ToSet(chld_zombie[d])
           zombie  == [chld_zombie EXCEPT ![current] = list_del(d, @)]
           spliced == [zombie EXCEPT ![InitTask] = list_splice(zombie[d], @)]
           id      == WaitExit(InitTask)
           told    == moved # {} /\ spliced[InitTask] # <<>>
<1>1. /\ chld_zombie' = [spliced EXCEPT ![d] = <<>>]
      /\ queue' = IF told THEN WokenQueue(queue, id) ELSE queue
  BY DEF kthread_release, Told
<1>2. /\ state'[d] = "DEAD"
      /\ \A t \in Task : t # d =>
            state'[t] = state[t] \/ (state[t] \in Alive /\ state'[t] \in Alive)
  BY ReleaseStep
<1>3. /\ current \in Task /\ state[current] = "RUNNABLE" /\ RestOK /\ d # current
      /\ d # InitTask /\ id \in Queue
      /\ chld_zombie \in [Task -> Seq(Task)] /\ queue \in [Queue -> Seq(Task)]
  BY CurrentFacts, QueueNames DEF SchedInv, ControlInv, Family, Queues
<1>4. /\ \A t \in Task : t # current => pc'[t] = pc[t]
      /\ pc'[current] = k /\ ret' = ret /\ params' = params
  BY <1>3 DEF RestOK, exec
<1>5. \A t \in Task : state[t] = "WAIT" => t # current
  BY <1>3
<1>6. \A q \in Queue : q # id => queue'[q] = queue[q]
  BY <1>1, <1>3 DEF WokenQueue
<1>7. /\ ToSet(queue'[id]) \subseteq ToSet(queue[id])
      /\ told => \A t \in Task : t \notin ToSet(queue'[id])
  <2> DEFINE w == queue[id]
  <2>1. w \in Seq(Task) /\ Linked(w)
    BY <1>3, SleepersWait
  <2>2. \A t \in Task : t \in ToSet(w) => t = InitTask
    BY DEF SleepersInv
  <2>3. CASE w = <<>> \/ ~ told
    <3>1. queue' = queue
      BY <2>3, <1>1 DEF WokenQueue
    <3>2. ToSet(<<>>) = {}
      BY DEF ToSet
    <3> QED BY <2>3, <3>1, <3>2
  <2>4. CASE w # <<>> /\ told
    <3>1. queue' = [queue EXCEPT ![id] = Tail(@)]
      BY <2>4, <1>1 DEF WokenQueue
    <3> HIDE DEF w
    <3>2. Head(w) \in ToSet(w) /\ Head(w) \in Task /\ ToSet(Tail(w)) = ToSet(w) \ {Head(w)}
      BY <2>1, <2>4, ListPop
    <3>3. \A t \in Task : t \notin ToSet(Tail(w))
      BY <2>2, <3>2
    <3> QED BY <3>1, <3>2, <3>3, <1>3 DEF w
  <2> QED BY <2>3, <2>4
<1>8. ASSUME NEW t \in Task, t # current, chld_zombie[t] = <<>>, t = InitTask => ~ told
      PROVE  chld_zombie'[t] = <<>>
  <2>1. CASE t # InitTask
    BY <2>1, <1>1, <1>3, <1>8
  <2>2. CASE t = InitTask
    <3>1. /\ zombie[InitTask] = <<>> /\ zombie[d] = chld_zombie[d]
          /\ spliced[InitTask] = list_splice(chld_zombie[d], <<>>)
      BY <2>2, <1>3, <1>8
    <3>2. chld_zombie'[t] = spliced[InitTask]
      BY <2>2, <1>1, <1>3
    <3>3. CASE moved = {}
      <4>1. ToSet(chld_zombie[d]) = {} /\ chld_zombie[d] \in Seq(Task)
        BY <3>3, <1>3
      <4>2. chld_zombie[d] = <<>>
        BY <4>1, ListPop
      <4>3. list_splice(<<>>, <<>>) = <<>>
        BY DEF list_splice
      <4> QED BY <3>1, <3>2, <4>2, <4>3
    <3>4. CASE moved # {}
      BY <3>2, <3>4, <2>2, <1>8
    <3> QED BY <3>3, <3>4
  <2> QED BY <2>1, <2>2
<1> HIDE DEF moved, zombie, spliced, id, told
<1>9. \A t, u \in Task : t \in ToSet(queue'[WaitExit(u)]) => t = u /\ NothingToReap(t)'
  <2> SUFFICES ASSUME NEW t \in Task, NEW u \in Task, t \in ToSet(queue'[WaitExit(u)])
               PROVE  t = u /\ NothingToReap(t)'
    OBVIOUS
  <2>1. t \in ToSet(queue[WaitExit(u)])
    BY <1>6, <1>7, QueueNames
  <2>2. t = u /\ t # current
    BY <2>1, <1>5, SleepersWait, QueueNames DEF SleepersInv
  <2>3. t = InitTask => ~ told
    BY <2>2, <1>7 DEF id
  <2>4. arg[t] \in Task /\ state[arg[t]] # "ZOMBIE" => state'[arg[t]] # "ZOMBIE"
    BY <1>2 DEF Alive
  <2> QED BY <2>1, <2>2, <2>3, <2>4, <1>4, <1>8, StillNothing
<1>10. SleepersInv'
  <2>1. \A u \in Task : queue'[ParamsWait(u)] = queue[ParamsWait(u)]
    BY <1>6, QueueNames DEF id
  <2> QED BY <2>1, <1>3, <1>4, <1>5, <1>9, NoHandOff
<1>11. ReapedByParent
  BY <1>2 DEF ReapedByParent, Alive
<1> QED BY <1>10, <1>11

\* A turn of a wait_event loop that sleeps: the condition has just been
\* tested, with interrupts off.
LEMMA SleepSleepers ==
  ASSUME SchedInv, SleepersInv, current # Idle, NothingToReap(current),
         wait(WaitExit(current), ready_list, state), UNCHANGED <<family, pc, arg, exec>>
  PROVE  SleepersInv' /\ ReapedByParent
<1>0. PICK c \in Task : c = current
  BY CurrentFacts
<1> DEFINE id == WaitExit(c)
<1>1. state[c] = "RUNNABLE" /\ id \in Queue
  BY <1>0, CurrentFacts, QueueNames
<1>2. state' = [state EXCEPT ![c] = "WAIT"] /\ state \in [Task -> State]
  BY <1>0, <1>1, WaitStep, CurrentFacts DEF SchedInv
<1>3. \A t \in Task : state'[t] = "ZOMBIE" <=> state[t] = "ZOMBIE"
  BY <1>1, <1>2
<1>4. /\ ToSet(queue'[id]) = ToSet(queue[id]) \cup {c}
      /\ \A q \in Queue : q # id => queue'[q] = queue[q]
  <2>1. queue' = [queue EXCEPT ![id] = list_add(c, @)]
    BY <1>0 DEF wait
  <2>2. queue[id] \in Seq(Task) /\ queue \in [Queue -> Seq(Task)]
    BY <1>1, SleepersWait DEF SchedInv, Queues
  <2>3. ToSet(list_add(c, queue[id])) = ToSet(queue[id]) \cup {c}
    BY <2>2, ListAdd
  <2> QED BY <2>1, <2>2, <2>3, <1>1
<1>5. NothingToReap(c)'
  <2>1. pc[c] \in {"wait_pid", "exec_reap"} => arg[c] \in Task
    BY <1>1 DEF SchedInv, ControlInv
  <2> QED BY <2>1, <1>0, <1>3 DEF NothingToReap, family
<1> HIDE DEF id
<1>6. \A t, u \in Task : t \in ToSet(queue'[WaitExit(u)]) => t = u /\ NothingToReap(t)'
  <2> SUFFICES ASSUME NEW t \in Task, NEW u \in Task, t \in ToSet(queue'[WaitExit(u)])
               PROVE  t = u /\ NothingToReap(t)'
    OBVIOUS
  <2>1. CASE t \in ToSet(queue[WaitExit(u)])
    BY <2>1, <1>3, StillNothing DEF family
  <2>2. CASE t \notin ToSet(queue[WaitExit(u)])
    <3>1. t = c /\ u = c
      BY <2>2, <1>1, <1>4, QueueNames DEF id
    <3> QED BY <3>1, <1>5
  <2> QED BY <2>1, <2>2
<1>7. SleepersInv'
  <2>1. \A u \in Task : queue'[ParamsWait(u)] = queue[ParamsWait(u)]
    BY <1>1, <1>4, QueueNames DEF id
  <2> QED BY <2>1, <1>6, NoHandOff DEF exec
<1> QED BY <1>3, <1>7 DEF ReapedByParent

\* sys_wait_pid, also as sys_exec runs it
LEMMA WaitPidSleepers ==
  ASSUME SchedInv, SleepersInv, NEW at \in {"wait_pid", "exec_reap"}, NEW k,
         k # "exec_load", wait_pid_event(at, k)
  PROVE  SleepersInv' /\ ReapedByParent
<1>1. pc[current] = at /\ UNCHANGED exec
  BY DEF wait_pid_event
<1>2. /\ current \in Task /\ current # Idle /\ RestOK
      /\ arg[current] \in Task /\ parent[arg[current]] = current
  BY <1>1, CurrentFacts DEF SchedInv, ControlInv
<1>3. CASE state[arg[current]] # "ZOMBIE"
  <2>1. wait(WaitExit(current), ready_list, state) /\ UNCHANGED <<time_slice, family, pc, arg>>
    BY <1>3 DEF wait_pid_event
  <2>2. NothingToReap(current)
    BY <1>1, <1>3 DEF NothingToReap
  <2> QED BY <2>1, <2>2, <1>1, <1>2, SleepSleepers
<1>4. CASE state[arg[current]] = "ZOMBIE"
  <2>1. PICK d \in Task : d = arg[current]
    BY <1>2
  <2>2. /\ kthread_release(d) /\ pc' = [pc EXCEPT ![current] = k]
        /\ arg' = [arg EXCEPT ![current] = NoTask]
    BY <1>4, <2>1 DEF wait_pid_event
  <2>3. \A t \in Task : t # current => arg'[t] = arg[t]
    BY <2>2, <1>2 DEF RestOK
  <2> QED BY <2>1, <2>2, <2>3, <1>1, <1>2, <1>4, ReapSleepers
<1> QED BY <1>3, <1>4

\* sys_wait_chld
LEMMA WaitChldSleepers ==
  ASSUME SchedInv, SleepersInv, wait_chld_event
  PROVE  SleepersInv' /\ ReapedByParent
<1> DEFINE k == IF current = InitTask THEN "init_loop" ELSE "user"
<1>1. pc[current] = "wait_chld" /\ UNCHANGED <<arg, exec>>
  BY DEF wait_chld_event
<1>2. current \in Task /\ current # Idle
  BY <1>1, CurrentFacts
<1>3. CASE chld_zombie[current] = <<>>
  <2>1. wait(WaitExit(current), ready_list, state) /\ UNCHANGED <<time_slice, family, pc>>
    BY <1>3 DEF wait_chld_event
  <2>2. NothingToReap(current)
    BY <1>1, <1>3 DEF NothingToReap
  <2> QED BY <2>1, <2>2, <1>1, <1>2, SleepSleepers
<1>4. CASE chld_zombie[current] # <<>>
  <2>1. chld_zombie[current] \in Seq(Task)
    BY <1>2 DEF SchedInv, Family
  <2>2. PICK d \in Task : d = Head(chld_zombie[current]) /\ d \in ToSet(chld_zombie[current])
    BY <2>1, <1>4, ListPop
  <2>3. state[d] = "ZOMBIE" /\ parent[d] = current
    BY <2>2, <1>2 DEF SchedInv, Family
  <2>4. kthread_release(d) /\ pc' = [pc EXCEPT ![current] = k]
    BY <2>2, <1>4 DEF wait_chld_event
  <2>5. k # "exec_load"
    OBVIOUS
  <2> HIDE DEF k
  <2> QED BY <2>3, <2>4, <2>5, <1>1, <1>2, ReapSleepers
<1> QED BY <1>3, <1>4
-----------------------------------------------------------------------------
(* The theorems *)

\* At boot nobody sleeps.
LEMMA InitSleepers == Init => SleepersInv
<1> SUFFICES ASSUME Init PROVE SleepersInv
  OBVIOUS
<1>1. \A u \in Task : queue[WaitExit(u)] = <<>> /\ queue[ParamsWait(u)] = <<>>
  BY QueueNames DEF Init
<1>2. ToSet(<<>>) = {}
  BY DEF ToSet
<1>3. \A t \in Task : pc[t] # "exec_load"
  BY DEF Init
<1> QED BY <1>1, <1>2, <1>3 DEF SleepersInv

\* Every step keeps the sleepers right and frees a zombie only by its parent.
LEMMA NextSleepers ==
  SchedInv /\ SleepersInv /\ [Next]_vars => SleepersInv' /\ ReapedByParent
<1> SUFFICES ASSUME SchedInv, SleepersInv, [Next]_vars PROVE SleepersInv' /\ ReapedByParent
  OBVIOUS
<1>1. CASE StartInit
  BY <1>1, StartInitSleepers
<1>2. ASSUME NEW n \in Task, sys_exec(n) PROVE SleepersInv' /\ ReapedByParent
  BY <1>2, SysExecSleepers
<1>3. ASSUME NEW r \in {"SUCCESS", "ERROR"}, exec_wrapper(r)
      PROVE  SleepersInv' /\ ReapedByParent
  BY <1>3, ExecWrapperSleepers
<1>4. CASE sys_exit
  BY <1>4, ExitSleepers
<1>5. CASE \/ exec_return \/ exec_user_mode \/ \E t \in Task : sys_wait_pid(t)
           \/ wait_pid_check \/ sys_wait_chld
  BY <1>5, MoveOn
<1>6. CASE WaitPidEvent
  BY <1>6, WaitPidSleepers DEF WaitPidEvent
<1>7. CASE ExecReap
  <2>1. AfterExec(current, FALSE) # "exec_load"
    BY DEF AfterExec
  <2> QED BY <1>7, <2>1, WaitPidSleepers DEF ExecReap
<1>8. CASE wait_chld_event
  BY <1>8, WaitChldSleepers
<1>9. ASSUME NEW d \in IoQueue, IoWait(d) \/ IoWake(d) \/ wake_up_all(d)
      PROVE  SleepersInv' /\ ReapedByParent
  BY <1>9, IoSleepers
<1>10. CASE sched_tick
  BY <1>10, TickSleepers
<1>11. CASE UNCHANGED vars
  BY <1>11, QuietSleepers DEF vars
<1>12. CASE Panic
  BY <1>11, <1>12 DEF Panic
<1> QED BY <1>1, <1>2, <1>3, <1>4, <1>5, <1>6, <1>7, <1>8, <1>9, <1>10, <1>11, <1>12
        DEF Next, TaskStep

\* Why every sleeper on wait_exit or params.wait sleeps.
THEOREM SchedSleepers == Spec => []SleepersInv
<1> QED BY InitSleepers, NextSleepers, SchedInvariant, PTL DEF Spec

\* No wake-up is lost between the test of wait_event and the sleep, or between
\* the exit of a child, or of a grandchild handed to init, and the wake-up: a
\* parent never sleeps on a zombie.
THEOREM SchedNoLostExit == Spec => []NoLostExit
<1>1. SleepersInv => NoLostExit
  BY DEF SleepersInv, NothingToReap, NoLostExit
<1> QED BY <1>1, SchedSleepers, PTL

\* The caller of sys_exec sleeps on params.wait only while its own child is
\* still to call wake_up(&params->wait).
THEOREM SchedExecHandOff == Spec => []ExecHandOff
<1>1. SleepersInv => ExecHandOff
  BY DEF SleepersInv, AwaitsLoad, ExecHandOff
<1> QED BY <1>1, SchedSleepers, PTL

\* Only the parent of a zombie frees its task_struct, and no step makes a
\* zombie anything but free.
THEOREM SchedOnlyParentReaps == Spec => OnlyParentReaps
<1>1. SchedInv /\ SleepersInv /\ [Next]_vars =>
        [\A t \in Task : state[t] = "ZOMBIE" /\ state'[t] # "ZOMBIE" =>
           state'[t] = "DEAD" /\ current = parent[t]]_vars
  BY NextSleepers DEF ReapedByParent
<1> QED BY <1>1, SchedInvariant, SchedSleepers, PTL DEF Spec, OnlyParentReaps
=============================================================================
