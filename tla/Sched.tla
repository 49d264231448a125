------------------------------- MODULE Sched -------------------------------
(***************************************************************************)
(* Tasks of the kernel: the scheduler (kernel/sched.c), the exit and wait  *)
(* system calls (kernel/exit.c), the hand-off between sys_exec and the new *)
(* task (fs/exec.c) and the boot of init (init/main.c).                    *)
(*                                                                         *)
(* There is one processor.  Only the current task takes steps, and an      *)
(* interrupt is taken only between two steps of a task that runs with      *)
(* interrupts enabled.  Whatever the code does between irq_save and the    *)
(* next point where interrupts are enabled again (or where another task is *)
(* switched to) is one action.  A task is identified with the page that    *)
(* holds its task_struct and its kernel stack; TASK_DEAD is the state of a *)
(* page that is not in use as a task.  A local variable of a function that *)
(* has returned is given its initial value again.                          *)
(***************************************************************************)
EXTENDS Lists, FiniteSets

CONSTANTS Task,       \* pages that can hold a task
          Idle,       \* the task with pid 0, made out of the boot stack
          InitTask,   \* the task with pid 1
          NoTask,     \* NULL
          IoQueue,    \* wait queues of devices and locks
          TimeSlice   \* calc_time_slice(): 10 ticks in the code

ASSUME TasksAssumption ==
  /\ Idle \in Task /\ InitTask \in Task /\ Idle # InitTask
  /\ NoTask \notin Task
ASSUME TimeSliceAssumption == TimeSlice \in Nat \ {0}

VARIABLES
  run_list,     \* tasks that still have a time slice, the next one first
  ready_list,   \* tasks that have used up their time slice, and new tasks
  current,      \* the task that owns the processor
  state,        \* task->state
  time_slice,   \* task->time_slice
  parent,       \* task->parent
  chld_active,  \* task->chld_active, whose order nothing depends on
  chld_zombie,  \* task->chld_zombie
  queue,        \* every wait queue
  pc,           \* where the task is in the code
  arg,          \* the task sys_wait_pid or sys_exec of the task refers to
  ret,          \* params.ret in the task's sys_exec frame
  params,       \* the task whose frame exec_wrapper's params points into
  argc          \* the argc the task's program was started with

lists  == <<run_list, ready_list, current, time_slice, queue>>
family == <<parent, chld_active, chld_zombie>>
exec   == <<ret, params, argc>>
vars   == <<run_list, ready_list, current, state, time_slice, parent,
            chld_active, chld_zombie, queue, pc, arg, ret, params, argc>>

\* The wait queues: wait_exit of a task, params.wait in a task's sys_exec
\* frame, and those of the devices.
WaitExit(t) == <<"wait_exit", t>>
ParamsWait(t) == <<"params", t>>
Queue == ({"wait_exit", "params"} \X Task) \cup ({"io"} \X IoQueue)

State == {"RUNNABLE", "WAIT", "ZOMBIE", "DEAD"}

\* Control points.  "idle", "user", "init_start", "init_loop", "wait_chk",
\* "wait_pid", "wait_chld", "exec_load", "exec_user" and "exec_fail" are
\* reached with interrupts enabled, "exec_wait" and "exec_reap" inside the
\* irq_save section of sys_exec.
Preemptible == {"boot", "idle", "user", "init_start", "init_loop", "wait_chk",
                "wait_pid", "wait_chld", "exec_load", "exec_user", "exec_fail"}
Pc == Preemptible \cup {"exec_wait", "exec_reap", "panic", "none"}

TypeOK ==
  /\ run_list \in Seq(Task) /\ ready_list \in Seq(Task)
  /\ current \in Task
  /\ state \in [Task -> State]
  /\ time_slice \in [Task -> 0..TimeSlice]
  /\ parent \in [Task -> Task \cup {NoTask}]
  /\ chld_active \in [Task -> SUBSET Task]
  /\ chld_zombie \in [Task -> Seq(Task)]
  /\ queue \in [Queue -> Seq(Task)]
  /\ pc \in [Task -> Pc]
  /\ arg \in [Task -> Task \cup {NoTask}]
  /\ ret \in [Task -> {"unset", "SUCCESS", "ERROR"}]
  /\ params \in [Task -> Task \cup {NoTask}]
  /\ argc \in [Task -> {"none", "own", "stale"}]

\* init_task: the boot stack becomes the idle task, the only one there is.
Init ==
  /\ run_list = <<Idle>> /\ ready_list = <<>>
  /\ current = Idle
  /\ state = [t \in Task |-> IF t = Idle THEN "RUNNABLE" ELSE "DEAD"]
  /\ time_slice = [t \in Task |-> IF t = Idle THEN TimeSlice ELSE 0]
  /\ parent = [t \in Task |-> NoTask]
  /\ chld_active = [t \in Task |-> {}]
  /\ chld_zombie = [t \in Task |-> <<>>]
  /\ queue = [q \in Queue |-> <<>>]
  /\ pc = [t \in Task |-> IF t = Idle THEN "boot" ELSE "none"]
  /\ arg = [t \in Task |-> NoTask]
  /\ ret = [t \in Task |-> "unset"]
  /\ params = [t \in Task |-> NoTask]
  /\ argc = [t \in Task |-> "none"]
-----------------------------------------------------------------------------
(* wake_up: the task at the head of the queue, if there is one, becomes    *)
(* runnable and the head of run_list.                                      *)

\* Mutant: the woken task stays linked on the queue.
WokenQueueKept(q, id) == q

WokenRun(run, q, id) == IF q[id] = <<>> THEN run ELSE list_add(Head(q[id]), run)
WokenQueue(q, id)    == IF q[id] = <<>> THEN q ELSE [q EXCEPT ![id] = Tail(@)]
WokenState(st, q, id) ==
  IF q[id] = <<>> THEN st ELSE [st EXCEPT ![Head(q[id])] = "RUNNABLE"]

wake_up(id) ==
  /\ run_list' = WokenRun(run_list, queue, id)
  /\ queue' = WokenQueue(queue, id)
  /\ state' = WokenState(state, queue, id)

\* The end of schedule(): when run_list is empty the two lists change roles;
\* the head of run_list gets the processor.
pick_next(run, ready, st) ==
  /\ run_list' = IF run = <<>> THEN list_splice(ready, run) ELSE run
  /\ ready_list' = IF run = <<>> THEN <<>> ELSE ready
  /\ state' = [t \in Task |->
                 IF run = <<>> /\ t \in ToSet(ready) THEN "RUNNABLE" ELSE st[t]]
  /\ current' = Head(run_list')

\* Mutants: a time slice one tick too long; the task keeps its place.
schedule_expired_long(sl) ==
  /\ time_slice' = [sl EXCEPT ![current] = TimeSlice + 1]
  /\ pick_next(list_del(current, run_list), list_add(current, ready_list), state)
schedule_expired_stay(sl) ==
  /\ time_slice' = [sl EXCEPT ![current] = TimeSlice]
  /\ pick_next(run_list, ready_list, state)

\* schedule() of a task whose time slice is used up.
schedule_expired(sl) ==
  /\ time_slice' = [sl EXCEPT ![current] = TimeSlice]
  /\ pick_next(list_del(current, run_list), list_add(current, ready_list), state)

\* wait(): the current task goes to the head of the queue; schedule() finds
\* it neither runnable nor a zombie and only picks the next task.
wait(id, ready, st) ==
  /\ queue' = [queue EXCEPT ![id] = list_add(current, @)]
  /\ pick_next(list_del(current, run_list), ready,
               [st EXCEPT ![current] = "WAIT"])

\* Mutant: the parent is not woken.
schedule_zombie_silent ==
  /\ chld_active' = [chld_active EXCEPT ![parent[current]] = @ \ {current}]
  /\ chld_zombie' = [chld_zombie EXCEPT ![parent[current]] = list_add(current, @)]
  /\ UNCHANGED queue
  /\ pick_next(list_del(current, run_list), ready_list,
               [state EXCEPT ![current] = "ZOMBIE"])

\* schedule() of a zombie: it leaves run_list, moves to the zombie children
\* of its parent and wakes the parent.
schedule_zombie ==
  LET p  == parent[current]
      id == WaitExit(p)
      st == [state EXCEPT ![current] = "ZOMBIE"]
  IN /\ chld_active' = [chld_active EXCEPT ![p] = @ \ {current}]
     /\ chld_zombie' = [chld_zombie EXCEPT ![p] = list_add(current, @)]
     /\ queue' = WokenQueue(queue, id)
     /\ pick_next(WokenRun(list_del(current, run_list), queue, id), ready_list,
                  WokenState(st, queue, id))
-----------------------------------------------------------------------------
(* Interrupts *)

IrqOn == pc[current] \in Preemptible

\* The timer interrupt: sched_tick.
sched_tick ==
  LET left == IF time_slice[current] # 0 THEN time_slice[current] - 1 ELSE 0
      sl   == [time_slice EXCEPT ![current] = left]
  IN /\ IrqOn
     /\ \/ /\ left # 0
           /\ time_slice' = sl
           /\ UNCHANGED <<run_list, ready_list, current, state>>
        \/ /\ left = 0
           /\ schedule_expired(sl)
     /\ UNCHANGED <<family, queue, pc, arg, exec>>

\* A device interrupt, or the task that frees a lock, wakes one sleeper.
IoWake(d) ==
  /\ IrqOn
  /\ queue[<<"io", d>>] # <<>>
  /\ wake_up(<<"io", d>>)
  /\ UNCHANGED <<ready_list, current, time_slice, family, pc, arg, exec>>

\* wake_up_all: every sleeper, in queue order, in front of run_list.
wake_up_all(d) ==
  LET id == <<"io", d>>
  IN /\ IrqOn
     /\ queue[id] # <<>>
     /\ run_list' = list_splice(queue[id], run_list)
     /\ queue' = [queue EXCEPT ![id] = <<>>]
     /\ state' = [t \in Task |-> IF t \in ToSet(queue[id]) THEN "RUNNABLE"
                                                            ELSE state[t]]
     /\ UNCHANGED <<ready_list, current, time_slice, family, pc, arg, exec>>

\* Mutant: any code may sleep, that of the idle task too.
IoWait_anywhere(d) ==
  /\ pc[current] # "boot"
  /\ wait(<<"io", d>>, ready_list, state)
  /\ UNCHANGED <<time_slice, family, pc, arg, exec>>

\* A task sleeps on a device or a lock in the middle of a system call.
IoWait(d) ==
  /\ pc[current] \in {"user", "init_start", "exec_load"}
  /\ wait(<<"io", d>>, ready_list, state)
  /\ UNCHANGED <<time_slice, family, pc, arg, exec>>
-----------------------------------------------------------------------------
(* kernel_thread: a new child of the current task, first on ready_list.    *)

\* Mutant: the child is not put on the parent's list.
Started_unlinked(n) ==
  /\ time_slice' = [time_slice EXCEPT ![n] = TimeSlice]
  /\ parent' = [parent EXCEPT ![n] = current]
  /\ chld_active' = [chld_active EXCEPT ![n] = {}]
  /\ chld_zombie' = [chld_zombie EXCEPT ![n] = <<>>]
  /\ argc' = [argc EXCEPT ![n] = "none"]

Started(n) ==
  /\ time_slice' = [time_slice EXCEPT ![n] = TimeSlice]
  /\ parent' = [parent EXCEPT ![n] = current]
  /\ chld_active' = [chld_active EXCEPT ![current] = @ \cup {n}, ![n] = {}]
  /\ chld_zombie' = [chld_zombie EXCEPT ![n] = <<>>]
  /\ argc' = [argc EXCEPT ![n] = "none"]

\* start_kernel: the idle task starts init and then only halts.
StartInit ==
  /\ current = Idle /\ pc[Idle] = "boot"
  /\ Started(InitTask)
  /\ ready_list' = list_add(InitTask, ready_list)
  /\ state' = [state EXCEPT ![InitTask] = "RUNNABLE"]
  /\ pc' = [pc EXCEPT ![Idle] = "idle", ![InitTask] = "init_start"]
  /\ UNCHANGED <<run_list, current, queue, arg, ret, params>>

\* sys_exec up to the point where the caller sleeps on params.wait.  Without
\* memory for the new task sys_exec returns -ENOMEM and leaves this state as
\* it was.
sys_exec(n) ==
  /\ pc[current] \in {"user", "init_start"}
  /\ n \notin {Idle, InitTask} /\ state[n] = "DEAD"
  /\ Started(n)
  /\ wait(ParamsWait(current), list_add(n, ready_list),
          [state EXCEPT ![n] = "RUNNABLE"])
  /\ pc' = [pc EXCEPT ![current] = "exec_wait", ![n] = "exec_load"]
  /\ arg' = [arg EXCEPT ![current] = n, ![n] = NoTask]
  /\ ret' = [ret EXCEPT ![current] = "unset", ![n] = "unset"]
  /\ params' = [params EXCEPT ![n] = current]

\* Where sys_exec and sys_wait_pid of a task return to: init goes on to its
\* loop, and panics when the exec of the shell fails.
AfterExec(t, ok) ==
  IF t # InitTask THEN "user" ELSE IF ok THEN "init_loop" ELSE "panic"

\* sys_exec after the wait: report the pid, or reap the child that failed.
exec_return ==
  /\ pc[current] = "exec_wait"
  /\ pc' = [pc EXCEPT ![current] = IF ret[current] = "ERROR" THEN "exec_reap"
                                   ELSE AfterExec(current, TRUE)]
  /\ arg' = [arg EXCEPT ![current] = IF ret[current] = "ERROR" THEN @ ELSE NoTask]
  /\ ret' = [ret EXCEPT ![current] = "unset"]
  /\ UNCHANGED <<lists, state, family, params, argc>>

\* Mutant: the caller is not woken.
exec_wrapper_silent(result) ==
  /\ pc[current] = "exec_load"
  /\ ret' = [ret EXCEPT ![params[current]] = result]
  /\ pc' = [pc EXCEPT ![current] =
                        IF result = "SUCCESS" THEN "exec_user" ELSE "exec_fail"]
  /\ UNCHANGED <<lists, state, family, arg, params, argc>>

\* exec_wrapper up to wake_up(&params->wait): load the program, leave the
\* result in the frame of sys_exec and wake its caller.
exec_wrapper(result) ==
  /\ pc[current] = "exec_load"
  /\ ret' = [ret EXCEPT ![params[current]] = result]
  /\ wake_up(ParamsWait(params[current]))
  /\ pc' = [pc EXCEPT ![current] =
                        IF result = "SUCCESS" THEN "exec_user" ELSE "exec_fail"]
  /\ UNCHANGED <<ready_list, current, time_slice, family, arg, params, argc>>

\* The frame params points into is the one of the sys_exec that made the task.
FrameAlive(t) == pc[params[t]] = "exec_wait" /\ arg[params[t]] = t

\* exec_wrapper reads params->argc and jumps to user mode.  When sys_exec has
\* returned, the read finds whatever the caller's stack holds by now.
exec_user_mode ==
  /\ pc[current] = "exec_user"
  /\ pc' = [pc EXCEPT ![current] = "user"]
  /\ \E v \in (IF FrameAlive(current) THEN {"own"} ELSE {"own", "stale"}) :
       argc' = [argc EXCEPT ![current] = v]
  /\ params' = [params EXCEPT ![current] = NoTask]
  /\ UNCHANGED <<lists, state, family, arg, ret>>
-----------------------------------------------------------------------------
(* exit and wait *)

\* sys_exit, from user mode or after a failed exec_wrapper.
sys_exit ==
  /\ pc[current] \in {"user", "exec_fail"}
  /\ schedule_zombie
  /\ pc' = [pc EXCEPT ![current] = "none"]
  /\ params' = [params EXCEPT ![current] = NoTask]
  /\ argc' = [argc EXCEPT ![current] = "none"]
  /\ UNCHANGED <<time_slice, parent, arg, ret>>

\* Mutant: init is not told of the zombies it inherits.
Told_never(moved, zombies) == FALSE

\* kthread_release has moved children to init, and init has zombies to reap.
Told(moved, zombies) == moved # {} /\ zombies # <<>>

\* kthread_release of a zombie child d of the current task: d is unlinked,
\* its children go to init, and init is told when a zombie is among them.
kthread_release(d) ==
  LET moved  == chld_active[d] \cup ToSet(chld_zombie[d])
      active == [chld_active EXCEPT ![InitTask] = @ \cup chld_active[d]]
      zombie == [chld_zombie EXCEPT ![current] = list_del(d, @)]
      spliced == [zombie EXCEPT ![InitTask] = list_splice(zombie[d], @)]
      dead   == [state EXCEPT ![d] = "DEAD"]
      id     == WaitExit(InitTask)
      told   == Told(moved, spliced[InitTask])
  IN /\ parent' = [t \in Task |-> IF t = d THEN NoTask ELSE
                                   IF t \in moved THEN InitTask ELSE parent[t]]
     /\ chld_active' = [active EXCEPT ![d] = {}]
     /\ chld_zombie' = [spliced EXCEPT ![d] = <<>>]
     /\ run_list' = IF told THEN WokenRun(run_list, queue, id) ELSE run_list
     /\ queue' = IF told THEN WokenQueue(queue, id) ELSE queue
     /\ state' = IF told THEN WokenState(dead, queue, id) ELSE dead
     /\ UNCHANGED <<ready_list, current, time_slice>>

\* sys_wait_pid looks the pid up with interrupts enabled ...
sys_wait_pid(t) ==
  /\ pc[current] = "user"
  /\ state[t] # "DEAD"
  /\ pc' = [pc EXCEPT ![current] = "wait_chk"]
  /\ arg' = [arg EXCEPT ![current] = t]
  /\ UNCHANGED <<lists, state, family, exec>>

\* Mutant: anybody may wait for anybody.
wait_pid_check_none ==
  /\ pc[current] = "wait_chk"
  /\ pc' = [pc EXCEPT ![current] = "wait_pid"]
  /\ UNCHANGED <<lists, state, family, arg, exec>>

\* ... and then tests that it is a child of the caller, although the task
\* found may have been freed or replaced since.
wait_pid_check ==
  /\ pc[current] = "wait_chk"
  /\ pc' = [pc EXCEPT ![current] =
              IF parent[arg[current]] = current THEN "wait_pid" ELSE "user"]
  /\ arg' = [arg EXCEPT ![current] = IF parent[@] = current THEN @ ELSE NoTask]
  /\ UNCHANGED <<lists, state, family, exec>>

\* One turn of the loop of wait_event in sys_wait_pid: sleep, or reap.
wait_pid_event(at, next) ==
  /\ pc[current] = at
  /\ \/ /\ state[arg[current]] # "ZOMBIE"
        /\ wait(WaitExit(current), ready_list, state)
        /\ UNCHANGED <<time_slice, family, pc, arg>>
     \/ /\ state[arg[current]] = "ZOMBIE"
        /\ kthread_release(arg[current])
        /\ pc' = [pc EXCEPT ![current] = next]
        /\ arg' = [arg EXCEPT ![current] = NoTask]
  /\ UNCHANGED exec

\* sys_wait_chld: one turn of the loop of wait_event; the zombie that is
\* first on the list is reaped.
sys_wait_chld ==
  /\ pc[current] \in {"user", "init_loop"}
  /\ pc' = [pc EXCEPT ![current] = "wait_chld"]
  /\ UNCHANGED <<lists, state, family, arg, exec>>

wait_chld_event ==
  /\ pc[current] = "wait_chld"
  /\ \/ /\ chld_zombie[current] = <<>>
        /\ wait(WaitExit(current), ready_list, state)
        /\ UNCHANGED <<time_slice, family, pc>>
     \/ /\ chld_zombie[current] # <<>>
        /\ kthread_release(Head(chld_zombie[current]))
        /\ pc' = [pc EXCEPT ![current] =
                    IF current = InitTask THEN "init_loop" ELSE "user"]
  /\ UNCHANGED <<arg, exec>>

\* panic() stops the machine.
Panic == pc[InitTask] = "panic" /\ current = InitTask /\ UNCHANGED vars
-----------------------------------------------------------------------------
WaitPidEvent == wait_pid_event("wait_pid", "user")
ExecReap == wait_pid_event("exec_reap", AfterExec(current, FALSE))

\* A step of the current task.
TaskStep ==
  \/ StartInit
  \/ \E n \in Task : sys_exec(n)
  \/ exec_return
  \/ \E r \in {"SUCCESS", "ERROR"} : exec_wrapper(r)
  \/ exec_user_mode
  \/ sys_exit
  \/ \E t \in Task : sys_wait_pid(t)
  \/ wait_pid_check
  \/ WaitPidEvent
  \/ ExecReap
  \/ sys_wait_chld
  \/ wait_chld_event
  \/ \E d \in IoQueue : IoWait(d)
  \/ Panic

Next ==
  \/ TaskStep
  \/ sched_tick
  \/ \E d \in IoQueue : IoWake(d) \/ wake_up_all(d)

Spec == Init /\ [][Next]_vars
-----------------------------------------------------------------------------
(* Correctness *)

\* Every task_struct is linked through its run_list member on exactly one
\* list: run_list or ready_list when it is runnable, one wait queue when it
\* waits, none when it is a zombie or free.  The current task is on run_list
\* (list_del in wait, schedule and wake_up would otherwise corrupt a list).
QueueInv ==
  /\ Linked(run_list) /\ Linked(ready_list)
  /\ ToSet(run_list) \cap ToSet(ready_list) = {}
  /\ \A q \in Queue : Linked(queue[q])
  /\ \A q \in Queue : \A t \in ToSet(queue[q]) : state[t] = "WAIT"
  /\ \A q, r \in Queue : q # r => ToSet(queue[q]) \cap ToSet(queue[r]) = {}
  /\ \A t \in Task : state[t] = "WAIT" => \E q \in Queue : t \in ToSet(queue[q])
  /\ \A t \in Task : state[t] = "RUNNABLE"
                       <=> t \in ToSet(run_list) \cup ToSet(ready_list)
  /\ current \in ToSet(run_list)

\* The idle task never sleeps and never exits, so schedule() always finds a
\* task: BUG_ON(list_empty(&run_list)) cannot fire.
IdleInv == pc[Idle] \in {"boot", "idle"} /\ state[Idle] = "RUNNABLE"

\* parent, chld_active and chld_zombie describe the same tree, also after a
\* dead task's children were handed to init; only the idle task has no parent,
\* so BUG_ON(current->parent == NULL) in schedule() cannot fire.
FamilyInv ==
  /\ \A p \in Task : Linked(chld_zombie[p])
  /\ \A t, p \in Task : /\ t \in chld_active[p] <=>
                             parent[t] = p /\ state[t] \in {"RUNNABLE", "WAIT"}
                        /\ t \in ToSet(chld_zombie[p]) <=>
                             parent[t] = p /\ state[t] = "ZOMBIE"
  /\ \A t \in Task : state[t] # "DEAD" /\ t # Idle =>
                       parent[t] \in Task /\ state[parent[t]] # "DEAD"
  /\ parent[Idle] = NoTask

\* The task that sys_wait_pid waits for stays a live child of the caller:
\* nobody frees or adopts it while the caller sleeps.
WaitTargetInv ==
  \A t \in Task : pc[t] \in {"wait_pid", "exec_reap"} =>
    /\ arg[t] \in Task /\ parent[arg[t]] = t
    /\ state[arg[t]] # "DEAD"

\* No lost wake-up: a task asleep on its wait_exit has nothing to reap.
NoLostExit ==
  \A t \in Task : t \in ToSet(queue[WaitExit(t)]) =>
    \/ pc[t] \in {"wait_pid", "exec_reap"} /\ state[arg[t]] # "ZOMBIE"
    \/ pc[t] = "wait_chld" /\ chld_zombie[t] = <<>>

\* "promise wait called before wake_up" (fs/exec.c): the caller of sys_exec
\* sleeps only as long as its child has not yet reached wake_up.
ExecHandOff ==
  \A t \in Task : t \in ToSet(queue[ParamsWait(t)]) =>
    /\ pc[t] = "exec_wait" /\ ret[t] = "unset"
    /\ pc[arg[t]] = "exec_load" /\ params[arg[t]] = t

\* A zombie keeps its task_struct until its own parent reaps it.
OnlyParentReaps ==
  [][\A t \in Task : state[t] = "ZOMBIE" /\ state'[t] # "ZOMBIE" =>
       state'[t] = "DEAD" /\ current = parent[t]]_vars

\* The value of argc a program starts with is the one its sys_exec computed
\* ("pass argc, argv which can be accessed by user mode", fs/exec.c).
ArgcPassed == \A t \in Task : argc[t] # "stale"
-----------------------------------------------------------------------------
(* Fairness.  The timer interrupt is latched by the interrupt controller   *)
(* until it can be taken.  A task that is in the kernel goes on whenever   *)
(* it has the processor; a program may loop in user mode for ever.         *)

KernelStep ==
  \/ StartInit
  \/ exec_return
  \/ \E r \in {"SUCCESS", "ERROR"} : exec_wrapper(r)
  \/ exec_user_mode
  \/ pc[current] = "exec_fail" /\ sys_exit
  \/ wait_pid_check
  \/ WaitPidEvent
  \/ ExecReap
  \/ pc[current] = "init_loop" /\ sys_wait_chld
  \/ wait_chld_event

Fairness ==
  /\ SF_vars(sched_tick)
  /\ \A t \in Task : SF_vars(current = t /\ KernelStep)
  /\ \A d \in IoQueue : SF_vars(IoWake(d))

FairSpec == Spec /\ Fairness

Panicked == pc[InitTask] = "panic"

\* No starvation: a runnable task gets the processor, however often other
\* tasks are woken in front of it.
RunnableRuns == \A t \in Task : state[t] = "RUNNABLE" ~> (current = t \/ Panicked)

\* sys_wait_pid returns once the child it waits for has exited.
WaitPidReturns ==
  \A t \in Task :
    (pc[t] \in {"wait_pid", "exec_reap"} /\ state[arg[t]] = "ZOMBIE")
      ~> (pc[t] \notin {"wait_pid", "exec_reap"} \/ Panicked)

\* init does not sleep on a zombie, one that it inherits while it sleeps
\* included: sys_wait_chld returns to init's loop.
InitReaps ==
  (pc[InitTask] = "wait_chld" /\ chld_zombie[InitTask] # <<>>)
     ~> (pc[InitTask] # "wait_chld")
=============================================================================
