------------------------------ MODULE Signal -------------------------------
(***************************************************************************)
(* Signals: sys_kill, sys_sigaction, sys_sigmask, sys_sigreturn and        *)
(* do_signal (kernel/signal.c), with the frame that arch/signal.c pushes   *)
(* on the user stack.  Tasks are interleaved by the scheduler: a step of   *)
(* any task can follow a step of any other, except inside irq_save.        *)
(* do_signal runs on every return to user mode, after a system call and    *)
(* after an interrupt alike.  A user context is the point where the        *)
(* program was interrupted; the program is free to move in between.  A     *)
(* task is identified with the page of its task_struct, which is reused.   *)
(***************************************************************************)
EXTENDS Integers, Sequences, FiniteSets

CONSTANTS Task,      \* pages that hold the tasks of programs
          NoTask,    \* NULL; also init, which is a kernel thread for ever
          Context,   \* points of a user program
          Used       \* bound: the signals the programs use

ASSUME SignalAssumption ==
  /\ NoTask \notin Task
  /\ Context # {} /\ "handler" \notin Context
  /\ Used \subseteq 0..4

SIGALRM == 0
SIGUSR1 == 1
SIGUSR2 == 2
SIGKILL == 3
SIGCHLD == 4
Signals == 0..4                 \* NR_SIGNALS = 5
SIG_UNMASK == {SIGKILL}

VARIABLES
  status,    \* of a page; TASK_KTHREAD is set in "loading" and "loaded"
  parent,    \* task->parent
  signal,    \* task->signal: the pending signals
  sig_mask,  \* task->sig_mask
  sig_fn,    \* signals with a handler of the program (sig_fn[i] != NULL)
  frames,    \* the frames of interrupted contexts on the user stack
  sig_restorer, \* the frame sigreturn will use; 0 is SIG_RESTORER_NULL
  context,   \* where the program is, "handler" while a handler runs
  killing,   \* the task sys_kill has looked up, before the signal is set
  asleep     \* the tasks asleep in a system call, on a queue of the kernel

vars == <<status, parent, signal, sig_mask, sig_fn, frames, sig_restorer, context,
          killing, asleep>>

TypeOK ==
  /\ status \in [Task -> {"free", "loading", "loaded", "user", "zombie"}]
  /\ parent \in [Task -> Task \cup {NoTask}]
  /\ signal \in [Task -> SUBSET Signals]
  /\ sig_mask \in [Task -> SUBSET Signals]
  /\ sig_fn \in [Task -> SUBSET Signals]
  /\ frames \in [Task -> Seq(Context \cup {"handler"})]
  /\ sig_restorer \in [Task -> Nat]
  /\ context \in [Task -> Context \cup {"handler"}]
  /\ killing \in [Task -> Task \cup {NoTask}]
  /\ asleep \in SUBSET Task

\* Where a program starts.
Start == CHOOSE c \in Context : TRUE

\* init has called exec("/bin/sh"), the only program it ever starts.
Init ==
  /\ \E sh \in Task : status = [t \in Task |-> IF t = sh THEN "loading" ELSE "free"]
  /\ parent = [t \in Task |-> NoTask]
  /\ signal = [t \in Task |-> {}]
  /\ sig_mask = [t \in Task |-> {}]
  /\ sig_fn = [t \in Task |-> {}]
  /\ frames = [t \in Task |-> <<>>]
  /\ sig_restorer = [t \in Task |-> 0]
  /\ context = [t \in Task |-> Start]
  /\ killing = [t \in Task |-> NoTask]
  /\ asleep = {}

\* exec_wrapper has not cleared TASK_KTHREAD yet.
is_kthread(t) == status[t] \in {"loading", "loaded"}

\* The task executes in user mode: it is not in sys_kill, sleeps in no system
\* call and does not wait in sys_exec until the program it starts is loaded.
InUser(t) ==
  /\ status[t] = "user" /\ killing[t] = NoTask /\ t \notin asleep
  /\ \A u \in Task : status[u] = "loading" => parent[u] # t

\* wait: a system call sleeps, in tty_read, keyboard_read, sys_wait_chld or on a
\* lock; do_signal runs only when it has returned.
wait(t) ==
  /\ InUser(t)
  /\ asleep' = asleep \cup {t}
  /\ UNCHANGED <<status, parent, signal, sig_mask, sig_fn, frames, sig_restorer,
                 context, killing>>

\* wake_up, by whatever the system call waits for, which may never come.
wake_up(t) ==
  /\ t \in asleep
  /\ asleep' = asleep \ {t}
  /\ UNCHANGED <<status, parent, signal, sig_mask, sig_fn, frames, sig_restorer,
                 context, killing>>

\* kernel_thread for sys_exec of p: the mask is inherited, the rest of the
\* signal state is fresh (Exited has already given it its initial value).
kernel_thread(t, p) ==
  /\ status[t] = "free" /\ InUser(p)
  /\ status' = [status EXCEPT ![t] = "loading"]
  /\ parent' = [parent EXCEPT ![t] = p]
  /\ signal' = [signal EXCEPT ![t] = {}]
  /\ sig_mask' = [sig_mask EXCEPT ![t] = sig_mask[p]]
  /\ UNCHANGED <<sig_fn, frames, sig_restorer, context, killing, asleep>>

\* exec_wrapper wakes the caller of sys_exec when the program is loaded ...
exec_wake(t) ==
  /\ status[t] = "loading"
  /\ status' = [status EXCEPT ![t] = "loaded"]
  /\ UNCHANGED <<parent, signal, sig_mask, sig_fn, frames, sig_restorer, context,
                 killing, asleep>>

\* ... and only then clears TASK_KTHREAD and jumps to the program.
EnterUser(t) ==
  /\ status[t] = "loaded"
  /\ status' = [status EXCEPT ![t] = "user"]
  /\ UNCHANGED <<parent, signal, sig_mask, sig_fn, frames, sig_restorer, context,
                 killing, asleep>>

\* A program that cannot be loaded exits as a kernel thread and sys_exec
\* releases it before it returns; init panics instead.
exec_fail(t) ==
  /\ status[t] = "loading" /\ parent[t] # NoTask
  /\ status' = [status EXCEPT ![t] = "free"]
  /\ parent' = [parent EXCEPT ![t] = NoTask]
  /\ signal' = [signal EXCEPT ![t] = {}]
  /\ sig_mask' = [sig_mask EXCEPT ![t] = {}]
  /\ UNCHANGED <<sig_fn, frames, sig_restorer, context, killing, asleep>>

\* kthread_release by the parent, with a parent that is no program being init:
\* the page is freed and the children are init's.
kthread_release(t) ==
  /\ status[t] = "zombie"
  /\ parent[t] # NoTask => InUser(parent[t])
  /\ status' = [status EXCEPT ![t] = "free"]
  /\ parent' = [u \in Task |-> IF u = t \/ parent[u] = t THEN NoTask ELSE parent[u]]
  /\ signal' = [signal EXCEPT ![t] = {}]
  /\ UNCHANGED <<sig_mask, sig_fn, frames, sig_restorer, context, killing, asleep>>

\* The program moves on.
Compute(t, c) ==
  /\ InUser(t) /\ context[t] # "handler" /\ c # context[t]
  /\ context' = [context EXCEPT ![t] = c]
  /\ UNCHANGED <<status, parent, signal, sig_mask, sig_fn, frames, sig_restorer,
                 killing, asleep>>
-----------------------------------------------------------------------------
(* System calls *)

sys_sigaction(t, s, fn) ==
  /\ InUser(t)
  /\ s \notin SIG_UNMASK
  /\ sig_fn' = [sig_fn EXCEPT ![t] = IF fn THEN @ \cup {s} ELSE @ \ {s}]
  /\ UNCHANGED <<status, parent, signal, sig_mask, frames, sig_restorer, context,
                 killing, asleep>>

sys_sigmask(t, s, mask) ==
  /\ InUser(t)
  /\ s \notin SIG_UNMASK
  /\ sig_mask' = [sig_mask EXCEPT ![t] = IF mask THEN @ \cup {s} ELSE @ \ {s}]
  /\ UNCHANGED <<status, parent, signal, sig_fn, frames, sig_restorer, context,
                 killing, asleep>>

\* sys_kill finds the task and tests that it is not a kernel thread ...
sys_kill(t, target) ==
  /\ InUser(t)
  /\ status[target] # "free" /\ ~is_kthread(target)
  /\ killing' = [killing EXCEPT ![t] = target]
  /\ UNCHANGED <<status, parent, signal, sig_mask, sig_fn, frames, sig_restorer,
                 context, asleep>>

\* ... and sets the bit later, in a page that may have changed hands; the
\* target is not woken.
sys_kill_set(t, s) ==
  /\ killing[t] # NoTask
  /\ signal' = [signal EXCEPT ![killing[t]] = @ \cup {s}]
  /\ killing' = [killing EXCEPT ![t] = NoTask]
  /\ UNCHANGED <<status, parent, sig_mask, sig_fn, frames, sig_restorer, context,
                 asleep>>

\* sys_exit of a program tells the parent, unless that is init, a kernel thread.
\* What only the program itself has used so far gets its initial value.
Exited(t) ==
  /\ status' = [status EXCEPT ![t] = "zombie"]
  /\ signal' = IF parent[t] # NoTask
               THEN [signal EXCEPT ![parent[t]] = @ \cup {SIGCHLD}]
               ELSE signal
  /\ sig_mask' = [sig_mask EXCEPT ![t] = {}]
  /\ sig_fn' = [sig_fn EXCEPT ![t] = {}]
  /\ frames' = [frames EXCEPT ![t] = <<>>]
  /\ sig_restorer' = [sig_restorer EXCEPT ![t] = 0]
  /\ context' = [context EXCEPT ![t] = Start]
  /\ UNCHANGED <<parent, killing, asleep>>

sys_exit(t) == InUser(t) /\ Exited(t)

\* Mutants: the frame pointer is left alone; it gets another null value.
sys_sigreturn_kept(t) ==
  /\ InUser(t) /\ sig_restorer[t] # 0 /\ frames[t] # <<>>
  /\ context' = [context EXCEPT ![t] = frames[t][sig_restorer[t]]]
  /\ frames' = [frames EXCEPT ![t] = <<>>]
  /\ UNCHANGED <<status, parent, signal, sig_mask, sig_fn, sig_restorer, killing, asleep>>
sys_sigreturn_null(t) ==
  /\ InUser(t) /\ sig_restorer[t] > 0
  /\ context' = [context EXCEPT ![t] = frames[t][sig_restorer[t]]]
  /\ frames' = [frames EXCEPT ![t] = SubSeq(@, 1, sig_restorer[t] - 1)]
  /\ sig_restorer' = [sig_restorer EXCEPT ![t] = -1]
  /\ UNCHANGED <<status, parent, signal, sig_mask, sig_fn, killing, asleep>>

\* sys_sigreturn without a frame ends the task; otherwise the context of the
\* frame is restored, and the stack pointer with it.
sys_sigreturn(t) ==
  /\ InUser(t)
  /\ \/ /\ sig_restorer[t] = 0
        /\ Exited(t)
     \/ /\ sig_restorer[t] # 0
        /\ context' = [context EXCEPT ![t] = frames[t][sig_restorer[t]]]
        /\ frames' = [frames EXCEPT ![t] = SubSeq(@, 1, sig_restorer[t] - 1)]
        /\ sig_restorer' = [sig_restorer EXCEPT ![t] = 0]
        /\ UNCHANGED <<status, parent, signal, sig_mask, sig_fn, killing, asleep>>
-----------------------------------------------------------------------------
(* do_signal, on a return to user mode *)

\* Mutants: the highest number first; handlers may nest.
Highest(S) == CHOOSE s \in S : \A n \in S : s >= n
NestedSignal(t) == InUser(t) /\ signal[t] # {}

\* do_signal has a signal to deliver and no handler is running.
CanDeliver(t) == InUser(t) /\ signal[t] # {} /\ sig_restorer[t] = 0

\* The signal do_signal looks at: the pending one with the lowest number.
Lowest(S) == CHOOSE s \in S : \A n \in S : s <= n

\* (curr->sig_mask && BIT(i) && ~SIG_UNMASK) != 0: logical, not bitwise.
Masked(t, i) == sig_mask[t] # {}

do_signal(t) ==
  LET i       == Lowest(signal[t])
      cleared == [signal EXCEPT ![t] = @ \ {i}]
      handled == i \in sig_fn[t]
  IN /\ CanDeliver(t)
     /\ \/ /\ Masked(t, i) \/ (~handled /\ i = SIGCHLD)
           /\ signal' = cleared
           /\ UNCHANGED <<status, parent, sig_mask, sig_fn, frames, sig_restorer,
                          context, killing, asleep>>
        \/ /\ ~Masked(t, i) /\ ~handled /\ i # SIGCHLD
           /\ Exited(t)
        \/ /\ ~Masked(t, i) /\ handled
           /\ frames' = [frames EXCEPT ![t] = Append(@, context[t])]
           /\ sig_restorer' = [sig_restorer EXCEPT ![t] = Len(frames[t]) + 1]
           /\ context' = [context EXCEPT ![t] = "handler"]
           /\ signal' = cleared
           /\ UNCHANGED <<status, parent, sig_mask, sig_fn, killing, asleep>>
-----------------------------------------------------------------------------
TaskStep(t) ==
  \/ \E u \in Task : kernel_thread(u, t)
  \/ wait(t) \/ wake_up(t)
  \/ exec_wake(t) \/ EnterUser(t) \/ exec_fail(t) \/ kthread_release(t)
  \/ \E c \in Context : Compute(t, c)
  \/ \E s \in Used, b \in BOOLEAN : sys_sigaction(t, s, b) \/ sys_sigmask(t, s, b)
  \/ \E u \in Task : sys_kill(t, u)
  \/ \E s \in Used : sys_kill_set(t, s)
  \/ sys_exit(t) \/ sys_sigreturn(t) \/ do_signal(t)

Next == \E t \in Task : TaskStep(t)

Spec == Init /\ [][Next]_vars

\* A task in user mode passes do_signal at the next timer interrupt, one that
\* leaves a system call again and again does so each time; a started sys_kill
\* goes on, and a handler is written to return.  Nothing wakes a task that sleeps
\* in a system call, and no program need be loaded.
FairSpec ==
  /\ Spec
  /\ \A t \in Task : /\ SF_vars(do_signal(t))
                     /\ WF_vars(\E s \in Used : sys_kill_set(t, s))
                     /\ SF_vars(context[t] = "handler" /\ sys_sigreturn(t))
-----------------------------------------------------------------------------
\* "must wait now sig_handler exec success": handlers do not nest, and while
\* one runs the frame sigreturn will use is the one of the interrupted program.
OneFrame ==
  \A t \in Task :
    status[t] = "user" =>
      /\ Len(frames[t]) = IF context[t] = "handler" THEN 1 ELSE 0
      /\ sig_restorer[t] = Len(frames[t])
      /\ \A k \in 1..Len(frames[t]) : frames[t][k] # "handler"

\* "kernel mode no signal" (kernel/exit.c): sys_kill leaves no signal in a
\* kernel thread.
KthreadClean == \A t \in Task : is_kthread(t) => signal[t] = {}

\* A signal with a handler is taken from the pending set only by running the
\* handler in its turn, by the death of the task, or under some mask.
HandlerRuns ==
  [][\A t \in Task : \A i \in Signals :
       ( /\ status[t] = "user" /\ i \in signal[t] /\ i \notin signal'[t]
         /\ i \in sig_fn[t] /\ sig_mask[t] = {} )
         => /\ context[t] # "handler" /\ context'[t] = "handler"
            /\ frames'[t] = <<context[t]>>
            /\ \A n \in signal[t] : i <= n]_vars

\* A system call of the task sleeps; sys_kill does not end the sleep.
InSleep(t) == t \in asleep \/ \E u \in Task : status[u] = "loading" /\ parent[u] = t

\* A signal sent to a live task is consumed in the end, unless the task sleeps
\* for ever in a system call, or signals with lower numbers, which do_signal
\* takes first, keep arriving.
SignalConsumed ==
  \A t \in Task : \A i \in Used :
    \/ (status[t] = "user" /\ i \in signal[t])
         ~> (status[t] # "user" \/ i \notin signal[t] \/ []InSleep(t))
    \/ []<><<\E n \in 0..(i - 1) : n \notin signal[t] /\ n \in signal'[t]>>_vars

\* SIGKILL is unmaskable: it is consumed only by the death of the task ("test
\* if we mask this maskable signal", kernel/signal.c).
KillNotIgnored ==
  [][\A t \in Task : status[t] = "user" /\ SIGKILL \in signal[t]
                        => SIGKILL \in signal'[t]]_vars
=============================================================================
