---------------------------- MODULE KernelProofs ----------------------------
(***************************************************************************)
(* Signals and timers.  A handler always returns to the point it           *)
(* interrupted, and no signal with a handler is taken without running it,  *)
(* for every number of tasks, of points of the programs and of signals     *)
(* they use.  No timer is missed and none drifts, for every size of the    *)
(* wheel, every set of handlers and every choice of periods and call       *)
(* times.  The two share no state.                                         *)
(***************************************************************************)
EXTENDS Signal, Timer, SequenceTheorems, TLAPS

\* A page that is not a running program has the initial signal state that
\* kernel_thread relies on.
Unused(t) == frames[t] = <<>> /\ sig_restorer[t] = 0 /\ context[t] # "handler"

\* The user stack while a handler runs: one frame, with the point it interrupted.
Handling(t) ==
  /\ context[t] = "handler" /\ sig_restorer[t] = 1
  /\ \E c \in Context : frames[t] = <<c>>

FrameInv ==
  \A t \in Task : Unused(t) \/ (status[t] = "user" /\ Handling(t))

SignalInv == TypeOK /\ FrameInv

\* A program starts at one of its points, not in a handler.
LEMMA StartPoint == Start \in Context /\ Start # "handler"
  BY SignalAssumption DEF Start

\* A pending set has a lowest signal, the one do_signal looks at.
LEMMA LowestSignal ==
  ASSUME NEW S \in SUBSET Signals, S # {}
  PROVE  Lowest(S) \in S /\ \A n \in S : Lowest(S) <= n
<1>1. S \subseteq 0..4
  BY DEF Signals
<1>2. \E s \in S : \A n \in S : s <= n
  <2>1. CASE 0 \in S
    BY <1>1, <2>1
  <2>2. CASE 0 \notin S /\ 1 \in S
    BY <1>1, <2>2
  <2>3. CASE 0 \notin S /\ 1 \notin S /\ 2 \in S
    BY <1>1, <2>3
  <2>4. CASE 0 \notin S /\ 1 \notin S /\ 2 \notin S /\ 3 \in S
    BY <1>1, <2>4
  <2>5. CASE 0 \notin S /\ 1 \notin S /\ 2 \notin S /\ 3 \notin S
    <3>1. \A s \in S : s = 4
      BY <1>1, <2>5
    <3> QED BY <3>1
  <2> QED BY <2>1, <2>2, <2>3, <2>4, <2>5
<1> QED BY <1>2 DEF Lowest

\* The invariant implies what the runs check.
LEMMA OneFrameFromInv ==
  ASSUME SignalInv
  PROVE  OneFrame
<1> SUFFICES ASSUME NEW t \in Task, status[t] = "user"
             PROVE  /\ Len(frames[t]) = IF context[t] = "handler" THEN 1 ELSE 0
                    /\ sig_restorer[t] = Len(frames[t])
                    /\ \A k \in 1..Len(frames[t]) : frames[t][k] # "handler"
  BY DEF OneFrame
<1>1. CASE Unused(t)
  BY <1>1 DEF Unused
<1>2. CASE Handling(t)
  <2>1. PICK c \in Context : frames[t] = <<c>>
    BY <1>2 DEF Handling
  <2>2. Len(frames[t]) = 1 /\ frames[t][1] = c /\ c # "handler"
    BY <2>1, SignalAssumption
  <2> QED BY <1>2, <2>2 DEF Handling
<1> QED BY <1>1, <1>2 DEF SignalInv, FrameInv

LEMMA SignalInit ==
  ASSUME Init
  PROVE  SignalInv
<1>1. TypeOK
  BY StartPoint DEF Init, TypeOK
<1>2. FrameInv
  BY StartPoint DEF Init, FrameInv, Unused
<1> QED BY <1>1, <1>2 DEF SignalInv

\* A step that leaves the stacks alone, and the program of every task that has
\* a frame, keeps the invariant.
LEMMA SameFrames ==
  ASSUME SignalInv, TypeOK', UNCHANGED <<frames, sig_restorer, context>>,
         \A t \in Task : status[t] = "user" => status'[t] = "user"
  PROVE  SignalInv'
  BY DEF SignalInv, FrameInv, Unused, Handling

\* The end of a program: the signal state of its page is initial again.
LEMMA ExitedInv ==
  ASSUME SignalInv, NEW t \in Task, Exited(t)
  PROVE  SignalInv'
<1>1. TypeOK'
  <2>1. signal' \in [Task -> SUBSET Signals]
    BY DEF SignalInv, TypeOK, Exited, SIGCHLD, Signals
  <2>2. frames' \in [Task -> Seq(Context \cup {"handler"})]
    BY DEF SignalInv, TypeOK, Exited
  <2> QED BY <2>1, <2>2, StartPoint DEF SignalInv, TypeOK, Exited
<1>2. FrameInv'
  <2> SUFFICES ASSUME NEW u \in Task
               PROVE  Unused(u)' \/ (status'[u] = "user" /\ Handling(u)')
    BY DEF FrameInv
  <2>1. CASE u = t
    BY <2>1, StartPoint DEF SignalInv, TypeOK, Exited, Unused
  <2>2. CASE u # t
    <3>1. /\ frames'[u] = frames[u] /\ sig_restorer'[u] = sig_restorer[u]
          /\ context'[u] = context[u] /\ status'[u] = status[u]
      BY <2>2 DEF SignalInv, TypeOK, Exited
    <3> QED BY <3>1 DEF SignalInv, FrameInv, Unused, Handling
  <2> QED BY <2>1, <2>2
<1> QED BY <1>1, <1>2 DEF SignalInv

\* Two stack changes: sigreturn goes back to the interrupted point, and
\* do_signal pushes the frame of a program that has none.
LEMMA SigreturnInv ==
  ASSUME SignalInv, NEW t \in Task, sys_sigreturn(t)
  PROVE  SignalInv'
<1>1. CASE Exited(t)
  BY <1>1, ExitedInv
<1>2. CASE ~Exited(t)
  <2>1. /\ status[t] = "user" /\ sig_restorer[t] # 0
        /\ context' = [context EXCEPT ![t] = frames[t][sig_restorer[t]]]
        /\ frames' = [frames EXCEPT ![t] = SubSeq(@, 1, sig_restorer[t] - 1)]
        /\ sig_restorer' = [sig_restorer EXCEPT ![t] = 0]
        /\ UNCHANGED <<status, parent, signal, sig_mask, sig_fn, killing, asleep>>
    BY <1>2 DEF sys_sigreturn, InUser
  <2>2. Handling(t)
    BY <2>1 DEF SignalInv, FrameInv, Unused
  <2>3. PICK c \in Context : frames[t] = <<c>>
    BY <2>2 DEF Handling
  <2>4. sig_restorer[t] = 1 /\ frames[t][1] = c /\ c # "handler"
    BY <2>2, <2>3, SignalAssumption DEF Handling
  <2>5. SubSeq(frames[t], 1, sig_restorer[t] - 1) = <<>>
    BY <2>3, <2>4, SubSeqProperties
  <2>6. context' = [context EXCEPT ![t] = c] /\ frames' = [frames EXCEPT ![t] = <<>>]
    BY <2>1, <2>4, <2>5
  <2>7. TypeOK'
    <3>1. frames' \in [Task -> Seq(Context \cup {"handler"})]
      BY <2>6 DEF SignalInv, TypeOK
    <3> QED BY <2>1, <2>6, <3>1 DEF SignalInv, TypeOK
  <2>8. FrameInv'
    <3> SUFFICES ASSUME NEW u \in Task
                 PROVE  Unused(u)' \/ (status'[u] = "user" /\ Handling(u)')
      BY DEF FrameInv
    <3>1. CASE u = t
      BY <2>1, <2>4, <2>6, <3>1 DEF SignalInv, TypeOK, Unused
    <3>2. CASE u # t
      <4>1. /\ frames'[u] = frames[u] /\ sig_restorer'[u] = sig_restorer[u]
            /\ context'[u] = context[u] /\ status'[u] = status[u]
        BY <2>1, <2>6, <3>2 DEF SignalInv, TypeOK
      <4> QED BY <4>1 DEF SignalInv, FrameInv, Unused, Handling
    <3> QED BY <3>1, <3>2
  <2> QED BY <2>7, <2>8 DEF SignalInv
<1> QED BY <1>1, <1>2

LEMMA DoSignalInv ==
  ASSUME SignalInv, NEW t \in Task, do_signal(t)
  PROVE  SignalInv'
<1> DEFINE cleared == [signal EXCEPT ![t] = @ \ {Lowest(signal[t])}]
<1>1. status[t] = "user" /\ sig_restorer[t] = 0
  BY DEF do_signal, CanDeliver, InUser
<1>2. Unused(t)
  BY <1>1 DEF SignalInv, FrameInv, Handling
<1>3. cleared \in [Task -> SUBSET Signals]
  BY DEF SignalInv, TypeOK
<1>4. CASE /\ signal' = cleared
           /\ UNCHANGED <<status, parent, sig_mask, sig_fn, frames, sig_restorer,
                          context, killing, asleep>>
  BY <1>3, <1>4, SameFrames DEF SignalInv, TypeOK
<1>5. CASE Exited(t)
  BY <1>5, ExitedInv
<1>6. CASE /\ frames' = [frames EXCEPT ![t] = Append(@, context[t])]
           /\ sig_restorer' = [sig_restorer EXCEPT ![t] = Len(frames[t]) + 1]
           /\ context' = [context EXCEPT ![t] = "handler"]
           /\ signal' = cleared
           /\ UNCHANGED <<status, parent, sig_mask, sig_fn, killing, asleep>>
  <2>1. context[t] \in Context /\ frames[t] = <<>>
    BY <1>2 DEF SignalInv, TypeOK, Unused
  <2>2. Append(frames[t], context[t]) = <<context[t]>> /\ Len(frames[t]) = 0
    BY <2>1
  <2>3. /\ frames' = [frames EXCEPT ![t] = <<context[t]>>]
        /\ sig_restorer' = [sig_restorer EXCEPT ![t] = 1]
    BY <1>6, <2>2
  <2>4. <<context[t]>> \in Seq(Context \cup {"handler"})
    BY <2>1
  <2>5. TypeOK'
    BY <1>3, <1>6, <2>3, <2>4 DEF SignalInv, TypeOK
  <2>6. FrameInv'
    <3> SUFFICES ASSUME NEW u \in Task
                 PROVE  Unused(u)' \/ (status'[u] = "user" /\ Handling(u)')
      BY DEF FrameInv
    <3>1. CASE u = t
      BY <1>1, <1>6, <2>1, <2>3, <3>1 DEF SignalInv, TypeOK, Handling
    <3>2. CASE u # t
      <4>1. /\ frames'[u] = frames[u] /\ sig_restorer'[u] = sig_restorer[u]
            /\ context'[u] = context[u] /\ status'[u] = status[u]
        BY <1>6, <2>3, <3>2 DEF SignalInv, TypeOK
      <4> QED BY <4>1 DEF SignalInv, FrameInv, Unused, Handling
    <3> QED BY <3>1, <3>2
  <2> QED BY <2>5, <2>6 DEF SignalInv
<1> QED BY <1>4, <1>5, <1>6 DEF do_signal

LEMMA SignalNext ==
  ASSUME SignalInv, [Next]_vars
  PROVE  SignalInv'
<1> SUFFICES ASSUME Next PROVE SignalInv'
  <2>1. CASE UNCHANGED vars
    BY <2>1 DEF vars, SignalInv, TypeOK, FrameInv, Unused, Handling
  <2> QED BY <2>1
<1>1. PICK t \in Task : TaskStep(t)
  BY DEF Next
<1>2. ASSUME NEW u \in Task, kernel_thread(u, t) PROVE SignalInv'
  BY <1>2, SameFrames DEF kernel_thread, SignalInv, TypeOK
<1>3. CASE exec_wake(t) \/ EnterUser(t) \/ exec_fail(t)
  BY <1>3, SameFrames DEF exec_wake, EnterUser, exec_fail, SignalInv, TypeOK
<1>4. CASE kthread_release(t)
  BY <1>4, SameFrames DEF kthread_release, SignalInv, TypeOK
<1>5. ASSUME NEW c \in Context, Compute(t, c) PROVE SignalInv'
  <2>1. TypeOK'
    BY <1>5 DEF Compute, SignalInv, TypeOK
  <2>2. c # "handler" /\ context[t] # "handler"
    BY <1>5, SignalAssumption DEF Compute
  <2>3. FrameInv'
    BY <1>5, <2>2 DEF Compute, SignalInv, TypeOK, FrameInv, Unused, Handling
  <2> QED BY <2>1, <2>3 DEF SignalInv
<1>6. ASSUME NEW s \in Used, NEW b \in BOOLEAN,
             sys_sigaction(t, s, b) \/ sys_sigmask(t, s, b)
      PROVE  SignalInv'
  <2>1. s \in Signals
    BY SignalAssumption DEF Signals
  <2>2. CASE sys_sigaction(t, s, b)
    <3>1. sig_fn' \in [Task -> SUBSET Signals]
      BY <2>1, <2>2 DEF sys_sigaction, SignalInv, TypeOK
    <3> QED BY <2>2, <3>1, SameFrames DEF sys_sigaction, SignalInv, TypeOK
  <2>3. CASE sys_sigmask(t, s, b)
    <3>1. sig_mask' \in [Task -> SUBSET Signals]
      BY <2>1, <2>3 DEF sys_sigmask, SignalInv, TypeOK
    <3> QED BY <2>3, <3>1, SameFrames DEF sys_sigmask, SignalInv, TypeOK
  <2> QED BY <1>6, <2>2, <2>3
<1>7. ASSUME NEW u \in Task, sys_kill(t, u) PROVE SignalInv'
  BY <1>7, SameFrames DEF sys_kill, SignalInv, TypeOK
<1>8. ASSUME NEW s \in Used, sys_kill_set(t, s) PROVE SignalInv'
  <2>1. s \in Signals
    BY SignalAssumption DEF Signals
  <2> QED BY <1>8, <2>1, SameFrames DEF sys_kill_set, SignalInv, TypeOK
<1>9. CASE sys_exit(t)
  BY <1>9, ExitedInv DEF sys_exit
<1>10. CASE wait(t) \/ wake_up(t)
  BY <1>10, SameFrames DEF wait, wake_up, SignalInv, TypeOK
<1> QED
  BY <1>1, <1>2, <1>3, <1>4, <1>5, <1>6, <1>7, <1>8, <1>9, <1>10, SigreturnInv, DoSignalInv
  DEF TaskStep

\* The stacks and the states of the tasks agree at every moment.
THEOREM SignalInvariant == Spec => []SignalInv
<1>1. Init => SignalInv
  BY SignalInit
<1>2. SignalInv /\ [Next]_vars => SignalInv'
  BY SignalNext
<1> QED BY <1>1, <1>2, PTL DEF Spec

\* Handlers do not nest, and while one runs sigreturn finds the frame of the
\* program it interrupted (arch/signal.c, sys_sigreturn).
THEOREM SignalOneFrame == Spec => []OneFrame
<1>1. SignalInv => OneFrame
  BY OneFrameFromInv
<1> QED BY <1>1, SignalInvariant, PTL
-----------------------------------------------------------------------------
\* What HandlerRuns says of one step.
TakenByHandler ==
  \A t \in Task : \A i \in Signals :
    ( /\ status[t] = "user" /\ i \in signal[t] /\ i \notin signal'[t]
      /\ i \in sig_fn[t] /\ sig_mask[t] = {} )
      => /\ context[t] # "handler" /\ context'[t] = "handler"
         /\ frames'[t] = <<context[t]>>
         /\ \A n \in signal[t] : i <= n

\* A program that ends takes no signal from anybody.
LEMMA ExitTakesNothing ==
  ASSUME SignalInv, NEW t \in Task, NEW u \in Task, Exited(u)
  PROVE  signal[t] \subseteq signal'[t]
  BY DEF Exited, SignalInv, TypeOK

\* The only step that takes a signal from a running program is its do_signal.
LEMMA OnlyDoSignalTakes ==
  ASSUME SignalInv, Next, NEW t \in Task, NEW i \in Signals,
         status[t] = "user", i \in signal[t], i \notin signal'[t]
  PROVE  do_signal(t)
<1>1. PICK u \in Task : TaskStep(u)
  BY DEF Next
<1>2. ASSUME NEW v \in Task, Exited(v) PROVE FALSE
  BY <1>2, ExitTakesNothing
<1>3. ASSUME NEW v \in Task, kernel_thread(v, u) PROVE FALSE
  BY <1>3 DEF kernel_thread, SignalInv, TypeOK
<1>4. ASSUME exec_wake(u) \/ EnterUser(u) \/ exec_fail(u) \/ kthread_release(u)
      PROVE  FALSE
  BY <1>4 DEF exec_wake, EnterUser, exec_fail, kthread_release, SignalInv, TypeOK
<1>5. ASSUME NEW c \in Context, Compute(u, c) PROVE FALSE
  BY <1>5 DEF Compute
<1>6. ASSUME NEW s \in Used, NEW b \in BOOLEAN,
             sys_sigaction(u, s, b) \/ sys_sigmask(u, s, b)
      PROVE  FALSE
  BY <1>6 DEF sys_sigaction, sys_sigmask
<1>7. ASSUME NEW v \in Task, sys_kill(u, v) PROVE FALSE
  BY <1>7 DEF sys_kill
<1>8. ASSUME NEW s \in Used, sys_kill_set(u, s) PROVE FALSE
  BY <1>8 DEF sys_kill_set, SignalInv, TypeOK
<1>9. ASSUME sys_sigreturn(u) PROVE FALSE
  BY <1>2, <1>9 DEF sys_sigreturn
<1>10. ASSUME do_signal(u), u # t PROVE FALSE
  BY <1>2, <1>10 DEF do_signal, SignalInv, TypeOK
<1>11. ASSUME sys_exit(u) PROVE FALSE
  BY <1>2, <1>11 DEF sys_exit
<1>12. ASSUME wait(u) \/ wake_up(u) PROVE FALSE
  BY <1>12 DEF wait, wake_up
<1> QED
  BY <1>1, <1>3, <1>4, <1>5, <1>6, <1>7, <1>8, <1>9, <1>10, <1>11, <1>12 DEF TaskStep

LEMMA NextTaken ==
  ASSUME SignalInv, [Next]_vars
  PROVE  TakenByHandler
<1> SUFFICES ASSUME NEW t \in Task, NEW i \in Signals,
                    status[t] = "user", i \in signal[t], i \notin signal'[t],
                    i \in sig_fn[t], sig_mask[t] = {}
             PROVE  /\ context[t] # "handler" /\ context'[t] = "handler"
                    /\ frames'[t] = <<context[t]>>
                    /\ \A n \in signal[t] : i <= n
  BY DEF TakenByHandler
<1>1. do_signal(t)
  BY OnlyDoSignalTakes DEF vars
<1> DEFINE low == Lowest(signal[t])
<1>2. low \in signal[t] /\ \A n \in signal[t] : low <= n
  BY LowestSignal DEF SignalInv, TypeOK
<1>3. ~Exited(t)
  BY ExitTakesNothing
<1>4. i = low
  BY <1>1, <1>3 DEF do_signal, SignalInv, TypeOK
<1>5. /\ frames' = [frames EXCEPT ![t] = Append(@, context[t])]
      /\ context' = [context EXCEPT ![t] = "handler"]
  BY <1>1, <1>3, <1>4 DEF do_signal, Masked
<1>6. Unused(t)
  BY <1>1 DEF do_signal, CanDeliver, SignalInv, FrameInv, Handling
<1>7. Append(frames[t], context[t]) = <<context[t]>>
  BY <1>6 DEF Unused
<1> QED BY <1>2, <1>4, <1>5, <1>6, <1>7 DEF SignalInv, TypeOK, Unused

\* A signal with a handler is taken from a program under no mask only by
\* running the handler, in the order of the numbers (do_signal).
THEOREM SignalHandlerRuns == Spec => HandlerRuns
<1>1. SignalInv /\ [Next]_vars => [TakenByHandler]_vars
  BY NextTaken
<1> QED BY <1>1, SignalInvariant, PTL DEF Spec, HandlerRuns, TakenByHandler
-----------------------------------------------------------------------------
(***************************************************************************)
(* The kernel timers.                                                      *)
(***************************************************************************)
USE TimerAssumption DEF TIMER_INFINITE

TimerInv == TimerTypeOK /\ WheelInv /\ NoDrift

\* The list a tick belongs to is one of the lists of the wheel.
LEMMA SlotInWheel == ASSUME NEW n \in Nat PROVE n % NrLists \in Slot
BY DEF Slot

\* The new due time of a timer that is put back is one period later.
LEMMA OnePeriod ==
  ASSUME NEW s \in Nat, NEW f \in Nat, NEW e \in Nat
  PROVE  s + (f + 1 + 1) * e = (s + (f + 1) * e) + e
OBVIOUS

\* add_timer puts a new handler on the list of its due time.
LEMMA AddTimer ==
  ASSUME TimerInv, NEW h \in Handler, NEW e \in Expires, NEW n \in CallTimes,
         add_timer(h, e, n)
  PROVE  TimerInv'
<1> USE DEF TimerInv, TimerTypeOK
<1>1. e \in Nat /\ n \in Nat \cup {-1} /\ n # 0 /\ (n # -1 => n > 0)
  OBVIOUS
<1>2. CASE e = 0
  <2>1. TimerTypeOK'
    BY <1>1, <1>2 DEF add_timer
  <2>2. WheelInv'
    BY <1>1, <1>2 DEF add_timer, WheelInv, Linked
  <2>3. NoDrift'
    BY <1>1, <1>2 DEF add_timer, NoDrift, Linked
  <2> QED BY <2>1, <2>2, <2>3
<1>3. CASE e # 0
  <2> DEFINE s == (e + jiffies) % NrLists
  <2>1. s \in Slot /\ e + jiffies \in Nat
    <3>1. e + jiffies \in Nat
      BY <1>1
    <3> QED BY <3>1, SlotInWheel
  <2>2. timer_lists' = [timer_lists EXCEPT ![s] = @ \cup {h}]
    BY <1>3 DEF add_timer, SlotOf
  <2>3. /\ due' = [due EXCEPT ![h] = e + jiffies]
        /\ fired' = [fired EXCEPT ![h] = 0] /\ start' = [start EXCEPT ![h] = jiffies]
        /\ expires' = [expires EXCEPT ![h] = e] /\ times' = [times EXCEPT ![h] = n]
        /\ asked' = [asked EXCEPT ![h] = n] /\ jiffies' = jiffies
        /\ \A i \in Slot : h \notin timer_lists[i]
    BY <1>3 DEF add_timer, Linked
  <2>4. (e + jiffies) % NrLists = s
    OBVIOUS
  <2> HIDE DEF s
  <2>5. TimerTypeOK'
    BY <1>1, <2>1, <2>2, <2>3
  <2>6. WheelInv'
    <3> SUFFICES ASSUME NEW i \in Slot, NEW g \in timer_lists'[i]
                 PROVE  /\ jiffies' <= due'[g]
                        /\ due'[g] % NrLists = i
                        /\ expires'[g] # 0
                        /\ times'[g] # 0
                        /\ times'[g] # -1 => times'[g] > 0 /\ asked'[g] = times'[g] + fired'[g]
                        /\ times'[g] = -1 => asked'[g] = -1
      BY DEF WheelInv
    <3>1. CASE g = h
      <4>1. i = s
        BY <3>1, <2>1, <2>2, <2>3
      <4>2. /\ due'[g] = e + jiffies /\ expires'[g] = e /\ times'[g] = n
            /\ asked'[g] = n /\ fired'[g] = 0 /\ jiffies' = jiffies
        BY <3>1, <2>3
      <4> QED BY <4>1, <4>2, <1>1, <1>3, <2>4
    <3>2. CASE g # h
      <4>1. g \in timer_lists[i] /\ g \in Handler
        BY <3>2, <2>1, <2>2
      <4>2. /\ due'[g] = due[g] /\ expires'[g] = expires[g] /\ times'[g] = times[g]
            /\ asked'[g] = asked[g] /\ fired'[g] = fired[g] /\ jiffies' = jiffies
        BY <3>2, <4>1, <2>3
      <4> QED BY <4>1, <4>2 DEF WheelInv
    <3> QED BY <3>1, <3>2
  <2>7. NoDrift'
    <3> SUFFICES ASSUME NEW g \in Handler, Linked(g)'
                 PROVE  due'[g] = start'[g] + (fired'[g] + 1) * expires'[g]
      BY DEF NoDrift
    <3>1. CASE g = h
      BY <3>1, <2>3, <1>1
    <3>2. CASE g # h
      <4>1. Linked(g)
        BY <3>2, <2>1, <2>2 DEF Linked
      <4> QED BY <3>2, <4>1, <2>3 DEF NoDrift
    <3> QED BY <3>1, <3>2
  <2> QED BY <2>5, <2>6, <2>7
<1> QED BY <1>2, <1>3

\* del_timer only takes a handler off its list.
LEMMA DelTimer ==
  ASSUME TimerInv, NEW h \in Handler, del_timer(h)
  PROVE  TimerInv'
<1> USE DEF TimerInv, TimerTypeOK
<1>1. TimerTypeOK'
  BY DEF del_timer
<1>2. WheelInv'
  BY DEF del_timer, WheelInv
<1>3. NoDrift'
  BY DEF del_timer, NoDrift, Linked
<1> QED BY <1>1, <1>2, <1>3

\* A tick finds everything that is due on the list it looks at.
LEMMA DoTimer ==
  ASSUME TimerInv, do_timer
  PROVE  TimerInv'
<1> USE DEF TimerInv, TimerTypeOK
<1> DEFINE again == {h \in Due : Again(h)}
<1>1. /\ jiffies' = jiffies + 1
      /\ expires' = expires /\ asked' = asked /\ start' = start
      /\ fired' = [h \in Handler |-> IF h \in Due THEN fired[h] + 1 ELSE fired[h]]
      /\ times' = [h \in Handler |-> IF h \in Due THEN TimesLeft(h) ELSE times[h]]
      /\ due' = [h \in Handler |-> IF h \in again THEN expires[h] + jiffies ELSE due[h]]
      /\ timer_lists' = [i \in Slot |-> (timer_lists[i] \ Due)
                                           \cup {h \in again : due'[h] % NrLists = i}]
  BY DEF do_timer, NextDue, SlotOf
<1>2. jiffies % NrLists \in Slot
  BY SlotInWheel
<1>3. Due \subseteq Handler /\ again \subseteq Due
  BY <1>2 DEF Due
<1>4. \A h \in Due : TimesLeft(h) \in Nat \cup {-1}
  <2> TAKE h \in Due
  <2>1. times[h] \in Nat \cup {-1} /\ times[h] # 0
    BY <1>2, <1>3 DEF Due, WheelInv
  <2> QED BY <2>1 DEF TimesLeft
<1>5. TimerTypeOK'
  <2>1. due' \in [Handler -> Nat]
    BY <1>1
  <2>2. timer_lists' \in [Slot -> SUBSET Handler]
    BY <1>1, <1>3
  <2> QED BY <1>1, <1>3, <1>4, <2>1, <2>2
<1>6. \A h \in Due : /\ due[h] = jiffies /\ expires[h] # 0 /\ Linked(h) /\ times[h] # 0
                     /\ times[h] # -1 => times[h] > 0 /\ asked[h] = times[h] + fired[h]
                     /\ times[h] = -1 => asked[h] = -1
  BY <1>2 DEF Due, WheelInv, Linked
<1>7. \A i \in Slot : \A h \in timer_lists[i] \ Due : jiffies < due[h]
  <2> SUFFICES ASSUME NEW i \in Slot, NEW h \in timer_lists[i], h \notin Due
               PROVE  jiffies < due[h]
    OBVIOUS
  <2>1. h \in Handler /\ jiffies <= due[h] /\ due[h] % NrLists = i
    BY DEF WheelInv
  <2>2. due[h] # jiffies
    BY <2>1 DEF Due
  <2> QED BY <2>1, <2>2
<1> HIDE DEF again
<1>8. WheelInv'
  <2> SUFFICES ASSUME NEW i \in Slot, NEW h \in timer_lists'[i]
               PROVE  /\ jiffies' <= due'[h]
                      /\ due'[h] % NrLists = i
                      /\ expires'[h] # 0
                      /\ times'[h] # 0
                      /\ times'[h] # -1 => times'[h] > 0 /\ asked'[h] = times'[h] + fired'[h]
                      /\ times'[h] = -1 => asked'[h] = -1
    BY DEF WheelInv
  <2>1. CASE h \in timer_lists[i] /\ h \notin Due
    <3>1. h \in Handler /\ due'[h] = due[h] /\ fired'[h] = fired[h] /\ times'[h] = times[h]
      BY <2>1, <1>1, <1>3
    <3> QED BY <2>1, <3>1, <1>1, <1>7 DEF WheelInv
  <2>2. CASE h \in again /\ due'[h] % NrLists = i
    <3>1. /\ h \in Due /\ h \in Handler /\ due'[h] = expires[h] + jiffies
          /\ fired'[h] = fired[h] + 1 /\ times'[h] = TimesLeft(h)
      BY <2>2, <1>1, <1>3
    <3>2. TimesLeft(h) # 0
      BY <2>2 DEF again, Again
    <3>3. /\ expires[h] \in Nat /\ expires[h] # 0 /\ times[h] \in Int /\ fired[h] \in Nat
          /\ times[h] # 0
          /\ times[h] # -1 => times[h] > 0 /\ asked[h] = times[h] + fired[h]
          /\ times[h] = -1 => asked[h] = -1
      BY <3>1, <1>6
    <3>4. jiffies' <= due'[h] /\ expires'[h] # 0
      BY <3>1, <3>3, <1>1
    <3>5. CASE times[h] = -1
      <4>1. times'[h] = -1 /\ asked'[h] = -1
        BY <3>1, <3>3, <3>5, <1>1 DEF TimesLeft
      <4> QED BY <4>1, <3>4, <2>2
    <3>6. CASE times[h] # -1
      <4>1. times'[h] = times[h] - 1 /\ times'[h] # 0 /\ asked'[h] = asked[h]
        BY <3>1, <3>2, <3>6, <1>1 DEF TimesLeft
      <4>2. times'[h] > 0 /\ asked'[h] = times'[h] + fired'[h]
        BY <4>1, <3>1, <3>3, <3>6
      <4> QED BY <4>1, <4>2, <3>4, <3>3, <2>2
    <3> QED BY <3>5, <3>6
  <2> QED BY <2>1, <2>2, <1>1
<1>9. NoDrift'
  <2> SUFFICES ASSUME NEW h \in Handler, Linked(h)'
               PROVE  due'[h] = start'[h] + (fired'[h] + 1) * expires'[h]
    BY DEF NoDrift
  <2>1. PICK i \in Slot : h \in timer_lists'[i]
    BY DEF Linked
  <2>2. CASE h \in timer_lists[i] /\ h \notin Due
    <3>1. Linked(h) /\ due'[h] = due[h] /\ fired'[h] = fired[h]
      BY <2>2, <1>1, <1>3 DEF Linked
    <3> QED BY <3>1, <1>1 DEF NoDrift
  <2>3. CASE h \in again
    <3>1. h \in Due /\ due'[h] = expires[h] + jiffies /\ fired'[h] = fired[h] + 1
      BY <2>3, <1>1, <1>3
    <3>2. due[h] = jiffies /\ Linked(h)
      BY <3>1, <1>6
    <3>3. jiffies = start[h] + (fired[h] + 1) * expires[h]
      BY <3>2 DEF NoDrift
    <3>4. start[h] \in Nat /\ fired[h] \in Nat /\ expires[h] \in Nat
      OBVIOUS
    <3>5. start[h] + (fired[h] + 1 + 1) * expires[h]
            = (start[h] + (fired[h] + 1) * expires[h]) + expires[h]
      BY <3>4, OnePeriod
    <3> QED BY <3>1, <3>3, <3>4, <3>5, <1>1
  <2> QED BY <2>1, <2>2, <2>3, <1>1
<1> QED BY <1>5, <1>8, <1>9

\* The wheel stays consistent under add_timer, del_timer and every tick.
THEOREM TimerInvariant == TimerSpec => []TimerInv
<1>1. TimerInit => TimerInv
  BY DEF TimerInit, TimerInv, TimerTypeOK, WheelInv, NoDrift, Linked, Slot
<1>2. TimerInv /\ [TimerNext]_timer_vars => TimerInv'
  <2> SUFFICES ASSUME TimerInv, [TimerNext]_timer_vars PROVE TimerInv'
    OBVIOUS
  <2>1. CASE TimerNext
    BY <2>1, AddTimer, DelTimer, DoTimer DEF TimerNext
  <2>2. CASE UNCHANGED timer_vars
    BY <2>2 DEF timer_vars, TimerInv, TimerTypeOK, WheelInv, NoDrift, Linked
  <2> QED BY <2>1, <2>2
<1> QED BY <1>1, <1>2, PTL DEF TimerSpec

\* BUG_ON(now > handler->jiffies) of do_timer is unreachable.
THEOREM TimerNeverMissed == TimerSpec => []NoMissedTimer
<1>1. TimerInv => NoMissedTimer
  BY DEF TimerInv, WheelInv, NoMissedTimer
<1> QED BY <1>1, TimerInvariant, PTL

\* Every call of a timer comes a whole number of periods after add_timer.
THEOREM TimerNeverDrifts == TimerSpec => []NoDrift
<1>1. TimerInv => NoDrift
  BY DEF TimerInv
<1> QED BY <1>1, TimerInvariant, PTL

\* A tick drops a timer from the wheel only with its last call.
LEMMA DoTimerCalls ==
  ASSUME TimerInv, CallTimesPeriodic, do_timer
  PROVE  CallTimesPeriodic'
<1> SUFFICES ASSUME NEW h \in Handler, asked'[h] # 0, expires'[h] # 0, ~Linked(h)'
             PROVE  fired'[h] = asked'[h]
  BY DEF CallTimesPeriodic
<1> USE DEF TimerInv, TimerTypeOK
<1>1. asked' = asked /\ expires' = expires
  BY DEF do_timer
<1>2. fired'[h] = IF h \in Due THEN fired[h] + 1 ELSE fired[h]
  BY DEF do_timer
<1>3. \A i \in Slot : timer_lists'[i] = (timer_lists[i] \ Due)
                          \cup {g \in {k \in Due : Again(k)} : SlotOf(due'[g]) = i}
  BY DEF do_timer
<1>4. jiffies % NrLists \in Slot
  BY SlotInWheel
<1>5. CASE h \in Due
  <2>1. /\ expires[h] # 0 /\ times[h] # 0 /\ times[h] \in Int /\ asked[h] \in Int /\ fired[h] \in Nat
        /\ times[h] # -1 => asked[h] = times[h] + fired[h]
    BY <1>4, <1>5 DEF Due, WheelInv
  <2>2. ~Again(h)
    <3> SUFFICES ASSUME Again(h) PROVE FALSE
      OBVIOUS
    <3>1. due'[h] = expires[h] + jiffies
      BY <1>5 DEF do_timer, NextDue
    <3>2. due'[h] % NrLists \in Slot
      <4>1. expires[h] + jiffies \in Nat
        OBVIOUS
      <4> QED BY <4>1, <3>1, SlotInWheel
    <3> QED BY <1>3, <1>5, <3>2 DEF Linked, SlotOf
  <2>3. times[h] = 1
    BY <2>1, <2>2 DEF Again, TimesLeft
  <2> QED BY <2>1, <2>3, <1>1, <1>2, <1>5
<1>6. CASE h \notin Due
  <2>1. ~Linked(h)
    BY <1>3, <1>6 DEF Linked
  <2> QED BY <2>1, <1>1, <1>2, <1>6 DEF CallTimesPeriodic
<1> QED BY <1>5, <1>6

\* A periodic timer that has left the wheel was called as often as asked.
THEOREM TimerCallTimes == TimerSpec => []CallTimesPeriodic
<1>1. TimerInit => CallTimesPeriodic
  BY DEF TimerInit, CallTimesPeriodic
<1>2. TimerInv /\ CallTimesPeriodic /\ [TimerNext]_timer_vars => CallTimesPeriodic'
  <2> SUFFICES ASSUME TimerInv, CallTimesPeriodic, [TimerNext]_timer_vars PROVE CallTimesPeriodic'
    OBVIOUS
  <2> USE DEF TimerInv, TimerTypeOK
  <2>1. CASE do_timer
    BY <2>1, DoTimerCalls
  <2>2. ASSUME NEW h \in Handler, NEW e \in Expires, NEW n \in CallTimes, add_timer(h, e, n)
        PROVE  CallTimesPeriodic'
    <3>1. SlotOf(e + jiffies) \in Slot
      <4>1. e + jiffies \in Nat
        OBVIOUS
      <4> QED BY <4>1, SlotInWheel DEF SlotOf
    <3>2. \A g \in Handler : Linked(g) => Linked(g)'
      BY <3>1, <2>2 DEF add_timer, Linked
    <3>3. e # 0 => Linked(h)'
      BY <3>1, <2>2 DEF add_timer, Linked
    <3>4. \A g \in Handler \ {h} : /\ asked'[g] = asked[g] /\ expires'[g] = expires[g]
                                   /\ fired'[g] = fired[g]
      BY <2>2 DEF add_timer
    <3>5. expires'[h] = e
      BY <2>2 DEF add_timer
    <3> SUFFICES ASSUME NEW g \in Handler, asked'[g] # 0, expires'[g] # 0, ~Linked(g)'
                 PROVE  fired'[g] = asked'[g]
      BY DEF CallTimesPeriodic
    <3> QED BY <3>2, <3>3, <3>4, <3>5 DEF CallTimesPeriodic
  <2>3. ASSUME NEW h \in Handler, del_timer(h) PROVE CallTimesPeriodic'
    <3>1. asked'[h] = 0
      BY <2>3 DEF del_timer
    <3>2. \A g \in Handler \ {h} : Linked(g) => Linked(g)'
      BY <2>3 DEF del_timer, Linked
    <3>3. \A g \in Handler \ {h} : asked'[g] = asked[g] /\ expires'[g] = expires[g] /\ fired'[g] = fired[g]
      BY <2>3 DEF del_timer
    <3> SUFFICES ASSUME NEW g \in Handler, asked'[g] # 0, expires'[g] # 0, ~Linked(g)'
                 PROVE  fired'[g] = asked'[g]
      BY DEF CallTimesPeriodic
    <3> QED BY <3>1, <3>2, <3>3 DEF CallTimesPeriodic
  <2>4. CASE UNCHANGED timer_vars
    BY <2>4 DEF timer_vars, CallTimesPeriodic, Linked
  <2> QED BY <2>1, <2>2, <2>3, <2>4 DEF TimerNext
<1> QED BY <1>1, <1>2, TimerInvariant, PTL DEF TimerSpec
=============================================================================
