------------------------------- MODULE Timer -------------------------------
(***************************************************************************)
(* The kernel timers of kernel/timer.c: a wheel of lists, one tick of the  *)
(* timer interrupt looking at one list only.  add_timer and del_timer run  *)
(* with interrupts off and so does do_timer: each is one step.  The        *)
(* functions that are called do not themselves add or delete timers.  The  *)
(* order of a list only decides in which order the functions of one tick   *)
(* are called, so a list is a set.                                         *)
(***************************************************************************)
EXTENDS Integers, FiniteSets

CONSTANTS Handler,     \* struct timer_handler objects
          NrLists,     \* NR_TIMER_LISTS
          Expires,     \* periods the callers of add_timer use
          CallTimes,   \* call times they ask for
          MaxJiffies   \* bound on the number of ticks

TIMER_INFINITE == -1

ASSUME TimerAssumption ==
  /\ NrLists \in Nat \ {0}
  /\ Expires \subseteq Nat
  /\ CallTimes \subseteq (Nat \ {0}) \cup {TIMER_INFINITE}
  /\ MaxJiffies \in Nat

VARIABLES
  jiffies,      \* ticks handled so far
  timer_lists,  \* the lists of the wheel
  expires, times, due,   \* handler->expires, ->times and ->jiffies
  asked,        \* the times add_timer was called with, 0 before
  start,        \* jiffies at that call
  fired         \* calls of handler->function since then

timer_vars == <<jiffies, timer_lists, expires, times, due, asked, start, fired>>

Slot == 0..NrLists - 1
Linked(h) == \E i \in Slot : h \in timer_lists[i]

TimerTypeOK ==
  /\ jiffies \in Nat
  /\ timer_lists \in [Slot -> SUBSET Handler]
  /\ expires \in [Handler -> Nat] /\ due \in [Handler -> Nat]
  /\ times \in [Handler -> Nat \cup {TIMER_INFINITE}]
  /\ asked \in [Handler -> Nat \cup {TIMER_INFINITE}]
  /\ start \in [Handler -> Nat] /\ fired \in [Handler -> Nat]

\* timer_init
TimerInit ==
  /\ jiffies = 0
  /\ timer_lists = [i \in Slot |-> {}]
  /\ expires = [h \in Handler |-> 0] /\ due = [h \in Handler |-> 0]
  /\ times = [h \in Handler |-> 0] /\ asked = [h \in Handler |-> 0]
  /\ start = [h \in Handler |-> 0] /\ fired = [h \in Handler |-> 0]

\* The list of a due time.  Mutant: one list further.
Slot_next(n) == (n + 1) % NrLists
SlotOf(n) == n % NrLists

\* add_timer of a handler that is on no list, with interval e for n calls.
\* With e = 0 the function is called at once, and that is all; with n = 0
\* nothing happens, so n = 0 is left out.
add_timer(h, e, n) ==
  /\ ~Linked(h)
  /\ ~(e = 0 /\ n = TIMER_INFINITE)
  /\ expires' = [expires EXCEPT ![h] = e]
  /\ times' = [times EXCEPT ![h] = n]
  /\ asked' = [asked EXCEPT ![h] = n]
  /\ start' = [start EXCEPT ![h] = jiffies]
  /\ \/ /\ e = 0
        /\ fired' = [fired EXCEPT ![h] = 1]
        /\ UNCHANGED <<timer_lists, due>>
     \/ /\ e # 0
        /\ fired' = [fired EXCEPT ![h] = 0]
        /\ due' = [due EXCEPT ![h] = e + jiffies]
        /\ timer_lists' = [timer_lists EXCEPT ![SlotOf(e + jiffies)] = @ \cup {h}]
  /\ UNCHANGED jiffies

\* del_timer by the owner, who no longer asks for the calls that are left.
del_timer(h) ==
  /\ Linked(h)
  /\ timer_lists' = [i \in Slot |-> timer_lists[i] \ {h}]
  /\ asked' = [asked EXCEPT ![h] = 0]
  /\ UNCHANGED <<jiffies, expires, times, due, start, fired>>

\* Mutants: for ever is not special; the last call is dropped; the period
\* starts at the next tick.
TimesLeft_plain(h) == times[h] - 1
Again_early(h) == times[h] > 2 \/ times[h] = TIMER_INFINITE
NextDue_late(h) == expires[h] + jiffies + 1

\* handler->times after a call.
TimesLeft(h) == IF times[h] = TIMER_INFINITE THEN TIMER_INFINITE ELSE times[h] - 1

\* Whether the handler is added again, and when it is due then.
Again(h) == TimesLeft(h) # 0
NextDue(h) == expires[h] + jiffies

\* The handlers of the current list that the loop of do_timer calls.
Due == {h \in timer_lists[jiffies % NrLists] : due[h] = jiffies}

\* A tick: call what is due, and put it back unless its calls are used up.
do_timer ==
  LET again == {h \in Due : Again(h)}
  IN /\ jiffies < MaxJiffies
     /\ fired' = [h \in Handler |-> IF h \in Due THEN fired[h] + 1 ELSE fired[h]]
     /\ times' = [h \in Handler |-> IF h \in Due THEN TimesLeft(h) ELSE times[h]]
     /\ due' = [h \in Handler |-> IF h \in again THEN NextDue(h) ELSE due[h]]
     /\ timer_lists' = [i \in Slot |->
                          (timer_lists[i] \ Due)
                            \cup {h \in again : SlotOf(due'[h]) = i}]
     /\ jiffies' = jiffies + 1
     /\ UNCHANGED <<expires, asked, start>>

TimerNext ==
  \/ do_timer
  \/ \E h \in Handler :
       \/ \E e \in Expires, n \in CallTimes : add_timer(h, e, n)
       \/ del_timer(h)

TimerSpec == TimerInit /\ [][TimerNext]_timer_vars
-----------------------------------------------------------------------------
\* BUG_ON(now > handler->jiffies) in do_timer never fires: although a tick
\* looks at one list only, no timer that is due is left behind.
NoMissedTimer == \A i \in Slot : \A h \in timer_lists[i] : jiffies <= due[h]

\* Timers do not drift: the next call of a timer is a whole number of periods
\* after add_timer, whatever its number of rounds through the wheel.
NoDrift ==
  \A h \in Handler : Linked(h) => due[h] = start[h] + (fired[h] + 1) * expires[h]

\* "call times. -1 presents forever." (include/sins/timer.h): a timer that is
\* no longer on the wheel has been called as often as its owner asked for,
\* if it has a period (without one, add_timer calls it once, whatever it asks).
CallTimesPeriodic ==
  \A h \in Handler : asked[h] # 0 /\ expires[h] # 0 /\ ~Linked(h)
                        => fired[h] = asked[h]

\* What makes them inductive: a handler is on the list of the tick it is due
\* at, and the calls made and the calls left add up to what was asked for.
WheelInv ==
  \A i \in Slot : \A h \in timer_lists[i] :
    /\ jiffies <= due[h]
    /\ due[h] % NrLists = i
    /\ expires[h] # 0
    /\ times[h] # 0
    /\ times[h] # TIMER_INFINITE => times[h] > 0 /\ asked[h] = times[h] + fired[h]
    /\ times[h] = TIMER_INFINITE => asked[h] = TIMER_INFINITE
=============================================================================
