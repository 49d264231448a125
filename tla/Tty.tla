-------------------------------- MODULE Tty --------------------------------
(***************************************************************************)
(* The terminal: the keyboard interrupt handler and its queue of events    *)
(* (drivers/keyboard.c) and the line-reading tty_read (drivers/tty.c),     *)
(* which readers enter one at a time through a semaphore.                  *)
(*                                                                         *)
(* wait_event leaves its loop without restoring the interrupt flag, and    *)
(* keyboard_read then saves and restores a flag that is already clear: from*)
(* its first event on, a reader runs with interrupts off until it sleeps   *)
(* or returns to user mode.  cpu is that reader, or NoTask.                *)
(***************************************************************************)
EXTENDS Semaphore

CONSTANTS NoTask,
          File,      \* open files of the terminal
          Filp,      \* the file a task reads from; children share their parent's
          NrEvents,  \* NR_EVENTS
          MaxKeys,   \* bound on the number of keys pressed
          Size       \* sizes of the buffers programs read into

ASSUME TtyAssumption ==
  /\ NrEvents \in Nat \ {0} /\ MaxKeys \in Nat /\ Size \subseteq Nat
  /\ NoTask \notin Task
  /\ Filp \in [Task -> File]

VARIABLES
  events_list,  \* filled events, oldest first; the others are on free_events
  wait_kbd,     \* the wait queue of keyboard_read
  cpu,          \* the reader that runs with interrupts off
  at,           \* "user", or where the task is in tty_read
  size,         \* the size argument of the task's tty_read
  chars,        \* filp->private_data: edited characters of a file, not yet read
  keys          \* keys pressed so far; the number of a key identifies it

ttyVars == <<events_list, wait_kbd, cpu, at, size, chars, keys>>
allVars == <<semVars, ttyVars>>

\* What tty_read does with a key: end the line, keep the character, delete
\* the last one, or nothing (a KEYVAL(0) of the keymap).
Kind == {"cr", "char", "bs", "none"}
Event == [kind : Kind, key : 1..MaxKeys]

TypeOK ==
  /\ SemTypeOK
  /\ events_list \in Seq(Event) /\ Len(events_list) <= NrEvents
  /\ wait_kbd \in Seq(Task)
  /\ cpu \in Task \cup {NoTask}
  /\ at \in [Task -> {"user", "read", "copy"}]
  /\ size \in [Task -> Size \cup {0}]
  /\ chars \in [File -> Seq(1..MaxKeys)]
  /\ keys \in 0..MaxKeys

\* keyboard_setup: every event is free.
Init ==
  /\ SemInit
  /\ events_list = <<>> /\ wait_kbd = <<>>
  /\ cpu = NoTask
  /\ at = [t \in Task |-> "user"]
  /\ size = [t \in Task |-> 0]
  /\ chars = [f \in File |-> <<>>]
  /\ keys = 0
-----------------------------------------------------------------------------
(* The keyboard interrupt *)

\* Mutant: no wake-up.
wake_kbd_none == UNCHANGED wait_kbd

\* wake_up(&wait_kbd)
wake_kbd == wait_kbd' = IF wait_kbd = <<>> THEN <<>> ELSE Tail(wait_kbd)

\* The event of the key is the last one on events_list.  Mutants: the first
\* one; and the queue is taken to have one more event.
Queued_first(e) == <<e>> \o events_list
Full_late == Len(events_list) > NrEvents
Queued(e) == Append(events_list, e)
Full == Len(events_list) = NrEvents

\* A normal key.  With all events filled the key is dropped.  Releasing a key
\* and the codes 0xE0 and 0xE1 do nothing; shift selects the character, which
\* the model abstracts to its kind.
keyboard_handler(kind) ==
  /\ cpu = NoTask
  /\ keys < MaxKeys
  /\ keys' = keys + 1
  /\ IF Full
     THEN UNCHANGED <<events_list, wait_kbd>>
     ELSE /\ events_list' = Queued([kind |-> kind, key |-> keys'])
          /\ wake_kbd
  /\ UNCHANGED <<semVars, cpu, at, size, chars>>

-----------------------------------------------------------------------------
(* tty_read *)

\* The entry of tty_read: down(&read_sem), which may sleep.
tty_read(t, n) ==
  /\ cpu = NoTask
  /\ at[t] = "user"
  /\ down(t)
  /\ at' = [at EXCEPT ![t] = "read"]
  /\ size' = [size EXCEPT ![t] = n]
  /\ UNCHANGED <<events_list, wait_kbd, cpu, chars, keys>>

\* The task has the processor at the head of the loop of tty_read.
Reading(t) ==
  /\ cpu \in {t, NoTask}
  /\ at[t] = "read" /\ sem[t] = "in"
  /\ t \notin ToSet(wait_kbd)

\* keyboard_read without an event: sleep on wait_kbd.
keyboard_wait(t) ==
  /\ Reading(t)
  /\ events_list = <<>>
  /\ wait_kbd' = list_add(t, wait_kbd)
  /\ cpu' = NoTask
  /\ UNCHANGED <<semVars, events_list, at, size, chars, keys>>

\* pop_char(1): the last character, if there is one.
pop_last(l) == IF l = <<>> THEN l ELSE Front(l)

\* keyboard_read of the oldest event, and what tty_read does with it.  When
\* push_char gets no memory the read ends as it does at the end of the line.
keyboard_read(t) ==
  LET e == Head(events_list)
  IN /\ Reading(t)
     /\ events_list # <<>>
     /\ events_list' = Tail(events_list)
     /\ cpu' = t
     /\ \/ /\ \/ e.kind = "cr"
              \/ e.kind = "char"  \* push_char failed
           /\ at' = [at EXCEPT ![t] = "copy"]
           /\ UNCHANGED chars
        \/ /\ e.kind = "char"
           /\ chars' = [chars EXCEPT ![Filp[t]] = Append(@, e.key)]
           /\ UNCHANGED at
        \/ /\ e.kind = "bs"
           /\ chars' = [chars EXCEPT ![Filp[t]] = pop_last(@)]
           /\ UNCHANGED at
        \/ /\ e.kind = "none"
           /\ UNCHANGED <<chars, at>>
     /\ UNCHANGED <<semVars, wait_kbd, size, keys>>

\* The first size characters are moved to the program's buffer; then up and
\* the return to user mode.
tty_copy(t) ==
  /\ at[t] = "copy"
  /\ cpu = t
  /\ chars' = [chars EXCEPT ![Filp[t]] = SubSeq(@, size[t] + 1, Len(@))]
  /\ up(t)
  /\ cpu' = NoTask
  /\ at' = [at EXCEPT ![t] = "user"]
  /\ size' = [size EXCEPT ![t] = 0]
  /\ UNCHANGED <<events_list, wait_kbd, keys>>

\* The last user of a file closes it: tty_close frees the characters nobody
\* has read.
tty_close(f) ==
  /\ cpu = NoTask
  /\ \A t \in Task : Filp[t] = f => at[t] = "user"
  /\ chars[f] # <<>>
  /\ chars' = [chars EXCEPT ![f] = <<>>]
  /\ UNCHANGED <<semVars, events_list, wait_kbd, cpu, at, size, keys>>

ReadStep(t) == keyboard_wait(t) \/ keyboard_read(t) \/ tty_copy(t)

Next ==
  \/ \E k \in Kind : keyboard_handler(k)
  \/ \E t \in Task :
       \/ \E n \in Size : tty_read(t, n)
       \/ ReadStep(t)
  \/ \E f \in File : tty_close(f)

Spec == Init /\ [][Next]_allVars

\* A reader is in the kernel, so it runs whenever it is runnable.
FairSpec == Spec /\ \A t \in Task : WF_allVars(ReadStep(t))
-----------------------------------------------------------------------------
\* No key is lost between the test of events_list and the sleep: a reader
\* sleeps on wait_kbd only while there is no event, and only one reader does.
NoLostKey == wait_kbd # <<>> => events_list = <<>> /\ Len(wait_kbd) = 1

\* Characters reach a file in the order of the keys, each at most once, across
\* backspaces, partial reads and readers that take turns.
KeysInOrder ==
  /\ \A f \in File : \A i, j \in 1..Len(chars[f]) :
       i < j => chars[f][i] < chars[f][j]
  /\ \A f, g \in File : f # g => ToSet(chars[f]) \cap ToSet(chars[g]) = {}
  /\ \A f \in File, i \in 1..Len(events_list) :
       \A n \in ToSet(chars[f]) : n < events_list[i].key

\* The reader inside is never stuck behind a complete line: it returns once
\* the end of a line has been typed.
LineEndsRead ==
  \A t \in Task :
    (sem[t] = "in" /\ \E e \in ToSet(events_list) : e.kind = "cr")
      ~> at[t] = "user"
=============================================================================
