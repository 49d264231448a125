----------------------------- MODULE UserPages -----------------------------
(***************************************************************************)
(* The pages of a program: kernel/mm/page_table.c and the parts of         *)
(* fs/exec.c and kernel_thread that allocate.  Addresses are counted in    *)
(* pages.  Every allocation is a step, since any other task may run, and   *)
(* run out of memory, between two of them.  The pages of a zone are        *)
(* interchangeable, so one choice stands for all.  get_free_page asks the  *)
(* normal zone and never falls back to another one.                        *)
(***************************************************************************)
EXTENDS Integers, FiniteSets

CONSTANTS Task,
          High, Normal, \* the pages of two zones; the DMA zone has none left
          Top,          \* PAGE_OFFSET
          PerTable,     \* PTRS_PER_PGT
          Lengths,      \* the lengths of programs, in pages
          Nil

ASSUME UserAssumption ==
  /\ High \cap Normal = {} /\ Nil \notin High \cup Normal
  /\ PerTable \in Nat \ {0} /\ Top \in Nat /\ Top % PerTable = 0
  \* A MINIX file ends long before the pages of the arguments.
  /\ \A len \in Lengths : len \in Nat /\ len < Top - 3

VARIABLES free_pages,
          proc,  \* per program: where exec is, its pages, what it has loaded
          caller,\* whether sys_exec still holds arg_page
          dir,   \* the user part of its page directory
          pte    \* the entries of every page table
user_vars == <<free_pages, proc, caller, dir, pte>>

AnyPage == High \cup Normal
Some(S) == CHOOSE p \in S : TRUE
Slot == 0..PerTable - 1
Dir == 0..(Top \div PerTable) - 1
NoDir == [i \in Dir |-> Nil]
NoTable == [j \in Slot |-> Nil]
NoTask == [at |-> "none", task |-> Nil, pgd |-> Nil, n |-> 0, len |-> 0, ok |-> TRUE]

UserInit ==
  /\ free_pages = AnyPage
  /\ proc = [t \in Task |-> NoTask] /\ caller = [t \in Task |-> Nil]
  /\ dir = [t \in Task |-> NoDir] /\ pte = [p \in Normal |-> NoTable]

LowFree == free_pages \cap Normal
AvailPages == IF free_pages \cap High # {} THEN free_pages \cap High ELSE LowFree
-----------------------------------------------------------------------------
(* sys_exec and kernel_thread, up to the first step of the new task *)

exec_arg_page(t, len) ==
  /\ proc[t].at = "none" /\ caller[t] = Nil /\ LowFree # {}
  /\ caller' = [caller EXCEPT ![t] = Some(LowFree)]
  /\ free_pages' = free_pages \ {Some(LowFree)}
  /\ proc' = [proc EXCEPT ![t].at = "copy", ![t].len = len]
  /\ UNCHANGED <<dir, pte>>

Released(t) ==
  /\ free_pages' = (free_pages \cup {caller[t], proc[t].task}) \ {Nil}
  /\ caller' = [caller EXCEPT ![t] = Nil]
  /\ proc' = [proc EXCEPT ![t] = NoTask]
  /\ UNCHANGED <<dir, pte>>
copy_argv_failed(t) == proc[t].at = "copy" /\ Released(t)

kernel_thread(t) ==
  /\ proc[t].at = "copy"
  /\ \/ LowFree = {} /\ Released(t)
     \/ /\ LowFree # {}
        /\ proc' = [proc EXCEPT ![t].at = "dir", ![t].task = Some(LowFree)]
        /\ free_pages' = free_pages \ {Some(LowFree)} /\ UNCHANGED <<caller, dir, pte>>

copy_empty_page_dir(t) ==
  /\ proc[t].at = "dir"
  /\ \/ LowFree = {} /\ Released(t)
     \/ /\ LowFree # {}
        /\ proc' = [proc EXCEPT ![t].at = "load", ![t].pgd = Some(LowFree)]
        /\ dir' = [dir EXCEPT ![t] = NoDir]
        /\ free_pages' = free_pages \ {Some(LowFree)} /\ UNCHANGED <<caller, pte>>
-----------------------------------------------------------------------------
(* The new task *)

\* Mutant: without a page for the table the page itself is not given back.
load_failed_kept(t, p) == free_pages' = free_pages \ {p} /\ UNCHANGED <<dir, pte>>
load_failed(t, p) == UNCHANGED <<free_pages, dir, pte>>

\* Maps a new page at addr, in a new table if there is none.  pte is empty for
\* a page that is no table: get_zeroed_page empties what is left from before.
load_page(t, addr, ok) ==
  LET i == addr \div PerTable
      p == Some(AvailPages)
      tables == LowFree \ {p}
      new == dir[t][i] = Nil
      table == IF new THEN Some(tables) ELSE dir[t][i]
  IN IF AvailPages = {} THEN ~ok /\ UNCHANGED <<free_pages, dir, pte>>
     ELSE IF new /\ tables = {} THEN ~ok /\ load_failed(t, p)
     ELSE /\ ok
          /\ free_pages' = (free_pages \ {p}) \ {table}
          /\ dir' = [dir EXCEPT ![t][i] = table]
          /\ pte' = [pte EXCEPT ![table] = [@ EXCEPT ![addr % PerTable] = p]]

Goes(t, to, ok) == proc' = [proc EXCEPT ![t].at = to, ![t].ok = ok] /\ UNCHANGED caller

\* One turn of the loop: the page behind the last one of the program is loaded
\* before sys_read finds the end of the file.
write_program_to_user(t) ==
  /\ proc[t].at = "load"
  /\ \/ load_page(t, proc[t].n, FALSE) /\ Goes(t, "return", FALSE)
     \/ /\ load_page(t, proc[t].n, TRUE)
        /\ \/ /\ proc[t].n < proc[t].len /\ UNCHANGED caller
              /\ proc' = [proc EXCEPT ![t].n = @ + 1]
           \/ proc[t].n = proc[t].len /\ Goes(t, "argv", TRUE)
           \/ Goes(t, "return", FALSE)   \* read error, or no program

Then(t, from, addr, to) ==
  /\ proc[t].at = from
  /\ \E ok \in BOOLEAN : load_page(t, addr, ok) /\ Goes(t, IF ok THEN to ELSE "return", ok)
write_argv_to_user(t) == Then(t, "argv", Top - 2, "argc")
write_argc_to_user(t) == Then(t, "argc", Top - 1, "stack")
create_user_stack(t) == Then(t, "stack", Top - 3, "return")

\* exec_wrapper wakes its caller and enters the program or fails; either way the
\* task exits in the end.
exec_wrapper(t) ==
  /\ proc[t].at = "return"
  /\ Goes(t, IF proc[t].ok THEN "user" ELSE "exit", proc[t].ok)
  /\ UNCHANGED <<free_pages, dir, pte>>
sys_exit(t) ==
  /\ proc[t].at = "user" /\ Goes(t, "exit", TRUE) /\ UNCHANGED <<free_pages, dir, pte>>
-----------------------------------------------------------------------------
Tables(t) == {dir[t][i] : i \in Dir} \ {Nil}
Mapped(t) == {pte[table][j] : table \in Tables(t), j \in Slot} \ {Nil}

\* Mutant: the page tables themselves are not freed.
free_page_dir_tables(t) == Mapped(t) \cup {proc[t].pgd}
free_page_dir(t) == Mapped(t) \cup Tables(t) \cup {proc[t].pgd}
kthread_release(t) ==
  /\ proc[t].at = "exit" /\ proc[t].ok = (caller[t] = Nil)
  /\ free_pages' = free_pages \cup free_page_dir(t) \cup {proc[t].task}
  /\ proc' = [proc EXCEPT ![t] = [NoTask EXCEPT !.at = IF proc[t].ok THEN "none" ELSE "reaped"]]
  /\ dir' = [dir EXCEPT ![t] = NoDir] /\ UNCHANGED caller
  /\ pte' = [p \in Normal |-> IF p \in Tables(t) THEN NoTable ELSE pte[p]]

\* sys_exec returns once it was woken, and after a failure once it has reaped
\* the task; only then can it reap a program that ran.
exec_return(t) ==
  /\ caller[t] # Nil
  /\ proc[t].at \in {"user", "reaped"} \/ (proc[t].at = "exit" /\ proc[t].ok)
  /\ free_pages' = free_pages \cup {caller[t]}
  /\ caller' = [caller EXCEPT ![t] = Nil]
  /\ proc' = [proc EXCEPT ![t].at = IF @ = "reaped" THEN "none" ELSE @]
  /\ UNCHANGED <<dir, pte>>

UserNext == \E t \in Task :
  \/ \E len \in Lengths : exec_arg_page(t, len)
  \/ copy_argv_failed(t) \/ kernel_thread(t) \/ copy_empty_page_dir(t)
  \/ write_program_to_user(t) \/ write_argv_to_user(t) \/ write_argc_to_user(t)
  \/ create_user_stack(t) \/ exec_wrapper(t) \/ sys_exit(t)
  \/ kthread_release(t) \/ exec_return(t)
UserSpec == UserInit /\ [][UserNext]_user_vars
-----------------------------------------------------------------------------
\* Who refers to page p, in which role.
Owners(p) ==
  {<<t, "arg">> : t \in {u \in Task : caller[u] = p}} \cup
  {<<t, "task">> : t \in {u \in Task : proc[u].task = p}} \cup
  {<<t, "dir">> : t \in {u \in Task : proc[u].pgd = p}} \cup
  {x \in Task \X Dir : dir[x[1]][x[2]] = p} \cup
  {x \in Task \X Dir \X Slot : dir[x[1]][x[2]] # Nil /\ pte[dir[x[1]][x[2]]][x[3]] = p}

IsMapped(t, addr) ==
  LET table == dir[t][addr \div PerTable]
  IN table # Nil /\ pte[table][addr % PerTable] # Nil

\* Whatever fails on the way, every page is free or has one owner: no page of a
\* program is lost, shared or freed while it is mapped.  A program that runs
\* has its own pages, its arguments and its stack and nothing else.
PagesAccounted ==
  /\ \A p \in AnyPage : Cardinality(Owners(p)) = IF p \in free_pages THEN 0 ELSE 1
  /\ \A t \in Task : proc[t].at = "user" =>
       \A a \in 0..Top - 1 : IsMapped(t, a) <=> a \in 0..proc[t].len \cup Top - 3..Top - 1
=============================================================================
