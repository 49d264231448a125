# A TLA+ verification project for sins-os

sins-os is a small preemptive multi-tasking kernel for the 80386: a scheduler
with wait queues, exec/exit/wait, signals, a buddy page allocator, a disk, a
keyboard and a terminal driver, kernel timers, and a read-only MINIX file
system.  There is one processor.  What makes it hard is that kernel code is
preempted: the timer interrupt may switch tasks between any two instructions of
a system call that run with interrupts enabled.

This directory holds the specifications of its core, the TLC configurations
that check them on small instances, and TLAPS proofs of the results that hold
for every value of the constants.

## 1. Inventory

| Component | Source | State | Operations | Hard part |
|---|---|---|---|---|
| Lists | `include/list.h` | `next` and `prev` of every node | `list_add`, `list_del`, `list_splice`, `list_cut_position`, safe walks | stale pointers, an entry on two lists |
| Scheduler | `kernel/sched.c` | `run_list`, `ready_list`, `current`, `state`, `time_slice`, wait queues | `schedule`, `sched_tick`, `wait`, `wake_up`, `wake_up_all`, `kernel_thread`, `kthread_release` | interleaving, lost wake-ups, starvation |
| Exit and wait | `kernel/exit.c` | `parent`, `chld_active`, `chld_zombie`, `wait_exit` | `sys_exit`, `sys_wait_pid`, `sys_wait_chld` | a child exits while its parent tests for it; orphans |
| Exec | `fs/exec.c` | the frame `params` shared by two tasks | `sys_exec`, `exec_wrapper` | hand-off, life time of the frame |
| Boot, init | `init/main.c` | - | `start_kernel`, `init` | init reaps every orphan |
| Signals | `kernel/signal.c`, `arch/signal.c` | `signal`, `sig_mask`, `sig_fn`, `sig_restorer`, frames on the user stack | `sys_kill`, `sys_sigaction`, `sys_sigmask`, `sys_sigreturn`, `do_signal` | delivery races, nesting |
| Page allocator | `kernel/mm/page_alloc.c` | free lists, two flag bits per page | `alloc_pages`, `dealloc_pages`, build | long histories of splits and merges |
| Disk driver | `drivers/hd.c` | `wait_hd`, `wait_done`, `wait_blk`, `intr_done` | `hd_out`, `read_intr`, `write_intr` | late interrupts, waiters |
| Semaphore | `kernel/semaphore.c` | `count`, `wait` | `down`, `up` | hand-off to a task that has not run yet |
| Keyboard, terminal | `drivers/keyboard.c`, `drivers/tty.c` | event lists, `wait_kbd`, edited characters | `keyboard_handler`, `keyboard_read`, `tty_read`, `tty_close` | a key between test and sleep |
| Timers | `kernel/timer.c` | `jiffies`, the wheel | `add_timer`, `del_timer`, `do_timer` | wrap-around of the wheel, drift |
| High memory | `kernel/mm/highmem.c` | a second buddy system of addresses, page table entries | `kmap`, `kunmap`, `ioremap`, `iounmap` | an address handed out twice |
| kmalloc | `kernel/mm/kmalloc.c` | pages cut into pieces | `kmalloc`, `kfree` | size classes |
| Page tables | `kernel/mm/page_table.c`, `fs/exec.c` | page directories, page tables | `load_page`, `copy_empty_page_dir`, `free_page_dir` | running out of pages half way |
| Zones at boot | `kernel/mm/init.c` | zones, the memory map | `mem_zones_create`, `paging_init`, `mem_map_create`, `page_alloc_init` | arithmetic at boundaries |
| Interrupt lines | `kernel/irq.c` | handlers, nesting depth | `request_irq`, `enable_irq`, `disable_irq` | nesting |
| VFS: inodes and dentries | `fs/inode.c`, `dentry.c`, `namei.c`, `super.c` | caches, reference counts | `iget`, `iput`, `dget`, `dput`, `lookup`, `chdir`, `chroot` | reference counts across sleeps |
| VFS: file tables | `fs/open.c`, `char_dev.c` | fd tables, open files | `open`, `close`, `dup`, `dup2`, exec, exit | references that several tasks share |
| Block devices, MINIX | `fs/block_dev.c`, `fs/minix/` | index blocks, directories | `bmap`, `minix_file_read`, `minix_lookup`, `blkdev_read` | loops over block boundaries |
| Time of day | `kernel/time.c`, `include/asm/time.h` | `startup_time` | `arch_read_time`, `mktime` | calendar arithmetic |
| Library | `lib/string.c`, `vsprintf.c`, `div64.c` | - | copying, searching, printing, reading and dividing | boundaries |

How they interact: every driver and the semaphore sleep and wake through the
wait queues of the scheduler; interrupts enter through `do_irq` and end, like
system calls, in `do_signal`; `sys_exit` sends `SIGCHLD`; `tty_read` runs under a
semaphore and sleeps for the keyboard; tasks, page tables and file buffers come
from the page allocator; `sys_exec` allocates from it, opens the program through the
VFS and lets the new task inherit the files and directories of its caller.  The
properties that make each part correct are the
ones of section 4; the hazards they are aimed at are in `PROJECT.json`.

## 2. Modules

| Module | What it is |
|---|---|
| `Lists` | `list.h` as sequences, the entry after the head first |
| `Sched` | scheduler, wait queues, exit/wait, exec hand-off, boot of init |
| `Signal` | pending signals, masks, handlers and their frames |
| `PageAllocator` | abstract: the blocks callers hold, and nothing else |
| `Buddy` | the buddy system of one zone, one action per loop turn; implements `PageAllocator` |
| `Hd` | disk driver together with the controller (external) |
| `Semaphore` | `down` and `up` |
| `Tty` | keyboard interrupt and terminal readers; extends `Semaphore` |
| `Timer` | the timer wheel |
| `Kmalloc` | `kmalloc` and `kfree`: pages cut into pieces |
| `Highmem` | `kmap`, `ioremap` and their inverse; extends `Buddy`, whose pages are the addresses |
| `UserPages` | every page of a program, from `sys_exec` to `kthread_release` |
| `Zones` | from the memory map of the BIOS to the first free pages |
| `FdTable` | abstract: which file every descriptor of every task names |
| `Vfs` | inodes, dentries, walks, open files and their counts; implements `FdTable` |
| `Minix` | reads of a MINIX file, a directory and the device |
| `ListSpec` | abstract: the sequences of entries behind the heads |
| `ListPtr` | `list.h` pointer by pointer; implements `ListSpec` |
| `Strings`, `Vsprintf`, `Div64`, `Calendar` | `lib/string.c`, `lib/vsprintf.c`, `lib/div64.c`, `kernel/time.c` with reference definitions |
| `MC*` | instances for TLC; `MCMemory`, `MCHd` and `MCLibrary` put several parts in one run |
| `ListsProofs`, `SchedProofs`, `TtyProofs`, `HdProofs`, `KernelProofs` (signals and timers), `MemoryProofs`, `ListPtrProofs`, `VfsProofs` | theorems and lemmas; `ListsProofs` holds only the lemmas about lists that the others cite |

`MCMemory`, `MCHd` and `MCLibrary` hold parts that share no state.  The variable
`part` is chosen at the start and says which part a behaviour is of; the others
keep their first values.  So a run is the union of the state spaces of its parts
and not their product.

Conventions.  An action is everything the code does between two points where
an interrupt can be taken.  Code between `irq_save` and `irq_restore` is one
action unless it sleeps inside; then the part before and the part after are two
actions.  Early returns that change nothing (an unknown pid, `-ENOMEM`, an
invalid signal number) are not actions.  Operators whose name says so and whose
comment starts with "Mutant" are deliberately wrong variants of the next
definition; no specification uses them, they exist to show that the properties
can fail.

**Sched.**  A task is its page (`task_struct` and kernel stack share one);
`TASK_DEAD` is the state of a page that is no task.  `pc` says where a task is in
the code, and only the points in `Preemptible` are reached with interrupts on.
Only `current` takes task steps; `sched_tick`, `IoWake` and `wake_up_all` are
interrupts.  `schedule()` is split by what it does for the caller
(`schedule_expired`, `schedule_zombie`, `wait`) followed by the common end
`pick_next`.  `wait_event` is a test and a sleep in one action, because both are
inside one `irq_save`; `sys_wait_pid` looks the pid up and tests the parent in
two actions before that, because interrupts are still on there.  `params[t]`
names the frame that `exec_wrapper` of `t` points into; reading it after
`sys_exec` has returned gives an arbitrary value.  The idle task only halts.
`IoQueue` stands for every wait queue of devices and locks; `IoWait` may sleep
there from user-mode system calls, from init's start and from program loading.

**Signal.**  Tasks are interleaved freely.  A task is its page, which is released
and used again: init starts one program, programs start others, and until
`exec_wrapper` clears `TASK_KTHREAD` the new task is a kernel thread.  The caller
of `sys_exec` is outside the kernel again only when the program is loaded or was
given up.  `sys_kill` is a lookup and a later set of the bit, since interrupts are
on in between.  `do_signal` is the whole
function and runs on any return to user mode.  `asleep` are the programs that sleep in a
system call; they take no step until `wake_up`, and `sys_kill` does not wake them.  The frame on the user stack holds
the interrupted context; `sig_restorer` is the number of the frame, 0 for
`SIG_RESTORER_NULL`.  `Masked` is the condition of line 134 as written.

**Buddy.**  Pages are offsets from `zone->mmap_base`.  `private` and `used` are
the flag bits, `free_area` the lists, `op` the local variables of the operation
whose loop is running.  `held` is what the callers own: nobody frees what he did
not get.  The size of `free_area` lists (`size++`) is the length of the list.

**Kmalloc.**  `page_head[p]` is the `page_head_t` at the start of page `p`: its class, the
pieces in use and the free ones in list order.  A piece is named by its offset, so
that two pieces that overlap are seen.  `kmalloc` asks only the first page of its
class, as the code does; `Take` moves a page that has become full to the front.

**Highmem.**  `highmem.c` has a buddy system of its own, which repeats that of
`page_alloc.c` function for function; so the module extends `Buddy` and names its
actions as the file does.  `entry[a]` is the physical page the page table entry of address
`a` points at.  `kmap` writes the entries after `alloc_high_map` has turned interrupts
on again, so each write is a step; `mapping[b]` holds the local variables of the
task that got block `b`.  `kunmap` leaves the entries as they are.

**UserPages.**  `proc[t].at` is where the exec of `t` is.  A step ends wherever another
task may take pages: `exec_arg_page`, `kernel_thread`, `copy_empty_page_dir` and each
`load_page`.  `get_avail_pages` prefers the high zone, page tables and directories need
the normal one.

**Zones.**  One step per function of `mm_init`, on addresses of a machine with 256
bytes whose sums wrap like those of the real one.  `map` is what the BIOS reports.
A `BUG_ON` ends the behaviour in `"BUG"`.

**Vfs.**  `count` holds the reference counts of dentries and inodes; one that is not 0
is in a cache.  `call[t]` is the system call of task `t` with its local variables:
`iter` is the dentry the walk has reached, `base` the directory it searches, `find` what `iget`
waits for.  The walk sleeps when it reads a directory block (`"block"`) and an inode
(`"inode"`), and there other tasks run.  `find_entry` compares with `strncmp`, so an entry in
memory matches every name it begins with (`Begins`).  `sys_open` ends where `chrdev_open`
counts the device: up to there it changes nothing but references and memory of its own
task, while the driver may be unregistered before `chrdev_count` and between that and
`chrdev_open`.  `sys_close` is one action: the slot is the task's own and the last
reference is reached by nobody else, and the count of the device is read only by
`unregister_chrdev`, which looks at nothing else that closing changes (and which no
code of the kernel calls).

**Minix.**  `file` is what the disk holds, `call` the local variables of the loop under way;
one turn, with its read of a block, is a step.  `Layout` says what a file looks like on the
disk: its zones in order (`zones`) are found in the inode (`zone`), in an index block, and
in index blocks named by an index block (`ptr`).  The code sees `zone` and `ptr` only, the
properties speak of `zones`.  An index block that cannot be read gives zone 0, as a hole
does.  `BUG` is the result of a call that a `BUG_ON` has stopped, `BEYOND` a byte behind
the page of a block.  Blocks of a directory can be read (section 6).

**ListPtr.**  `mem` are the `next` and `prev` members.  `valid` is the set of nodes whose
members may be followed: `list_del` and `list_splice` leave stale pointers behind.  An
operation is an expression, assignment by assignment; what callers have to obey
(an entry is added only when it is on no list) is in the guards.

**Strings, Vsprintf, Div64, Calendar.**  `Strings` calls one function on every pair of
places in a buffer, so that sources and destinations overlap; `strtok` is called
again and again.  `Vsprintf` and `Div64` are functions checked on every member of a set of
inputs.  `Calendar` has the clock chip as its environment.

**Hd.**  A read and a write differ only in the direction and in the flag set at
the end, so one action models both interrupt handlers.  The controller owes an
interrupt for every sector of a read and for every sector of a write but the first
(`hd_intr`).  That one it takes without an interrupt, and `hd_out` does not send it; so a
write goes on only if an interrupt comes that nobody owes (`hd_intr_spurious`), which may
come at any time, with data or without.

**Tty.**  A key is the kind of thing `tty_read` does with it and a number that
identifies it.  `wait_event` leaves its loop without restoring the interrupt
flag, so a reader that has taken an event keeps interrupts off until it sleeps
or returns; `cpu` is that reader.  Tasks that share an open file share its edited
characters.

**Timer.**  `asked`, `start` and `fired` are history variables about the last
`add_timer` of a handler.

## 3. Bounds and fairness

| Run | Instance | Why it is enough |
|---|---|---|
| `sched_safety` | idle, init, two programs, one device queue, slice of 2 ticks; symmetric programs | one program can start, wait for and orphan the other, which init then reaps; pages are reused without bound |
| `sched_liveness` | without device queue, slice of 1 tick: the same two programs, or three in one line of descent without `sys_wait_pid` and failing exec | repeated exec, exit and wait provide the wake-ups that could starve a task, and nothing bounds how long the system runs; three programs are the smallest number with which one reaps a child that leaves a zombie to init while init sleeps, and only choices are cut, no step that fairness asks for |
| `exec_argc` | as `sched_safety` | the shortest counterexample needs one exec |
| `memory`, buddy | 9 pages, orders 0 to 3 | one full block and one page whose right buddy is outside the zone; every sequence of allocations and frees |
| `memory`, kmalloc | 3 pages of 24 bytes, 3 classes, sizes 3, 8, 12, 16, 40 | pages of several pieces and of one, a size between classes, one that is rounded down and one that is too large; no memory left |
| `memory`, highmem | 9 addresses, orders 0 to 3, mappings of two and four pages from two places | blocks are split and merged over two levels between the writes of the entries of others, `ioremap` of a size that is no power of two; blocks are used again with old entries in them |
| `memory`, program | 2 programs, 4 high and 6 normal pages | one program fits and two do not, so every allocation fails in some behaviour |
| `memory`, zones | maps of 3 entries, 64 bytes DMA, 128 normal | entries that touch, leave gaps, end within a page, cross one or both limits and pass the end of the addresses |
| `signal` | two tasks, `SIGKILL` and `SIGCHLD`, programs of two points | one signal that cannot be masked, one with handler, mask and two senders; any number of signals sent, programs started and sleeps |
| `signal_kill` | the same with `SIGUSR1` for `SIGCHLD` | a signal to mask |
| `signal_reuse` | three tasks, programs of one point | a sender, its target, and a third program that starts a new one in the page |
| `disk`, driver | three tasks, blocks of three sectors | two waiters while a transfer runs; any number of requests and of interrupts that are not owed, reads and writes |
| `disk`, minix | a file of eight zones, two of them in the inode, two levels of index blocks; directories of five entries, two per block | every change of level, holes, unreadable blocks of data and of both levels of the index, reads that start and end before and at the end, a file of the largest size |
| `terminal` | three readers, two sharing a file, 2 events, 5 keys | the queue overflows, lines are edited, read in parts and by turns |
| `vfs` | two tasks, a program, a directory with a device node, 2 descriptors per task, 2 open files | both walk the same path at once; all descriptors and files can be in use; exec inherits them |
| `inode_race` | three tasks, two files, one descriptor per task, two failing allocations | two tasks can sleep in `iget` for the inode that the third one opens; the shortest counterexample needs both failures |
| `library` | two heads and three entries; 2 timers, a wheel of 2 lists, periods 0 to 3, 6 ticks; strings of up to four characters; 8-bit by 4-bit and 8-bit division; eleven years | splices and cuts of lists with several entries in both directions; periods shorter than, equal to and longer than the wheel; all overlaps of short strings; three leap years |

The bounded counters are the numbers of keys (`MaxKeys`) and ticks (`MaxJiffies`,
`MaxTicks`), and in `Vfs` the sum of the inode counts (`MaxRef`, because `minix_lookup`
forgets references), the count of a file (`MaxDup`, because `dup2` does) and the
allocations that fail (`MaxFail`).  `terminal` switches the deadlock check off because
all readers wait once the last key was typed, the signal runs because nothing is
left to do when every program has exited, and `library` because its functions
return.

Fairness.  *Sched*: the timer interrupt is latched by the interrupt controller
until it can be taken (strong fairness of `sched_tick`), a task inside the kernel
goes on whenever it owns the processor, and a device answers in the end.
Programs owe no progress: they may loop in user mode.  *Signal*: a task in user
mode passes `do_signal` at the next timer interrupt, and one that leaves a system call
again and again passes it each time, so `do_signal` is strongly fair.  It is disabled
while the task sleeps in a system call, and nothing is assumed to wake the task or to end
the loading of a program it waits for.  A started `sys_kill` goes on; handlers
return.  *Hd*: the controller raises the interrupts it owes, none before the first
sector of a write, and runnable tasks run, which is what `RunnableRuns` shows of the
scheduler.  *Tty*: a reader inside the kernel runs whenever it is runnable.

## 4. Runs

- **sched_safety**.  `QueueInv`: a task is linked on exactly the list its state
  says.  `IdleInv`: the idle task is runnable, so `schedule` finds a task.
  `FamilyInv`: `parent`, `chld_active` and `chld_zombie` are one tree.
  `WaitTargetInv`: the child waited for is not freed meanwhile.  `NoLostExit`: no
  parent sleeps on a child that has exited.  `ExecHandOff`: the caller of
  `sys_exec` sleeps only while the wake-up is still to come.  `OnlyParentReaps`: a
  zombie is freed by its parent and by nobody else.
- **sched_liveness**.  `RunnableRuns`: no runnable task starves although woken
  tasks are put in front.  `WaitPidReturns`: a parent learns of the exit it waits for.
  `InitReaps`: init does not sleep on a zombie, in particular not on one that
  `kthread_release` hands it while it sleeps; the second scenario of `MCSchedLive` reaches it.
- **exec_argc** (violation).  `exec_wrapper` wakes the caller at line 152 and reads
  `params->argc` at line 157 of `fs/exec.c`; a tick in between lets the caller
  return and reuse the stack.
- **memory**.  Buddy: `Tiling`: at every loop turn free, held and in-work blocks are
  aligned, disjoint and cover the zone.  `FlagsAgree`: the bits `get_buddy` trusts
  are true.  `FullyMerged`: a free aligned run lies inside one free block, so an
  allocation fails only when there is no room.  `ImplementsPromise`: refinement of
  `PageAllocator`.  kmalloc: `PiecesDisjoint`: pieces overlap neither each other nor the
  bookkeeping, and a page is on a list as long as it holds a piece.  High memory:
  `MappingAgrees`: an entry written for a block leads to the page asked for until the
  block is given back, however tasks that map and unmap take turns.  Programs: `PagesAccounted`: a page has one owner or
  is free, on every error path, and a running program has exactly its pages.  Boot:
  `ZonesCover`: every usable page is in the zone of its type, `phys_to_page` and
  `page_to_phys` are inverse there, and neither the kernel nor the memory map is free.
- **signal**.  `OneFrame`: handlers do not nest and return to the interrupted
  program.  `HandlerRuns`: an unmasked signal with a handler is consumed only by its
  handler, lowest first.  `SignalConsumed`: it is taken in the end unless
  its task sleeps for ever in a system call or lower ones keep arriving.  The first
  exception is real: a task asleep in `tty_read` or `sys_wait_chld` is not woken by a signal.
- **signal_kill** (violation).  With any signal masked, line 134 of
  `kernel/signal.c` discards `SIGKILL` too.
- **signal_reuse** (violation).  `KthreadClean`: no signal is pending for a kernel
  thread.  Between the lookup and the test in lines 90-92 of `kernel/signal.c` and
  the write in line 96 the target can be released and its page become a new task,
  still a kernel thread, which then starts its program with the signal pending.
- **disk**.  `OneRequest`, `BlockComplete`: the sleeper gets all sectors of its own
  block, once and in order.  `NoStrandedWaiter`, `RequestsServed`: the disk goes on
  as long as somebody waits, unless a write holds the controller.  The driver sends no
  first sector and the controller owes no interrupt for it, so nothing obliges such a
  write to start; writes are reached through the block device only, since the file
  system is read-only.  A single task may be overtaken for ever, because
  `wake_up` takes the newest sleeper; the code promises nothing else.
  `ReadsFile`: a read of a MINIX file returns its bytes, in order and from the right
  place, with zeros for a hole and for a block whose index block cannot be read, and
  stops short only there or at an unreadable block; a read of the device returns the
  bytes of the disk up to the end of its first block, and all of them when it starts
  with a block; a directory search that stays in its blocks finds the first entry of the
  name.
- **terminal**.  `SemInv`: mutual exclusion and no lost hand-off.  `NoLostKey`: a
  reader sleeps only while there is no event.  `KeysInOrder`: characters arrive
  once and in order.  `LineEndsRead`: a typed line ends the read.
- **vfs**.  `DentryCount`: the count of a dentry is the number of references to it, in
  every state of two interleaved walks, so that none is freed under a task or kept
  for ever.  `CountsCover`: the counts of files and of the character device are never
  too low, nor are those of inodes while at most one allocation has failed (see
  `inode_race`).  They can be too high, see section 6; an equation would not hold.
  `Jail`: `pwd` stays below `root`, the condition under which `sys_getcwd` ends.
  `ImplementsFdTable`: seen by its inode, a descriptor changes only when its own task
  opens, closes or replaces it, although files are shared over `dup` and exec.
- **inode_race** (violation).  `NeverBug`: `iput` drops a reference that there is
  (`BUG_ON` in line 126 of `fs/inode.c`).  Two tasks sleep in `iget` for an inode that a
  third one reads in and opens; both are given it without a reference.  If their
  dentries cannot be allocated, both call `iput`.  The reference that `minix_lookup`
  forgets makes up for the first; the second frees the inode under the open file.
- **library**.  `RingInv`: pointers that may be followed lead to nodes whose pointers
  may be followed, and `next` and `prev` are inverse.  `ImplementsLists`: the pointer
  operations have the effect on the lists that `ListSpec` gives, also when a safe walk
  removes or moves the entry it is at.  `NoMissedTimer`: `BUG_ON(now > handler->jiffies)`
  cannot fire.  `NoDrift`: calls come at whole multiples of the period.
  `CallTimesPeriodic`: a periodic timer that has left the wheel was called as often as
  asked.  `LibraryExact`: strings, printed and
  read numbers, divisions and dates equal their reference definitions.

Every property of a passing run has a mutant in `PROJECT.json` that breaks it.

## 5. Proofs

The assumptions are the named `ASSUME`s of the modules: distinct idle and init
tasks, `NULL` not a task, a positive time slice; a wheel with at least one list,
natural periods, positive or infinite call times; a block of at least one sector, and
no task that is the absent block; at least one key event, natural sizes of reads, one
open file per reader; at least one point in a program, none of them `"handler"`, and
signals among `0..4`; finitely many tasks, dentries, inodes and files, a tree without
cycles whose two roots have inodes of their own; a zone with finitely many pages and `Size[o]` doubling from 1;
physical pages with natural numbers; classes of `kmalloc` that double, the largest of
which fits on a page with its bookkeeping; two zones without a common page, a user
part of the address space in whole page tables, and programs that end before the three
pages of arguments and stack.  (`write_program_to_user` has no such test, but a MINIX file
has at most 262,663 blocks of 1 KB, which is less than a tenth of `PAGE_OFFSET`.)
Sizes and counts of `Minix` are not zero, its files have the layout that its file system
makes and are no larger than their blocks, and directories are sequences of entries.
`Size` and `ClassSize` name the powers of two instead of computing them: no prover has
axioms for `^`.

**Sched** (`SchedProofs`).  The inductive invariant is `SchedInv`:

- `TypeOK`, `QueueInv`, `FamilyInv`;
- `ControlInv`, which ties `pc` to the task's state: a sleeping or preempted task
  is at a point where that is possible, the idle task is at `boot` or `idle`, an
  `arg` or `params` that will be used refers to a task, and a task waited for is
  a live child of the waiter.  Without it `wake_up` in `exec_wrapper` and the
  release in `sys_wait_pid` could touch a page that is no task, and neither
  `FamilyInv` nor `QueueInv` would be preserved.

Its first part states `QueueInv` as an operator on the lists and the state
function, and proves once per list operation (sleep, wake one, wake all, expire,
exit, start, free, and `pick_next`, which may swap the two lists) that it is
preserved; the second composes them, one lemma per action, and the three
family lemmas (start, exit, release with the hand-over to init).  Proved for
every number of tasks and queues: `SchedTypes`, `SchedQueues`, `SchedIdle`,
`SchedFamily`, `SchedWaitTarget`.

The third part adds `SleepersInv`, which says why a task sleeps: on `wait_exit`
because the condition of its `wait_event` is still false, on `params.wait` because its
child is at `exec_load` and points back to it, and, the other way round, the caller
of every task at `exec_load` is asleep.  The last part is what makes the wake-up in
`exec_wrapper` hit the right task; without it `ExecHandOff` is not inductive.  Since
only the owner ever sleeps on a `wait_exit`, waking its first sleeper wakes everybody
there, and the hand-over of zombies to init wakes init.  From it follow
`SchedNoLostExit`, `SchedExecHandOff` and, together with the effect of each step on
the states, the action property `SchedOnlyParentReaps`.

**Semaphore** (`TtyProofs`).  `SemInv` is inductive: the count equals the queue length
plus one when there is an owner, so `up` finds a sleeper exactly when the count stays
positive, and `down` enters only when nobody owns or waits.

**Terminal** (`TtyProofs`).  `NoLostKey` needs `ReaderInv`, which ties a reader's place in
`tty_read` to `read_sem`: whoever sleeps on `wait_kbd` owns the semaphore, so there is at
most one, and the interrupt that adds an event wakes it.  `KeysInOrder` compares lines
and queued events only; `EventsInOrder` adds that the queue itself is in order and that
the next key is younger than everything typed so far.  Characters that `push_char`
rejects, a backspace removes or a partial read takes leave a sorted rest, by the
lemmas on sequences.  `SemInv` is carried along, so `TtySemaphore` says that the
readers use the semaphore as its own specification asks.

**Disk** (`HdProofs`).  `SleepInv` says who is linked where: `wait_hd` holds exactly the
sleepers at `wait_hd`, and `wait_done` at most the owner of `wait_blk`.  `TransferInv`
says how far a request is: what was moved is the first `intr_done` sectors, the
controller offers the next one, and without a request in progress a late or spurious
interrupt finds `intr_done` at its end and moves nothing.  Without that last part
`hd_intr_spurious` could write into the block of a task that has already returned.
`NoStrandedWaiter` holds because the last interrupt wakes both queues; the task it
takes from `wait_hd` is the one that will wake the next.

**Reads of the disk** (`HdProofs`).  `ReadsAreExact` is `ReadsFile` for every number of zones in
the inode and in an index block, every size of a MINIX block and number of them in a block
of the device, and every file that has the `Layout`.  `Bmap` shows that the block map gives
the zones in order: a block behind the two levels is taken apart by `\div` and `%` and put
together by the layout.  `ByteInBlock` and `Run` turn that into bytes: those of one turn lie
one after the other on the disk.  `MinixInv` has one part per loop.  `ReadInv`: what was read
is the file from the start on, with zeros where there is no block or it cannot be found, a
call under way is where that ends, and a call that is over before its time has met
such a zero or an unreadable block, or has been stopped by `BUG_ON` at the end of a file of
the largest size.
`DeviceInv`: a call that still has bytes to read has read nothing or whole blocks; that is
why the offset counts in the first turn only.  `SearchInv`: entry `j` of block `k` is number
`i` of the directory unless the search is `astray`, and no entry before it matches.

**Signals** (`KernelProofs`).  `FrameInv`: a program in a handler has one frame with a
point of the program in it, everything else has none.  The part about pages that are
not running programs is needed because `kernel_thread` and exec reuse them.
`SignalHandlerRuns` is an action property: of all the steps only `do_signal` takes a
signal with a handler from an unmasked program, and it takes the lowest.

**Page allocator** (`MemoryProofs`).  `BuddyInv` says at every turn of the loops: the
blocks, free, handed out or in work, tile the pages reached so far (`Tiles`: aligned,
inside, pairwise apart, and every page in one), each has one owner, the flags are the
heads of the blocks, the build leaves no room for a larger block, and no two free blocks
are buddies.  The last is the reason why merging may stop at the first buddy that is
in use, and the build part the reason why it holds at the start.  The geometry is
in lemmas about aligned blocks: two of them are nested or apart, a block is the union
of its halves, and replacing a block by its halves or the reverse keeps a tiling.
`get_buddy` looks at two flag bits and an order; `GetBuddyFree` and `FreeBuddyFound` show
that it answers exactly when the buddy is a free block of that order.  From the
invariant follow `BuddyTiles`, `BuddyFlags`, `BuddyFullyMerged` (of the smallest
run of free pages that lies in no free block, both halves would be free buddies) and the
refinement `BuddyKeepsPromise`: the turn that hands a block out is `Alloc`, the start
of `dealloc_pages` is `Free`, and everything else stutters.

Sizes and alignments are facts about every order, so they need induction.  The
library's induction theorems take an operator and cannot be used; `LeastNumber` (from
the well-foundedness of `<`, whose theorem is about sets) gives induction for facts
that are written as a set of numbers, and that is enough for `Size`.

**High memory** (`MemoryProofs`).  `HighmemIsBuddy`: every step of `HighSpec` is one of
`Buddy` or a stutter, so `Tiling`, `FlagsAgree` and `FullyMerged` hold for the addresses too.
`HighInv` adds that every block handed out is being mapped by exactly one task, with no
more entries written than it has addresses.  Since blocks are apart, a write changes
no entry of another block: `MappingsAgree`.

**kmalloc** (`MemoryProofs`).  `KmallocInv` consists of `PagesInv` (a page is on the list of its
own class only, its free list and its pieces in use share no place, both lie where
`init_page` made places, and each place in use is a piece somebody has) and `PieceInv`
(each piece is such a place, of a class that is large enough or for a size that
was rounded down).  Both are needed for `kfree`, which finds page and class from the
address alone.  `IndexFits` says what the loop of `kmalloc_index` finds, from the least class
larger than the size; `RoomsApart` that places are a header and an object apart
and end inside the page.  `PiecesAreDisjoint` follows from the two.

**Program memory** (`MemoryProofs`).  `UserInv`:

- `Roles`: every page is free or has one role (argument page, task, directory, page
  table, entry of a page table), and a page that is no table has no entries in it;
- `Distinct`: no two fields, and no two entries, name the same page;
- `Progress`: which pages a program has, by the place in exec it has reached (`Has`), and
  which addresses are mapped (`Holds`): those below `n`, and after that the pages
  of the arguments and the stack.

`Holds` is what makes the error paths right.  `load_page` gives its table back when the
second allocation fails, and may only do so if it has just made it; a page mapped twice
would lose the first one.  So the proof has to know that each address exec loads is
not mapped yet, which for the arguments rests on the length of programs.  Pages
are counted in `PagesAccounted` with the set of owners of a page: `OneOwnerOf` and `NoOwnerOf`
show that it has one element or none from the roles.

**Timer** (`KernelProofs`).  `WheelInv` says that a linked handler is on the list of its due time
modulo the size of the wheel and not overdue.  Then the list a tick looks at
contains everything that is due at that tick; what is due is put back at least
one tick later, and what is not due is due strictly later.  With the arithmetic
lemma `OnePeriod` this also gives `NoDrift`.

`TimerCallTimes`: a call either puts the handler back with one call less, or takes it
off the wheel after the last one, so that calls made and calls left always add up
to those asked for.

**Lists**.  `ListPtrProofs` proves `ListRings`: no operation breaks a ring, for any number
of heads and entries.  That `next` and `prev` are inverse is not inductive alone:
`list_splice` and `list_cut_position` on the ring of two heads would leave a ring
without one.  `Rings` therefore adds that the valid nodes can be divided among the
heads: there is an assignment of owners under which every ring has one owner and a
head owns its ring.

**Files** (`VfsProofs`).  `TableInv` is about the tables.  `WalkInv`: a walk has a dentry to
go on from and the one slot it has locked.  `OpenInv`: the file a call works with is
behind a descriptor of its task until the call ends.  `TaskInv`: a task that is not
running has no descriptors, and a program that is loaded has a creator who waits for it
alone.  `FileInv`: the count of a file covers its descriptors, which are counted over all
tasks at once.  `ReadyInv`: a file
of a device that its task is still opening is known by how far `chrdev_open` has got.
`DeviceInUse` for the character device counts the files that `chrdev_open` has counted.
Without `FileInv` one close could
free a file that another descriptor names, and without `OpenInv` the failure path of
exec could close a file that is not there.  Each step of the file layer is then a step
of `FdTable` or a stutter (`FdStep`): `FilesKeepPromise`.

`NoEscape` is `Jail`.  A step of `..` stops at the root; `sys_chdir` tests by going up;
`chroot` moves both.  The function `UpChain` is recursive: `UpChainStep` shows that its
equation holds by giving a function that satisfies it, the dentries in every set
that contains the start and is closed under `Up`.

**References** (`VfsProofs`).  `RefInv` says that the counts of the dentries are
`Balanced`: the count of each is what boot holds, plus the references of tasks (`Ext`:
`pwd`, `root`, the place of a walk and the directory it searches), plus one for each child in
memory.  It is kept one primitive at a time.  `dref` and `dget` add a reference.  `dput`
drops one, and the last one becomes a reference to the parent, which is dropped
in turn; so `PutKeepsAll` is an induction along the parents, for which the tree must
have no cycle.  In a balanced state something that is referred to is in memory, so no
step can drop what is not there.  The sums over tasks change only for the task
that moves (`ExtChange`).  `DentriesCounted` follows.

For the inodes an equation would not hold.  `InodeOk` says of each inode that it is not
in memory, without dentries and open files, or that its count exceeds those by at least
one, less the allocations that failed.  The surplus is the reference `minix_lookup`
forgets after the first lookup; a failed allocation can use it up, when the sleeper of
`iget` drops a reference it was not given.  With one failure the counts still cover
the users (`NothingFreedInUse`); with two they do not, as `inode_race` shows.  The
invariant was found in this form by the proof: without the bound on failures the step
`iget_return` does not keep it.

Only model-checked:

- `ZonesCover` and `LibraryExact`: what the recursive functions of `Zones`, `Strings`,
  `Vsprintf`, `Div64` and `Calendar` compute needs induction over data, with an operator
  as the induction hypothesis.
- The refinement of `ListSpec` (`ImplementsLists`): the abstract lists are defined by
  following pointers, as often as there are nodes.
- All liveness properties: fairness and `ENABLED` are out of the prover's reach.

## 6. Not modelled, and deviations

- Data the properties do not tell apart: pids (a task is its page), argument
  strings, register values, console output.
- Compiler-level behaviour other than the stale stack frame in exec, and the TLB
  (`kunmap` does not flush it, but only tests under `DEBUG` call it).
- `BUG_ON` and `panic` paths that depend on hardware errors (a disk error halts
  the machine).  Memory exhaustion is modelled where it leaves something behind:
  in `Kmalloc`, `UserPages` and `Vfs`.
- Late interrupts of the disk are modelled, but a block is named by the task that asked for
  it: one that sets `uptodate` or clears `dirty` of a block that was freed and used again
  after the task had returned is not represented.
- The free events of the keyboard are those that are not queued, so a leaked event or
  one used twice has no state of its own.
- Which task does a step of `FdTable`, and which operation of `list.h` does a step of
  `ListSpec`: the refinements say that tables and lists change as the abstract ones may.
- Reuse of a freed `task_struct` for anything but a task while `sys_kill` still
  points to it.
- Timer functions that add or delete timers: the kernel has none.  One that deleted
  the next timer of its list would break the loop of `do_timer`.
- Interrupt lines: `request_irq` fills a table at boot; `free_irq` and `disable_irq` have no
  caller.  The proc device, the console, the notifier chain and the user programs
  neither share state with concurrent code nor promise anything to it.  Entry
  points in assembly appear through their effect on interrupts and signals.
- Hash lists (`hlist`), `blkdev_write`, `minix_file_readdir`, the copy of super block and
  inode, the partition table, `vsscanf` (no caller) and the `%n` conversion.

What the code does that the models follow or the properties leave out, without a
statement in the repository that says otherwise:

- `include/asm/time.h:15` subtracts 1 from the month before its two decimal digits are
  converted: October becomes 15.  `ClockRightOutsideOctober` excludes it.
- `kernel/mm/kmalloc.c:64` rounds sizes such as 48, 80 and 96 down to a class that is too
  small; `RoundedDown` excludes them.  No caller in the kernel asks for them.
- `kernel/mm/init.c:218` points the directory entries of `kmap` at consecutive pages also
  behind the last page table when there is less memory than the normal zone can
  hold; `ZonesCover` states it for machines with more.  `kernel/mm/init.c:370` tests the
  size of the last low zone, not of the one it cuts.
- `kernel/timer.c:53` does not count the calls of a timer with `expires == 0`.
- `fs/open.c:257`: `dup2` does not drop the reference of the file it replaces.
  `minix_lookup` keeps the reference `iget` took, and `fs/inode.c:98` does not take one for a
  task that found the inode already read in.  `CountsCover` shows that the counts
  nevertheless do not get too low while at most one allocation has failed; what happens
  then is the run `inode_race`.
- `fs/namei.c`: a name matches every cached entry that begins with it.
- `fs/minix/block.c:78`, `95` and `107`: an index block that cannot be read gives block 0.
  A read returns zeros as the data of that block, and no error.
- `fs/minix/block.c:61` stops the kernel for a block behind the largest one, and
  `fs/minix/read.c:16` asks for the block before it looks at the size: a read at the end of a
  file of the largest size does it.
- `fs/minix/block.c:19` keeps the buffer when `kmalloc` fails.
- `fs/minix/inode.c:104` goes on after a block that cannot be read without a block to look at;
  the directories of `Minix` have none such.
- `fs/minix/inode.c:91` tests the entry behind a block before moving on to the next block;
  a search that leaves the block this way is `astray`.
- `fs/minix/read.c` stops behind a block that is a hole.  `fs/block_dev.c:186` reads a whole
  block's length from an offset inside the block, past its page; `DeviceRead` says
  nothing of those bytes.
- `drivers/hd.c:126` sleeps for the interrupt of a write without waiting for `DRQ_STAT` or
  sending the first sector, so a write is not started.  `RequestsServed` excepts it.
- `lib/div64.c:77`: `div64_u64` shifts both numbers until the divisor fits a word.  The quotient can
  be one too large; `DivisionExact` allows that.
- `fs/exec.c:179` writes one byte behind `cmd`, and `fs/exec.c:70` starts an empty program
  file without testing its magic number.
- `include/asm/irq.h:62` (`arch_disable_irq`) computes its mask with `&` where the
  complement is needed; it has no caller.
- `drivers/keyboard.c:148` toggles Shift on every shift code, the repeated ones of a key
  held down included.

## 7. Plan

Done: all modules of section 2 and the proofs of section 5.  What is left, in this
order:

1. The refinement of `ListSpec`.
2. `blkdev_write` and `minix_file_readdir` in `Minix`; the shift state of the keyboard.
