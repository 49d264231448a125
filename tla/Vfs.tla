-------------------------------- MODULE Vfs --------------------------------
(***************************************************************************)
(* The file layer: the inode and dentry caches (fs/inode.c, fs/dentry.c),  *)
(* the walk along a path (fs/namei.c, minix_lookup), descriptors           *)
(* (fs/open.c), character devices (fs/char_dev.c) and what a task inherits *)
(* and gives back (kernel_thread, sys_exec, sys_exit, kthread_release).    *)
(*                                                                         *)
(* The disk holds a fixed tree.  A dentry is named by its place in it, an  *)
(* inode by its number: both are in memory while their count is not 0.     *)
(* The walk has interrupts off within a step, but sleeps while it reads a  *)
(* directory or an inode; then, and between two steps, other tasks run.    *)
(* iput never sleeps (minix_write_inode does not), so that the wait for    *)
(* iput_lock in iget always finds it 0.                                    *)
(***************************************************************************)
EXTENDS Integers, Sequences, FiniteSets, FiniteSetsExt

CONSTANTS
  Task, init,           \* task structs; the first task
  NrOpen,               \* NR_OPEN
  File,                 \* memory for open files
  Dentry, droot, sroot, \* places in the tree; droot, and the root of the
                        \* file system that is mounted on it
  parent,               \* dentry->parent: NULL for sroot
  Inode, inode,         \* inode numbers; the inode of a dentry
  Dir, Dev,             \* the inodes that are directories and device nodes
  Name, name,           \* names of entries; the name of a dentry
  Begins,               \* pairs <<n, m>>: n is the beginning of m
  Calls,                \* Calls[t]: the calls t makes: [op, path, slash]
  NULL,
  MaxRef, MaxDup,       \* bounds: the sum of the counts of all inodes, the
  MaxFail               \* count of a file, and failing allocations

Fd == 0 .. NrOpen - 1
DotDot == ".."

\* The tree: droot is its own parent, every other dentry but sroot lies in a
\* directory, and a directory has one entry for a file.
ASSUME TreeAssumption ==
  /\ init \in Task /\ NULL \notin Dentry \cup Inode \cup File
  /\ Dentry \cap Inode = {}
  /\ droot \in Dentry /\ sroot \in Dentry \ {droot}
  /\ parent \in [Dentry -> Dentry \cup {NULL}]
  /\ parent[droot] = droot /\ parent[sroot] = NULL
  /\ inode \in [Dentry -> Inode]
  /\ inode[droot] \in Dir /\ inode[sroot] \in Dir /\ inode[droot] # inode[sroot]
  /\ \A d \in Dentry \ {droot, sroot} :
       /\ parent[d] \in Dentry \ {d, droot} /\ inode[parent[d]] \in Dir
       /\ \A e \in Dentry \ {d} :
            parent[e] = parent[d] => name[e] # name[d] /\ inode[e] # inode[d]
  /\ \A S \in SUBSET (Dentry \ {droot}) : S # {} => \E d \in S : parent[d] \notin S
Walks == {"open", "chdir", "chroot", "exec"}
ASSUME CallsAssumption ==
  \A t \in Task : \A r \in Calls[t] :
                   /\ r.op \in Walks \cup {"close", "rw", "dup", "dup2", "exit"}
                   /\ r.path \in Seq(Name \cup {DotDot}) /\ r.slash \in BOOLEAN
ASSUME BoundAssumption == NrOpen \in Nat /\ MaxRef \in Nat /\ MaxDup \in Nat
                          /\ MaxFail \in Nat
ASSUME FiniteAssumption ==
  /\ IsFiniteSet(Task) /\ IsFiniteSet(Dentry) /\ IsFiniteSet(Inode) /\ IsFiniteSet(File)
  /\ "locked" \notin File \cup {NULL}

VARIABLES
  count,   \* ref_count of a dentry or an inode; 0: not in memory
  pwd, root,
  fdt,     \* fdt[t][n]: a file, NULL, or "locked" by get_unused_fd
  file,    \* [ref, inode, opened] of a file; ref 0: freed; opened, of a
           \* device: whether its open has counted the file and returned
  chrdev,  \* [ref, fops] of the one character device
  state,   \* "none", "run" or "dead" (exited, not yet released)
  call,    \* the system call a task is in, with its local variables
  fails    \* allocations that failed so far

vars == <<count, pwd, root, fdt, file, chrdev, state, call, fails>>

NoFile == [ref |-> 0, inode |-> NULL, opened |-> "no"]
Pc == {"user", "walk", "block", "inode", "chropen", "exec", "execwait", "load",
       "execclose", "io", "exit"}
User == [pc |-> "user", op |-> NULL, path |-> <<>>, iter |-> NULL, top |-> NULL,
         base |-> NULL, find |-> NULL, fd |-> -1, file |-> NULL]

TypeOK ==
  /\ count \in [Dentry \cup Inode -> Int]
  /\ pwd \in [Task -> Dentry] /\ root \in [Task -> Dentry]
  /\ fdt \in [Task -> [Fd -> File \cup {NULL, "locked"}]]
  /\ file \in [File -> [ref : Nat, inode : Inode \cup {NULL},
                       opened : {"no", "counted", "yes"}]]
  /\ chrdev \in [ref : Nat, fops : BOOLEAN]
  /\ state \in [Task -> {"none", "run", "dead"}]
  /\ \A t \in Task : call[t].pc \in Pc
  /\ fails \in 0..MaxFail

\* mount_root: the counts after init_droot and the mount (droot: those of the
\* boot, the super block's and the idle task's two), and the first task's.
Init ==
  /\ count = [x \in Dentry \cup Inode |->
                CASE x = droot -> 6 + 2
                  [] x = inode[droot] -> 2
                  [] x = sroot -> 1
                  [] x = inode[sroot] -> 2
                  [] OTHER -> 0]
  /\ pwd = [t \in Task |-> droot] /\ root = [t \in Task |-> droot]
  /\ fdt = [t \in Task |-> [n \in Fd |-> NULL]]
  /\ file = [f \in File |-> NoFile]
  /\ chrdev = [ref |-> 0, fops |-> TRUE]
  /\ state = [t \in Task |-> IF t = init THEN "run" ELSE "none"]
  /\ call = [t \in Task |-> User]
  /\ fails = 0
-----------------------------------------------------------------------------
(* Counts.  Each operator maps the counts before to the counts after.      *)

\* In memory: the search in the hash lists finds it.
icache(c, i) == c[i] > 0
dcache(c, d) == c[d] > 0

iref(c, i) == [c EXCEPT ![i] = @ + 1]
iput(c, i) == [c EXCEPT ![i] = @ - 1]
dref(c, d) == [c EXCEPT ![d] = @ + 1]

\* d and the dentries above it, by dentry->parent.
Above[d \in Dentry] ==
  IF d = droot \/ parent[d] = NULL THEN {d} ELSE {d} \cup Above[parent[d]]

\* The dentries that a dput of d frees: d, and each parent whose only
\* reference was the freed child's.
Freed(c, d) == {a \in Above[d] : \A b \in Above[d] : a \in Above[b] => c[b] = 1}

\* Mutant: the reference of a freed dentry to its parent is kept.
dput_parent(c, d) ==
  [x \in DOMAIN c |->
     IF x = d THEN c[x] - 1
     ELSE IF x = inode[d] /\ c[d] = 1 THEN c[x] - 1 ELSE c[x]]

\* dput, with the iput of every dentry it frees.
dput(c, d) ==
  LET freed == Freed(c, d)
  IN [x \in DOMAIN c |->
        IF x \in Dentry
        THEN c[x] - (IF x = d \/ \E b \in freed : parent[b] = x THEN 1 ELSE 0)
        ELSE c[x] - Cardinality({b \in freed : inode[b] = x})]

\* dget of a dentry that is in memory, and of a new one.
dget(c, d) ==
  IF dcache(c, d) THEN dref(c, d)
  ELSE [dref(iref(c, inode[d]), parent[d]) EXCEPT ![d] = 1]
-----------------------------------------------------------------------------
(* lookup *)

\* get_unused_fd
Unused(t, n) == fdt[t][n] = NULL /\ \A m \in Fd : m < n => fdt[t][m] # NULL
NeedsFd(op) == op \in {"open", "exec"}

\* sys_open, sys_chdir, sys_chroot and sys_exec up to the walk: the first
\* dentry of the path, and root, which ".." does not leave.
lookup(t, op, path, fromslash) ==
  LET top  == IF op = "chroot" THEN droot ELSE root[t]
      iter == IF op = "chroot" THEN droot ELSE IF fromslash THEN root[t] ELSE pwd[t]
  IN /\ state[t] = "run" /\ call[t].pc = "user"
     /\ \/ path = <<DotDot>>
        \/ MapThenSumSet(LAMBDA i : count[i], Inode) < MaxRef
     /\ \E n \in Fd \cup {-1} :
          /\ IF NeedsFd(op) THEN n >= 0 /\ Unused(t, n) ELSE n = -1
          /\ fdt' = IF NeedsFd(op) THEN [fdt EXCEPT ![t][n] = "locked"] ELSE fdt
          /\ call' = [call EXCEPT ![t] = [User EXCEPT !.pc = "walk", !.op = op,
                        !.path = path, !.iter = iter, !.top = top, !.fd = n]]
     /\ count' = dref(count, iter)
     /\ UNCHANGED <<pwd, root, file, chrdev, state, fails>>

\* What the task goes on with when a component was found, or was not.
Found(t, d) == [call EXCEPT ![t] = [call[t] EXCEPT !.pc = "walk", !.iter = d,
                   !.base = NULL, !.find = NULL, !.path = Tail(call[t].path)]]
NotFound(t) == /\ call' = [call EXCEPT ![t] = User]
               /\ fdt' = IF NeedsFd(call[t].op)
                         THEN [fdt EXCEPT ![t][call[t].fd] = NULL] ELSE fdt

Walking(t) == call[t].pc = "walk" /\ call[t].path # <<>>

\* "..": the parent, or the dentry that the file system is mounted on.
Up(d) == IF parent[d] = NULL THEN droot ELSE parent[d]
walk_up(t) ==
  LET iter == call[t].iter
  IN /\ Walking(t) /\ Head(call[t].path) = DotDot
     /\ IF iter = call[t].top
        THEN call' = Found(t, iter) /\ UNCHANGED count
        ELSE /\ call' = Found(t, Up(iter))
             /\ count' = dput(dref(count, Up(iter)), iter)
     /\ UNCHANGED <<pwd, root, fdt, file, chrdev, state, fails>>

\* A name in something that is no directory.
walk_file(t) ==
  /\ Walking(t) /\ Head(call[t].path) # DotDot
  /\ inode[call[t].iter] \notin Dir
  /\ NotFound(t)
  /\ count' = dput(count, call[t].iter)
  /\ UNCHANGED <<pwd, root, file, chrdev, state, fails>>

\* The root of what is mounted on d.
Mounted(d) == IF d = droot THEN sroot ELSE d

\* find_entry, in memory: strncmp compares as many characters as the name
\* has, so that it matches every entry that begins with the name.
InMemory(n, d, e) == /\ e # sroot /\ e # droot /\ parent[e] = d
                     /\ dcache(count, e) /\ <<n, name[e]>> \in Begins
find_entry(t) ==
  LET base == Mounted(call[t].iter)
      n    == Head(call[t].path)
  IN /\ Walking(t) /\ n # DotDot /\ inode[call[t].iter] \in Dir
     /\ \/ \E e \in Dentry :
             /\ InMemory(n, base, e)
             /\ count' = dput(dput(dref(dref(count, base), e), base), call[t].iter)
             /\ call' = Found(t, e)
        \/ /\ ~ \E e \in Dentry : InMemory(n, base, e)
           /\ count' = dref(count, base)
           /\ call' = [call EXCEPT ![t].pc = "block", ![t].base = base]
     /\ UNCHANGED <<pwd, root, fdt, file, chrdev, state, fails>>

\* The end of find_entry and of the step of the walk, with what the lookup on
\* disk found: the references to the directory are dropped.
EndOfStep(t, c) == dput(dput(c, call[t].base), call[t].iter)

OnDisk(d, n) == {e \in Dentry \ {droot, sroot} : parent[e] = d /\ name[e] = n}

\* minix_lookup after the directory was read: no such entry, or a disk error.
lookup_none(t) ==
  /\ call[t].pc = "block"
  /\ NotFound(t)
  /\ count' = EndOfStep(t, count)
  /\ UNCHANGED <<pwd, root, file, chrdev, state, fails>>

\* minix_lookup and iget of an inode that is in memory.  The reference that
\* iget took is not given back when dget has taken its own.
lookup_hit(t) ==
  /\ call[t].pc = "block"
  /\ \E e \in OnDisk(call[t].base, Head(call[t].path)) :
       /\ icache(count, inode[e])
       /\ \/ /\ count' = EndOfStep(t, dget(iref(count, inode[e]), e))
             /\ call' = Found(t, e)
             /\ UNCHANGED <<fails, fdt>>
          \/ /\ fails < MaxFail /\ ~ dcache(count, e)
             /\ fails' = fails + 1
             /\ count' = EndOfStep(t, iput(iref(count, inode[e]), inode[e]))
             /\ NotFound(t)
  /\ UNCHANGED <<pwd, root, file, chrdev, state>>

\* minix_lookup and iget of an inode that must be read first; its memory may
\* not be available.
lookup_miss(t) ==
  /\ call[t].pc = "block"
  /\ \E e \in OnDisk(call[t].base, Head(call[t].path)) :
       /\ ~ icache(count, inode[e])
       /\ \/ /\ call' = [call EXCEPT ![t].pc = "inode", ![t].find = e]
             /\ UNCHANGED <<count, fails, fdt>>
          \/ /\ fails < MaxFail /\ fails' = fails + 1
             /\ count' = EndOfStep(t, count)
             /\ NotFound(t)
  /\ UNCHANGED <<pwd, root, file, chrdev, state>>

\* Mutant: iget does not look into the cache again after it slept.
iget_blind(c, i) == [c EXCEPT ![i] = 1]

\* iget after read_inode: another task may have cached the inode meanwhile;
\* then that one is returned, without a reference for the caller.
iget(c, i) == IF icache(c, i) THEN c ELSE [c EXCEPT ![i] = 1]

iget_return(t) ==
  LET e == call[t].find
      c == iget(count, inode[e])
  IN /\ call[t].pc = "inode"
     /\ \/ count' = EndOfStep(t, dget(c, e)) /\ call' = Found(t, e)
           /\ UNCHANGED <<fails, fdt>>
        \/ /\ fails < MaxFail /\ fails' = fails + 1
           /\ ~ dcache(c, e)
           /\ count' = EndOfStep(t, iput(c, inode[e]))
           /\ NotFound(t)
     /\ UNCHANGED <<pwd, root, file, chrdev, state>>

\* read_inode failed.
iget_error(t) ==
  /\ call[t].pc = "inode"
  /\ count' = EndOfStep(t, count)
  /\ NotFound(t)
  /\ UNCHANGED <<pwd, root, file, chrdev, state, fails>>
-----------------------------------------------------------------------------
(* The end of the walk.  lookup follows the mount and returns a dentry with *)
(* a reference; the caller runs on without sleeping.                        *)

AtEnd(t, op) == call[t].pc = "walk" /\ call[t].path = <<>> /\ call[t].op = op

\* What lookup returns, and the counts when it does.
Result(t) == Mounted(call[t].iter)
AtFinish(t) == IF call[t].iter = droot THEN dput(dref(count, sroot), droot)
               ELSE count

\* The loop of sys_chdir: going up from d one meets the root r.
UpChain[d \in Dentry] == IF d = droot THEN {d} ELSE {d} \cup UpChain[Up(d)]
BelowRoot(d, r) == r \in UpChain[d]

sys_chdir(t) ==
  LET find == Result(t)
      ok   == BelowRoot(find, root[t]) /\ inode[find] \in Dir
  IN /\ AtEnd(t, "chdir")
     /\ count' = dput(AtFinish(t), IF ok THEN pwd[t] ELSE find)
     /\ pwd' = IF ok THEN [pwd EXCEPT ![t] = find] ELSE pwd
     /\ call' = [call EXCEPT ![t] = User]
     /\ UNCHANGED <<root, fdt, file, chrdev, state, fails>>

\* Mutant: the old working directory is kept.
sys_chroot_pwd(t) ==
  LET find == Result(t)
      c    == AtFinish(t)
      ok   == inode[find] \in Dir
  IN /\ AtEnd(t, "chroot")
     /\ count' = IF ok THEN dput(c, root[t]) ELSE dput(c, find)
     /\ root' = IF ok THEN [root EXCEPT ![t] = find] ELSE root
     /\ call' = [call EXCEPT ![t] = User]
     /\ UNCHANGED <<pwd, fdt, file, chrdev, state, fails>>

sys_chroot(t) ==
  LET find == Result(t)
      c    == AtFinish(t)
      ok   == inode[find] \in Dir
  IN /\ AtEnd(t, "chroot")
     /\ count' = IF ok THEN dput(dref(dput(c, root[t]), find), pwd[t])
                 ELSE dput(c, find)
     /\ root' = IF ok THEN [root EXCEPT ![t] = find] ELSE root
     /\ pwd' = IF ok THEN [pwd EXCEPT ![t] = find] ELSE pwd
     /\ call' = [call EXCEPT ![t] = User]
     /\ UNCHANGED <<fdt, file, chrdev, state, fails>>

\* Where a task goes on once sys_open has returned: sys_exec has more to do.
AfterOpen(t) == IF call[t].op = "exec" THEN [call[t] EXCEPT !.pc = "exec", !.file = NULL]
                ELSE User

\* What sys_open makes of the memory of a file.
NewFile(i) == [ref |-> 1, inode |-> i, opened |-> IF i \in Dev THEN "no" ELSE "yes"]

\* sys_open after the walk: open_namei turns the dentry into a reference to
\* its inode, and a file is allocated if there is memory.
sys_open(t) ==
  LET i == inode[Result(t)]
      c == dput(iref(AtFinish(t), i), Result(t))
  IN /\ AtEnd(t, "open") \/ AtEnd(t, "exec")
     /\ \/ /\ \A f \in File : file[f].ref > 0
           /\ count' = iput(c, i)
           /\ NotFound(t)
           /\ UNCHANGED file
        \/ LET f == CHOOSE g \in File : file[g].ref = 0
           IN /\ \E g \in File : file[g].ref = 0
              /\ count' = c
              /\ fdt' = [fdt EXCEPT ![t][call[t].fd] = f]
              /\ file' = [file EXCEPT ![f] = NewFile(i)]
              /\ call' = IF i \in Dev
                         THEN [call EXCEPT ![t].pc = "chropen", ![t].file = f]
                         ELSE [call EXCEPT ![t] = AfterOpen(t)]
     /\ UNCHANGED <<pwd, root, chrdev, state, fails>>

\* chrdev_open counts the file: until then the driver may still go.
chrdev_count(t) ==
  /\ call[t].pc = "chropen" /\ file[call[t].file].opened = "no"
  /\ chrdev' = [chrdev EXCEPT !.ref = @ + 1]
  /\ file' = [file EXCEPT ![call[t].file].opened = "counted"]
  /\ UNCHANGED <<count, pwd, root, fdt, state, call, fails>>

\* chrdev_open goes on: ENODEV, or the driver's open, which may refuse;
\* sys_open undoes everything when it fails.
chrdev_open(t) ==
  LET f == call[t].file
  IN /\ call[t].pc = "chropen" /\ file[f].opened = "counted"
     /\ \/ /\ chrdev.fops
           /\ file' = [file EXCEPT ![f].opened = "yes"]
           /\ call' = [call EXCEPT ![t] = AfterOpen(t)]
           /\ UNCHANGED <<count, fdt, chrdev>>
        \/ /\ chrdev' = [chrdev EXCEPT !.ref = @ - 1]
           /\ file' = [file EXCEPT ![f] = NoFile]
           /\ count' = iput(count, file[f].inode)
           /\ NotFound(t)
     /\ UNCHANGED <<pwd, root, state, fails>>

\* register_chrdev and unregister_chrdev, by the driver.
register_chrdev ==
  /\ ~ chrdev.fops
  /\ chrdev' = [chrdev EXCEPT !.fops = TRUE]
  /\ UNCHANGED <<count, pwd, root, fdt, file, state, call, fails>>
unregister_chrdev ==
  /\ chrdev.ref = 0 /\ chrdev.fops
  /\ chrdev' = [chrdev EXCEPT !.fops = FALSE]
  /\ UNCHANGED <<count, pwd, root, fdt, file, state, call, fails>>
-----------------------------------------------------------------------------
(* Descriptors *)

InUser(t, op) == /\ state[t] = "run" /\ call[t].pc = "user"
                 /\ \E r \in Calls[t] : r.op = op
IsOpen(t, n) == fdt[t][n] \in File

\* The descriptor is the last one on its file.
Closing(f) == file[f].ref = 1

\* The close operation of a device node: the device has one file less.
chrdev_close(i) == IF i \in Dev THEN [chrdev EXCEPT !.ref = @ - 1] ELSE chrdev

\* sys_close: the last descriptor closes the file, drops the inode and frees
\* the memory.
Close(t, n) ==
  LET f == fdt[t][n]
      i == file[f].inode
  IN /\ fdt' = [fdt EXCEPT ![t][n] = NULL]
     /\ file' = [file EXCEPT ![f] = IF Closing(f) THEN NoFile
                                    ELSE [file[f] EXCEPT !.ref = @ - 1]]
     /\ count' = IF Closing(f) THEN iput(count, i) ELSE count
     /\ chrdev' = IF Closing(f) THEN chrdev_close(i) ELSE chrdev

sys_close(t, n) ==
  /\ InUser(t, "close") /\ IsOpen(t, n)
  /\ Close(t, n)
  /\ UNCHANGED <<pwd, root, state, call, fails>>

\* sys_read, sys_write, sys_readdir, sys_ioctl, sys_lseek: the call keeps the
\* file it found while it sleeps in the file system or in the driver.
sys_rw(t, n) ==
  /\ InUser(t, "rw") /\ IsOpen(t, n)
  /\ call' = [call EXCEPT ![t] = [User EXCEPT !.pc = "io", !.file = fdt[t][n]]]
  /\ UNCHANGED <<count, pwd, root, fdt, file, chrdev, state, fails>>
rw_return(t) ==
  /\ call[t].pc = "io"
  /\ call' = [call EXCEPT ![t] = User]
  /\ UNCHANGED <<count, pwd, root, fdt, file, chrdev, state, fails>>

sys_dup(t, old, new) ==
  /\ InUser(t, "dup") /\ IsOpen(t, old) /\ Unused(t, new)
  /\ fdt' = [fdt EXCEPT ![t][new] = fdt[t][old]]
  /\ file' = [file EXCEPT ![fdt[t][old]].ref = @ + 1]
  /\ UNCHANGED <<count, pwd, root, chrdev, state, call, fails>>

\* sys_dup2 does not drop the reference of the file it replaces.
sys_dup2(t, old, new) ==
  /\ InUser(t, "dup2") /\ IsOpen(t, old) /\ IsOpen(t, new) /\ old # new
  /\ file[fdt[t][old]].ref < MaxDup
  /\ fdt' = [fdt EXCEPT ![t][new] = fdt[t][old]]
  /\ file' = [file EXCEPT ![fdt[t][old]].ref = @ + 1]
  /\ UNCHANGED <<count, pwd, root, chrdev, state, call, fails>>
-----------------------------------------------------------------------------
(* Tasks *)

\* How many descriptors of t are on file f.
Slots(t, f) == Cardinality({n \in Fd : fdt[t][n] = f})

\* Mutant: the new task takes over the files without counting them.
Inherited_none(t, f) == 0
Inherited(t, f) == Slots(t, f)

\* sys_exec and kernel_thread: the new task shares the open files and the
\* directories; its creator sleeps until the program is loaded.
sys_exec(t, c) ==
  /\ call[t].pc = "exec" /\ state[c] = "none"
  /\ state' = [state EXCEPT ![c] = "run"]
  /\ pwd' = [pwd EXCEPT ![c] = pwd[t]]
  /\ root' = [root EXCEPT ![c] = root[t]]
  /\ count' = dref(dref(count, pwd[t]), root[t])
  /\ fdt' = [fdt EXCEPT ![c] = fdt[t]]
  /\ file' = [f \in File |-> [file[f] EXCEPT !.ref = @ + Inherited(t, f)]]
  /\ call' = [call EXCEPT ![t].pc = "execwait",
                          ![c] = [User EXCEPT !.pc = "load", !.fd = call[t].fd,
                                               !.find = t]]
  /\ UNCHANGED <<chrdev, fails>>

\* exec_wrapper: the program is read, or that fails; the file is closed and
\* the creator woken.
exec_wrapper(c) ==
  /\ call[c].pc = "load"
  /\ Close(c, call[c].fd)
  /\ \E next \in {"user", "exit"} :
       call' = [call EXCEPT ![call[c].find].pc = "execclose",
                            ![c] = [User EXCEPT !.pc = next]]
  /\ UNCHANGED <<pwd, root, state, fails>>

\* release_file: also when the arguments are too long or there is no memory
\* for the new task.
exec_close(t) ==
  /\ call[t].pc \in {"exec", "execclose"}
  /\ Close(t, call[t].fd)
  /\ call' = [call EXCEPT ![t] = User]
  /\ UNCHANGED <<pwd, root, state, fails>>

\* sys_exit closes one descriptor after the other.
sys_exit(t) ==
  /\ InUser(t, "exit") /\ t # init
  /\ call' = [call EXCEPT ![t] = [User EXCEPT !.pc = "exit"]]
  /\ UNCHANGED <<count, pwd, root, fdt, file, chrdev, state, fails>>
exit_close(t, n) ==
  /\ call[t].pc = "exit" /\ IsOpen(t, n) /\ \A m \in Fd : m < n => ~IsOpen(t, m)
  /\ Close(t, n)
  /\ UNCHANGED <<pwd, root, state, call, fails>>
exit_done(t) ==
  /\ call[t].pc = "exit" /\ \A n \in Fd : fdt[t][n] = NULL
  /\ state' = [state EXCEPT ![t] = "dead"]
  /\ call' = [call EXCEPT ![t] = User]
  /\ UNCHANGED <<count, pwd, root, fdt, file, chrdev, fails>>

\* kthread_release gives the directories back.
kthread_release(t) ==
  /\ state[t] = "dead"
  /\ state' = [state EXCEPT ![t] = "none"]
  /\ count' = dput(dput(count, root[t]), pwd[t])
  /\ pwd' = [pwd EXCEPT ![t] = droot] /\ root' = [root EXCEPT ![t] = droot]
  /\ UNCHANGED <<fdt, file, chrdev, call, fails>>

Step(t) ==
  \/ walk_up(t) \/ walk_file(t) \/ find_entry(t)
  \/ lookup_none(t) \/ lookup_hit(t) \/ lookup_miss(t)
  \/ iget_return(t) \/ iget_error(t)
  \/ sys_chdir(t) \/ sys_chroot(t) \/ sys_open(t)
  \/ chrdev_count(t) \/ chrdev_open(t)
  \/ rw_return(t) \/ exec_wrapper(t) \/ exec_close(t)
  \/ \E c \in Task : sys_exec(t, c)
  \/ \E n \in Fd : exit_close(t, n)
  \/ exit_done(t)
Call(t) ==
  \/ \E r \in Calls[t] : r.op \in Walks /\ lookup(t, r.op, r.path, r.slash)
  \/ \E n \in Fd : sys_close(t, n) \/ sys_rw(t, n)
  \/ \E n, m \in Fd : sys_dup(t, n, m) \/ sys_dup2(t, n, m)
  \/ sys_exit(t)
Next ==
  \/ \E t \in Task : Step(t) \/ Call(t) \/ kthread_release(t)
  \/ register_chrdev \/ unregister_chrdev

Spec == Init /\ [][Next]_vars
-----------------------------------------------------------------------------
Live == {t \in Task : state[t] # "none"}

\* The references to a dentry: from tasks (the idle task's and those of the
\* boot are constant), from its children in memory and from walks.
Boot(d) == IF d = droot THEN 6 ELSE IF d = sroot THEN 1 ELSE 0
DentryRefs(d) ==
  Boot(d)
  + Cardinality({t \in Live : pwd[t] = d}) + Cardinality({t \in Live : root[t] = d})
  + Cardinality({t \in Task : call[t].iter = d /\ call[t].pc \in {"walk", "block", "inode"}})
  + Cardinality({t \in Task : call[t].base = d})
  + Cardinality({e \in Dentry \ {droot} : parent[e] = d /\ count[e] > 0})

\* The count of a dentry is the number of references to it at every moment:
\* none is freed while a task, a walk or a child still points to it, and none
\* stays in memory for ever.
DentryCount == \A d \in Dentry : count[d] = DentryRefs(d)

\* An inode is not freed under a dentry or an open file while no more than one
\* allocation has failed: its count covers them, as each reference that
\* minix_lookup does not return makes up for one that it drops without having it.
InodeCount ==
  fails <= 1 =>
    \A i \in Inode :
      count[i] >= Cardinality({d \in Dentry : inode[d] = i /\ count[d] > 0})
                  + Cardinality({f \in File : file[f].ref > 0 /\ file[f].inode = i})

\* iput drops a reference that there is: BUG_ON(ref_count == 0) stays silent.
NeverBug == \A i \in Inode : count[i] >= 0

\* A file is never freed under a descriptor or under a call that uses it.
FileCount ==
  /\ \A f \in File :
       file[f].ref >= Cardinality({x \in Task \X Fd : fdt[x[1]][x[2]] = f})
  /\ \A t \in Task : call[t].file # NULL => file[call[t].file].ref > 0

\* The driver of a character device stays while a file on it is open, and its
\* count is the number of the files that are open or being opened.
DeviceInUse ==
  /\ chrdev.ref = Cardinality({f \in File : /\ file[f].ref > 0 /\ file[f].inode \in Dev
                                            /\ file[f].opened # "no"})
  /\ \A f \in File : file[f].ref > 0 /\ file[f].opened = "yes" /\ file[f].inode \in Dev
       => chrdev.fops

\* Nothing is freed while it is used: inodes, files and drivers.
CountsCover == InodeCount /\ FileCount /\ DeviceInUse

\* A task never leaves its root: the working directory stays below it, which
\* is also what ends the loop of sys_getcwd.
Jail == \A t \in Live : BelowRoot(pwd[t], root[t])

\* The descriptors do what programs rely on.
Fds == [t \in Task |-> [n \in Fd |->
          IF fdt[t][n] \in File THEN file[fdt[t][n]].inode ELSE NULL]]
Promise == INSTANCE FdTable WITH fd <- Fds
ImplementsFdTable == Promise!Spec
=============================================================================
