----------------------------- MODULE VfsProofs ------------------------------
(***************************************************************************)
(* The file layer, for every number of tasks, descriptors and files and    *)
(* every tree: the file tables keep the promise of FdTable, no task gets   *)
(* above its root, the count of a dentry is the number of references to    *)
(* it, and nothing is freed while it is in use.                            *)
(***************************************************************************)
EXTENDS Vfs, FiniteSetTheorems, TLAPS

(***************************************************************************)
(* Descriptors and files.  TableInv is the inductive invariant; each step  *)
(* keeps it and does to the descriptors what FdStep says.                  *)
(***************************************************************************)

InWalk(t) == call[t].pc \in {"walk", "block", "inode"}

\* A system call with its local variables.
Rec == [pc : Pc, op : Walks \cup {NULL}, path : Seq(Name \cup {DotDot}),
        iter : Dentry \cup {NULL}, top : Dentry \cup {NULL}, base : Dentry \cup {NULL},
        find : Dentry \cup Task \cup {NULL}, fd : Fd \cup {-1}, file : File \cup {NULL}]

FileType == [ref : Nat, inode : Inode \cup {NULL}, opened : {"no", "counted", "yes"}]
DevType == [ref : Nat, fops : BOOLEAN]

TableTypes ==
  /\ pwd \in [Task -> Dentry] /\ root \in [Task -> Dentry]
  /\ fdt \in [Task -> [Fd -> File \cup {NULL, "locked"}]]
  /\ file \in [File -> FileType]
  /\ chrdev \in DevType
  /\ state \in [Task -> {"none", "run", "dead"}]
  /\ call \in [Task -> Rec]

\* A walk has a dentry to go on from, and the slot it has locked.
WalkInv ==
  \A t \in Task :
    /\ InWalk(t) => /\ call[t].iter \in Dentry /\ call[t].top \in Dentry
                    /\ call[t].op \in Walks
                    /\ call[t].pc # "walk" =>
                         call[t].base \in Dentry /\ call[t].path # <<>>
                    /\ call[t].pc = "inode" =>
                         call[t].find \in OnDisk(call[t].base, Head(call[t].path))
    /\ \A n \in Fd : fdt[t][n] = "locked" <=>
                       InWalk(t) /\ NeedsFd(call[t].op) /\ call[t].fd = n
    /\ InWalk(t) /\ NeedsFd(call[t].op) => call[t].fd \in Fd

\* The file a call works with is behind a descriptor of its task until the
\* call ends.
OpenInv ==
  \A t \in Task :
    /\ call[t].pc \in {"chropen", "exec", "execwait", "load", "execclose"} =>
         call[t].fd \in Fd /\ IsOpen(t, call[t].fd)
    /\ call[t].pc = "chropen" =>
         /\ call[t].file = fdt[t][call[t].fd] /\ NeedsFd(call[t].op)
         /\ file[call[t].file].ref = 1 /\ file[call[t].file].inode \in Dev
    /\ call[t].file # NULL =>
         call[t].pc \in {"chropen", "io"} /\ \E n \in Fd : fdt[t][n] = call[t].file

\* Only a task that runs has files or is in a call; a program that is loaded
\* has a creator, who waits for it alone.
TaskInv ==
  /\ \A t \in Task : state[t] # "run" =>
       call[t].pc = "user" /\ \A n \in Fd : fdt[t][n] = NULL
  /\ \A t \in Task : call[t].pc = "load" =>
       /\ call[t].find \in Task /\ call[call[t].find].pc = "execwait"
       /\ \A u \in Task : call[u].pc = "load" /\ call[u].find = call[t].find => u = t

\* The descriptors of a file: its count covers them.
Users(f) == {x \in Task \X Fd : fdt[x[1]][x[2]] = f}
FileInv ==
  \A f \in File : /\ file[f].ref >= Cardinality(Users(f))
                  /\ file[f].ref > 0 => file[f].inode \in Inode

\* A step leaves f in use, with the inode it was opened on.
SameFile(f) == /\ file'[f].ref > 0 /\ file'[f].inode = file[f].inode
               /\ file'[f].opened = file[f].opened

\* A file that its device has not counted is known to the call alone that
\* opens it.
ReadyInv ==
  \A t \in Task, n \in Fd :
    IsOpen(t, n) /\ file[fdt[t][n]].opened = "no" =>
      call[t].pc = "chropen" /\ call[t].file = fdt[t][n]

\* The files that their device has counted.
DevFiles == {f \in File : /\ file[f].ref > 0 /\ file[f].inode \in Dev
                         /\ file[f].opened # "no"}

\* The inductive invariant of the tables.
TableInv == TableTypes /\ WalkInv /\ OpenInv /\ TaskInv /\ FileInv /\ ReadyInv /\ DeviceInUse
-----------------------------------------------------------------------------
\* The values that stand for no dentry, file or descriptor are none.
LEMMA NotLocked == /\ "locked" \notin File /\ "locked" # NULL /\ NULL \notin File /\ NULL \notin Dentry
                   /\ NULL \notin Inode /\ -1 \notin Fd
BY TreeAssumption, FiniteAssumption, BoundAssumption DEF Fd

\* A task in user mode is in no call.
LEMMA UserType ==
  /\ User \in Rec /\ User.pc = "user" /\ User.file = NULL /\ User.op = NULL /\ User.iter = NULL
  /\ User.base = NULL /\ User.find = NULL /\ User.fd = -1 /\ User.path = <<>> /\ User.top = NULL
BY DEF User, Rec, Pc

\* A count in a record.
LEMMA RefChange ==
  ASSUME NEW k \in Nat
  PROVE  /\ \A r \in FileType :
              LET s == [r EXCEPT !.ref = k]
              IN  s \in FileType /\ s.ref = k /\ s.inode = r.inode /\ s.opened = r.opened
         /\ \A r \in DevType :
              LET s == [r EXCEPT !.ref = k]
              IN  s \in DevType /\ s.ref = k /\ s.fops = r.fops
BY DEF FileType, DevType

\* An unused file.
LEMMA NoFileType == NoFile \in FileType /\ NoFile.ref = 0
BY DEF NoFile, FileType

\* Counting.
LEMMA CountBelow ==
  ASSUME NEW S, IsFiniteSet(S), NEW T \in SUBSET S
  PROVE  /\ IsFiniteSet(T) /\ Cardinality(S) \in Nat /\ Cardinality(T) \in Nat
         /\ Cardinality(T) <= Cardinality(S)
BY FS_Subset, FS_CardinalityType

\* A smaller set.
LEMMA CountLess ==
  ASSUME NEW S, IsFiniteSet(S), NEW x \in S, NEW T \in SUBSET (S \ {x})
  PROVE  Cardinality(T) <= Cardinality(S) - 1
<1>1. IsFiniteSet(S \ {x}) /\ Cardinality(S \ {x}) = Cardinality(S) - 1
  BY FS_RemoveElement
<1> QED BY <1>1, CountBelow

\* A set with one element more.
LEMMA CountMore ==
  ASSUME NEW S, IsFiniteSet(S), NEW x, NEW T \in SUBSET (S \cup {x})
  PROVE  Cardinality(T) <= Cardinality(S) + 1
<1>1. Cardinality(S) \in Nat
  BY FS_CardinalityType
<1>2. /\ IsFiniteSet(S \cup {x})
      /\ Cardinality(S \cup {x}) = IF x \in S THEN Cardinality(S) ELSE Cardinality(S) + 1
  BY FS_AddElement
<1>3. Cardinality(S \cup {x}) <= Cardinality(S) + 1
  BY <1>1, <1>2
<1>4. /\ Cardinality(T) \in Nat /\ Cardinality(T) <= Cardinality(S \cup {x})
      /\ Cardinality(S \cup {x}) \in Nat
  BY <1>2, CountBelow
<1> QED BY <1>1, <1>3, <1>4

\* The descriptors of a file can be counted.
LEMMA UsersFinite == \A f : IsFiniteSet(Users(f)) /\ Cardinality(Users(f)) \in Nat
<1>1. IsFiniteSet(Fd)
  BY FS_Interval, BoundAssumption DEF Fd
<1>2. IsFiniteSet(Task \X Fd)
  BY <1>1, FS_Product, FiniteAssumption
<1>3. \A f : Users(f) \in SUBSET (Task \X Fd)
  BY DEF Users
<1> QED BY <1>2, <1>3, CountBelow

\* A file with one reference and a descriptor has no other descriptor.
LEMMA OneUser ==
  ASSUME FileInv, NEW f \in File, file[f].ref = 1, NEW x \in Users(f)
  PROVE  Users(f) = {x}
<1>1. Cardinality(Users(f)) <= 1
  BY DEF FileInv
<1>2. ASSUME NEW y \in Users(f), y # x PROVE FALSE
  <2>1. {x} \in SUBSET (Users(f) \ {y})
    BY <1>2
  <2>2. Cardinality({x}) <= Cardinality(Users(f)) - 1
    BY <2>1, UsersFinite, CountLess
  <2>3. Cardinality({x}) = 1
    BY FS_Singleton
  <2>4. Cardinality(Users(f)) \in Nat
    BY UsersFinite
  <2> QED BY <1>1, <2>2, <2>3, <2>4
<1> QED BY <1>2

\* A file with a descriptor is not free.
LEMMA UsedRef ==
  ASSUME TableTypes, FileInv, NEW f \in File, NEW x \in Users(f)
  PROVE  file[f].ref > 0
<1>1. Cardinality(Users(f)) # 0
  BY UsersFinite, FS_EmptySet
<1>2. file[f].ref \in Nat
  BY DEF TableTypes, FileType
<1> QED BY <1>1, <1>2, UsersFinite DEF FileInv

\* The files of devices can be counted.
LEMMA DevFinite == IsFiniteSet(DevFiles) /\ Cardinality(DevFiles) \in Nat
BY FiniteAssumption, CountBelow DEF DevFiles

-----------------------------------------------------------------------------
\* A step that changes neither descriptors nor files, and of the calls only
\* that of t: it stays inside the walk, or it leaves the walk without a slot,
\* or it is no walk.
LEMMA CallStep ==
  ASSUME TableInv, NEW t \in Task, NEW r \in Rec,
         call' = [call EXCEPT ![t] = r], UNCHANGED <<fdt, file, chrdev, state>>,
         pwd' \in [Task -> Dentry], root' \in [Task -> Dentry],
         state[t] = "run",
         r.pc \in {"walk", "block", "inode"} =>
           /\ r.iter \in Dentry /\ r.top \in Dentry /\ r.op \in Walks
           /\ r.pc # "walk" => r.base \in Dentry /\ r.path # <<>>
           /\ r.pc = "inode" => r.find \in OnDisk(r.base, Head(r.path)),
         r.pc \in {"walk", "block", "inode"} /\ NeedsFd(r.op) <=>
           InWalk(t) /\ NeedsFd(call[t].op),
         r.pc \in {"walk", "block", "inode"} /\ NeedsFd(r.op) => r.fd = call[t].fd,
         r.pc \in {"user", "walk", "block", "inode", "io", "exit"},
         r.file # NULL => r.pc = "io" /\ \E n \in Fd : fdt[t][n] = r.file,
         call[t].pc \notin {"execwait", "chropen"}
  PROVE  TableInv'
<1> USE DEF TableInv
<1>1. TableTypes'
  BY DEF TableTypes
<1>2. call'[t] = r /\ (\A u \in Task \ {t} : call'[u] = call[u]) /\ t \in Task
  BY DEF TableTypes
<1>3. WalkInv'
  BY <1>2 DEF WalkInv, InWalk, NeedsFd
<1>4. OpenInv'
  BY <1>2 DEF OpenInv, IsOpen, NeedsFd
<1>5. TaskInv'
  BY <1>2 DEF TaskInv
<1>6. FileInv' /\ DeviceInUse'
  BY DEF FileInv, Users, DeviceInUse
<1>7. ReadyInv'
  BY <1>2 DEF ReadyInv, IsOpen
<1> QED BY <1>1, <1>3, <1>4, <1>5, <1>6, <1>7

\* A walk that fails gives its slot back.
LEMMA NotFoundInv ==
  ASSUME TableInv, NEW t \in Task, InWalk(t), NotFound(t),
         UNCHANGED <<pwd, root, file, chrdev, state>>
  PROVE  TableInv' /\ Fds' = Fds
<1> USE DEF TableInv
<1>0. state[t] = "run"
  BY DEF TaskInv, InWalk, TableTypes
<1>1. CASE ~ NeedsFd(call[t].op)
  <2>1. fdt' = fdt /\ call' = [call EXCEPT ![t] = User]
    BY <1>1 DEF NotFound
  <2>2. call[t].pc \notin {"execwait", "chropen"}
    BY DEF InWalk
  <2>3. TableInv'
    BY <1>0, <1>1, <2>1, <2>2, UserType, CallStep DEF TableTypes
  <2> QED BY <2>1, <2>3 DEF Fds
<1>2. CASE NeedsFd(call[t].op)
  <2> DEFINE n == call[t].fd
  <2>1. /\ n \in Fd /\ fdt[t][n] = "locked"
        /\ fdt' = [fdt EXCEPT ![t][n] = NULL] /\ call' = [call EXCEPT ![t] = User]
    BY <1>2 DEF NotFound, WalkInv
  <2> HIDE DEF n
  <2>2. /\ call'[t] = User /\ \A u \in Task \ {t} : call'[u] = call[u]
        /\ fdt'[t][n] = NULL
        /\ \A u \in Task, m \in Fd : u # t \/ m # n => fdt'[u][m] = fdt[u][m]
    BY <2>1 DEF TableTypes
  <2>3. TableTypes'
    BY <2>1, UserType DEF TableTypes
  <2>4. WalkInv'
    <3>1. ASSUME NEW u \in Task, u # t PROVE InWalk(u)' <=> InWalk(u)
      BY <2>2, <3>1 DEF InWalk
    <3>2. ~ InWalk(t)'
      BY <2>2, UserType DEF InWalk
    <3>3. \A m \in Fd : fdt'[t][m] # "locked"
      <4>1. \A m \in Fd : fdt[t][m] = "locked" => m = n
        BY DEF WalkInv, n
      <4> QED BY <2>2, <4>1, NotLocked
    <3> QED BY <2>2, <3>1, <3>2, <3>3 DEF WalkInv
  <2>5. OpenInv'
    <3>1. \A u \in Task, m \in Fd : fdt'[u][m] # fdt[u][m] => fdt[u][m] = "locked" /\ fdt'[u][m] = NULL
      BY <2>1, <2>2
    <3>2. \A u \in Task : call'[u] # call[u] => call'[u] = User
      BY <2>2
    <3>3. \A u \in Task, m \in Fd : IsOpen(u, m) => fdt'[u][m] = fdt[u][m] /\ IsOpen(u, m)'
      BY <3>1, NotLocked DEF IsOpen
    <3>4. \A u \in Task : call[u].file # NULL => call[u].file \in File
      BY DEF TableTypes, Rec
    <3>5. ASSUME NEW u \in Task, u # t
          PROVE  call[u].file # NULL => \E m \in Fd : fdt'[u][m] = call[u].file
      BY <2>2, <3>5 DEF OpenInv
    <3>6. call'[t].pc = "user" /\ call'[t].file = NULL
      BY <2>2, UserType
    <3> QED BY <2>2, <3>3, <3>5, <3>6 DEF OpenInv
  <2>6. TaskInv'
    BY <1>0, <2>1, <2>2, UserType, NotLocked DEF TaskInv, InWalk
  <2>7. \A f \in File : Users(f)' = Users(f)
    BY <2>1, <2>2, NotLocked DEF Users
  <2>8. FileInv' /\ DeviceInUse'
    BY <2>7 DEF FileInv, DeviceInUse
  <2>9. Fds' = Fds
    BY <2>1, <2>2, NotLocked DEF Fds
  <2>10. ReadyInv'
    BY <2>2, NotLocked DEF ReadyInv, IsOpen, InWalk
  <2> QED BY <2>3, <2>4, <2>5, <2>6, <2>8, <2>9, <2>10
<1> QED BY <1>1, <1>2

\* sys_close and its kind: the last descriptor takes the file with it, and no
\* other descriptor notices.
LEMMA CloseInv ==
  ASSUME TableInv, NEW t \in Task, NEW n \in Fd, IsOpen(t, n), Close(t, n),
         file[fdt[t][n]].opened # "no"
  PROVE  /\ fdt' \in [Task -> [Fd -> File \cup {NULL, "locked"}]]
         /\ file' \in [File -> FileType]
         /\ chrdev' \in DevType
         /\ fdt'[t][n] = NULL
         /\ \A u \in Task, m \in Fd : u # t \/ m # n => fdt'[u][m] = fdt[u][m]
         /\ FileInv' /\ DeviceInUse'
         /\ Fds' = [Fds EXCEPT ![t][n] = NULL]
         /\ \A u \in Task, m \in Fd :
              (u # t \/ m # n) /\ IsOpen(u, m) => SameFile(fdt[u][m])
         /\ \A g \in File : g # fdt[t][n] => file'[g] = file[g]
<1> USE DEF TableInv
<1> DEFINE f == fdt[t][n]
           x == <<t, n>>
<1>1. /\ f \in File /\ fdt' = [fdt EXCEPT ![t][n] = NULL]
      /\ file' = [file EXCEPT ![f] = IF Closing(f) THEN NoFile
                                       ELSE [file[f] EXCEPT !.ref = file[f].ref - 1]]
      /\ chrdev' = IF Closing(f) THEN chrdev_close(file[f].inode) ELSE chrdev
  BY DEF IsOpen, Close
<1>2. x \in Users(f) /\ Users(f) \in SUBSET (Task \X Fd)
  BY DEF Users
<1>3. file[f].ref \in Nat /\ file[f].ref > 0 /\ file[f].opened # "no"
  BY <1>1, <1>2, UsedRef DEF TableTypes, FileType
<1> HIDE DEF f
<1>4. /\ fdt' \in [Task -> [Fd -> File \cup {NULL, "locked"}]]
      /\ fdt'[t][n] = NULL
      /\ \A u \in Task, m \in Fd : u # t \/ m # n => fdt'[u][m] = fdt[u][m]
  BY <1>1 DEF TableTypes
<1>5. \A g \in File : g # f => file'[g] = file[g]
  BY <1>1 DEF TableTypes
<1>6. Closing(f) => file'[f] = NoFile
  BY <1>1 DEF TableTypes
<1>7. ~ Closing(f) => /\ SameFile(f) /\ file'[f] \in FileType
                      /\ file'[f].ref = file[f].ref - 1
  <2> SUFFICES ASSUME ~ Closing(f)
               PROVE  SameFile(f) /\ file'[f] \in FileType /\ file'[f].ref = file[f].ref - 1
    OBVIOUS
  <2>1. file[f].ref - 1 \in Nat /\ file[f].ref - 1 > 0
    BY <1>3 DEF Closing
  <2>2. file'[f] = [file[f] EXCEPT !.ref = file[f].ref - 1] /\ file[f] \in FileType
    <3>1. f \in File /\ file \in [File -> FileType]
      BY <1>1 DEF TableTypes
    <3>2. file' = [file EXCEPT ![f] = [file[f] EXCEPT !.ref = file[f].ref - 1]]
      BY <1>1
    <3> QED BY <3>1, <3>2
  <2> QED BY <2>1, <2>2, RefChange DEF SameFile
<1>8. NoFile \in FileType /\ NoFile.ref = 0
  BY NoFileType
<1>9. file' \in [File -> FileType]
  <2>1. file' = [file EXCEPT ![f] = file'[f]]
    BY <1>1 DEF TableTypes
  <2>2. file'[f] \in FileType
    <3>1. CASE Closing(f)
      BY <3>1, <1>6, <1>8
    <3>2. CASE ~ Closing(f)
      BY <3>2, <1>7
    <3> QED BY <3>1, <3>2
  <2> QED BY <2>1, <2>2, <1>1 DEF TableTypes
<1>10. Closing(f) => Users(f) = {x}
  BY <1>1, <1>2, OneUser DEF Closing
<1>11. \A u \in Task, m \in Fd :
          (u # t \/ m # n) /\ IsOpen(u, m) => SameFile(fdt[u][m])
  <2> SUFFICES ASSUME NEW u \in Task, NEW m \in Fd, u # t \/ m # n, IsOpen(u, m)
               PROVE  SameFile(fdt[u][m])
    OBVIOUS
  <2>1. fdt[u][m] \in File /\ <<u, m>> \in Users(fdt[u][m]) /\ <<u, m>> # x
    BY DEF IsOpen, Users
  <2>2. CASE fdt[u][m] # f
    <3>1. file'[fdt[u][m]] = file[fdt[u][m]] /\ file[fdt[u][m]].ref > 0
      BY <2>1, <2>2, <1>5, UsedRef
    <3> QED BY <3>1 DEF SameFile
  <2>3. CASE fdt[u][m] = f
    <3>1. ~ Closing(f)
      BY <2>1, <2>3, <1>10
    <3> QED BY <2>3, <3>1, <1>7
  <2> QED BY <2>2, <2>3
<1>12. FileInv'
  <2> SUFFICES ASSUME NEW g \in File
               PROVE  /\ file'[g].ref >= Cardinality(Users(g)')
                      /\ file'[g].ref > 0 => file'[g].inode \in Inode
    BY DEF FileInv
  <2>1. \A y \in Task \X Fd : y # x => fdt'[y[1]][y[2]] = fdt[y[1]][y[2]]
    BY <1>4
  <2>2. fdt'[x[1]][x[2]] = NULL /\ x \in Task \X Fd
    BY <1>4
  <2>3. Users(g)' \subseteq Users(g) \ {x}
    BY <2>1, <2>2, NotLocked DEF Users
  <2>4. CASE g # f
    <3>1. Cardinality(Users(g)') <= Cardinality(Users(g)) /\ Cardinality(Users(g)') \in Nat
      BY <2>3, UsersFinite, CountBelow
    <3> QED BY <2>4, <3>1, <1>5, UsersFinite DEF FileInv, TableTypes, FileType
  <2>5. CASE g = f /\ Closing(f)
    <3>1. Users(g)' = {}
      BY <2>3, <2>5, <1>10
    <3>2. Cardinality(Users(g)') = 0
      BY <3>1, FS_EmptySet
    <3> QED BY <2>5, <3>2, <1>6, <1>8
  <2>6. CASE g = f /\ ~ Closing(f)
    <3>1. Cardinality(Users(g)') <= Cardinality(Users(g)) - 1 /\ Cardinality(Users(g)') \in Nat
      <4>1. Users(g)' \in SUBSET (Users(g) \ {x}) /\ x \in Users(g)
        BY <2>3, <2>6, <1>2
      <4>2. Users(g)' \in SUBSET Users(g)
        BY <4>1
      <4> QED BY <4>1, <4>2, UsersFinite, CountLess, CountBelow
    <3>2. file[f].ref >= Cardinality(Users(f)) /\ file[f].inode \in Inode
      BY <1>1, <1>3 DEF FileInv
    <3> QED BY <2>6, <3>1, <3>2, <1>3, <1>7, UsersFinite DEF SameFile
  <2> QED BY <2>4, <2>5, <2>6
<1>13. DeviceInUse' /\ chrdev' \in DevType
  <2>1. /\ chrdev \in DevType /\ chrdev.ref = Cardinality(DevFiles)
        /\ \A g \in File : file[g].ref > 0 /\ file[g].opened = "yes" /\ file[g].inode \in Dev
              => chrdev.fops
    BY DEF DeviceInUse, TableTypes, DevFiles
  <2>2. CASE Closing(f) /\ file[f].inode \in Dev
    <3>1. f \in DevFiles /\ DevFiles' = DevFiles \ {f}
      BY <1>1, <1>3, <1>5, <1>6, <1>8, <2>2 DEF DevFiles
    <3>2. Cardinality(DevFiles') = Cardinality(DevFiles) - 1 /\ Cardinality(DevFiles') \in Nat
      <4>1. Cardinality(DevFiles') = Cardinality(DevFiles) - 1
        BY <3>1, DevFinite, FS_RemoveElement
      <4>2. DevFiles' \in SUBSET DevFiles
        BY <3>1
      <4> QED BY <4>1, <4>2, DevFinite, CountBelow
    <3>3. chrdev' = [chrdev EXCEPT !.ref = Cardinality(DevFiles')]
      BY <1>1, <2>1, <2>2, <3>2 DEF chrdev_close
    <3>4. chrdev' \in DevType /\ chrdev'.ref = Cardinality(DevFiles') /\ chrdev'.fops = chrdev.fops
      BY <2>1, <3>2, <3>3, RefChange
    <3>5. \A g \in File : file'[g].ref > 0 => file'[g] = file[g]
      BY <1>5, <1>6, <1>8, <2>2
    <3> QED BY <2>1, <3>4, <3>5 DEF DeviceInUse, DevFiles
  <2>3. CASE ~ (Closing(f) /\ file[f].inode \in Dev)
    <3>1. chrdev' = chrdev
      BY <1>1, <2>3 DEF chrdev_close
    <3>2. DevFiles' = DevFiles
      BY <1>1, <1>3, <1>5, <1>6, <1>7, <1>8, <2>3 DEF DevFiles, SameFile
    <3>3. \A g \in File : file'[g].ref > 0 /\ file'[g].opened = "yes" /\ file'[g].inode \in Dev
              => file[g].ref > 0 /\ file[g].opened = "yes" /\ file[g].inode \in Dev
      BY <1>3, <1>5, <1>6, <1>7, <1>8 DEF SameFile
    <3> QED BY <2>1, <3>1, <3>2, <3>3 DEF DeviceInUse, DevFiles
  <2> QED BY <2>2, <2>3
<1>14. Fds' = [Fds EXCEPT ![t][n] = NULL]
  <2>1. \A u \in Task, m \in Fd :
          Fds'[u][m] = IF u = t /\ m = n THEN NULL ELSE Fds[u][m]
    <3> SUFFICES ASSUME NEW u \in Task, NEW m \in Fd
                 PROVE  Fds'[u][m] = IF u = t /\ m = n THEN NULL ELSE Fds[u][m]
      OBVIOUS
    <3>1. CASE u = t /\ m = n
      BY <3>1, <1>4, NotLocked DEF Fds
    <3>2. CASE (u # t \/ m # n) /\ fdt[u][m] \in File
      <4>1. file'[fdt[u][m]].inode = file[fdt[u][m]].inode
        BY <3>2, <1>11 DEF IsOpen, SameFile
      <4> QED BY <3>2, <4>1, <1>4 DEF Fds
    <3>3. CASE (u # t \/ m # n) /\ fdt[u][m] \notin File
      BY <3>3, <1>4 DEF Fds
    <3> QED BY <3>1, <3>2, <3>3
  <2>2. Fds \in [Task -> [Fd -> Inode \cup {NULL}]] /\ Fds' \in [Task -> [Fd -> Inode \cup {NULL}]]
    BY <1>9 DEF Fds, TableTypes, FileType
  <2> QED BY <2>1, <2>2
<1> QED BY <1>4, <1>5, <1>9, <1>11, <1>12, <1>13, <1>14 DEF f

\* The walk stays in the tree.
LEMMA TreeTypes ==
  /\ \A d \in Dentry : Up(d) \in Dentry /\ Mounted(d) \in Dentry /\ inode[d] \in Inode
  /\ droot \in Dentry /\ sroot \in Dentry
BY TreeAssumption DEF Up, Mounted

\* A component was found: the walk goes on from a dentry.
LEMMA FoundInv ==
  ASSUME TableInv, NEW t \in Task, InWalk(t), call[t].path # <<>>, NEW d \in Dentry,
         call' = Found(t, d), UNCHANGED <<pwd, root, fdt, file, chrdev, state>>
  PROVE  TableInv' /\ Fds' = Fds
<1> USE DEF TableInv
<1> DEFINE r == [call[t] EXCEPT !.pc = "walk", !.iter = d, !.base = NULL, !.find = NULL,
                                 !.path = Tail(call[t].path)]
<1>0. /\ call[t] \in Rec /\ state[t] = "run" /\ call[t].file = NULL
      /\ call[t].pc \notin {"execwait", "chropen"}
  BY DEF TableTypes, TaskInv, OpenInv, InWalk
<1>1. /\ r \in Rec /\ r.pc = "walk" /\ r.iter = d /\ r.op = call[t].op /\ r.top = call[t].top
      /\ r.fd = call[t].fd /\ r.file = NULL
  <2>1. Tail(call[t].path) \in Seq(Name \cup {DotDot})
    BY <1>0 DEF Rec
  <2>2. r.pc \in Pc
    BY DEF Pc
  <2> HIDE DEF Pc
  <2>3. r \in Rec
    BY ZenonT(40), <1>0, <2>1, <2>2 DEF Rec
  <2> QED BY <1>0, <2>3 DEF Rec
<1>2. call' = [call EXCEPT ![t] = r]
  BY DEF Found
<1>3. r.top \in Dentry /\ r.op \in Walks
  BY <1>1 DEF WalkInv
<1> HIDE DEF r
<1>4. TableInv'
  BY <1>0, <1>1, <1>2, <1>3, CallStep DEF TableTypes, InWalk
<1> QED BY <1>4 DEF Fds

\* The steps along a path change no descriptor and no file.
WalkStep(t) ==
  \/ walk_up(t) \/ walk_file(t) \/ find_entry(t)
  \/ lookup_none(t) \/ lookup_hit(t) \/ lookup_miss(t)
  \/ iget_return(t) \/ iget_error(t)

\* The steps of a walk keep the invariant of the tables.
LEMMA WalkStepInv ==
  ASSUME TableInv, NEW t \in Task, WalkStep(t)
  PROVE  TableInv' /\ Fds' = Fds
<1> USE DEF TableInv
<1>1. InWalk(t) /\ call[t].iter \in Dentry /\ call[t].path # <<>>
  BY DEF WalkStep, walk_up, walk_file, find_entry, lookup_none, lookup_hit, lookup_miss,
         iget_return, iget_error, InWalk, Walking, WalkInv
<1>2. UNCHANGED <<pwd, root, file, chrdev, state>>
  BY DEF WalkStep, walk_up, walk_file, find_entry, lookup_none, lookup_hit, lookup_miss,
         iget_return, iget_error
<1>3. \/ NotFound(t)
      \/ fdt' = fdt /\ \E d \in Dentry : call' = Found(t, d)
      \/ fdt' = fdt /\ call' = [call EXCEPT ![t].pc = "block", ![t].base = Mounted(call[t].iter)]
                    /\ call[t].pc = "walk"
      \/ fdt' = fdt /\ call[t].pc = "block"
                    /\ \E e \in OnDisk(call[t].base, Head(call[t].path)) : call' = [call EXCEPT ![t].pc = "inode", ![t].find = e]
  <2>1. CASE walk_up(t)
    BY <2>1, <1>1, TreeTypes DEF walk_up
  <2>2. CASE walk_file(t)
    BY <2>2 DEF walk_file
  <2>3. CASE find_entry(t)
    BY <2>3 DEF find_entry, Walking
  <2>4. CASE lookup_none(t) \/ iget_error(t)
    BY <2>4 DEF lookup_none, iget_error
  <2>5. CASE lookup_hit(t)
    BY <2>5 DEF lookup_hit, OnDisk
  <2>6. CASE lookup_miss(t)
    BY <2>6 DEF lookup_miss, OnDisk
  <2>7. CASE iget_return(t)
    <3>1. call[t].find \in Dentry
      BY <2>7 DEF iget_return, WalkInv, InWalk, OnDisk
    <3> QED BY <2>7, <3>1 DEF iget_return
  <2> QED BY <2>1, <2>2, <2>3, <2>4, <2>5, <2>6, <2>7 DEF WalkStep
<1>4. CASE NotFound(t)
  BY <1>1, <1>2, <1>4, NotFoundInv
<1>5. CASE fdt' = fdt /\ \E d \in Dentry : call' = Found(t, d)
  BY <1>1, <1>2, <1>5, FoundInv
<1>6. ASSUME fdt' = fdt, NEW r \in Rec, call' = [call EXCEPT ![t] = r],
             r.pc \in {"block", "inode"}, r.base \in Dentry,
             r.iter = call[t].iter, r.top = call[t].top, r.op = call[t].op,
             r.path = call[t].path, r.fd = call[t].fd, r.file = call[t].file,
             r.pc = "inode" => r.find \in OnDisk(r.base, Head(r.path))
      PROVE  TableInv' /\ Fds' = Fds
  <2>1. call[t].file = NULL /\ state[t] = "run" /\ call[t].pc \notin {"execwait", "chropen"}
        /\ call[t].top \in Dentry /\ call[t].op \in Walks
    BY <1>1 DEF OpenInv, TaskInv, InWalk, TableTypes, WalkInv
  <2>2. TableInv'
    BY <1>1, <1>2, <1>6, <2>1, CallStep DEF TableTypes, InWalk
  <2> QED BY <1>2, <1>6, <2>2 DEF Fds
<1>7. CASE /\ fdt' = fdt /\ call[t].pc = "walk"
           /\ call' = [call EXCEPT ![t].pc = "block", ![t].base = Mounted(call[t].iter)]
  <2> DEFINE r == [call[t] EXCEPT !.pc = "block", !.base = Mounted(call[t].iter)]
  <2>1. Mounted(call[t].iter) \in Dentry /\ call[t] \in Rec
    BY <1>1, TreeTypes DEF TableTypes
  <2>2. /\ r \in Rec /\ r.pc \in {"block", "inode"} /\ r.base \in Dentry
        /\ r.iter = call[t].iter /\ r.top = call[t].top /\ r.op = call[t].op
        /\ r.path = call[t].path /\ r.fd = call[t].fd /\ r.file = call[t].file
    BY ZenonT(40), <2>1 DEF Rec, Pc
  <2>4. r.pc # "inode"
    BY <2>1 DEF Rec
  <2>3. call' = [call EXCEPT ![t] = r]
    BY <1>7
  <2> HIDE DEF r
  <2> QED BY <1>6, <1>7, <2>2, <2>3, <2>4
<1>8. CASE /\ fdt' = fdt /\ call[t].pc = "block"
           /\ \E e \in OnDisk(call[t].base, Head(call[t].path)) :
                call' = [call EXCEPT ![t].pc = "inode", ![t].find = e]
  <2>1. PICK e \in OnDisk(call[t].base, Head(call[t].path)) : call' = [call EXCEPT ![t].pc = "inode", ![t].find = e]
    BY <1>8
  <2> DEFINE r == [call[t] EXCEPT !.pc = "inode", !.find = e]
  <2>2. call[t].base \in Dentry /\ call[t] \in Rec
    BY <1>8 DEF TableTypes, WalkInv, InWalk
  <2>3. /\ r \in Rec /\ r.pc \in {"block", "inode"} /\ r.base \in Dentry
        /\ r.iter = call[t].iter /\ r.top = call[t].top /\ r.op = call[t].op
        /\ r.path = call[t].path /\ r.fd = call[t].fd /\ r.file = call[t].file
        /\ r.find = e /\ r.base = call[t].base
    BY <2>1, <2>2 DEF Rec, Pc, OnDisk
  <2>4. call' = [call EXCEPT ![t] = r]
    BY <2>1
  <2> HIDE DEF r
  <2>5. r.find \in OnDisk(r.base, Head(r.path))
    BY <2>1, <2>3
  <2> QED BY <1>6, <1>8, <2>3, <2>4, <2>5
<1> QED BY <1>3, <1>4, <1>5, <1>7, <1>8

\* The entry of a call that walks: it may lock a slot.
LEMMA LookupInv ==
  ASSUME TableInv, NEW t \in Task, NEW op \in Walks, NEW path \in Seq(Name \cup {DotDot}),
         NEW slash, lookup(t, op, path, slash)
  PROVE  TableInv' /\ Fds' = Fds
<1> USE DEF TableInv
<1>1. PICK n \in Fd \cup {-1} :
        /\ IF NeedsFd(op) THEN n >= 0 /\ Unused(t, n) ELSE n = -1
        /\ fdt' = IF NeedsFd(op) THEN [fdt EXCEPT ![t][n] = "locked"] ELSE fdt
        /\ call' = [call EXCEPT ![t] = [User EXCEPT !.pc = "walk", !.op = op,
                     !.path = path,
                     !.iter = IF op = "chroot" THEN droot ELSE IF slash THEN root[t] ELSE pwd[t],
                     !.top = IF op = "chroot" THEN droot ELSE root[t], !.fd = n]]
  BY DEF lookup
<1>2. state[t] = "run" /\ call[t].pc = "user" /\ UNCHANGED <<pwd, root, file, chrdev, state>>
  BY DEF lookup
<1> DEFINE i == IF op = "chroot" THEN droot ELSE IF slash THEN root[t] ELSE pwd[t]
           top == IF op = "chroot" THEN droot ELSE root[t]
           r == [User EXCEPT !.pc = "walk", !.op = op, !.path = path, !.iter = i,
                             !.top = top, !.fd = n]
<1>3. i \in Dentry /\ top \in Dentry
  BY TreeTypes DEF TableTypes
<1>4. call' = [call EXCEPT ![t] = r]
  BY <1>1
<1> HIDE DEF i, top
<1>5. /\ r \in Rec /\ r.pc = "walk" /\ r.op = op /\ r.iter = i /\ r.top = top /\ r.fd = n
      /\ r.file = NULL
  BY <1>3, UserType DEF Rec, Pc
<1> HIDE DEF r
<1>6. ~ InWalk(t) /\ call[t].pc \notin {"execwait", "chropen"}
  BY <1>2 DEF InWalk
<1>7. CASE ~ NeedsFd(op)
  <2>1. fdt' = fdt
    BY <1>1, <1>7
  <2>2. TableInv'
    BY <1>2, <1>3, <1>4, <1>5, <1>6, <1>7, <2>1, CallStep DEF TableTypes
  <2> QED BY <1>2, <2>1, <2>2 DEF Fds
<1>8. CASE NeedsFd(op)
  <2>1. n \in Fd /\ fdt[t][n] = NULL /\ fdt' = [fdt EXCEPT ![t][n] = "locked"]
    BY <1>1, <1>8 DEF Unused
  <2>2. /\ call'[t] = r /\ \A u \in Task \ {t} : call'[u] = call[u]
        /\ fdt'[t][n] = "locked"
        /\ \A u \in Task, m \in Fd : u # t \/ m # n => fdt'[u][m] = fdt[u][m]
    BY <1>4, <2>1 DEF TableTypes
  <2>3. TableTypes'
    BY <1>2, <1>4, <1>5, <2>1 DEF TableTypes
  <2>4. WalkInv'
    <3>1. ASSUME NEW u \in Task, u # t PROVE InWalk(u)' <=> InWalk(u)
      BY <2>2, <3>1 DEF InWalk
    <3>2. InWalk(t)'
      BY <2>2, <1>5 DEF InWalk
    <3>3. \A m \in Fd : fdt[t][m] # "locked"
      BY <1>6 DEF WalkInv
    <3> QED BY <1>3, <1>5, <1>8, <2>1, <2>2, <3>1, <3>2, <3>3 DEF WalkInv
  <2>5. OpenInv'
    <3>1. \A u \in Task, m \in Fd : IsOpen(u, m) => fdt'[u][m] = fdt[u][m] /\ IsOpen(u, m)'
      BY <2>1, <2>2, NotLocked DEF IsOpen
    <3>2. ASSUME NEW u \in Task, u # t
          PROVE  call[u].file # NULL => \E m \in Fd : fdt'[u][m] = call[u].file
      BY <2>2, <3>2 DEF OpenInv
    <3> QED BY <1>2, <1>5, <2>2, <3>1, <3>2 DEF OpenInv
  <2>6. TaskInv'
    BY <1>2, <1>5, <2>2 DEF TaskInv
  <2>7. \A f \in File : Users(f)' = Users(f)
    BY <2>1, <2>2, NotLocked DEF Users
  <2>8. FileInv' /\ DeviceInUse'
    BY <1>2, <2>7 DEF FileInv, DeviceInUse
  <2>9. Fds' = Fds
    BY <1>2, <2>1, <2>2, NotLocked DEF Fds
  <2>10. ReadyInv'
    BY <1>2, <2>2, NotLocked DEF ReadyInv, IsOpen
  <2> QED BY <2>3, <2>4, <2>5, <2>6, <2>8, <2>9, <2>10
<1> QED BY <1>7, <1>8

\* The ends of walks that open nothing, and the calls that only mark where a
\* task is.
LEMMA PlainInv ==
  ASSUME TableInv, NEW t \in Task,
         \/ sys_chdir(t) \/ sys_chroot(t) \/ rw_return(t) \/ sys_exit(t)
         \/ \E n \in Fd : sys_rw(t, n)
  PROVE  TableInv' /\ Fds' = Fds
<1> USE DEF TableInv
<1>1. CASE sys_chdir(t) \/ sys_chroot(t)
  <2>1. /\ InWalk(t) /\ call[t].op \in {"chdir", "chroot"} /\ call[t].iter \in Dentry
        /\ state[t] = "run" /\ call[t].pc \notin {"execwait", "chropen"}
    BY <1>1 DEF sys_chdir, sys_chroot, AtEnd, InWalk, WalkInv, TaskInv, TableTypes
  <2>2. Result(t) \in Dentry
    BY <2>1, TreeTypes DEF Result
  <2>3. pwd' \in [Task -> Dentry] /\ root' \in [Task -> Dentry]
    BY <1>1, <2>2 DEF sys_chdir, sys_chroot, TableTypes
  <2>4. call' = [call EXCEPT ![t] = User] /\ UNCHANGED <<fdt, file, chrdev, state>>
    BY <1>1 DEF sys_chdir, sys_chroot
  <2>5. TableInv'
    BY <2>1, <2>3, <2>4, UserType, CallStep DEF NeedsFd
  <2> QED BY <2>4, <2>5 DEF Fds
<1>2. CASE rw_return(t) \/ sys_exit(t)
  <2>1. PICK r \in {User, [User EXCEPT !.pc = "exit"]} : call' = [call EXCEPT ![t] = r]
    BY <1>2 DEF rw_return, sys_exit
  <2>2. /\ ~ InWalk(t) /\ call[t].pc \notin {"execwait", "chropen"} /\ state[t] = "run"
        /\ UNCHANGED <<pwd, root, fdt, file, chrdev, state>>
    BY <1>2 DEF rw_return, sys_exit, InUser, InWalk, TaskInv, TableTypes
  <2>3. r \in Rec /\ r.pc \in {"user", "exit"} /\ r.file = NULL
    BY UserType DEF Rec, Pc
  <2>4. TableInv'
    BY <2>1, <2>2, <2>3, CallStep DEF TableTypes
  <2> QED BY <2>2, <2>4 DEF Fds
<1>3. CASE \E n \in Fd : sys_rw(t, n)
  <2>1. PICK n \in Fd : sys_rw(t, n)
    BY <1>3
  <2> DEFINE r == [User EXCEPT !.pc = "io", !.file = fdt[t][n]]
  <2>2. /\ ~ InWalk(t) /\ call[t].pc \notin {"execwait", "chropen"}
        /\ state[t] = "run" /\ fdt[t][n] \in File
        /\ UNCHANGED <<pwd, root, fdt, file, chrdev, state>> /\ call' = [call EXCEPT ![t] = r]
    BY <2>1 DEF sys_rw, InUser, InWalk, IsOpen
  <2>3. r \in Rec /\ r.pc = "io" /\ r.file = fdt[t][n]
    BY ZenonT(40), <2>2, UserType DEF Rec, Pc
  <2> HIDE DEF r
  <2>4. TableInv'
    BY <2>2, <2>3, CallStep DEF TableTypes
  <2> QED BY <2>2, <2>4 DEF Fds
<1> QED BY <1>1, <1>2, <1>3

\* sys_open with memory for the file f: the slot gets its file.
LEMMA OpenedInv ==
  ASSUME TableInv, NEW t \in Task, InWalk(t), NeedsFd(call[t].op),
         NEW f \in File, file[f].ref = 0, NEW i \in Inode, NEW r \in Rec,
         fdt' = [fdt EXCEPT ![t][call[t].fd] = f],
         file' = [file EXCEPT ![f] = NewFile(i)],
         call' = [call EXCEPT ![t] = r], UNCHANGED <<pwd, root, chrdev, state>>,
         r.pc \in {"user", "chropen", "exec"}, i \in Dev => r.pc = "chropen",
         r.pc # "user" => r.fd = call[t].fd,
         r.pc = "chropen" => r.file = f /\ NeedsFd(r.op) /\ i \in Dev,
         r.pc # "chropen" => r.file = NULL
  PROVE  /\ TableInv' /\ call[t].fd \in Fd /\ Fds[t][call[t].fd] = NULL
         /\ Fds' = [Fds EXCEPT ![t][call[t].fd] = i]
<1> USE DEF TableInv
<1> DEFINE q == NewFile(i)
<1>0. PICK n \in Fd : n = call[t].fd
  BY DEF WalkInv
<1>1. fdt[t][n] = "locked" /\ state[t] = "run" /\ call[t].pc # "execwait"
  BY <1>0 DEF WalkInv, TaskInv, InWalk, TableTypes
<1>2. /\ call'[t] = r /\ \A u \in Task \ {t} : call'[u] = call[u]
      /\ fdt'[t][n] = f
      /\ \A u \in Task, m \in Fd : u # t \/ m # n => fdt'[u][m] = fdt[u][m]
  BY <1>0, <1>1 DEF TableTypes
<1>3. q \in FileType /\ q.ref = 1 /\ q.inode = i /\ (i \in Dev <=> q.opened = "no")
  BY DEF FileType, NewFile
<1> HIDE DEF q
<1>4. file' \in [File -> FileType] /\ file'[f] = q /\ \A g \in File : g # f => file'[g] = file[g]
  BY <1>3 DEF TableTypes, q
<1>5. Users(f) = {}
  BY UsedRef
<1>6. TableTypes' /\ DeviceInUse'
  <2>1. /\ chrdev \in DevType /\ chrdev.ref = Cardinality(DevFiles)
        /\ \A g \in File : file[g].ref > 0 /\ file[g].opened = "yes" /\ file[g].inode \in Dev
              => chrdev.fops
    BY DEF DeviceInUse, TableTypes, DevFiles
  <2>2. DevFiles' = DevFiles
    BY <1>3, <1>4 DEF DevFiles
  <2>6. \A g \in File : file'[g].ref > 0 /\ file'[g].opened = "yes" /\ file'[g].inode \in Dev
              => file[g].ref > 0 /\ file[g].opened = "yes" /\ file[g].inode \in Dev
    BY <1>3, <1>4
  <2>7. DeviceInUse'
    BY <2>1, <2>2, <2>6 DEF DeviceInUse, DevFiles
  <2>8. TableTypes'
    BY <1>0, <1>1, <1>4, <2>1 DEF TableTypes
  <2> QED BY <2>7, <2>8
<1>7. WalkInv'
  <2>1. ASSUME NEW u \in Task, u # t PROVE InWalk(u)' <=> InWalk(u)
    BY <1>2, <2>1 DEF InWalk
  <2>2. ~ InWalk(t)'
    BY <1>2 DEF InWalk
  <2>3. \A m \in Fd : fdt'[t][m] # "locked"
    <3>1. \A m \in Fd : fdt[t][m] = "locked" => m = n
      BY <1>0 DEF WalkInv
    <3> QED BY <1>2, <3>1, NotLocked
  <2> QED BY <1>2, <2>1, <2>2, <2>3 DEF WalkInv
<1>8. OpenInv'
  <2>1. \A u \in Task, m \in Fd : IsOpen(u, m) => fdt'[u][m] = fdt[u][m] /\ IsOpen(u, m)'
    BY <1>1, <1>2, NotLocked DEF IsOpen
  <2>2. ASSUME NEW u \in Task, u # t
        PROVE  /\ call[u].file # NULL => \E m \in Fd : fdt'[u][m] = call[u].file
               /\ call[u].pc = "chropen" => call[u].file \in File /\ call[u].file # f
    BY <1>2, <2>2 DEF OpenInv, IsOpen
  <2>3. IsOpen(t, n)' /\ fdt'[t][n] = f
    BY <1>2 DEF IsOpen
  <2>4. \A u \in Task \ {t} : call[u].pc = "chropen" => file'[call[u].file] = file[call[u].file]
    BY <1>4, <2>2
  <2> QED BY <1>1, <1>2, <1>3, <1>4, <2>1, <2>2, <2>3, <2>4, <1>0, NotLocked DEF OpenInv
<1>9. TaskInv'
  BY <1>1, <1>2 DEF TaskInv
<1>10. FileInv'
  <2> SUFFICES ASSUME NEW g \in File
               PROVE  /\ file'[g].ref >= Cardinality(Users(g)')
                      /\ file'[g].ref > 0 => file'[g].inode \in Inode
    BY DEF FileInv
  <2>1. CASE g = f
    <3>1. Users(g)' = {<<t, n>>}
      BY <1>1, <1>2, <1>5, <2>1 DEF Users
    <3>2. Cardinality(Users(g)') = 1
      BY <3>1, FS_Singleton
    <3> QED BY <1>3, <1>4, <2>1, <3>2
  <2>2. CASE g # f
    <3>1. Users(g)' = Users(g)
      BY <1>1, <1>2, <2>2, NotLocked DEF Users
    <3> QED BY <1>4, <2>2, <3>1 DEF FileInv
  <2> QED BY <2>1, <2>2
<1>11. Fds[t][n] = NULL /\ Fds' = [Fds EXCEPT ![t][n] = i]
  <2>1. \A u \in Task, m \in Fd : Fds'[u][m] = IF u = t /\ m = n THEN i ELSE Fds[u][m]
    <3> SUFFICES ASSUME NEW u \in Task, NEW m \in Fd
                 PROVE  Fds'[u][m] = IF u = t /\ m = n THEN i ELSE Fds[u][m]
      OBVIOUS
    <3>1. CASE u = t /\ m = n
      BY <3>1, <1>2, <1>3, <1>4 DEF Fds
    <3>2. CASE (u # t \/ m # n) /\ fdt[u][m] \in File
      <4>1. fdt[u][m] # f
        <5>1. <<u, m>> \in Users(fdt[u][m])
          BY DEF Users
        <5> QED BY <1>5, <5>1
      <4> QED BY <3>2, <4>1, <1>2, <1>4 DEF Fds
    <3>3. CASE (u # t \/ m # n) /\ fdt[u][m] \notin File
      BY <3>3, <1>2 DEF Fds
    <3> QED BY <3>1, <3>2, <3>3
  <2>2. Fds \in [Task -> [Fd -> Inode \cup {NULL}]] /\ Fds' \in [Task -> [Fd -> Inode \cup {NULL}]]
    BY <1>4 DEF Fds, TableTypes, FileType
  <2>3. Fds[t][n] = NULL
    BY <1>1, NotLocked DEF Fds
  <2> QED BY <2>1, <2>2, <2>3
<1>12. ReadyInv'
  <2> SUFFICES ASSUME NEW u \in Task, NEW m \in Fd, fdt'[u][m] \in File,
                      file'[fdt'[u][m]].opened = "no"
               PROVE  call'[u].pc = "chropen" /\ call'[u].file = fdt'[u][m]
    BY DEF ReadyInv, IsOpen
  <2>1. CASE u = t /\ m = n
    BY <1>2, <1>3, <1>4, <2>1
  <2>2. CASE u # t \/ m # n
    <3>1. fdt'[u][m] = fdt[u][m] /\ fdt[u][m] # f
      <4>1. <<u, m>> \in Users(fdt[u][m])
        BY DEF Users
      <4> QED BY <1>2, <1>5, <2>2, <4>1
    <3>2. call[u].pc = "chropen" /\ call[u].file = fdt[u][m]
      BY <1>4, <3>1 DEF ReadyInv, IsOpen
    <3> QED BY <1>2, <3>1, <3>2 DEF InWalk
  <2> QED BY <2>1, <2>2
<1> QED BY <1>1, <1>6, <1>7, <1>8, <1>9, <1>10, <1>11, <1>12, <1>0

\* Both ends of sys_open.
LEMMA SysOpenInv ==
  ASSUME TableInv, NEW t \in Task, sys_open(t)
  PROVE  /\ TableInv'
         /\ \/ Fds' = Fds
            \/ \E n \in Fd, i \in Inode : Fds[t][n] = NULL /\ Fds' = [Fds EXCEPT ![t][n] = i]
<1> USE DEF TableInv
<1> DEFINE i == inode[Result(t)]
<1>1. /\ InWalk(t) /\ NeedsFd(call[t].op) /\ call[t].iter \in Dentry
      /\ UNCHANGED <<pwd, root, chrdev, state>>
  BY DEF sys_open, AtEnd, InWalk, NeedsFd, WalkInv
<1>2. i \in Inode
  BY <1>1, TreeTypes DEF Result
<1>3. CASE NotFound(t) /\ UNCHANGED file
  BY <1>1, <1>3, NotFoundInv
<1>4. ASSUME ~ (NotFound(t) /\ UNCHANGED file)
      PROVE  \E f \in File :
        /\ file[f].ref = 0
        /\ fdt' = [fdt EXCEPT ![t][call[t].fd] = f]
        /\ file' = [file EXCEPT ![f] = NewFile(i)]
        /\ call' = IF i \in Dev
                   THEN [call EXCEPT ![t].pc = "chropen", ![t].file = f]
                   ELSE [call EXCEPT ![t] = AfterOpen(t)]
  <2> DEFINE f == CHOOSE g \in File : file[g].ref = 0
  <2>1. \E g \in File : file[g].ref = 0
    BY <1>4 DEF sys_open
  <2>2. f \in File /\ file[f].ref = 0
    BY <2>1
  <2> QED BY <1>4, <2>2 DEF sys_open, NewFile
<1>5. CASE ~ (NotFound(t) /\ UNCHANGED file)
  <2>1. PICK f \in File :
        /\ file[f].ref = 0
        /\ fdt' = [fdt EXCEPT ![t][call[t].fd] = f]
        /\ file' = [file EXCEPT ![f] = NewFile(i)]
        /\ call' = IF i \in Dev
                   THEN [call EXCEPT ![t].pc = "chropen", ![t].file = f]
                   ELSE [call EXCEPT ![t] = AfterOpen(t)]
    BY <1>4, <1>5
  <2>2. call[t] \in Rec
    BY DEF TableTypes
  <2> HIDE DEF i
  <2>3. \E r \in Rec :
         /\ call' = [call EXCEPT ![t] = r]
         /\ r.pc \in {"user", "chropen", "exec"} /\ (i \in Dev => r.pc = "chropen")
         /\ r.pc # "user" => r.fd = call[t].fd
         /\ r.pc = "chropen" => r.file = f /\ NeedsFd(r.op) /\ i \in Dev
         /\ r.pc # "chropen" => r.file = NULL
    <3>1. CASE i \in Dev
      <4> DEFINE r == [call[t] EXCEPT !.pc = "chropen", !.file = f]
      <4>1. call' = [call EXCEPT ![t] = r]
        BY <2>1, <3>1
      <4>2. /\ r \in Rec /\ r.pc = "chropen" /\ r.file = f /\ r.op = call[t].op
            /\ r.fd = call[t].fd
        BY ZenonT(40), <2>2 DEF Rec, Pc
      <4> HIDE DEF r
      <4> QED BY <1>1, <3>1, <4>1, <4>2
    <3>2. CASE i \notin Dev
      <4> DEFINE r == AfterOpen(t)
      <4>1. call' = [call EXCEPT ![t] = r]
        BY <2>1, <3>2
      <4>2. r \in Rec /\ r.pc \in {"user", "exec"} /\ r.file = NULL
            /\ (r.pc # "user" => r.fd = call[t].fd)
        <5>1. CASE call[t].op = "exec"
          BY <2>2, <5>1 DEF AfterOpen, Rec, Pc
        <5>2. CASE call[t].op # "exec"
          BY <5>2, UserType DEF AfterOpen
        <5> QED BY <5>1, <5>2
      <4> HIDE DEF r
      <4> QED BY <3>2, <4>1, <4>2
    <3> QED BY <3>1, <3>2
  <2>5. PICK r \in Rec :
         /\ call' = [call EXCEPT ![t] = r]
         /\ r.pc \in {"user", "chropen", "exec"} /\ (i \in Dev => r.pc = "chropen")
         /\ r.pc # "user" => r.fd = call[t].fd
         /\ r.pc = "chropen" => r.file = f /\ NeedsFd(r.op) /\ i \in Dev
         /\ r.pc # "chropen" => r.file = NULL
    BY <2>3
  <2>6. PICK j \in Inode : j = i
    BY <1>2 DEF i
  <2>7. /\ TableInv' /\ call[t].fd \in Fd /\ Fds[t][call[t].fd] = NULL
        /\ Fds' = [Fds EXCEPT ![t][call[t].fd] = j]
    <3>1. file' = [file EXCEPT ![f] = NewFile(j)]
      BY <2>1, <2>6
    <3>2. /\ r.pc = "chropen" => r.file = f /\ NeedsFd(r.op) /\ j \in Dev
          /\ j \in Dev => r.pc = "chropen"
      BY <2>5, <2>6
    <3>3. /\ fdt' = [fdt EXCEPT ![t][call[t].fd] = f] /\ file[f].ref = 0
          /\ InWalk(t) /\ NeedsFd(call[t].op) /\ UNCHANGED <<pwd, root, chrdev, state>>
      BY <1>1, <2>1
    <3> HIDE DEF TableInv
    <3> QED BY <2>5, <3>1, <3>2, <3>3, OpenedInv, Zenon
  <2> QED BY <2>7
<1> QED BY <1>3, <1>5

\* What becomes of the calls when a descriptor of t is closed: t is back in
\* its program or exits, and a program just loaded wakes its creator.
LEMMA ClosedInv ==
  ASSUME TableInv, NEW t \in Task, NEW n \in Fd, IsOpen(t, n), Close(t, n),
         file[fdt[t][n]].opened # "no", call[t].pc = "chropen" => call[t].file = fdt[t][n],
         UNCHANGED <<pwd, root, state>>, call' \in [Task -> Rec],
         call[t].pc # "execwait", ~ InWalk(t), state[t] = "run",
         call'[t].pc \in {"user", "exit"}, call'[t].file = NULL,
         \A u \in Task \ {t} :
            \/ call'[u] = call[u]
            \/ /\ call[t].pc = "load" /\ call[t].find = u
               /\ call'[u] = [call[u] EXCEPT !.pc = "execclose"]
  PROVE  /\ TableInv' /\ Fds' = [Fds EXCEPT ![t][n] = NULL]
<1> USE DEF TableInv
<1>1. /\ fdt' \in [Task -> [Fd -> File \cup {NULL, "locked"}]]
      /\ file' \in [File -> FileType] /\ chrdev' \in DevType
      /\ fdt'[t][n] = NULL
      /\ \A u \in Task, m \in Fd : u # t \/ m # n => fdt'[u][m] = fdt[u][m]
      /\ FileInv' /\ DeviceInUse'
      /\ Fds' = [Fds EXCEPT ![t][n] = NULL]
      /\ \A u \in Task, m \in Fd : (u # t \/ m # n) /\ IsOpen(u, m) => SameFile(fdt[u][m])
      /\ \A g \in File : g # fdt[t][n] => file'[g] = file[g]
  BY CloseInv
<1>2. TableTypes'
  BY <1>1 DEF TableTypes
<1>3. ASSUME NEW u \in Task, u # t
      PROVE  \/ call'[u] = call[u]
             \/ /\ call[u].pc = "execwait" /\ call'[u].pc = "execclose"
                /\ call'[u].fd = call[u].fd /\ call'[u].file = call[u].file
                /\ call[t].pc = "load" /\ call[t].find = u
  <2>1. CASE /\ call[t].pc = "load" /\ call[t].find = u
             /\ call'[u] = [call[u] EXCEPT !.pc = "execclose"]
    <3>1. call[u].pc = "execwait" /\ call[u] \in Rec
      BY <2>1 DEF TaskInv, TableTypes
    <3> QED BY <2>1, <3>1 DEF Rec
  <2> QED BY <1>3, <2>1
<1>4. WalkInv'
  <2>1. ASSUME NEW u \in Task, InWalk(u)' \/ InWalk(u) PROVE u # t /\ call'[u] = call[u]
    BY <2>1, <1>3 DEF InWalk
  <2>2. \A m \in Fd : fdt'[t][m] # "locked"
    <3>1. \A m \in Fd : fdt[t][m] # "locked"
      BY DEF WalkInv
    <3> QED BY <1>1, <3>1, NotLocked
  <2>3. \A u \in Task : InWalk(u)' <=> InWalk(u)
    BY <2>1 DEF InWalk
  <2> QED
    <3> SUFFICES ASSUME NEW u \in Task
                 PROVE
        /\ InWalk(u)' => /\ call'[u].iter \in Dentry /\ call'[u].top \in Dentry
                         /\ call'[u].op \in Walks
                         /\ call'[u].pc # "walk" =>
                              call'[u].base \in Dentry /\ call'[u].path # <<>>
                         /\ call'[u].pc = "inode" =>
                              call'[u].find \in OnDisk(call'[u].base, Head(call'[u].path))
        /\ \A m \in Fd : fdt'[u][m] = "locked" <=>
                           InWalk(u)' /\ NeedsFd(call'[u].op) /\ call'[u].fd = m
        /\ InWalk(u)' /\ NeedsFd(call'[u].op) => call'[u].fd \in Fd
      BY DEF WalkInv, InWalk
    <3>1. CASE InWalk(u)
      <4>1. u # t /\ call'[u] = call[u]
        BY <2>1, <3>1
      <4>2. \A m \in Fd : fdt'[u][m] = fdt[u][m]
        BY <1>1, <4>1
      <4>3. InWalk(u)'
        BY <2>3, <3>1
      <4>4. /\ call[u].iter \in Dentry /\ call[u].top \in Dentry /\ call[u].op \in Walks
            /\ call[u].pc # "walk" => call[u].base \in Dentry /\ call[u].path # <<>>
            /\ call[u].pc = "inode" =>
                 call[u].find \in OnDisk(call[u].base, Head(call[u].path))
            /\ NeedsFd(call[u].op) => call[u].fd \in Fd
        BY <3>1 DEF WalkInv
      <4>5. \A m \in Fd : fdt[u][m] = "locked" <=> NeedsFd(call[u].op) /\ call[u].fd = m
        BY <3>1 DEF WalkInv
      <4> QED BY <4>1, <4>2, <4>3, <4>4, <4>5
    <3>2. CASE ~ InWalk(u)
      <4>1. \A m \in Fd : fdt'[u][m] # "locked"
        BY <1>1, <2>2, <3>2 DEF WalkInv
      <4> QED BY <2>3, <3>2, <4>1
    <3> QED BY <3>1, <3>2
<1>5. OpenInv'
  <2>1. ASSUME NEW u \in Task, u # t, call'[u].pc = "chropen"
        PROVE  call'[u] = call[u] /\ file'[call[u].file] = file[call[u].file]
    <3>1. call'[u] = call[u]
      BY <1>3, <2>1
    <3>2. /\ call[u].fd \in Fd /\ call[u].file = fdt[u][call[u].fd] /\ call[u].file \in File
          /\ file[call[u].file].ref = 1
      BY <2>1, <3>1 DEF OpenInv, IsOpen
    <3>3. <<u, call[u].fd>> \in Users(call[u].file)
      BY <3>2 DEF Users
    <3>4. call[u].file # fdt[t][n]
      <4>1. <<t, n>> \in Users(fdt[t][n]) /\ <<t, n>> # <<u, call[u].fd>>
        BY <2>1 DEF Users
      <4>2. Users(call[u].file) = {<<u, call[u].fd>>}
        BY <3>2, <3>3, OneUser
      <4> QED BY <4>1, <4>2
    <3> QED BY <3>1, <3>2, <3>4, <1>1
  <2>2. \A u \in Task \ {t}, m \in Fd : IsOpen(u, m)' <=> IsOpen(u, m)
    BY <1>1 DEF IsOpen
  <2>3. \A u \in Task \ {t} : call'[u].file = call[u].file /\ call'[u].fd = call[u].fd
    BY <1>3
  <2>4. \A u \in Task \ {t} :
          call'[u].pc \in {"chropen", "exec", "execwait", "load", "execclose"} =>
             call[u].fd \in Fd /\ IsOpen(u, call[u].fd)
    BY <1>3 DEF OpenInv
  <2>5. \A u \in Task \ {t} : call[u].file # NULL => call'[u] = call[u]
    BY <1>3 DEF OpenInv
  <2>6. \A u \in Task \ {t}, m \in Fd : fdt'[u][m] = fdt[u][m]
    BY <1>1
  <2> QED
    <3> SUFFICES ASSUME NEW u \in Task, u # t
                 PROVE
        /\ call'[u].pc \in {"chropen", "exec", "execwait", "load", "execclose"} =>
             call'[u].fd \in Fd /\ IsOpen(u, call[u].fd)'
        /\ call'[u].pc = "chropen" =>
             /\ call'[u].file = fdt'[u][call'[u].fd] /\ NeedsFd(call'[u].op)
             /\ file'[call'[u].file].ref = 1 /\ file'[call'[u].file].inode \in Dev
        /\ call'[u].file # NULL =>
             call'[u].pc \in {"chropen", "io"} /\ \E m \in Fd : fdt'[u][m] = call'[u].file
      BY DEF OpenInv
    <3>1. call'[u].pc \in {"chropen", "exec", "execwait", "load", "execclose"} =>
             call'[u].fd \in Fd /\ IsOpen(u, call[u].fd)'
      BY <2>3, <2>4, <1>1 DEF IsOpen
    <3>2. call'[u].pc = "chropen" =>
             /\ call'[u].file = fdt'[u][call'[u].fd] /\ NeedsFd(call'[u].op)
             /\ file'[call'[u].file].ref = 1 /\ file'[call'[u].file].inode \in Dev
      BY <2>1, <2>6 DEF OpenInv
    <3>3. call'[u].file # NULL =>
             call'[u].pc \in {"chropen", "io"} /\ \E m \in Fd : fdt'[u][m] = call'[u].file
      BY <2>3, <2>5, <2>6 DEF OpenInv
    <3> QED BY <3>1, <3>2, <3>3
<1>6. TaskInv'
  <2>1. ASSUME NEW u \in Task, state[u] # "run"
        PROVE  call'[u].pc = "user" /\ \A m \in Fd : fdt'[u][m] = NULL
    BY <1>1, <1>3, <2>1 DEF TaskInv
  <2>2. ASSUME NEW u \in Task, call'[u].pc = "load"
        PROVE  /\ call'[u] = call[u] /\ call[u].find \in Task
               /\ call'[call[u].find].pc = "execwait"
    <3>1. u # t /\ call'[u] = call[u]
      BY <1>3, <2>2
    <3>2. call[u].find \in Task /\ call[call[u].find].pc = "execwait"
      BY <2>2, <3>1 DEF TaskInv
    <3>3. call[t].pc = "load" => call[t].find # call[u].find
      BY <2>2, <3>1 DEF TaskInv
    <3> QED BY <1>3, <3>1, <3>2, <3>3
  <2> QED BY <2>1, <2>2 DEF TaskInv
<1>7. ReadyInv'
  <2> SUFFICES ASSUME NEW u \in Task, NEW m \in Fd, fdt'[u][m] \in File,
                      file'[fdt'[u][m]].opened = "no"
               PROVE  call'[u].pc = "chropen" /\ call'[u].file = fdt'[u][m]
    BY DEF ReadyInv, IsOpen
  <2>1. (u # t \/ m # n) /\ fdt'[u][m] = fdt[u][m] /\ IsOpen(u, m)
    BY <1>1, NotLocked DEF IsOpen
  <2>2. file[fdt[u][m]].opened = "no"
    BY <1>1, <2>1 DEF SameFile
  <2>3. call[u].pc = "chropen" /\ call[u].file = fdt[u][m]
    BY <2>1, <2>2 DEF ReadyInv
  <2>4. u # t
    BY <2>2, <2>3
  <2> QED BY <1>3, <2>1, <2>3, <2>4
<1> QED BY <1>1, <1>2, <1>4, <1>5, <1>6, <1>7

\* A driver refuses the open: the descriptor is closed again.
LEMMA RefusedInv ==
  ASSUME TableInv, NEW t \in Task, chrdev_open(t), NotFound(t)
  PROVE  TableInv' /\ \E n \in Fd : Fds' = [Fds EXCEPT ![t][n] = NULL]
<1> USE DEF TableInv
<1>1. PICK n \in Fd : n = call[t].fd
  BY DEF chrdev_open, OpenInv
<1> DEFINE f == fdt[t][n]
<1>2. /\ call[t].pc = "chropen" /\ IsOpen(t, n) /\ call[t].file = f /\ NeedsFd(call[t].op)
      /\ file[f].ref = 1 /\ file[f].inode \in Dev /\ file[f].opened # "no"
  BY <1>1 DEF chrdev_open, OpenInv
<1>3. /\ fdt' = [fdt EXCEPT ![t][n] = NULL] /\ call' = [call EXCEPT ![t] = User]
      /\ UNCHANGED <<pwd, root, state>>
  BY <1>1, <1>2 DEF NotFound, chrdev_open
<1>4. fdt # fdt'
  BY <1>2, <1>3, NotLocked DEF IsOpen, TableTypes
<1>5. /\ chrdev' = [chrdev EXCEPT !.ref = @ - 1]
      /\ file' = [file EXCEPT ![f] = NoFile]
      /\ count' = iput(count, file[f].inode)
  BY <1>2, <1>4 DEF chrdev_open
<1>6. Close(t, n)
  BY <1>2, <1>3, <1>5 DEF Close, Closing, chrdev_close
<1>7. /\ call' \in [Task -> Rec] /\ call'[t] = User
      /\ \A u \in Task \ {t} : call'[u] = call[u]
  BY <1>3, UserType DEF TableTypes
<1>8. call[t].pc # "execwait" /\ ~ InWalk(t) /\ state[t] = "run"
  BY <1>2 DEF InWalk, TaskInv
<1> HIDE DEF f, TableInv
<1>9. call'[t].pc \in {"user", "exit"} /\ call'[t].file = NULL
  BY <1>7, UserType
<1>10. file[fdt[t][n]].opened # "no" /\ call[t].file = fdt[t][n]
  BY <1>2 DEF f
<1>11. TableInv' /\ Fds' = [Fds EXCEPT ![t][n] = NULL]
  BY <1>2, <1>3, <1>6, <1>7, <1>8, <1>9, <1>10, ClosedInv
<1> QED BY <1>11

\* The device is open: the file may be used.
LEMMA GrantedInv ==
  ASSUME TableInv, NEW t \in Task, call[t].pc = "chropen", chrdev.fops,
         file[call[t].file].opened = "counted",
         file' = [file EXCEPT ![call[t].file].opened = "yes"],
         call' = [call EXCEPT ![t] = AfterOpen(t)],
         UNCHANGED <<pwd, root, state, fdt, chrdev>>
  PROVE  TableInv' /\ Fds' = Fds
<1> USE DEF TableInv
<1> DEFINE f == call[t].file
           r == AfterOpen(t)
           q == [file[f] EXCEPT !.opened = "yes"]
<1>1. /\ call[t].fd \in Fd /\ IsOpen(t, call[t].fd) /\ f = fdt[t][call[t].fd] /\ f \in File
      /\ file[f].ref = 1 /\ file[f].inode \in Dev /\ file[f] \in FileType /\ call[t] \in Rec
      /\ state[t] = "run" /\ file[f].opened = "counted"
  BY DEF OpenInv, IsOpen, TableTypes, TaskInv
<1>2. q \in FileType /\ q.ref = file[f].ref /\ q.inode = file[f].inode /\ q.opened = "yes"
  BY <1>1 DEF FileType
<1>3. r \in Rec /\ r.pc \in {"user", "exec"} /\ r.file = NULL /\ (r.pc = "exec" => r.fd = call[t].fd)
  <2>1. CASE call[t].op = "exec"
    BY <1>1, <2>1 DEF AfterOpen, Rec, Pc
  <2>2. CASE call[t].op # "exec"
    BY <2>2, UserType DEF AfterOpen
  <2> QED BY <2>1, <2>2
<1>4. file' = [file EXCEPT ![f] = q] /\ call' = [call EXCEPT ![t] = r]
  BY <1>1 DEF TableTypes
<1> HIDE DEF f, r, q
<1>5. /\ file' \in [File -> FileType] /\ file'[f] = q
      /\ \A g \in File : g # f => file'[g] = file[g]
  <2>1. f \in File /\ file \in [File -> FileType] /\ q \in FileType
    BY <1>1, <1>2 DEF TableTypes, f
  <2> QED BY <2>1, <1>4
<1>6. /\ call' \in [Task -> Rec] /\ call'[t] = r
      /\ \A u \in Task : u # t => call'[u] = call[u]
  BY <1>3, <1>4 DEF TableTypes
<1>7. TableTypes'
  BY <1>5, <1>6 DEF TableTypes
<1>8. \A g \in File : file'[g].ref = file[g].ref /\ file'[g].inode = file[g].inode
  BY <1>2, <1>5
<1>9. WalkInv'
  <2>1. ~ InWalk(t) /\ ~ InWalk(t)'
    BY <1>3, <1>6 DEF InWalk
  <2> QED BY <1>6, <2>1 DEF WalkInv, InWalk
<1>10. OpenInv'
  <2>1. \A u \in Task : u # t /\ call[u].pc = "chropen" => call[u].file \in File
    BY DEF OpenInv, IsOpen
  <2> QED BY <1>1, <1>3, <1>6, <1>8, <2>1 DEF OpenInv, IsOpen
<1>11. TaskInv'
  BY <1>1, <1>3, <1>6 DEF TaskInv
<1>12. FileInv'
  BY <1>8 DEF FileInv, Users
<1>13. DeviceInUse'
  <2>1. \A g \in File : file'[g].opened = "no" <=> file[g].opened = "no"
    BY <1>1, <1>2, <1>5
  <2>2. DevFiles' = DevFiles
    BY <1>8, <2>1 DEF DevFiles
  <2> QED BY <1>5, <2>2 DEF DeviceInUse, DevFiles
<1>14. Fds' = Fds
  BY <1>8 DEF Fds
<1>15. ReadyInv'
  <2>1. \A g \in File : file'[g].opened = "no" => file[g].opened = "no" /\ g # f
    BY <1>1, <1>2, <1>5
  <2>2. f = call[t].file
    BY DEF f
  <2> QED BY <1>6, <2>1, <2>2 DEF ReadyInv, IsOpen
<1> QED BY <1>7, <1>9, <1>10, <1>11, <1>12, <1>13, <1>14, <1>15

\* The device counts a file.
LEMMA CountedInv ==
  ASSUME TableInv, NEW t \in Task, chrdev_count(t)
  PROVE  TableInv' /\ Fds' = Fds
<1> USE DEF TableInv
<1> DEFINE f == call[t].file
           q == [file[f] EXCEPT !.opened = "counted"]
           k == chrdev.ref + 1
<1>1. /\ call[t].fd \in Fd /\ IsOpen(t, call[t].fd) /\ f = fdt[t][call[t].fd] /\ f \in File
      /\ file[f].ref = 1 /\ file[f].inode \in Dev /\ file[f] \in FileType
      /\ file[f].opened = "no" /\ call[t].pc = "chropen"
  BY DEF chrdev_count, OpenInv, IsOpen, TableTypes
<1>2. q \in FileType /\ q.ref = file[f].ref /\ q.inode = file[f].inode /\ q.opened = "counted"
  BY <1>1 DEF FileType
<1>3. /\ file' = [file EXCEPT ![f] = q] /\ chrdev' = [chrdev EXCEPT !.ref = k]
      /\ UNCHANGED <<pwd, root, fdt, state, call>>
  BY <1>1 DEF chrdev_count, TableTypes
<1> HIDE DEF f, q, k
<1>4. /\ file' \in [File -> FileType] /\ file'[f] = q
      /\ \A g \in File : g # f => file'[g] = file[g]
  <2>1. file \in [File -> FileType]
    BY DEF TableTypes
  <2> QED BY <1>1, <1>2, <1>3, <2>1
<1>5. \A g \in File : file'[g].ref = file[g].ref /\ file'[g].inode = file[g].inode
  BY <1>2, <1>4
<1>6. /\ chrdev \in DevType /\ chrdev.ref = Cardinality(DevFiles) /\ chrdev.ref \in Nat
      /\ \A g \in File : file[g].ref > 0 /\ file[g].opened = "yes" /\ file[g].inode \in Dev
            => chrdev.fops
  BY DevFinite DEF DeviceInUse, TableTypes, DevFiles
<1>7. k \in Nat /\ k = Cardinality(DevFiles')
  <2>1. f \notin DevFiles /\ DevFiles' = DevFiles \cup {f}
    BY <1>1, <1>2, <1>4, <1>5 DEF DevFiles
  <2>2. Cardinality(DevFiles \cup {f}) = Cardinality(DevFiles) + 1
    BY <2>1, DevFinite, FS_AddElement
  <2> QED BY <1>6, <2>1, <2>2 DEF k
<1>8. chrdev' \in DevType /\ chrdev'.ref = k /\ chrdev'.fops = chrdev.fops
  BY <1>3, <1>6, <1>7, RefChange
<1>9. DeviceInUse'
  <2>1. \A g \in File : file'[g].ref > 0 /\ file'[g].opened = "yes" /\ file'[g].inode \in Dev
              => file[g].ref > 0 /\ file[g].opened = "yes" /\ file[g].inode \in Dev
    BY <1>2, <1>4
  <2> QED BY <1>6, <1>7, <1>8, <2>1 DEF DeviceInUse, DevFiles
<1>10. TableTypes'
  BY <1>3, <1>4, <1>8 DEF TableTypes
<1>11. WalkInv'
  BY <1>3 DEF WalkInv, InWalk
<1>12. OpenInv'
  <2>1. \A u \in Task : call[u].pc = "chropen" => call[u].file \in File
    BY DEF OpenInv, IsOpen
  <2> QED BY <1>3, <1>5, <2>1 DEF OpenInv, IsOpen
<1>13. TaskInv' /\ FileInv'
  BY <1>3, <1>5 DEF TaskInv, FileInv, Users
<1>14. ReadyInv'
  <2>1. \A g \in File : file'[g].opened = "no" => file[g].opened = "no"
    BY <1>2, <1>4
  <2> QED BY <1>3, <2>1 DEF ReadyInv, IsOpen
<1>15. Fds' = Fds
  BY <1>3, <1>5 DEF Fds
<1> QED BY <1>9, <1>10, <1>11, <1>12, <1>13, <1>14, <1>15

\* The calls that close a descriptor.
LEMMA CloseStepInv ==
  ASSUME TableInv, NEW t \in Task,
         \/ \E n \in Fd : sys_close(t, n) \/ exit_close(t, n)
         \/ exec_wrapper(t) \/ exec_close(t)
  PROVE  TableInv' /\ \E n \in Fd : Fds' = [Fds EXCEPT ![t][n] = NULL]
<1>0. TableTypes /\ OpenInv /\ TaskInv /\ ReadyInv
  BY DEF TableInv
<1>1. ASSUME NEW n \in Fd, sys_close(t, n) \/ exit_close(t, n)
      PROVE  TableInv' /\ Fds' = [Fds EXCEPT ![t][n] = NULL]
  <2>1. /\ call[t].pc \in {"user", "exit"} /\ IsOpen(t, n) /\ Close(t, n)
        /\ UNCHANGED <<pwd, root, state, call>>
    BY <1>1 DEF sys_close, exit_close, InUser
  <2>2. state[t] = "run" /\ call[t].pc # "execwait" /\ ~ InWalk(t) /\ call[t].file = NULL
    <3>1. state[t] = "run"
      BY <1>0, <1>1 DEF sys_close, exit_close, InUser, TaskInv
    <3> QED BY <1>0, <2>1, <3>1 DEF InWalk, OpenInv
  <2>3. /\ call' \in [Task -> Rec] /\ call'[t].pc \in {"user", "exit"} /\ call'[t].file = NULL
        /\ \A u \in Task \ {t} : call'[u] = call[u]
    BY <1>0, <2>1, <2>2 DEF TableTypes
  <2>4. file[fdt[t][n]].opened # "no" /\ call[t].pc # "chropen"
    BY <1>0, <2>1 DEF ReadyInv
  <2> QED BY <2>1, <2>2, <2>3, <2>4, ClosedInv
<1>2. ASSUME exec_close(t) \/ exec_wrapper(t)
      PROVE  TableInv' /\ \E n \in Fd : Fds' = [Fds EXCEPT ![t][n] = NULL]
  <2>1. PICK n \in Fd : n = call[t].fd
    BY <1>0, <1>2 DEF OpenInv, exec_close, exec_wrapper
  <2>2. /\ call[t].pc \in {"exec", "execclose", "load"} /\ IsOpen(t, n) /\ Close(t, n)
        /\ UNCHANGED <<pwd, root, state>>
    BY <1>0, <1>2, <2>1 DEF OpenInv, exec_close, exec_wrapper
  <2>3. state[t] = "run" /\ call[t].pc # "execwait" /\ ~ InWalk(t)
    BY <1>0, <2>2 DEF InWalk, TaskInv
  <2>4. \A x \in {"user", "exit"} : [User EXCEPT !.pc = x] \in Rec
           /\ [User EXCEPT !.pc = x].pc = x /\ [User EXCEPT !.pc = x].file = NULL
    BY UserType DEF Rec, Pc
  <2>5. /\ call' \in [Task -> Rec] /\ call'[t].pc \in {"user", "exit"} /\ call'[t].file = NULL
        /\ \A u \in Task \ {t} :
             \/ call'[u] = call[u]
             \/ /\ call[t].pc = "load" /\ call[t].find = u
                /\ call'[u] = [call[u] EXCEPT !.pc = "execclose"]
    <3>1. CASE exec_close(t)
      <4>1. call' = [call EXCEPT ![t] = User]
        BY <3>1 DEF exec_close
      <4> QED BY <1>0, <4>1, UserType DEF TableTypes
    <3>2. CASE exec_wrapper(t)
      <4> DEFINE u == call[t].find
      <4>1. PICK x \in {"user", "exit"} :
              call' = [call EXCEPT ![u].pc = "execclose", ![t] = [User EXCEPT !.pc = x]]
        BY <3>2 DEF exec_wrapper
      <4>2. /\ call[t].pc = "load" /\ u \in Task /\ call[u].pc = "execwait" /\ u # t
            /\ call[u] \in Rec
        BY <1>0, <3>2 DEF exec_wrapper, TaskInv, TableTypes
      <4> HIDE DEF u
      <4>3. [call[u] EXCEPT !.pc = "execclose"] \in Rec
        BY <4>2 DEF Rec, Pc
      <4>4. call' = [call EXCEPT ![u] = [call[u] EXCEPT !.pc = "execclose"],
                                 ![t] = [User EXCEPT !.pc = x]]
        BY <4>1, <4>2, <1>0 DEF TableTypes
      <4>5. /\ call' \in [Task -> Rec] /\ call'[t] = [User EXCEPT !.pc = x]
            /\ call'[u] = [call[u] EXCEPT !.pc = "execclose"]
            /\ \A v \in Task : v # t /\ v # u => call'[v] = call[v]
        BY <1>0, <2>4, <4>2, <4>3, <4>4 DEF TableTypes
      <4> QED BY <2>4, <4>2, <4>5 DEF u
    <3> QED BY <1>2, <3>1, <3>2
  <2>6. file[fdt[t][n]].opened # "no" /\ call[t].pc # "chropen"
    BY <1>0, <2>2 DEF ReadyInv
  <2> QED BY <2>2, <2>3, <2>5, <2>6, ClosedInv
<1> QED BY <1>1, <1>2

\* Files whose counts grow only: they are the same files, and the device has
\* as many.
LEMMA GrownInv ==
  ASSUME TableTypes, FileInv, DeviceInUse, UNCHANGED chrdev,
         file' \in [File -> FileType],
         \A g \in File :
           /\ file'[g].inode = file[g].inode /\ file'[g].opened = file[g].opened
           /\ file'[g].ref >= file[g].ref
           /\ file[g].ref = 0 => file'[g].ref = 0
           /\ file'[g].ref >= Cardinality(Users(g)')
  PROVE  FileInv' /\ DeviceInUse'
<1>1. \A g \in File : file'[g].ref > 0 <=> file[g].ref > 0
  BY DEF TableTypes, FileType
<1>2. FileInv'
  BY <1>1 DEF FileInv
<1>3. DevFiles' = DevFiles
  BY <1>1 DEF DevFiles
<1>4. chrdev.ref = Cardinality(DevFiles)
  BY DEF DeviceInUse, DevFiles
<1>5. DeviceInUse'
  <2>1. chrdev'.ref = Cardinality(DevFiles')
    BY <1>3, <1>4
  <2>2. \A f \in File : file[f].ref > 0 /\ file[f].opened = "yes" /\ file[f].inode \in Dev => chrdev.fops
    BY DEF DeviceInUse
  <2>3. \A f \in File : file'[f].ref > 0 /\ file'[f].opened = "yes" /\ file'[f].inode \in Dev => chrdev'.fops
    BY <1>1, <2>2
  <2> QED BY <2>1, <2>3 DEF DeviceInUse, DevFiles
<1> QED BY <1>2, <1>5

\* sys_dup and sys_dup2: one more descriptor on a file that has one.
LEMMA DupInv ==
  ASSUME TableInv, NEW t \in Task, NEW old \in Fd, NEW new \in Fd,
         sys_dup(t, old, new) \/ sys_dup2(t, old, new)
  PROVE  /\ TableInv' /\ Fds[t][old] # NULL
         /\ Fds' = [Fds EXCEPT ![t][new] = Fds[t][old]]
<1> USE DEF TableInv
<1> DEFINE f == fdt[t][old]
           k == file[f].ref + 1
           q == [file[f] EXCEPT !.ref = k]
<1>1. /\ f \in File /\ state[t] = "run" /\ call[t].pc = "user"
      /\ fdt' = [fdt EXCEPT ![t][new] = f]
      /\ file' = [file EXCEPT ![f] = q]
      /\ UNCHANGED <<pwd, root, chrdev, state, call>>
  BY DEF sys_dup, sys_dup2, InUser, IsOpen
<1>2. <<t, old>> \in Users(f) /\ file[f] \in FileType /\ file[f].ref \in Nat
  BY <1>1 DEF Users, TableTypes, FileType
<1>3. file[f].ref > 0 /\ k \in Nat
  BY <1>1, <1>2, UsedRef
<1>4. /\ q \in FileType /\ q.ref = k /\ q.inode = file[f].inode /\ q.opened = file[f].opened
  BY <1>2, <1>3, RefChange
<1>5. file[f].inode \in Inode
  BY <1>1, <1>3 DEF FileInv
<1> HIDE DEF f, q
<1>6. /\ file' \in [File -> FileType] /\ file'[f] = q
      /\ \A g \in File : g # f => file'[g] = file[g]
  <2>1. file \in [File -> FileType]
    BY DEF TableTypes
  <2> QED BY <1>1, <1>4, <2>1
<1>7. /\ fdt' \in [Task -> [Fd -> File \cup {NULL, "locked"}]]
      /\ fdt'[t][new] = f
      /\ \A u \in Task, m \in Fd : u # t \/ m # new => fdt'[u][m] = fdt[u][m]
  <2>1. fdt \in [Task -> [Fd -> File \cup {NULL, "locked"}]]
    BY DEF TableTypes
  <2> QED BY <1>1, <2>1
<1>8. TableTypes'
  BY <1>1, <1>6, <1>7 DEF TableTypes
<1>9. \A m \in Fd : fdt[t][m] # "locked" /\ fdt'[t][m] # "locked"
  <2>1. \A m \in Fd : fdt[t][m] # "locked"
    BY <1>1 DEF WalkInv, InWalk
  <2> QED BY <1>1, <1>7, <2>1, NotLocked
<1>10. WalkInv'
  <2>1. ~ InWalk(t) /\ ~ InWalk(t)'
    BY <1>1 DEF InWalk
  <2>2. \A u \in Task : InWalk(u)' <=> InWalk(u)
    BY <1>1 DEF InWalk
  <2>3. \A u \in Task, m \in Fd : fdt'[u][m] = "locked" <=> fdt[u][m] = "locked"
    BY <1>7, <1>9
  <2> QED BY <1>1, <2>1, <2>2, <2>3 DEF WalkInv
<1>11. OpenInv'
  <2>1. ASSUME NEW u \in Task, call[u].pc = "chropen"
        PROVE  call[u].file \in File /\ call[u].file # f
    <3>1. /\ call[u].fd \in Fd /\ call[u].file = fdt[u][call[u].fd] /\ call[u].file \in File
          /\ file[call[u].file].ref = 1
      BY <2>1 DEF OpenInv, IsOpen
    <3>2. <<u, call[u].fd>> \in Users(call[u].file) /\ u # t
      BY <1>1, <2>1, <3>1 DEF Users
    <3>3. Users(call[u].file) = {<<u, call[u].fd>>}
      BY <3>1, <3>2, OneUser
    <3> QED BY <1>2, <3>1, <3>2, <3>3
  <2>2. \A u \in Task : call[u].pc = "chropen" => file'[call[u].file] = file[call[u].file]
    BY <1>6, <2>1
  <2>3. call[t].file = NULL
    BY <1>1 DEF OpenInv
  <2>4. \A u \in Task, m \in Fd : u # t => fdt'[u][m] = fdt[u][m] /\ (IsOpen(u, m)' <=> IsOpen(u, m))
    BY <1>7 DEF IsOpen
  <2> QED
    <3> SUFFICES ASSUME NEW u \in Task, u # t
                 PROVE
        /\ call[u].pc \in {"chropen", "exec", "execwait", "load", "execclose"} =>
             call[u].fd \in Fd /\ IsOpen(u, call[u].fd)'
        /\ call[u].pc = "chropen" =>
             /\ call[u].file = fdt'[u][call[u].fd] /\ NeedsFd(call[u].op)
             /\ file'[call[u].file].ref = 1 /\ file'[call[u].file].inode \in Dev
        /\ call[u].file # NULL =>
             call[u].pc \in {"chropen", "io"} /\ \E m \in Fd : fdt'[u][m] = call[u].file
      BY <1>1, <2>3 DEF OpenInv
    <3>1. call[u].pc \in {"chropen", "exec", "execwait", "load", "execclose"} =>
             call[u].fd \in Fd /\ IsOpen(u, call[u].fd)'
      BY <1>1, <2>4 DEF OpenInv, IsOpen
    <3>2. call[u].pc = "chropen" =>
             /\ call[u].file = fdt'[u][call[u].fd] /\ NeedsFd(call[u].op)
             /\ file'[call[u].file].ref = 1 /\ file'[call[u].file].inode \in Dev
      BY <2>2, <2>4 DEF OpenInv
    <3>3. call[u].file # NULL =>
             call[u].pc \in {"chropen", "io"} /\ \E m \in Fd : fdt'[u][m] = call[u].file
      BY <2>4 DEF OpenInv
    <3> QED BY <3>1, <3>2, <3>3
<1>12. TaskInv'
  <2>1. \A u \in Task : state[u] # "run" => u # t
    BY <1>1
  <2> QED BY <1>1, <1>7, <2>1 DEF TaskInv
<1>13. FileInv' /\ DeviceInUse'
  <2>1. ASSUME NEW g \in File
        PROVE  /\ file'[g].inode = file[g].inode /\ file'[g].opened = file[g].opened
               /\ file'[g].ref >= file[g].ref
               /\ file[g].ref = 0 => file'[g].ref = 0
               /\ file'[g].ref >= Cardinality(Users(g)')
    <3>1. file[g].ref \in Nat /\ file[g].ref >= Cardinality(Users(g))
      BY DEF TableTypes, FileType, FileInv
    <3>2. CASE g = f
      <4>1. Users(g)' \in SUBSET (Users(g) \cup {<<t, new>>})
        BY <1>7, <3>2 DEF Users
      <4>2. Cardinality(Users(g)') <= Cardinality(Users(g)) + 1
        BY <4>1, UsersFinite, CountMore
      <4>3. Cardinality(Users(g)') \in Nat
        <5>1. IsFiniteSet(Users(g) \cup {<<t, new>>})
          BY UsersFinite, FS_AddElement
        <5> QED BY <4>1, <5>1, CountBelow
      <4> QED BY <1>3, <1>4, <1>6, <3>1, <3>2, <4>2, <4>3, UsersFinite
    <3>3. CASE g # f
      <4>1. Users(g)' \in SUBSET Users(g)
        BY <1>7, <3>3 DEF Users
      <4>2. Cardinality(Users(g)') <= Cardinality(Users(g)) /\ Cardinality(Users(g)') \in Nat
        BY <4>1, UsersFinite, CountBelow
      <4> QED BY <1>6, <3>1, <3>3, <4>2, UsersFinite
    <3> QED BY <3>2, <3>3
  <2> QED BY <1>1, <1>6, <2>1, GrownInv
<1>16. ReadyInv'
  <2> SUFFICES ASSUME NEW u \in Task, NEW m \in Fd, fdt'[u][m] \in File,
                      file'[fdt'[u][m]].opened = "no"
               PROVE  call[u].pc = "chropen" /\ call[u].file = fdt'[u][m]
    BY <1>1 DEF ReadyInv, IsOpen
  <2>1. file[f].opened # "no"
    BY <1>1 DEF ReadyInv, IsOpen, f
  <2>2. fdt'[u][m] # f
    BY <1>4, <1>6, <2>1
  <2> QED BY <1>6, <1>7, <2>2 DEF ReadyInv, IsOpen
<1>14. Fds[t][old] = file[f].inode /\ Fds[t][old] # NULL
  BY <1>1, <1>5, NotLocked DEF Fds, f
<1>15. Fds' = [Fds EXCEPT ![t][new] = Fds[t][old]]
  <2>1. \A g \in File : file'[g].inode = file[g].inode
    BY <1>4, <1>6
  <2>2. \A u \in Task, m \in Fd :
          Fds'[u][m] = IF u = t /\ m = new THEN file[f].inode ELSE Fds[u][m]
    <3> SUFFICES ASSUME NEW u \in Task, NEW m \in Fd
                 PROVE  Fds'[u][m] = IF u = t /\ m = new THEN file[f].inode ELSE Fds[u][m]
      OBVIOUS
    <3>1. CASE u = t /\ m = new
      BY <1>1, <1>7, <2>1, <3>1 DEF Fds
    <3>2. CASE u # t \/ m # new
      BY <1>7, <2>1, <3>2 DEF Fds
    <3> QED BY <3>1, <3>2
  <2>3. Fds \in [Task -> [Fd -> Inode \cup {NULL}]] /\ Fds' \in [Task -> [Fd -> Inode \cup {NULL}]]
    BY <1>6 DEF Fds, TableTypes, FileType
  <2> QED BY <1>14, <2>2, <2>3
<1> QED BY <1>8, <1>10, <1>11, <1>12, <1>13, <1>14, <1>15, <1>16

\* The descriptors a new task takes over.
LEMMA Inherit ==
  ASSUME NEW t \in Task, NEW c \in Task, NEW g,
         fdt \in [Task -> [Fd -> File \cup {NULL, "locked"}]],
         fdt' = [fdt EXCEPT ![c] = fdt[t]]
  PROVE  /\ Cardinality(Users(g)') <= Cardinality(Users(g)) + Inherited(t, g)
         /\ Inherited(t, g) \in Nat /\ Cardinality(Users(g)') \in Nat
         /\ Inherited(t, g) > 0 => \E n \in Fd : fdt[t][n] = g
<1> DEFINE S == {n \in Fd : fdt[t][n] = g}
           T == {c} \X S
<1>1. IsFiniteSet(Fd)
  BY FS_Interval, BoundAssumption DEF Fd
<1>2. IsFiniteSet(S) /\ Cardinality(S) \in Nat /\ Inherited(t, g) = Cardinality(S)
  <2>1. S \in SUBSET Fd
    OBVIOUS
  <2> HIDE DEF S
  <2>2. IsFiniteSet(S) /\ Cardinality(S) \in Nat
    BY <1>1, <2>1, CountBelow
  <2> QED BY <2>2 DEF Inherited, Slots, S
<1>3. Users(g)' \in SUBSET (Users(g) \cup T)
  BY DEF Users
<1>4. Inherited(t, g) > 0 => \E n \in Fd : fdt[t][n] = g
  <2>1. S = {} => Cardinality(S) = 0
    BY FS_EmptySet
  <2> QED BY <1>2, <2>1
<1> HIDE DEF S
<1>5. IsFiniteSet(T) /\ Cardinality(T) = Cardinality(S)
  <2>1. IsFiniteSet({c}) /\ Cardinality({c}) = 1
    BY FS_Singleton
  <2>2. IsFiniteSet(T) /\ Cardinality(T) = Cardinality({c}) * Cardinality(S)
    BY <1>2, <2>1, FS_Product
  <2> QED BY <1>2, <2>1, <2>2
<1> HIDE DEF T
<1>6. /\ IsFiniteSet(Users(g) \cup T)
      /\ Cardinality(Users(g) \cup T) =
           Cardinality(Users(g)) + Cardinality(T) - Cardinality(Users(g) \cap T)
  BY <1>5, UsersFinite, FS_Union
<1>7. Cardinality(Users(g) \cap T) \in Nat
  BY UsersFinite, FS_Intersection, FS_CardinalityType
<1>8. /\ Cardinality(Users(g)') <= Cardinality(Users(g) \cup T)
      /\ Cardinality(Users(g)') \in Nat /\ Cardinality(Users(g) \cup T) \in Nat
  BY <1>3, <1>6, CountBelow
<1> QED BY <1>2, <1>4, <1>5, <1>6, <1>7, <1>8, UsersFinite

\* What kernel_thread does to a file.
LEMMA ExecFiles ==
  ASSUME TableInv, NEW t \in Task, NEW c \in Task, sys_exec(t, c), NEW g \in File
  PROVE  /\ file'[g] \in FileType
         /\ file'[g].inode = file[g].inode /\ file'[g].opened = file[g].opened
         /\ file'[g].ref >= file[g].ref
         /\ file[g].ref = 0 => file'[g].ref = 0
         /\ file'[g].ref >= Cardinality(Users(g)')
         /\ file'[g].ref = file[g].ref + Inherited(t, g)
         /\ Inherited(t, g) \in Nat
         /\ Inherited(t, g) > 0 => \E n \in Fd : fdt[t][n] = g
<1> USE DEF TableInv
<1> DEFINE k == file[g].ref + Inherited(t, g)
<1>1. file[g] \in FileType /\ file[g].ref \in Nat /\ file[g].ref >= Cardinality(Users(g))
  BY DEF TableTypes, FileType, FileInv
<1>2. /\ fdt \in [Task -> [Fd -> File \cup {NULL, "locked"}]]
      /\ fdt' = [fdt EXCEPT ![c] = fdt[t]]
  BY DEF TableTypes, sys_exec
<1>3. /\ Cardinality(Users(g)') <= Cardinality(Users(g)) + Inherited(t, g)
      /\ Inherited(t, g) \in Nat /\ Cardinality(Users(g)') \in Nat
      /\ Inherited(t, g) > 0 => \E n \in Fd : fdt[t][n] = g
  BY <1>2, Inherit
<1>4. k \in Nat
  BY <1>1, <1>3
<1>5. file'[g] = [file[g] EXCEPT !.ref = k]
  BY DEF sys_exec
<1>6. file'[g] \in FileType /\ file'[g].ref = k /\ file'[g].inode = file[g].inode
      /\ file'[g].opened = file[g].opened
  BY <1>1, <1>4, <1>5, RefChange
<1>7. file[g].ref = 0 => Inherited(t, g) = 0
  <2>1. ASSUME Inherited(t, g) > 0 PROVE file[g].ref > 0
    <3>1. PICK n \in Fd : fdt[t][n] = g
      BY <1>3, <2>1
    <3>2. <<t, n>> \in Users(g)
      BY <3>1 DEF Users
    <3> QED BY <3>2, UsedRef
  <2> QED BY <1>1, <1>3, <2>1
<1> QED BY <1>1, <1>3, <1>6, <1>7, UsersFinite

\* A new task shares the files of its creator, who waits for it.
LEMMA ExecInv ==
  ASSUME TableInv, NEW t \in Task, NEW c \in Task, sys_exec(t, c)
  PROVE  /\ TableInv' /\ Fds[c] = [n \in Fd |-> NULL]
         /\ Fds' = [Fds EXCEPT ![c] = Fds[t]]
<1> USE DEF TableInv
<1> DEFINE r == [call[t] EXCEPT !.pc = "execwait"]
           s == [User EXCEPT !.pc = "load", !.fd = call[t].fd, !.find = t]
<1>1. /\ call[t].pc = "exec" /\ state[t] = "run" /\ state[c] = "none" /\ c # t
      /\ call[c].pc = "user" /\ \A n \in Fd : fdt[c][n] = NULL
      /\ call[t] \in Rec /\ call[t].fd \in Fd /\ IsOpen(t, call[t].fd)
      /\ call[t].file = NULL /\ call[c].file = NULL
  BY DEF sys_exec, TaskInv, OpenInv, TableTypes
<1>2. /\ fdt' = [fdt EXCEPT ![c] = fdt[t]]
      /\ file' = [g \in File |-> [file[g] EXCEPT !.ref = file[g].ref + Inherited(t, g)]]
      /\ state' = [state EXCEPT ![c] = "run"]
      /\ pwd' = [pwd EXCEPT ![c] = pwd[t]] /\ root' = [root EXCEPT ![c] = root[t]]
      /\ UNCHANGED chrdev
  BY DEF sys_exec
<1>3. call' = [call EXCEPT ![t] = r, ![c] = s]
  BY DEF sys_exec
<1>4. /\ r \in Rec /\ r.pc = "execwait" /\ r.fd = call[t].fd /\ r.file = NULL
      /\ s \in Rec /\ s.pc = "load" /\ s.fd = call[t].fd /\ s.find = t /\ s.file = NULL
  <2>1. r \in Rec /\ r.pc = "execwait" /\ r.fd = call[t].fd /\ r.file = NULL
    BY <1>1 DEF Rec, Pc
  <2>2. s.pc = "load" /\ s.fd = call[t].fd /\ s.find = t /\ s.file = NULL
    BY UserType DEF Rec
  <2>3. "load" \in Pc /\ call[t].fd \in Fd \cup {-1} /\ t \in Dentry \cup Task \cup {NULL}
    BY <1>1 DEF Pc
  <2>4. s \in Rec
    BY <2>3, UserType DEF Rec
  <2> QED BY <2>1, <2>2, <2>4
<1> HIDE DEF r, s
<1>5. /\ call' \in [Task -> Rec] /\ call'[t] = r /\ call'[c] = s
      /\ \A u \in Task : u # t /\ u # c => call'[u] = call[u]
  <2>1. call \in [Task -> Rec]
    BY DEF TableTypes
  <2> QED BY <1>1, <1>3, <1>4, <2>1
<1>6. /\ fdt \in [Task -> [Fd -> File \cup {NULL, "locked"}]]
      /\ fdt' \in [Task -> [Fd -> File \cup {NULL, "locked"}]]
      /\ fdt'[c] = fdt[t] /\ \A u \in Task : u # c => fdt'[u] = fdt[u]
  <2>1. fdt \in [Task -> [Fd -> File \cup {NULL, "locked"}]]
    BY DEF TableTypes
  <2> QED BY <1>2, <2>1
<1>7. ASSUME NEW g \in File
      PROVE  /\ file'[g] \in FileType
             /\ file'[g].inode = file[g].inode /\ file'[g].opened = file[g].opened
             /\ file'[g].ref >= file[g].ref
             /\ file[g].ref = 0 => file'[g].ref = 0
             /\ file'[g].ref >= Cardinality(Users(g)')
             /\ file'[g].ref = file[g].ref + Inherited(t, g)
             /\ Inherited(t, g) \in Nat
             /\ Inherited(t, g) > 0 => \E n \in Fd : fdt[t][n] = g
  BY ExecFiles
<1>8. file' \in [File -> FileType]
  BY <1>2, <1>7
<1>9. TableTypes'
  <2>1. /\ pwd \in [Task -> Dentry] /\ root \in [Task -> Dentry]
        /\ state \in [Task -> {"none", "run", "dead"}] /\ chrdev \in DevType
    BY DEF TableTypes
  <2>2. /\ pwd' \in [Task -> Dentry] /\ root' \in [Task -> Dentry]
        /\ state' \in [Task -> {"none", "run", "dead"}] /\ chrdev' \in DevType
    BY <1>2, <2>1
  <2> QED BY <1>5, <1>6, <1>8, <2>2 DEF TableTypes
<1>10. WalkInv'
  <2>1. ~ InWalk(t) /\ ~ InWalk(c) /\ ~ InWalk(t)' /\ ~ InWalk(c)'
    BY <1>1, <1>4, <1>5 DEF InWalk
  <2>2. \A m \in Fd : fdt'[t][m] # "locked" /\ fdt'[c][m] # "locked"
    <3>1. \A m \in Fd : fdt[t][m] # "locked"
      BY <2>1 DEF WalkInv
    <3> QED BY <1>1, <1>6, <3>1
  <2>3. \A u \in Task : u # t /\ u # c => call'[u] = call[u] /\ fdt'[u] = fdt[u]
                           /\ (InWalk(u)' <=> InWalk(u))
    BY <1>5, <1>6 DEF InWalk
  <2> QED BY <2>1, <2>2, <2>3 DEF WalkInv
<1>11. OpenInv'
  <2>1. ASSUME NEW u \in Task, u # t, call[u].pc = "chropen"
        PROVE  file'[call[u].file].ref = 1 /\ file'[call[u].file].inode \in Dev
    <3>1. /\ call[u].fd \in Fd /\ call[u].file = fdt[u][call[u].fd] /\ call[u].file \in File
          /\ file[call[u].file].ref = 1 /\ file[call[u].file].inode \in Dev
      BY <2>1 DEF OpenInv, IsOpen
    <3>2. <<u, call[u].fd>> \in Users(call[u].file)
      BY <3>1 DEF Users
    <3>3. Users(call[u].file) = {<<u, call[u].fd>>}
      BY <3>1, <3>2, OneUser
    <3>4. \A n \in Fd : fdt[t][n] # call[u].file
      <4>1. \A n \in Fd : fdt[t][n] = call[u].file => <<t, n>> \in Users(call[u].file)
        BY DEF Users
      <4> QED BY <2>1, <3>3, <4>1
    <3>5. Inherited(t, call[u].file) = 0
      <4>1. PICK g \in File : g = call[u].file
        BY <3>1
      <4>2. /\ Inherited(t, g) \in Nat
            /\ Inherited(t, g) > 0 => \E n \in Fd : fdt[t][n] = g
        BY <1>7
      <4>3. Inherited(t, g) = 0
        BY <3>4, <4>1, <4>2
      <4> QED BY <4>1, <4>3
    <3> QED BY <3>1, <3>5, <1>7
  <2>2. fdt'[t] = fdt[t] /\ IsOpen(t, call[t].fd)' /\ IsOpen(c, call[t].fd)'
    BY <1>1, <1>4, <1>5, <1>6 DEF IsOpen
  <2>3. \A u \in Task : u # t /\ u # c => call'[u] = call[u] /\ fdt'[u] = fdt[u]
    BY <1>5, <1>6
  <2> QED
    <3> SUFFICES ASSUME NEW u \in Task
                 PROVE
        /\ call'[u].pc \in {"chropen", "exec", "execwait", "load", "execclose"} =>
             call'[u].fd \in Fd /\ fdt'[u][call'[u].fd] \in File
        /\ call'[u].pc = "chropen" =>
             /\ call'[u].file = fdt'[u][call'[u].fd] /\ NeedsFd(call'[u].op)
             /\ file'[call'[u].file].ref = 1 /\ file'[call'[u].file].inode \in Dev
        /\ call'[u].file # NULL =>
             call'[u].pc \in {"chropen", "io"} /\ \E m \in Fd : fdt'[u][m] = call'[u].file
      BY DEF OpenInv, IsOpen
    <3>1. CASE u = t
      BY <3>1, <1>1, <1>4, <1>5, <1>6 DEF IsOpen
    <3>2. CASE u = c
      BY <3>2, <1>1, <1>4, <1>5, <1>6 DEF IsOpen
    <3>3. CASE u # t /\ u # c
      <4>1. call'[u] = call[u] /\ fdt'[u] = fdt[u]
        BY <2>3, <3>3
      <4>2. /\ call[u].pc \in {"chropen", "exec", "execwait", "load", "execclose"} =>
                 call[u].fd \in Fd /\ fdt[u][call[u].fd] \in File
            /\ call[u].pc = "chropen" =>
                 call[u].file = fdt[u][call[u].fd] /\ NeedsFd(call[u].op)
            /\ call[u].file # NULL =>
                 call[u].pc \in {"chropen", "io"} /\ \E m \in Fd : fdt[u][m] = call[u].file
        BY DEF OpenInv, IsOpen
      <4> QED BY <2>1, <3>3, <4>1, <4>2
    <3> QED BY <3>1, <3>2, <3>3
<1>12. TaskInv'
  <2>1. ASSUME NEW u \in Task, state'[u] # "run"
        PROVE  call'[u].pc = "user" /\ \A n \in Fd : fdt'[u][n] = NULL
    <3>1. state \in [Task -> {"none", "run", "dead"}]
      BY DEF TableTypes
    <3>2. u # t /\ u # c /\ state[u] # "run"
      BY <1>1, <1>2, <2>1, <3>1
    <3> QED BY <1>5, <1>6, <3>2 DEF TaskInv
  <2>2. ASSUME NEW u \in Task, call'[u].pc = "load", u # c
        PROVE  /\ call'[u] = call[u] /\ call[u].pc = "load"
               /\ call[u].find \in Task /\ call[u].find # t /\ call[u].find # c
               /\ call'[call[u].find] = call[call[u].find]
               /\ call[call[u].find].pc = "execwait"
    <3>1. u # t /\ call'[u] = call[u]
      BY <1>4, <1>5, <2>2
    <3>2. call[u].find \in Task /\ call[call[u].find].pc = "execwait"
      BY <2>2, <3>1 DEF TaskInv
    <3> QED BY <1>1, <1>5, <2>2, <3>1, <3>2
  <2>3. ASSUME NEW u \in Task, call'[u].pc = "load"
        PROVE  /\ call'[u].find \in Task /\ call'[call'[u].find].pc = "execwait"
               /\ \A v \in Task : call'[v].pc = "load" /\ call'[v].find = call'[u].find => v = u
    <3>1. CASE u = c
      BY <3>1, <1>4, <1>5, <2>2
    <3>2. CASE u # c
      <4>1. ASSUME NEW v \in Task, call'[v].pc = "load", call'[v].find = call'[u].find
            PROVE  v = u
        <5>1. v # c
          BY <1>4, <1>5, <2>2, <2>3, <3>2, <4>1
        <5>2. call[v].pc = "load" /\ call[u].pc = "load" /\ call[v].find = call[u].find
          BY <2>2, <2>3, <3>2, <4>1, <5>1
        <5> QED BY <5>2 DEF TaskInv
      <4> QED BY <2>2, <2>3, <3>2, <4>1
    <3> QED BY <3>1, <3>2
  <2> QED BY <2>1, <2>3 DEF TaskInv
<1>13. FileInv' /\ DeviceInUse'
  BY <1>2, <1>7, <1>8, GrownInv
<1>16. ReadyInv'
  <2> SUFFICES ASSUME NEW u \in Task, NEW m \in Fd, fdt'[u][m] \in File,
                      file'[fdt'[u][m]].opened = "no"
               PROVE  call'[u].pc = "chropen" /\ call'[u].file = fdt'[u][m]
    BY DEF ReadyInv, IsOpen
  <2>1. \A n \in Fd : IsOpen(t, n) => file[fdt[t][n]].opened # "no"
    BY <1>1 DEF ReadyInv
  <2>2. u # t /\ u # c
    BY <1>6, <1>7, <2>1 DEF IsOpen
  <2>3. file[fdt[u][m]].opened = "no" /\ IsOpen(u, m) /\ fdt'[u][m] = fdt[u][m]
    BY <1>6, <1>7, <2>2 DEF IsOpen
  <2> QED BY <1>5, <2>2, <2>3 DEF ReadyInv
<1>14. Fds[c] = [n \in Fd |-> NULL]
  BY <1>1, NotLocked DEF Fds
<1>15. Fds' = [Fds EXCEPT ![c] = Fds[t]]
  <2>1. \A g \in File : file'[g].inode = file[g].inode
    BY <1>7
  <2>2. \A u \in Task, m \in Fd :
          Fds'[u][m] = IF u = c THEN Fds[t][m] ELSE Fds[u][m]
    BY <1>6, <2>1 DEF Fds
  <2>3. Fds \in [Task -> [Fd -> Inode \cup {NULL}]] /\ Fds' \in [Task -> [Fd -> Inode \cup {NULL}]]
    BY <1>8 DEF Fds, TableTypes, FileType
  <2> QED BY <2>2, <2>3
<1> QED BY <1>9, <1>10, <1>11, <1>12, <1>13, <1>14, <1>15, <1>16

\* A task that has closed everything dies, and is released.
LEMMA EndInv ==
  ASSUME TableInv, NEW t \in Task, exit_done(t) \/ kthread_release(t)
  PROVE  TableInv' /\ Fds' = Fds
<1> USE DEF TableInv
<1>1. /\ call[t].pc \in {"user", "exit"} /\ \A n \in Fd : fdt[t][n] = NULL
      /\ UNCHANGED <<fdt, file, chrdev>>
  BY DEF exit_done, kthread_release, TaskInv, TableTypes
<1>2. call[t].file = NULL /\ ~ InWalk(t)
  BY <1>1 DEF OpenInv, InWalk
<1>3. PICK x \in {"none", "dead"} : state' = [state EXCEPT ![t] = x]
  BY DEF exit_done, kthread_release
<1>4. state' \in [Task -> {"none", "run", "dead"}] /\ \A u \in Task : u # t => state'[u] = state[u]
  BY <1>3 DEF TableTypes
<1>5. pwd' \in [Task -> Dentry] /\ root' \in [Task -> Dentry]
  BY SMTT(30), TreeTypes DEF exit_done, kthread_release, TableTypes
<1>6. call' = [call EXCEPT ![t] = User] \/ (call' = call /\ call[t].pc = "user")
  BY DEF exit_done, kthread_release, TaskInv, TableTypes
<1>7. /\ call' \in [Task -> Rec] /\ call'[t].pc = "user" /\ call'[t].file = NULL
      /\ \A u \in Task : u # t => call'[u] = call[u]
  <2>1. call \in [Task -> Rec]
    BY DEF TableTypes
  <2> QED BY <1>2, <1>6, <2>1, UserType
<1>8. TableTypes'
  BY <1>1, <1>4, <1>5, <1>7 DEF TableTypes
<1>9. WalkInv'
  <2>1. ~ InWalk(t)'
    BY <1>7 DEF InWalk
  <2>2. \A u \in Task : InWalk(u)' <=> InWalk(u)
    BY <1>2, <1>7, <2>1 DEF InWalk
  <2> QED BY <1>1, <1>2, <1>7, <2>1, <2>2 DEF WalkInv
<1>10. OpenInv'
  BY <1>1, <1>7 DEF OpenInv, IsOpen
<1>11. TaskInv'
  BY <1>1, <1>4, <1>7 DEF TaskInv
<1>12. FileInv' /\ DeviceInUse'
  BY <1>1 DEF FileInv, Users, DeviceInUse
<1>13. Fds' = Fds
  BY <1>1 DEF Fds
<1>14. ReadyInv'
  BY <1>1, <1>7 DEF ReadyInv, IsOpen
<1> QED BY <1>8, <1>9, <1>10, <1>11, <1>12, <1>13, <1>14

\* The driver comes and goes only while no file is open on the device.
LEMMA DriverInv ==
  ASSUME TableInv, register_chrdev \/ unregister_chrdev
  PROVE  TableInv' /\ Fds' = Fds
<1> USE DEF TableInv
<1>1. UNCHANGED <<pwd, root, fdt, file, state, call>>
  BY DEF register_chrdev, unregister_chrdev
<1>2. chrdev' \in DevType /\ chrdev'.ref = chrdev.ref /\ (chrdev'.fops \/ chrdev.ref = 0)
  BY DEF register_chrdev, unregister_chrdev, TableTypes, DevType
<1>3. TableTypes' /\ WalkInv' /\ OpenInv' /\ TaskInv' /\ FileInv' /\ ReadyInv'
  <2>1. TableTypes'
    BY <1>1, <1>2 DEF TableTypes
  <2>2. WalkInv'
    BY <1>1 DEF WalkInv, InWalk
  <2>3. OpenInv'
    BY <1>1 DEF OpenInv, IsOpen
  <2>4. TaskInv' /\ FileInv' /\ ReadyInv'
    BY <1>1 DEF TaskInv, FileInv, Users, ReadyInv, IsOpen
  <2> QED BY <2>1, <2>2, <2>3, <2>4
<1>4. DeviceInUse'
  <2>1. chrdev.ref = Cardinality(DevFiles) /\ DevFiles' = DevFiles
    BY <1>1 DEF DeviceInUse, DevFiles
  <2>2. chrdev.ref = 0 => DevFiles = {}
    BY <2>1, DevFinite, FS_EmptySet, FiniteAssumption, FS_Subset DEF DevFiles
  <2>3. \A f \in File : file[f].ref > 0 /\ file[f].opened = "yes" /\ file[f].inode \in Dev => chrdev'.fops
    BY <1>2, <2>2 DEF DevFiles
  <2>4. chrdev'.ref = Cardinality(DevFiles')
    BY <1>2, <2>1
  <2> QED BY <1>1, <2>3, <2>4 DEF DeviceInUse, DevFiles
<1> QED BY <1>1, <1>3, <1>4 DEF Fds

\* What a step may do to the descriptors.
FdStep ==
  \/ Fds' = Fds
  \/ \E t \in Task, n \in Fd, i \in Inode : Fds[t][n] = NULL /\ Fds' = [Fds EXCEPT ![t][n] = i]
  \/ \E t \in Task, n \in Fd : Fds' = [Fds EXCEPT ![t][n] = NULL]
  \/ \E t \in Task, n, m \in Fd : Fds[t][n] # NULL /\ Fds' = [Fds EXCEPT ![t][m] = Fds[t][n]]
  \/ \E t, c \in Task : Fds[c] = [n \in Fd |-> NULL] /\ Fds' = [Fds EXCEPT ![c] = Fds[t]]

\* The tables are empty at boot.
LEMMA TableInit == Init => TableInv /\ Fds = [t \in Task |-> [n \in Fd |-> NULL]]
<1> SUFFICES ASSUME Init PROVE TableInv /\ Fds = [t \in Task |-> [n \in Fd |-> NULL]]
  OBVIOUS
<1> USE DEF Init
<1>1. TableTypes
  BY UserType, NoFileType, TreeTypes, TreeAssumption DEF TableTypes, DevType
<1>2. WalkInv /\ OpenInv /\ TaskInv
  BY UserType, NotLocked DEF WalkInv, InWalk, OpenInv, TaskInv
<1>3. \A f \in File : file[f] = NoFile /\ Users(f) = {}
  BY NotLocked DEF Users
<1>4. FileInv
  BY <1>3, FS_EmptySet, NoFileType DEF FileInv
<1>5. DeviceInUse
  <2>1. DevFiles = {}
    BY <1>3, NoFileType DEF DevFiles
  <2> QED BY <2>1, FS_EmptySet, <1>3, NoFileType DEF DeviceInUse, DevFiles
<1>6. Fds = [t \in Task |-> [n \in Fd |-> NULL]]
  BY NotLocked DEF Fds
<1>7. ReadyInv
  BY NotLocked DEF ReadyInv, IsOpen
<1> QED BY <1>1, <1>2, <1>4, <1>5, <1>6, <1>7 DEF TableInv

\* Every step keeps the invariant of the tables and does what FdTable allows.
LEMMA TableNext == ASSUME TableInv, [Next]_vars PROVE TableInv' /\ FdStep
<1>1. ASSUME NEW t \in Task, Step(t) PROVE TableInv' /\ FdStep
  <2>1. CASE WalkStep(t)
    BY <2>1, WalkStepInv DEF FdStep
  <2>2. CASE sys_chdir(t) \/ sys_chroot(t) \/ rw_return(t)
    BY <2>2, PlainInv DEF FdStep
  <2>3. CASE sys_open(t)
    BY <2>3, SysOpenInv DEF FdStep
  <2>8. CASE chrdev_count(t)
    BY <2>8, CountedInv DEF FdStep
  <2>4. CASE chrdev_open(t)
    <3>1. CASE NotFound(t)
      BY <2>4, <3>1, RefusedInv DEF FdStep
    <3>2. CASE ~ NotFound(t)
      <4>1. /\ call[t].pc = "chropen" /\ chrdev.fops
            /\ file[call[t].file].opened = "counted"
            /\ file' = [file EXCEPT ![call[t].file].opened = "yes"]
            /\ call' = [call EXCEPT ![t] = AfterOpen(t)]
            /\ UNCHANGED <<pwd, root, state, fdt, chrdev>>
        BY <2>4, <3>2 DEF chrdev_open
      <4> QED BY <4>1, GrantedInv DEF FdStep
    <3> QED BY <3>1, <3>2
  <2>5. CASE exec_wrapper(t) \/ exec_close(t) \/ \E n \in Fd : exit_close(t, n)
    BY <2>5, CloseStepInv DEF FdStep
  <2>6. CASE \E c \in Task : sys_exec(t, c)
    BY <2>6, ExecInv DEF FdStep
  <2>7. CASE exit_done(t)
    BY <2>7, EndInv DEF FdStep
  <2> QED BY <1>1, <2>1, <2>2, <2>3, <2>4, <2>5, <2>6, <2>7, <2>8 DEF Step, WalkStep
<1>2. ASSUME NEW t \in Task, Call(t) PROVE TableInv' /\ FdStep
  <2>1. CASE \E r \in Calls[t] : r.op \in Walks /\ lookup(t, r.op, r.path, r.slash)
    <3>1. PICK r \in Calls[t] : r.op \in Walks /\ lookup(t, r.op, r.path, r.slash)
      BY <2>1
    <3>2. r.path \in Seq(Name \cup {DotDot})
      BY CallsAssumption
    <3> QED BY <3>1, <3>2, LookupInv DEF FdStep
  <2>2. CASE \E n \in Fd : sys_close(t, n)
    BY <2>2, CloseStepInv DEF FdStep
  <2>3. CASE sys_exit(t) \/ \E n \in Fd : sys_rw(t, n)
    BY <2>3, PlainInv DEF FdStep
  <2>4. CASE \E n, m \in Fd : sys_dup(t, n, m) \/ sys_dup2(t, n, m)
    BY <2>4, DupInv DEF FdStep
  <2> QED BY <1>2, <2>1, <2>2, <2>3, <2>4 DEF Call
<1>3. ASSUME NEW t \in Task, kthread_release(t) PROVE TableInv' /\ FdStep
  BY <1>3, EndInv DEF FdStep
<1>4. CASE register_chrdev \/ unregister_chrdev
  BY <1>4, DriverInv DEF FdStep
<1>5. CASE UNCHANGED vars
  <2>1. UNCHANGED <<pwd, root, fdt, file, chrdev, state, call>>
    BY <1>5 DEF vars
  <2>2. TableInv'
    <3>1. TableTypes' /\ TaskInv'
      BY <2>1 DEF TableInv, TableTypes, TaskInv
    <3>2. WalkInv'
      BY <2>1 DEF TableInv, WalkInv, InWalk
    <3>3. OpenInv'
      BY <2>1 DEF TableInv, OpenInv, IsOpen
    <3>4. FileInv' /\ ReadyInv' /\ DeviceInUse'
      BY <2>1 DEF TableInv, FileInv, Users, ReadyInv, IsOpen, DeviceInUse
    <3> QED BY <3>1, <3>2, <3>3, <3>4 DEF TableInv
  <2> QED BY <2>1, <2>2 DEF FdStep, Fds
<1> QED BY <1>1, <1>2, <1>3, <1>4, <1>5 DEF Next

\* Descriptors, files and the device agree at every moment, for every number
\* of tasks that open, duplicate, inherit and close (fs/open.c, char_dev.c).
THEOREM TableInvariant == Spec => []TableInv
<1>1. Init => TableInv
  BY TableInit
<1>2. TableInv /\ [Next]_vars => TableInv'
  BY TableNext
<1> QED BY <1>1, <1>2, PTL DEF Spec

\* A file is not freed under a descriptor or a call that uses it, nor the
\* driver under an open file: the last descriptor frees both (sys_close).
THEOREM FilesCovered == Spec => [](FileCount /\ DeviceInUse)
<1>1. ASSUME TableInv PROVE FileCount /\ DeviceInUse
  <2>1. \A f \in File : file[f].ref >= Cardinality(Users(f))
    BY <1>1 DEF TableInv, FileInv
  <2>2. ASSUME NEW t \in Task, call[t].file # NULL PROVE file[call[t].file].ref > 0
    <3>1. PICK n \in Fd : fdt[t][n] = call[t].file
      BY <1>1, <2>2 DEF TableInv, OpenInv
    <3>2. PICK f \in File : f = call[t].file
      BY <1>1, <2>2 DEF TableInv, TableTypes, Rec
    <3>3. <<t, n>> \in Users(f)
      BY <3>1, <3>2 DEF Users
    <3> QED BY <1>1, <3>2, <3>3, UsedRef DEF TableInv
  <2> QED BY <1>1, <2>1, <2>2 DEF FileCount, Users, TableInv
<1> QED BY <1>1, TableInvariant, PTL

\* The descriptors keep the promise of FdTable: a descriptor names the inode
\* it was opened on until its task closes or replaces it, whatever the other
\* tasks that share the file do (sys_open, sys_dup, sys_close, kernel_thread).
THEOREM FilesKeepPromise == Spec => ImplementsFdTable
<1>1. Init => Promise!Init
  BY TableInit DEF Promise!Init, Promise!Closed
<1>2. TableInv /\ [Next]_vars => [Promise!Next]_Fds
  <2>1. FdStep => [Promise!Next]_Fds
    BY DEF FdStep, Promise!Next, Promise!Open, Promise!Close, Promise!Dup, Promise!Fork,
           Promise!Closed
  <2> QED BY <2>1, TableNext
<1> QED BY <1>1, <1>2, TableInvariant, PTL DEF Spec, ImplementsFdTable, Promise!Spec
-----------------------------------------------------------------------------
(* Root directories *)

\* Whoever goes up from d by the loop of sys_chdir begins at d.  The loop ends
\* if the places above d form a set that can be gone through, but whether they
\* do does not matter here.
\* What one reaches by going up: a function that satisfies the equation of
\* UpChain, so that UpChain does, too.
UpClosed(S) == \A x \in S : x # droot => Up(x) \in S
Reached(d) == {e \in Dentry : \A S \in SUBSET Dentry : d \in S /\ UpClosed(S) => e \in S}

\* One step up reaches the rest.
LEMMA ReachedStep ==
  ASSUME NEW d \in Dentry
  PROVE  Reached(d) = IF d = droot THEN {d} ELSE {d} \cup Reached(Up(d))
<1>1. d \in Reached(d)
  BY DEF Reached
<1>2. CASE d = droot
  <2>1. UpClosed({droot}) /\ {droot} \in SUBSET Dentry
    BY TreeTypes DEF UpClosed
  <2> QED BY <1>1, <1>2, <2>1 DEF Reached
<1>3. CASE d # droot
  <2>1. ASSUME NEW e \in Reached(Up(d)) PROVE e \in Reached(d)
    <3>1. ASSUME NEW S \in SUBSET Dentry, d \in S, UpClosed(S) PROVE e \in S
      <4>1. Up(d) \in S
        BY <1>3, <3>1 DEF UpClosed
      <4> QED BY <3>1, <4>1 DEF Reached
    <3> QED BY <3>1 DEF Reached
  <2>2. ASSUME NEW e \in Reached(d), e # d PROVE e \in Reached(Up(d))
    <3>1. ASSUME NEW S \in SUBSET Dentry, Up(d) \in S, UpClosed(S) PROVE e \in S
      <4>1. UpClosed(S \cup {d}) /\ S \cup {d} \in SUBSET Dentry
        BY <3>1 DEF UpClosed
      <4> QED BY <2>2, <4>1 DEF Reached
    <3> QED BY <3>1 DEF Reached
  <2> QED BY <1>1, <1>3, <2>1, <2>2
<1> QED BY <1>2, <1>3

\* The recursive equation of UpChain holds.
LEMMA UpChainStep ==
  ASSUME NEW d \in Dentry
  PROVE  UpChain[d] = IF d = droot THEN {d} ELSE {d} \cup UpChain[Up(d)]
<1> DEFINE Def(f) == f = [x \in Dentry |-> IF x = droot THEN {x} ELSE {x} \cup f[Up(x)]]
           f0 == [x \in Dentry |-> Reached(x)]
<1>1. \A x \in Dentry : f0[x] = IF x = droot THEN {x} ELSE {x} \cup f0[Up(x)]
  BY ReachedStep, TreeTypes
<1>2. Def(f0)
  <2> DEFINE g == [x \in Dentry |-> IF x = droot THEN {x} ELSE {x} \cup f0[Up(x)]]
  <2>1. \A x \in Dentry : f0[x] = g[x]
    BY <1>1
  <2>2. f0 = g
    BY <2>1
  <2> QED BY <2>2
<1> HIDE DEF f0
<1>3. Def(UpChain)
  BY <1>2 DEF UpChain
<1> QED BY <1>3

\* Every dentry is below itself.
LEMMA BelowSelf == \A d \in Dentry : BelowRoot(d, d)
BY UpChainStep DEF BelowRoot

\* No step moves a task above its root.
LEMMA JailNext == ASSUME TableInv, Jail, [Next]_vars PROVE Jail'
<1> USE DEF Jail, Live, TableInv
<1>1. /\ pwd \in [Task -> Dentry] /\ root \in [Task -> Dentry]
      /\ state \in [Task -> {"none", "run", "dead"}]
  BY DEF TableTypes
<1>2. ASSUME UNCHANGED <<pwd, root>>, \A t \in Task : state[t] = "none" => state'[t] = "none"
      PROVE  Jail'
  BY <1>2 DEF BelowRoot
<1>3. ASSUME NEW t \in Task, sys_chdir(t) PROVE Jail'
  <2>1. state[t] = "run"
    BY <1>1, <1>3 DEF sys_chdir, AtEnd, TaskInv
  <2>2. CASE pwd' = pwd
    BY <1>3, <2>2 DEF sys_chdir, BelowRoot
  <2>3. CASE pwd' # pwd
    <3>1. /\ pwd' = [pwd EXCEPT ![t] = Result(t)] /\ BelowRoot(Result(t), root[t])
          /\ UNCHANGED <<root, state>>
      BY <1>3, <2>3 DEF sys_chdir
    <3>2. pwd'[t] = Result(t) /\ \A u \in Task : u # t => pwd'[u] = pwd[u]
      BY <1>1, <3>1
    <3> QED BY <3>1, <3>2 DEF BelowRoot
  <2> QED BY <2>2, <2>3
<1>4. ASSUME NEW t \in Task, sys_chroot(t) PROVE Jail'
  <2>1. CASE pwd' = pwd /\ root' = root
    BY <1>4, <2>1 DEF sys_chroot, BelowRoot
  <2>2. CASE ~ (pwd' = pwd /\ root' = root)
    <3>1. /\ pwd' = [pwd EXCEPT ![t] = Result(t)] /\ root' = [root EXCEPT ![t] = Result(t)]
          /\ UNCHANGED state
      BY <1>4, <2>2 DEF sys_chroot
    <3>2. Result(t) \in Dentry
      BY <1>4, TreeTypes DEF sys_chroot, AtEnd, Result, WalkInv, InWalk
    <3>3. /\ pwd'[t] = Result(t) /\ root'[t] = Result(t)
          /\ \A u \in Task : u # t => pwd'[u] = pwd[u] /\ root'[u] = root[u]
      BY <1>1, <3>1
    <3>4. BelowRoot(pwd'[t], root'[t])
      BY <3>2, <3>3, BelowSelf
    <3> QED BY <3>1, <3>3, <3>4 DEF BelowRoot
  <2> QED BY <2>1, <2>2
<1>5. ASSUME NEW t \in Task, NEW c \in Task, sys_exec(t, c) PROVE Jail'
  <2>1. state[t] = "run" /\ t # c
    BY <1>1, <1>5 DEF sys_exec, TaskInv
  <2>2. /\ state' = [state EXCEPT ![c] = "run"]
        /\ pwd' = [pwd EXCEPT ![c] = pwd[t]] /\ root' = [root EXCEPT ![c] = root[t]]
    BY <1>5 DEF sys_exec
  <2>3. /\ pwd'[c] = pwd[t] /\ root'[c] = root[t]
        /\ \A u \in Task : u # c => pwd'[u] = pwd[u] /\ root'[u] = root[u] /\ state'[u] = state[u]
    BY <1>1, <2>2
  <2> QED BY <2>1, <2>3 DEF BelowRoot
<1>6. ASSUME NEW t \in Task, exit_done(t) PROVE Jail'
  <2>1. state[t] = "run" /\ UNCHANGED <<pwd, root>>
    BY <1>1, <1>6 DEF exit_done, TaskInv
  <2> QED BY <1>1, <1>2, <1>6, <2>1 DEF exit_done
<1>7. ASSUME NEW t \in Task, kthread_release(t) PROVE Jail'
  <2>1. /\ state'[t] = "none"
        /\ \A u \in Task : u # t => pwd'[u] = pwd[u] /\ root'[u] = root[u] /\ state'[u] = state[u]
    BY <1>1, <1>7 DEF kthread_release
  <2> QED BY <2>1 DEF BelowRoot
<1>8. ASSUME NEW t \in Task, Step(t) PROVE Jail'
  <2>1. CASE WalkStep(t)
    BY <1>2, <2>1 DEF WalkStep, walk_up, walk_file, find_entry, lookup_none, lookup_hit,
                      lookup_miss, iget_return, iget_error
  <2>2. CASE sys_open(t) \/ chrdev_count(t) \/ chrdev_open(t)
    BY <1>2, <2>2 DEF sys_open, chrdev_count, chrdev_open
  <2>3. CASE rw_return(t) \/ exec_wrapper(t) \/ exec_close(t) \/ \E n \in Fd : exit_close(t, n)
    BY <1>2, <2>3 DEF rw_return, exec_wrapper, exec_close, exit_close
  <2> QED BY <1>3, <1>4, <1>5, <1>6, <1>8, <2>1, <2>2, <2>3 DEF Step, WalkStep
<1>9. ASSUME NEW t \in Task, Call(t) PROVE Jail'
  <2>1. UNCHANGED <<pwd, root, state>>
    BY <1>9 DEF Call, lookup, sys_close, sys_rw, sys_dup, sys_dup2, sys_exit
  <2> QED BY <1>2, <2>1
<1>10. CASE register_chrdev \/ unregister_chrdev \/ UNCHANGED vars
  BY <1>2, <1>10 DEF register_chrdev, unregister_chrdev, vars
<1> QED BY <1>7, <1>8, <1>9, <1>10 DEF Next

\* No interleaving of chdir, chroot, exec and exit takes the working directory
\* of a task out of its root, so that sys_getcwd meets the root on its way up
\* (sys_chdir, sys_chroot, kernel_thread).
THEOREM NoEscape == Spec => []Jail
<1>1. Init => Jail
  BY BelowSelf, TreeTypes DEF Init, Jail, Live
<1>2. TableInv /\ Jail /\ [Next]_vars => Jail'
  BY JailNext
<1> QED BY <1>1, <1>2, TableInvariant, PTL DEF Spec
-----------------------------------------------------------------------------
(***************************************************************************)
(* References.  The counts of the dentries are Balanced: those of boot, of *)
(* the cached children and of the tasks (Ext).  An argument about counts c *)
(* and references E treats each dref, dput, dget, iref and iput by itself; *)
(* a step of a task is a sequence of them.                                 *)
(***************************************************************************)

\* The dentries that no dput frees.
Top == {droot, sroot}

\* Nothing lies above itself.
LEMMA Tree ==
  /\ droot \in Dentry /\ sroot \in Dentry /\ Top \subseteq Dentry
  /\ \A d \in Dentry : d \in Top <=> d = droot \/ parent[d] = NULL
  /\ \A d \in Dentry \ Top : parent[d] \in Dentry /\ parent[d] # d /\ parent[d] # droot
  /\ \A S \in SUBSET (Dentry \ Top) : S # {} => \E d \in S : parent[d] \notin S
BY TreeAssumption DEF Top

\* The same for the parents of a dentry (Above), which dput follows.
AClosed(S) == \A x \in S : x \notin Top => parent[x] \in S
AReached(d) == {e \in Dentry : \A S \in SUBSET Dentry : d \in S /\ AClosed(S) => e \in S}

\* One parent reaches the rest.
LEMMA AReachedStep ==
  ASSUME NEW d \in Dentry
  PROVE  AReached(d) = IF d \in Top THEN {d} ELSE {d} \cup AReached(parent[d])
<1>1. d \in AReached(d)
  BY DEF AReached
<1>2. CASE d \in Top
  <2>1. AClosed({d}) /\ {d} \in SUBSET Dentry
    BY <1>2 DEF AClosed
  <2> QED BY <1>1, <1>2, <2>1 DEF AReached
<1>3. CASE d \notin Top
  <2>1. ASSUME NEW e \in AReached(parent[d]) PROVE e \in AReached(d)
    <3>1. ASSUME NEW S \in SUBSET Dentry, d \in S, AClosed(S) PROVE e \in S
      <4>1. parent[d] \in S
        BY <1>3, <3>1 DEF AClosed
      <4> QED BY <3>1, <4>1 DEF AReached
    <3> QED BY <3>1 DEF AReached
  <2>2. ASSUME NEW e \in AReached(d), e # d PROVE e \in AReached(parent[d])
    <3>1. ASSUME NEW S \in SUBSET Dentry, parent[d] \in S, AClosed(S) PROVE e \in S
      <4>1. AClosed(S \cup {d}) /\ S \cup {d} \in SUBSET Dentry
        BY <3>1 DEF AClosed
      <4> QED BY <2>2, <4>1 DEF AReached
    <3> QED BY <3>1 DEF AReached
  <2> QED BY <1>1, <1>3, <2>1, <2>2
<1> QED BY <1>2, <1>3

\* The recursive equation of Above holds.
LEMMA AboveStep ==
  ASSUME NEW d \in Dentry
  PROVE  Above[d] = IF d \in Top THEN {d} ELSE {d} \cup Above[parent[d]]
<1> DEFINE Def(f) == f = [x \in Dentry |-> IF x = droot \/ parent[x] = NULL THEN {x}
                                           ELSE {x} \cup f[parent[x]]]
           f0 == [x \in Dentry |-> AReached(x)]
<1>1. \A x \in Dentry : f0[x] = IF x = droot \/ parent[x] = NULL THEN {x}
                                ELSE {x} \cup f0[parent[x]]
  <2> SUFFICES ASSUME NEW x \in Dentry
               PROVE  f0[x] = IF x = droot \/ parent[x] = NULL THEN {x}
                              ELSE {x} \cup f0[parent[x]]
    OBVIOUS
  <2>1. x \in Top <=> x = droot \/ parent[x] = NULL
    BY Tree
  <2>2. x \notin Top => parent[x] \in Dentry
    BY Tree
  <2> QED BY AReachedStep, <2>1, <2>2
<1>2. Def(f0)
  <2> DEFINE g == [x \in Dentry |-> IF x = droot \/ parent[x] = NULL THEN {x}
                                    ELSE {x} \cup f0[parent[x]]]
  <2>1. \A x \in Dentry : f0[x] = g[x]
    BY <1>1
  <2>2. f0 = g
    BY <2>1
  <2> QED BY <2>2
<1> HIDE DEF f0
<1>3. Def(Above)
  BY <1>2 DEF Above
<1> QED BY <1>3, Tree

\* The dentries above one are a finite set of dentries.
LEMMA AboveSet ==
  \A d \in Dentry : Above[d] \in SUBSET Dentry /\ d \in Above[d] /\ IsFiniteSet(Above[d])
<1> DEFINE S == {d \in Dentry \ Top : Above[d] \notin SUBSET Dentry}
<1>1. ASSUME S # {} PROVE FALSE
  <2>1. PICK d \in S : parent[d] \notin S
    BY <1>1, Tree
  <2>2. parent[d] \in Dentry /\ d \in Dentry \ Top
    BY <2>1, Tree
  <2>3. Above[parent[d]] \in SUBSET Dentry
    <3>1. CASE parent[d] \in Top
      <4>1. Above[parent[d]] = {parent[d]}
        BY <2>2, <3>1, AboveStep
      <4> QED BY <2>2, <4>1
    <3>2. CASE parent[d] \notin Top
      BY <2>1, <2>2, <3>2
    <3> QED BY <3>1, <3>2
  <2> QED BY <2>1, <2>2, <2>3, AboveStep
<1>2. \A d \in Dentry : Above[d] \in SUBSET Dentry /\ d \in Above[d]
  BY <1>1, AboveStep
<1> QED BY <1>2, FS_Subset, FiniteAssumption

\* What is above a dentry above d is above d.
LEMMA AboveTrans == \A d \in Dentry : \A a \in Above[d] : Above[a] \subseteq Above[d]
<1> DEFINE S == {d \in Dentry \ Top : ~ \A a \in Above[d] : Above[a] \subseteq Above[d]}
<1>1. ASSUME S # {} PROVE FALSE
  <2>1. PICK d \in S : parent[d] \notin S
    BY <1>1, Tree
  <2>2. parent[d] \in Dentry /\ d \in Dentry \ Top
    BY <2>1, Tree
  <2>3. \A a \in Above[parent[d]] : Above[a] \subseteq Above[parent[d]]
    <3>1. CASE parent[d] \in Top
      <4>1. Above[parent[d]] = {parent[d]}
        BY <2>2, <3>1, AboveStep
      <4> QED BY <4>1
    <3>2. CASE parent[d] \notin Top
      BY <2>1, <2>2, <3>2
    <3> QED BY <3>1, <3>2
  <2>4. Above[d] = {d} \cup Above[parent[d]]
    BY <2>2, AboveStep
  <2>5. \A a \in Above[d] : Above[a] \subseteq Above[d]
    <3> SUFFICES ASSUME NEW a \in Above[d] PROVE Above[a] \subseteq Above[d]
      OBVIOUS
    <3>1. CASE a = d
      BY <3>1
    <3>2. CASE a \in Above[parent[d]]
      BY <2>3, <2>4, <3>2
    <3> QED BY <2>4, <3>1, <3>2
  <2> QED BY <2>1, <2>5
<1>2. \A d \in Top : \A a \in Above[d] : Above[a] \subseteq Above[d]
  <2>1. \A d \in Top : d \in Dentry /\ Above[d] = {d}
    BY AboveStep, Tree
  <2> QED BY <2>1
<1> QED BY <1>1, <1>2

\* No dentry is above its parent.
LEMMA AboveAcyclic == \A d \in Dentry \ Top : d \notin Above[parent[d]]
<1> SUFFICES ASSUME NEW d \in Dentry \ Top, d \in Above[parent[d]] PROVE FALSE
  OBVIOUS
<1> DEFINE S == {x \in Dentry \ Top : d \in Above[x] /\ x \in Above[d]}
<1>1. d \in S
  BY AboveSet
<1>2. PICK x \in S : parent[x] \notin S
  BY <1>1, Tree
<1>3. /\ x \in Dentry \ Top /\ parent[x] \in Dentry /\ Above[x] = {x} \cup Above[parent[x]]
      /\ parent[x] \in Above[parent[x]]
  BY <1>2, Tree, AboveStep, AboveSet
<1>4. d \in Above[parent[x]]
  BY <1>2, <1>3
<1>5. parent[x] \in Above[d]
  BY <1>2, <1>3, AboveTrans
<1>6. parent[x] \notin Top
  BY ZenonT(40), <1>3, <1>4, AboveStep
<1> QED BY <1>2, <1>3, <1>4, <1>5, <1>6

\* The reference counts of everything in memory.
Counts == [Dentry \cup Inode -> Int]

\* Dentries and inodes are different things.
LEMMA NoBoth == Dentry \cap Inode = {} /\ \A d \in Dentry : inode[d] \in Inode /\ inode[d] \notin Dentry /\ d \notin Inode
BY TreeAssumption

\* What a dput frees is a finite set of dentries above.
LEMMA FreedFinite ==
  \A c \in Counts, d \in Dentry :
    /\ Freed(c, d) \in SUBSET Above[d] /\ Freed(c, d) \in SUBSET Dentry
    /\ IsFiniteSet(Freed(c, d))
    /\ \A i : IsFiniteSet({b \in Freed(c, d) : inode[b] = i})
<1> SUFFICES ASSUME NEW c \in Counts, NEW d \in Dentry
             PROVE  /\ Freed(c, d) \in SUBSET Above[d] /\ Freed(c, d) \in SUBSET Dentry
                    /\ IsFiniteSet(Freed(c, d))
                    /\ \A i : IsFiniteSet({b \in Freed(c, d) : inode[b] = i})
  OBVIOUS
<1>1. Freed(c, d) \in SUBSET Above[d] /\ Freed(c, d) \in SUBSET Dentry
  BY AboveSet DEF Freed
<1>2. IsFiniteSet(Freed(c, d))
  BY <1>1, FS_Subset, FiniteAssumption
<1>3. ASSUME NEW i PROVE IsFiniteSet({b \in Freed(c, d) : inode[b] = i})
  <2>1. {b \in Freed(c, d) : inode[b] = i} \in SUBSET Freed(c, d)
    OBVIOUS
  <2> QED BY <1>2, <2>1, FS_Subset
<1> QED BY <1>1, <1>2, <1>3

\* dput of a dentry with other references.
LEMMA PutShared ==
  ASSUME NEW c \in Counts, NEW d \in Dentry, c[d] # 1
  PROVE  dput(c, d) = [c EXCEPT ![d] = c[d] - 1]
<1>1. Freed(c, d) = {}
  BY AboveSet DEF Freed
<1>2. DOMAIN c = Dentry \cup Inode
  BY DEF Counts
<1>3. \A i : {b \in Freed(c, d) : inode[b] = i} = {} /\ Cardinality({}) = 0
  BY <1>1, FS_EmptySet
<1>4. ASSUME NEW x \in Dentry \cup Inode
      PROVE dput(c, d)[x] = IF x = d THEN c[d] - 1 ELSE c[x]
  <2>1. c[x] \in Int
    BY DEF Counts
  <2>2. CASE x \in Dentry
    BY <1>1, <1>2, <2>1, <2>2 DEF dput
  <2>3. CASE x \notin Dentry
    <3>1. dput(c, d)[x] = c[x] - Cardinality({b \in Freed(c, d) : inode[b] = x})
      BY <1>2, <2>3 DEF dput
    <3> QED BY <1>3, <2>1, <2>3, <3>1
  <2> QED BY <2>2, <2>3
<1>5. dput(c, d) = [x \in Dentry \cup Inode |-> dput(c, d)[x]]
  BY <1>2 DEF dput
<1>6. [c EXCEPT ![d] = c[d] - 1] = [x \in Dentry \cup Inode |-> IF x = d THEN c[d] - 1 ELSE c[x]]
  BY DEF Counts
<1> QED BY <1>4, <1>5, <1>6

\* dput of the last reference: the dentry goes, with its references to its
\* inode and to its parent.
Gone(c, d) == [c EXCEPT ![d] = 0, ![inode[d]] = c[inode[d]] - 1]

\* The counts once a dentry is gone.
LEMMA GoneCounts ==
  ASSUME NEW c \in Counts, NEW d \in Dentry
  PROVE  /\ Gone(c, d) \in Counts
         /\ Gone(c, d)[d] = 0 /\ Gone(c, d)[inode[d]] = c[inode[d]] - 1
         /\ \A x \in Dentry \cup Inode : x # d /\ x # inode[d] => Gone(c, d)[x] = c[x]
BY NoBoth DEF Gone, Counts

\* What the last dput frees: the dentry, and what a dput of its parent frees.
LEMMA FreedLast ==
  ASSUME NEW c \in Counts, NEW d \in Dentry \ Top, c[d] = 1
  PROVE  /\ Freed(c, d) = {d} \cup Freed(c, parent[d])
         /\ Freed(Gone(c, d), parent[d]) = Freed(c, parent[d])
         /\ d \notin Freed(c, parent[d])
<1> DEFINE p == parent[d]
<1>1. p \in Dentry /\ Above[d] = {d} \cup Above[p] /\ d \notin Above[p] /\ p \in Above[p]
  BY Tree, AboveStep, AboveAcyclic, AboveSet
<1>2. \A b \in Above[p] : Above[b] \subseteq Above[p]
  BY <1>1, AboveTrans
<1>3. Freed(c, d) = {d} \cup Freed(c, p)
  <2>1. ASSUME NEW a \in Above[p] PROVE a \in Freed(c, d) <=> a \in Freed(c, p)
    BY <1>1, <2>1 DEF Freed
  <2>2. d \in Freed(c, d)
    BY <1>1, <1>2 DEF Freed
  <2> QED BY <1>1, <2>1, <2>2 DEF Freed
<1>4. \A b \in Above[p] : Gone(c, d)[b] = c[b]
  <2>1. \A b \in Above[p] : b \in Dentry /\ b # d /\ b # inode[d]
    BY <1>1, AboveSet, NoBoth
  <2> QED BY <2>1, GoneCounts
<1>5. Freed(Gone(c, d), p) = Freed(c, p)
  BY <1>4 DEF Freed
<1> QED BY <1>1, <1>3, <1>5 DEF Freed

\* The last dput is a dput of the parent once the dentry is gone.
LEMMA PutLast ==
  ASSUME NEW c \in Counts, NEW d \in Dentry \ Top, c[d] = 1
  PROVE  dput(c, d) = dput(Gone(c, d), parent[d])
<1> DEFINE p == parent[d]
           G == Freed(c, p)
           e == Gone(c, d)
<1>1. /\ p \in Dentry /\ p # d /\ Above[d] = {d} \cup Above[p] /\ d \notin Above[p]
      /\ d \in Dentry /\ d # droot
  BY Tree, AboveStep, AboveAcyclic DEF Top
<1>2. Freed(c, d) = {d} \cup G /\ Freed(e, p) = G /\ d \notin G
  BY FreedLast
<1>3. G \in SUBSET Above[p] /\ G \in SUBSET Dentry /\ IsFiniteSet(G)
      /\ \A i : IsFiniteSet({b \in G : inode[b] = i})
  BY <1>1, FreedFinite
<1>4. \A b \in G : parent[b] # d
  <2> SUFFICES ASSUME NEW b \in G, parent[b] = d PROVE FALSE
    OBVIOUS
  <2>1. b \in Dentry /\ b \in Above[p]
    BY <1>3
  <2>2. b \notin Top
    BY <1>1, <2>1, Tree, TreeAssumption DEF Top
  <2>3. d \in Above[b]
    <3>1. Above[b] = {b} \cup Above[parent[b]]
      BY <2>1, <2>2, AboveStep
    <3>2. d \in Above[d]
      BY <1>1, AboveSet
    <3> QED BY <3>1, <3>2
  <2> QED BY <1>1, <2>1, <2>3, AboveTrans
<1>5. /\ DOMAIN c = Dentry \cup Inode /\ DOMAIN e = Dentry \cup Inode
      /\ e \in Counts /\ e[d] = 0 /\ e[inode[d]] = c[inode[d]] - 1
      /\ \A x \in Dentry \cup Inode : x # d /\ x # inode[d] => e[x] = c[x]
      /\ \A x \in Dentry \cup Inode : c[x] \in Int /\ e[x] \in Int
  <2>1. e \in Counts /\ e[d] = 0 /\ e[inode[d]] = c[inode[d]] - 1
        /\ \A x \in Dentry \cup Inode : x # d /\ x # inode[d] => e[x] = c[x]
    BY GoneCounts
  <2> HIDE DEF e
  <2> QED BY <2>1 DEF Counts
<1> HIDE DEF G, e, p
<1>6. ASSUME NEW x \in Dentry PROVE dput(c, d)[x] = dput(e, p)[x]
  <2>1. dput(c, d)[x] = c[x] - (IF x = d \/ \E b \in {d} \cup G : parent[b] = x THEN 1 ELSE 0)
    BY <1>2, <1>5 DEF dput
  <2>2. dput(e, p)[x] = e[x] - (IF x = p \/ \E b \in G : parent[b] = x THEN 1 ELSE 0)
    BY <1>2, <1>5 DEF dput
  <2>3. CASE x = d
    BY <1>1, <1>4, <1>5, <2>1, <2>2, <2>3
  <2>4. CASE x # d
    <3>1. e[x] = c[x]
      BY <1>5, <2>4, NoBoth
    <3>2. (\E b \in {d} \cup G : parent[b] = x) <=> x = p \/ \E b \in G : parent[b] = x
      BY DEF p
    <3> QED BY <2>1, <2>2, <2>4, <3>1, <3>2
  <2> QED BY <2>3, <2>4
<1>7. ASSUME NEW x \in Inode PROVE dput(c, d)[x] = dput(e, p)[x]
  <2> DEFINE A == {b \in {d} \cup G : inode[b] = x}
             B == {b \in G : inode[b] = x}
  <2>1. dput(c, d)[x] = c[x] - Cardinality(A)
    BY <1>2, <1>5, NoBoth DEF dput
  <2>2. dput(e, p)[x] = e[x] - Cardinality(B)
    BY <1>2, <1>5, NoBoth DEF dput
  <2>3. IsFiniteSet(B) /\ Cardinality(B) \in Nat
    BY <1>3, FS_CardinalityType
  <2>4. CASE x = inode[d]
    <3>1. A = B \cup {d} /\ d \notin B
      BY <1>2, <2>4
    <3>2. Cardinality(A) = Cardinality(B) + 1
      BY <2>3, <3>1, FS_AddElement
    <3> HIDE DEF A, B
    <3> QED BY <1>5, <2>1, <2>2, <2>3, <2>4, <3>2
  <2>5. CASE x # inode[d]
    <3>1. A = B
      BY <2>5
    <3>2. e[x] = c[x]
      BY <1>1, <1>5, <2>5, NoBoth
    <3> QED BY <2>1, <2>2, <3>1, <3>2
  <2> QED BY <2>4, <2>5
<1>8. /\ dput(c, d) = [x \in Dentry \cup Inode |-> dput(c, d)[x]]
      /\ dput(e, p) = [x \in Dentry \cup Inode |-> dput(e, p)[x]]
  BY <1>5 DEF dput
<1>9. dput(c, d) = dput(e, p)
  BY <1>6, <1>7, <1>8
<1> QED BY <1>9 DEF e, p

\* The dentries in memory below x, and those of an inode.
Children(c, x) == {e \in Dentry \ {droot} : parent[e] = x /\ c[e] > 0}
Cached(c, i) == {d \in Dentry : inode[d] = i /\ c[d] > 0}

\* The counts of the dentries are the references from boot, from the
\* children, and E from outside.
Balanced(c, E) ==
  /\ c \in Counts /\ E \in [Dentry -> Nat]
  /\ \A x \in Dentry : c[x] = Boot(x) + E[x] + Cardinality(Children(c, x))

\* The references to an inode but those of its dentries.
Others(c, i) == c[i] - Cardinality(Cached(c, i))

\* A step from c to e caches no dentry and leaves those references alone.
Shrinks(c, e) ==
  /\ \A i \in Inode : Others(e, i) = Others(c, i)
  /\ \A d \in Dentry : e[d] > 0 => c[d] > 0

\* A reference from outside more, or less.
Plus(E, d) == [E EXCEPT ![d] = E[d] + 1]
Minus(E, d) == [E EXCEPT ![d] = E[d] - 1]

\* Children and dentries of an inode can be counted.
LEMMA Cards ==
  \A c, x : /\ IsFiniteSet(Children(c, x)) /\ Cardinality(Children(c, x)) \in Nat
            /\ IsFiniteSet(Cached(c, x)) /\ Cardinality(Cached(c, x)) \in Nat
<1> SUFFICES ASSUME NEW c, NEW x
             PROVE  /\ IsFiniteSet(Children(c, x)) /\ Cardinality(Children(c, x)) \in Nat
                    /\ IsFiniteSet(Cached(c, x)) /\ Cardinality(Cached(c, x)) \in Nat
  OBVIOUS
<1>1. Children(c, x) \in SUBSET Dentry /\ Cached(c, x) \in SUBSET Dentry
  BY DEF Children, Cached
<1> QED BY <1>1, FS_Subset, FS_CardinalityType, FiniteAssumption

\* A reference, or a child, means that the count is not zero.
LEMMA BalancedNat ==
  ASSUME NEW c, NEW E, Balanced(c, E)
  PROVE  /\ \A x \in Dentry : /\ c[x] \in Nat /\ E[x] \in Nat
                              /\ c[x] >= Boot(x) + E[x] /\ c[x] >= E[x]
                              /\ x \in Top => c[x] > E[x]
         /\ \A x \in Dentry \ Top : c[x] > 0 => c[parent[x]] > 0
         /\ \A x \in Dentry \ Top : E[x] > 0 => c[parent[x]] > 0
<1>1. \A x \in Dentry : /\ c[x] = Boot(x) + E[x] + Cardinality(Children(c, x))
                        /\ Cardinality(Children(c, x)) \in Nat /\ E[x] \in Nat
                        /\ Boot(x) \in Nat /\ (x \in Top => Boot(x) > 0)
  BY Cards DEF Balanced, Boot, Top
<1>2. ASSUME NEW x \in Dentry \ Top, c[x] > 0 PROVE c[parent[x]] > 0
  <2>1. x \in Children(c, parent[x]) /\ parent[x] \in Dentry
    BY <1>2, Tree DEF Children, Top
  <2>2. Cardinality(Children(c, parent[x])) # 0
    BY <2>1, Cards, FS_EmptySet
  <2> QED BY <1>1, <2>1, <2>2
<1> QED BY <1>1, <1>2

\* A reference more to something in memory.
LEMMA AddRef ==
  ASSUME NEW c, NEW E, Balanced(c, E), NEW d \in Dentry, c[d] > 0
  PROVE  Balanced(dref(c, d), Plus(E, d)) /\ Shrinks(c, dref(c, d))
<1> DEFINE e == dref(c, d)
<1>1. /\ e \in Counts /\ e[d] = c[d] + 1
      /\ \A x \in Dentry \cup Inode : x # d => e[x] = c[x]
      /\ \A x \in Dentry \cup Inode : c[x] \in Int
  BY DEF dref, Balanced, Counts
<1> HIDE DEF e
<1>2. \A x \in Dentry : e[x] > 0 <=> c[x] > 0
  BY <1>1
<1>3. \A x : Children(e, x) = Children(c, x) /\ Cached(e, x) = Cached(c, x)
  BY <1>2 DEF Children, Cached
<1>4. /\ Plus(E, d) \in [Dentry -> Nat] /\ Plus(E, d)[d] = E[d] + 1
      /\ \A x \in Dentry : x # d => Plus(E, d)[x] = E[x]
      /\ \A x \in Dentry : E[x] \in Nat
  BY DEF Plus, Balanced
<1>5. ASSUME NEW x \in Dentry
      PROVE  e[x] = Boot(x) + Plus(E, d)[x] + Cardinality(Children(e, x))
  <2>1. c[x] = Boot(x) + E[x] + Cardinality(Children(c, x)) /\ Boot(x) \in Nat
        /\ Cardinality(Children(c, x)) \in Nat
    BY Cards DEF Balanced, Boot
  <2> QED BY <1>1, <1>3, <1>4, <2>1
<1>6. \A i \in Inode : Others(e, i) = Others(c, i)
  BY <1>1, <1>3, NoBoth DEF Others
<1> QED BY <1>1, <1>2, <1>4, <1>5, <1>6 DEF Balanced, Shrinks, e

\* A reference less to something that keeps one.
LEMMA PutSharedRef ==
  ASSUME NEW c, NEW E, Balanced(c, E), NEW d \in Dentry, E[d] > 0, c[d] # 1
  PROVE  Balanced(dput(c, d), Minus(E, d)) /\ Shrinks(c, dput(c, d))
<1> DEFINE e == dput(c, d)
<1>0. c \in Counts /\ E \in [Dentry -> Nat] /\ c[d] > 1
  BY BalancedNat DEF Balanced
<1>1. /\ e \in Counts /\ e[d] = c[d] - 1
      /\ \A x \in Dentry \cup Inode : x # d => e[x] = c[x]
      /\ \A x \in Dentry \cup Inode : c[x] \in Int
  BY <1>0, PutShared DEF Counts
<1> HIDE DEF e
<1>2. \A x \in Dentry : e[x] > 0 <=> c[x] > 0
  BY <1>0, <1>1
<1>3. \A x : Children(e, x) = Children(c, x) /\ Cached(e, x) = Cached(c, x)
  BY <1>2 DEF Children, Cached
<1>4. /\ Minus(E, d) \in [Dentry -> Nat] /\ Minus(E, d)[d] = E[d] - 1
      /\ \A x \in Dentry : x # d => Minus(E, d)[x] = E[x]
      /\ \A x \in Dentry : E[x] \in Nat
  BY <1>0 DEF Minus
<1>5. ASSUME NEW x \in Dentry
      PROVE  e[x] = Boot(x) + Minus(E, d)[x] + Cardinality(Children(e, x))
  <2>1. c[x] = Boot(x) + E[x] + Cardinality(Children(c, x)) /\ Boot(x) \in Nat
        /\ Cardinality(Children(c, x)) \in Nat
    BY Cards DEF Balanced, Boot
  <2> QED BY <1>1, <1>3, <1>4, <2>1
<1>6. \A i \in Inode : Others(e, i) = Others(c, i)
  BY <1>1, <1>3, NoBoth DEF Others
<1> QED BY <1>1, <1>2, <1>4, <1>5, <1>6 DEF Balanced, Shrinks, e

\* The last reference: it becomes one to the parent.
LEMMA PutLastRef ==
  ASSUME NEW c, NEW E, Balanced(c, E), NEW d \in Dentry \ Top, E[d] > 0, c[d] = 1
  PROVE  /\ Balanced(Gone(c, d), Plus(Minus(E, d), parent[d])) /\ Shrinks(c, Gone(c, d))
         /\ Plus(Minus(E, d), parent[d])[parent[d]] > 0
         /\ Minus(Plus(Minus(E, d), parent[d]), parent[d]) = Minus(E, d)
<1> DEFINE e == Gone(c, d)
           p == parent[d]
           F == Plus(Minus(E, d), p)
<1>0. c \in Counts /\ E \in [Dentry -> Nat] /\ p \in Dentry /\ p # d /\ d # droot
  BY Tree DEF Balanced, Top
<1>1. /\ e \in Counts /\ e[d] = 0 /\ e[inode[d]] = c[inode[d]] - 1
      /\ \A x \in Dentry \cup Inode : x # d /\ x # inode[d] => e[x] = c[x]
      /\ \A x \in Dentry \cup Inode : c[x] \in Int
  BY <1>0, GoneCounts DEF Counts
<1>2. /\ F \in [Dentry -> Nat] /\ F[d] = E[d] - 1 /\ F[p] = E[p] + 1
      /\ \A x \in Dentry : x # d /\ x # p => F[x] = E[x]
      /\ \A x \in Dentry : E[x] \in Nat
      /\ Minus(F, p) = Minus(E, d)
  <2>1. Minus(E, d) \in [Dentry -> Nat] /\ Minus(E, d)[d] = E[d] - 1
        /\ \A x \in Dentry : x # d => Minus(E, d)[x] = E[x]
    BY <1>0 DEF Minus
  <2>2. /\ F \in [Dentry -> Nat] /\ F[p] = Minus(E, d)[p] + 1
        /\ \A x \in Dentry : x # p => F[x] = Minus(E, d)[x]
    BY <1>0, <2>1 DEF Plus
  <2>3. Minus(F, p) = Minus(E, d)
    <3>1. F[p] - 1 = Minus(E, d)[p]
      BY <1>0, <2>1, <2>2
    <3> HIDE DEF F
    <3> QED BY <1>0, <2>1, <2>2, <3>1 DEF Minus
  <2> QED BY <1>0, <2>1, <2>2, <2>3
<1> HIDE DEF e, F, p
<1>3. \A x \in Dentry : x # d => e[x] = c[x]
  BY <1>1, NoBoth
<1>4. d \in Children(c, p) /\ Children(e, p) = Children(c, p) \ {d}
  BY <1>0, <1>1, <1>3 DEF Children, p
<1>5. \A x : x # p => Children(e, x) = Children(c, x)
  BY <1>1, <1>3 DEF Children, p
<1>6. d \in Cached(c, inode[d]) /\ Cached(e, inode[d]) = Cached(c, inode[d]) \ {d}
  BY <1>1, <1>3 DEF Cached
<1>7. \A x : x # inode[d] => Cached(e, x) = Cached(c, x)
  BY <1>1, <1>3 DEF Cached
<1>8. /\ Cardinality(Children(e, p)) = Cardinality(Children(c, p)) - 1
      /\ Cardinality(Cached(e, inode[d])) = Cardinality(Cached(c, inode[d])) - 1
  <2>1. IsFiniteSet(Children(c, p)) /\ IsFiniteSet(Cached(c, inode[d]))
    BY Cards
  <2>2. Cardinality(Children(c, p) \ {d}) = Cardinality(Children(c, p)) - 1
    BY <1>4, <2>1, FS_RemoveElement
  <2>3. Cardinality(Cached(c, inode[d]) \ {d}) = Cardinality(Cached(c, inode[d])) - 1
    BY <1>6, <2>1, FS_RemoveElement
  <2> QED BY <1>4, <1>6, <2>2, <2>3
<1>9. ASSUME NEW x \in Dentry
      PROVE  e[x] = Boot(x) + F[x] + Cardinality(Children(e, x))
  <2>1. c[x] = Boot(x) + E[x] + Cardinality(Children(c, x)) /\ Boot(x) \in Nat
        /\ Cardinality(Children(c, x)) \in Nat /\ E[x] \in Nat
    BY <1>2, Cards DEF Balanced, Boot
  <2>2. CASE x = d
    <3>1. Children(e, d) = Children(c, d)
      BY <1>0, <1>5
    <3> QED BY <1>1, <1>2, <2>1, <2>2, <3>1
  <2>3. CASE x = p
    BY <1>0, <1>2, <1>3, <1>8, <2>1, <2>3
  <2>4. CASE x # d /\ x # p
    BY <1>2, <1>3, <1>5, <2>1, <2>4
  <2> QED BY <2>2, <2>3, <2>4
<1>10. ASSUME NEW i \in Inode PROVE Others(e, i) = Others(c, i)
  <2>1. c[i] \in Int /\ Cardinality(Cached(c, i)) \in Nat
    BY <1>1, Cards
  <2>2. CASE i = inode[d]
    BY <1>1, <1>8, <2>1, <2>2 DEF Others
  <2>3. CASE i # inode[d]
    BY <1>1, <1>7, <2>3, NoBoth DEF Others
  <2> QED BY <2>2, <2>3
<1>11. \A x \in Dentry : e[x] > 0 => c[x] > 0
  BY <1>1, <1>3
<1>12. F[p] > 0
  BY <1>0, <1>2
<1>13. Balanced(e, F) /\ Shrinks(c, e)
  BY <1>1, <1>2, <1>9, <1>10, <1>11 DEF Balanced, Shrinks
<1> QED BY <1>2, <1>12, <1>13 DEF e, F, p

\* dput keeps the balance, however many dentries it frees.
PutKeeps(d) ==
  \A c \in Counts, E \in [Dentry -> Nat] :
    Balanced(c, E) /\ E[d] > 0
      => Balanced(dput(c, d), Minus(E, d)) /\ Shrinks(c, dput(c, d))

\* Among the counterexamples there would be one whose parent is none.
LEMMA PutKeepsAll == \A d \in Dentry : PutKeeps(d)
<1> DEFINE S == {d \in Dentry \ Top : ~ PutKeeps(d)}
<1>1. \A d \in Top : PutKeeps(d)
  <2> SUFFICES ASSUME NEW d \in Top, NEW c \in Counts, NEW E \in [Dentry -> Nat],
                      Balanced(c, E), E[d] > 0
               PROVE  Balanced(dput(c, d), Minus(E, d)) /\ Shrinks(c, dput(c, d))
    BY DEF PutKeeps
  <2>1. d \in Dentry /\ c[d] # 1
    BY Tree, BalancedNat
  <2> QED BY <2>1, PutSharedRef
<1>2. ASSUME NEW d \in S, parent[d] \notin S PROVE FALSE
  <2>1. d \in Dentry \ Top /\ parent[d] \in Dentry
    BY <1>2, Tree
  <2>2. PutKeeps(parent[d])
    BY <1>1, <1>2, <2>1
  <2>3. ASSUME NEW c \in Counts, NEW E \in [Dentry -> Nat], Balanced(c, E), E[d] > 0
        PROVE  Balanced(dput(c, d), Minus(E, d)) /\ Shrinks(c, dput(c, d))
    <3>1. CASE c[d] # 1
      BY <2>1, <2>3, <3>1, PutSharedRef
    <3>2. CASE c[d] = 1
      <4> DEFINE e == Gone(c, d)
                 F == Plus(Minus(E, d), parent[d])
      <4>1. Balanced(e, F) /\ Shrinks(c, e) /\ F[parent[d]] > 0
            /\ Minus(F, parent[d]) = Minus(E, d)
        BY <2>1, <2>3, <3>2, PutLastRef
      <4>2. dput(c, d) = dput(e, parent[d])
        BY <2>1, <3>2, PutLast
      <4> HIDE DEF e, F
      <4>3. e \in Counts /\ F \in [Dentry -> Nat]
        BY <4>1 DEF Balanced
      <4>4. Balanced(dput(e, parent[d]), Minus(F, parent[d])) /\ Shrinks(e, dput(e, parent[d]))
        BY <2>2, <4>1, <4>3 DEF PutKeeps
      <4>5. Shrinks(c, dput(e, parent[d]))
        BY <4>1, <4>4 DEF Shrinks
      <4> QED BY <4>1, <4>2, <4>4, <4>5
    <3> QED BY <3>1, <3>2
  <2> QED BY <1>2, <2>3 DEF PutKeeps
<1>3. S = {}
  BY <1>2, Tree
<1> QED BY <1>1, <1>3

\* A reference less.
LEMMA PutRef ==
  ASSUME NEW c, NEW E, Balanced(c, E), NEW d \in Dentry, E[d] > 0
  PROVE  Balanced(dput(c, d), Minus(E, d)) /\ Shrinks(c, dput(c, d))
<1>1. c \in Counts /\ E \in [Dentry -> Nat]
  BY DEF Balanced
<1> QED BY <1>1, PutKeepsAll DEF PutKeeps

\* The reference to d as a number at x.
one(x, d) == IF x = d THEN 1 ELSE 0

\* one counts to one.
LEMMA OneType == \A x, d : one(x, d) \in Nat /\ one(x, d) <= 1 /\ (one(x, d) = 1 <=> x = d)
BY DEF one

\* E with d more, or less, as numbers.
LEMMA PlusMinus ==
  ASSUME NEW E \in [Dentry -> Nat], NEW d \in Dentry
  PROVE  /\ Plus(E, d) \in [Dentry -> Nat]
         /\ \A x \in Dentry : Plus(E, d)[x] = E[x] + one(x, d)
         /\ E[d] > 0 => /\ Minus(E, d) \in [Dentry -> Nat]
                        /\ \A x \in Dentry : Minus(E, d)[x] = E[x] - one(x, d)
BY DEF Plus, Minus, one

\* The references as numbers are all that matters.
LEMMA SameBalance ==
  ASSUME NEW c, NEW E, NEW F, Balanced(c, E), F \in [Dentry -> Nat],
         \A x \in Dentry : F[x] = E[x]
  PROVE  Balanced(c, F)
<1>1. E \in [Dentry -> Nat]
  BY DEF Balanced
<1>2. E = F
  BY <1>1
<1> QED BY <1>2

\* A reference moves: the new one is taken before the old one is dropped.
LEMMA MoveRef ==
  ASSUME NEW c, NEW E, Balanced(c, E), NEW a \in Dentry, NEW b \in Dentry, c[a] > 0, E[b] > 0
  PROVE  LET e == dput(dref(c, a), b)
             F == Minus(Plus(E, a), b)
         IN  /\ Balanced(e, F) /\ Shrinks(c, e)
             /\ \A x \in Dentry : F[x] = E[x] + one(x, a) - one(x, b)
<1> DEFINE G == Plus(E, a)
           g == dref(c, a)
           F == Minus(G, b)
           e == dput(g, b)
<1>1. Balanced(g, G) /\ Shrinks(c, g) /\ G \in [Dentry -> Nat] /\ E \in [Dentry -> Nat]
      /\ \A x \in Dentry : G[x] = E[x] + one(x, a)
  BY AddRef, PlusMinus DEF Balanced
<1> HIDE DEF g, G
<1>2. G[b] > 0
  BY <1>1, OneType
<1>3. Balanced(e, F) /\ Shrinks(g, e) /\ \A x \in Dentry : F[x] = G[x] - one(x, b)
  BY <1>1, <1>2, PutRef, PlusMinus
<1>4. Shrinks(c, e)
  BY <1>1, <1>3 DEF Shrinks
<1> HIDE DEF F, e
<1>5. \A x \in Dentry : F[x] = E[x] + one(x, a) - one(x, b)
  BY <1>1, <1>3, OneType
<1> QED BY <1>3, <1>4, <1>5 DEF F, e, G, g

\* Two references are dropped, which may be to the same dentry.
LEMMA PutTwo ==
  ASSUME NEW c, NEW E, Balanced(c, E), NEW a \in Dentry, NEW b \in Dentry,
         \A x \in Dentry : E[x] >= one(x, a) + one(x, b)
  PROVE  LET e == dput(dput(c, a), b)
             F == Minus(Minus(E, a), b)
         IN  /\ Balanced(e, F) /\ Shrinks(c, e)
             /\ \A x \in Dentry : F[x] = E[x] - one(x, a) - one(x, b)
<1> DEFINE G == Minus(E, a)
           g == dput(c, a)
           F == Minus(G, b)
           e == dput(g, b)
<1>0. E \in [Dentry -> Nat] /\ E[a] > 0
  BY OneType DEF Balanced
<1>1. Balanced(g, G) /\ Shrinks(c, g) /\ G \in [Dentry -> Nat]
      /\ \A x \in Dentry : G[x] = E[x] - one(x, a)
  BY <1>0, PutRef, PlusMinus
<1> HIDE DEF g, G
<1>2. G[b] > 0
  BY <1>0, <1>1, OneType
<1>3. Balanced(e, F) /\ Shrinks(g, e) /\ \A x \in Dentry : F[x] = G[x] - one(x, b)
  BY <1>1, <1>2, PutRef, PlusMinus
<1>4. Shrinks(c, e)
  BY <1>1, <1>3 DEF Shrinks
<1> HIDE DEF F, e
<1>5. \A x \in Dentry : F[x] = E[x] - one(x, a) - one(x, b)
  BY <1>0, <1>1, <1>3, OneType
<1> QED BY <1>3, <1>4, <1>5 DEF F, e, G, g

\* Another count for an inode.
Set(c, i, v) == [c EXCEPT ![i] = v]
\* The counts of the dentries do not depend on it.
LEMMA SetInode ==
  ASSUME NEW c, NEW E, Balanced(c, E), NEW i \in Inode, NEW v \in Int,
         NEW e, e = Set(c, i, v)
  PROVE  /\ Balanced(e, E) /\ e[i] = v
         /\ \A x \in Dentry \cup Inode : x # i => e[x] = c[x]
         /\ \A x \in Dentry : e[x] = c[x]
         /\ \A x : Cached(e, x) = Cached(c, x)
<1>1. e \in Counts /\ e[i] = v /\ \A x \in Dentry \cup Inode : x # i => e[x] = c[x]
  BY DEF Balanced, Counts, Set
<1>2. \A x \in Dentry : e[x] = c[x]
  BY <1>1, NoBoth
<1>3. \A x : Children(e, x) = Children(c, x) /\ Cached(e, x) = Cached(c, x)
  BY <1>2 DEF Children, Cached
<1> QED BY <1>1, <1>2, <1>3 DEF Balanced

\* A new dentry is cached, on an inode and in a directory that are.
LEMMA NewDentry ==
  ASSUME NEW c, NEW E, Balanced(c, E), NEW d \in Dentry \ Top, ~ dcache(c, d), c[parent[d]] > 0
  PROVE  LET e == dget(c, d)
         IN  /\ Balanced(e, Plus(E, d))
             /\ \A i \in Inode : Others(e, i) = Others(c, i)
             /\ \A i \in Inode : Cached(e, i) # {} => Cached(c, i) # {} \/ i = inode[d]
<1> DEFINE i == inode[d]
           p == parent[d]
           g == iref(c, i)
           e == [dref(g, p) EXCEPT ![d] = 1]
<1>1. /\ p \in Dentry /\ p # d /\ i \in Inode /\ d \notin Inode /\ p \notin Inode /\ d # droot
      /\ c \in Counts /\ E \in [Dentry -> Nat]
  BY Tree, NoBoth DEF Balanced, Top
<1>2. e = [c EXCEPT ![i] = c[i] + 1, ![p] = c[p] + 1, ![d] = 1]
  BY <1>1 DEF iref, dref, Counts
<1>3. dget(c, d) = e
  BY DEF dget
<1> HIDE DEF e
<1>4. /\ e \in Counts /\ e[d] = 1 /\ e[p] = c[p] + 1 /\ e[i] = c[i] + 1
      /\ \A x \in Dentry \cup Inode : x # d /\ x # p /\ x # i => e[x] = c[x]
      /\ \A x \in Dentry \cup Inode : c[x] \in Int
  BY <1>1, <1>2 DEF Counts
<1>5. c[d] = 0 /\ E[d] = 0 /\ Cardinality(Children(c, d)) = 0
  <2>1. /\ c[d] \in Nat /\ E[d] \in Nat
        /\ c[d] = Boot(d) + E[d] + Cardinality(Children(c, d))
        /\ Cardinality(Children(c, d)) \in Nat /\ Boot(d) \in Nat
    BY BalancedNat, Cards DEF Balanced, Boot
  <2> QED BY <2>1 DEF dcache
<1>6. /\ Plus(E, d) \in [Dentry -> Nat] /\ Plus(E, d)[d] = 1
      /\ \A x \in Dentry : x # d => Plus(E, d)[x] = E[x]
  BY <1>1, <1>5 DEF Plus
<1> HIDE DEF p, i
<1>7. \A x \in Dentry : x # d => (e[x] > 0 <=> c[x] > 0)
  <2>1. \A x \in Dentry : x # i
    BY <1>1, NoBoth
  <2>2. c[p] > 0
    BY DEF p
  <2> QED BY <1>1, <1>4, <2>1, <2>2
<1>8. /\ Children(e, p) = Children(c, p) \cup {d} /\ d \notin Children(c, p)
      /\ Cached(e, i) = Cached(c, i) \cup {d} /\ d \notin Cached(c, i)
      /\ \A x : x # p => Children(e, x) = Children(c, x)
      /\ \A x : x # i => Cached(e, x) = Cached(c, x)
  <2>1. /\ Children(e, p) = Children(c, p) \cup {d} /\ d \notin Children(c, p)
        /\ \A x : x # p => Children(e, x) = Children(c, x)
    BY <1>1, <1>4, <1>5, <1>7 DEF Children, p
  <2>2. /\ Cached(e, i) = Cached(c, i) \cup {d} /\ d \notin Cached(c, i)
        /\ \A x : x # i => Cached(e, x) = Cached(c, x)
    BY <1>1, <1>4, <1>5, <1>7 DEF Cached, i
  <2> QED BY <2>1, <2>2
<1>9. /\ Cardinality(Children(e, p)) = Cardinality(Children(c, p)) + 1
      /\ Cardinality(Cached(e, i)) = Cardinality(Cached(c, i)) + 1
  <2>1. IsFiniteSet(Children(c, p)) /\ IsFiniteSet(Cached(c, i))
    BY Cards
  <2>2. Cardinality(Children(c, p) \cup {d}) = Cardinality(Children(c, p)) + 1
    BY <1>8, <2>1, FS_AddElement
  <2>3. Cardinality(Cached(c, i) \cup {d}) = Cardinality(Cached(c, i)) + 1
    BY <1>8, <2>1, FS_AddElement
  <2> QED BY <1>8, <2>2, <2>3
<1>10. ASSUME NEW x \in Dentry
       PROVE  e[x] = Boot(x) + Plus(E, d)[x] + Cardinality(Children(e, x))
  <2>1. c[x] = Boot(x) + E[x] + Cardinality(Children(c, x)) /\ Boot(x) \in Nat
        /\ Cardinality(Children(c, x)) \in Nat /\ E[x] \in Nat /\ x # i
    BY <1>1, Cards, NoBoth DEF Balanced, Boot
  <2>2. CASE x = d
    <3>1. Children(e, d) = Children(c, d)
      BY <1>1, <1>8
    <3>2. Boot(d) = 0
      BY DEF Boot, Top
    <3> QED BY <1>4, <1>5, <1>6, <2>2, <3>1, <3>2
  <2>3. CASE x = p
    BY <1>1, <1>4, <1>6, <1>9, <2>1, <2>3
  <2>4. CASE x # d /\ x # p
    BY <1>4, <1>6, <1>8, <2>1, <2>4
  <2> QED BY <2>2, <2>3, <2>4
<1>11. ASSUME NEW j \in Inode PROVE Others(e, j) = Others(c, j)
  <2>1. c[j] \in Int /\ Cardinality(Cached(c, j)) \in Nat
    BY <1>4, Cards
  <2>2. CASE j = i
    BY <1>4, <1>9, <2>1, <2>2 DEF Others
  <2>3. CASE j # i
    <3>1. j # p /\ j # d
      BY <1>1
    <3> QED BY <1>4, <1>8, <2>3, <3>1 DEF Others
  <2> QED BY <2>2, <2>3
<1>12. Balanced(e, Plus(E, d))
  BY <1>4, <1>6, <1>10 DEF Balanced
<1> QED BY <1>3, <1>8, <1>11, <1>12 DEF i

\* The dentries that a task refers to.
Pwd(t) == IF state[t] = "none" THEN NULL ELSE pwd[t]
Root(t) == IF state[t] = "none" THEN NULL ELSE root[t]
Iter(t) == IF InWalk(t) THEN call[t].iter ELSE NULL
Base(t) == call[t].base

\* The tasks that refer to x in each of these ways, and all the references.
Pwds(x) == {t \in Task : Pwd(t) = x}
Roots(x) == {t \in Task : Root(t) = x}
Iters(x) == {t \in Task : Iter(t) = x}
Bases(x) == {t \in Task : Base(t) = x}

Ext == [x \in Dentry |-> Cardinality(Pwds(x)) + Cardinality(Roots(x))
                         + Cardinality(Iters(x)) + Cardinality(Bases(x))]

\* How many of them task t has on x.
Held(t, x) == one(x, Pwd(t)) + one(x, Root(t)) + one(x, Iter(t)) + one(x, Base(t))

\* Sets of tasks can be counted.
LEMMA TaskSets == \A S \in SUBSET Task : IsFiniteSet(S) /\ Cardinality(S) \in Nat
BY FS_Subset, FS_CardinalityType, FiniteAssumption

\* References are counted by natural numbers.
LEMMA HeldNat == \A t, x : Held(t, x) \in Nat
BY OneType DEF Held

\* Sets of tasks that differ in t only.
LEMMA OneChange ==
  ASSUME NEW S \in SUBSET Task, NEW T \in SUBSET Task, NEW t \in Task,
         \A u \in Task : u # t => (u \in S <=> u \in T)
  PROVE  Cardinality(T) = Cardinality(S) + (IF t \in T THEN 1 ELSE 0)
                            - (IF t \in S THEN 1 ELSE 0)
<1>1. CASE (t \in S) <=> (t \in T)
  <2>1. S = T
    BY <1>1
  <2> QED BY <1>1, <2>1, TaskSets
<1>2. CASE t \in S /\ t \notin T
  <2>1. T = S \ {t}
    BY <1>2
  <2>2. Cardinality(S \ {t}) = Cardinality(S) - 1
    BY <1>2, TaskSets, FS_RemoveElement
  <2> QED BY <1>2, <2>1, <2>2, TaskSets
<1>3. CASE t \in T /\ t \notin S
  <2>1. T = S \cup {t}
    BY <1>3
  <2>2. Cardinality(S \cup {t}) = Cardinality(S) + 1
    BY <1>3, TaskSets, FS_AddElement
  <2> QED BY <1>3, <2>1, <2>2, TaskSets
<1> QED BY <1>1, <1>2, <1>3

\* References are counted by natural numbers, at every dentry.
LEMMA ExtType == Ext \in [Dentry -> Nat]
<1>1. \A x : /\ Cardinality(Pwds(x)) \in Nat /\ Cardinality(Roots(x)) \in Nat
             /\ Cardinality(Iters(x)) \in Nat /\ Cardinality(Bases(x)) \in Nat
  BY TaskSets DEF Pwds, Roots, Iters, Bases
<1> QED BY <1>1 DEF Ext

\* What one task refers to is referred to.
LEMMA ExtHeld == \A t \in Task, x \in Dentry : Ext[x] >= Held(t, x)
<1> SUFFICES ASSUME NEW t \in Task, NEW x \in Dentry PROVE Ext[x] >= Held(t, x)
  OBVIOUS
<1>1. ASSUME NEW S \in SUBSET Task, NEW v, t \in S <=> v = x
      PROVE  Cardinality(S) >= one(x, v) /\ Cardinality(S) \in Nat
  <2>1. IsFiniteSet(S) /\ Cardinality(S) \in Nat
    BY TaskSets
  <2>2. t \in S => Cardinality(S) # 0
    BY <2>1, FS_EmptySet
  <2> QED BY <1>1, <2>1, <2>2 DEF one
<1>2. Cardinality(Pwds(x)) >= one(x, Pwd(t)) /\ Cardinality(Pwds(x)) \in Nat
  <2>1. Pwds(x) \in SUBSET Task /\ (t \in Pwds(x) <=> Pwd(t) = x)
    BY DEF Pwds
  <2> QED BY <1>1, <2>1
<1>3. Cardinality(Roots(x)) >= one(x, Root(t)) /\ Cardinality(Roots(x)) \in Nat
  <2>1. Roots(x) \in SUBSET Task /\ (t \in Roots(x) <=> Root(t) = x)
    BY DEF Roots
  <2> QED BY <1>1, <2>1
<1>4. Cardinality(Iters(x)) >= one(x, Iter(t)) /\ Cardinality(Iters(x)) \in Nat
  <2>1. Iters(x) \in SUBSET Task /\ (t \in Iters(x) <=> Iter(t) = x)
    BY DEF Iters
  <2> QED BY <1>1, <2>1
<1>5. Cardinality(Bases(x)) >= one(x, Base(t)) /\ Cardinality(Bases(x)) \in Nat
  <2>1. Bases(x) \in SUBSET Task /\ (t \in Bases(x) <=> Base(t) = x)
    BY DEF Bases
  <2> QED BY <1>1, <2>1
<1> QED BY <1>2, <1>3, <1>4, <1>5, OneType DEF Ext, Held

\* Only t has other references than before.
LEMMA ExtChange ==
  ASSUME NEW t \in Task,
         \A u \in Task : u # t => /\ Pwd(u)' = Pwd(u) /\ Root(u)' = Root(u)
                                  /\ Iter(u)' = Iter(u) /\ Base(u)' = Base(u)
  PROVE  \A x \in Dentry : Ext'[x] = Ext[x] + Held(t, x)' - Held(t, x)
<1> SUFFICES ASSUME NEW x \in Dentry PROVE Ext'[x] = Ext[x] + Held(t, x)' - Held(t, x)
  OBVIOUS
<1>1. /\ Cardinality(Pwds(x)') = Cardinality(Pwds(x)) + one(x, Pwd(t)') - one(x, Pwd(t))
      /\ Cardinality(Pwds(x)') \in Nat /\ Cardinality(Pwds(x)) \in Nat
  <2>1. Pwds(x) \in SUBSET Task /\ Pwds(x)' \in SUBSET Task
    BY DEF Pwds
  <2>2. \A u \in Task : u # t => (u \in Pwds(x) <=> u \in Pwds(x)')
    BY DEF Pwds
  <2>3. (t \in Pwds(x) <=> Pwd(t) = x) /\ (t \in Pwds(x)' <=> Pwd(t)' = x)
    BY DEF Pwds
  <2>4. Cardinality(Pwds(x)') = Cardinality(Pwds(x)) + (IF t \in Pwds(x)' THEN 1 ELSE 0)
                               - (IF t \in Pwds(x) THEN 1 ELSE 0)
    BY <2>1, <2>2, OneChange
  <2>5. Cardinality(Pwds(x)') \in Nat /\ Cardinality(Pwds(x)) \in Nat
    BY <2>1, TaskSets
  <2> QED BY <2>3, <2>4, <2>5 DEF one
<1>2. /\ Cardinality(Roots(x)') = Cardinality(Roots(x)) + one(x, Root(t)') - one(x, Root(t))
      /\ Cardinality(Roots(x)') \in Nat /\ Cardinality(Roots(x)) \in Nat
  <2>1. Roots(x) \in SUBSET Task /\ Roots(x)' \in SUBSET Task
    BY DEF Roots
  <2>2. \A u \in Task : u # t => (u \in Roots(x) <=> u \in Roots(x)')
    BY DEF Roots
  <2>3. (t \in Roots(x) <=> Root(t) = x) /\ (t \in Roots(x)' <=> Root(t)' = x)
    BY DEF Roots
  <2>4. Cardinality(Roots(x)') = Cardinality(Roots(x)) + (IF t \in Roots(x)' THEN 1 ELSE 0)
                               - (IF t \in Roots(x) THEN 1 ELSE 0)
    BY <2>1, <2>2, OneChange
  <2>5. Cardinality(Roots(x)') \in Nat /\ Cardinality(Roots(x)) \in Nat
    BY <2>1, TaskSets
  <2> QED BY <2>3, <2>4, <2>5 DEF one
<1>3. /\ Cardinality(Iters(x)') = Cardinality(Iters(x)) + one(x, Iter(t)') - one(x, Iter(t))
      /\ Cardinality(Iters(x)') \in Nat /\ Cardinality(Iters(x)) \in Nat
  <2>1. Iters(x) \in SUBSET Task /\ Iters(x)' \in SUBSET Task
    BY DEF Iters
  <2>2. \A u \in Task : u # t => (u \in Iters(x) <=> u \in Iters(x)')
    BY DEF Iters
  <2>3. (t \in Iters(x) <=> Iter(t) = x) /\ (t \in Iters(x)' <=> Iter(t)' = x)
    BY DEF Iters
  <2>4. Cardinality(Iters(x)') = Cardinality(Iters(x)) + (IF t \in Iters(x)' THEN 1 ELSE 0)
                               - (IF t \in Iters(x) THEN 1 ELSE 0)
    BY <2>1, <2>2, OneChange
  <2>5. Cardinality(Iters(x)') \in Nat /\ Cardinality(Iters(x)) \in Nat
    BY <2>1, TaskSets
  <2> QED BY <2>3, <2>4, <2>5 DEF one
<1>4. /\ Cardinality(Bases(x)') = Cardinality(Bases(x)) + one(x, Base(t)') - one(x, Base(t))
      /\ Cardinality(Bases(x)') \in Nat /\ Cardinality(Bases(x)) \in Nat
  <2>1. Bases(x) \in SUBSET Task /\ Bases(x)' \in SUBSET Task
    BY DEF Bases
  <2>2. \A u \in Task : u # t => (u \in Bases(x) <=> u \in Bases(x)')
    BY DEF Bases
  <2>3. (t \in Bases(x) <=> Base(t) = x) /\ (t \in Bases(x)' <=> Base(t)' = x)
    BY DEF Bases
  <2>4. Cardinality(Bases(x)') = Cardinality(Bases(x)) + (IF t \in Bases(x)' THEN 1 ELSE 0)
                               - (IF t \in Bases(x) THEN 1 ELSE 0)
    BY <2>1, <2>2, OneChange
  <2>5. Cardinality(Bases(x)') \in Nat /\ Cardinality(Bases(x)) \in Nat
    BY <2>1, TaskSets
  <2> QED BY <2>3, <2>4, <2>5 DEF one
<1>5. Held(t, x)' = one(x, Pwd(t)') + one(x, Root(t)') + one(x, Iter(t)') + one(x, Base(t)')
  BY DEF Held, one
<1>6. Ext'[x] = Cardinality(Pwds(x)') + Cardinality(Roots(x)') + Cardinality(Iters(x)')
                + Cardinality(Bases(x)')
  BY DEF Ext
<1>7. Ext[x] = Cardinality(Pwds(x)) + Cardinality(Roots(x)) + Cardinality(Iters(x))
                + Cardinality(Bases(x))
  BY DEF Ext
<1> QED BY <1>1, <1>2, <1>3, <1>4, <1>5, <1>6, <1>7, OneType DEF Held

\* While k allocations have failed, the references to a cached inode exceed
\* its dentries and the files F on it by one, less k.
InodeOk(c, F, k) ==
  \A i \in Inode : \/ c[i] = 0 /\ Cached(c, i) = {} /\ F[i] = 0
                   \/ Others(c, i) >= F[i] + 1 - k

\* A step from c to e keeps that surplus, or uses one up in a failure.
Kept(c, e) == \A F \in [Inode -> Nat], k \in Nat : InodeOk(c, F, k) => InodeOk(e, F, k)
KeptFail(c, e) == \A F \in [Inode -> Nat], k \in Nat : InodeOk(c, F, k) => InodeOk(e, F, k + 1)

\* The two parts of the count of an inode.
LEMMA OthersInt ==
  ASSUME NEW c, NEW E, Balanced(c, E)
  PROVE  \A i \in Inode : /\ Others(c, i) \in Int /\ c[i] \in Int
                          /\ Others(c, i) + Cardinality(Cached(c, i)) = c[i]
                          /\ Cardinality(Cached(c, i)) \in Nat
BY Cards DEF Others, Balanced, Counts

\* Steps one after the other.
LEMMA KeptTrans == \A c, d, e : /\ Kept(c, d) /\ Kept(d, e) => Kept(c, e)
                                /\ KeptFail(c, d) /\ Kept(d, e) => KeptFail(c, e)
                                /\ Kept(c, d) /\ KeptFail(d, e) => KeptFail(c, e)
                                /\ Kept(c, c)
BY DEF Kept, KeptFail

\* dput keeps the surplus: a dentry that goes gives up its reference.
LEMMA ShrinkKept ==
  ASSUME NEW c, NEW E, NEW e, NEW F, Balanced(c, E), Balanced(e, F), Shrinks(c, e)
  PROVE  Kept(c, e)
<1> SUFFICES ASSUME NEW G \in [Inode -> Nat], NEW k \in Nat, InodeOk(c, G, k)
             PROVE  InodeOk(e, G, k)
  BY DEF Kept
<1>1. ASSUME NEW i \in Inode, c[i] = 0 /\ Cached(c, i) = {} /\ G[i] = 0
      PROVE  e[i] = 0 /\ Cached(e, i) = {} /\ G[i] = 0
  <2>1. Cached(e, i) = {}
    BY <1>1 DEF Shrinks, Cached
  <2>2. Cardinality({}) = 0
    BY FS_EmptySet
  <2>3. /\ Others(e, i) = Others(c, i) /\ Others(e, i) \in Int /\ e[i] \in Int /\ c[i] \in Int
        /\ Others(c, i) + Cardinality(Cached(c, i)) = c[i]
        /\ Others(e, i) + Cardinality(Cached(e, i)) = e[i]
    BY OthersInt DEF Shrinks
  <2> QED BY <1>1, <2>1, <2>2, <2>3
<1> QED BY <1>1 DEF InodeOk, Shrinks

\* A failure that changes nothing.
LEMMA KeptOneMore == \A c, e, E : Balanced(c, E) /\ Kept(c, e) => KeptFail(c, c) /\ KeptFail(c, e)
<1> SUFFICES ASSUME NEW c, NEW e, NEW E, Balanced(c, E), Kept(c, e)
             PROVE  KeptFail(c, c) /\ KeptFail(c, e)
  OBVIOUS
<1>1. KeptFail(c, c)
  BY OthersInt DEF KeptFail, InodeOk
<1> QED BY <1>1, KeptTrans DEF KeptFail, Kept

\* iref, and iget of an inode that was not in the cache.
LEMMA MoreInode ==
  ASSUME NEW c, NEW E, Balanced(c, E), NEW i \in Inode, NEW v \in Int,
         v = c[i] + 1, c[i] >= 0
  PROVE  LET e == Set(c, i, v)
         IN  Balanced(e, E) /\ Kept(c, e) /\ \A d \in Dentry : e[d] = c[d]
<1> DEFINE e == Set(c, i, v)
<1>0. e = Set(c, i, v)
  OBVIOUS
<1> HIDE DEF e
<1>1. /\ Balanced(e, E) /\ e[i] = v /\ \A x \in Dentry \cup Inode : x # i => e[x] = c[x]
      /\ \A x \in Dentry : e[x] = c[x]
      /\ \A x : Cached(e, x) = Cached(c, x)
  BY <1>0, SetInode
<1>2. ASSUME NEW G \in [Inode -> Nat], NEW k \in Nat, InodeOk(c, G, k)
      PROVE  InodeOk(e, G, k)
  <2> SUFFICES ASSUME NEW j \in Inode
               PROVE  \/ e[j] = 0 /\ Cached(e, j) = {} /\ G[j] = 0
                      \/ Others(e, j) >= G[j] + 1 - k
    BY DEF InodeOk
  <2>1. \/ c[j] = 0 /\ Cached(c, j) = {} /\ G[j] = 0
        \/ Others(c, j) >= G[j] + 1 - k
    BY <1>2 DEF InodeOk
  <2>2. CASE j # i
    BY <1>1, <2>1, <2>2 DEF Others
  <2>3. CASE j = i
    <3>1. Others(e, i) = Others(c, i) + 1 /\ Others(c, i) \in Int
      BY <1>1, OthersInt DEF Others
    <3>2. CASE c[j] = 0 /\ Cached(c, j) = {} /\ G[j] = 0
      <4>1. Others(c, i) = 0
        BY <2>3, <3>2, FS_EmptySet DEF Others
      <4> QED BY <2>3, <3>1, <3>2, <4>1
    <3> QED BY <2>1, <2>3, <3>1, <3>2
  <2> QED BY <2>2, <2>3
<1> QED BY <1>1, <1>2 DEF Kept, e

\* iput by someone who has no reference, after an allocation failed.
LEMMA LostInode ==
  ASSUME NEW c, NEW E, Balanced(c, E), NEW i \in Inode, NEW v \in Int,
         v = c[i] - 1, c[i] > 0
  PROVE  LET e == Set(c, i, v)
         IN  Balanced(e, E) /\ KeptFail(c, e) /\ \A d \in Dentry : e[d] = c[d]
<1> DEFINE e == Set(c, i, v)
<1>0. e = Set(c, i, v)
  OBVIOUS
<1> HIDE DEF e
<1>1. /\ Balanced(e, E) /\ e[i] = v /\ \A x \in Dentry \cup Inode : x # i => e[x] = c[x]
      /\ \A x \in Dentry : e[x] = c[x]
      /\ \A x : Cached(e, x) = Cached(c, x)
  BY <1>0, SetInode
<1>2. ASSUME NEW G \in [Inode -> Nat], NEW k \in Nat, InodeOk(c, G, k)
      PROVE  InodeOk(e, G, k + 1)
  <2> SUFFICES ASSUME NEW j \in Inode
               PROVE  \/ e[j] = 0 /\ Cached(e, j) = {} /\ G[j] = 0
                      \/ Others(e, j) >= G[j] + 1 - (k + 1)
    BY DEF InodeOk
  <2>1. \/ c[j] = 0 /\ Cached(c, j) = {} /\ G[j] = 0
        \/ Others(c, j) >= G[j] + 1 - k
    BY <1>2 DEF InodeOk
  <2>2. Others(c, j) \in Int
    BY OthersInt
  <2>3. CASE j # i
    BY <1>1, <2>1, <2>2, <2>3 DEF Others
  <2>4. CASE j = i
    <3>1. Others(e, i) = Others(c, i) - 1 /\ Others(c, i) \in Int
      BY <1>0, <1>1, OthersInt DEF Others
    <3> QED BY <2>1, <2>4, <3>1
  <2> QED BY <2>3, <2>4
<1> QED BY <1>1, <1>2 DEF KeptFail, e

\* dget of a dentry whose inode and directory are in memory.
LEMMA GetRef ==
  ASSUME NEW c, NEW E, Balanced(c, E), NEW d \in Dentry \ Top, c[parent[d]] > 0,
         c[inode[d]] > 0
  PROVE  Balanced(dget(c, d), Plus(E, d)) /\ Kept(c, dget(c, d))
<1>1. CASE dcache(c, d)
  <2>1. dget(c, d) = dref(c, d) /\ c[d] > 0
    BY <1>1 DEF dget, dcache
  <2> QED BY <2>1, AddRef, ShrinkKept
<1>2. CASE ~ dcache(c, d)
  <2> DEFINE e == dget(c, d)
  <2>1. /\ Balanced(e, Plus(E, d))
        /\ \A i \in Inode : Others(e, i) = Others(c, i)
        /\ \A i \in Inode : Cached(e, i) # {} => Cached(c, i) # {} \/ i = inode[d]
    BY <1>2, NewDentry
  <2> HIDE DEF e
  <2>2. ASSUME NEW G \in [Inode -> Nat], NEW k \in Nat, InodeOk(c, G, k)
        PROVE  InodeOk(e, G, k)
    <3> SUFFICES ASSUME NEW j \in Inode
                 PROVE  \/ e[j] = 0 /\ Cached(e, j) = {} /\ G[j] = 0
                        \/ Others(e, j) >= G[j] + 1 - k
      BY DEF InodeOk
    <3>1. \/ c[j] = 0 /\ Cached(c, j) = {} /\ G[j] = 0
          \/ Others(c, j) >= G[j] + 1 - k
      BY <2>2 DEF InodeOk
    <3>2. CASE c[j] = 0 /\ Cached(c, j) = {} /\ G[j] = 0
      <4>1. Cached(e, j) = {}
        BY <2>1, <3>2
      <4>2. e[j] = c[j]
        <5>1. /\ Others(c, j) + Cardinality(Cached(c, j)) = c[j]
              /\ Others(e, j) + Cardinality(Cached(e, j)) = e[j]
          BY <2>1, OthersInt
        <5> QED BY <2>1, <3>2, <4>1, <5>1
      <4> QED BY <3>2, <4>1, <4>2
    <3> QED BY <2>1, <3>1, <3>2
  <2> QED BY <2>1, <2>2 DEF Kept, e
<1> QED BY <1>1, <1>2

\* The files that are open on an inode.
OpenFiles(i) == {f \in File : file[f].ref > 0 /\ file[f].inode = i}
OpenOn == [i \in Inode |-> Cardinality(OpenFiles(i))]

\* The inductive invariant of the counts.  A directory that is being searched
\* is referred to until the search ends.  With a second failure a sleeper of
\* iget can have dropped a reference of somebody else (see MCInode).
BaseInv == \A t \in Task : call[t].pc \notin {"block", "inode"} => call[t].base = NULL
RefInv == /\ Balanced(count, Ext) /\ BaseInv /\ fails \in Nat
          /\ fails <= 1 => InodeOk(count, OpenOn, fails)

\* What a step of a walk does to the counts of inodes.
InodeStep == /\ UNCHANGED file
             /\ \/ UNCHANGED fails /\ (fails <= 1 => Kept(count, count'))
                \/ fails' = fails + 1 /\ (fails <= 1 => KeptFail(count, count'))

\* The files of an inode can be counted.
LEMMA OpenOnType == OpenOn \in [Inode -> Nat]
BY FS_Subset, FS_CardinalityType, FiniteAssumption DEF OpenOn, OpenFiles

\* A step of a walk keeps the invariant of the inodes.
LEMMA InodeStepOk ==
  ASSUME RefInv, InodeStep
  PROVE  fails' \in Nat /\ (fails' <= 1 => InodeOk(count', OpenOn', fails'))
<1>1. OpenOn' = OpenOn
  BY DEF InodeStep, OpenOn, OpenFiles
<1>2. fails \in Nat /\ (fails <= 1 => InodeOk(count, OpenOn, fails))
  BY DEF RefInv
<1>3. CASE UNCHANGED fails /\ (fails <= 1 => Kept(count, count'))
  BY <1>1, <1>2, <1>3, OpenOnType DEF Kept
<1>4. CASE fails' = fails + 1 /\ (fails <= 1 => KeptFail(count, count'))
  BY <1>1, <1>2, <1>4, OpenOnType DEF KeptFail
<1> QED BY <1>3, <1>4 DEF InodeStep

\* The references of the tasks when the call of t changes.
LEMMA WalkHeld ==
  ASSUME TableInv, NEW t \in Task, NEW r, call' = [call EXCEPT ![t] = r],
         UNCHANGED <<pwd, root, state>>
  PROVE  \A x \in Dentry :
           Ext'[x] = Ext[x] - one(x, Iter(t)) - one(x, Base(t))
                     + one(x, IF r.pc \in {"walk", "block", "inode"} THEN r.iter ELSE NULL)
                     + one(x, r.base)
<1>1. call'[t] = r /\ \A u \in Task : u # t => call'[u] = call[u]
  BY DEF TableInv, TableTypes
<1>2. \A u \in Task : Pwd(u)' = Pwd(u) /\ Root(u)' = Root(u)
  BY DEF Pwd, Root
<1>3. \A u \in Task : u # t => Iter(u)' = Iter(u) /\ Base(u)' = Base(u)
  BY <1>1 DEF Iter, Base, InWalk
<1>4. /\ Iter(t)' = IF r.pc \in {"walk", "block", "inode"} THEN r.iter ELSE NULL
      /\ Base(t)' = r.base
  BY <1>1 DEF Iter, Base, InWalk
<1> SUFFICES ASSUME NEW x \in Dentry
             PROVE Ext'[x] = Ext[x] - one(x, Iter(t)) - one(x, Base(t))
                             + one(x, Iter(t)') + one(x, Base(t)')
  BY <1>4
<1>5. Ext'[x] = Ext[x] + Held(t, x)' - Held(t, x) /\ Ext[x] \in Nat
  BY <1>2, <1>3, ExtChange, ExtType
<1>6. Held(t, x)' = one(x, Pwd(t)) + one(x, Root(t)) + one(x, Iter(t)') + one(x, Base(t)')
  BY <1>2 DEF Held, one
<1> QED BY <1>5, <1>6, OneType DEF Held

\* NULL refers to nothing.
LEMMA OneNull == \A x \in Dentry : one(x, NULL) = 0
BY NotLocked DEF one

\* After a component the walk refers to the new dentry only.
LEMMA FoundHeld ==
  ASSUME TableInv, NEW t \in Task, NEW d, call' = Found(t, d), UNCHANGED <<pwd, root, state>>
  PROVE  \A x \in Dentry : Ext'[x] = Ext[x] + one(x, d) - one(x, Iter(t)) - one(x, Base(t))
<1> DEFINE r == [call[t] EXCEPT !.pc = "walk", !.iter = d, !.base = NULL, !.find = NULL,
                                !.path = Tail(call[t].path)]
<1>1. call' = [call EXCEPT ![t] = r]
  BY DEF Found
<1>2. r.pc = "walk" /\ r.iter = d /\ r.base = NULL
  BY DEF TableInv, TableTypes, Rec
<1> HIDE DEF r
<1>3. \A x \in Dentry :
           Ext'[x] = Ext[x] - one(x, Iter(t)) - one(x, Base(t))
                     + one(x, IF r.pc \in {"walk", "block", "inode"} THEN r.iter ELSE NULL)
                     + one(x, r.base)
  BY <1>1, WalkHeld
<1>4. \A x \in Dentry : Ext[x] \in Nat
  BY ExtType
<1> QED BY <1>2, <1>3, <1>4, OneNull, OneType

\* A walk that ends without a result refers to nothing.
LEMMA NotFoundHeld ==
  ASSUME TableInv, NEW t \in Task, NotFound(t), UNCHANGED <<pwd, root, state>>
  PROVE  \A x \in Dentry : Ext'[x] = Ext[x] - one(x, Iter(t)) - one(x, Base(t))
<1>1. call' = [call EXCEPT ![t] = User]
  BY DEF NotFound
<1>3. \A x \in Dentry :
           Ext'[x] = Ext[x] - one(x, Iter(t)) - one(x, Base(t))
                     + one(x, IF User.pc \in {"walk", "block", "inode"} THEN User.iter ELSE NULL)
                     + one(x, User.base)
  BY <1>1, WalkHeld
<1>4. \A x \in Dentry : Ext[x] \in Nat
  BY ExtType
<1> QED BY <1>3, <1>4, OneNull, OneType, UserType

\* What a task in a walk has.
LEMMA InHand ==
  ASSUME TableInv, RefInv, NEW t \in Task
  PROVE  /\ InWalk(t) => Iter(t) = call[t].iter /\ Iter(t) \in Dentry /\ count[Iter(t)] > 0
                         /\ Ext[Iter(t)] > 0
         /\ call[t].pc \in {"block", "inode"} =>
              Base(t) = call[t].base /\ Base(t) \in Dentry /\ count[Base(t)] > 0
         /\ call[t].pc \notin {"block", "inode"} => Base(t) = NULL
         /\ ~ InWalk(t) => Iter(t) = NULL
         /\ state[t] # "none" => count[pwd[t]] > 0 /\ count[root[t]] > 0
         /\ \A x \in Dentry : Ext[x] >= one(x, Iter(t)) + one(x, Base(t))
<1>1. \A x \in Dentry : Ext[x] >= Held(t, x) /\ count[x] >= Ext[x] /\ Ext[x] \in Nat
                        /\ count[x] \in Nat
  BY ExtHeld, BalancedNat DEF RefInv
<1>2. \A x \in Dentry : Ext[x] >= one(x, Iter(t)) + one(x, Base(t))
  BY <1>1, OneType DEF Held
<1>3. \A x \in Dentry : x = Pwd(t) \/ x = Root(t) \/ x = Iter(t) \/ x = Base(t)
                          => count[x] > 0 /\ Ext[x] > 0
  BY <1>1, OneType DEF Held
<1>4. InWalk(t) => Iter(t) = call[t].iter /\ Iter(t) \in Dentry
  BY DEF Iter, TableInv, WalkInv
<1>5. call[t].pc \in {"block", "inode"} => Base(t) = call[t].base /\ Base(t) \in Dentry
  BY DEF Base, TableInv, WalkInv, InWalk
<1>6. state[t] # "none" => Pwd(t) = pwd[t] /\ Root(t) = root[t] /\ pwd[t] \in Dentry /\ root[t] \in Dentry
  BY DEF Pwd, Root, TableInv, TableTypes
<1> QED BY <1>2, <1>3, <1>4, <1>5, <1>6 DEF Base, Iter, RefInv, BaseInv

\* The balance depends on the numbers of references only.
LEMMA NewBalance ==
  ASSUME NEW c, NEW E, Balanced(c, E), \A x \in Dentry : Ext'[x] = E[x]
  PROVE  Balanced(c, Ext')
<1>1. Ext' = [x \in Dentry |-> Ext'[x]] /\ E \in [Dentry -> Nat]
  BY DEF Ext, Balanced
<1>2. Ext' \in [Dentry -> Nat]
  BY <1>1
<1> QED BY <1>2, SameBalance

\* What a step has to keep.
LEMMA NewRef ==
  ASSUME Balanced(count', Ext'), BaseInv', fails' \in Nat,
         fails' <= 1 => InodeOk(count', OpenOn', fails')
  PROVE  RefInv'
BY DEF RefInv
\* What the invariant says in its parts.
LEMMA RefParts ==
  ASSUME RefInv
  PROVE  /\ Balanced(count, Ext) /\ BaseInv /\ fails \in Nat /\ count \in Counts
         /\ \A i \in Inode : fails <= 1 => count[i] >= 0
         /\ \A i \in Inode : count[i] \in Int
         /\ \A x \in Dentry : count[x] \in Nat
<1>1. /\ Balanced(count, Ext) /\ BaseInv /\ fails \in Nat /\ count \in Counts
      /\ \A i \in Inode : count[i] \in Int
  BY DEF RefInv, Balanced, Counts
<1>2. ASSUME NEW i \in Inode, fails <= 1 PROVE count[i] >= 0
  <2>1. InodeOk(count, OpenOn, fails) /\ OpenOn[i] \in Nat
    BY <1>2, OpenOnType DEF RefInv
  <2>2. /\ Others(count, i) \in Int /\ Cardinality(Cached(count, i)) \in Nat
        /\ Others(count, i) + Cardinality(Cached(count, i)) = count[i]
    BY <1>1, OthersInt
  <2> QED BY <1>1, <1>2, <2>1, <2>2 DEF InodeOk
<1> QED BY <1>1, <1>2, BalancedNat

\* The base of a walk after a step of it.
LEMMA BaseFound == ASSUME TableInv, BaseInv, NEW t \in Task, NEW d, call' = Found(t, d) PROVE BaseInv'
BY DEF TableInv, TableTypes, BaseInv, Found, Rec
\* A walk that ends searches no directory.
LEMMA BaseNotFound == ASSUME TableInv, BaseInv, NEW t \in Task, NotFound(t) PROVE BaseInv'
BY UserType DEF TableInv, TableTypes, BaseInv, NotFound

\* A step that changes no count.
LEMMA InodeSame == /\ \A c : Kept(c, c)
                   /\ \A c, E, e, F : Balanced(c, E) /\ Balanced(e, F) /\ Shrinks(c, e) => Kept(c, e)
BY KeptTrans, ShrinkKept

\* "..": the reference moves to the parent.
LEMMA RefWalkUp ==
  ASSUME TableInv, RefInv, NEW t \in Task, walk_up(t)
  PROVE  RefInv'
<1> DEFINE iter == call[t].iter
<1>1. /\ InWalk(t) /\ call[t].pc = "walk" /\ UNCHANGED <<pwd, root, state, file, fails>>
      /\ iter \in Dentry /\ Iter(t) = iter /\ count[iter] > 0 /\ Ext[iter] > 0 /\ Base(t) = NULL
  BY InHand DEF walk_up, Walking, InWalk
<1>2. Balanced(count, Ext) /\ \A x \in Dentry : Ext[x] \in Nat
  BY RefParts, ExtType
<1>3. CASE iter = call[t].top
  <2>1. call' = Found(t, iter) /\ UNCHANGED count
    BY <1>3 DEF walk_up
  <2>2. \A x \in Dentry : Ext'[x] = Ext[x]
    BY <1>1, <1>2, <2>1, FoundHeld, OneNull, OneType
  <2>3. Balanced(count', Ext') /\ BaseInv' /\ InodeStep
    BY <1>1, <1>2, <2>1, <2>2, NewBalance, BaseFound, InodeSame, RefParts DEF InodeStep
  <2> QED BY <2>3, NewRef, InodeStepOk
<1>4. CASE iter # call[t].top
  <2>1. call' = Found(t, Up(iter)) /\ count' = dput(dref(count, Up(iter)), iter)
    BY <1>4 DEF walk_up
  <2>2. Up(iter) \in Dentry /\ count[Up(iter)] > 0
    <3>1. CASE iter \in Top
      <4>1. Up(iter) = droot
        BY <3>1, TreeAssumption DEF Up, Top
      <4> QED BY <1>2, <4>1, BalancedNat, Tree DEF Top
    <3>2. CASE iter \notin Top
      <4>1. Up(iter) = parent[iter] /\ parent[iter] \in Dentry
        BY <1>1, <3>2, Tree, NotLocked DEF Up, Top
      <4> QED BY <1>1, <1>2, <3>2, <4>1, BalancedNat
    <3> QED BY <3>1, <3>2
  <2>3. PICK F : /\ Balanced(count', F) /\ Shrinks(count, count')
                 /\ \A x \in Dentry : F[x] = Ext[x] + one(x, Up(iter)) - one(x, iter)
    BY <1>1, <1>2, <2>1, <2>2, MoveRef
  <2>4. \A x \in Dentry : Ext'[x] = F[x]
    BY <1>1, <1>2, <2>1, <2>3, FoundHeld, OneNull, OneType
  <2>5. Balanced(count', Ext') /\ BaseInv' /\ InodeStep
    BY <1>1, <1>2, <2>1, <2>3, <2>4, NewBalance, BaseFound, InodeSame, RefParts DEF InodeStep
  <2> QED BY <2>5, NewRef, InodeStepOk
<1> QED BY <1>3, <1>4

\* A walk that ends without a result, with the counts c of what it has done.
LEMMA EndWithout ==
  ASSUME TableInv, RefInv, NEW t \in Task, NotFound(t), UNCHANGED <<pwd, root, state, file>>,
         call[t].pc \in {"block", "inode"},
         NEW c, Balanced(c, Ext), count' = EndOfStep(t, c),
         \/ UNCHANGED fails /\ (fails <= 1 => Kept(count, c))
         \/ fails' = fails + 1 /\ (fails <= 1 => KeptFail(count, c))
  PROVE  RefInv'
<1> DEFINE iter == call[t].iter
           base == call[t].base
<1>1. /\ iter \in Dentry /\ base \in Dentry /\ Iter(t) = iter /\ Base(t) = base
      /\ \A x \in Dentry : Ext[x] >= one(x, base) + one(x, iter)
  BY InHand, OneType, ExtType DEF InWalk
<1>2. count' = dput(dput(c, base), iter)
  BY DEF EndOfStep
<1>3. PICK F : /\ Balanced(count', F) /\ Shrinks(c, count')
               /\ \A x \in Dentry : F[x] = Ext[x] - one(x, base) - one(x, iter)
  BY <1>1, <1>2, PutTwo
<1>4. \A x \in Dentry : Ext'[x] = F[x]
  BY <1>1, <1>3, NotFoundHeld, ExtType, OneType
<1>5. Balanced(count', Ext') /\ BaseInv'
  BY <1>3, <1>4, NewBalance, BaseNotFound, RefParts
<1>6. Kept(c, count')
  BY <1>3, InodeSame
<1>7. InodeStep
  BY <1>6, KeptTrans DEF InodeStep
<1> QED BY <1>5, <1>7, NewRef, InodeStepOk

\* A walk that goes on with d, with the counts c of what it has done.
LEMMA GoOn ==
  ASSUME TableInv, RefInv, NEW t \in Task, NEW d \in Dentry, call' = Found(t, d),
         UNCHANGED <<pwd, root, state, file, fails>>,
         call[t].pc \in {"block", "inode"},
         NEW c, Balanced(c, Plus(Ext, d)), count' = EndOfStep(t, c),
         fails <= 1 => Kept(count, c)
  PROVE  RefInv'
<1> DEFINE iter == call[t].iter
           base == call[t].base
<1>1. /\ iter \in Dentry /\ base \in Dentry /\ Iter(t) = iter /\ Base(t) = base
      /\ \A x \in Dentry : Ext[x] >= one(x, base) + one(x, iter)
  BY InHand, OneType, ExtType DEF InWalk
<1>2. count' = dput(dput(c, base), iter)
  BY DEF EndOfStep
<1>3. \A x \in Dentry : Plus(Ext, d)[x] = Ext[x] + one(x, d) /\ Ext[x] \in Nat
  BY PlusMinus, ExtType
<1>4. \A x \in Dentry : Plus(Ext, d)[x] >= one(x, base) + one(x, iter)
  BY <1>1, <1>3, OneType
<1>5. PICK F : /\ Balanced(count', F) /\ Shrinks(c, count')
               /\ \A x \in Dentry : F[x] = Plus(Ext, d)[x] - one(x, base) - one(x, iter)
  BY <1>1, <1>2, <1>4, PutTwo
<1>6. \A x \in Dentry : Ext'[x] = F[x]
  BY <1>1, <1>3, <1>5, FoundHeld, OneType
<1>7. Balanced(count', Ext') /\ BaseInv'
  BY <1>5, <1>6, NewBalance, BaseFound, RefParts
<1>8. Kept(c, count')
  BY <1>5, InodeSame
<1>9. InodeStep
  BY <1>8, KeptTrans DEF InodeStep
<1> QED BY <1>7, <1>9, NewRef, InodeStepOk

\* There is no such entry: all references are dropped.
LEMMA RefLookupNone ==
  ASSUME TableInv, RefInv, NEW t \in Task, lookup_none(t) \/ iget_error(t)
  PROVE  RefInv'
BY RefParts, InodeSame, EndWithout DEF lookup_none, iget_error

\* The walk has come to something that is no directory.
LEMMA RefWalkFile ==
  ASSUME TableInv, RefInv, NEW t \in Task, walk_file(t)
  PROVE  RefInv'
<1> DEFINE iter == call[t].iter
<1>1. /\ UNCHANGED <<pwd, root, state, file, fails>>
      /\ iter \in Dentry /\ Iter(t) = iter /\ Ext[iter] > 0 /\ Base(t) = NULL
      /\ NotFound(t) /\ count' = dput(count, iter)
  BY InHand DEF walk_file, Walking, InWalk
<1>2. Balanced(count, Ext) /\ BaseInv /\ Ext \in [Dentry -> Nat]
  BY RefParts, ExtType
<1>3. Balanced(count', Minus(Ext, iter)) /\ Shrinks(count, count')
  BY <1>1, <1>2, PutRef
<1>4. \A x \in Dentry : Minus(Ext, iter)[x] = Ext[x] - one(x, iter) /\ Ext[x] \in Nat
  BY <1>1, <1>2, PlusMinus
<1>5. \A x \in Dentry : Ext'[x] = Ext[x] - one(x, iter) - one(x, NULL)
  BY <1>1, NotFoundHeld
<1>6. \A x \in Dentry : Ext'[x] = Minus(Ext, iter)[x]
  BY <1>4, <1>5, OneNull, OneType
<1>7. Balanced(count', Ext') /\ BaseInv' /\ InodeStep
  BY <1>1, <1>2, <1>3, <1>6, NewBalance, BaseNotFound, InodeSame DEF InodeStep
<1> QED BY <1>7, NewRef, InodeStepOk

\* dref drops nothing.
LEMMA More == ASSUME NEW c \in Counts, NEW d \in Dentry
              PROVE  \A x \in Dentry : c[x] > 0 => dref(c, d)[x] > 0
BY DEF Counts, dref

\* What is mounted is in memory.
LEMMA MountedOk ==
  ASSUME NEW c, NEW E, Balanced(c, E), NEW d \in Dentry, c[d] > 0
  PROVE  Mounted(d) \in Dentry /\ c[Mounted(d)] > 0
<1>1. c[sroot] > E[sroot] /\ E[sroot] \in Nat /\ c[sroot] \in Nat
  BY Tree, BalancedNat DEF Top
<1> QED BY <1>1, Tree DEF Mounted

\* find_entry: a child in memory, or a search on disk that holds the directory.
LEMMA RefFindEntry ==
  ASSUME TableInv, RefInv, NEW t \in Task, find_entry(t)
  PROVE  RefInv'
<1> DEFINE iter == call[t].iter
           base == Mounted(iter)
<1>1. /\ UNCHANGED <<pwd, root, state, file, fails>> /\ call[t].pc = "walk"
      /\ iter \in Dentry /\ Iter(t) = iter /\ Ext[iter] > 0 /\ count[iter] > 0 /\ Base(t) = NULL
  BY InHand DEF find_entry, Walking, InWalk
<1>2. Balanced(count, Ext) /\ BaseInv /\ Ext \in [Dentry -> Nat] /\ count \in Counts
  BY RefParts, ExtType
<1>3. base \in Dentry /\ count[base] > 0
  BY <1>1, <1>2, MountedOk
<1> DEFINE g == dref(count, base)
           E == Plus(Ext, base)
<1>4. /\ Balanced(g, E) /\ Shrinks(count, g) /\ E \in [Dentry -> Nat]
      /\ \A x \in Dentry : E[x] = Ext[x] + one(x, base) /\ Ext[x] \in Nat
  BY <1>2, <1>3, AddRef, PlusMinus
<1>5. \A x \in Dentry : count[x] > 0 => g[x] > 0
  BY <1>2, <1>3, More
<1>6. ASSUME NEW e \in Dentry, count[e] > 0,
             count' = dput(dput(dref(g, e), base), iter), call' = Found(t, e)
      PROVE  RefInv'
  <2> HIDE DEF g, E
  <2> DEFINE h == dref(g, e)
             F == Plus(E, e)
  <2>1. /\ Balanced(h, F) /\ Shrinks(g, h)
        /\ \A x \in Dentry : F[x] = E[x] + one(x, e)
    BY <1>4, <1>5, <1>6, AddRef, PlusMinus
  <2>2. count' = dput(dput(h, base), iter)
    BY <1>6
  <2> HIDE DEF h, F, base
  <2>3. \A x \in Dentry : F[x] >= one(x, base) + one(x, iter)
    <3>1. \A x \in Dentry : Ext[x] >= one(x, iter)
      BY <1>1, <1>4, OneType
    <3> QED BY <1>4, <2>1, <3>1, OneType
  <2>4. PICK G : /\ Balanced(count', G) /\ Shrinks(h, count')
                 /\ \A x \in Dentry : G[x] = F[x] - one(x, base) - one(x, iter)
    BY <1>1, <1>3, <2>1, <2>2, <2>3, PutTwo
  <2>5. \A x \in Dentry : Ext'[x] = Ext[x] + one(x, e) - one(x, iter) - one(x, NULL)
    BY <1>1, <1>6, FoundHeld
  <2>6. \A x \in Dentry : Ext'[x] = G[x]
    BY <1>4, <2>1, <2>4, <2>5, OneNull, OneType
  <2>7. Kept(count, count')
    <3>1. Kept(count, g) /\ Kept(g, h) /\ Kept(h, count')
      BY <1>2, <1>4, <2>1, <2>4, InodeSame
    <3> QED BY <3>1, KeptTrans
  <2>8. Balanced(count', Ext') /\ BaseInv' /\ InodeStep
    BY <1>1, <1>2, <1>6, <2>4, <2>6, <2>7, NewBalance, BaseFound DEF InodeStep
  <2> QED BY <2>8, NewRef, InodeStepOk
<1>7. ASSUME count' = g, call' = [call EXCEPT ![t].pc = "block", ![t].base = base]
      PROVE  RefInv'
  <2> DEFINE r == [call[t] EXCEPT !.pc = "block", !.base = base]
  <2>1. call' = [call EXCEPT ![t] = r]
    BY <1>7 DEF TableInv, TableTypes
  <2>2. r.pc = "block" /\ r.base = base /\ r.iter = iter
    BY DEF TableInv, TableTypes, Rec
  <2> HIDE DEF r, base, g, E
  <2>3. \A x \in Dentry : Ext'[x] = Ext[x] - one(x, Iter(t)) - one(x, Base(t))
                     + one(x, IF r.pc \in {"walk", "block", "inode"} THEN r.iter ELSE NULL)
                     + one(x, r.base)
    BY <1>1, <2>1, WalkHeld
  <2>4. \A x \in Dentry : Ext'[x] = E[x]
    BY <1>1, <1>4, <2>2, <2>3, OneNull, OneType
  <2>5. BaseInv'
    BY <1>2, <2>1, <2>2 DEF BaseInv, TableInv, TableTypes
  <2>6. Balanced(count', Ext') /\ InodeStep
    BY <1>1, <1>2, <1>4, <1>7, <2>4, NewBalance, InodeSame DEF InodeStep
  <2> QED BY <2>5, <2>6, NewRef, InodeStepOk
<1>8. \/ \E e \in Dentry : /\ count[e] > 0 /\ call' = Found(t, e)
                           /\ count' = dput(dput(dref(g, e), base), iter)
      \/ count' = g /\ call' = [call EXCEPT ![t].pc = "block", ![t].base = base]
  BY DEF find_entry, InMemory, dcache
<1> QED BY <1>6, <1>7, <1>8

\* What the walk looks for lies in a directory that it holds.
LEMMA InBase ==
  ASSUME TableInv, RefInv, NEW t \in Task, call[t].pc \in {"block", "inode"},
         NEW e \in OnDisk(call[t].base, Head(call[t].path))
  PROVE  /\ e \in Dentry \ Top /\ parent[e] = Base(t) /\ parent[e] \in Dentry
         /\ count[parent[e]] > 0 /\ inode[e] \in Inode
<1>1. Base(t) = call[t].base /\ Base(t) \in Dentry /\ count[Base(t)] > 0
  BY InHand
<1> QED BY <1>1, NoBoth DEF OnDisk, Top

\* iref and iput as new counts.
LEMMA IputIref ==
  ASSUME NEW c \in Counts, NEW i \in Inode
  PROVE  /\ iref(c, i) = Set(c, i, c[i] + 1) /\ iput(c, i) = Set(c, i, c[i] - 1)
         /\ iput(iref(c, i), i) = c
         /\ c[i] = 0 => iput(Set(c, i, 1), i) = c
         /\ iput(Set(c, i, 1), i) = Set(c, i, 0)
         /\ c[i] \in Int /\ Set(c, i, 1)[i] = 1
BY DEF iref, iput, Set, Counts

\* iget of a cached inode: its reference is kept, or given back on a failure.
LEMMA RefLookupHit ==
  ASSUME TableInv, RefInv, NEW t \in Task, lookup_hit(t)
  PROVE  RefInv'
<1>1. /\ Balanced(count, Ext) /\ Ext \in [Dentry -> Nat] /\ count \in Counts
      /\ call[t].pc \in {"block", "inode"} /\ UNCHANGED <<pwd, root, state, file>>
  BY RefParts, ExtType DEF lookup_hit
<1>2. PICK e \in OnDisk(call[t].base, Head(call[t].path)) :
       /\ count[inode[e]] > 0
       /\ \/ /\ count' = EndOfStep(t, dget(iref(count, inode[e]), e))
             /\ call' = Found(t, e) /\ UNCHANGED fails
          \/ /\ fails' = fails + 1
             /\ count' = EndOfStep(t, iput(iref(count, inode[e]), inode[e]))
             /\ NotFound(t)
  BY DEF lookup_hit, icache
<1>3. e \in Dentry \ Top /\ parent[e] \in Dentry /\ count[parent[e]] > 0 /\ inode[e] \in Inode
  BY <1>1, <1>2, InBase
<1> DEFINE i == inode[e]
           v == count[i] + 1
           g == Set(count, i, v)
<1>4. iref(count, i) = g /\ iput(iref(count, i), i) = count /\ v \in Int /\ v > 0
      /\ v = count[i] + 1 /\ count[i] >= 0
  BY <1>1, <1>2, <1>3, IputIref
<1> HIDE DEF v
<1>5. CASE /\ count' = EndOfStep(t, dget(iref(count, inode[e]), e))
           /\ call' = Found(t, e) /\ UNCHANGED fails
  <2>1. /\ Balanced(g, Ext) /\ Kept(count, g) /\ \A d \in Dentry : g[d] = count[d]
    BY <1>1, <1>3, <1>4, MoreInode
  <2>2. g[i] > 0
    BY <1>1, <1>3, <1>4 DEF Set, Counts
  <2>3. count' = EndOfStep(t, dget(g, e))
    BY <1>4, <1>5
  <2> HIDE DEF g
  <2>4. Balanced(dget(g, e), Plus(Ext, e)) /\ Kept(g, dget(g, e))
    BY <1>3, <2>1, <2>2, GetRef
  <2>5. Kept(count, dget(g, e))
    BY <2>1, <2>4, KeptTrans
  <2> QED BY <1>1, <1>3, <1>5, <2>3, <2>4, <2>5, GoOn
<1>6. CASE /\ fails' = fails + 1 /\ NotFound(t)
           /\ count' = EndOfStep(t, iput(iref(count, inode[e]), inode[e]))
  <2>1. count' = EndOfStep(t, count) /\ KeptFail(count, count)
    BY <1>1, <1>4, <1>6, KeptOneMore, InodeSame
  <2> QED BY <1>1, <1>6, <2>1, EndWithout
<1> QED BY <1>2, <1>5, <1>6

\* iget sleeps, or has no memory.
LEMMA RefLookupMiss ==
  ASSUME TableInv, RefInv, NEW t \in Task, lookup_miss(t)
  PROVE  RefInv'
<1>1. /\ Balanced(count, Ext) /\ Ext \in [Dentry -> Nat] /\ BaseInv
      /\ call[t].pc = "block" /\ UNCHANGED <<pwd, root, state, file>>
  BY RefParts, ExtType DEF lookup_miss
<1>2. PICK e \in Dentry :
        \/ /\ call' = [call EXCEPT ![t].pc = "inode", ![t].find = e] /\ UNCHANGED <<count, fails>>
        \/ fails' = fails + 1 /\ count' = EndOfStep(t, count) /\ NotFound(t)
  BY DEF lookup_miss, OnDisk
<1>3. CASE call' = [call EXCEPT ![t].pc = "inode", ![t].find = e] /\ UNCHANGED <<count, fails>>
  <2> DEFINE r == [call[t] EXCEPT !.pc = "inode", !.find = e]
  <2>1. call' = [call EXCEPT ![t] = r]
    BY <1>3 DEF TableInv, TableTypes
  <2>2. r.pc = "inode" /\ r.base = call[t].base /\ r.iter = call[t].iter
    BY DEF TableInv, TableTypes, Rec
  <2> HIDE DEF r
  <2>3. \A x \in Dentry : Ext'[x] = Ext[x] - one(x, Iter(t)) - one(x, Base(t))
                     + one(x, IF r.pc \in {"walk", "block", "inode"} THEN r.iter ELSE NULL)
                     + one(x, r.base)
    BY <1>1, <2>1, WalkHeld
  <2>4. Iter(t) = call[t].iter /\ Base(t) = call[t].base
    BY <1>1, InHand DEF InWalk
  <2>5. \A x \in Dentry : Ext'[x] = Ext[x]
    BY <1>1, <2>2, <2>3, <2>4, OneType
  <2>6. BaseInv'
    BY <1>1, <2>1, <2>2 DEF BaseInv, TableInv, TableTypes
  <2>7. Balanced(count', Ext') /\ InodeStep
    BY <1>1, <1>3, <2>5, NewBalance, InodeSame DEF InodeStep
  <2> QED BY <2>6, <2>7, NewRef, InodeStepOk
<1>4. CASE fails' = fails + 1 /\ count' = EndOfStep(t, count) /\ NotFound(t)
  <2>1. KeptFail(count, count)
    BY <1>1, KeptOneMore, InodeSame
  <2> QED BY <1>1, <1>4, <2>1, EndWithout
<1> QED BY <1>2, <1>3, <1>4

\* iget after it slept: the inode is in memory, and its count is kept.
LEMMA Iget ==
  ASSUME RefInv, NEW i \in Inode
  PROVE  LET c == iget(count, i)
         IN  /\ Balanced(c, Ext) /\ (fails <= 1 => Kept(count, c)) /\ c[i] > 0
             /\ \A d \in Dentry : c[d] = count[d]
             /\ Balanced(iput(c, i), Ext) /\ (fails <= 1 => KeptFail(count, iput(c, i)))
<1>1. /\ Balanced(count, Ext) /\ Ext \in [Dentry -> Nat] /\ count \in Counts
      /\ count[i] \in Int /\ (fails <= 1 => count[i] >= 0)
  BY RefParts, ExtType
<1>2. CASE count[i] > 0
  <2> DEFINE v == count[i] - 1
             e == Set(count, i, v)
  <2>1. iget(count, i) = count /\ iput(count, i) = e /\ v \in Int
    BY <1>1, <1>2, IputIref DEF iget, icache
  <2>2. Balanced(e, Ext) /\ KeptFail(count, e)
    BY <1>1, <1>2, <2>1, LostInode
  <2> QED BY <1>1, <1>2, <2>1, <2>2, InodeSame
<1>3. CASE ~ (count[i] > 0)
  <2> DEFINE e == Set(count, i, 1)
             h == Set(count, i, 0)
  <2>1. iget(count, i) = e /\ iput(e, i) = h /\ e[i] = 1
    BY <1>1, <1>3, IputIref DEF iget, icache, Set
  <2>2. e = Set(count, i, 1) /\ h = Set(count, i, 0)
    OBVIOUS
  <2> HIDE DEF e, h
  <2>3. Balanced(e, Ext) /\ Balanced(h, Ext) /\ \A d \in Dentry : e[d] = count[d]
    BY SMTT(30), <1>1, <2>2, SetInode
  <2>4. ASSUME fails <= 1 PROVE Kept(count, e) /\ KeptFail(count, h)
    <3>1. count[i] = 0
      BY <1>1, <1>3, <2>4
    <3>2. h = count
      BY <1>1, <2>1, <2>2, <3>1, IputIref
    <3>3. Kept(count, e)
      BY <1>1, <2>2, <3>1, MoreInode
    <3> QED BY <1>1, <3>2, <3>3, KeptOneMore, InodeSame
  <2> QED BY <2>1, <2>3, <2>4
<1> QED BY <1>2, <1>3

\* iget returns: with a reference of its own or, in a race, without.
LEMMA RefIgetReturn ==
  ASSUME TableInv, RefInv, NEW t \in Task, iget_return(t)
  PROVE  RefInv'
<1> DEFINE e == call[t].find
           i == inode[e]
           c == iget(count, i)
<1>1. call[t].pc = "inode" /\ UNCHANGED <<pwd, root, state, file>>
  BY DEF iget_return
<1>2. e \in OnDisk(call[t].base, Head(call[t].path))
  BY <1>1 DEF TableInv, WalkInv, InWalk
<1>3. e \in Dentry \ Top /\ parent[e] \in Dentry /\ count[parent[e]] > 0 /\ i \in Inode
  BY <1>1, <1>2, InBase
<1>4. /\ Balanced(c, Ext) /\ (fails <= 1 => Kept(count, c)) /\ c[i] > 0
      /\ \A d \in Dentry : c[d] = count[d]
      /\ Balanced(iput(c, i), Ext) /\ (fails <= 1 => KeptFail(count, iput(c, i)))
  BY <1>3, Iget
<1>5. \/ count' = EndOfStep(t, dget(c, e)) /\ call' = Found(t, e) /\ UNCHANGED fails
      \/ fails' = fails + 1 /\ count' = EndOfStep(t, iput(c, i)) /\ NotFound(t)
  BY DEF iget_return
<1> HIDE DEF c, i, e
<1>6. CASE count' = EndOfStep(t, dget(c, e)) /\ call' = Found(t, e) /\ UNCHANGED fails
  <2>1. Balanced(dget(c, e), Plus(Ext, e)) /\ Kept(c, dget(c, e))
    BY <1>3, <1>4, GetRef DEF i
  <2>2. fails <= 1 => Kept(count, dget(c, e))
    BY <1>4, <2>1, KeptTrans
  <2> QED BY <1>1, <1>3, <1>6, <2>1, <2>2, GoOn
<1>7. CASE fails' = fails + 1 /\ count' = EndOfStep(t, iput(c, i)) /\ NotFound(t)
  BY <1>1, <1>4, <1>7, EndWithout
<1> QED BY <1>5, <1>6, <1>7

\* A walk begins, with a reference to its first dentry.
LEMMA RefLookup ==
  ASSUME TableInv, RefInv, NEW t \in Task, NEW op, NEW path, NEW slash, lookup(t, op, path, slash)
  PROVE  RefInv'
<1> DEFINE iter == IF op = "chroot" THEN droot ELSE IF slash THEN root[t] ELSE pwd[t]
           top  == IF op = "chroot" THEN droot ELSE root[t]
<1>1. /\ state[t] = "run" /\ call[t].pc = "user" /\ UNCHANGED <<pwd, root, state, file, fails>>
      /\ count' = dref(count, iter)
      /\ Balanced(count, Ext) /\ Ext \in [Dentry -> Nat] /\ BaseInv
  BY RefParts, ExtType DEF lookup
<1>2. PICK n \in Fd \cup {-1} : call' = [call EXCEPT ![t] = [User EXCEPT !.pc = "walk", !.op = op,
                        !.path = path, !.iter = iter, !.top = top, !.fd = n]]
  BY DEF lookup
<1> DEFINE r == [User EXCEPT !.pc = "walk", !.op = op, !.path = path, !.iter = iter,
                             !.top = top, !.fd = n]
<1>3. call' = [call EXCEPT ![t] = r] /\ r.pc = "walk" /\ r.iter = iter /\ r.base = NULL
  BY <1>2 DEF User
<1> HIDE DEF r
<1>4. iter \in Dentry /\ count[iter] > 0
  <2>1. count[pwd[t]] > 0 /\ count[root[t]] > 0 /\ pwd[t] \in Dentry /\ root[t] \in Dentry
    BY <1>1, InHand DEF TableInv, TableTypes
  <2>2. count[droot] > Ext[droot] /\ Ext[droot] \in Nat /\ count[droot] \in Nat
    BY <1>1, Tree, BalancedNat DEF Top
  <2> QED BY <2>1, <2>2, Tree
<1> HIDE DEF iter
<1>5. /\ Balanced(count', Plus(Ext, iter)) /\ Shrinks(count, count')
      /\ \A x \in Dentry : Plus(Ext, iter)[x] = Ext[x] + one(x, iter) /\ Ext[x] \in Nat
  BY <1>1, <1>4, AddRef, PlusMinus
<1>6. Iter(t) = NULL /\ Base(t) = NULL
  BY <1>1, InHand DEF InWalk
<1>7. \A x \in Dentry : Ext'[x] = Ext[x] - one(x, Iter(t)) - one(x, Base(t))
                     + one(x, IF r.pc \in {"walk", "block", "inode"} THEN r.iter ELSE NULL)
                     + one(x, r.base)
  BY <1>1, <1>3, WalkHeld
<1>8. \A x \in Dentry : Ext'[x] = Plus(Ext, iter)[x]
  BY <1>3, <1>5, <1>6, <1>7, OneNull, OneType
<1>9. BaseInv'
  BY <1>1, <1>3 DEF BaseInv, TableInv, TableTypes
<1>10. Balanced(count', Ext') /\ InodeStep
  BY <1>1, <1>5, <1>8, NewBalance, InodeSame DEF InodeStep
<1> QED BY <1>9, <1>10, NewRef, InodeStepOk

\* The end of the walk: the reference moves to the result.
LEMMA Finish ==
  ASSUME TableInv, RefInv, NEW t \in Task, InWalk(t)
  PROVE  /\ Result(t) \in Dentry
         /\ \E F : /\ Balanced(AtFinish(t), F) /\ Shrinks(count, AtFinish(t))
                   /\ F \in [Dentry -> Nat]
                   /\ \A x \in Dentry : F[x] = Ext[x] + one(x, Result(t)) - one(x, Iter(t))
<1> DEFINE iter == call[t].iter
<1>1. /\ Balanced(count, Ext) /\ Ext \in [Dentry -> Nat]
      /\ iter \in Dentry /\ Iter(t) = iter /\ count[iter] > 0 /\ Ext[iter] > 0
  BY RefParts, ExtType, InHand
<1>2. Result(t) \in Dentry /\ count[Result(t)] > 0
  BY <1>1, MountedOk DEF Result
<1>3. CASE iter = droot
  <2>1. Result(t) = sroot /\ AtFinish(t) = dput(dref(count, sroot), droot)
    BY <1>3 DEF Result, Mounted, AtFinish
  <2>2. PICK F : /\ Balanced(AtFinish(t), F) /\ Shrinks(count, AtFinish(t))
                 /\ \A x \in Dentry : F[x] = Ext[x] + one(x, sroot) - one(x, droot)
    BY <1>1, <1>2, <1>3, <2>1, MoveRef
  <2>3. F \in [Dentry -> Nat]
    BY <2>2 DEF Balanced
  <2> QED BY <1>1, <1>2, <1>3, <2>1, <2>2, <2>3
<1>4. CASE iter # droot
  <2>1. Result(t) = iter /\ AtFinish(t) = count
    BY <1>4 DEF Result, Mounted, AtFinish
  <2>2. \A x \in Dentry : Ext[x] = Ext[x] + one(x, iter) - one(x, iter)
    BY <1>1, OneType
  <2> QED BY <1>1, <1>2, <2>1, <2>2 DEF Shrinks
<1> QED BY <1>3, <1>4

\* The task has come to the end of its walk and has no references of walks
\* any more.
LEMMA Ended ==
  ASSUME TableInv, RefInv, NEW t \in Task, InWalk(t), call[t].pc = "walk",
         call' = [call EXCEPT ![t] = User], UNCHANGED state,
         \A u \in Task : u # t => pwd'[u] = pwd[u] /\ root'[u] = root[u]
  PROVE  /\ state[t] = "run" /\ BaseInv' /\ Pwd(t) = pwd[t] /\ Root(t) = root[t]
         /\ \A x \in Dentry :
              /\ Ext'[x] = Ext[x] - one(x, Iter(t)) - one(x, pwd[t]) - one(x, root[t])
                           + one(x, pwd'[t]) + one(x, root'[t])
              /\ Ext[x] >= one(x, Iter(t)) + one(x, pwd[t]) + one(x, root[t])
<1>1. state[t] = "run" /\ BaseInv /\ Base(t) = NULL
  <2>1. call[t].pc # "user"
    BY DEF InWalk
  <2> QED BY <2>1, InHand DEF TableInv, TaskInv, RefInv, TableTypes
<1>2. call'[t] = User /\ \A u \in Task : u # t => call'[u] = call[u]
  BY DEF TableInv, TableTypes
<1>3. BaseInv'
  BY <1>1, <1>2, UserType DEF BaseInv
<1>4. /\ Pwd(t) = pwd[t] /\ Root(t) = root[t] /\ Pwd(t)' = pwd'[t] /\ Root(t)' = root'[t]
      /\ Iter(t)' = NULL /\ Base(t)' = NULL
  BY <1>1, <1>2, UserType DEF Pwd, Root, Iter, Base, InWalk
<1>5. \A u \in Task : u # t => /\ Pwd(u)' = Pwd(u) /\ Root(u)' = Root(u)
                               /\ Iter(u)' = Iter(u) /\ Base(u)' = Base(u)
  BY <1>2 DEF Pwd, Root, Iter, Base, InWalk
<1> SUFFICES ASSUME NEW x \in Dentry
             PROVE  /\ Ext'[x] = Ext[x] - one(x, Iter(t)) - one(x, pwd[t]) - one(x, root[t])
                           + one(x, pwd'[t]) + one(x, root'[t])
                    /\ Ext[x] >= one(x, Iter(t)) + one(x, pwd[t]) + one(x, root[t])
  BY <1>1, <1>3, <1>4
<1>6. Ext'[x] = Ext[x] + Held(t, x)' - Held(t, x) /\ Ext[x] >= Held(t, x) /\ Ext[x] \in Nat
  BY <1>5, ExtChange, ExtHeld, ExtType
<1>7. Held(t, x) = one(x, pwd[t]) + one(x, root[t]) + one(x, Iter(t)) + one(x, NULL)
  BY <1>1, <1>4 DEF Held
<1>8. Held(t, x)' = one(x, pwd'[t]) + one(x, root'[t]) + one(x, NULL) + one(x, NULL)
  <2>1. Held(t, x)' = one(x, Pwd(t)') + one(x, Root(t)') + one(x, Iter(t)') + one(x, Base(t)')
    BY DEF Held, one
  <2> QED BY <1>4, <2>1
<1> QED BY <1>6, <1>7, <1>8, OneNull, OneType

\* sys_chdir: the reference to pwd moves, or that of the walk is dropped.
LEMMA RefChdir ==
  ASSUME TableInv, RefInv, NEW t \in Task, sys_chdir(t)
  PROVE  RefInv'
<1> DEFINE find == Result(t)
           c == AtFinish(t)
<1>1. /\ InWalk(t) /\ call[t].pc = "walk" /\ call' = [call EXCEPT ![t] = User]
      /\ UNCHANGED <<root, state, file, fails>>
      /\ \/ count' = dput(c, pwd[t]) /\ pwd' = [pwd EXCEPT ![t] = find]
         \/ count' = dput(c, find) /\ pwd' = pwd
  BY DEF sys_chdir, AtEnd, InWalk
<1>2. /\ pwd[t] \in Dentry
      /\ \/ count' = dput(c, pwd[t]) /\ pwd'[t] = find
         \/ count' = dput(c, find) /\ pwd'[t] = pwd[t]
      /\ \A u \in Task : u # t => pwd'[u] = pwd[u] /\ root'[u] = root[u]
  BY <1>1 DEF TableInv, TableTypes
<1>3. PICK F : /\ find \in Dentry /\ Balanced(c, F) /\ Shrinks(count, c) /\ F \in [Dentry -> Nat]
               /\ \A x \in Dentry : F[x] = Ext[x] + one(x, find) - one(x, Iter(t))
  BY <1>1, Finish
<1> HIDE DEF c, find
<1>4. /\ BaseInv'
      /\ \A x \in Dentry :
              /\ Ext'[x] = Ext[x] - one(x, Iter(t)) - one(x, pwd[t]) - one(x, root[t])
                           + one(x, pwd'[t]) + one(x, root'[t])
              /\ Ext[x] >= one(x, Iter(t)) + one(x, pwd[t]) + one(x, root[t])
  BY <1>1, <1>2, Ended
<1>5. /\ \A x \in Dentry : Ext[x] \in Nat /\ F[x] >= one(x, find) + one(x, pwd[t])
      /\ Balanced(count, Ext) /\ root'[t] = root[t]
  BY <1>1, <1>3, <1>4, ExtType, OneType, RefParts
<1>6. F[find] > 0 /\ F[pwd[t]] > 0
  BY <1>2, <1>3, <1>5, OneType
<1>7. ASSUME NEW p \in Dentry, F[p] > 0, count' = dput(c, p),
             \A x \in Dentry : one(x, pwd'[t]) = one(x, find) + one(x, pwd[t]) - one(x, p)
      PROVE  RefInv'
  <2>1. /\ Balanced(count', Minus(F, p)) /\ Shrinks(c, count')
        /\ \A x \in Dentry : Minus(F, p)[x] = F[x] - one(x, p)
    BY <1>3, <1>7, PutRef, PlusMinus
  <2>2. \A x \in Dentry : Ext'[x] = Minus(F, p)[x]
    BY <1>3, <1>4, <1>5, <1>7, <2>1, OneType
  <2>3. Kept(count, c) /\ Kept(c, count')
    BY <1>3, <1>5, <2>1, InodeSame
  <2>4. Balanced(count', Ext') /\ InodeStep
    BY <1>1, <2>1, <2>2, <2>3, NewBalance, KeptTrans DEF InodeStep
  <2> QED BY <1>4, <2>4, NewRef, InodeStepOk
<1>8. CASE count' = dput(c, pwd[t]) /\ pwd'[t] = find
  <2>1. \A x \in Dentry : one(x, pwd'[t]) = one(x, find) + one(x, pwd[t]) - one(x, pwd[t])
    BY <1>8, OneType
  <2> QED BY <1>2, <1>6, <1>7, <1>8, <2>1
<1>9. CASE count' = dput(c, find) /\ pwd'[t] = pwd[t]
  <2>1. \A x \in Dentry : one(x, pwd'[t]) = one(x, find) + one(x, pwd[t]) - one(x, find)
    BY <1>9, OneType
  <2> QED BY <1>3, <1>6, <1>7, <1>9, <2>1
<1> QED BY <1>2, <1>8, <1>9

\* sys_chroot: the references to root and to pwd move.
LEMMA RefChroot ==
  ASSUME TableInv, RefInv, NEW t \in Task, sys_chroot(t)
  PROVE  RefInv'
<1> DEFINE find == Result(t)
           c == AtFinish(t)
<1>1. /\ InWalk(t) /\ call[t].pc = "walk" /\ call' = [call EXCEPT ![t] = User]
      /\ UNCHANGED <<state, file, fails>>
      /\ \/ /\ count' = dput(dref(dput(c, root[t]), find), pwd[t])
            /\ pwd' = [pwd EXCEPT ![t] = find] /\ root' = [root EXCEPT ![t] = find]
         \/ count' = dput(c, find) /\ pwd' = pwd /\ root' = root
  BY DEF sys_chroot, AtEnd, InWalk
<1>2. /\ pwd[t] \in Dentry /\ root[t] \in Dentry
      /\ \/ /\ count' = dput(dref(dput(c, root[t]), find), pwd[t])
            /\ pwd'[t] = find /\ root'[t] = find
         \/ count' = dput(c, find) /\ pwd'[t] = pwd[t] /\ root'[t] = root[t]
      /\ \A u \in Task : u # t => pwd'[u] = pwd[u] /\ root'[u] = root[u]
  BY <1>1 DEF TableInv, TableTypes
<1>3. PICK F : /\ find \in Dentry /\ Balanced(c, F) /\ Shrinks(count, c) /\ F \in [Dentry -> Nat]
               /\ \A x \in Dentry : F[x] = Ext[x] + one(x, find) - one(x, Iter(t))
  BY <1>1, Finish
<1> HIDE DEF c, find
<1>4. /\ BaseInv'
      /\ \A x \in Dentry :
              /\ Ext'[x] = Ext[x] - one(x, Iter(t)) - one(x, pwd[t]) - one(x, root[t])
                           + one(x, pwd'[t]) + one(x, root'[t])
              /\ Ext[x] >= one(x, Iter(t)) + one(x, pwd[t]) + one(x, root[t])
  BY <1>1, <1>2, Ended
<1>5. /\ \A x \in Dentry : Ext[x] \in Nat
                           /\ F[x] >= one(x, find) + one(x, pwd[t]) + one(x, root[t])
      /\ Balanced(count, Ext)
  BY <1>3, <1>4, ExtType, OneType, RefParts
<1>6. CASE /\ count' = dput(dref(dput(c, root[t]), find), pwd[t])
           /\ pwd'[t] = find /\ root'[t] = find
  <2> DEFINE g == dput(c, root[t])
             E == Minus(F, root[t])
  <2>1. F[root[t]] > 0
    BY <1>2, <1>5, OneType, <1>3
  <2>2. /\ Balanced(g, E) /\ Shrinks(c, g) /\ E \in [Dentry -> Nat]
        /\ \A x \in Dentry : E[x] = F[x] - one(x, root[t])
    BY <1>2, <1>3, <2>1, PutRef, PlusMinus
  <2>3. count' = dput(dref(g, find), pwd[t])
    BY <1>6
  <2> HIDE DEF g, E
  <2>4. \A x \in Dentry : E[x] >= one(x, find) + one(x, pwd[t])
    BY <1>3, <1>5, <2>2, OneType
  <2>5. E[find] > 0 /\ E[pwd[t]] > 0 /\ g[find] > 0
    <3>1. E[find] > 0 /\ E[pwd[t]] > 0
      BY <1>2, <1>3, <2>2, <2>4, OneType
    <3>2. g[find] >= E[find] /\ g[find] \in Nat
      BY <1>3, <2>2, BalancedNat
    <3> QED BY <1>3, <2>2, <3>1, <3>2
  <2>6. PICK H : /\ Balanced(count', H) /\ Shrinks(g, count')
                 /\ \A x \in Dentry : H[x] = E[x] + one(x, find) - one(x, pwd[t])
    BY <1>2, <1>3, <2>2, <2>3, <2>5, MoveRef
  <2>7. \A x \in Dentry : Ext'[x] = H[x]
    BY <1>3, <1>4, <1>5, <1>6, <2>2, <2>6, OneType
  <2>8. Kept(count, c) /\ Kept(c, g) /\ Kept(g, count')
    BY <1>3, <1>5, <2>2, <2>6, InodeSame
  <2>9. Kept(count, count')
    BY <2>8, KeptTrans
  <2>10. Balanced(count', Ext') /\ InodeStep
    BY <1>1, <2>6, <2>7, <2>9, NewBalance DEF InodeStep
  <2> QED BY <1>4, <2>10, NewRef, InodeStepOk
<1>7. CASE count' = dput(c, find) /\ pwd'[t] = pwd[t] /\ root'[t] = root[t]
  <2>1. F[find] > 0
    BY <1>2, <1>5, OneType, <1>3
  <2>2. /\ Balanced(count', Minus(F, find)) /\ Shrinks(c, count')
        /\ \A x \in Dentry : Minus(F, find)[x] = F[x] - one(x, find)
    BY <1>3, <1>7, <2>1, PutRef, PlusMinus
  <2>3. \A x \in Dentry : Ext'[x] = Minus(F, find)[x]
    BY <1>3, <1>4, <1>5, <1>7, <2>2, OneType
  <2>4. Kept(count, c) /\ Kept(c, count')
    BY <1>3, <1>5, <2>2, InodeSame
  <2>5. Balanced(count', Ext') /\ InodeStep
    BY <1>1, <2>2, <2>3, <2>4, NewBalance, KeptTrans DEF InodeStep
  <2> QED BY <1>4, <2>5, NewRef, InodeStepOk
<1> QED BY <1>2, <1>6, <1>7

\* Files that are opened and freed.
on(r, i) == IF r.ref > 0 /\ r.inode = i THEN 1 ELSE 0
\* One file changes.
LEMMA OpenChange ==
  ASSUME TableInv, NEW f \in File, NEW r, file' = [file EXCEPT ![f] = r]
  PROVE  /\ file'[f] = r
         /\ \A i \in Inode :
              OpenOn'[i] = OpenOn[i] + on(r, i) - on(file[f], i)
<1>1. file'[f] = r /\ \A g \in File : g # f => file'[g] = file[g]
  BY DEF TableInv, TableTypes
<1> SUFFICES ASSUME NEW i \in Inode
             PROVE  OpenOn'[i] = OpenOn[i] + on(r, i) - on(file[f], i)
  BY <1>1
<1> DEFINE S == OpenFiles(i)
           T == OpenFiles(i)'
<1>2. /\ S \in SUBSET File /\ T \in SUBSET File /\ \A g \in File : g # f => (g \in S <=> g \in T)
      /\ on(file[f], i) = (IF f \in S THEN 1 ELSE 0)
      /\ on(r, i) = (IF f \in T THEN 1 ELSE 0)
  BY <1>1 DEF OpenFiles, on
<1>3. OpenOn[i] = Cardinality(S) /\ OpenOn'[i] = Cardinality(T)
  BY DEF OpenOn
<1> HIDE DEF S, T
<1>4. /\ IsFiniteSet(S) /\ IsFiniteSet(T) /\ Cardinality(S) \in Nat /\ Cardinality(T) \in Nat
  BY <1>2, FS_Subset, FS_CardinalityType, FiniteAssumption
<1>5. CASE (f \in S) <=> (f \in T)
  <2>1. S = T
    BY <1>2, <1>5
  <2> QED BY <1>2, <1>3, <1>4, <1>5, <2>1
<1>6. CASE f \in S /\ f \notin T
  <2>1. T = S \ {f}
    BY <1>2, <1>6
  <2>2. Cardinality(S \ {f}) = Cardinality(S) - 1
    BY <1>4, <1>6, FS_RemoveElement
  <2> QED BY <1>2, <1>3, <1>4, <1>6, <2>1, <2>2
<1>7. CASE f \in T /\ f \notin S
  <2>1. T = S \cup {f}
    BY <1>2, <1>7
  <2>2. Cardinality(S \cup {f}) = Cardinality(S) + 1
    BY <1>4, <1>7, FS_AddElement
  <2> QED BY <1>2, <1>3, <1>4, <1>7, <2>1, <2>2
<1> QED BY <1>5, <1>6, <1>7

\* A file is opened.
LEMMA OpenMore ==
  ASSUME TableInv, NEW f \in File, NEW r, file' = [file EXCEPT ![f] = r],
         file[f].ref = 0, r.ref = 1, r.inode \in Inode
  PROVE  OpenOn' = [OpenOn EXCEPT ![r.inode] = OpenOn[r.inode] + 1]
<1>1. \A i \in Inode : OpenOn'[i] = OpenOn[i] + on(r, i) - on(file[f], i)
  BY OpenChange
<1>2. \A i \in Inode : OpenOn[i] \in Nat
  BY OpenOnType
<1>3. OpenOn' = [i \in Inode |-> OpenOn'[i]]
  BY DEF OpenOn
<1>4. \A i \in Inode : OpenOn'[i] = IF i = r.inode THEN OpenOn[i] + 1 ELSE OpenOn[i]
  BY <1>1, <1>2 DEF on
<1> QED BY <1>3, <1>4, OpenOnType

\* A file is freed.
LEMMA OpenLess ==
  ASSUME TableInv, NEW f \in File, file' = [file EXCEPT ![f] = NoFile],
         file[f].ref > 0, NEW i \in Inode, i = file[f].inode
  PROVE  OpenOn' = [OpenOn EXCEPT ![i] = OpenOn[i] - 1] /\ OpenOn[i] > 0
<1>1. \A j \in Inode : OpenOn'[j] = OpenOn[j] + on(NoFile, j) - on(file[f], j)
  BY OpenChange
<1>2. \A j \in Inode : OpenOn[j] \in Nat
  BY OpenOnType
<1>3. OpenOn' = [j \in Inode |-> OpenOn'[j]]
  BY DEF OpenOn
<1>4. \A j \in Inode : OpenOn'[j] = IF j = i THEN OpenOn[j] - 1 ELSE OpenOn[j]
  BY <1>1, <1>2, NoFileType DEF on
<1>5. f \in OpenFiles(i) /\ IsFiniteSet(OpenFiles(i))
  BY FS_Subset, FiniteAssumption DEF OpenFiles
<1>6. OpenOn[i] # 0
  BY <1>5, FS_EmptySet DEF OpenOn
<1> QED BY <1>2, <1>3, <1>4, <1>6, OpenOnType

\* No file is opened or freed.
LEMMA OpenSame ==
  ASSUME \A f \in File : /\ file'[f].ref > 0 <=> file[f].ref > 0
                         /\ file'[f].inode = file[f].inode
  PROVE  OpenOn' = OpenOn
BY DEF OpenOn, OpenFiles

\* iref for a file, and iput when it is freed.
LEMMA MoreFile ==
  ASSUME NEW c, NEW E, Balanced(c, E), NEW i \in Inode, Cached(c, i) # {},
         NEW v \in Int, v = c[i] + 1
  PROVE  LET e == Set(c, i, v)
         IN  /\ Balanced(e, E) /\ \A d \in Dentry : e[d] = c[d]
             /\ \A F \in [Inode -> Nat], k \in Nat :
                  InodeOk(c, F, k) => InodeOk(e, [F EXCEPT ![i] = F[i] + 1], k)
<1> DEFINE e == Set(c, i, v)
<1>0. e = Set(c, i, v)
  OBVIOUS
<1> HIDE DEF e
<1>1. /\ Balanced(e, E) /\ e[i] = v /\ \A x \in Dentry \cup Inode : x # i => e[x] = c[x]
      /\ \A x \in Dentry : e[x] = c[x]
      /\ \A x : Cached(e, x) = Cached(c, x)
  BY <1>0, SetInode
<1>2. ASSUME NEW F \in [Inode -> Nat], NEW k \in Nat, InodeOk(c, F, k)
      PROVE  InodeOk(e, [F EXCEPT ![i] = F[i] + 1], k)
  <2> DEFINE G == [F EXCEPT ![i] = F[i] + 1]
  <2>0. G[i] = F[i] + 1 /\ (\A j \in Inode : j # i => G[j] = F[j])
        /\ (\A j \in Inode : F[j] \in Nat)
    OBVIOUS
  <2> HIDE DEF G
  <2> SUFFICES ASSUME NEW j \in Inode
               PROVE  \/ e[j] = 0 /\ Cached(e, j) = {} /\ G[j] = 0
                      \/ Others(e, j) >= G[j] + 1 - k
    BY DEF InodeOk, G
  <2>1. \/ c[j] = 0 /\ Cached(c, j) = {} /\ F[j] = 0
        \/ Others(c, j) >= F[j] + 1 - k
    BY <1>2 DEF InodeOk
  <2>2. CASE j # i
    BY <1>1, <2>0, <2>1, <2>2 DEF Others
  <2>3. CASE j = i
    <3>1. Others(e, i) = Others(c, i) + 1 /\ Others(c, i) \in Int
      BY <1>1, OthersInt DEF Others
    <3> QED BY <2>0, <2>1, <2>3, <3>1
  <2> QED BY <2>2, <2>3
<1> QED BY <1>1, <1>2 DEF e

\* The file that is freed takes its own reference.
LEMMA LessFile ==
  ASSUME NEW c, NEW E, Balanced(c, E), NEW i \in Inode, NEW v \in Int, v = c[i] - 1
  PROVE  LET e == Set(c, i, v)
         IN  /\ Balanced(e, E) /\ \A d \in Dentry : e[d] = c[d]
             /\ \A F \in [Inode -> Nat], k \in Nat :
                  F[i] > 0 /\ InodeOk(c, F, k) => InodeOk(e, [F EXCEPT ![i] = F[i] - 1], k)
<1> DEFINE e == Set(c, i, v)
<1>0. e = Set(c, i, v)
  OBVIOUS
<1> HIDE DEF e
<1>1. /\ Balanced(e, E) /\ e[i] = v /\ \A x \in Dentry \cup Inode : x # i => e[x] = c[x]
      /\ \A x \in Dentry : e[x] = c[x]
      /\ \A x : Cached(e, x) = Cached(c, x)
  BY <1>0, SetInode
<1>2. ASSUME NEW F \in [Inode -> Nat], NEW k \in Nat, F[i] > 0, InodeOk(c, F, k)
      PROVE  InodeOk(e, [F EXCEPT ![i] = F[i] - 1], k)
  <2> DEFINE G == [F EXCEPT ![i] = F[i] - 1]
  <2>0. G[i] = F[i] - 1 /\ (\A j \in Inode : j # i => G[j] = F[j])
        /\ (\A j \in Inode : F[j] \in Nat)
    OBVIOUS
  <2> HIDE DEF G
  <2> SUFFICES ASSUME NEW j \in Inode
               PROVE  \/ e[j] = 0 /\ Cached(e, j) = {} /\ G[j] = 0
                      \/ Others(e, j) >= G[j] + 1 - k
    BY DEF InodeOk, G
  <2>1. \/ c[j] = 0 /\ Cached(c, j) = {} /\ F[j] = 0
        \/ Others(c, j) >= F[j] + 1 - k
    BY <1>2 DEF InodeOk
  <2>2. CASE j # i
    BY <1>1, <2>0, <2>1, <2>2 DEF Others
  <2>3. CASE j = i
    <3>1. Others(e, i) = Others(c, i) - 1 /\ Others(c, i) \in Int
      BY <1>1, OthersInt DEF Others
    <3>2. ~ (F[j] = 0)
      BY <1>2, <2>0, <2>3
    <3> QED BY <2>0, <2>1, <2>3, <3>1, <3>2
  <2> QED BY <2>2, <2>3
<1> QED BY <1>1, <1>2 DEF e

\* A step that leaves the references of all tasks alone.
SameHeld == \A u \in Task : /\ Pwd(u)' = Pwd(u) /\ Root(u)' = Root(u)
                            /\ Iter(u)' = Iter(u) /\ Base(u)' = Base(u)
\* Then nothing changes for the counts.
LEMMA ExtSame == ASSUME SameHeld PROVE \A x \in Dentry : Ext'[x] = Ext[x]
BY DEF SameHeld, Ext, Pwds, Roots, Iters, Bases

\* A step that changes no count keeps the invariant.
LEMMA RefQuiet ==
  ASSUME RefInv, SameHeld, BaseInv', OpenOn' = OpenOn, UNCHANGED <<count, fails>>
  PROVE  RefInv'
<1>1. Balanced(count', Ext')
  BY NewBalance, ExtSame, RefParts
<1> QED BY <1>1, NewRef DEF RefInv

\* A file is freed with its reference to the inode.
LEMMA RefFreed ==
  ASSUME TableInv, RefInv, SameHeld, BaseInv', UNCHANGED fails, NEW f \in File, file[f].ref > 0,
         file' = [file EXCEPT ![f] = NoFile], count' = iput(count, file[f].inode)
  PROVE  RefInv'
<1> DEFINE i == file[f].inode
           v == count[i] - 1
<1>1. i \in Inode
  BY DEF TableInv, FileInv
<1>2. Balanced(count, Ext) /\ count \in Counts /\ v \in Int /\ count' = Set(count, i, v)
  BY <1>1, RefParts, IputIref
<1>3. v = count[i] - 1
  OBVIOUS
<1> HIDE DEF v
<1>4. OpenOn' = [OpenOn EXCEPT ![i] = OpenOn[i] - 1] /\ OpenOn[i] > 0
  BY <1>1, OpenLess
<1>5. /\ Balanced(count', Ext)
      /\ \A F \in [Inode -> Nat], k \in Nat :
           F[i] > 0 /\ InodeOk(count, F, k) => InodeOk(count', [F EXCEPT ![i] = F[i] - 1], k)
  BY <1>1, <1>2, <1>3, LessFile
<1>6. fails' <= 1 => InodeOk(count', OpenOn', fails')
  BY <1>4, <1>5, OpenOnType DEF RefInv
<1>7. Balanced(count', Ext')
  BY <1>5, NewBalance, ExtSame
<1> QED BY <1>6, <1>7, NewRef DEF RefInv

\* sys_close, release_file and sys_exit.
LEMMA RefClose ==
  ASSUME TableInv, RefInv, NEW t \in Task, NEW n \in Fd, IsOpen(t, n), Close(t, n),
         SameHeld, BaseInv', UNCHANGED fails
  PROVE  RefInv'
<1> DEFINE f == fdt[t][n]
<1>1. f \in File /\ file[f].ref > 0 /\ file[f] \in FileType
  <2>1. f \in File /\ <<t, n>> \in Users(f)
    BY DEF IsOpen, Users
  <2> QED BY <2>1, UsedRef DEF TableInv, TableTypes
<1>2. CASE Closing(f)
  <2>1. file' = [file EXCEPT ![f] = NoFile] /\ count' = iput(count, file[f].inode)
    BY <1>2 DEF Close
  <2> QED BY <1>1, <2>1, RefFreed
<1>3. CASE ~ Closing(f)
  <2> DEFINE k == file[f].ref - 1
  <2>1. file' = [file EXCEPT ![f] = [file[f] EXCEPT !.ref = k]] /\ UNCHANGED count
    BY <1>3 DEF Close, FileType
  <2>2. k \in Nat /\ k > 0
    BY <1>1, <1>3 DEF Closing, FileType
  <2> HIDE DEF k
  <2>3. LET s == [file[f] EXCEPT !.ref = k] IN s.ref = k /\ s.inode = file[f].inode
    BY <1>1, <2>2, RefChange
  <2>4. \A g \in File : (file'[g].ref > 0 <=> file[g].ref > 0) /\ file'[g].inode = file[g].inode
    BY <1>1, <2>1, <2>2, <2>3 DEF TableInv, TableTypes
  <2> QED BY <2>1, <2>4, OpenSame, RefQuiet
<1> QED BY <1>2, <1>3

\* A call that goes on outside a walk.
LEMMA QuietCall ==
  ASSUME TableInv, RefInv, NEW t \in Task, NEW r, call' = [call EXCEPT ![t] = r],
         ~ InWalk(t), r.pc \notin {"walk", "block", "inode"}, r.base = NULL,
         UNCHANGED <<pwd, root>>, \A u \in Task : state'[u] = "none" <=> state[u] = "none"
  PROVE  SameHeld /\ BaseInv'
<1>1. call'[t] = r /\ \A u \in Task : u # t => call'[u] = call[u]
  BY DEF TableInv, TableTypes
<1>2. BaseInv /\ Iter(t) = NULL /\ Base(t) = NULL
  BY InHand DEF RefInv, InWalk
<1>3. BaseInv'
  BY <1>1, <1>2 DEF BaseInv
<1>4. Iter(t)' = NULL /\ Base(t)' = NULL
  BY <1>1 DEF Iter, Base, InWalk
<1>5. \A u \in Task : u # t => Iter(u)' = Iter(u) /\ Base(u)' = Base(u)
  BY <1>1 DEF Iter, Base, InWalk
<1>6. \A u \in Task : Pwd(u)' = Pwd(u) /\ Root(u)' = Root(u)
  BY DEF Pwd, Root
<1> QED BY <1>2, <1>3, <1>4, <1>5, <1>6 DEF SameHeld

\* The calls of all tasks stay as they are.
LEMMA SameCall ==
  ASSUME RefInv, UNCHANGED <<call, pwd, root>>,
         \A u \in Task : state'[u] = "none" <=> state[u] = "none"
  PROVE  SameHeld /\ BaseInv'
BY DEF SameHeld, Pwd, Root, Iter, Base, InWalk, BaseInv, RefInv

\* Where a call goes on after sys_open.
LEMMA AfterOpenType ==
  ASSUME TableInv, RefInv, NEW t \in Task, call[t].pc \notin {"block", "inode"}
  PROVE  /\ AfterOpen(t).pc \notin {"walk", "block", "inode"} /\ AfterOpen(t).base = NULL
         /\ call[t].base = NULL
<1>1. call[t] \in Rec /\ call[t].base = NULL
  BY DEF TableInv, TableTypes, RefInv, BaseInv
<1> QED BY <1>1, UserType DEF AfterOpen, Rec

\* sys_open: the reference of the walk is dropped, the file has one to the inode.
LEMMA RefOpen ==
  ASSUME TableInv, RefInv, NEW t \in Task, sys_open(t)
  PROVE  RefInv'
<1> DEFINE find == Result(t)
           i == inode[find]
           c == AtFinish(t)
           v == c[i] + 1
           e == Set(c, i, v)
           b == dput(e, find)
<1>1. /\ InWalk(t) /\ call[t].pc = "walk" /\ UNCHANGED <<pwd, root, state, fails>>
      /\ Base(t) = NULL /\ Iter(t) \in Dentry /\ BaseInv /\ Balanced(count, Ext)
      /\ \A x \in Dentry : Ext[x] >= one(x, Iter(t)) + one(x, Base(t)) /\ Ext[x] \in Nat
  BY InHand, RefParts, ExtType DEF sys_open, AtEnd, InWalk
<1>2. PICK F : /\ find \in Dentry /\ Balanced(c, F) /\ Shrinks(count, c) /\ F \in [Dentry -> Nat]
               /\ \A x \in Dentry : F[x] = Ext[x] + one(x, find) - one(x, Iter(t))
  BY <1>1, Finish
<1>3. i \in Inode /\ c \in Counts
  BY <1>2, NoBoth DEF Balanced
<1>4. iref(c, i) = e /\ v \in Int /\ v = c[i] + 1
  BY <1>3, IputIref
<1>5. \/ /\ count' = iput(dput(iref(c, i), find), i) /\ NotFound(t) /\ UNCHANGED file
      \/ /\ count' = dput(iref(c, i), find)
         /\ \E f \in File, r \in {NewFile(i)} :
              /\ file[f].ref = 0 /\ file' = [file EXCEPT ![f] = r]
              /\ \/ call' = [call EXCEPT ![t].pc = "chropen", ![t].file = f]
                 \/ call' = [call EXCEPT ![t] = AfterOpen(t)]
  BY DEF sys_open, NewFile
<1> HIDE DEF v, c, i, find
<1>6. /\ F[find] > 0 /\ c[find] > 0
  <2>1. F[find] > 0
    BY <1>1, <1>2, OneType
  <2>2. c[find] >= F[find] /\ c[find] \in Nat
    BY <1>2, BalancedNat
  <2> QED BY <1>2, <2>1, <2>2
<1>7. Cached(c, i) # {}
  BY <1>2, <1>6 DEF Cached, i
<1>8. /\ Balanced(e, F) /\ \A d \in Dentry : e[d] = c[d]
      /\ \A G \in [Inode -> Nat], k \in Nat :
           InodeOk(c, G, k) => InodeOk(e, [G EXCEPT ![i] = G[i] + 1], k)
  BY <1>2, <1>3, <1>4, <1>7, MoreFile
<1> HIDE DEF e
<1>9. /\ Balanced(b, Minus(F, find)) /\ Shrinks(e, b)
      /\ \A x \in Dentry : Minus(F, find)[x] = F[x] - one(x, find)
  BY <1>2, <1>6, <1>8, PutRef, PlusMinus
<1> HIDE DEF b
<1>10. \A x \in Dentry : Minus(F, find)[x] = Ext[x] - one(x, Iter(t))
  BY <1>1, <1>2, <1>9, OneType
<1>11. /\ Kept(count, c) /\ Kept(e, b)
  BY <1>1, <1>2, <1>8, <1>9, InodeSame
<1> DEFINE H == [OpenOn EXCEPT ![i] = OpenOn[i] + 1]
<1>12. /\ OpenOn \in [Inode -> Nat] /\ H \in [Inode -> Nat] /\ H[i] > 0
       /\ [H EXCEPT ![i] = H[i] - 1] = OpenOn
  <2>1. OpenOn \in [Inode -> Nat] /\ OpenOn[i] \in Nat
    BY <1>3, OpenOnType
  <2> HIDE DEF OpenOn
  <2>2. H \in [Inode -> Nat] /\ H[i] = OpenOn[i] + 1
    BY <1>3, <2>1
  <2>3. [H EXCEPT ![i] = OpenOn[i]] = OpenOn
    BY <1>3, <2>1
  <2> QED BY <2>1, <2>2, <2>3
<1>13. fails <= 1 => InodeOk(b, H, fails)
  <2>1. ASSUME fails <= 1 PROVE InodeOk(b, H, fails)
    <3>1. InodeOk(count, OpenOn, fails) /\ fails \in Nat
      BY <2>1 DEF RefInv
    <3>2. InodeOk(c, OpenOn, fails)
      BY <1>11, <1>12, <3>1 DEF Kept
    <3>3. InodeOk(e, H, fails)
      BY <1>8, <1>12, <3>1, <3>2
    <3> HIDE DEF H
    <3> QED BY <1>11, <1>12, <3>1, <3>3 DEF Kept
  <2> QED BY <2>1
<1>14. CASE count' = iput(dput(iref(c, i), find), i) /\ NotFound(t) /\ UNCHANGED file
  <2> DEFINE w == b[i] - 1
             g == Set(b, i, w)
  <2>1. count' = iput(b, i) /\ b \in Counts
    BY <1>4, <1>9, <1>14 DEF b, Balanced
  <2>2. w \in Int /\ w = b[i] - 1 /\ count' = g
    BY <1>3, <2>1, IputIref
  <2> HIDE DEF w, H
  <2>3. /\ Balanced(g, Minus(F, find))
        /\ \A G \in [Inode -> Nat], k \in Nat :
             G[i] > 0 /\ InodeOk(b, G, k) => InodeOk(g, [G EXCEPT ![i] = G[i] - 1], k)
    BY <1>3, <1>9, <2>2, LessFile
  <2>4. fails <= 1 => InodeOk(g, OpenOn, fails)
    BY <1>12, <1>13, <2>3 DEF RefInv
  <2>5. \A x \in Dentry : Ext'[x] = Ext[x] - one(x, Iter(t)) - one(x, Base(t))
    BY <1>1, <1>14, NotFoundHeld
  <2>6. \A x \in Dentry : Ext'[x] = Minus(F, find)[x]
    BY <1>1, <1>10, <2>5, OneNull, OneType
  <2>7. OpenOn' = OpenOn
    BY <1>14, OpenSame
  <2>8. Balanced(count', Ext') /\ BaseInv'
    BY <1>1, <1>14, <2>2, <2>3, <2>6, NewBalance, BaseNotFound
  <2> QED BY <1>1, <2>2, <2>4, <2>7, <2>8, NewRef DEF RefInv
<1>15. ASSUME NEW f \in File, NEW r, r = NewFile(i),
              file[f].ref = 0, file' = [file EXCEPT ![f] = r], count' = dput(iref(c, i), find),
              \/ call' = [call EXCEPT ![t].pc = "chropen", ![t].file = f]
              \/ call' = [call EXCEPT ![t] = AfterOpen(t)]
       PROVE  RefInv'
  <2>1. count' = b
    BY <1>4, <1>15 DEF b
  <2>2. r.ref = 1 /\ r.inode = i
    BY <1>15 DEF NewFile
  <2>3. OpenOn' = H
    <3> HIDE DEF H
    <3>1. OpenOn' = [OpenOn EXCEPT ![r.inode] = OpenOn[r.inode] + 1]
      BY <1>3, <1>15, <2>2, OpenMore
    <3> QED BY <2>2, <3>1 DEF H
  <2>4. PICK s : /\ call' = [call EXCEPT ![t] = s] /\ s.pc \notin {"walk", "block", "inode"}
                 /\ s.base = NULL
    <3>1. CASE call' = [call EXCEPT ![t].pc = "chropen", ![t].file = f]
      <4> DEFINE s == [call[t] EXCEPT !.pc = "chropen", !.file = f]
      <4>1. call[t] \in Rec /\ call[t].base = NULL
        BY <1>1 DEF BaseInv, TableInv, TableTypes
      <4>2. s.pc = "chropen" /\ s.base = NULL /\ call' = [call EXCEPT ![t] = s]
        BY <3>1, <4>1 DEF Rec, TableInv, TableTypes
      <4> QED BY <4>2
    <3>2. CASE call' = [call EXCEPT ![t] = AfterOpen(t)]
      BY <1>1, <3>2, AfterOpenType
    <3> QED BY <1>15, <3>1, <3>2
  <2>5. \A x \in Dentry : Ext'[x] = Ext[x] - one(x, Iter(t)) - one(x, Base(t))
                     + one(x, IF s.pc \in {"walk", "block", "inode"} THEN s.iter ELSE NULL)
                     + one(x, s.base)
    BY <1>1, <2>4, WalkHeld
  <2>6. \A x \in Dentry : Ext'[x] = Minus(F, find)[x]
    BY <1>1, <1>10, <2>4, <2>5, OneNull, OneType
  <2>7. BaseInv'
    BY <1>1, <2>4 DEF BaseInv, TableInv, TableTypes
  <2>8. Balanced(count', Ext')
    BY <1>9, <2>1, <2>6, NewBalance
  <2> QED BY <1>1, <1>13, <2>1, <2>3, <2>7, <2>8, NewRef DEF RefInv
<1> QED BY <1>5, <1>14, <1>15

\* chrdev_open: the device, or the end of the call.
LEMMA RefChrdev ==
  ASSUME TableInv, RefInv, NEW t \in Task, chrdev_count(t) \/ chrdev_open(t)
  PROVE  RefInv'
<1> DEFINE f == call[t].file
<1>1. /\ call[t].pc = "chropen" /\ ~ InWalk(t) /\ UNCHANGED <<pwd, root, state, fails>>
      /\ f \in File /\ file[f].ref = 1
  BY DEF chrdev_count, chrdev_open, InWalk, TableInv, OpenInv, IsOpen
<1>2. CASE /\ file' = [file EXCEPT ![f].opened = "yes"] /\ UNCHANGED count
           /\ call' = [call EXCEPT ![t] = AfterOpen(t)]
  <2>1. SameHeld /\ BaseInv'
    BY <1>1, <1>2, AfterOpenType, QuietCall
  <2>2. \A g \in File : (file'[g].ref > 0 <=> file[g].ref > 0) /\ file'[g].inode = file[g].inode
    BY <1>1, <1>2 DEF TableInv, TableTypes, FileType
  <2> QED BY <1>1, <1>2, <2>1, <2>2, OpenSame, RefQuiet
<1>3. CASE /\ file' = [file EXCEPT ![f] = NoFile] /\ count' = iput(count, file[f].inode)
           /\ NotFound(t)
  <2>1. SameHeld /\ BaseInv'
    BY <1>1, <1>3, UserType, QuietCall DEF NotFound
  <2> HIDE DEF f
  <2>2. file[f].ref > 0
    BY <1>1
  <2> QED BY <1>1, <1>3, <2>1, <2>2, RefFreed
<1>4. CASE chrdev_count(t)
  <2>1. UNCHANGED <<call, pwd, root, state>>
    BY <1>4 DEF chrdev_count
  <2>4. SameHeld /\ BaseInv'
    BY <2>1, SameCall
  <2>2. \A g \in File : (file'[g].ref > 0 <=> file[g].ref > 0) /\ file'[g].inode = file[g].inode
    BY <1>1, <1>4 DEF chrdev_count, TableInv, TableTypes, FileType
  <2>3. UNCHANGED <<count, fails>>
    BY <1>4 DEF chrdev_count
  <2> QED BY <2>2, <2>3, <2>4, OpenSame, RefQuiet
<1> QED BY <1>2, <1>3, <1>4 DEF chrdev_open

\* sys_close, the closes of a task that exits, and those of sys_exec.
LEMMA RefCloseStep ==
  ASSUME TableInv, RefInv, NEW t \in Task,
         \/ exec_wrapper(t) \/ exec_close(t)
         \/ \E n \in Fd : sys_close(t, n) \/ exit_close(t, n)
  PROVE  RefInv'
<1>1. CASE \E n \in Fd : sys_close(t, n) \/ exit_close(t, n)
  BY <1>1, SameCall, RefClose DEF sys_close, exit_close
<1>2. CASE exec_close(t)
  <2>1. /\ call[t].fd \in Fd /\ IsOpen(t, call[t].fd) /\ ~ InWalk(t)
        /\ Close(t, call[t].fd) /\ call' = [call EXCEPT ![t] = User]
        /\ UNCHANGED <<pwd, root, state, fails>>
    BY <1>2 DEF exec_close, TableInv, OpenInv, InWalk
  <2>2. SameHeld /\ BaseInv'
    BY <2>1, UserType, QuietCall
  <2> QED BY <2>1, <2>2, RefClose
<1>3. CASE exec_wrapper(t)
  <2>0. PICK u \in Task : u = call[t].find
    BY <1>3 DEF exec_wrapper, TableInv, TaskInv
  <2>1. /\ call[t].pc = "load" /\ call[t].fd \in Fd /\ IsOpen(t, call[t].fd)
        /\ Close(t, call[t].fd) /\ UNCHANGED <<pwd, root, state, fails>>
        /\ call[u].pc = "execwait" /\ u # t
    BY <1>3, <2>0 DEF exec_wrapper, TableInv, OpenInv, TaskInv
  <2>2. PICK next \in {"user", "exit"} :
          call' = [call EXCEPT ![u].pc = "execclose", ![t] = [User EXCEPT !.pc = next]]
    BY <1>3, <2>0 DEF exec_wrapper
  <2> DEFINE r == [call[u] EXCEPT !.pc = "execclose"]
             s == [User EXCEPT !.pc = next]
  <2>3. /\ call' = [call EXCEPT ![u] = r, ![t] = s]
        /\ r.pc = "execclose" /\ r.base = call[u].base /\ s.pc = next /\ s.base = NULL
    BY <2>1, <2>2 DEF TableInv, TableTypes, Rec, User
  <2> HIDE DEF r, s
  <2>4. call'[u] = r /\ call'[t] = s /\ \A w \in Task : w # u /\ w # t => call'[w] = call[w]
    BY <2>1, <2>3 DEF TableInv, TableTypes
  <2>5. call[t].base = NULL /\ call[u].base = NULL /\ BaseInv
    BY <2>1 DEF RefInv, BaseInv
  <2>6. BaseInv'
    BY <2>3, <2>4, <2>5 DEF BaseInv
  <2>7. \A w \in Task : Iter(w)' = Iter(w) /\ Base(w)' = Base(w)
    <3>1. Iter(u) = NULL /\ Iter(u)' = NULL /\ Iter(t) = NULL /\ Iter(t)' = NULL
      BY <2>1, <2>3, <2>4 DEF Iter, InWalk
    <3>2. Base(u)' = Base(u) /\ Base(t)' = Base(t)
      BY <2>3, <2>4, <2>5 DEF Base
    <3>3. \A w \in Task : w # u /\ w # t => Iter(w)' = Iter(w) /\ Base(w)' = Base(w)
      BY <2>4 DEF Iter, Base, InWalk
    <3> QED BY <3>1, <3>2, <3>3
  <2>8. SameHeld
    BY <2>1, <2>7 DEF SameHeld, Pwd, Root
  <2> QED BY <2>1, <2>6, <2>8, RefClose
<1> QED BY <1>1, <1>2, <1>3

\* The other steps open and free no file.
LEMMA RefPlain ==
  ASSUME TableInv, RefInv, NEW t \in Task,
         \/ rw_return(t) \/ sys_exit(t) \/ exit_done(t)
         \/ \E n \in Fd : sys_rw(t, n)
         \/ \E n, m \in Fd : sys_dup(t, n, m) \/ sys_dup2(t, n, m)
         \/ register_chrdev \/ unregister_chrdev \/ UNCHANGED vars
  PROVE  RefInv'
<1>1. CASE rw_return(t) \/ sys_exit(t) \/ exit_done(t) \/ \E n \in Fd : sys_rw(t, n)
  <2>1. /\ ~ InWalk(t) /\ UNCHANGED <<pwd, root, count, file, fails>>
        /\ \/ call' = [call EXCEPT ![t] = User]
           \/ call' = [call EXCEPT ![t] = [User EXCEPT !.pc = "exit"]]
           \/ \E n \in Fd : call' = [call EXCEPT ![t] = [User EXCEPT !.pc = "io", !.file = fdt[t][n]]]
    BY <1>1 DEF rw_return, sys_exit, exit_done, sys_rw, InUser, InWalk
  <2>0. PICK r : /\ call' = [call EXCEPT ![t] = r] /\ r.base = NULL
                 /\ r.pc \notin {"walk", "block", "inode"}
    <3>1. CASE call' = [call EXCEPT ![t] = User]
      BY <3>1, UserType
    <3>2. CASE call' = [call EXCEPT ![t] = [User EXCEPT !.pc = "exit"]]
      <4> DEFINE r == [User EXCEPT !.pc = "exit"]
      <4>1. call' = [call EXCEPT ![t] = r] /\ r.base = NULL /\ r.pc = "exit"
        BY <3>2 DEF User
      <4> HIDE DEF r
      <4> QED BY <4>1
    <3>3. ASSUME NEW n \in Fd, call' = [call EXCEPT ![t] = [User EXCEPT !.pc = "io", !.file = fdt[t][n]]]
          PROVE  \E r : /\ call' = [call EXCEPT ![t] = r] /\ r.base = NULL
                        /\ r.pc \notin {"walk", "block", "inode"}
      <4> DEFINE r == [User EXCEPT !.pc = "io", !.file = fdt[t][n]]
      <4>1. call' = [call EXCEPT ![t] = r] /\ r.base = NULL /\ r.pc = "io"
        BY <3>3 DEF User
      <4> HIDE DEF r
      <4> QED BY <4>1
    <3> QED BY <2>1, <3>1, <3>2, <3>3
  <2>2. \A u \in Task : state'[u] = "none" <=> state[u] = "none"
    <3>1. CASE UNCHANGED state
      BY <3>1
    <3>2. CASE exit_done(t)
      BY <3>2 DEF exit_done, TableInv, TableTypes, TaskInv
    <3> QED BY <1>1, <3>1, <3>2 DEF rw_return, sys_exit, sys_rw
  <2>3. SameHeld /\ BaseInv'
    BY <2>0, <2>1, <2>2, QuietCall
  <2> QED BY <2>1, <2>3, OpenSame, RefQuiet
<1>2. CASE \E n, m \in Fd : sys_dup(t, n, m) \/ sys_dup2(t, n, m)
  <2>1. PICK n \in Fd : /\ IsOpen(t, n) /\ file' = [file EXCEPT ![fdt[t][n]].ref = @ + 1]
                        /\ UNCHANGED <<count, pwd, root, state, call, fails>>
    BY <1>2 DEF sys_dup, sys_dup2
  <2>2. fdt[t][n] \in File /\ <<t, n>> \in Users(fdt[t][n])
    BY <2>1 DEF IsOpen, Users
  <2>3. file[fdt[t][n]].ref > 0
    BY <2>2, UsedRef DEF TableInv
  <2>4. \A g \in File : (file'[g].ref > 0 <=> file[g].ref > 0) /\ file'[g].inode = file[g].inode
    BY <2>1, <2>2, <2>3 DEF TableInv, TableTypes, FileType
  <2> QED BY <2>1, <2>4, OpenSame, RefQuiet, SameCall
<1>3. CASE register_chrdev \/ unregister_chrdev \/ UNCHANGED vars
  <2>1. UNCHANGED <<count, pwd, root, state, call, file, fails>>
    BY <1>3 DEF register_chrdev, unregister_chrdev, vars
  <2> QED BY <2>1, OpenSame, RefQuiet, SameCall
<1> QED BY <1>1, <1>2, <1>3

\* sys_exec: the new task inherits references to root and pwd.
LEMMA RefExec ==
  ASSUME TableInv, RefInv, NEW t \in Task, NEW c \in Task, sys_exec(t, c)
  PROVE  RefInv'
<1>1. /\ call[t].pc = "exec" /\ state[t] = "run" /\ state[c] = "none" /\ c # t
      /\ call[c].pc = "user" /\ UNCHANGED fails /\ pwd[t] \in Dentry /\ root[t] \in Dentry
      /\ count' = dref(dref(count, pwd[t]), root[t])
  BY DEF sys_exec, TableInv, TaskInv, TableTypes
<1>2. /\ state' = [state EXCEPT ![c] = "run"]
      /\ pwd' = [pwd EXCEPT ![c] = pwd[t]] /\ root' = [root EXCEPT ![c] = root[t]]
  BY DEF sys_exec
<1>3. /\ state'[c] = "run" /\ pwd'[c] = pwd[t] /\ root'[c] = root[t]
      /\ \A u \in Task : u # c => /\ state'[u] = state[u] /\ pwd'[u] = pwd[u]
                                  /\ root'[u] = root[u]
  BY <1>2 DEF TableInv, TableTypes
<1> DEFINE r == [call[t] EXCEPT !.pc = "execwait"]
           s == [User EXCEPT !.pc = "load", !.fd = call[t].fd, !.find = t]
<1>4. /\ call' = [call EXCEPT ![t] = r, ![c] = s]
      /\ r.pc = "execwait" /\ r.base = call[t].base /\ s.pc = "load" /\ s.base = NULL
  BY DEF sys_exec, TableInv, TableTypes, Rec, User
<1> HIDE DEF r, s
<1>5. call'[t] = r /\ call'[c] = s /\ \A w \in Task : w # t /\ w # c => call'[w] = call[w]
  BY <1>1, <1>4 DEF TableInv, TableTypes
<1>6. call[t].base = NULL /\ call[c].base = NULL /\ BaseInv
  BY <1>1 DEF RefInv, BaseInv
<1>7. BaseInv'
  BY <1>4, <1>5, <1>6 DEF BaseInv
<1>8. \A w \in Task : Iter(w)' = Iter(w) /\ Base(w)' = Base(w)
  <2>1. Iter(t) = NULL /\ Iter(t)' = NULL /\ Iter(c) = NULL /\ Iter(c)' = NULL
    BY <1>1, <1>4, <1>5 DEF Iter, InWalk
  <2>2. Base(t)' = Base(t) /\ Base(c)' = Base(c)
    BY <1>4, <1>5, <1>6 DEF Base
  <2>3. \A w \in Task : w # t /\ w # c => Iter(w)' = Iter(w) /\ Base(w)' = Base(w)
    BY <1>5 DEF Iter, Base, InWalk
  <2> QED BY <2>1, <2>2, <2>3
<1>9. \A x \in Dentry : Ext'[x] = Ext[x] + one(x, pwd[t]) + one(x, root[t])
  <2> SUFFICES ASSUME NEW x \in Dentry PROVE Ext'[x] = Ext[x] + one(x, pwd[t]) + one(x, root[t])
    OBVIOUS
  <2>1. \A u \in Task : u # c => Pwd(u)' = Pwd(u) /\ Root(u)' = Root(u)
    BY <1>3 DEF Pwd, Root
  <2>2. Ext'[x] = Ext[x] + Held(c, x)' - Held(c, x) /\ Ext[x] \in Nat
    BY <1>8, <2>1, ExtChange, ExtType
  <2>3. /\ Pwd(c) = NULL /\ Root(c) = NULL /\ Iter(c) = NULL /\ Base(c) = NULL
        /\ Pwd(c)' = pwd[t] /\ Root(c)' = root[t] /\ Iter(c)' = NULL /\ Base(c)' = NULL
    BY <1>1, <1>3, <1>6, <1>8 DEF Pwd, Root, Iter, Base, InWalk
  <2>4. Held(c, x) = one(x, NULL) + one(x, NULL) + one(x, NULL) + one(x, NULL)
    BY <2>3 DEF Held
  <2>5. Held(c, x)' = one(x, Pwd(c)') + one(x, Root(c)') + one(x, Iter(c)') + one(x, Base(c)')
    BY DEF Held, one
  <2>6. Held(c, x)' = one(x, pwd[t]) + one(x, root[t]) + one(x, NULL) + one(x, NULL)
    BY <2>3, <2>5
  <2>7. one(x, NULL) = 0 /\ one(x, pwd[t]) \in Nat /\ one(x, root[t]) \in Nat
    BY OneNull, OneType
  <2> QED BY <2>2, <2>4, <2>6, <2>7
<1> DEFINE p == pwd[t]
           q == root[t]
           g == dref(count, p)
           E == Plus(Ext, p)
<1>10. /\ Balanced(count, Ext) /\ Ext \in [Dentry -> Nat] /\ count \in Counts
       /\ count[p] > 0 /\ count[q] > 0
  BY <1>1, RefParts, ExtType, InHand
<1>11. /\ Balanced(g, E) /\ Shrinks(count, g) /\ E \in [Dentry -> Nat] /\ g[q] > 0
       /\ \A x \in Dentry : E[x] = Ext[x] + one(x, p)
  BY <1>1, <1>10, AddRef, PlusMinus, More
<1>12. count' = dref(g, q)
  BY <1>1
<1> HIDE DEF g, E, p, q
<1>13. /\ Balanced(count', Plus(E, q)) /\ Shrinks(g, count')
       /\ \A x \in Dentry : Plus(E, q)[x] = E[x] + one(x, q)
  BY <1>1, <1>11, <1>12, AddRef, PlusMinus DEF q
<1>14. \A x \in Dentry : Ext'[x] = Plus(E, q)[x]
  BY <1>9, <1>11, <1>13 DEF p, q
<1>15. Kept(count, g) /\ Kept(g, count')
  BY <1>10, <1>11, <1>13, InodeSame
<1>16. OpenOn' = OpenOn
  <2>1. \A f \in File : (file'[f].ref > 0 <=> file[f].ref > 0) /\ file'[f].inode = file[f].inode
    <3> SUFFICES ASSUME NEW f \in File
                 PROVE  (file'[f].ref > 0 <=> file[f].ref > 0) /\ file'[f].inode = file[f].inode
      OBVIOUS
    <3>1. file[f].ref \in Nat /\ file'[f].ref \in Nat
      BY ExecFiles DEF TableInv, TableTypes, FileType
    <3> QED BY <3>1, ExecFiles
  <2> QED BY <2>1, OpenSame
<1>17. fails <= 1 => InodeOk(count', OpenOn', fails')
  BY <1>1, <1>15, <1>16, OpenOnType DEF RefInv, Kept
<1>18. Balanced(count', Ext')
  BY <1>13, <1>14, NewBalance
<1> QED BY <1>1, <1>7, <1>17, <1>18, NewRef DEF RefInv

\* The release of a dead task, which drops root and pwd.
LEMMA RefRelease ==
  ASSUME TableInv, RefInv, NEW t \in Task, kthread_release(t)
  PROVE  RefInv'
<1>1. /\ state[t] = "dead" /\ call[t].pc = "user" /\ pwd[t] \in Dentry /\ root[t] \in Dentry
      /\ UNCHANGED <<call, file, fails>>
      /\ count' = dput(dput(count, root[t]), pwd[t])
  BY DEF kthread_release, TableInv, TaskInv, TableTypes
<1>2. /\ state'[t] = "none"
      /\ \A u \in Task : u # t => /\ state'[u] = state[u] /\ pwd'[u] = pwd[u]
                                  /\ root'[u] = root[u]
  BY DEF kthread_release, TableInv, TableTypes
<1>3. BaseInv' /\ Iter(t) = NULL /\ Base(t) = NULL
  BY <1>1, InHand DEF BaseInv, RefInv, InWalk
<1>4. \A u \in Task : Iter(u)' = Iter(u) /\ Base(u)' = Base(u)
  BY <1>1 DEF Iter, Base, InWalk
<1>5. \A u \in Task : u # t => Pwd(u)' = Pwd(u) /\ Root(u)' = Root(u)
  BY <1>2 DEF Pwd, Root
<1>6. Pwd(t) = pwd[t] /\ Root(t) = root[t] /\ Pwd(t)' = NULL /\ Root(t)' = NULL
  BY <1>1, <1>2 DEF Pwd, Root
<1>7. \A x \in Dentry : /\ Ext'[x] = Ext[x] - one(x, root[t]) - one(x, pwd[t])
                        /\ Ext[x] >= one(x, root[t]) + one(x, pwd[t])
  <2> SUFFICES ASSUME NEW x \in Dentry
               PROVE  /\ Ext'[x] = Ext[x] - one(x, root[t]) - one(x, pwd[t])
                      /\ Ext[x] >= one(x, root[t]) + one(x, pwd[t])
    OBVIOUS
  <2>1. Ext'[x] = Ext[x] + Held(t, x)' - Held(t, x) /\ Ext[x] >= Held(t, x) /\ Ext[x] \in Nat
    BY <1>4, <1>5, ExtChange, ExtHeld, ExtType
  <2>2. Held(t, x) = one(x, pwd[t]) + one(x, root[t]) + one(x, NULL) + one(x, NULL)
    BY <1>3, <1>6 DEF Held
  <2>3. Held(t, x)' = one(x, Pwd(t)') + one(x, Root(t)') + one(x, Iter(t)') + one(x, Base(t)')
    BY DEF Held, one
  <2>4. Held(t, x)' = one(x, NULL) + one(x, NULL) + one(x, NULL) + one(x, NULL)
    BY <1>3, <1>4, <1>6, <2>3
  <2>5. one(x, NULL) = 0 /\ one(x, pwd[t]) \in Nat /\ one(x, root[t]) \in Nat
    BY OneNull, OneType
  <2> QED BY <2>1, <2>2, <2>4, <2>5
<1>8. Balanced(count, Ext)
  BY RefParts
<1>9. PICK F : /\ Balanced(count', F) /\ Shrinks(count, count')
               /\ \A x \in Dentry : F[x] = Ext[x] - one(x, root[t]) - one(x, pwd[t])
  BY <1>1, <1>7, <1>8, PutTwo
<1>10. Balanced(count', Ext')
  BY <1>7, <1>9, NewBalance
<1>11. InodeStep
  BY <1>1, <1>8, <1>9, InodeSame DEF InodeStep
<1> QED BY <1>3, <1>10, <1>11, NewRef, InodeStepOk

\* At boot the tree is held by the tasks that run.
LEMMA RefInit == Init => RefInv
<1> SUFFICES ASSUME Init PROVE RefInv
  OBVIOUS
<1>1. /\ call = [t \in Task |-> User] /\ fails = 0
      /\ state = [t \in Task |-> IF t = init THEN "run" ELSE "none"]
      /\ pwd = [t \in Task |-> droot] /\ root = [t \in Task |-> droot]
      /\ file = [f \in File |-> NoFile] /\ init \in Task
  BY TreeAssumption DEF Init
<1>2. /\ count \in Counts /\ count[droot] = 8 /\ count[sroot] = 1
      /\ \A d \in Dentry \ Top : count[d] = 0
      /\ count[inode[droot]] = 2 /\ count[inode[sroot]] = 2
      /\ \A i \in Inode \ {inode[droot], inode[sroot]} : count[i] = 0
  BY TreeAssumption DEF Init, Counts, Top
<1>3. BaseInv
  BY <1>1, UserType DEF BaseInv
<1>4. \A x \in Dentry : Ext[x] = IF x = droot THEN 2 ELSE 0
  <2> SUFFICES ASSUME NEW x \in Dentry PROVE Ext[x] = IF x = droot THEN 2 ELSE 0
    OBVIOUS
  <2>1. Iters(x) = {} /\ Bases(x) = {}
    BY <1>1, UserType, NotLocked DEF Iters, Bases, Iter, Base, InWalk
  <2>2. /\ Pwds(x) = IF x = droot THEN {init} ELSE {}
        /\ Roots(x) = IF x = droot THEN {init} ELSE {}
    BY <1>1, NotLocked DEF Pwds, Roots, Pwd, Root
  <2>3. Cardinality({}) = 0 /\ Cardinality({init}) = 1
    BY FS_EmptySet, FS_Singleton
  <2>4. Ext[x] = Cardinality(Pwds(x)) + Cardinality(Roots(x))
                 + Cardinality(Iters(x)) + Cardinality(Bases(x))
    BY DEF Ext
  <2> QED BY <2>1, <2>2, <2>3, <2>4
<1>5. Balanced(count, Ext)
  <2>1. ASSUME NEW x \in Dentry
        PROVE  Children(count, x) = {}
    BY <1>2, TreeAssumption DEF Children, Top
  <2>2. Cardinality({}) = 0
    BY FS_EmptySet
  <2>3. \A x \in Dentry : count[x] = Boot(x) + Ext[x] + Cardinality(Children(count, x))
    BY <1>2, <1>4, <2>1, <2>2, Tree DEF Boot, Top
  <2> QED BY <1>2, <2>3, ExtType DEF Balanced
<1>6. InodeOk(count, OpenOn, 0)
  <2> SUFFICES ASSUME NEW i \in Inode
               PROVE  \/ count[i] = 0 /\ Cached(count, i) = {} /\ OpenOn[i] = 0
                      \/ Others(count, i) >= OpenOn[i] + 1 - 0
    BY DEF InodeOk
  <2>1. OpenOn[i] = 0
    <3>1. OpenFiles(i) = {}
      BY <1>1, NoFileType DEF OpenFiles
    <3> QED BY <3>1, FS_EmptySet DEF OpenOn
  <2>2. CASE i \notin {inode[droot], inode[sroot]}
    <3>1. Cached(count, i) = {}
      BY <1>2, <2>2 DEF Cached, Top
    <3> QED BY <1>2, <2>1, <2>2, <3>1
  <2>3. ASSUME NEW d \in Top, i = inode[d] PROVE Others(count, i) = 1
    <3>1. Cached(count, i) = {d}
      BY <1>2, <2>3, TreeAssumption DEF Cached, Top
    <3>2. Cardinality({d}) = 1
      BY FS_Singleton
    <3>3. count[i] = 2
      BY <1>2, <2>3 DEF Top
    <3> QED BY <3>1, <3>2, <3>3 DEF Others
  <2> QED BY <2>1, <2>2, <2>3 DEF Top
<1> QED BY <1>1, <1>3, <1>5, <1>6 DEF RefInv

\* Every step keeps the balance.
LEMMA RefNext == ASSUME TableInv, RefInv, [Next]_vars PROVE RefInv'
<1>1. ASSUME NEW t \in Task, Step(t) PROVE RefInv'
  <2>1. CASE walk_up(t) \/ walk_file(t) \/ find_entry(t) \/ lookup_none(t) \/ iget_error(t)
    BY <2>1, RefWalkUp, RefWalkFile, RefFindEntry, RefLookupNone
  <2>2. CASE lookup_hit(t) \/ lookup_miss(t) \/ iget_return(t)
    BY <2>2, RefLookupHit, RefLookupMiss, RefIgetReturn
  <2>3. CASE \/ sys_chdir(t) \/ sys_chroot(t) \/ sys_open(t)
             \/ chrdev_count(t) \/ chrdev_open(t)
    BY <2>3, RefChdir, RefChroot, RefOpen, RefChrdev
  <2>4. CASE exec_wrapper(t) \/ exec_close(t) \/ \E n \in Fd : exit_close(t, n)
    BY <2>4, RefCloseStep
  <2>5. CASE rw_return(t) \/ exit_done(t)
    BY <2>5, RefPlain
  <2>6. CASE \E c \in Task : sys_exec(t, c)
    BY <2>6, RefExec
  <2> QED BY <1>1, <2>1, <2>2, <2>3, <2>4, <2>5, <2>6 DEF Step
<1>2. ASSUME NEW t \in Task, Call(t) PROVE RefInv'
  <2>1. CASE \E r \in Calls[t] : r.op \in Walks /\ lookup(t, r.op, r.path, r.slash)
    BY <2>1, RefLookup
  <2>2. CASE \E n \in Fd : sys_close(t, n)
    BY <2>2, RefCloseStep
  <2>3. CASE sys_exit(t) \/ (\E n \in Fd : sys_rw(t, n))
             \/ \E n, m \in Fd : sys_dup(t, n, m) \/ sys_dup2(t, n, m)
    BY <2>3, RefPlain
  <2> QED BY <1>2, <2>1, <2>2, <2>3 DEF Call
<1>3. ASSUME NEW t \in Task, kthread_release(t) PROVE RefInv'
  BY <1>3, RefRelease
<1>4. CASE register_chrdev \/ unregister_chrdev \/ UNCHANGED vars
  <2>1. PICK t \in Task : TRUE
    BY TreeAssumption
  <2> QED BY <1>4, <2>1, RefPlain
<1> QED BY <1>1, <1>2, <1>3, <1>4 DEF Next

\* The counts of dentries and inodes are what the tables account for, for every
\* tree and every interleaving of walks (fs/namei.c, dentry.c, inode.c).
THEOREM RefInvariant == Spec => []RefInv
<1>1. Init => RefInv
  BY RefInit
<1>2. TableInv /\ RefInv /\ [Next]_vars => RefInv'
  BY RefNext
<1> QED BY <1>1, <1>2, TableInvariant, PTL DEF Spec

\* The count of a dentry is exactly the number of references to it: a walk
\* that sleeps in minix_lookup finds its directory in memory, and the last dput
\* frees the dentry and the chain of parents above it (dget, dput).
THEOREM DentriesCounted == Spec => []DentryCount
<1>1. ASSUME RefInv, TableInv PROVE DentryCount
  <2> SUFFICES ASSUME NEW d \in Dentry PROVE count[d] = DentryRefs(d)
    BY DEF DentryCount
  <2>1. count[d] = Boot(d) + Ext[d] + Cardinality(Children(count, d))
    BY <1>1 DEF RefInv, Balanced
  <2>2. d # NULL
    BY NotLocked
  <2>3. {t \in Live : pwd[t] = d} = Pwds(d) /\ {t \in Live : root[t] = d} = Roots(d)
    BY <2>2 DEF Live, Pwds, Roots, Pwd, Root
  <2>4. {t \in Task : call[t].iter = d /\ call[t].pc \in {"walk", "block", "inode"}} = Iters(d)
    BY <2>2 DEF Iters, Iter, InWalk
  <2>5. {t \in Task : call[t].base = d} = Bases(d)
    BY DEF Bases, Base
  <2>6. {e \in Dentry \ {droot} : parent[e] = d /\ count[e] > 0} = Children(count, d)
    BY DEF Children
  <2>7. DentryRefs(d) = Boot(d) + Cardinality(Pwds(d)) + Cardinality(Roots(d))
                        + Cardinality(Iters(d)) + Cardinality(Bases(d))
                        + Cardinality(Children(count, d))
    BY <2>3, <2>4, <2>5, <2>6 DEF DentryRefs
  <2>8. Ext[d] = Cardinality(Pwds(d)) + Cardinality(Roots(d))
                 + Cardinality(Iters(d)) + Cardinality(Bases(d))
    BY DEF Ext
  <2>9. /\ Cardinality(Pwds(d)) \in Nat /\ Cardinality(Roots(d)) \in Nat
        /\ Cardinality(Iters(d)) \in Nat /\ Cardinality(Bases(d)) \in Nat
        /\ Cardinality(Children(count, d)) \in Nat /\ Boot(d) \in Nat
    BY TaskSets, Cards DEF Pwds, Roots, Iters, Bases, Boot
  <2> QED BY <2>1, <2>7, <2>8, <2>9
<1> QED BY <1>1, RefInvariant, TableInvariant, PTL

\* Nothing is freed while it is used, neither inodes (while at most one
\* allocation has failed: iget, minix_lookup) nor files nor drivers.
THEOREM NothingFreedInUse == Spec => []CountsCover
<1>1. ASSUME RefInv PROVE InodeCount
  <2> SUFFICES ASSUME fails <= 1, NEW i \in Inode
               PROVE  count[i] >= Cardinality(Cached(count, i)) + Cardinality(OpenFiles(i))
    BY DEF InodeCount, Cached, OpenFiles
  <2>1. InodeOk(count, OpenOn, fails) /\ fails \in Nat /\ Balanced(count, Ext)
    BY <1>1 DEF RefInv
  <2>2. OpenOn[i] = Cardinality(OpenFiles(i)) /\ OpenOn[i] \in Nat
    BY OpenOnType DEF OpenOn
  <2>3. /\ Others(count, i) \in Int /\ Cardinality(Cached(count, i)) \in Nat
        /\ Others(count, i) + Cardinality(Cached(count, i)) = count[i]
    BY <2>1, OthersInt
  <2>4. Cardinality({}) = 0
    BY FS_EmptySet
  <2>5. \/ count[i] = 0 /\ Cached(count, i) = {} /\ OpenOn[i] = 0
        \/ Others(count, i) >= OpenOn[i] + 1 - fails
    BY <2>1 DEF InodeOk
  <2>6. CASE count[i] = 0 /\ Cached(count, i) = {} /\ OpenOn[i] = 0
    BY <2>2, <2>4, <2>6
  <2>7. CASE Others(count, i) >= OpenOn[i] + 1 - fails
    <3>1. Others(count, i) >= OpenOn[i]
      BY <2>1, <2>2, <2>3, <2>7
    <3> QED BY <2>2, <2>3, <3>1
  <2> QED BY <2>5, <2>6, <2>7
<1>2. ASSUME RefInv, FileCount /\ DeviceInUse PROVE CountsCover
  BY <1>1, <1>2 DEF CountsCover
<1> QED BY <1>2, RefInvariant, FilesCovered, PTL
=============================================================================
