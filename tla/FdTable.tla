------------------------------ MODULE FdTable ------------------------------
(***************************************************************************)
(* What the system calls on files promise a program: a descriptor names    *)
(* the inode it was opened on until its own task closes or replaces it,    *)
(* and a new task begins with the descriptors of its creator.              *)
(***************************************************************************)
CONSTANTS Task, Fd, Inode, NULL

VARIABLE fd        \* fd[t][n]: the inode that descriptor n of task t names

Closed == [n \in Fd |-> NULL]

Init == fd = [t \in Task |-> Closed]

Open(t, n, i) ==
  /\ fd[t][n] = NULL
  /\ fd' = [fd EXCEPT ![t][n] = i]

Close(t, n) == fd' = [fd EXCEPT ![t][n] = NULL]

Dup(t, n, m) ==
  /\ fd[t][n] # NULL
  /\ fd' = [fd EXCEPT ![t][m] = fd[t][n]]

Fork(t, c) ==
  /\ fd[c] = Closed
  /\ fd' = [fd EXCEPT ![c] = fd[t]]

Next ==
  \E t \in Task :
    \/ \E n \in Fd : \/ \E i \in Inode : Open(t, n, i)
                     \/ Close(t, n)
                     \/ \E m \in Fd : Dup(t, n, m)
    \/ \E c \in Task : Fork(t, c)

Spec == Init /\ [][Next]_fd
=============================================================================
