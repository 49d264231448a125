-------------------------------- MODULE MCHd -------------------------------
(***************************************************************************)
(* The disk and what is read of it: a behaviour is of one part, and the    *)
(* other keeps its first values.  Three tasks use the driver, so that two  *)
(* wait for the controller while the third one's block is transferred;     *)
(* blocks of three sectors.  A file of the MINIX disk has eight zones: two *)
(* named by the inode, two by the index block 11 and four by the index     *)
(* blocks that 12 names.                                                   *)
(***************************************************************************)
EXTENDS Hd, Minix
CONSTANTS p, q, r
MCTask == {p, q, r}

MCImage(z, size, bad) ==
  [zone |-> 0 :> z[1] @@ 1 :> z[2] @@ 2 :> 11 @@ 3 :> 12,
   ptr |-> 11 :> (0 :> z[3] @@ 1 :> z[4]) @@ 12 :> (0 :> 13 @@ 1 :> 14)
           @@ 13 :> (0 :> z[5] @@ 1 :> z[6]) @@ 14 :> (0 :> z[7] @@ 1 :> z[8]),
   zones |-> z, size |-> size, bad |-> bad]
MCZones == {<<10, 3, 5, 4, 9, 2, 7, 8>>, <<10, 3, 5, 0, 9, 2, 7, 0>>, <<10, 0, 5, 4, 0, 2, 7, 8>>}
MCFiles == {MCImage(z, size, bad) :
              z \in MCZones, size \in {0, 3, 4, 8, 15, 16}, bad \in {{}, {2}, {4}, {5}, {6}, {7}}}
MCPositions == {0, 1, 3, 4, 5, 7, 8, 11, 14, 15, 16}
MCCounts == {0, 1, 3, 4, 5}
MCEntry(i, n) == [inr |-> i, name |-> n]
MCDirectories == {[entries |-> <<MCEntry(a, "x"), MCEntry(2, "y"), MCEntry(b, "x"),
                                 MCEntry(4, "z"), MCEntry(5, "x")>>] : a, b \in {0, 1}}
MCNames == {"x", "y", "z", "w"}
-----------------------------------------------------------------------------
VARIABLE part
mc_vars == <<part, vars, minix_vars>>
MCInit ==
  /\ Init
  /\ \/ part = "disk" /\ file = (CHOOSE f \in Files : TRUE) /\ call = Call("read", 0, 0)
     \/ part = "minix" /\ MinixInit
Disk(A) == part = "disk" /\ A /\ UNCHANGED <<part, minix_vars>>
MCNext ==
  \/ Disk(Next)
  \/ part = "minix" /\ (MinixNext \/ (call.done /\ UNCHANGED minix_vars))
     /\ UNCHANGED <<part, vars>>

\* FairSpec of the disk beside the reads, which are of no use to it.
MCSpec ==
  /\ MCInit /\ [][MCNext]_mc_vars
  /\ WF_mc_vars(Disk(hd_intr))
  /\ \A t \in Task :
       WF_mc_vars(Disk(hd_out_wait(t) \/ hd_out(t) \/ hd_return(t) \/ Continue(t)))
=============================================================================
