------------------------------ MODULE MCInode ------------------------------
(***************************************************************************)
(* Three tasks and two files.  All three open one of them while it is not  *)
(* cached, and up to two allocations fail: a task that sleeps in iget      *)
(* meanwhile must not drop a reference to the inode that it does not hold. *)
(***************************************************************************)
EXTENDS Vfs, TLC
CONSTANTS p, q, r, f1

MCTask == {p, q, r}
MCDentry == {"droot", "/", "/f", "/sh"}
MCparent == "droot" :> "droot" @@ "/" :> NULL @@ "/f" :> "/" @@ "/sh" :> "/"
MCInode == {"iroot", "i1", "i2", "i3"}
MCinode == "droot" :> "iroot" @@ "/" :> "i1" @@ "/f" :> "i2" @@ "/sh" :> "i3"
MCName == {"f", "sh", ""}
MCname == "droot" :> "" @@ "/" :> "" @@ "/f" :> "f" @@ "/sh" :> "sh"
MCBegins == {<<n, n>> : n \in {"f", "sh"}}
Made(o, a) == [op |-> o, path |-> a, slash |-> TRUE]
MCCalls == [t \in MCTask |->
  {Made("open", <<"f">>), Made("close", <<>>)} \cup IF t # r THEN {Made("exec", <<"sh">>)} ELSE {}]
=============================================================================
