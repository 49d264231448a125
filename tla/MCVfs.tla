------------------------------- MODULE MCVfs -------------------------------
(***************************************************************************)
(* A program and a directory with a device node.  The first task starts    *)
(* the program; then two tasks walk the tree.                              *)
(***************************************************************************)
EXTENDS Vfs, TLC
CONSTANTS p, q, f1, f2

MCTask == {p, q}
MCFile == {f1, f2}
MCDentry == {"droot", "/", "/dev", "/dev/tty", "/sh"}
MCparent == "droot" :> "droot" @@ "/" :> NULL @@ "/dev" :> "/" @@ "/dev/tty" :> "/dev"
            @@ "/sh" :> "/"
MCInode == {"iroot", "i1", "i2", "i3", "i4"}
MCinode == "droot" :> "iroot" @@ "/" :> "i1" @@ "/dev" :> "i2" @@ "/dev/tty" :> "i3"
           @@ "/sh" :> "i4"
MCDir == {"iroot", "i1", "i2"}
MCDev == {"i3"}
MCName == {"dev", "tty", "t", "sh", ""}
MCname == "droot" :> "" @@ "/" :> "" @@ "/dev" :> "dev" @@ "/dev/tty" :> "tty"
          @@ "/sh" :> "sh"
MCBegins == {<<"dev", "dev">>, <<"tty", "tty">>, <<"t", "tty">>,
             <<"sh", "sh">>}
Made(o, s, a) == [op |-> o, path |-> a, slash |-> s]
Plain(O) == {Made(o, FALSE, <<>>) : o \in O}
MCCalls ==
  p :> {Made("exec", TRUE, <<"sh">>), Made("open", TRUE, <<"dev", "tty">>),
        Made("chdir", FALSE, <<"..">>)} \cup Plain({"close"}) @@
  q :> {Made("open", TRUE, <<"dev", "tty">>), Made("open", FALSE, <<"t", "t">>),
        Made("chdir", FALSE, <<"dev">>), Made("chdir", FALSE, <<"..">>),
        Made("chroot", FALSE, <<"dev">>)}
       \cup Plain({"close", "rw", "dup", "dup2", "exit"})
=============================================================================
