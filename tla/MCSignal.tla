------------------------------ MODULE MCSignal -----------------------------
(***************************************************************************)
(* Two programs, the shell and what it starts, with two points each; and   *)
(* three programs, so that one can send a signal while another one starts  *)
(* a program in the page of the third.                                     *)
(***************************************************************************)
EXTENDS Signal

CONSTANTS a, b, c, p, q

MCTask == {a, b}
MCThree == {a, b, c}
MCContext == {p, q}
MCOnePoint == {p}
=============================================================================
