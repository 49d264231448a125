------------------------------- MODULE MCTty -------------------------------
(***************************************************************************)
(* Tty with three readers of one terminal, two of which share an open file *)
(* as a program and its child do, and a small event buffer.                *)
(***************************************************************************)
EXTENDS Tty

CONSTANTS a, b, c, f, g

MCTask == {a, b, c}
MCTwo == {a, b}
MCFile == {f, g}
MCFilp == [t \in Task |-> IF t = c THEN g ELSE f]
MCSize == {1, 2}
=============================================================================
