------------------------------ MODULE MCSched ------------------------------
(***************************************************************************)
(* Instances of Sched for TLC: the idle task, init and a few pages for     *)
(* programs, one device queue.                                             *)
(***************************************************************************)
EXTENDS Sched

CONSTANTS a, b, c, disk

MCTwoPrograms == {Idle, InitTask, a, b}
MCThreePrograms == {Idle, InitTask, a, b, c}

Programs == Task \ {Idle, InitTask}
MCSymmetry == Permutations(Programs)
=============================================================================
