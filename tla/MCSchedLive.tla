---------------------------- MODULE MCSchedLive ----------------------------
(***************************************************************************)
(* The liveness of Sched in two scenarios.  In "pair" there are two        *)
(* programs, which do what they like.  In "orphan" there are three in one  *)
(* line of descent: c exits, then b, and a reaps b, so that init inherits  *)
(* the zombie c, also while it sleeps.                                     *)
(***************************************************************************)
EXTENDS MCSched

VARIABLE scenario
mc_vars == <<vars, scenario>>

\* Bounds of "orphan": who starts whom, who exits and when, who waits and how;
\* every program is loaded, with the argc of its sys_exec.  They leave out
\* choices of programs and of the environment only, so that every step that
\* fairness asks for is still there.
Descent == {<<Idle, InitTask>>, <<InitTask, a>>, <<a, b>>, <<b, c>>}
Starts(t) == state[t] = "DEAD" /\ state'[t] # "DEAD"
Exits(t) == state[t] # "ZOMBIE" /\ state'[t] = "ZOMBIE"
Orphan ==
  \A t \in Task : /\ Starts(t) => <<current, t>> \in Descent
                  /\ Exits(t) => t = c \/ (t = b /\ state[c] = "ZOMBIE")
                  /\ pc'[t] \notin {"wait_chk", "exec_fail"}
                  /\ pc'[t] = "wait_chld" => t \in {InitTask, a}
                  /\ argc'[t] # "stale"

MCInit == Init /\ scenario \in {"pair", "orphan"}
MCNext ==
  /\ Next /\ UNCHANGED scenario
  /\ \/ scenario = "pair" /\ state'[c] = "DEAD"
     \/ scenario = "orphan" /\ Orphan

MCSpec == MCInit /\ [][MCNext]_mc_vars /\ Fairness
=============================================================================
