------------------------------ MODULE MCPolls ------------------------------
(* Instances of Polls for TLC. *)
EXTENDS Polls, TLC

CONSTANTS k1, t1, t2

OneKey       == {k1}
TwoTasks     == {t1, t2}
TaskSymmetry == Permutations(TwoTasks)
=============================================================================
