---------------------------- MODULE MCServerFiles ----------------------------
(* Instances of ServerFiles for TLC. *)
EXTENDS ServerFiles, TLC

CONSTANTS m1, m2, m3

ThreeMods   == {m1, m2, m3}
OneName     == {"a.jar"}
ModSymmetry == Permutations(ThreeMods)
=============================================================================
