------------------------------ MODULE MCMenus -------------------------------
(* Two servers, one mod beside a reserved one, and one message.      *)
EXTENDS Menus, TLC

CONSTANTS s1, s2, m1, forge, msg1

TwoServers == {s1, s2}
TwoMods    == {m1, forge}
OneMessage == {msg1}
Symmetry   == Permutations(TwoServers)
=============================================================================
