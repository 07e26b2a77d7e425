---------------------------- MODULE MCModPipeline ----------------------------
(* Instances of ModPipeline for TLC. *)
EXTENDS ModPipeline, TLC

CONSTANTS d1, d2, d3, s1, s2

ThreeDownloads == {d1, d2, d3}
TwoServers     == {s1, s2}
OneServer      == {s1}
TwoForOne      == d1 :> s1 @@ d2 :> s1 @@ d3 :> s2
TwoNames       == {"mod_10000_temp.bin", "mod_10001_temp.bin"}
=============================================================================
