---------------------------- MODULE MCConfigStore ----------------------------
(* An instance of ConfigStore for TLC: two kinds of writers, two values. *)
EXTENDS ConfigStore

CONSTANTS wishes, polls, v0, v1

TwoWriters == {wishes, polls}
TwoValues  == {v0, v1}
=============================================================================
