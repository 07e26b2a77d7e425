---------------------------- MODULE AtomicConfig ----------------------------
(***************************************************************************)
(* What a Config (yapper/src/conf.rs) promises to the two programs that    *)
(* keep their state in one: a value that is changed as a whole, that every *)
(* reader sees changed as soon as the change is made, and that survives    *)
(* the end of the process once the change is acknowledged.  The promise is *)
(* only given between changes: a process that ends while a change is made, *)
(* or after one that failed, may find the value before it, the value after *)
(* it, or no usable value at all.                                          *)
(***************************************************************************)
CONSTANTS Configs,  \* what a configuration can be
          Torn      \* no configuration: a file that does not parse

VARIABLES
  value,    \* what a reader sees, or would see after a start
  kept,     \* the value last acknowledged
  dirty     \* a change was begun, and none was acknowledged since

vars == <<value, kept, dirty>>

Init == /\ value \in Configs
        /\ kept = value
        /\ dirty = FALSE

Change ==
  /\ value # Torn
  /\ value' \in Configs
  /\ dirty' = TRUE
  /\ UNCHANGED kept

Acknowledge ==
  /\ dirty /\ value # Torn
  /\ kept' = value
  /\ dirty' = FALSE
  /\ UNCHANGED value

\* The process ends; what it left behind is all that is ever known again.
End ==
  /\ value' \in IF dirty THEN {value, kept, Torn} ELSE {value}
  /\ kept' = value'
  /\ dirty' = FALSE

Next == Change \/ Acknowledge \/ End

Spec == Init /\ [][Next]_vars
=============================================================================
