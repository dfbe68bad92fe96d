--------------------------- MODULE MCSlaveStates ---------------------------
(* SlaveStates for TLC. *)
EXTENDS SlaveStates

(* Two states that are not each other's bits. *)
Running == {{4}, {8}}
=============================================================================
