------------------------------ MODULE MCEeprom ------------------------------
(* Eeprom for TLC: the first slave sends one word at a time, the second    *)
(* two.                                                                    *)
EXTENDS Eeprom

Chunks == [s \in Slaves |-> s]
=============================================================================
