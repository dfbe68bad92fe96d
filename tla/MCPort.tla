------------------------------- MODULE MCPort -------------------------------
(* Port for TLC. *)
EXTENDS Port, TLC

(* The confirmed clients are interchangeable. *)
Symm == Permutations(Clients \ (Cyclic \cup Exempt))
=============================================================================
