--------------------------- MODULE MCDiagnostics ---------------------------
(* Diagnostics for TLC. *)
EXTENDS Diagnostics

Entries == [of : Callers \cup {Elsewhere}, no : 1 .. MaxErrors]
=============================================================================
