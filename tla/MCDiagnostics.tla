--------------------------- MODULE MCDiagnostics ---------------------------
(* Small instances of Diagnostics.                                         *)
EXTENDS Diagnostics

CONSTANTS none
=============================================================================
