--------------------------- MODULE MCDeviceState ---------------------------
(* Small instances of DeviceState.                                         *)
EXTENDS DeviceState

CONSTANTS none

\* Sound: neither the model nor its invariants tell messages apart.
MessageSymmetry == Permutations(Messages)
=============================================================================
