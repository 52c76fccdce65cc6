----------------------------- MODULE MCFirmware -----------------------------
(* Small instances of Firmware. *)
EXTENDS Firmware
=============================================================================
