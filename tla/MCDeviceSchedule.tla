-------------------------- MODULE MCDeviceSchedule --------------------------
(* Small instances of DeviceSchedule.                                      *)
EXTENDS DeviceSchedule, TLC

CONSTANTS none
=============================================================================
