---------------------------- MODULE MCOwnership ----------------------------
(* Small instances of Ownership: one user owns a device, the other wants   *)
(* it.  The requests are chosen so that every job meets every other.       *)
EXTENDS Ownership, TLC

CONSTANTS ua, ub, da, db, n, unnamed, absent, nobody, none

Request(what, user, device) ==
    [what |-> what, user |-> user, device |-> device, name |-> unnamed]

MCRequests ==
    {Request("claim", ua, da), Request("claim", ub, da), Request("claim", ua, db),
     Request("public", ua, da), Request("private", ub, da),
     Request("unregister", ua, da),
     [what |-> "rename", user |-> ua, device |-> da, name |-> n]}

\* Sound: the model does not tell registrar processes apart.
WorkerSymmetry == Permutations(Workers)
=============================================================================
