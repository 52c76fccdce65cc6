----------------------------- MODULE Identities -----------------------------
(***************************************************************************)
(* What the identities of devices are worth, whoever makes, hands out and  *)
(* revokes them, and however often that fails.                             *)
(*                                                                         *)
(* An id is handed to one device and never again to another, not even when *)
(* the first has lost it.  A device loses its id only when the id is not   *)
(* valid, and an id that was handed out and revoked is never valid again.  *)
(***************************************************************************)
CONSTANTS Devices, Ids, NoId

VARIABLES
    held,       \* held[d]: the id of device d, or NoId
    spent,      \* the ids that will not be handed out any more
    valid       \* the ids that a device can log in with

vars == <<held, spent, valid>>

Init ==
    /\ held = [d \in Devices |-> NoId]
    /\ spent = {}
    /\ valid = {}

\* Ids become valid before they are handed out, or not at all.
Make ==
    /\ \E S \in SUBSET (Ids \ spent) : valid' = valid \cup S
    /\ UNCHANGED <<held, spent>>

HandOut(d) ==
    /\ held[d] = NoId
    /\ \E i \in Ids \ spent :
         /\ held' = [held EXCEPT ![d] = i]
         /\ spent' = spent \cup {i}
    /\ UNCHANGED valid

\* Ids are lost on their way to a device, or before.
Waste ==
    /\ \E S \in SUBSET Ids : spent' = spent \cup S
    /\ UNCHANGED <<held, valid>>

Revoke ==
    /\ \E S \in SUBSET valid : valid' = valid \ S
    /\ UNCHANGED <<held, spent>>

Forget(d) ==
    /\ held[d] # NoId /\ held[d] \notin valid
    /\ held' = [held EXCEPT ![d] = NoId]
    /\ UNCHANGED <<spent, valid>>

Next ==
    \/ Make
    \/ Waste
    \/ Revoke
    \/ \E d \in Devices : HandOut(d) \/ Forget(d)

Spec == Init /\ [][Next]_vars
=============================================================================
