----------------------------- MODULE RedisLink -----------------------------
(***************************************************************************)
(* One command on one connection to redis, as every process of the system  *)
(* meets it.  A command is answered, or the connection breaks before redis *)
(* has run it ("unsent") or after ("unanswered"): the caller sees the same *)
(* error in the last two cases, and no code asks which of them it was.     *)
(***************************************************************************)
EXTENDS Naturals

CONSTANT MaxFaults    \* bound of the model on broken connections and crashes

ASSUME FaultsAssumption == MaxFaults \in Nat

VARIABLE faults       \* faults so far, at most MaxFaults

Outcomes == {"ok", "unsent", "unanswered"}
Applied(o) == o # "unsent"
LinkAfter(o) == IF o = "ok" THEN "up" ELSE "broken"

Fault ==
    /\ faults < MaxFaults
    /\ faults' = faults + 1

\* Issuing a command: a broken link sends nothing more, and a link that
\* breaks is a fault.
Issue(link, o) ==
    \/ link = "up" /\ o = "ok" /\ UNCHANGED faults
    \/ link = "up" /\ o \in {"unsent", "unanswered"} /\ Fault
    \/ link = "broken" /\ o = "unsent" /\ UNCHANGED faults
=============================================================================
