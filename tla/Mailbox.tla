------------------------------ MODULE Mailbox ------------------------------
(***************************************************************************)
(* What a device promises of the messages that it takes from its list,     *)
(* free of its machines, its reader and its connections.                   *)
(*                                                                         *)
(* Messages are shown in the order in which they were taken, each at most  *)
(* once, and none is passed over: one that is not shown before a later one *)
(* was lost, and what is lost stays so.                                    *)
(***************************************************************************)
EXTENDS Naturals

CONSTANT MaxMessages    \* bound of the model: messages that are taken

VARIABLES
    taken,              \* messages 1..taken were taken
    shown,              \* the message on the screen, or 0
    lost                \* the messages that will never be shown

vars == <<taken, shown, lost>>

Init == taken = 0 /\ shown = 0 /\ lost = {}

\* The messages that are to be shown.
Coming == {m \in 1..taken : m > shown /\ m \notin lost}

Take ==
    /\ taken < MaxMessages
    /\ taken' = taken + 1
    /\ UNCHANGED <<shown, lost>>

\* Some that are coming are lost, and perhaps one that is just taken.
Lose ==
    /\ taken' \in {taken, taken + 1} /\ taken' <= MaxMessages
    /\ \E S \in SUBSET Coming : lost' = lost \cup S \cup ((taken + 1)..taken')
    /\ UNCHANGED shown

Show ==
    /\ shown' \in Coming
    /\ \A m \in Coming : shown' <= m
    /\ UNCHANGED <<taken, lost>>

Next == Take \/ Lose \/ Show

Spec == Init /\ [][Next]_vars
=============================================================================
