---------------------------- MODULE SyncExchange ----------------------------
(***************************************************************************)
(* What the sender and the receiver of Sync promise each other, whatever   *)
(* is lost between them: the receiver is given pairs of a Sync and a       *)
(* follow-up, each the departure of one Sync and the time of that very     *)
(* departure, in the order of departure and none of them twice.            *)
(***************************************************************************)
EXTENDS Naturals

VARIABLES
    departed,  \* how many Syncs have left
    told,      \* the departures whose time was told in a follow-up
    joined     \* the pair given last: the Sync, and the departure its follow-up is about

vars == <<departed, told, joined>>

Nothing == [sync |-> 0, fup |-> 0]

Init == departed = 0 /\ told = {} /\ joined = Nothing

Depart ==
    /\ departed' = departed + 1
    /\ UNCHANGED <<told, joined>>

Tell ==
    \E d \in 1 .. departed \ told :
        /\ told' = told \cup {d}
        /\ UNCHANGED <<departed, joined>>

Join ==
    \E d \in told :
        /\ d > joined.sync
        /\ joined' = [sync |-> d, fup |-> d]
        /\ UNCHANGED <<departed, told>>

Next == Depart \/ Tell \/ Join

Spec == Init /\ [][Next]_vars
=============================================================================
