------------------------------- MODULE MCBmcs -------------------------------
(***************************************************************************)
(* Instances of Bmcs for TLC.  The system is clock 5; clock 1 is better,   *)
(* clock 9 is worse; clocks 2 and 3 are the neighbours of ports 1 and 2.   *)
(***************************************************************************)
EXTENDS Bmcs

Ann(root, steps, src, tlv) == [root |-> root, steps |-> steps, src |-> <<src, 1>>, tlv |-> tlv]

Good == <<10, 1>>
Bad == <<30, 9>>
Ours == <<20, 5>>

(* Both neighbours announce the better clock, that of port 2 as one that   *)
(* is a step further away.                                                 *)
TwoMasters == << {Ann(Good, 1, 2, Tlv(<<1, 2>>))}, {Ann(Good, 2, 3, Tlv(<<1, 4, 3>>))} >>

(* The neighbour of port 1 announces a worse clock.  Port 2 hears the      *)
(* better one by a path that is too long to be passed on, and what we have *)
(* passed on ourselves.                                                    *)
Loop ==
    << {Ann(Bad, 1, 2, Tlv(<<9, 2>>))},
       {Ann(Good, 2, 3, Tlv(<<1, 5, 3>>)), Ann(Good, 3, 3, Tlv(<<1, 6, 4, 3>>))} >>

TwoPorts == {TwoMasters, Loop}

(* The neighbour of port 1 never sends the TLV; port 2 hears nothing.      *)
NoPathTrace == { << {Ann(Good, 1, 2, NoTlv)}, {} >> }

(* Port 1 hears a better and a worse clock, port 2 nothing: it is a master *)
(* port whose announces tell one grandmaster and then another.             *)
ChangingMaster ==
    { << {Ann(Good, 1, 2, Tlv(<<1, 2>>)), Ann(Bad, 1, 2, Tlv(<<9, 2>>))}, {} >> }
=============================================================================
