-------------------------------- MODULE Bmcs --------------------------------
(***************************************************************************)
(* One time-aware system among neighbours that announce whatever they      *)
(* like: the handlers of BmcsCore in any order.                            *)
(***************************************************************************)
EXTENDS BmcsCore

CONSTANTS
    Rank,        \* the rank of this system
    ThisClock,   \* thisClock
    Surroundings, \* what the ports hear: of each, the set of announces that arrive
    Lates,       \* what may expire: a set of "no", "sync", "announce"
    Refused,     \* the ports whose announces the network may refuse
    Signalled    \* the ports whose neighbours may send gPTP-capable TLVs

(* What a neighbour may send: any vector, with or without a path trace TLV *)
Announce ==
    [root: Nat \X Nat, steps: Nat, src: Nat \X Nat, tlv: [tlv: BOOLEAN, path: Seq(Nat)]]

ASSUME SystemAssumption ==
    /\ Rank \in Nat \ {0} /\ ThisClock \in Nat \ {Zero}
    /\ Surroundings \subseteq [Ports -> SUBSET Announce]
    /\ Lates \subseteq {"no", "sync", "announce"}
    /\ Refused \subseteq Ports /\ Signalled \subseteq Ports

VARIABLES
    sys,
    announces   \* the surroundings of this behaviour

vars == <<sys, announces>>

Choices == {c \in Conditions : c.late \in Lates}

ChoicesOf(p) == {c \in Choices : c.fail => p \in Refused}

Init == sys = Started(Rank, ThisClock) /\ announces \in Surroundings

Becomes(s) == sys' = s /\ UNCHANGED announces

(* gm_stable_time is one timer: all ports find it the same. *)
Timeout ==
    \E cs \in [Ports -> Choices] :
        /\ \A p \in Ports : cs[p].stable = cs[1].stable /\ cs[p] \in ChoicesOf(p)
        /\ Becomes(TimeoutHandler(sys, cs))

RecvAnnounce ==
    \E p \in Ports : \E c \in ChoicesOf(p), a \in announces[p] :
        sys.oper[p] /\ Becomes(AnnounceHandler(sys, p, a, c))

RecvSync ==
    \E p \in Ports : sys.oper[p] /\ Becomes(SyncHandler(sys, p))

DevUp ==
    \E p \in Ports : \E c \in ChoicesOf(p) : ~sys.oper[p] /\ Becomes(DevUpHandler(sys, p, c))

DevDown ==
    \E p \in Ports : sys.oper[p] /\ Becomes(DevDownHandler(sys, p))

(* The peer delay measurement (PdelayReq) finds the neighbour capable or   *)
(* not: at a follow-up, or in another handler of its own, which the next   *)
(* timeout follows up.                                                     *)
RecvRespFup ==
    \E p \in Ports, across \in BOOLEAN :
        sys.oper[p] /\ Becomes(RespFupHandler(sys, p, across))

Measured ==
    \E p \in Ports, across \in BOOLEAN :
        sys.oper[p] /\ Becomes([Begin(sys) EXCEPT !.across[p] = across])

(* gptp_capable_receive_sm sets neighborGptpCapable, or resets it when a   *)
(* TLV arrives after the receipt timeout (Signaling has the machine).      *)
GptpCapable ==
    \E p \in Signalled :
        Becomes([Begin(sys) EXCEPT !.neighbor[p] = ~@])

Next ==
    \/ Timeout
    \/ RecvAnnounce
    \/ RecvSync
    \/ DevUp
    \/ DevDown
    \/ RecvRespFup
    \/ Measured
    \/ GptpCapable

Spec == Init /\ [][Next]_vars

-----------------------------------------------------------------------------
(* The state of the system, between two handlers.                          *)
Vector == Nat \X Nat \X Nat \X Nat \X Nat \X Nat

TypeOK ==
    /\ announces \in Surroundings
    /\ {sys.oper, sys.across, sys.neighbor, sys.asCapable, sys.updtInfo, sys.newInfo,
         sys.deferred} \subseteq [Ports -> BOOLEAN]
    /\ {sys.anyCapable, sys.reselect, sys.gmsync, sys.weAreGm, sys.gmChange,
         sys.gmstable, sys.spins} \subseteq BOOLEAN
    /\ sys.infoIs \in [Ports -> {"Disabled", "Aged", "Mine", "Received"}]
    /\ sys.selected \in [Ports -> {"Disabled", "Master", "Slave", "Passive"}]
    /\ sys.selected0 \in {"Disabled", "Slave", "Passive"}
    /\ sys.stable \in {"Initialize", "Lost", "Unstable", "Stable"}
    /\ sys.gm = None \/ sys.gm \in Vector
    /\ \A p \in Ports : sys.prio[p] = None \/ sys.prio[p] \in Vector
    /\ Len(sys.pathTrace) <= MaxPath
    /\ \A p \in Ports : Len(sys.out[p]) <= 2

Chosen == sys.gm # None

(* At most one port is a slave port (port_state_selection_sm). *)
OneSlave ==
    \A p, q \in Ports : sys.selected[p] = "Slave" /\ sys.selected[q] = "Slave" => p = q

(* The grandmaster is the best of what the ports hold now: information     *)
(* that was aged or disabled is forgotten in the handler that did it.      *)
GmIsBest == Chosen => sys.gm = Best(Candidates(sys))

(* When a handler ends no machine waits: nothing is to be reselected, no   *)
(* announce is left to be processed, no port rests in AGED, and the loop   *)
(* of sm_bmcs_perform has ended.                                           *)
Rests ==
    /\ Chosen => ~sys.reselect
    /\ sys.rcvd = None
    /\ \A p \in Ports : sys.infoIs[p] # "Aged"
    /\ ~sys.spins

SentOn(p) == {sys.out[p][i] : i \in DOMAIN sys.out[p]}

(* Only a capable port announces: no deferred announce is sent "after      *)
(* asCapable has been toggled to false" (gptpnet_cb_timeout).              *)
OnlyCapableAnnounces == \A p \in Ports : SentOn(p) # {} => Up(sys, p)

(* What the neighbour of a master port was told last is the grandmaster    *)
(* that the system has now, however often it has changed and the network   *)
(* has refused an announce: the only ports that may have something untold  *)
(* are one whose next handler finds updtInfo, and one whose last announce  *)
(* the network has not taken yet.  (update_proc, txAnnounce, and the state *)
(* SEND_ANNOUNCE of md_announce_send_sm)                                   *)
NeighborsKnowGm ==
    \A p \in Ports :
        Up(sys, p) /\ sys.selected[p] = "Master" /\ ~sys.updtInfo[p] /\ ~sys.deferred[p] =>
            /\ sys.told[p] # None
            /\ sys.told[p].root = Root(sys.gm) /\ sys.told[p].steps = Steps(sys.gm)

(* The path trace of every announce ends with the clock that sends it and  *)
(* holds no clock twice, or is empty because it is too long: only so an    *)
(* announce that has come round a loop is recognised.                      *)
PathEndsHere ==
    \A p \in Ports : \A a \in SentOn(p) :
        LET path == a.tlv.path
        IN  path # <<>> => /\ path[Len(path)] = ThisClock
                          /\ \A i, j \in DOMAIN path : path[i] = path[j] => i = j

(* "path trace TLV not present, empty pathTrace" (qualifyAnnounce): what   *)
(* is announced then is an empty path trace, not one of zeros.  The code   *)
(* does not keep this, as the surroundings NoPathTrace show in the instance *)
(* of BmcsTwo; no run checks it.                                           *)
NoZeroPath ==
    \A p \in Ports : \A a \in SentOn(p) :
        \A i \in DOMAIN a.tlv.path : a.tlv.path[i] # Zero

=============================================================================
