------------------------------ MODULE BmcsCore ------------------------------
(***************************************************************************)
(* The best master clock algorithm of one domain of one time-aware system: *)
(* the state of the system as a record, and the handlers of gptpman.c as   *)
(* operators on it.  Bmcs drives one system with arbitrary announces;      *)
(* several systems can be linked to each other the same way.               *)
(*                                                                         *)
(* A state machine is run until it rests, in one handler: an operator per  *)
(* machine gives the state it rests in.  A priority vector is the tuple    *)
(* <<rank, clock, steps, source clock, source port, receiving port>>,      *)
(* where rank is the place of priority1, clockClass, clockAccuracy,        *)
(* offsetScaledLogVariance and priority2 in the order of memcmp.  Timers   *)
(* are booleans: a handler is told which have expired.                     *)
(*                                                                         *)
(* Not here: external port configuration, static port states, the initial  *)
(* slave time and the deferred gmsync of the other domains, asymmetry      *)
(* measurement.                                                            *)
(***************************************************************************)
EXTENDS PriorityVectors, Sequences

CONSTANTS
    NumPorts,     \* ports 1 .. NumPorts of a system; port 0 is its clock
    MaxPath,      \* MAX_PATH_TRACE_N
    NotGmRank,    \* the rank of a system whose priority1 is 255
    QuickUpdate   \* CONF_BMCS_QUICK_UPDATE_MODE

ASSUME BmcsAssumption ==
    /\ NumPorts \in Nat \ {0} /\ MaxPath \in Nat \ {0} /\ NotGmRank \in Nat
    /\ QuickUpdate \in BOOLEAN

Ports == 1 .. NumPorts

Better(v, w) == Before(v, w, 6)
Root(v) == <<v[1], v[2]>>
Steps(v) == v[3]
Source(v) == <<v[4], v[5]>>

None == <<>>         \* no announce, no priority vector
Zero == 0            \* the clock identity of all zeros
NoTlv == [tlv |-> FALSE, path |-> <<>>]
Tlv(path) == [tlv |-> TRUE, path |-> path]

(***************************************************************************)
(* An announce: the vector without its receiving port, and its path trace. *)
(***************************************************************************)
MessagePriority(a, p) ==
    <<a.root[1], a.root[2], a.steps, a.src[1], a.src[2], p>>

(***************************************************************************)
(* A system that was started: the machines have run once, the reselect     *)
(* flag is the one the DISABLED states of the ports have set.              *)
(***************************************************************************)
Started(rank, me) ==
    [system |-> <<rank, me, 0, me, 0, 0>>,
     oper |-> [p \in Ports |-> FALSE], across |-> [p \in Ports |-> FALSE],
     neighbor |-> [p \in Ports |-> FALSE], asCapable |-> [p \in Ports |-> FALSE],
     anyCapable |-> FALSE,
     tlv |-> [p \in Ports |-> NoTlv], rcvd |-> None,
     infoIs |-> [p \in Ports |-> "Disabled"], prio |-> [p \in Ports |-> None],
     annPath |-> [p \in Ports |-> <<>>], updtInfo |-> [p \in Ports |-> FALSE],
     reselect |-> TRUE, selected |-> [p \in Ports |-> "Disabled"], selected0 |-> "Disabled",
     gm |-> None, gmIdentity |-> me, pathTrace |-> <<me>>,
     newInfo |-> [p \in Ports |-> TRUE], tx |-> [p \in Ports |-> None],
     deferred |-> [p \in Ports |-> FALSE], out |-> [p \in Ports |-> <<>>],
     told |-> [p \in Ports |-> None],
     gmsync |-> FALSE, weAreGm |-> FALSE,
     stable |-> "Initialize", gmChange |-> FALSE, stableClock |-> Zero, gmstable |-> FALSE,
     spins |-> FALSE]

Me(s) == s.system[2]
Up(s, p) == s.oper[p] /\ s.asCapable[p]
GmPresent(s) == s.gm # None /\ s.gm[1] # NotGmRank

-----------------------------------------------------------------------------
(***************************************************************************)
(* gmsync and gm_stable_sm.                                                *)
(***************************************************************************)
SetGmSync(s, becomeGM) ==
    IF s.gmsync THEN s ELSE [s EXCEPT !.gmsync = TRUE, !.weAreGm = becomeGM]

ResetGmSync(s) == [s EXCEPT !.gmsync = FALSE]

GmLost(s) ==
    IF s.gmsync THEN [s EXCEPT !.gmChange = FALSE, !.stable = "Unstable", !.gmstable = FALSE]
    ELSE [s EXCEPT !.gmChange = FALSE, !.stable = "Lost"]

GmUnstable(s, expired) ==
    IF expired THEN LET t == [s EXCEPT !.stable = "Stable", !.gmstable = TRUE]
                    IN  IF s.gmChange THEN GmLost(t) ELSE t
    ELSE IF s.gmChange THEN GmLost(s) ELSE s

(* gm_stable_sm; expired tells that gm_stable_time has passed. *)
GmStableSM(s, expired) ==
    IF ~s.anyCapable
    THEN IF s.stable = "Initialize" THEN s
         ELSE LET t == [s EXCEPT !.stable = "Initialize", !.gmstable = FALSE]
              IN  IF s.selected0 # "Slave" THEN ResetGmSync(t) ELSE t
    ELSE CASE s.stable = "Initialize" ->
                  IF s.gmsync THEN GmUnstable([s EXCEPT !.stable = "Unstable", !.gmstable = FALSE], FALSE)
                  ELSE s
           [] s.stable = "Lost" -> IF s.gmsync THEN GmLost(s) ELSE s
           [] s.stable = "Unstable" -> GmUnstable(s, expired)
           [] s.stable = "Stable" -> IF s.gmChange THEN GmLost(s) ELSE s

(* The grandmaster has changed: gm_stable_gm_change, then ClockSourceReq,  *)
(* which sets gmsync whether or not a Sync has arrived.                    *)
GmChanged(s, expired) ==
    LET clock == s.gm[2]
        t == [s EXCEPT !.stableClock = clock, !.gmChange = TRUE]
    IN  SetGmSync(IF s.stableClock = clock THEN s ELSE GmStableSM(t, expired), FALSE)

-----------------------------------------------------------------------------
(***************************************************************************)
(* port_state_selection_sm                                                 *)
(***************************************************************************)

(* The vectors gmPriority is chosen from: a port whose information is its  *)
(* own or has aged offers none.                                            *)
PathPriority(s, p) == [s.prio[p] EXCEPT ![3] = @ + 1]
Offers(s, p) == s.infoIs[p] = "Received" /\ s.prio[p][4] # Me(s)
Candidates(s) == {s.system} \cup {PathPriority(s, p) : p \in {q \in Ports : Offers(s, q)}}

Best(vectors) == CHOOSE v \in vectors : \A w \in vectors \ {v} : Better(v, w)

MasterPriority(s, p) == <<s.gm[1], s.gm[2], s.gm[3], Me(s), p, p>>

(* Mutant: the port whose grandmaster is chosen is a slave port, however   *)
(* many steps away.                                                        *)
NewState_tie(s, p) ==
    CASE s.infoIs[p] = "Disabled" -> "Disabled"
      [] s.infoIs[p] \in {"Aged", "Mine"} -> "Master"
      [] s.infoIs[p] = "Received" ->
             IF Root(s.prio[p]) = Root(s.gm) THEN "Slave"
             ELSE IF Better(MasterPriority(s, p), s.prio[p]) THEN "Master" ELSE "Passive"

(* portStateUpdate, when s has the new gmPriority *)
NewState(s, p) ==
    CASE s.infoIs[p] = "Disabled" -> "Disabled"
      [] s.infoIs[p] \in {"Aged", "Mine"} -> "Master"
      [] s.infoIs[p] = "Received" ->
             IF PathPriority(s, p) = s.gm THEN "Slave"
             ELSE IF Better(MasterPriority(s, p), s.prio[p]) THEN "Master" ELSE "Passive"

NewUpdtInfo(s, p) ==
    CASE s.infoIs[p] = "Aged" -> TRUE
      [] s.infoIs[p] = "Mine" -> s.updtInfo[p] \/ MasterPriority(s, p) # s.prio[p]
      [] s.infoIs[p] = "Disabled" -> FALSE
      [] s.infoIs[p] = "Received" -> NewState(s, p) = "Master"

(* Mutant: one entry too many. *)
Traced_long(path, me) ==
    LET N == IF Len(path) < MaxPath THEN Len(path) ELSE MaxPath
    IN  IF N <= MaxPath THEN Append(SubSeq(path, 1, N), me) ELSE <<>>

(* The path trace with thisClock appended, or none over the limit *)
Traced(path, me) ==
    LET N == IF Len(path) < MaxPath THEN Len(path) ELSE MaxPath
    IN  IF N + 1 <= MaxPath THEN Append(SubSeq(path, 1, N), me) ELSE <<>>

PathTraceOf(s, old) ==
    LET slaves == {p \in Ports : s.selected[p] = "Slave" /\ old[p] # "Slave"}
    IN  IF s.gm[2] = Me(s) THEN <<Me(s)>>
        ELSE IF slaves # {} THEN Traced(s.annPath[CHOOSE p \in slaves : TRUE], Me(s))
        ELSE s.pathTrace

(* updtStatesTree, but for the announcement of a changed grandmaster *)
UpdtStatesTree(s) ==
    LET g == [s EXCEPT !.gm = Best(Candidates(s)), !.reselect = FALSE]
        t == [g EXCEPT !.selected = [p \in Ports |-> NewState(g, p)],
                       !.updtInfo = [p \in Ports |-> NewUpdtInfo(g, p)],
                       !.gmsync = @ /\ ~\E p \in Ports : s.selected[p] = "Slave" /\ NewState(g, p) # "Slave",
                       !.selected0 = IF \E p \in Ports : NewState(g, p) = "Slave" THEN "Passive"
                                     ELSE "Slave"]
        u == [t EXCEPT !.pathTrace = PathTraceOf(t, s.selected)]
    IN  IF t.selected0 = s.selected0 THEN u
        ELSE IF t.selected0 = "Slave" THEN SetGmSync(u, TRUE) ELSE ResetGmSync(u)

(* The machine acts when a port asks for it. *)
StateSelection(s, expired) ==
    IF ~s.reselect THEN s
    ELSE LET t == UpdtStatesTree(s) IN IF t.gm # s.gm THEN GmChanged(t, expired) ELSE t

-----------------------------------------------------------------------------
(***************************************************************************)
(* port_announce_information_sm.  late is what has expired of the receipt  *)
(* timers of the port: "no", "sync", "announce".                           *)
(***************************************************************************)
(* Mutants: the selection is not told. *)
InfoDisabled_silent(s, p) == [s EXCEPT !.rcvd = None, !.infoIs[p] = "Disabled"]

Aged_silent(s, p) ==
    [s EXCEPT !.infoIs[p] = "Aged", !.annPath[p] = <<>>, !.gmIdentity = Me(s)]

InfoDisabled(s, p) ==
    [s EXCEPT !.rcvd = None, !.infoIs[p] = "Disabled", !.reselect = TRUE]

Aged(s, p) ==
    [s EXCEPT !.infoIs[p] = "Aged", !.reselect = TRUE,
              !.annPath[p] = <<>>, !.gmIdentity = Me(s)]

(* Mutant: the changed information is not announced. *)
Update_quiet(s, p) ==
    [s EXCEPT !.prio[p] = MasterPriority(s, p), !.updtInfo[p] = FALSE, !.infoIs[p] = "Mine"]

Update(s, p) ==
    [s EXCEPT !.prio[p] = MasterPriority(s, p), !.updtInfo[p] = FALSE, !.infoIs[p] = "Mine",
              !.newInfo[p] = TRUE]

Superior(s, p) ==
    [s EXCEPT !.prio[p] = MessagePriority(s.rcvd, p), !.annPath[p] = s.tlv[p].path,
              !.gmIdentity = s.rcvd.root[2], !.infoIs[p] = "Received", !.reselect = TRUE,
              !.rcvd = None]

Expired(s, p, late) ==
    s.infoIs[p] = "Received" /\ (late = "announce" \/ (late = "sync" /\ GmPresent(s)))

(* RECEIVE and what follows it, back to CURRENT *)
Receive(s, p, late) ==
    LET message == MessagePriority(s.rcvd, p)
        done == [s EXCEPT !.rcvd = None]
    IN  IF s.selected[p] # "Disabled" /\ message # s.prio[p] /\ Better(message, s.prio[p])
        THEN Superior(s, p)
        ELSE IF s.selected[p] # "Disabled" /\ message = s.prio[p]
        THEN IF Expired(s, p, IF late = "announce" THEN "no" ELSE late) THEN Aged(done, p) ELSE done
        ELSE IF (QuickUpdate /\ Source(message) = Source(s.prio[p])) \/ Expired(s, p, late)
        THEN Aged(done, p)
        ELSE done

(* CURRENT, once updtInfo is served *)
Current(s, p, late) ==
    IF s.rcvd # None THEN Receive(s, p, late)
    ELSE IF Expired(s, p, late) THEN Aged(s, p) ELSE s

InfoSM(s, p, late) ==
    IF s.infoIs[p] # "Disabled" /\ ~Up(s, p) THEN InfoDisabled(s, p)
    ELSE IF s.infoIs[p] = "Disabled" THEN IF Up(s, p) THEN Aged(s, p) ELSE s
    ELSE Current(IF s.updtInfo[p] THEN Update(s, p) ELSE s, p, late)

-----------------------------------------------------------------------------
(***************************************************************************)
(* port_announce_transmit_sm and md_announce_send_sm.  due tells that the  *)
(* announce interval of the port is over, fail that the network does not   *)
(* take the message (gptpnet_send).                                        *)
(***************************************************************************)
TxAnnounce(s) == [root |-> Root(s.gm), steps |-> Steps(s.gm), tlv |-> Tlv(s.pathTrace)]

(* out is what a handler has sent on a port; told, the last announce that  *)
(* has left the port since its link is up, is kept for a property only.    *)
Sent(s, p, fail) ==
    IF fail THEN [s EXCEPT !.deferred[p] = TRUE]
    ELSE [s EXCEPT !.deferred[p] = FALSE,
                   !.out[p] = Append(@, s.tx[p]), !.told[p] = s.tx[p]]

(* Mutant: while an announce is put off the port makes no other one. *)
Transmit_keeps(s, p, due, fail) ==
    LET t == [s EXCEPT !.newInfo[p] = @ \/ ~s.asCapable[p] \/ (due /\ s.selected[p] = "Master")]
    IN  IF s.asCapable[p] /\ t.newInfo[p] /\ s.selected[p] = "Master" /\ ~s.updtInfo[p]
        THEN Sent([t EXCEPT !.newInfo[p] = FALSE,
                            !.tx[p] = IF s.deferred[p] THEN @ ELSE TxAnnounce(s)], p, fail)
        ELSE t

(* A port is enabled here when it is capable: when it is not, it has been  *)
(* disabled by InfoSM before, and is no master port.                       *)
Transmit(s, p, due, fail) ==
    LET t == [s EXCEPT !.newInfo[p] = @ \/ ~s.asCapable[p] \/ (due /\ s.selected[p] = "Master")]
    IN  IF s.asCapable[p] /\ t.newInfo[p] /\ s.selected[p] = "Master" /\ ~s.updtInfo[p]
        THEN Sent([t EXCEPT !.newInfo[p] = FALSE, !.tx[p] = TxAnnounce(s)], p, fail)
        ELSE t

(* Mutant: the port is not looked at again. *)
SendDeferred_blind(s, p, fail) == IF s.deferred[p] THEN Sent(s, p, fail) ELSE s

(* md_announce_send_sm in the timeout: a message that was not taken is     *)
(* sent again, or dropped when the port is not capable any more.           *)
SendDeferred(s, p, fail) ==
    IF ~Up(s, p) THEN [s EXCEPT !.deferred[p] = FALSE]
    ELSE IF s.deferred[p] THEN Sent(s, p, fail) ELSE s

(* sm_bmcs_perform: the information and the selection machine run again as *)
(* long as the port has information to update; spins tells that two rounds *)
(* were not enough.                                                        *)
Round(s, p, c) == StateSelection(InfoSM(s, p, c.late), c.stable)

Perform(s, p, c) ==
    LET once == Round(s, p, c)
        twice == IF once.updtInfo[p] THEN Round(once, p, c) ELSE once
    IN  Transmit([twice EXCEPT !.spins = twice.updtInfo[p]], p, c.due, c.fail)

-----------------------------------------------------------------------------
(***************************************************************************)
(* The handlers of gptpman.c.  Each starts with nothing sent.  c is what   *)
(* one finds of the timers of a port, of gm_stable_time and of the network.*)
(***************************************************************************)
Conditions ==
    [late: {"no", "sync", "announce"}, due: BOOLEAN, fail: BOOLEAN, stable: BOOLEAN]

Begin(s) == [s EXCEPT !.out = [p \in Ports |-> <<>>]]

(* set_asCapable *)
SetAsCapable(s, p) == [s EXCEPT !.asCapable[p] = s.across[p] \/ s.neighbor[p]]

(* What a timeout does for one port *)
Visit(s, p, c) ==
    LET t == SetAsCapable(s, p)
        u == [t EXCEPT !.anyCapable = @ \/ t.asCapable[p]]
    IN  Perform(SendDeferred(u, p, c.fail), p, c)

(* A Sync of our own clock (clock_master_sync_send_sm): it sets gmsync,    *)
(* which a grandmaster has set already.  On another system it may make     *)
(* site_sync_sync_sm repeat the last Sync of its slave port, which sets    *)
(* gmsync, too; but that is set as long as there is a slave port.          *)
OwnSync(s) == IF s.selected0 = "Slave" /\ GmPresent(s) THEN SetGmSync(s, FALSE) ELSE s

(* gptpnet_cb_timeout; cs gives the conditions of each port.  When         *)
(* gm_stable_sm has been told of another grandmaster, its time starts anew.*)
TimeoutHandler(s, cs) ==
    LET start == [OwnSync(Begin(s)) EXCEPT !.anyCapable = FALSE]
        after[n \in 0 .. NumPorts] == IF n = 0 THEN start ELSE Visit(after[n - 1], n, cs[n])
        told == after[NumPorts].stableClock # s.stableClock
    IN  GmStableSM(after[NumPorts], cs[1].stable /\ ~told)

(* gptpnet_cb_devup, a full duplex link of 100 Mbps or more *)
DevUpHandler(s, p, c) == Perform([Begin(s) EXCEPT !.oper[p] = TRUE], p, c)

(* gptpnet_cb_devdown *)
DevDownHandler(s, p) ==
    [Begin(s) EXCEPT !.oper[p] = FALSE, !.across[p] = FALSE, !.asCapable[p] = FALSE,
                    !.told[p] = None]

(* gptpnet_cb_recv of PDELAY_RESP_FOLLOW_UP, after its state machine has   *)
(* set asCapableAcrossDomains to across                                    *)
RespFupHandler(s, p, across) ==
    LET t == SetAsCapable([Begin(s) EXCEPT !.across[p] = across], p)
    IN  [t EXCEPT !.anyCapable = t.asCapable[p]]

(* md_announce_receive_sm: a message without a path trace TLV leaves the   *)
(* TLV of an earlier one in the buffer of the port.                        *)
Decomposed(s, p, a) == [s EXCEPT !.tlv[p] = IF a.tlv.tlv THEN a.tlv ELSE @]

(* Mutant: the path trace is not searched for thisClock. *)
Qualified_anyPath(s, p, a) == a.src[1] # Me(s) /\ a.steps < 255

(* qualifyAnnounce, and the path trace it updates *)
Qualified(s, p, a) ==
    /\ a.src[1] # Me(s) /\ a.steps < 255
    /\ s.tlv[p].tlv => \A i \in DOMAIN s.tlv[p].path : i > MaxPath \/ s.tlv[p].path[i] # Me(s)

Qualify(s, p, a) ==
    IF ~Qualified(s, p, a) THEN s
    ELSE IF ~s.tlv[p].tlv
    THEN [s EXCEPT !.rcvd = a, !.pathTrace = [i \in DOMAIN @ |-> Zero]]
    ELSE IF s.selected[p] = "Slave"
    THEN [s EXCEPT !.rcvd = a, !.pathTrace = Traced(s.tlv[p].path, Me(s))]
    ELSE [s EXCEPT !.rcvd = a]

(* gptpnet_cb_recv of ANNOUNCE *)
AnnounceHandler(s, p, a, c) ==
    LET d == Decomposed(Begin(s), p, a)
    IN  Perform(IF Up(s, p) THEN Qualify(d, p, a) ELSE d, p, c)

(* A Sync with its Follow_Up is passed on by site_sync_sync_sm only from a *)
(* slave port, and sets gmsync (portSyncSync_for_all).                     *)
SyncHandler(s, p) ==
    IF Up(s, p) /\ s.selected[p] = "Slave" /\ GmPresent(s)
    THEN SetGmSync(Begin(s), FALSE)
    ELSE Begin(s)
=============================================================================
