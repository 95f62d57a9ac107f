----------------------------- MODULE Signaling -----------------------------
(***************************************************************************)
(* The Signaling messages of one port in domain 0: the gPTP-capable TLVs   *)
(* it sends (gptp_capable_transmit_sm, md_signaling_send_sm) and receives  *)
(* (md_signaling_receive_sm, gptp_capable_receive_sm), the interval        *)
(* requests it receives, the four machines that set what such a request    *)
(* may set, and asCapable, which depends on the TLVs received.             *)
(*                                                                         *)
(* Timers count ticks.  The sequence id of md_signaling_send_sm, drawn     *)
(* anew in INITIALIZE and advanced by a send, is left out, and with it the *)
(* difference between its two states.  md_signaling_receive_sm hands on    *)
(* what it is given in every state.                                        *)
(***************************************************************************)
EXTENDS Integers

CONSTANTS
    Interval,   \* logGptpCapableMessageInterval
    Receipt,    \* the receipt timeouts of TLVs: gPtpCapableReceiptTimeout of their intervals
    Initial,    \* initialLogSyncInterval, initialLogAnnounceInterval, ...
    Requested,  \* the values of interval requests but for the special ones
    MaxLag,     \* bound: so many ticks late the daemon may be
    MaxTime     \* bound: the history of TLVs is not kept for longer

ASSUME SignalingAssumption ==
    /\ {Interval, Initial} \subseteq Nat \ {0} /\ MaxLag \in Nat /\ MaxTime \in Nat
    /\ Receipt \subseteq Nat /\ Requested \subseteq Nat \ {0}

Keep == -128          \* do not change the interval
SetInitial == 126     \* back to the initial value
NoRequest == 0
Unset == 0

Requests == Requested \cup {Keep, SetInitial}

VARIABLES
    up,        \* portOper of a port with ptpPortEnabled
    cmlds,     \* receivedNonCMLDSPdelayReq is -1: domainEnabled
    capTx,     \* gptp_capable_transmit_sm; due are the ticks until intervalTimer
    pending,   \* md_signaling_send_sm: stype, whether there is a TLV to send
    sent,      \* the last handler has sent a TLV
    capRx,     \* gptp_capable_receive_sm; left are the ticks until timeoutTime
    neighbor,  \* neighborGptpCapable
    across,    \* asCapableAcrossDomains, from the peer delay measurement
    asCapable,
    set,       \* the interval setting machines
    silent,    \* the neighbour sends nothing any more
    given,     \* history: how many TLVs were given since the port was enabled, and how long ago
    asked      \* history: the last value that was requested of a port that is up

port == <<up, cmlds, across, silent>>
signals == <<capTx, pending, given>>
vars == <<port, signals, sent, capRx, neighbor, asCapable, set, asked>>

-----------------------------------------------------------------------------
(* The transmission of gPTP-capable TLVs.  gives: the last run returned a  *)
(* TLV.                                                                    *)
Enabled == up /\ cmlds

TxOff == [state |-> "NotEnabled", due |-> 0, gives |-> FALSE]

(* Mutant: the interval counts from now. *)
CapTransmit_now ==
    IF ~Enabled THEN TxOff
    ELSE IF capTx.state = "NotEnabled" \/ capTx.due <= 0
    THEN [state |-> "Transmit", due |-> Interval, gives |-> TRUE]
    ELSE [capTx EXCEPT !.gives = FALSE]

(* Mutant: the timer is only looked at for the moment it is due. *)
CapTransmit_exact ==
    IF ~Enabled THEN TxOff
    ELSE IF capTx.state = "NotEnabled" THEN [state |-> "Transmit", due |-> Interval, gives |-> TRUE]
    ELSE IF capTx.due = 0 THEN [capTx EXCEPT !.due = @ + Interval, !.gives = TRUE]
    ELSE [capTx EXCEPT !.gives = FALSE]

(* gptp_capable_transmit_sm *)
CapTransmit ==
    IF ~Enabled THEN TxOff
    ELSE IF capTx.state = "NotEnabled" THEN [state |-> "Transmit", due |-> Interval, gives |-> TRUE]
    ELSE IF capTx.due <= 0 THEN [capTx EXCEPT !.due = @ + Interval, !.gives = TRUE]
    ELSE [capTx EXCEPT !.gives = FALSE]

(* md_signaling_send_sm, with the TLV it may be given and then without one: *)
(* ok says which of the two sends the network takes.  Neither looks at the  *)
(* port: in INITIALIZE a TLV that waits is sent, too.                       *)
SignalingSend(ok) ==
    LET first == capTx'.gives /\ ok[1]
        left == IF capTx'.gives THEN ~ok[1] ELSE pending
    IN  /\ pending' = (left /\ ~ok[2])
        /\ sent' = (first \/ (left /\ ok[2]))

-----------------------------------------------------------------------------
(***************************************************************************)
(* The interval setting machines.  They all enter INITIALIZE, where the    *)
(* request that came with the run is cleared, before they take one.        *)
(***************************************************************************)
Off == [state |-> "NotEnabled", interval |-> Unset]

(* Mutant: 126 is taken for an interval. *)
Effect_plain(m, q) == IF q = Keep THEN m.interval ELSE q

(* set_interval_proc *)
Effect(m, q) == CASE q = Keep -> m.interval [] q = SetInitial -> Initial [] OTHER -> q

(* Mutant: a port that is down takes requests. *)
Setting_anytime(m, enabled, q) ==
    IF ~enabled THEN IF q = NoRequest THEN m ELSE [m EXCEPT !.interval = Effect(m, q)]
    ELSE IF m.state = "NotEnabled" THEN [state |-> "Initialize", interval |-> m.interval]
    ELSE IF q = NoRequest THEN m
    ELSE [state |-> "Set", interval |-> Effect(m, q)]

Setting(m, enabled, q) ==
    IF ~enabled THEN [m EXCEPT !.state = "NotEnabled"]
    ELSE IF m.state = "NotEnabled" THEN [state |-> "Initialize", interval |-> Initial]
    ELSE IF q = NoRequest THEN m
    ELSE [state |-> "Set", interval |-> Effect(m, q)]

(* portEnabled3 is never set, useMgtSettableOneStepTxOper always. *)
PortEnabled3 == FALSE
UseMgtSettableOneStepTxOper == TRUE

(* sync_interval_setting_sm, link_delay_interval_setting_sm, and the two   *)
(* that are never given a request: announce_interval_setting_sm and        *)
(* one_step_tx_oper_setting_sm.                                            *)
SyncSetting(q) == Setting(set.sync, up, q)
LinkDelaySetting(q) == Setting(set.link, up /\ PortEnabled3, q)
AnnounceSetting(oper) == Setting(set.announce, oper, NoRequest)
OneStepSetting == Setting(Off, ~UseMgtSettableOneStepTxOper, NoRequest)

-----------------------------------------------------------------------------
(* set_asCapable *)
SetAsCapable == asCapable' = (across \/ neighbor)

(* gptpnet_cb_timeout, as far as it is about the port *)
Timeout ==
    /\ SetAsCapable
    /\ capTx' = CapTransmit
    /\ \E ok \in [1 .. 2 -> BOOLEAN] : SignalingSend(ok)
    /\ given' = CASE capTx'.state = "NotEnabled" -> [n |-> 0, ago |-> 0]
                  [] capTx'.gives /\ capTx.state = "NotEnabled" -> [n |-> 1, ago |-> 0]
                  [] capTx'.gives /\ capTx.state = "Transmit" /\ given.ago < MaxTime ->
                         [given EXCEPT !.n = @ + 1]
                  [] OTHER -> given
    /\ set' = [set EXCEPT !.announce = AnnounceSetting(up)]
    /\ UNCHANGED <<port, capRx, neighbor, asked>>

(* gptp_capable_receive_sm, which runs when a TLV is received and at no    *)
(* other time: the timeout of the TLV before is looked at when the next    *)
(* one is there.  The receipt timeout is 0 for intervals below 2^-29 s.    *)
CapReceive(receipt) ==
    IF ~Enabled
    THEN capRx' = [capRx EXCEPT !.state = "NotEnabled"] /\ UNCHANGED neighbor
    ELSE /\ capRx' = [state |-> IF receipt = 0 THEN "Initialize" ELSE "ReceivedTlv",
                      left |-> receipt]
         /\ neighbor' = (receipt # 0)

(* gptpnet_cb_recv of SIGNALING, with a gPTP-capable TLV *)
RecvCapable ==
    /\ ~silent
    /\ \E receipt \in Receipt : CapReceive(receipt)
    /\ sent' = FALSE
    /\ UNCHANGED <<port, signals, asCapable, set, asked>>

(* ... and with an interval request *)
RecvRequest ==
    /\ ~silent
    /\ \E q \in Requests :
        /\ set' = [set EXCEPT !.sync = SyncSetting(q), !.link = LinkDelaySetting(q)]
        /\ asked' = CASE up /\ q \in Requested -> q
                      [] up /\ q = SetInitial -> Initial
                      [] OTHER -> asked
    /\ sent' = FALSE
    /\ UNCHANGED <<port, signals, capRx, neighbor, asCapable>>

(* md_pdelay_resp_sm_recv_req with a request of the CMLDS or of the domain *)
RecvPdelayReq ==
    /\ ~silent
    /\ cmlds' \in BOOLEAN /\ sent' = FALSE
    /\ UNCHANGED <<up, across, silent, signals, capRx, neighbor, asCapable, set, asked>>

(* The measurement of the link gets or loses asCapableAcrossDomains; a     *)
(* follow-up has asCapable set at once (gptpnet_cb_recv).                  *)
Measured ==
    /\ across' \in (IF silent THEN {FALSE} ELSE {up, FALSE})
    /\ asCapable' \in {asCapable, across' \/ neighbor}
    /\ sent' = FALSE
    /\ UNCHANGED <<up, cmlds, silent, signals, capRx, neighbor, set, asked>>

DevUp ==
    /\ ~up /\ up' = TRUE
    /\ set' = [set EXCEPT !.announce = AnnounceSetting(TRUE)]
    /\ sent' = FALSE
    /\ UNCHANGED <<cmlds, across, silent, signals, capRx, neighbor, asCapable, asked>>

DevDown ==
    /\ up /\ up' = FALSE
    /\ cmlds' = FALSE /\ across' = FALSE /\ asCapable' = FALSE
    /\ sent' = FALSE
    /\ UNCHANGED <<silent, signals, capRx, neighbor, set, asked>>

Tick ==
    /\ capTx.state = "Transmit" => capTx.due > -MaxLag
    /\ capTx' = IF capTx.state = "Transmit" THEN [capTx EXCEPT !.due = @ - 1, !.gives = FALSE]
                ELSE capTx
    /\ given' = IF capTx.state = "Transmit" /\ given.ago < MaxTime
                THEN [given EXCEPT !.ago = @ + 1] ELSE given
    /\ capRx' = IF capRx.left > 0 THEN [capRx EXCEPT !.left = @ - 1] ELSE capRx
    /\ sent' = FALSE
    /\ UNCHANGED <<port, pending, neighbor, asCapable, set, asked>>

Silence ==
    /\ ~silent /\ silent' = TRUE /\ sent' = FALSE
    /\ UNCHANGED <<up, cmlds, across, signals, capRx, neighbor, asCapable, set, asked>>

Init ==
    /\ up = FALSE /\ cmlds = FALSE /\ across = FALSE /\ silent = FALSE
    /\ capTx = TxOff /\ pending = FALSE /\ sent = FALSE
    /\ capRx = [state |-> "NotEnabled", left |-> 0]
    /\ neighbor = FALSE /\ asCapable = FALSE
    /\ set = [sync |-> [Off EXCEPT !.interval = Initial], link |-> Off, announce |-> Off,
              oneStep |-> OneStepSetting]
    /\ given = [n |-> 0, ago |-> 0] /\ asked = Initial

Next ==
    \/ Timeout
    \/ RecvCapable
    \/ RecvRequest
    \/ RecvPdelayReq
    \/ Measured
    \/ DevUp
    \/ DevDown
    \/ Tick
    \/ Silence

(* The daemon runs its timeouts and time passes; a network that is tried   *)
(* for ever takes a message.                                               *)
Fairness == WF_vars(Tick) /\ WF_vars(Timeout) /\ SF_vars(Timeout /\ sent')

Spec == Init /\ [][Next]_vars /\ Fairness

-----------------------------------------------------------------------------
Machine == [state: {"NotEnabled", "Initialize", "Set"}, interval: Requested \cup {Unset, Initial}]

(* Every variable stays in its range. *)
TypeOK ==
    /\ {up, cmlds, across, silent, pending, sent, neighbor, asCapable} \subseteq BOOLEAN
    /\ capTx \in [state: {"NotEnabled", "Transmit"}, due: -MaxLag .. Interval, gives: BOOLEAN]
    /\ capRx \in [state: {"NotEnabled", "Initialize", "ReceivedTlv"},
                  left: {0} \cup UNION {0 .. r : r \in Receipt}]
    /\ set \in [sync: Machine, link: {Off}, announce: Machine, oneStep: {Off}]
    /\ given \in [n: Nat, ago: 0 .. MaxTime] /\ asked \in Requested \cup {Initial}

(* TLVs do not drift: however late the daemon is called, and whatever the  *)
(* network refuses, the n-th one is due n-1 intervals after the first one  *)
(* (gptp_capable_transmit_sm).                                             *)
NoDrift ==
    capTx.state = "Transmit" /\ given.ago < MaxTime =>
        given.n * Interval = given.ago + capTx.due

(* The interval of Sync is the initial one or the one requested last, also *)
(* when the port went down and up again and requests came in the meantime  *)
(* (sync_interval_setting_sm).                                             *)
IntervalAsked == set.sync.interval \in {Initial, asked}

(* While it is enabled the port goes on sending TLVs, whichever sends fail. *)
Announced == <>[]Enabled => []<>sent

(* A neighbour that is silent for longer than the receipt timeout is not   *)
(* gPTP-capable any more: "10.7.3.3 gPtpCapableReceiptTimeout [...] this   *)
(* number of gPtpCapableMessageInterval cycle time" (gptp_defaults.h).  The *)
(* code does not keep this: only the next TLV is compared with the timeout. *)
(* TLC refutes it; no run checks it.                                       *)
NeighborTimesOut == silent ~> ~neighbor
=============================================================================
