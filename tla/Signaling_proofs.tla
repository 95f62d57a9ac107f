-------------------------- MODULE Signaling_proofs --------------------------
(***************************************************************************)
(* Proofs about the Signaling messages of one port: its types, that the    *)
(* TLVs it sends do not drift, and that it uses the interval asked for.    *)
(***************************************************************************)
EXTENDS Signaling, TLAPS

(* What a run of gptp_capable_transmit_sm may leave. *)
Transmitter == [state: {"NotEnabled", "Transmit"}, due: -MaxLag .. Interval, gives: BOOLEAN]

(* The machine that transmits TLVs keeps its type. *)
LEMMA CapTransmitLemma ==
    ASSUME TypeOK
    PROVE  /\ CapTransmit \in Transmitter
           /\ capTx.state = "NotEnabled" /\ CapTransmit.state = "Transmit" =>
                  CapTransmit.gives /\ CapTransmit.due = Interval
           /\ capTx.state = "Transmit" /\ CapTransmit.state = "Transmit" =>
                  CapTransmit.due = capTx.due + (IF CapTransmit.gives THEN Interval ELSE 0)
<1>1. capTx \in Transmitter
  BY DEF TypeOK, Transmitter
<1>2. Interval \in Nat \ {0} /\ MaxLag \in Nat
  BY SignalingAssumption
<1>3. CASE ~Enabled
  BY <1>1, <1>2, <1>3 DEF CapTransmit, TxOff, Transmitter
<1>4. CASE Enabled /\ capTx.state = "NotEnabled"
  BY <1>1, <1>2, <1>4 DEF CapTransmit, Transmitter
<1>5. CASE Enabled /\ capTx.state = "Transmit" /\ capTx.due <= 0
  <2>1. CapTransmit = [capTx EXCEPT !.due = capTx.due + Interval, !.gives = TRUE]
    BY <1>5 DEF CapTransmit
  <2>2. capTx.due + Interval \in -MaxLag .. Interval
    BY <1>1, <1>2, <1>5 DEF Transmitter
  <2>3. CapTransmit \in Transmitter
    BY <1>1, <2>1, <2>2, Zenon DEF Transmitter
  <2>4. CapTransmit.due = capTx.due + Interval /\ CapTransmit.gives
    BY <1>1, <2>1 DEF Transmitter
  <2> QED
    BY <1>5, <2>3, <2>4
<1>6. CASE Enabled /\ capTx.state = "Transmit" /\ ~(capTx.due <= 0)
  <2>1. CapTransmit = [capTx EXCEPT !.gives = FALSE]
    BY <1>6 DEF CapTransmit
  <2>2. CapTransmit \in Transmitter
    BY <1>1, <2>1, Zenon DEF Transmitter
  <2>3. CapTransmit.due = capTx.due /\ ~CapTransmit.gives /\ capTx.due \in Int
    BY <1>1, <1>2, <2>1 DEF Transmitter
  <2> QED
    BY <1>6, <2>2, <2>3
<1> QED
  BY <1>1, <1>3, <1>4, <1>5, <1>6 DEF Transmitter

(* An interval setting machine keeps its type, whatever is requested. *)
LEMMA SettingLemma ==
    ASSUME NEW m \in Machine, NEW enabled \in BOOLEAN, NEW q \in Requests \cup {NoRequest}
    PROVE  Setting(m, enabled, q) \in Machine
<1>1. Effect(m, q) \in Requested \cup {Unset, Initial} \/ q = NoRequest
  BY DEF Effect, Requests, Machine
<1> QED
  BY <1>1 DEF Setting, Machine

(* The machine of link_delay_interval_setting_sm and that of               *)
(* one_step_tx_oper_setting_sm stay as they start.                         *)
LEMMA OffLemma ==
    ASSUME NEW q PROVE Setting(Off, FALSE, q) = Off
  BY DEF Setting, Off

-----------------------------------------------------------------------------
(* The types hold at first. *)
LEMMA TypeInit == Init => TypeOK
<1> SUFFICES ASSUME Init PROVE TypeOK
  OBVIOUS
<1>1. Interval \in Nat \ {0} /\ MaxLag \in Nat /\ MaxTime \in Nat
  BY SignalingAssumption
<1>2. OneStepSetting = Off
  BY OffLemma DEF OneStepSetting, UseMgtSettableOneStepTxOper
<1>3. Off \in Machine /\ [Off EXCEPT !.interval = Initial] \in Machine
  BY DEF Off, Machine
<1>4. set \in [sync: Machine, link: {Off}, announce: Machine, oneStep: {Off}]
  BY <1>2, <1>3, Zenon DEF Init
<1>5. capTx \in [state: {"NotEnabled", "Transmit"}, due: -MaxLag .. Interval, gives: BOOLEAN]
  BY <1>1 DEF Init, TxOff
<1>6. given \in [n: Nat, ago: 0 .. MaxTime]
  BY <1>1 DEF Init
<1> QED
  BY <1>4, <1>5, <1>6, Zenon DEF Init, TypeOK

(* Every step keeps them. *)
LEMMA TypeStep == TypeOK /\ [Next]_vars => TypeOK'
<1> SUFFICES ASSUME TypeOK, [Next]_vars PROVE TypeOK'
  OBVIOUS
<1>1. CASE Timeout
  <2>1. capTx' \in Transmitter
    BY <1>1, CapTransmitLemma DEF Timeout
  <2>2. pending' \in BOOLEAN /\ sent' \in BOOLEAN
    BY <1>1 DEF Timeout, SignalingSend
  <2>3. given' \in [n: Nat, ago: 0 .. MaxTime]
    <3>1. [given EXCEPT !.n = @ + 1] \in [n: Nat, ago: 0 .. MaxTime]
      BY DEF TypeOK
    <3>2. {[n |-> 0, ago |-> 0], [n |-> 1, ago |-> 0]} \subseteq [n: Nat, ago: 0 .. MaxTime]
      BY SignalingAssumption
    <3> QED
      BY <1>1, <3>1, <3>2 DEF Timeout, TypeOK
  <2>4. set' \in [sync: Machine, link: {Off}, announce: Machine, oneStep: {Off}]
    <3>1. AnnounceSetting(up) \in Machine
      BY SettingLemma DEF TypeOK, AnnounceSetting
    <3> QED
      BY <1>1, <3>1, Zenon DEF Timeout, TypeOK
  <2>5. asCapable' \in BOOLEAN
    BY <1>1 DEF Timeout, SetAsCapable
  <2> QED
    BY <1>1, <2>1, <2>2, <2>3, <2>4, <2>5 DEF Timeout, TypeOK, Transmitter, port
<1>2. CASE RecvCapable
  <2>1. PICK receipt \in Receipt : CapReceive(receipt)
    BY <1>2 DEF RecvCapable
  <2>2. /\ capRx' \in [state: {"NotEnabled", "Initialize", "ReceivedTlv"},
                       left: {0} \cup UNION {0 .. r : r \in Receipt}]
        /\ neighbor' \in BOOLEAN
    <3>1. CASE ~Enabled
      BY <2>1, <3>1, Zenon DEF CapReceive, TypeOK
    <3>2. CASE Enabled
      <4>1. receipt \in 0 .. receipt
        BY SignalingAssumption
      <4> QED
        BY <2>1, <3>2, <4>1 DEF CapReceive
    <3> QED
      BY <3>1, <3>2
  <2> QED
    BY <1>2, <2>2 DEF RecvCapable, TypeOK, port, signals
<1>3. CASE RecvRequest
  <2>1. PICK q \in Requests :
            /\ set' = [set EXCEPT !.sync = SyncSetting(q), !.link = LinkDelaySetting(q)]
            /\ asked' = CASE up /\ q \in Requested -> q
                          [] up /\ q = SetInitial -> Initial
                          [] OTHER -> asked
    BY <1>3 DEF RecvRequest
  <2>2. SyncSetting(q) \in Machine
    BY SettingLemma DEF TypeOK, SyncSetting
  <2>3. LinkDelaySetting(q) = Off
    BY OffLemma DEF LinkDelaySetting, PortEnabled3, TypeOK
  <2>4. set' \in [sync: Machine, link: {Off}, announce: Machine, oneStep: {Off}]
    BY <2>1, <2>2, <2>3, Zenon DEF TypeOK
  <2>5. asked' \in Requested \cup {Initial}
    BY <2>1 DEF TypeOK
  <2> QED
    BY <1>3, <2>4, <2>5 DEF RecvRequest, TypeOK, port, signals
<1>4. CASE RecvPdelayReq
  BY <1>4 DEF RecvPdelayReq, TypeOK, signals
<1>5. CASE Measured
  BY <1>5 DEF Measured, TypeOK, signals
<1>6. CASE DevUp
  <2>1. AnnounceSetting(TRUE) \in Machine
    BY SettingLemma DEF TypeOK, AnnounceSetting
  <2>2. set' \in [sync: Machine, link: {Off}, announce: Machine, oneStep: {Off}]
    BY <1>6, <2>1, Zenon DEF DevUp, TypeOK
  <2> QED
    BY <1>6, <2>2 DEF DevUp, TypeOK, signals
<1>7. CASE DevDown
  BY <1>7 DEF DevDown, TypeOK, signals
<1>8. CASE Tick
  <2>1. capTx' \in Transmitter
    <3>1. CASE capTx.state = "Transmit"
      <4>1. capTx.due - 1 \in -MaxLag .. Interval
        BY <1>8, <3>1, SignalingAssumption DEF Tick, TypeOK
      <4> QED
        BY <1>8, <3>1, <4>1, Zenon DEF Tick, TypeOK, Transmitter
    <3> QED
      BY <1>8, <3>1 DEF Tick, TypeOK, Transmitter
  <2>2. given' \in [n: Nat, ago: 0 .. MaxTime]
    <3>1. given.ago < MaxTime => given.ago + 1 \in 0 .. MaxTime
      BY SignalingAssumption DEF TypeOK
    <3> QED
      BY <1>8, <3>1 DEF Tick, TypeOK
  <2>3. capRx' \in [state: {"NotEnabled", "Initialize", "ReceivedTlv"},
                   left: {0} \cup UNION {0 .. r : r \in Receipt}]
    <3>1. capRx.left > 0 => capRx.left - 1 \in UNION {0 .. r : r \in Receipt}
      BY SignalingAssumption DEF TypeOK
    <3> QED
      BY <1>8, <3>1 DEF Tick, TypeOK
  <2> QED
    BY <1>8, <2>1, <2>2, <2>3 DEF Tick, TypeOK, Transmitter, port
<1>9. CASE Silence
  BY <1>9 DEF Silence, TypeOK, signals
<1>10. CASE UNCHANGED vars
  BY <1>10 DEF vars, port, signals, TypeOK
<1> QED
  BY <1>1, <1>2, <1>3, <1>4, <1>5, <1>6, <1>7, <1>8, <1>9, <1>10 DEF Next

(* The types of the port, for every interval, every receipt timeout and    *)
(* every lateness of the daemon (TypeOK).                                  *)
THEOREM TypeCorrect == Spec => []TypeOK
  BY TypeInit, TypeStep, PTL DEF Spec

-----------------------------------------------------------------------------
(* The count of TLVs agrees with the timer after every step.               *)
LEMMA DriftStep == TypeOK /\ NoDrift /\ [Next]_vars => NoDrift'
<1> SUFFICES ASSUME TypeOK, NoDrift, [Next]_vars PROVE NoDrift'
  OBVIOUS
<1>1. Interval \in Nat /\ MaxTime \in Nat /\ given.n \in Nat /\ given.ago \in Nat /\ capTx.due \in Int
  BY SignalingAssumption DEF TypeOK
<1>2. CASE Timeout
  <2>1. capTx' = CapTransmit
    BY <1>2 DEF Timeout
  <2>2. CASE capTx.state = "NotEnabled" /\ capTx'.state = "Transmit"
    <3>1. given' = [n |-> 1, ago |-> 0] /\ capTx'.due = Interval
      BY <1>2, <2>1, <2>2, CapTransmitLemma DEF Timeout
    <3> QED
      BY <1>1, <3>1 DEF NoDrift
  <2>3. CASE capTx.state = "Transmit" /\ capTx'.state = "Transmit" /\ capTx'.gives
    <3>1. capTx'.due = capTx.due + Interval
      BY <2>1, <2>3, CapTransmitLemma
    <3>2. given' = IF given.ago < MaxTime THEN [given EXCEPT !.n = @ + 1] ELSE given
      BY <1>2, <2>3 DEF Timeout
    <3>3. given'.ago = given.ago /\ (given.ago < MaxTime => given'.n = given.n + 1)
      BY <3>2 DEF TypeOK
    <3>4. (given.n + 1) * Interval = given.n * Interval + Interval
      BY <1>1
    <3>5. given.n * Interval \in Int
      BY <1>1
    <3> QED
      BY <1>1, <2>3, <3>1, <3>3, <3>4, <3>5 DEF NoDrift
  <2>4. CASE capTx.state = "Transmit" /\ capTx'.state = "Transmit" /\ ~capTx'.gives
    <3>1. capTx'.due = capTx.due
      BY <1>1, <2>1, <2>4, CapTransmitLemma
    <3>2. given' = given
      BY <1>2, <2>4 DEF Timeout
    <3> QED
      BY <2>4, <3>1, <3>2 DEF NoDrift
  <2>5. CASE capTx'.state # "Transmit"
    BY <2>5 DEF NoDrift
  <2> QED
    BY <2>2, <2>3, <2>4, <2>5 DEF TypeOK
<1>3. CASE Tick
  <2>1. CASE capTx.state = "Transmit" /\ given.ago < MaxTime
    <3>1. /\ given'.n = given.n /\ given'.ago = given.ago + 1
          /\ capTx'.state = "Transmit" /\ capTx'.due = capTx.due - 1
      BY <1>3, <2>1 DEF Tick, TypeOK
    <3> QED
      BY <1>1, <2>1, <3>1 DEF NoDrift
  <2>2. CASE capTx.state # "Transmit" \/ ~(given.ago < MaxTime)
    BY <1>3, <2>2 DEF Tick, TypeOK, NoDrift
  <2> QED
    BY <2>1, <2>2
<1>4. CASE UNCHANGED <<capTx, given>>
  BY <1>4 DEF NoDrift
<1> QED
  BY <1>2, <1>3, <1>4
  DEF Next, RecvCapable, RecvRequest, RecvPdelayReq, Measured, DevUp, DevDown, Silence, signals, vars

(* TLVs do not drift (NoDrift), for every interval, every lateness of the  *)
(* daemon and every behaviour of the network.                              *)
THEOREM TlvsDoNotDrift == Spec => []NoDrift
<1>1. Init => NoDrift
  BY DEF Init, NoDrift, TxOff
<1> QED
  BY <1>1, DriftStep, TypeCorrect, PTL DEF Spec

(* Only a request to a port that is up changes the interval of Sync.       *)
LEMMA IntervalStep == TypeOK /\ IntervalAsked /\ [Next]_vars => IntervalAsked'
<1> SUFFICES ASSUME TypeOK, IntervalAsked, [Next]_vars PROVE IntervalAsked'
  OBVIOUS
<1>1. CASE RecvRequest
  <2>1. PICK q \in Requests :
            /\ set' = [set EXCEPT !.sync = SyncSetting(q), !.link = LinkDelaySetting(q)]
            /\ asked' = CASE up /\ q \in Requested -> q
                          [] up /\ q = SetInitial -> Initial
                          [] OTHER -> asked
    BY <1>1 DEF RecvRequest
  <2>2. set'.sync = Setting(set.sync, up, q)
    BY <2>1 DEF TypeOK, SyncSetting
  <2>3. CASE ~up
    BY <2>1, <2>2, <2>3 DEF Setting, IntervalAsked, TypeOK, Machine
  <2>4. CASE up /\ set.sync.state = "NotEnabled"
    BY <2>2, <2>4 DEF Setting, IntervalAsked
  <2>5. CASE up /\ set.sync.state # "NotEnabled"
    <3>1. q # NoRequest
      BY SignalingAssumption DEF Requests, NoRequest, Keep, SetInitial
    <3>2. set'.sync.interval = Effect(set.sync, q)
      BY <2>2, <2>5, <3>1 DEF Setting
    <3>3. CASE q = Keep
      <4>1. q \notin Requested /\ q # SetInitial
        BY <3>3, SignalingAssumption DEF Keep, SetInitial
      <4> QED
        BY <2>1, <3>2, <3>3, <4>1 DEF Effect, IntervalAsked
    <3>4. CASE q = SetInitial
      BY <3>2, <3>4 DEF Effect, IntervalAsked, Keep, SetInitial
    <3>5. CASE q # Keep /\ q # SetInitial
      BY <2>1, <2>5, <3>2, <3>5 DEF Effect, IntervalAsked, Requests
    <3> QED
      BY <3>3, <3>4, <3>5
  <2> QED
    BY <2>3, <2>4, <2>5
<1>2. CASE Timeout
  <2>1. set' = [set EXCEPT !.announce = AnnounceSetting(up)] /\ asked' = asked
    BY <1>2 DEF Timeout
  <2> QED
    BY <2>1 DEF TypeOK, IntervalAsked
<1>3. CASE DevUp
  <2>1. set' = [set EXCEPT !.announce = AnnounceSetting(TRUE)] /\ asked' = asked
    BY <1>3 DEF DevUp
  <2> QED
    BY <2>1 DEF TypeOK, IntervalAsked
<1>4. CASE UNCHANGED <<set, asked>>
  BY <1>4 DEF IntervalAsked
<1> QED
  BY <1>1, <1>2, <1>3, <1>4
  DEF Next, RecvCapable, RecvPdelayReq, Measured, DevDown, Tick, Silence, vars

(* The interval of Sync is the initial one or the one requested last of a  *)
(* port that was up (IntervalAsked), for every set of requested intervals. *)
THEOREM IntervalIsAsked == Spec => []IntervalAsked
<1>1. Init => IntervalAsked
  BY DEF Init, IntervalAsked, Off
<1> QED
  BY <1>1, IntervalStep, TypeCorrect, PTL DEF Spec
=============================================================================
