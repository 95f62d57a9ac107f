----------------------------- MODULE PdelayReq -----------------------------
(***************************************************************************)
(* The initiator of the peer delay measurement of one port, MDPdelayReqSM  *)
(* (md_pdelay_req_sm.c), with the link it measures.                        *)
(*                                                                         *)
(* The daemon is one event loop: a timeout, a received message or a        *)
(* transmit timestamp (TxTS) calls a handler, and the handler runs the     *)
(* state machine until it rests.  Every handler is therefore one action,   *)
(* and Run below is the whole run of the state machine: the states are     *)
(* passed through in one order only, so that the loop of md_pdelay_req_sm  *)
(* is a composition of one operator per state.                             *)
(*                                                                         *)
(* A timestamp is abstracted to the transmission it belongs to, and a      *)
(* transmission to its age: 0 for the last Pdelay_Req sent, 1 for the one  *)
(* before, ..., Old for any older one or for none.                         *)
(***************************************************************************)
EXTENDS Naturals

CONSTANTS
    SeqMod,           \* sequence ids are counted modulo SeqMod (2^16 in the code)
    TxTsLost,         \* gptpnet_txtslost_time, in ticks
    Interval,         \* pdelayReqInterval, in ticks
    CeaseTime,        \* CEASETIME_AVNU_MULTIRESPOSE, in ticks
    AllowedLost,      \* allowedLostResponses
    AllowedFaults,    \* allowedFaults
    ConformToAvnu,    \* CONF_FOLLOW_AVNU
    CmldsMode,        \* CONF_CMLDS_MODE
    ComputeRateRatio, \* computeNeighborRateRatio
    MaxDelay,         \* bound: a message or a TxTS outlives at most MaxDelay later transmissions
    SendResults,      \* what gptpnet_send may return: "ok", "fail" (-1), "mock" (other negative)
    Delays,           \* ranges the computed delay may fall in: "low", "good", "high"
    Duplicates,       \* whether the link may deliver a message twice
    PeerMayStop,      \* whether the peer may stop answering
    Strangers         \* origins of answers that are not the peer's answers to this port

ASSUME PdelayAssumption ==
    /\ SeqMod \in Nat \ {0} /\ MaxDelay \in Nat
    /\ TxTsLost \in Nat \ {0} /\ Interval \in Nat /\ CeaseTime \in Nat
    /\ TxTsLost < Interval /\ Interval < CeaseTime
    /\ AllowedLost \in Nat \ {0} /\ AllowedFaults \in Nat
    /\ {ConformToAvnu, CmldsMode, ComputeRateRatio, Duplicates, PeerMayStop} \subseteq BOOLEAN
    /\ SendResults \subseteq {"ok", "fail", "mock"} /\ Delays \subseteq {"low", "good", "high"}

SeqIds == 0 .. SeqMod - 1
Old == MaxDelay + 1
Age == 0 .. Old
NoMock == Old + 1
Older(a) == IF a < Old THEN a + 1 ELSE a

(***************************************************************************)
(* Where an answer comes from: the clock in sourcePortIdentity, whether    *)
(* requestingPortIdentity is this port, whether majorSdoId is the one of   *)
(* the gPTP domain.                                                        *)
(***************************************************************************)
Origin == [src: {"peer", "other", "us"}, toUs: BOOLEAN, sdo: BOOLEAN]
Peer == [src |-> "peer", toUs |-> TRUE, sdo |-> TRUE]
Answer == [kind: {"resp", "fup"}, seq: SeqIds, age: Age, from: Origin]

ASSUME StrangersAssumption == Strangers \subseteq Origin

States == {"NotEnabled", "InitialSend", "Reset", "Send",
           "WaitResp", "WaitFup", "WaitInterval"}

VARIABLES
    sm,        \* the data of the state machine and the port variables it owns
    portOper,  \* forAllDomain->portOper
    peerUp,    \* whether the other end of the link answers
    wire,      \* answers that may still arrive
    txts       \* TxTS the driver may still report

vars == <<sm, portOper, peerUp, wire, txts>>

NoAnswer == [seq |-> 0, from |-> Peer]

SmInit ==
    [state |-> "NotEnabled", redo |-> FALSE, sent |-> "no",
     rcvdTs |-> FALSE, rcvdResp |-> FALSE, rcvdFup |-> FALSE,
     resp |-> NoAnswer, fup |-> NoAnswer,
     seq |-> 0, txSeq |-> 0, elapsed |-> CeaseTime, mock |-> NoMock,
     t1 |-> Old, t2 |-> Old, t3 |-> Old, t4 |-> Old,
     havePrev |-> FALSE, ratioValid |-> FALSE, propDelay |-> "none",
     lost |-> 0, multi |-> 0, faults |-> 0,
     measuring |-> FALSE, asCapable |-> FALSE, missed |-> 0]

(* What a handler takes from outside: the result of the send, rand(), the  *)
(* range the computed delay falls in, whether the rate ratio is in range.  *)
Choice == [send: SendResults, seq0: SeqIds, delay: Delays, ratio: BOOLEAN]

-----------------------------------------------------------------------------
(***************************************************************************)
(* The state machine.                                                      *)
(***************************************************************************)

(* txPdelayReq succeeded: the timer restarts, every known transmission     *)
(* grows older, a send without hardware TxTS takes a mock timestamp.       *)
Transmitted(m, c) ==
    [m EXCEPT !.redo = FALSE, !.sent = c.send, !.elapsed = 0,
              !.mock = IF c.send = "mock" THEN 0 ELSE Older(@),
              !.t1 = Older(@), !.t2 = Older(@), !.t3 = Older(@), !.t4 = Older(@)]

(* The entry of INITIAL_SEND_PDELAY_REQ, and its retry after a failed send *)
InitialSend(m, c) ==
    LET cleared == [m EXCEPT !.state = "InitialSend",
                             !.seq = c.seq0, !.txSeq = c.seq0, !.rcvdTs = FALSE, !.rcvdResp = FALSE,
                             !.rcvdFup = FALSE, !.havePrev = FALSE]
    IN  IF c.send = "fail" THEN [cleared EXCEPT !.redo = TRUE]
        ELSE [Transmitted(cleared, c) EXCEPT
                 !.lost = 0, !.multi = 0, !.faults = 0,
                 !.measuring = FALSE, !.asCapable = FALSE,
                 !.missed = 0]

(* Mutant: the flag of an earlier response is kept. *)
SendWith_keeps(m, seq, c) ==
    LET cleared == [m EXCEPT !.state = "Send", !.seq = seq, !.txSeq = seq, !.rcvdFup = FALSE]
    IN  IF c.send = "fail" THEN [cleared EXCEPT !.redo = TRUE, !.seq = (@ + SeqMod - 1) % SeqMod]
        ELSE Transmitted(cleared, c)

(* The entry of SEND_PDELAY_REQ; a failed send takes the sequence id back. *)
SendWith(m, seq, c) ==
    LET cleared == [m EXCEPT !.state = "Send", !.seq = seq, !.txSeq = seq,
                             !.rcvdResp = FALSE, !.rcvdFup = FALSE]
    IN  IF c.send = "fail" THEN [cleared EXCEPT !.redo = TRUE, !.seq = (@ + SeqMod - 1) % SeqMod]
        ELSE Transmitted(cleared, c)

(* Mutant: the next sequence id may be out of range. *)
Send_wide(m, c) == SendWith(m, m.seq + 1, c)

Send(m, c) == SendWith(m, (m.seq + 1) % SeqMod, c)

(* NOT_ENABLED is entered from every state while the port is down, and     *)
(* left for INITIAL_SEND_PDELAY_REQ in the same run when it is up.         *)
EnableStep(m, oper, c) ==
    IF ~oper THEN [m EXCEPT !.state = "NotEnabled", !.redo = FALSE]
    ELSE IF m.state = "NotEnabled" \/ (m.redo /\ m.state = "InitialSend")
         THEN InitialSend(m, c)
    ELSE IF m.redo THEN Send(m, c) ELSE m

(* A request waits for its TxTS; without one it is sent again, the initial *)
(* one with a new sequence id, the others with the same.                   *)
TxTsStep(m, c) ==
    LET waiting == m.state \in {"InitialSend", "Send"} /\ m.sent = "no" /\ ~m.redo
        go == [m EXCEPT !.state = "WaitResp", !.rcvdTs = FALSE]
    IN  IF ~waiting THEN m
        ELSE IF m.rcvdTs THEN go
        ELSE IF m.elapsed < TxTsLost THEN m
        ELSE IF m.mock # NoMock THEN [go EXCEPT !.t1 = m.mock, !.mock = NoMock]
        ELSE IF m.state = "InitialSend" THEN InitialSend(m, c)
        ELSE SendWith(m, m.seq, c)

(* Mutants: one more response may be lost; and asCapable is not given up.  *)
Reset_over(m, multi) ==
    LET r == [m EXCEPT !.state = "Reset", !.rcvdResp = FALSE,
                       !.multi = IF multi /\ @ < AllowedLost THEN @ + 1 ELSE @,
                       !.missed = IF @ <= AllowedLost THEN @ + 1 ELSE @]
    IN  IF r.missed <= AllowedLost + 1 /\ r.asCapable
        THEN [r EXCEPT !.lost = IF @ < AllowedLost THEN @ + 1 ELSE 0]
        ELSE [r EXCEPT !.measuring = FALSE, !.asCapable = FALSE]

Reset_keeps(m, multi) ==
    [m EXCEPT !.state = "Reset", !.rcvdResp = FALSE, !.measuring = FALSE,
              !.lost = IF @ < AllowedLost THEN @ + 1 ELSE @,
              !.missed = IF @ <= AllowedLost THEN @ + 1 ELSE @]

(* The entry of RESET counts a lost response, or gives up asCapable.       *)
Reset(m, multi) ==
    LET r == [m EXCEPT !.state = "Reset", !.rcvdResp = FALSE,
                       !.multi = IF multi /\ @ < AllowedLost THEN @ + 1 ELSE @,
                       !.missed = IF @ <= AllowedLost THEN @ + 1 ELSE @]
        incapable == [r EXCEPT !.measuring = FALSE, !.asCapable = FALSE, !.ratioValid = FALSE]
        counted == IF r.lost < AllowedLost THEN [r EXCEPT !.lost = @ + 1] ELSE incapable
    IN  IF r.lost >= AllowedLost /\ ~r.asCapable THEN [r EXCEPT !.measuring = FALSE]
        ELSE IF ConformToAvnu /\ r.multi >= AllowedLost
             THEN [incapable EXCEPT !.lost = counted.lost]
        ELSE counted

RespStep(m) ==
    IF m.state # "WaitResp" THEN m
    ELSE IF m.elapsed >= Interval THEN Reset(m, FALSE)
    ELSE IF ~m.rcvdResp THEN [m EXCEPT !.rcvdFup = FALSE]
    ELSE IF m.resp.from.src = "us" \/ ~m.resp.from.toUs THEN Reset(m, FALSE)
    ELSE IF ~CmldsMode /\ ~m.resp.from.sdo THEN m
    ELSE IF m.resp.seq > m.txSeq THEN Reset(m, FALSE)
    ELSE [m EXCEPT !.state = "WaitFup", !.rcvdResp = FALSE]

(* WAITING_FOR_PDELAY_INTERVAL_TIMER: the exchange is complete, the delay  *)
(* is computed from the four timestamps as they are now.                   *)
Measured(m, c) ==
    LET same == m.t1 < Old /\ m.t1 = m.t2 /\ m.t2 = m.t3 /\ m.t3 = m.t4
        valid == m.ratioValid \/ ~ComputeRateRatio \/ (c.ratio /\ m.havePrev)
        d == [m EXCEPT !.state = "WaitInterval", !.rcvdFup = FALSE,
                       !.lost = 0, !.multi = 0,
                       !.ratioValid = valid, !.havePrev = ComputeRateRatio,
                       !.propDelay = IF same THEN "sound" ELSE "mixed",
                       !.measuring = TRUE, !.missed = 0]
        fault == d.faults <= AllowedFaults
        notSelf == m.resp.from.src # "us"
    IN  IF c.delay = "good" /\ notSelf /\ valid
        THEN [d EXCEPT !.faults = 0, !.asCapable = TRUE]
        ELSE IF fault /\ (~notSelf \/ (c.delay = "low" /\ valid))
        THEN [d EXCEPT !.faults = @ + 1]
        ELSE [d EXCEPT !.faults = 0, !.asCapable = FALSE, !.measuring = FALSE]

(* WAITING_FOR_PDELAY_RESP_FOLLOW_UP.  The identities compared are those   *)
(* of the last response received, whichever request it answered.           *)
FupStep(m, c) ==
    IF m.state # "WaitFup" THEN m
    ELSE IF m.elapsed >= Interval THEN Reset(m, FALSE)
    ELSE IF m.rcvdResp /\ m.resp.seq = m.txSeq THEN Reset(m, TRUE)
    ELSE IF ~m.rcvdFup \/ (~CmldsMode /\ ~m.fup.from.sdo) THEN m
    ELSE IF m.fup.from.src = "us" THEN Reset(m, FALSE)
    ELSE IF m.fup.seq = m.txSeq /\ (m.fup.from.src = m.resp.from.src \/ m.resp.from.toUs)
    THEN Measured(m, c)
    ELSE m

(* Mutants: the interval is not waited for; and the port never ceases. *)
IntervalStep_early(m, c) ==
    IF m.state \notin {"Reset", "WaitInterval"} THEN m
    ELSE IF m.elapsed > 0 THEN Send(m, c) ELSE m

IntervalStep_always(m, c) ==
    IF m.state \notin {"Reset", "WaitInterval"} THEN m
    ELSE IF m.elapsed >= Interval THEN Send(m, c) ELSE m

(* The next request is due: from WAITING_FOR_PDELAY_INTERVAL_TIMER, and    *)
(* from RESET unless multiple responses make the port cease for a while.   *)
IntervalStep(m, c) ==
    LET ceased == m.state = "Reset" /\ ConformToAvnu /\ m.multi >= AllowedLost
        r == IF ceased THEN [m EXCEPT !.multi = 0] ELSE m
    IN  IF m.state \notin {"Reset", "WaitInterval"} \/ (ceased /\ m.elapsed < CeaseTime) THEN m
        ELSE IF m.elapsed >= Interval THEN Send(r, c) ELSE r

(* md_pdelay_req_sm *)
Run(m, oper, c) ==
    IntervalStep(FupStep(RespStep(TxTsStep(EnableStep(m, oper, c), c)), c), c)

-----------------------------------------------------------------------------
(***************************************************************************)
(* The handlers, and the link.                                             *)
(***************************************************************************)
Init ==
    /\ sm = SmInit /\ portOper = FALSE /\ peerUp = TRUE
    /\ wire = {} /\ txts = {}

(* What a transmission leaves behind: older messages grow older, or vanish *)
(* after MaxDelay transmissions; the peer's two answers are on their way.  *)
Aged(msgs) == {[a EXCEPT !.age = @ + 1] : a \in {b \in msgs : b.age < MaxDelay}}

Answers(m) ==
    IF peerUp THEN {[kind |-> k, seq |-> m.seq, age |-> 0, from |-> Peer] : k \in {"resp", "fup"}}
    ELSE {}

(* The handler leaves m; remaining and pending are what is left of the     *)
(* link's messages and of the TxTS after the event it consumed.            *)
Finish(m, remaining, pending) ==
    /\ sm' = [m EXCEPT !.sent = "no"]
    /\ wire' = IF m.sent = "no" THEN remaining ELSE Aged(remaining) \cup Answers(m)
    /\ txts' = IF m.sent = "no" THEN pending
               ELSE Aged(pending) \cup (IF m.sent = "ok" THEN {[seq |-> m.seq, age |-> 0]} ELSE {})
    /\ UNCHANGED <<portOper, peerUp>>

Timeout == \E c \in Choice : Finish(Run(sm, portOper, c), wire, txts)

(* md_pdelay_req_sm_txts *)
TxTs == \E t \in txts, c \in Choice :
    IF sm.state \in {"Send", "InitialSend"} /\ t.seq = sm.seq
    THEN Finish(Run([sm EXCEPT !.t1 = t.age, !.rcvdTs = TRUE], portOper, c), wire, txts \ {t})
    ELSE Finish(sm, wire, txts \ {t})

Arriving(kind) ==
    {a \in wire : a.kind = kind} \cup
    {[kind |-> kind, seq |-> s, age |-> Old, from |-> f] : s \in SeqIds, f \in Strangers}

Content(a) == [seq |-> a.seq, from |-> a.from]
LeftOver(a) == IF Duplicates THEN wire ELSE wire \ {a}

(* md_pdelay_req_sm_recv_resp: the state machine runs before t4 is stored. *)
RecvResp == \E a \in Arriving("resp"), c \in Choice :
    LET m == Run([sm EXCEPT !.rcvdResp = TRUE, !.resp = Content(a), !.t2 = a.age], portOper, c)
    IN  Finish([m EXCEPT !.t4 = IF m.sent = "no" THEN a.age ELSE Older(a.age)],
               LeftOver(a), txts)

(* md_pdelay_req_sm_recv_respfup *)
RecvRespFup == \E a \in Arriving("fup"), c \in Choice :
    Finish(Run([sm EXCEPT !.rcvdFup = TRUE, !.fup = Content(a), !.t3 = a.age], portOper, c),
           LeftOver(a), txts)

DevUp ==
    /\ ~portOper /\ portOper' = TRUE
    /\ UNCHANGED <<sm, peerUp, wire, txts>>

(* gptpnet_cb_devdown: the state machine itself only runs at the next event *)
DevDown ==
    /\ portOper /\ portOper' = FALSE
    /\ sm' = [sm EXCEPT !.asCapable = FALSE]
    /\ UNCHANGED <<peerUp, wire, txts>>

Tick ==
    /\ sm.elapsed < CeaseTime
    /\ sm' = [sm EXCEPT !.elapsed = @ + 1]
    /\ UNCHANGED <<portOper, peerUp, wire, txts>>

(* The device at the other end stops answering, for good. *)
PeerStops ==
    /\ PeerMayStop /\ peerUp /\ peerUp' = FALSE
    /\ UNCHANGED <<sm, portOper, wire, txts>>

Next ==
    \/ Timeout
    \/ TxTs
    \/ RecvResp
    \/ RecvRespFup
    \/ DevUp
    \/ DevDown
    \/ Tick
    \/ PeerStops

Spec == Init /\ [][Next]_vars

(***************************************************************************)
(* The event loop calls the timeout handler at least every 125 ms, time    *)
(* passes, and the driver reports the TxTS of a request it has sent.       *)
(***************************************************************************)
FairSpec ==
    Spec /\ WF_vars(Timeout) /\ WF_vars(Tick) /\ WF_vars(TxTs)

-----------------------------------------------------------------------------
(* The machine, when the send result of the run is one of results. *)
MachineOf(results) ==
    [state: States, redo: BOOLEAN, sent: results,
     rcvdTs: BOOLEAN, rcvdResp: BOOLEAN, rcvdFup: BOOLEAN,
     resp: [seq: SeqIds, from: Origin], fup: [seq: SeqIds, from: Origin],
     seq: SeqIds, txSeq: SeqIds, elapsed: 0 .. CeaseTime, mock: Age \cup {NoMock},
     t1: Age, t2: Age, t3: Age, t4: Age,
     havePrev: BOOLEAN, ratioValid: BOOLEAN, propDelay: {"none", "sound", "mixed"},
     lost: 0 .. AllowedLost, multi: 0 .. AllowedLost, faults: 0 .. AllowedFaults + 1,
     measuring: BOOLEAN, asCapable: BOOLEAN,
     missed: 0 .. AllowedLost + 1]

(* Every variable stays in its range. *)
TypeOK ==
    /\ sm \in MachineOf({"no"})
    /\ {portOper, peerUp} \subseteq BOOLEAN
    /\ wire \subseteq Answer
    /\ txts \subseteq [seq: SeqIds, age: Age]

(* A port that is capable has not missed more than allowedLostResponses    *)
(* exchanges in a row (md_pdelay_req_sm.c, reset_proc).                    *)
CapableWithinLost == sm.asCapable => sm.missed <= AllowedLost

(* The delay of the link is computed from the four timestamps of one       *)
(* exchange (computePropTime), whatever order its messages and TxTS have.  *)
SoundPropDelay == sm.propDelay # "mixed"

(* Only the response to the request that waits goes on to its follow-up:   *)
(* of an older one the log of waiting_for_pdelay_resp_condition says       *)
(* "Discard this RESP and wait for the next one".  The code does not keep  *)
(* this, TLC refutes it in the instance of PdelayReqPrompt with MaxDelay 1; *)
(* no run checks it.                                                       *)
DiscardsOldResponse ==
    [][sm.state = "WaitResp" /\ sm'.state = "WaitFup" => sm'.resp.seq = sm'.txSeq]_vars

(* Requests are paced: but for the first one after the port is enabled, no *)
(* request follows another before the TxTS is lost, and before the         *)
(* interval is over only the same request is sent again.                   *)
Paced ==
    [][sm'.elapsed < sm.elapsed =>
          \/ sm'.state = "InitialSend"
          \/ sm.elapsed >= Interval
          \/ sm.elapsed >= TxTsLost /\ sm'.txSeq = sm.txSeq]_vars

(* While it ceases, the port sends nothing until CeaseTime has passed,     *)
(* unless the link goes down and comes up again.                           *)
Ceases ==
    [][ConformToAvnu /\ sm.state = "Reset" /\ sm.multi >= AllowedLost
          /\ sm.elapsed < CeaseTime /\ portOper
          /\ sm.state # sm'.state => ~portOper']_vars

(* A neighbour that stops answering is noticed. *)
LostPeerNoticed == ~peerUp ~> ~sm.asCapable

=============================================================================
