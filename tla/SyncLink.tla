------------------------------ MODULE SyncLink ------------------------------
(***************************************************************************)
(* Sync over one link: MDSyncSendSM of the port at one end                 *)
(* (md_sync_send_sm.c), its network device (gptpnet_send and the TxTS of   *)
(* ix_gptpnet.c), the wire, and MDSyncReceiveSM of the port at the other   *)
(* end (md_sync_receive_sm.c).                                             *)
(*                                                                         *)
(* A timestamp is the number of the departure it was taken of.  Sequence   *)
(* ids are only compared for equality, between messages of neighbouring    *)
(* intervals: they are numbers, and a random one is one not used before.   *)
(* Timers are flags that time sets.  Both ends are two-step, as the code   *)
(* always sends; the content of an MDSyncSend is left out.                 *)
(***************************************************************************)
EXTENDS Naturals, Sequences

CONSTANTS
    Drivers,      \* what a driver's send may return: sets of "ok", "fail" (-1), "mock" (other negative)
    FaultModels,  \* what goes wrong: sets of "wire" (a message is lost), "txts" (a TxTS is), "late"
                  \* (a TxTS is reported after it was given up), "fup" (a follow-up is), "flap"
                  \* (a port is down for a shorter time than a TxTS takes)
    MaxSync       \* bound: no MDSyncSend, and no lost TxTS, once so many Syncs have left

ASSUME SyncLinkAssumption ==
    /\ MaxSync \in Nat \ {0}
    /\ \A d \in Drivers : d \subseteq {"ok", "fail", "mock"}

VARIABLES
    driver, faults, \* the driver and the faults of this behaviour
    snd, sndUp,     \* MDSyncSendSM and its device; whether the port is operational and asCapable
    departed,       \* history: the sequence ids of the Syncs that left, in order
    told,           \* history: the departures told in follow-ups
    wire,
    rcv, rcvUp,     \* MDSyncReceiveSM; whether its port is operational and asCapable
    joined          \* the MDSyncReceive that was given to PortSyncSyncReceive last

senderVars == <<snd, departed, told>>
receiverVars == <<rcv, joined>>
env == <<driver, faults, sndUp, rcvUp>>
vars == <<senderVars, wire, receiverVars, env>>

SyncMsg(q, d) == [kind |-> "sync", seq |-> q, dep |-> d]
FupMsg(q, d) == [kind |-> "fup", seq |-> q, dep |-> d]
NoMsg == [kind |-> "none", seq |-> 0, dep |-> 0]

-----------------------------------------------------------------------------
(***************************************************************************)
(* The sender.  redo is last_state = REACTION, ts is sync_ts; waiting,     *)
(* late and txts are the device's: it waits for a TxTS, TXTS_LOST_TIME has *)
(* passed since the last Sync, the TxTS the driver has still to report.    *)
(* out is the message the last handler sent: a run sends one at most.      *)
(* A send that fails leaves waiting as it was; the code sets it before it  *)
(* writes (posix/ix_gptpnet.c:492-500), so that the next message is put    *)
(* off for TXTS_LOST_TIME: one more turn of REACTION, and no other Sync.   *)
(***************************************************************************)
SndInit ==
    [state |-> "Initializing", redo |-> FALSE, rcvd |-> FALSE, rcvdTs |-> FALSE,
     ts |-> 0, mock |-> 0, seq |-> 1, waiting |-> FALSE, late |-> FALSE, txts |-> {},
     out |-> NoMsg]

(* A sequence id drawn anew is one that no Sync has carried. *)
Used(seq) == departed # <<>> /\ departed[Len(departed)] = seq
Fresh(seq) == IF Used(seq) THEN seq + 1 ELSE seq

Initialize(m) ==
    [m EXCEPT !.state = "Initializing", !.redo = FALSE, !.rcvd = FALSE, !.rcvdTs = FALSE,
              !.seq = Fresh(@)]

(* gptpnet_send defers an event message while the device waits for a TxTS. *)
Deferred(m) == m.waiting /\ ~m.late

(* Mutant: the time that stands in for a TxTS is one Sync ahead. *)
SendSync_ahead(m, res) ==
    LET d == Len(departed) + 1
    IN  [m EXCEPT !.state = "Send", !.rcvd = FALSE, !.redo = res = "fail",
                  !.out = IF res = "fail" THEN NoMsg ELSE SyncMsg(m.seq, d),
                  !.mock = IF res = "mock" THEN d + 1 ELSE @]

(* SEND_SYNC_TWO_STEP: a Sync with the current sequence id. *)
SendSync(m, res) ==
    LET d == Len(departed) + 1
        r == [m EXCEPT !.state = "Send", !.rcvd = FALSE]
    IN  IF Deferred(m) \/ res = "fail"
        THEN [r EXCEPT !.redo = TRUE, !.waiting = @ /\ ~m.late]
        ELSE [r EXCEPT !.redo = FALSE, !.late = FALSE, !.out = SyncMsg(m.seq, d),
                       !.waiting = res = "ok",
                       !.mock = IF res = "mock" THEN d ELSE @,
                       !.txts = (IF res = "ok" THEN {d} ELSE {})
                                \cup (IF "late" \in faults THEN @ ELSE {})]

(* Mutant: the sequence id is not advanced after a follow-up. *)
SendFup_same(m, res) ==
    LET r == [m EXCEPT !.state = "FollowUp", !.rcvdTs = FALSE, !.redo = res = "fail"]
    IN  IF res = "fail" THEN r ELSE [r EXCEPT !.out = FupMsg(m.seq, m.ts)]

(* SEND_FOLLOW_UP: its time is sync_ts, whatever Sync that is of. *)
SendFup(m, res) ==
    LET r == [m EXCEPT !.state = "FollowUp", !.rcvdTs = FALSE, !.redo = res = "fail"]
    IN  IF res = "fail" THEN r
        ELSE [r EXCEPT !.seq = @ + 1, !.out = FupMsg(m.seq, m.ts)]

(* The condition of SEND_SYNC_TWO_STEP: a TxTS that does not come is given *)
(* up and the Sync sent again with the same sequence id.                   *)
AwaitTxTs(m, res) ==
    IF m.rcvdTs THEN SendFup(m, res)
    ELSE IF m.mock # 0 THEN SendFup([m EXCEPT !.ts = m.mock, !.mock = 0], res)
    ELSE IF m.late THEN SendSync(m, res)
    ELSE m

(* md_sync_send_sm *)
SndRun(s, res) ==
    LET m == [s EXCEPT !.out = NoMsg]
    IN  IF ~sndUp THEN Initialize(m)
        ELSE IF m.redo THEN IF m.state = "Send" THEN SendSync(m, res) ELSE SendFup(m, res)
        ELSE IF m.state = "Send" THEN AwaitTxTs(m, res)
        ELSE IF m.rcvd THEN SendSync(m, res)
        ELSE m

(* What a handler that leaves the sender as m has sent. *)
Sent(m) ==
    /\ snd' = m
    /\ wire' = IF m.out = NoMsg THEN wire ELSE Append(wire, m.out)
    /\ departed' = IF m.out.kind = "sync" THEN Append(departed, m.out.seq) ELSE departed
    /\ told' = IF m.out.kind = "fup" THEN told \cup {m.out.dep} ELSE told
    /\ UNCHANGED <<receiverVars, env>>

(* gptpnet_cb_timeout *)
SndTimeout(res) == Sent(SndRun(snd, res))

(* md_sync_send_sm_mdSyncSend, from portSyncSync_for_all *)
MdSyncSend(res) ==
    /\ Len(departed) < MaxSync
    /\ Sent(SndRun([snd EXCEPT !.rcvd = TRUE], res))

(* read_netdev_event and md_sync_send_sm_txts: a TxTS is taken in any      *)
(* state, and its sequence id is not looked at.                            *)
TxTs(d, res) ==
    LET m == [snd EXCEPT !.txts = @ \ {d}, !.waiting = FALSE, !.rcvdTs = TRUE, !.ts = d]
    IN  Sent(SndRun(m, res))

(* The driver loses a TxTS. *)
LoseTxTs ==
    /\ "txts" \in faults /\ Len(departed) < MaxSync
    /\ \E d \in snd.txts : snd' = [snd EXCEPT !.txts = @ \ {d}, !.out = NoMsg]
    /\ UNCHANGED <<departed, told, wire, receiverVars, env>>

(* TXTS_LOST_TIME passes; a TxTS that will come has come, unless it is late. *)
TxTsLostTime ==
    /\ ~snd.late
    /\ snd.txts = {} \/ "late" \in faults
    /\ snd' = [snd EXCEPT !.late = TRUE, !.out = NoMsg]
    /\ UNCHANGED <<departed, told, wire, receiverVars, env>>

-----------------------------------------------------------------------------
(***************************************************************************)
(* The receiver: sync and fup are recSync and recFollowUp, expired that    *)
(* followUpReceiptTimeoutTime has passed, gives that the last run returned *)
(* an MDSyncReceive.                                                       *)
(***************************************************************************)
RcvInit ==
    [state |-> "Discard", rcvdSync |-> FALSE, rcvdFup |-> FALSE,
     sync |-> NoMsg, fup |-> NoMsg, expired |-> FALSE, gives |-> FALSE]

Discard(r) == [r EXCEPT !.state = "Discard", !.rcvdSync = FALSE, !.rcvdFup = FALSE]

Join(r) ==
    [r EXCEPT !.state = "WaitSync", !.rcvdSync = FALSE, !.rcvdFup = FALSE, !.gives = TRUE]

(* Mutants: any follow-up will do; a time out is no reason to give up. *)
AwaitFup_any(r) == IF r.rcvdFup THEN Join(r) ELSE IF r.expired THEN Discard(r) ELSE r

AwaitFup_forever(r) ==
    IF r.rcvdFup /\ r.fup.seq = r.sync.seq THEN Join(r) ELSE [r EXCEPT !.rcvdFup = FALSE]

(* The condition of WAITING_FOR_FOLLOW_UP, without a new Sync. *)
AwaitFup(r) ==
    IF r.rcvdFup /\ r.fup.seq = r.sync.seq THEN Join(r)
    ELSE IF r.expired THEN Discard(r)
    ELSE [r EXCEPT !.rcvdFup = FALSE]

NewSync(r) == AwaitFup([r EXCEPT !.state = "WaitFup", !.rcvdSync = FALSE, !.expired = FALSE])

(* md_sync_receive_sm *)
RcvRun(s) ==
    LET r == [s EXCEPT !.gives = FALSE]
    IN  IF ~rcvUp THEN Discard(r)
        ELSE IF r.rcvdSync THEN NewSync(r)
        ELSE CASE r.state = "Discard" -> r
               [] r.state = "WaitFup" -> AwaitFup(r)
               [] r.state = "WaitSync" -> [r EXCEPT !.rcvdFup = FALSE]

Arrives(kind) ==
    /\ wire # <<>> /\ Head(wire).kind = kind
    /\ wire' = Tail(wire)
    /\ UNCHANGED <<senderVars, env>>

(* md_sync_receive_sm_recv_sync, which drops what the machine returns *)
RecvSync ==
    /\ Arrives("sync")
    /\ rcv' = RcvRun([rcv EXCEPT !.rcvdSync = TRUE, !.sync = Head(wire)])
    /\ UNCHANGED joined

(* md_sync_receive_sm_recv_fup *)
RecvFup ==
    /\ Arrives("fup")
    /\ rcv' = RcvRun([rcv EXCEPT !.rcvdFup = TRUE, !.fup = Head(wire)])
    /\ joined' = IF rcv'.gives THEN [sync |-> rcv'.sync.dep, fup |-> rcv'.fup.dep] ELSE joined

RcvTimeout ==
    /\ rcv' = RcvRun(rcv)
    /\ UNCHANGED <<joined, senderVars, wire, env>>

(* followUpReceiptTimeoutTime passes. *)
FupTime ==
    /\ rcv.state = "WaitFup" /\ ~rcv.expired
    /\ rcv' = [rcv EXCEPT !.expired = TRUE, !.gives = FALSE]
    /\ UNCHANGED <<joined, senderVars, wire, env>>

-----------------------------------------------------------------------------
(* A message is lost, or received without an RxTS (read_recdata). *)
LoseMsg ==
    /\ wire # <<>>
    /\ "wire" \in faults \/ ("fup" \in faults /\ Head(wire).kind = "fup")
    /\ wire' = Tail(wire)
    /\ UNCHANGED <<senderVars, receiverVars, env>>

(* asCapable or portOper of a port changes.  Unless it flaps, a port is not *)
(* up again before the TxTS of what it sent has been reported.              *)
UpDown ==
    /\ \/ /\ sndUp' = ~sndUp /\ UNCHANGED rcvUp
          /\ snd.txts = {} \/ sndUp \/ "flap" \in faults
       \/ rcvUp' = ~rcvUp /\ UNCHANGED sndUp
    /\ UNCHANGED <<driver, faults, senderVars, wire, receiverVars>>

Init ==
    /\ driver \in Drivers /\ faults \in FaultModels
    /\ snd = SndInit /\ sndUp = FALSE
    /\ departed = <<>> /\ told = {} /\ wire = <<>>
    /\ rcv = RcvInit /\ rcvUp = FALSE
    /\ joined = [sync |-> 0, fup |-> 0]

Sender ==
    \E res \in driver :
        SndTimeout(res) \/ MdSyncSend(res) \/ \E d \in snd.txts : TxTs(d, res)

Receiver == RecvSync \/ RecvFup \/ RcvTimeout

Next == Sender \/ LoseTxTs \/ TxTsLostTime \/ Receiver \/ FupTime \/ LoseMsg \/ UpDown

(* The daemons at both ends run their timeouts, time passes, the driver    *)
(* reports the TxTS it has, and a send that is tried for ever works.       *)
Fairness ==
    /\ SF_vars(\E res \in driver \ {"fail"} : SndTimeout(res))
    /\ WF_vars(\E res \in driver, d \in snd.txts : TxTs(d, res))
    /\ WF_vars(TxTsLostTime) /\ WF_vars(FupTime) /\ WF_vars(RcvTimeout)

Spec == Init /\ [][Next]_vars /\ Fairness

-----------------------------------------------------------------------------
Departures == 0 .. Len(departed)
Message == [kind: {"none", "sync", "fup"}, seq: Nat, dep: Departures]

(* Every variable stays in its range, and no timestamp is of the future.   *)
TypeOK ==
    /\ driver \in Drivers /\ faults \in FaultModels
    /\ snd \in [state: {"Initializing", "Send", "FollowUp"}, redo: BOOLEAN, rcvd: BOOLEAN,
                rcvdTs: BOOLEAN, ts: Departures, mock: Departures, seq: Nat, waiting: BOOLEAN,
                late: BOOLEAN, txts: SUBSET Departures, out: Message]
    /\ departed \in Seq(Nat) /\ told \subseteq Departures
    /\ wire \in Seq(Message)
    /\ rcv \in [state: {"Discard", "WaitFup", "WaitSync"}, rcvdSync: BOOLEAN, rcvdFup: BOOLEAN,
                sync: Message, fup: Message, expired: BOOLEAN, gives: BOOLEAN]
    /\ {sndUp, rcvUp} \subseteq BOOLEAN
    /\ joined \in [sync: Departures, fup: Departures]

(* What the two ends do is an exchange of Syncs as SyncExchange has it:    *)
(* the follow-up that setMDSyncReceive joins to a Sync is about the        *)
(* departure of that very Sync, and pairs come in order and once.          *)
Exchange == INSTANCE SyncExchange WITH departed <- Len(departed)
Implements == Exchange!Spec

(* A Sync that was sent is followed up, unless the port goes down          *)
(* (md_sync_send_sm).                                                      *)
FollowedUp == snd.state = "Send" ~> snd.state # "Send"

(* The wait for a follow-up ends, also when it is lost (md_sync_receive_sm). *)
WaitEnds == rcv.state = "WaitFup" ~> rcv.state # "WaitFup"

(* No loss leaves an end of the link in a wait for what does not come: the *)
(* sender for its TxTS, the receiver for the follow-up.                    *)
NoWaitForever == FollowedUp /\ WaitEnds
=============================================================================
