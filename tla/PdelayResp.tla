----------------------------- MODULE PdelayResp -----------------------------
(***************************************************************************)
(* The responder of the peer delay measurement of one port, MDPdelayRespSM *)
(* (md_pdelay_resp_sm.c).                                                  *)
(*                                                                         *)
(* One buffer, rcvdPdelayReq, holds the last request received; the         *)
(* response and its follow-up are composed from it whenever they are sent. *)
(* A timestamp is abstracted to whether it belongs to the request that is  *)
(* in the buffer now.                                                      *)
(***************************************************************************)
EXTENDS Naturals, Sequences

CONSTANTS
    SeqMod,       \* sequence ids are counted modulo SeqMod (2^16 in the code)
    TxTsLost,     \* gptpnet_txtslost_time, in ticks
    CmldsMode,    \* CONF_CMLDS_MODE
    Worlds        \* what may happen: sets of "gaps" (a request has not the successor of the last
                  \* sequence id), "foreign" (a request has the majorSdoId of another domain),
                  \* "mock" (a send returns another negative value than -1, there is no TxTS),
                  \* "fup" (the send of a follow-up fails)

ASSUME PdelayRespAssumption ==
    /\ SeqMod \in Nat \ {0} /\ TxTsLost \in Nat \ {0}
    /\ CmldsMode \in BOOLEAN
    /\ Worlds \subseteq SUBSET {"gaps", "foreign", "mock", "fup"}

SeqIds == 0 .. SeqMod - 1
NoSeq == SeqMod     \* last_seqid = -1: any sequence id is accepted

VARIABLES
    world,     \* what may happen in this behaviour
    sm,        \* the data of the state machine
    portOper,  \* forAllDomain->portOper
    last,      \* the last sequence id the neighbour used
    txts       \* TxTS of responses the driver may still report

vars == <<world, sm, portOper, last, txts>>

(***************************************************************************)
(* t2, t3 and mock say whether ts2, ts3 and mock_txts64 were taken for the *)
(* request in the buffer; ignored that this request was ignored; out is    *)
(* what the last handler sent, owed that a response was sent since the     *)
(* last follow-up.                                                         *)
(***************************************************************************)
SmInit ==
    [state |-> "Initial", redo |-> FALSE, rcvdReq |-> FALSE, rcvdTs |-> FALSE,
     seq |-> 0, lastSeq |-> NoSeq, elapsed |-> 0,
     t2 |-> FALSE, t3 |-> FALSE, mock |-> "none",
     ignored |-> FALSE, owed |-> FALSE, out |-> <<>>]

-----------------------------------------------------------------------------
(* The entry of SENT_PDELAY_RESP_WAITING_FOR_TIMESTAMP, and its retry: the *)
(* response to the request in the buffer, with ts2 as it is.               *)
SendResp(m, send) ==
    LET r == [m EXCEPT !.state = "Sent", !.rcvdReq = FALSE, !.rcvdTs = FALSE,
                       !.redo = send = "fail"]
    IN  IF send = "fail" THEN r
        ELSE [r EXCEPT !.elapsed = 0, !.owed = TRUE, !.mock = IF send = "mock" THEN "own" ELSE @,
                       !.out = Append(@, [kind |-> "resp", seq |-> m.seq, own |-> m.t2,
                                          stamped |-> send = "ok"])]

(* The entry of WAITING_FOR_PDELAY_REQ, and its retry: the follow-up for   *)
(* the request in the buffer, with ts3 as it is; a request received in the *)
(* meantime is answered in the same run.                                   *)
SendFup(m, fails, send) ==
    LET f == [m EXCEPT !.state = "WaitReq", !.redo = fails]
        sent == [f EXCEPT !.owed = FALSE,
                          !.out = Append(@, [kind |-> "fup", seq |-> m.seq, own |-> m.t3,
                                             stamped |-> FALSE])]
    IN  IF fails THEN f ELSE IF m.rcvdReq THEN SendResp(sent, send) ELSE sent

(* Mutants: the run stops in NOT_ENABLED; and a failed send is retried.    *)
Disabled_stops(m) == [m EXCEPT !.state = "NotEnabled", !.redo = FALSE, !.rcvdReq = FALSE]

Disabled_retries(m) == [m EXCEPT !.state = "Initial", !.rcvdReq = FALSE, !.lastSeq = NoSeq]

(* NOT_ENABLED and, in the same run, INITIAL_WAITING_FOR_PDELAY_REQ *)
Disabled(m) == [m EXCEPT !.state = "Initial", !.redo = FALSE, !.rcvdReq = FALSE, !.lastSeq = NoSeq]

(* A response waits for its TxTS, and is sent again without one. *)
AwaitTxTs(m, fails, send) ==
    IF m.rcvdTs THEN SendFup(m, fails, send)
    ELSE IF m.elapsed < TxTsLost THEN m
    ELSE IF m.mock # "none"
         THEN SendFup([m EXCEPT !.t3 = m.mock = "own", !.mock = "none"], fails, send)
    ELSE SendResp(m, send)

(* md_pdelay_resp_sm *)
Run(m, oper, fails, send) ==
    LET s == [m EXCEPT !.out = <<>>]
    IN  IF ~oper THEN Disabled(s)
        ELSE IF s.state = "Sent"
             THEN IF s.redo THEN SendResp(s, send) ELSE AwaitTxTs(s, fails, send)
        ELSE IF s.redo THEN SendFup(s, fails, send)
        ELSE IF s.rcvdReq THEN SendResp(s, send) ELSE s

-----------------------------------------------------------------------------
Init ==
    /\ world \in Worlds
    /\ sm = SmInit /\ portOper = FALSE
    /\ last \in SeqIds /\ txts = {}

(* What gptpnet_send may return, and whether that of a follow-up may fail. *)
SendResults == {"ok", "fail"} \cup (IF "mock" \in world THEN {"mock"} ELSE {})
FupResults == IF "fup" \in world THEN BOOLEAN ELSE {FALSE}

(* A response that was sent with hardware TxTS will be reported. *)
Stamped(m) == {[seq |-> m.out[i].seq, own |-> TRUE] : i \in {j \in DOMAIN m.out : m.out[j].stamped}}

Finish(m, pending) ==
    /\ sm' = m
    /\ txts' = pending \cup Stamped(m)
    /\ UNCHANGED <<world, portOper>>

Timeout ==
    \E fails \in FupResults, send \in SendResults :
        Finish(Run(sm, portOper, fails, send), txts) /\ UNCHANGED last

(* md_pdelay_resp_sm_recv_req: the buffer takes every request, before the  *)
(* checks that may ignore it.                                              *)
Buffered(seq) == [sm EXCEPT !.seq = seq, !.t2 = FALSE, !.t3 = FALSE, !.out = <<>>, !.ignored = FALSE,
                            !.mock = IF @ = "own" THEN "other" ELSE @]

(* Bound: a TxTS outlives at most one later request. *)
Superseded(pending) == {[t EXCEPT !.own = FALSE] : t \in {p \in pending : p.own}}

(* Mutant: the state machine runs before ts2 is stored. *)
RecvReq_late(seq, fails, send) ==
    LET b == Buffered(seq)
        valid == [b EXCEPT !.lastSeq = seq, !.rcvdReq = TRUE]
    IN  IF sm.lastSeq \notin {NoSeq, (seq + SeqMod - 1) % SeqMod}
        THEN Finish([b EXCEPT !.lastSeq = NoSeq], Superseded(txts))
        ELSE Finish([Run(valid, portOper, fails, send) EXCEPT !.t2 = TRUE], Superseded(txts))

RecvReq(seq, fails, send) ==
    LET b == Buffered(seq)
        valid == [b EXCEPT !.lastSeq = seq, !.rcvdReq = TRUE, !.t2 = TRUE]
    IN  IF sm.lastSeq \notin {NoSeq, (seq + SeqMod - 1) % SeqMod}
        THEN Finish([b EXCEPT !.lastSeq = NoSeq], Superseded(txts))
        ELSE Finish(Run(valid, portOper, fails, send), Superseded(txts))

(* The neighbour asks: with the next sequence id, or with any other when   *)
(* it repeats a request, lost one or was enabled again.                    *)
Request ==
    \E seq \in SeqIds, fails \in FupResults, send \in SendResults :
        /\ "gaps" \in world \/ seq = (last + 1) % SeqMod
        /\ RecvReq(seq, fails, send)
        /\ last' = seq

(* A request whose majorSdoId is not the gPTP domain's. *)
RequestOtherDomain ==
    \E seq \in SeqIds, fails \in FupResults, send \in SendResults :
        /\ "foreign" \in world
        /\ IF CmldsMode THEN RecvReq(seq, fails, send)
           ELSE Finish([Buffered(seq) EXCEPT !.ignored = TRUE], Superseded(txts))
        /\ UNCHANGED last

(* Mutant: any TxTS is taken. *)
TxTs_any ==
    \E t \in txts, fails \in FupResults, send \in SendResults :
        /\ IF sm.state = "Sent"
           THEN Finish(Run([sm EXCEPT !.t3 = t.own, !.rcvdTs = TRUE], portOper, fails, send),
                       txts \ {t})
           ELSE Finish([sm EXCEPT !.out = <<>>], txts \ {t})
        /\ UNCHANGED last

(* md_pdelay_resp_sm_txts *)
TxTs ==
    \E t \in txts, fails \in FupResults, send \in SendResults :
        /\ IF sm.state = "Sent" /\ t.seq = sm.seq
           THEN Finish(Run([sm EXCEPT !.t3 = t.own, !.rcvdTs = TRUE], portOper, fails, send),
                       txts \ {t})
           ELSE Finish([sm EXCEPT !.out = <<>>], txts \ {t})
        /\ UNCHANGED last

DevUpDown ==
    /\ portOper' = ~portOper
    /\ sm' = [sm EXCEPT !.out = <<>>]
    /\ UNCHANGED <<world, last, txts>>

Tick ==
    /\ sm.elapsed < TxTsLost
    /\ sm' = [sm EXCEPT !.elapsed = @ + 1, !.out = <<>>]
    /\ UNCHANGED <<world, portOper, last, txts>>

Next == Timeout \/ Request \/ RequestOtherDomain \/ TxTs \/ DevUpDown \/ Tick

Spec == Init /\ [][Next]_vars

-----------------------------------------------------------------------------
Message == [kind: {"resp", "fup"}, seq: SeqIds, own: BOOLEAN, stamped: BOOLEAN]

Machine ==
    [state: {"Initial", "WaitReq", "Sent"}, redo: BOOLEAN, rcvdReq: BOOLEAN, rcvdTs: BOOLEAN,
     seq: SeqIds, lastSeq: SeqIds \cup {NoSeq}, elapsed: 0 .. TxTsLost,
     t2: BOOLEAN, t3: BOOLEAN, mock: {"none", "own", "other"},
     ignored: BOOLEAN, owed: BOOLEAN, out: Seq(Message)]

(* Every variable stays in its range, and a run sends two messages at most: *)
(* a follow-up and the response to a request that came in the meantime.     *)
TypeOK ==
    /\ world \in Worlds
    /\ sm \in Machine /\ Len(sm.out) <= 2
    /\ portOper \in BOOLEAN /\ last \in SeqIds
    /\ txts \subseteq [seq: SeqIds, own: BOOLEAN]

Sends(kind) == {i \in DOMAIN sm.out : sm.out[i].kind = kind}

(* The neighbour counts its requests without a gap, and sends do not fail  *)
(* but for those of responses.                                             *)
Orderly == world = {}

(* A response to an orderly neighbour carries the receipt time of the      *)
(* request whose sequence id and identity it carries (setPdelayResp).      *)
RespIsOwn == Orderly => \A i \in Sends("resp") : sm.out[i].own

(* A follow-up to an orderly neighbour carries the departure time of the   *)
(* response to the request whose sequence id and identity it carries       *)
(* (setPdelayRespFollowUp).                                                *)
FupIsOwn == Orderly => \A i \in Sends("fup") : sm.out[i].own

(* A request of another domain, of which md_pdelay_resp_sm_recv_req logs   *)
(* "ignore event.", is in no message the port sends.  The code does not keep *)
(* this: the request has replaced the one in the buffer.  No run checks it. *)
IgnoredUnanswered == sm.ignored => sm.out = <<>>

(* A follow-up is only sent for a response that was sent since the last    *)
(* follow-up: a lost or repeated request never adds one.                   *)
FollowsResponse ==
    [][sm'.out # <<>> /\ sm'.out[1].kind = "fup" => sm.owed]_vars
=============================================================================
