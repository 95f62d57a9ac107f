------------------------- MODULE PdelayReq_proofs --------------------------
(***************************************************************************)
(* Proofs about the initiator of the peer delay measurement: a port that   *)
(* is capable has not missed more responses than it may; its variables     *)
(* stay in their ranges, its requests are paced and cease when they have   *)
(* to; and the delay is computed from the timestamps of one exchange.      *)
(***************************************************************************)
EXTENDS PdelayReq, TLAPS

(* The fields the invariant is about.  Nothing else of the machine is      *)
(* needed, not even its type.                                              *)
Has(m) == {"lost", "missed", "asCapable"} \subseteq DOMAIN m

(* While the port is capable, lostResponses counts every exchange missed   *)
(* since the last one that was completed.                                  *)
Counts(m) ==
    /\ Has(m) /\ m.lost \in 0 .. AllowedLost /\ m.missed \in Nat
    /\ m.asCapable => m.missed <= m.lost

(* The inductive invariant *)
IInv == Counts(sm)

(* n counts what m counts. *)
Same(n, m) ==
    /\ DOMAIN n = DOMAIN m
    /\ n.lost = m.lost /\ n.missed = m.missed /\ n.asCapable = m.asCapable

LEMMA SameLemma ==
    ASSUME NEW m, NEW n, Counts(m), Same(n, m) PROVE Counts(n)
  BY DEF Counts, Same, Has

-----------------------------------------------------------------------------
LEMMA TransmittedLemma ==
    ASSUME NEW m, NEW c, Has(m) PROVE Same(Transmitted(m, c), m)
  BY DEF Transmitted, Same, Has

(* The initial request forgets what was counted, and is not capable. *)
LEMMA InitialSendLemma ==
    ASSUME NEW m, NEW c, Counts(m) PROVE Counts(InitialSend(m, c))
<1> DEFINE cleared == [m EXCEPT !.state = "InitialSend", !.seq = c.seq0, !.txSeq = c.seq0,
                                !.rcvdTs = FALSE, !.rcvdResp = FALSE, !.rcvdFup = FALSE,
                                !.havePrev = FALSE]
           t == Transmitted(cleared, c)
           begun == [t EXCEPT !.lost = 0, !.multi = 0, !.faults = 0,
                              !.measuring = FALSE, !.asCapable = FALSE,
                              !.missed = 0]
<1>1. InitialSend(m, c) = IF c.send = "fail" THEN [cleared EXCEPT !.redo = TRUE] ELSE begun
  BY Zenon DEF InitialSend
<1>2. Same(cleared, m) /\ Same([cleared EXCEPT !.redo = TRUE], m)
  BY DEF Same, Counts, Has
<1> HIDE DEF cleared
<1>3. Same(t, cleared)
  BY <1>2, TransmittedLemma DEF Counts, Same, Has
<1> HIDE DEF t
<1>4. Has(begun) /\ begun.lost = 0 /\ begun.missed = 0 /\ ~begun.asCapable
  BY <1>2, <1>3 DEF Counts, Same, Has
<1>5. Counts(begun)
  BY <1>4, PdelayAssumption DEF Counts
<1> QED
  BY <1>1, <1>2, <1>5, SameLemma

LEMMA SendWithLemma ==
    ASSUME NEW m, NEW seq, NEW c, Has(m) PROVE Same(SendWith(m, seq, c), m)
<1> DEFINE cleared == [m EXCEPT !.state = "Send", !.seq = seq, !.txSeq = seq,
                                !.rcvdResp = FALSE, !.rcvdFup = FALSE]
           failed == [cleared EXCEPT !.redo = TRUE, !.seq = (@ + SeqMod - 1) % SeqMod]
<1>1. SendWith(m, seq, c) = IF c.send = "fail" THEN failed ELSE Transmitted(cleared, c)
  BY Zenon DEF SendWith
<1>2. Same(cleared, m)
  BY DEF Same, Has
<1> HIDE DEF cleared
<1>3. Same(failed, cleared) /\ Same(Transmitted(cleared, c), cleared)
  BY <1>2, TransmittedLemma DEF Same, Has
<1> QED
  BY <1>1, <1>2, <1>3 DEF Same

-----------------------------------------------------------------------------
(* The steps of a run, each of which keeps the count. *)
LEMMA EnableLemma ==
    ASSUME NEW m, NEW oper, NEW c, Counts(m) PROVE Counts(EnableStep(m, oper, c))
<1>1. Same([m EXCEPT !.state = "NotEnabled", !.redo = FALSE], m)
  BY DEF Same, Counts, Has
<1>2. Same(Send(m, c), m)
  BY SendWithLemma DEF Send, Counts
<1> QED
  BY <1>1, <1>2, SameLemma, InitialSendLemma DEF EnableStep

LEMMA TxTsLemma ==
    ASSUME NEW m, NEW c, Counts(m) PROVE Counts(TxTsStep(m, c))
<1> DEFINE go == [m EXCEPT !.state = "WaitResp", !.rcvdTs = FALSE]
           mocked == [go EXCEPT !.t1 = m.mock, !.mock = NoMock]
<1>1. TxTsStep(m, c) \in {m, go, mocked, InitialSend(m, c), SendWith(m, m.seq, c)}
  BY DEF TxTsStep
<1>2. Same(go, m)
  BY DEF Same, Counts, Has
<1>3. Same(mocked, m)
  BY DEF Same, Counts, Has
<1>4. Same(SendWith(m, m.seq, c), m)
  BY SendWithLemma DEF Counts
<1> HIDE DEF go, mocked
<1> QED
  BY <1>1, <1>2, <1>3, <1>4, SameLemma, InitialSendLemma

(* One more exchange is missed: it is counted, or the port is not capable  *)
(* any more.                                                               *)
LEMMA ResetLemma ==
    ASSUME NEW m, NEW multi, Counts(m) PROVE Counts(Reset(m, multi))
<1> DEFINE u == IF multi /\ m.multi < AllowedLost THEN m.multi + 1 ELSE m.multi
           v == IF m.missed <= AllowedLost THEN m.missed + 1 ELSE m.missed
           r == [m EXCEPT !.state = "Reset", !.rcvdResp = FALSE,
                          !.multi = u, !.missed = v]
           incapable == [r EXCEPT !.measuring = FALSE, !.asCapable = FALSE, !.ratioValid = FALSE]
           counted == IF r.lost < AllowedLost THEN [r EXCEPT !.lost = @ + 1] ELSE incapable
           given == [incapable EXCEPT !.lost = counted.lost]
           idle == [r EXCEPT !.measuring = FALSE]
<1>1. Reset(m, multi) =
          IF r.lost >= AllowedLost /\ ~r.asCapable THEN idle
          ELSE IF ConformToAvnu /\ r.multi >= AllowedLost THEN given
          ELSE counted
  BY Zenon DEF Reset
<1>2. Has(r) /\ r.lost = m.lost /\ r.missed = v /\ r.asCapable = m.asCapable
  BY DEF Counts, Has
<1>3. m.lost \in 0 .. AllowedLost /\ m.missed \in Nat /\ (m.asCapable => m.missed <= m.lost)
  BY DEF Counts
<1>4. AllowedLost \in Nat \ {0} /\ v \in Nat /\ v <= m.missed + 1
  BY <1>3, PdelayAssumption
<1> HIDE DEF r, v
<1>5. /\ Has(idle) /\ idle.lost = r.lost /\ idle.missed = r.missed /\ idle.asCapable = r.asCapable
      /\ Has(incapable) /\ incapable.lost = r.lost /\ incapable.missed = r.missed
      /\ ~incapable.asCapable
  BY <1>2 DEF Has
<1>6. ASSUME r.lost >= AllowedLost, ~r.asCapable PROVE Counts(idle)
  BY <1>2, <1>3, <1>4, <1>5, <1>6 DEF Counts
<1>7. Counts(counted) /\ counted.lost \in 0 .. AllowedLost
  <2>1. CASE r.lost < AllowedLost
    <3> DEFINE more == [r EXCEPT !.lost = @ + 1]
    <3>1. Has(more) /\ more.lost = r.lost + 1 /\ more.missed = r.missed
          /\ more.asCapable = r.asCapable
      BY <1>2 DEF Has
    <3> HIDE DEF more
    <3>2. Counts(more) /\ more.lost \in 0 .. AllowedLost
      BY <1>2, <1>3, <1>4, <2>1, <3>1 DEF Counts
    <3> QED
      BY <2>1, <3>2 DEF more
  <2>2. CASE ~(r.lost < AllowedLost)
    <3> HIDE DEF incapable
    <3> QED
      BY <1>2, <1>3, <1>4, <1>5, <2>2 DEF Counts
  <2> QED
    BY <2>1, <2>2
<1>8. Counts(given)
  <2> HIDE DEF counted, incapable
  <2>1. Has(given) /\ given.lost = counted.lost /\ given.missed = incapable.missed
        /\ ~given.asCapable
    BY <1>5 DEF Has
  <2> QED
    BY <1>2, <1>4, <1>5, <1>7, <2>1 DEF Counts
<1> QED
  BY <1>1, <1>6, <1>7, <1>8

LEMMA RespLemma ==
    ASSUME NEW m, Counts(m) PROVE Counts(RespStep(m))
<1> DEFINE ignored == [m EXCEPT !.rcvdFup = FALSE]
           taken == [m EXCEPT !.state = "WaitFup", !.rcvdResp = FALSE]
<1>1. RespStep(m) \in {m, Reset(m, FALSE), ignored, taken}
  BY DEF RespStep
<1>2. Same(ignored, m) /\ Same(taken, m)
  BY DEF Same, Counts, Has
<1> HIDE DEF ignored, taken
<1> QED
  BY <1>1, <1>2, SameLemma, ResetLemma

(* A completed exchange: nothing is missed any more. *)
LEMMA MeasuredLemma ==
    ASSUME NEW m, NEW c, Counts(m) PROVE Counts(Measured(m, c))
<1> DEFINE same == m.t1 < Old /\ m.t1 = m.t2 /\ m.t2 = m.t3 /\ m.t3 = m.t4
           valid == m.ratioValid \/ ~ComputeRateRatio \/ (c.ratio /\ m.havePrev)
           d == [m EXCEPT !.state = "WaitInterval", !.rcvdFup = FALSE,
                          !.lost = 0, !.multi = 0,
                          !.ratioValid = valid, !.havePrev = ComputeRateRatio,
                          !.propDelay = IF same THEN "sound" ELSE "mixed",
                          !.measuring = TRUE, !.missed = 0]
<1>1. Measured(m, c) \in
          {[d EXCEPT !.faults = 0, !.asCapable = TRUE], [d EXCEPT !.faults = @ + 1],
           [d EXCEPT !.faults = 0, !.asCapable = FALSE, !.measuring = FALSE]}
  BY Zenon DEF Measured
<1>2. Has(d) /\ d.lost = 0 /\ d.missed = 0
  BY DEF Counts, Has
<1> HIDE DEF d
<1>3. ASSUME NEW n \in {[d EXCEPT !.faults = 0, !.asCapable = TRUE], [d EXCEPT !.faults = @ + 1],
                        [d EXCEPT !.faults = 0, !.asCapable = FALSE, !.measuring = FALSE]}
      PROVE  Has(n) /\ n.lost = 0 /\ n.missed = 0
  BY <1>2, <1>3 DEF Has
<1>4. 0 \in 0 .. AllowedLost /\ 0 \in Nat /\ 0 <= 0
  BY PdelayAssumption
<1>5. Has(Measured(m, c)) /\ Measured(m, c).lost = 0 /\ Measured(m, c).missed = 0
  BY <1>1, <1>3, Zenon
<1> QED
  BY <1>4, <1>5, Zenon DEF Counts

LEMMA FupLemma ==
    ASSUME NEW m, NEW c, Counts(m) PROVE Counts(FupStep(m, c))
<1>1. FupStep(m, c) \in {m, Reset(m, FALSE), Reset(m, TRUE), Measured(m, c)}
  BY DEF FupStep
<1> QED
  BY <1>1, ResetLemma, MeasuredLemma

LEMMA IntervalLemma ==
    ASSUME NEW m, NEW c, Counts(m) PROVE Counts(IntervalStep(m, c))
<1> DEFINE quiet == [m EXCEPT !.multi = 0]
<1>1. IntervalStep(m, c) \in {m, quiet, Send(m, c), Send(quiet, c)}
  BY DEF IntervalStep
<1>2. Counts(quiet)
  BY SameLemma DEF Same, Counts, Has
<1> HIDE DEF quiet
<1>3. ASSUME NEW n, Counts(n) PROVE Counts(Send(n, c))
  BY <1>3, SendWithLemma, SameLemma DEF Send, Counts
<1> QED
  BY <1>1, <1>2, <1>3

(* The whole run *)
LEMMA RunLemma ==
    ASSUME NEW m, NEW oper, NEW c, Counts(m) PROVE Counts(Run(m, oper, c))
  BY EnableLemma, TxTsLemma, RespLemma, FupLemma, IntervalLemma DEF Run

-----------------------------------------------------------------------------
LEMMA InitLemma == Init => Counts(sm)
  BY PdelayAssumption DEF Init, SmInit, Counts, Has

(* A handler runs the machine on what it has stored, or stores only. *)
LEMMA StepLemma == Counts(sm) /\ [Next]_vars => Counts(sm')
<1> SUFFICES ASSUME Counts(sm), [Next]_vars PROVE Counts(sm')
  OBVIOUS
<1>1. ASSUME NEW m, NEW remaining, NEW pending, Counts(m), Finish(m, remaining, pending)
      PROVE  Counts(sm')
  <2>1. sm' = [m EXCEPT !.sent = "no"]
    BY <1>1 DEF Finish
  <2>2. Same(sm', m)
    BY <1>1, <2>1 DEF Same, Counts, Has
  <2> QED
    BY <1>1, <2>2, SameLemma
<1>2. CASE Timeout
  BY <1>1, <1>2, RunLemma DEF Timeout
<1>3. CASE TxTs
  <2>1. PICK t \in txts, c \in Choice :
            IF sm.state \in {"Send", "InitialSend"} /\ t.seq = sm.seq
            THEN Finish(Run([sm EXCEPT !.t1 = t.age, !.rcvdTs = TRUE], portOper, c),
                        wire, txts \ {t})
            ELSE Finish(sm, wire, txts \ {t})
    BY <1>3 DEF TxTs
  <2>2. Counts([sm EXCEPT !.t1 = t.age, !.rcvdTs = TRUE])
    BY SameLemma DEF Same, Counts, Has
  <2> QED
    BY <1>1, <2>1, <2>2, RunLemma
<1>4. CASE RecvResp
  <2>1. PICK a \in Arriving("resp"), c \in Choice :
            LET m == Run([sm EXCEPT !.rcvdResp = TRUE, !.resp = Content(a), !.t2 = a.age],
                         portOper, c)
            IN  Finish([m EXCEPT !.t4 = IF m.sent = "no" THEN a.age ELSE Older(a.age)],
                       LeftOver(a), txts)
    BY <1>4 DEF RecvResp
  <2> DEFINE b == [sm EXCEPT !.rcvdResp = TRUE, !.resp = Content(a), !.t2 = a.age]
             m == Run(b, portOper, c)
             n == [m EXCEPT !.t4 = IF m.sent = "no" THEN a.age ELSE Older(a.age)]
  <2>2. Counts(b)
    BY SameLemma DEF Same, Counts, Has
  <2> HIDE DEF b
  <2>3. Counts(m)
    BY <2>2, RunLemma
  <2> HIDE DEF m
  <2>4. Counts(n)
    BY <2>3, SameLemma DEF Same, Counts, Has
  <2>5. Finish(n, LeftOver(a), txts)
    BY <2>1 DEF m, b
  <2> HIDE DEF n
  <2> QED
    BY <1>1, <2>4, <2>5
<1>5. CASE RecvRespFup
  <2>1. PICK a \in Arriving("fup"), c \in Choice :
            Finish(Run([sm EXCEPT !.rcvdFup = TRUE, !.fup = Content(a), !.t3 = a.age],
                       portOper, c), LeftOver(a), txts)
    BY <1>5 DEF RecvRespFup
  <2>2. Counts([sm EXCEPT !.rcvdFup = TRUE, !.fup = Content(a), !.t3 = a.age])
    BY SameLemma DEF Same, Counts, Has
  <2> QED
    BY <1>1, <2>1, <2>2, RunLemma
<1>6. CASE DevUp
  BY <1>6 DEF DevUp
<1>7. CASE DevDown
  <2>1. sm' = [sm EXCEPT !.asCapable = FALSE]
    BY <1>7 DEF DevDown
  <2>2. Has(sm') /\ sm'.lost = sm.lost /\ sm'.missed = sm.missed /\ ~sm'.asCapable
    BY <2>1 DEF Counts, Has
  <2> QED
    BY <2>2 DEF Counts
<1>8. CASE Tick
  BY <1>8, SameLemma DEF Tick, Same, Counts, Has
<1>9. CASE PeerStops
  BY <1>9 DEF PeerStops
<1>10. CASE UNCHANGED vars
  BY <1>10 DEF vars
<1> QED
  BY <1>2, <1>3, <1>4, <1>5, <1>6, <1>7, <1>8, <1>9, <1>10 DEF Next

(* A capable port has not missed more than allowedLostResponses exchanges  *)
(* in a row (CapableWithinLost), whatever the timers, the range of the     *)
(* sequence ids, the order of the messages and the results of the sends.   *)
THEOREM CapablePortIsHeard == Spec => []CapableWithinLost
<1>1. IInv => CapableWithinLost
  BY PdelayAssumption DEF IInv, Counts, CapableWithinLost
<1>2. Init => IInv
  BY InitLemma DEF IInv
<1>3. IInv /\ [Next]_vars => IInv'
  BY StepLemma DEF IInv, Counts, Has
<1> QED
  BY <1>1, <1>2, <1>3, PTL DEF Spec

-----------------------------------------------------------------------------
(***************************************************************************)
(* Types.  What each part of a run returns is stated once, as the facts    *)
(* about it that the proofs below need.                                    *)
(***************************************************************************)

(* The machine during a run. *)
Machine == MachineOf({"no", "ok", "mock"})

(* The sequence ids, counted modulo SeqMod. *)
LEMMA SeqLemma ==
    ASSUME NEW x \in SeqIds
    PROVE  /\ (x + 1) % SeqMod \in SeqIds /\ (x + SeqMod - 1) % SeqMod \in SeqIds
           /\ (((x + SeqMod - 1) % SeqMod) + 1) % SeqMod = x
           /\ (((x + 1) % SeqMod) + SeqMod - 1) % SeqMod = x
           /\ SeqMod > 1 => (x + SeqMod - 1) % SeqMod # x
  BY PdelayAssumption DEF SeqIds

LEMMA AgeLemma ==
    /\ 0 \in Age /\ Old \in Age /\ NoMock \notin Age /\ Older(NoMock) = NoMock
    /\ \A a \in Age : Older(a) \in Age
    /\ 0 < Old
  BY PdelayAssumption DEF Age, Old, Older, NoMock

(* What stays as it is when the machine does not send. *)
Keeps(n, m) ==
    /\ n.sent = m.sent /\ n.elapsed = m.elapsed /\ n.mock = m.mock
    /\ n.t1 = m.t1 /\ n.t2 = m.t2 /\ n.t3 = m.t3 /\ n.t4 = m.t4
    /\ n.resp = m.resp /\ n.fup = m.fup

(* What a transmission does to timers and timestamps. *)
Ages(n, m, c) ==
    /\ ~n.redo /\ n.sent = c.send /\ n.elapsed = 0
    /\ n.mock = IF c.send = "mock" THEN 0 ELSE Older(m.mock)
    /\ n.t1 = Older(m.t1) /\ n.t2 = Older(m.t2) /\ n.t3 = Older(m.t3) /\ n.t4 = Older(m.t4)
    /\ n.resp = m.resp /\ n.fup = m.fup

LEMMA TransmittedFacts ==
    ASSUME NEW m \in Machine, NEW c \in Choice, c.send # "fail"
    PROVE  LET n == Transmitted(m, c)
           IN  /\ n \in Machine /\ Ages(n, m, c)
               /\ n.state = m.state /\ n.seq = m.seq /\ n.txSeq = m.txSeq
               /\ n.rcvdTs = m.rcvdTs /\ n.rcvdResp = m.rcvdResp /\ n.rcvdFup = m.rcvdFup
               /\ n.propDelay = m.propDelay
<1> DEFINE p == IF c.send = "mock" THEN 0 ELSE Older(m.mock)
           n == [m EXCEPT !.redo = FALSE, !.sent = c.send, !.elapsed = 0, !.mock = p,
                          !.t1 = Older(@), !.t2 = Older(@), !.t3 = Older(@), !.t4 = Older(@)]
<1>1. c.send \in {"no", "ok", "mock"}
  BY PdelayAssumption DEF Choice
<1>2. 0 \in 0 .. CeaseTime
  BY PdelayAssumption
<1>3. m.mock \in Age \cup {NoMock} /\ m.t1 \in Age /\ m.t2 \in Age /\ m.t3 \in Age /\ m.t4 \in Age
  BY Zenon DEF Machine, MachineOf
<1>4. \A a \in Age : Older(a) \in Age
  BY AgeLemma
<1>5. p \in Age \cup {NoMock}
  BY AgeLemma, <1>3
<1>6. Transmitted(m, c) = n
  BY Zenon DEF Transmitted
<1>7. /\ Ages(n, m, c) /\ n.propDelay = m.propDelay
      /\ n.state = m.state /\ n.seq = m.seq /\ n.txSeq = m.txSeq
      /\ n.rcvdTs = m.rcvdTs /\ n.rcvdResp = m.rcvdResp /\ n.rcvdFup = m.rcvdFup
  BY DEF Machine, MachineOf, Ages
<1> HIDE DEF p
<1>8. n \in Machine
  BY <1>1, <1>3, <1>4, <1>5, <1>2, ZenonT(60) DEF Machine, MachineOf
<1> QED
  BY <1>6, <1>7, <1>8

LEMMA InitialSendFacts ==
    ASSUME NEW m \in Machine, NEW c \in Choice
    PROVE  LET n == InitialSend(m, c)
           IN  /\ n \in Machine /\ n.state = "InitialSend" /\ n.propDelay = m.propDelay
               /\ ~n.rcvdTs /\ ~n.rcvdResp /\ ~n.rcvdFup
               /\ IF c.send = "fail" THEN n.redo /\ Keeps(n, m) ELSE Ages(n, m, c)
<1> DEFINE cleared == [m EXCEPT !.state = "InitialSend",
                                !.seq = c.seq0, !.txSeq = c.seq0, !.rcvdTs = FALSE, !.rcvdResp = FALSE,
                                !.rcvdFup = FALSE, !.havePrev = FALSE]
           failed == [cleared EXCEPT !.redo = TRUE]
           t == Transmitted(cleared, c)
           begun == [t EXCEPT !.lost = 0, !.multi = 0, !.faults = 0,
                              !.measuring = FALSE, !.asCapable = FALSE,
                              !.missed = 0]
<1>1. InitialSend(m, c) = IF c.send = "fail" THEN failed ELSE begun
  BY Zenon DEF InitialSend
<1>2. c.seq0 \in SeqIds /\ "InitialSend" \in States
  BY DEF Choice, States
<1>3. cleared \in Machine
  BY <1>2, ZenonT(60) DEF Machine, MachineOf
<1>4. /\ Keeps(cleared, m) /\ cleared.state = "InitialSend" /\ cleared.propDelay = m.propDelay
      /\ ~cleared.rcvdTs /\ ~cleared.rcvdResp /\ ~cleared.rcvdFup
  BY DEF Machine, MachineOf, Keeps
<1> HIDE DEF cleared
<1>5. failed \in Machine
  BY <1>3, Zenon DEF Machine, MachineOf
<1>6. /\ failed.redo /\ Keeps(failed, m) /\ failed.state = "InitialSend"
      /\ failed.propDelay = m.propDelay /\ ~failed.rcvdTs /\ ~failed.rcvdResp /\ ~failed.rcvdFup
  BY <1>3, <1>4 DEF Machine, MachineOf, Keeps
<1>7. ASSUME c.send # "fail"
      PROVE  /\ begun \in Machine /\ Ages(begun, m, c) /\ begun.state = "InitialSend"
             /\ begun.propDelay = m.propDelay /\ ~begun.rcvdTs /\ ~begun.rcvdResp /\ ~begun.rcvdFup
  <2>1. /\ t \in Machine /\ Ages(t, cleared, c) /\ t.state = "InitialSend"
        /\ t.propDelay = m.propDelay /\ ~t.rcvdTs /\ ~t.rcvdResp /\ ~t.rcvdFup
    BY <1>3, <1>4, <1>7, TransmittedFacts
  <2>2. 0 \in 0 .. AllowedLost /\ 0 \in 0 .. AllowedFaults + 1 /\ 0 \in 0 .. AllowedLost + 1
    BY PdelayAssumption
  <2> HIDE DEF t
  <2>3. begun \in Machine
    BY <2>1, <2>2, ZenonT(60) DEF Machine, MachineOf
  <2>4. Ages(t, m, c)
    BY <2>1, <1>4 DEF Ages, Keeps
  <2> QED
    BY <2>1, <2>3, <2>4 DEF Machine, MachineOf, Ages
<1> QED
  BY <1>1, <1>5, <1>6, <1>7

LEMMA SendWithFacts ==
    ASSUME NEW m \in Machine, NEW seq \in SeqIds, NEW c \in Choice
    PROVE  LET n == SendWith(m, seq, c)
           IN  /\ n \in Machine /\ n.state = "Send" /\ n.propDelay = m.propDelay
               /\ n.rcvdTs = m.rcvdTs /\ ~n.rcvdResp /\ ~n.rcvdFup /\ n.txSeq = seq
               /\ IF c.send = "fail"
                  THEN n.redo /\ Keeps(n, m) /\ n.seq = (seq + SeqMod - 1) % SeqMod
                  ELSE n.seq = seq /\ Ages(n, m, c)
<1> DEFINE cleared == [m EXCEPT !.state = "Send", !.seq = seq, !.txSeq = seq,
                                !.rcvdResp = FALSE, !.rcvdFup = FALSE]
           failed == [cleared EXCEPT !.redo = TRUE, !.seq = (@ + SeqMod - 1) % SeqMod]
<1>1. SendWith(m, seq, c) = IF c.send = "fail" THEN failed ELSE Transmitted(cleared, c)
  BY Zenon DEF SendWith
<1>2. cleared \in Machine
  <2>1. "Send" \in States
    BY DEF States
  <2> QED
    BY <2>1, ZenonT(60) DEF Machine, MachineOf
<1>3. /\ Keeps(cleared, m) /\ cleared.state = "Send" /\ cleared.propDelay = m.propDelay
      /\ cleared.rcvdTs = m.rcvdTs /\ ~cleared.rcvdResp /\ ~cleared.rcvdFup
      /\ cleared.txSeq = seq /\ cleared.seq = seq
  BY DEF Machine, MachineOf, Keeps
<1> HIDE DEF cleared
<1>4. (cleared.seq + SeqMod - 1) % SeqMod \in SeqIds
  BY <1>3, SeqLemma
<1>5. failed \in Machine
  BY <1>2, <1>4, Zenon DEF Machine, MachineOf
<1>6. /\ failed.redo /\ Keeps(failed, m) /\ failed.state = "Send" /\ failed.txSeq = seq
      /\ failed.propDelay = m.propDelay /\ failed.rcvdTs = m.rcvdTs /\ ~failed.rcvdResp
      /\ ~failed.rcvdFup /\ failed.seq = (seq + SeqMod - 1) % SeqMod
  BY <1>2, <1>3 DEF Machine, MachineOf, Keeps
<1>7. CASE c.send = "fail"
  BY <1>1, <1>5, <1>6, <1>7
<1>8. CASE c.send # "fail"
  BY <1>1, <1>2, <1>3, <1>8, TransmittedFacts DEF Ages, Keeps
<1> QED
  BY <1>7, <1>8

(* RESET counts, and leaves timers and timestamps alone. *)
LEMMA ResetFacts ==
    ASSUME NEW m \in Machine, NEW multi \in BOOLEAN
    PROVE  LET n == Reset(m, multi)
           IN  /\ n \in Machine /\ Keeps(n, m) /\ n.state = "Reset" /\ n.redo = m.redo
               /\ n.rcvdTs = m.rcvdTs /\ ~n.rcvdResp /\ n.rcvdFup = m.rcvdFup
               /\ n.propDelay = m.propDelay
<1> DEFINE u == IF multi /\ m.multi < AllowedLost THEN m.multi + 1 ELSE m.multi
           v == IF m.missed <= AllowedLost THEN m.missed + 1 ELSE m.missed
           r == [m EXCEPT !.state = "Reset", !.rcvdResp = FALSE,
                          !.multi = u, !.missed = v]
           incapable == [r EXCEPT !.measuring = FALSE, !.asCapable = FALSE, !.ratioValid = FALSE]
           counted == IF r.lost < AllowedLost THEN [r EXCEPT !.lost = @ + 1] ELSE incapable
           given == [incapable EXCEPT !.lost = counted.lost]
           idle == [r EXCEPT !.measuring = FALSE]
           Good(n) == /\ n \in Machine /\ Keeps(n, m) /\ n.state = "Reset" /\ n.redo = m.redo
                      /\ n.rcvdTs = m.rcvdTs /\ ~n.rcvdResp /\ n.rcvdFup = m.rcvdFup
                      /\ n.propDelay = m.propDelay
<1>1. Reset(m, multi) =
          IF r.lost >= AllowedLost /\ ~r.asCapable THEN idle
          ELSE IF ConformToAvnu /\ r.multi >= AllowedLost THEN given
          ELSE counted
  BY Zenon DEF Reset
<1>2. m.multi \in 0 .. AllowedLost /\ m.missed \in 0 .. AllowedLost + 1
  BY Zenon DEF Machine, MachineOf
<1>3. u \in 0 .. AllowedLost /\ v \in 0 .. AllowedLost + 1 /\ "Reset" \in States
  BY <1>2, PdelayAssumption DEF States
<1> HIDE DEF u, v
<1>4. r \in Machine
  BY <1>3, ZenonT(60) DEF Machine, MachineOf
<1>5. Good(r)
  BY <1>4 DEF Machine, MachineOf, Keeps
<1> HIDE DEF r
<1>6. idle \in Machine /\ incapable \in Machine
  BY <1>4, ZenonT(60) DEF Machine, MachineOf
<1>7. Good(idle) /\ Good(incapable)
  BY <1>4, <1>5, <1>6 DEF Machine, MachineOf, Keeps
<1>8. ASSUME NEW l \in 0 .. AllowedLost, NEW q, Good(q) PROVE Good([q EXCEPT !.lost = l])
  <2>1. [q EXCEPT !.lost = l] \in Machine
    BY <1>8, Zenon DEF Machine, MachineOf
  <2> QED
    BY <1>8, <2>1 DEF Machine, MachineOf, Keeps
<1> HIDE DEF incapable, idle, Good
<1>9. Good(counted) /\ counted.lost \in 0 .. AllowedLost
  <2>1. r.lost \in 0 .. AllowedLost /\ incapable.lost \in 0 .. AllowedLost
    BY <1>4, <1>6, Zenon DEF Machine, MachineOf
  <2>2. CASE r.lost < AllowedLost
    <3>1. r.lost + 1 \in 0 .. AllowedLost
      BY <2>1, <2>2, PdelayAssumption
    <3>2. counted = [r EXCEPT !.lost = r.lost + 1]
      BY <2>2
    <3>3. Good(counted)
      BY <1>5, <1>8, <3>1, <3>2
    <3> QED
      BY <1>4, <3>1, <3>2, <3>3 DEF Machine, MachineOf
  <2>3. CASE ~(r.lost < AllowedLost)
    BY <1>7, <2>1, <2>3
  <2> QED
    BY <2>2, <2>3
<1> HIDE DEF counted
<1>10. Good(given)
  BY <1>7, <1>8, <1>9
<1>11. Good(Reset(m, multi))
  BY <1>1, <1>7, <1>9, <1>10
<1> QED
  BY <1>11 DEF Good

(* What the delay is computed from decides whether it is sound. *)
LEMMA MeasuredFacts ==
    ASSUME NEW m \in Machine, NEW c \in Choice
    PROVE  LET n == Measured(m, c)
           IN  /\ n \in Machine /\ Keeps(n, m) /\ n.state = "WaitInterval" /\ n.redo = m.redo
               /\ n.rcvdTs = m.rcvdTs /\ n.rcvdResp = m.rcvdResp /\ ~n.rcvdFup
               /\ n.propDelay = IF m.t1 < Old /\ m.t1 = m.t2 /\ m.t2 = m.t3 /\ m.t3 = m.t4
                                THEN "sound" ELSE "mixed"
<1> DEFINE same == m.t1 < Old /\ m.t1 = m.t2 /\ m.t2 = m.t3 /\ m.t3 = m.t4
           delay == IF same THEN "sound" ELSE "mixed"
           valid == m.ratioValid \/ ~ComputeRateRatio \/ (c.ratio /\ m.havePrev)
           d == [m EXCEPT !.state = "WaitInterval", !.rcvdFup = FALSE,
                          !.lost = 0, !.multi = 0,
                          !.ratioValid = valid, !.havePrev = ComputeRateRatio,
                          !.propDelay = delay,
                          !.measuring = TRUE, !.missed = 0]
           fault == d.faults <= AllowedFaults
           notSelf == m.resp.from.src # "us"
           capable == [d EXCEPT !.faults = 0, !.asCapable = TRUE]
           faulty == [d EXCEPT !.faults = @ + 1]
           not == [d EXCEPT !.faults = 0, !.asCapable = FALSE, !.measuring = FALSE]
           Good(n) == /\ n \in Machine /\ Keeps(n, m) /\ n.state = "WaitInterval" /\ n.redo = m.redo
                      /\ n.rcvdTs = m.rcvdTs /\ n.rcvdResp = m.rcvdResp /\ ~n.rcvdFup
                      /\ n.propDelay = delay
<1>1. Measured(m, c) = IF c.delay = "good" /\ notSelf /\ valid THEN capable
                       ELSE IF fault /\ (~notSelf \/ (c.delay = "low" /\ valid)) THEN faulty
                       ELSE not
  BY Zenon DEF Measured
<1>2. "WaitInterval" \in States /\ delay \in {"none", "sound", "mixed"}
  BY DEF States
<1>3. 0 \in 0 .. AllowedLost /\ 0 \in 0 .. AllowedFaults + 1 /\ 0 \in 0 .. AllowedLost + 1
  BY PdelayAssumption
<1>4. valid \in BOOLEAN /\ ComputeRateRatio \in BOOLEAN
  BY PdelayAssumption DEF Machine, MachineOf, Choice
<1> HIDE DEF delay, valid
<1>5. d \in Machine
  BY <1>2, <1>3, <1>4, ZenonT(90) DEF Machine, MachineOf
<1>6. Good(d)
  BY <1>5 DEF Machine, MachineOf, Keeps
<1> HIDE DEF d
<1>7. capable \in Machine /\ not \in Machine
  BY <1>3, <1>5, ZenonT(60) DEF Machine, MachineOf
<1>8. Good(capable) /\ Good(not)
  BY <1>5, <1>6, <1>7 DEF Machine, MachineOf, Keeps
<1>9. ASSUME fault PROVE Good(faulty)
  <2>1. d.faults \in 0 .. AllowedFaults + 1
    BY <1>5, Zenon DEF Machine, MachineOf
  <2>2. d.faults + 1 \in 0 .. AllowedFaults + 1
    BY <1>9, <2>1, PdelayAssumption
  <2>3. faulty \in Machine
    BY <1>5, <2>2, Zenon DEF Machine, MachineOf
  <2> QED
    BY <1>5, <1>6, <2>3 DEF Machine, MachineOf, Keeps
<1> HIDE DEF capable, not, faulty, fault, notSelf, Good
<1>10. Good(Measured(m, c))
  BY <1>1, <1>8, <1>9
<1> QED
  BY <1>10 DEF Good, delay

-----------------------------------------------------------------------------
(* The requests.  A send is tried again only of the request that waits for *)
(* its TxTS; one that failed while it was due may be tried again at once.  *)
Rest(m) ==
    /\ m.redo => m.state \in {"InitialSend", "Send"}
    /\ m.state = "Send" /\ ~m.redo => m.seq = m.txSeq
    /\ m.state = "Send" /\ m.redo =>
           \/ m.elapsed >= Interval
           \/ m.elapsed >= TxTsLost /\ m.txSeq = (m.seq + 1) % SeqMod

(* The machine m of a run that began with o. *)
Unsent(m, o) ==
    /\ m.sent = "no" /\ Rest(m) /\ m.elapsed = o.elapsed
    /\ m.state = "Send" /\ ~m.redo => m.txSeq = o.txSeq

SentOnce(m, o) ==
    /\ m.sent # "no" /\ ~m.redo /\ m.elapsed = 0 /\ m.seq \in SeqIds
    /\ \/ m.state = "InitialSend"
       \/ m.state = "Send" /\ m.seq = m.txSeq
          /\ (o.elapsed >= Interval \/ (o.elapsed >= TxTsLost /\ m.txSeq = o.txSeq))

Turn(m, o) == m \in Machine /\ (Unsent(m, o) \/ SentOnce(m, o))

(* Where a run may begin. *)
Ready(o) == o \in Machine /\ o.sent = "no" /\ Rest(o)

LEMMA ElapsedLemma ==
    ASSUME NEW m \in Machine PROVE m.elapsed \in Nat /\ Interval \in Nat /\ TxTsLost \in Nat
<1>1. m.elapsed \in 0 .. CeaseTime
  BY Zenon DEF Machine, MachineOf
<1> QED
  BY <1>1, PdelayAssumption

LEMMA ChoiceLemma ==
    ASSUME NEW c \in Choice PROVE c.send # "fail" => c.send \in {"ok", "mock"}
  BY PdelayAssumption DEF Choice

(* A request that is due, or whose last attempt failed. *)
LEMMA SendTurnLemma ==
    ASSUME NEW o, NEW m \in Machine, NEW c \in Choice, m.sent = "no", m.elapsed = o.elapsed,
           NEW seq \in SeqIds,
           m.elapsed >= Interval \/ (m.elapsed >= TxTsLost /\ seq = o.txSeq)
    PROVE  Turn(SendWith(m, seq, c), o)
<1> DEFINE n == SendWith(m, seq, c)
<1>1. /\ n \in Machine /\ n.state = "Send" /\ n.txSeq = seq
      /\ IF c.send = "fail"
         THEN n.redo /\ Keeps(n, m) /\ n.seq = (seq + SeqMod - 1) % SeqMod
         ELSE n.seq = seq /\ Ages(n, m, c)
  BY SendWithFacts
<1> SUFFICES Turn(n, o)
  OBVIOUS
<1> HIDE DEF n
<1>2. CASE c.send = "fail"
  <2>1. n.txSeq = (n.seq + 1) % SeqMod
    BY <1>1, <1>2, SeqLemma
  <2>2. n.redo /\ n.sent = "no" /\ n.elapsed = o.elapsed
    BY <1>1, <1>2 DEF Keeps
  <2> QED
    BY <1>1, <2>1, <2>2, ElapsedLemma DEF Turn, Unsent, Rest
<1>3. CASE c.send # "fail"
  <2>1. ~n.redo /\ n.sent # "no" /\ n.elapsed = 0 /\ n.seq = seq
    BY <1>1, <1>3, ChoiceLemma DEF Ages
  <2> QED
    BY <1>1, <2>1, ElapsedLemma DEF Turn, SentOnce
<1> QED
  BY <1>2, <1>3

LEMMA InitialTurnLemma ==
    ASSUME NEW o, NEW m \in Machine, NEW c \in Choice, m.sent = "no", m.elapsed = o.elapsed
    PROVE  Turn(InitialSend(m, c), o)
<1> DEFINE n == InitialSend(m, c)
<1>1. /\ n \in Machine /\ n.state = "InitialSend"
      /\ IF c.send = "fail" THEN n.redo /\ Keeps(n, m) ELSE Ages(n, m, c)
  BY InitialSendFacts
<1>2. n.seq \in SeqIds
  BY <1>1, Zenon DEF Machine, MachineOf
<1> SUFFICES Turn(n, o)
  OBVIOUS
<1> HIDE DEF n
<1>3. CASE c.send = "fail"
  <2>1. n.redo /\ n.sent = "no" /\ n.elapsed = o.elapsed
    BY <1>1, <1>3 DEF Keeps
  <2> QED
    BY <1>1, <2>1 DEF Turn, Unsent, Rest
<1>4. CASE c.send # "fail"
  <2>1. ~n.redo /\ n.sent # "no" /\ n.elapsed = 0
    BY <1>1, <1>4, ChoiceLemma DEF Ages
  <2> QED
    BY <1>1, <1>2, <2>1 DEF Turn, SentOnce
<1> QED
  BY <1>3, <1>4

LEMMA EnableTurnLemma ==
    ASSUME NEW o, NEW oper, NEW c \in Choice, Ready(o)
    PROVE  Turn(EnableStep(o, oper, c), o)
<1> DEFINE off == [o EXCEPT !.state = "NotEnabled", !.redo = FALSE]
<1>1. o \in Machine /\ o.sent = "no" /\ Rest(o) /\ o.seq \in SeqIds
  BY DEF Ready, Machine, MachineOf
<1>2. Turn(off, o)
  <2>1. "NotEnabled" \in States
    BY DEF States
  <2>2. off \in Machine
    BY <1>1, <2>1, Zenon DEF Machine, MachineOf
  <2> QED
    BY <1>1, <2>2 DEF Turn, Unsent, Rest, Machine, MachineOf
<1>3. Turn(o, o)
  BY <1>1 DEF Turn, Unsent
<1>4. ASSUME o.redo, o.state # "InitialSend" PROVE Turn(Send(o, c), o)
  <2> DEFINE seq == (o.seq + 1) % SeqMod
  <2>1. o.state = "Send" /\ seq \in SeqIds
    BY <1>1, <1>4, SeqLemma DEF Rest
  <2>2. o.elapsed >= Interval \/ (o.elapsed >= TxTsLost /\ seq = o.txSeq)
    BY <1>1, <1>4, <2>1, ElapsedLemma DEF Rest
  <2> HIDE DEF seq
  <2>3. Turn(SendWith(o, seq, c), o)
    BY <1>1, <2>1, <2>2, SendTurnLemma
  <2> QED
    BY <2>3 DEF Send, seq
<1>5. Turn(InitialSend(o, c), o)
  BY <1>1, InitialTurnLemma
<1> HIDE DEF off
<1>6. EnableStep(o, oper, c) =
          IF ~oper THEN off
          ELSE IF o.state = "NotEnabled" \/ (o.redo /\ o.state = "InitialSend") THEN InitialSend(o, c)
          ELSE IF o.redo THEN Send(o, c) ELSE o
  BY Zenon DEF EnableStep, off
<1> QED
  BY <1>2, <1>3, <1>4, <1>5, <1>6

LEMMA TxTsTurnLemma ==
    ASSUME NEW m, NEW o, NEW c \in Choice, Turn(m, o)
    PROVE  Turn(TxTsStep(m, c), o)
<1> DEFINE go == [m EXCEPT !.state = "WaitResp", !.rcvdTs = FALSE]
           mocked == [go EXCEPT !.t1 = m.mock, !.mock = NoMock]
<1>1. m \in Machine /\ m.seq \in SeqIds
  BY DEF Turn, Machine, MachineOf
<1>2. CASE ~(m.state \in {"InitialSend", "Send"} /\ m.sent = "no" /\ ~m.redo)
  BY <1>2 DEF TxTsStep
<1>3. CASE m.state \in {"InitialSend", "Send"} /\ m.sent = "no" /\ ~m.redo
  <2>1. Unsent(m, o)
    BY <1>3 DEF Turn, SentOnce
  <2>2. "WaitResp" \in States /\ NoMock \in Age \cup {NoMock}
    BY DEF States
  <2>3. go \in Machine
    BY <1>1, <2>2, Zenon DEF Machine, MachineOf
  <2>4. /\ go.state = "WaitResp" /\ go.sent = "no" /\ go.redo = m.redo /\ go.elapsed = m.elapsed
    BY <1>1, <1>3 DEF Machine, MachineOf
  <2> HIDE DEF go
  <2>5. ASSUME m.mock # NoMock
        PROVE  mocked \in Machine /\ mocked.state = "WaitResp" /\ mocked.sent = "no"
               /\ mocked.redo = m.redo /\ mocked.elapsed = m.elapsed
    <3>1. m.mock \in Age
      BY <1>1, <2>5, Zenon DEF Machine, MachineOf
    <3>2. mocked \in Machine
      BY <2>2, <2>3, <3>1, Zenon DEF Machine, MachineOf
    <3> QED
      BY <2>3, <2>4, <3>2 DEF Machine, MachineOf
  <2> HIDE DEF mocked
  <2>6. ASSUME NEW n \in Machine, n.state = "WaitResp" /\ n.sent = "no",
               n.redo = m.redo /\ n.elapsed = m.elapsed
        PROVE  Turn(n, o)
    BY <1>3, <2>1, <2>6 DEF Turn, Unsent, Rest
  <2>7. Turn(InitialSend(m, c), o)
    BY <1>1, <2>1, InitialTurnLemma DEF Unsent
  <2>8. ASSUME m.state # "InitialSend", ~(m.elapsed < TxTsLost) PROVE Turn(SendWith(m, m.seq, c), o)
    <3>1. m.seq = o.txSeq /\ m.elapsed = o.elapsed /\ m.sent = "no"
      BY <1>3, <2>1, <2>8 DEF Unsent, Rest
    <3>2. m.elapsed >= TxTsLost
      BY <1>1, <2>8, PdelayAssumption DEF Machine, MachineOf
    <3> QED
      BY <1>1, <3>1, <3>2, SendTurnLemma
  <2>9. TxTsStep(m, c) =
            IF m.rcvdTs THEN go
            ELSE IF m.elapsed < TxTsLost THEN m
            ELSE IF m.mock # NoMock THEN mocked
            ELSE IF m.state = "InitialSend" THEN InitialSend(m, c)
            ELSE SendWith(m, m.seq, c)
    BY <1>3 DEF TxTsStep, go, mocked
  <2> QED
    BY <2>3, <2>4, <2>5, <2>6, <2>7, <2>8, <2>9
<1> QED
  BY <1>2, <1>3

LEMMA RespTurnLemma ==
    ASSUME NEW m, NEW o, Turn(m, o) PROVE Turn(RespStep(m), o)
<1> DEFINE ignored == [m EXCEPT !.rcvdFup = FALSE]
           taken == [m EXCEPT !.state = "WaitFup", !.rcvdResp = FALSE]
<1>1. m \in Machine
  BY DEF Turn
<1>2. CASE m.state # "WaitResp"
  BY <1>2 DEF RespStep
<1>3. CASE m.state = "WaitResp"
  <2>1. Unsent(m, o)
    BY <1>3 DEF Turn, SentOnce
  <2>2. "WaitFup" \in States
    BY DEF States
  <2>3. ignored \in Machine /\ taken \in Machine
    BY <1>1, <2>2, Zenon DEF Machine, MachineOf
  <2>4. Turn(ignored, o) /\ Turn(taken, o)
    BY <1>1, <1>3, <2>1, <2>3 DEF Turn, Unsent, Rest, Machine, MachineOf
  <2>5. Turn(Reset(m, FALSE), o)
    BY <1>1, <1>3, <2>1, ResetFacts DEF Turn, Unsent, Rest, Keeps
  <2> HIDE DEF ignored, taken
  <2>6. RespStep(m) \in {m, Reset(m, FALSE), ignored, taken}
    BY DEF RespStep, ignored, taken
  <2> QED
    BY <2>4, <2>5, <2>6
<1> QED
  BY <1>2, <1>3

LEMMA FupTurnLemma ==
    ASSUME NEW m, NEW o, NEW c \in Choice, Turn(m, o) PROVE Turn(FupStep(m, c), o)
<1>1. m \in Machine
  BY DEF Turn
<1>2. CASE m.state # "WaitFup"
  BY <1>2 DEF FupStep
<1>3. CASE m.state = "WaitFup"
  <2>1. Unsent(m, o)
    BY <1>3 DEF Turn, SentOnce
  <2>2. ASSUME NEW multi \in BOOLEAN PROVE Turn(Reset(m, multi), o)
    BY <1>1, <1>3, <2>1, ResetFacts DEF Turn, Unsent, Rest, Keeps
  <2>3. Turn(Measured(m, c), o)
    BY <1>1, <1>3, <2>1, MeasuredFacts DEF Turn, Unsent, Rest, Keeps
  <2>4. FupStep(m, c) \in {m, Reset(m, FALSE), Reset(m, TRUE), Measured(m, c)}
    BY DEF FupStep
  <2> QED
    BY <2>2, <2>3, <2>4
<1> QED
  BY <1>2, <1>3

LEMMA IntervalTurnLemma ==
    ASSUME NEW m, NEW o, NEW c \in Choice, Turn(m, o) PROVE Turn(IntervalStep(m, c), o)
<1> DEFINE quiet == [m EXCEPT !.multi = 0]
<1>1. m \in Machine
  BY DEF Turn
<1>2. CASE m.state \notin {"Reset", "WaitInterval"}
  BY <1>2 DEF IntervalStep
<1>3. CASE m.state \in {"Reset", "WaitInterval"}
  <2>1. Unsent(m, o)
    BY <1>3 DEF Turn, SentOnce
  <2>2. 0 \in 0 .. AllowedLost
    BY PdelayAssumption
  <2>3. quiet \in Machine
    BY <1>1, <2>2, Zenon DEF Machine, MachineOf
  <2>4. Turn(quiet, o) /\ quiet.sent = "no" /\ quiet.elapsed = m.elapsed
    BY <1>1, <1>3, <2>1, <2>3 DEF Turn, Unsent, Rest, Machine, MachineOf
  <2> HIDE DEF quiet
  <2>5. ASSUME NEW n \in Machine, n.sent = "no", n.elapsed = m.elapsed, m.elapsed >= Interval
        PROVE  Turn(Send(n, c), o)
    <3>1. n.seq \in SeqIds /\ n.elapsed = o.elapsed
      BY <2>1, <2>5 DEF Unsent, Machine, MachineOf
    <3>2. Turn(SendWith(n, (n.seq + 1) % SeqMod, c), o)
      BY <2>5, <3>1, SeqLemma, SendTurnLemma
    <3> QED
      BY <3>2 DEF Send
  <2>6. \/ IntervalStep(m, c) \in {m, quiet}
        \/ m.elapsed >= Interval /\ IntervalStep(m, c) \in {Send(m, c), Send(quiet, c)}
    BY DEF IntervalStep, quiet
  <2> QED
    BY <1>1, <2>1, <2>3, <2>4, <2>5, <2>6 DEF Unsent
<1> QED
  BY <1>2, <1>3

LEMMA RunTurnLemma ==
    ASSUME NEW o, NEW oper, NEW c \in Choice, Ready(o) PROVE Turn(Run(o, oper, c), o)
<1>1. Turn(TxTsStep(EnableStep(o, oper, c), c), o)
  BY EnableTurnLemma, TxTsTurnLemma
<1> QED
  BY <1>1, RespTurnLemma, FupTurnLemma, IntervalTurnLemma DEF Run

-----------------------------------------------------------------------------
TxTsOf == [seq: SeqIds, age: Age]

(* TypeOK and Rest are inductive together. *)
Sane == TypeOK /\ Rest(sm)

PacedStep ==
    sm'.elapsed < sm.elapsed =>
          \/ sm'.state = "InitialSend"
          \/ sm.elapsed >= Interval
          \/ sm.elapsed >= TxTsLost /\ sm'.txSeq = sm.txSeq

LEMMA AgedLemma ==
    /\ \A msgs \in SUBSET Answer : Aged(msgs) \subseteq Answer
    /\ \A msgs \in SUBSET TxTsOf : Aged(msgs) \subseteq TxTsOf
<1>1. ASSUME NEW n \in Age, n < MaxDelay PROVE n + 1 \in Age
  BY <1>1, PdelayAssumption DEF Age, Old
<1>2. ASSUME NEW a \in Answer, a.age < MaxDelay PROVE [a EXCEPT !.age = @ + 1] \in Answer
  <2>1. a.age + 1 \in Age
    BY <1>1, <1>2 DEF Answer
  <2> QED
    BY <2>1, Zenon DEF Answer
<1>3. ASSUME NEW a \in TxTsOf, a.age < MaxDelay PROVE [a EXCEPT !.age = @ + 1] \in TxTsOf
  <2>1. a.age + 1 \in Age
    BY <1>1, <1>3 DEF TxTsOf
  <2> QED
    BY <2>1, Zenon DEF TxTsOf
<1> QED
  BY <1>2, <1>3 DEF Aged

(* A handler that ran the machine from o and leaves m. *)
LEMMA FinishLemma ==
    ASSUME Sane, NEW o, o.elapsed = sm.elapsed, o.txSeq = sm.txSeq,
           NEW m, Turn(m, o),
           NEW remaining \in SUBSET Answer, NEW pending \in SUBSET TxTsOf,
           Finish(m, remaining, pending)
    PROVE  Sane' /\ PacedStep
<1>1. m \in Machine /\ sm' = [m EXCEPT !.sent = "no"]
  BY DEF Turn, Finish
<1>2. sm' \in MachineOf({"no"})
  BY <1>1, Zenon DEF Machine, MachineOf
<1>3. /\ sm'.redo = m.redo /\ sm'.state = m.state /\ sm'.seq = m.seq /\ sm'.txSeq = m.txSeq
      /\ sm'.elapsed = m.elapsed
  BY <1>1 DEF Machine, MachineOf
<1>4. m.seq \in SeqIds
  BY <1>1, Zenon DEF Machine, MachineOf
<1>5. wire' \subseteq Answer
  <2>1. ASSUME NEW k \in {"resp", "fup"}
        PROVE  [kind |-> k, seq |-> m.seq, age |-> 0, from |-> Peer] \in Answer
    BY <1>4, AgeLemma DEF Answer, Peer, Origin
  <2>2. Answers(m) \subseteq Answer
    BY <2>1 DEF Answers
  <2> QED
    BY <2>2, AgedLemma DEF Finish
<1>6. txts' \subseteq TxTsOf
  <2>1. [seq |-> m.seq, age |-> 0] \in TxTsOf
    BY <1>4, AgeLemma DEF TxTsOf
  <2> QED
    BY <2>1, AgedLemma DEF Finish
<1>7. TypeOK'
  BY <1>2, <1>5, <1>6 DEF Sane, TypeOK, TxTsOf, Finish
<1>8. CASE Unsent(m, o)
  <2>1. Rest(sm')
    BY <1>3, <1>8 DEF Unsent, Rest
  <2>2. sm'.elapsed = sm.elapsed /\ sm.elapsed \in Nat
    BY <1>3, <1>8, PdelayAssumption DEF Unsent, Sane, TypeOK, MachineOf
  <2> QED
    BY <1>7, <2>1, <2>2 DEF Sane, PacedStep
<1>9. CASE SentOnce(m, o)
  <2>1. Rest(sm')
    BY <1>3, <1>9 DEF SentOnce, Rest
  <2> QED
    BY <1>3, <1>7, <1>9, <2>1 DEF SentOnce, Sane, PacedStep
<1> QED
  BY <1>8, <1>9 DEF Turn

LEMMA ArrivingLemma ==
    ASSUME TypeOK, NEW kind \in {"resp", "fup"}, NEW a \in Arriving(kind)
    PROVE  /\ Content(a) \in [seq: SeqIds, from: Origin] /\ a.age \in Age
           /\ LeftOver(a) \in SUBSET Answer
<1>1. a \in Answer
  <2>1. CASE a \in wire
    BY <2>1 DEF TypeOK
  <2>2. CASE a \notin wire
    BY <2>2, StrangersAssumption, AgeLemma DEF Arriving, Answer
  <2> QED
    BY <2>1, <2>2
<1> QED
  BY <1>1 DEF Content, LeftOver, Answer, TypeOK

(* What the handlers store before the run. *)
LEMMA StoreLemma ==
    ASSUME Sane
    PROVE  /\ Ready(sm)
           /\ \A age \in Age : Ready([sm EXCEPT !.t1 = age, !.rcvdTs = TRUE])
           /\ \A age \in Age, content \in [seq: SeqIds, from: Origin] :
                  /\ Ready([sm EXCEPT !.rcvdResp = TRUE, !.resp = content, !.t2 = age])
                  /\ Ready([sm EXCEPT !.rcvdFup = TRUE, !.fup = content, !.t3 = age])
<1>1. sm \in Machine /\ sm.sent = "no" /\ Rest(sm)
  BY DEF Sane, TypeOK, Machine, MachineOf
<1>2. ASSUME NEW o \in Machine, o.sent = sm.sent, o.state = sm.state, o.redo = sm.redo,
             o.seq = sm.seq, o.txSeq = sm.txSeq, o.elapsed = sm.elapsed
      PROVE  Ready(o)
  BY <1>1, <1>2 DEF Ready, Rest
<1>3. ASSUME NEW age \in Age PROVE Ready([sm EXCEPT !.t1 = age, !.rcvdTs = TRUE])
  <2> DEFINE o == [sm EXCEPT !.t1 = age, !.rcvdTs = TRUE]
  <2>1. o \in Machine
    BY <1>1, Zenon DEF Machine, MachineOf
  <2>2. /\ o.sent = sm.sent /\ o.state = sm.state /\ o.redo = sm.redo
        /\ o.seq = sm.seq /\ o.txSeq = sm.txSeq /\ o.elapsed = sm.elapsed
    BY <1>1 DEF Machine, MachineOf
  <2> QED
    BY <1>2, <2>1, <2>2
<1>4. ASSUME NEW age \in Age, NEW content \in [seq: SeqIds, from: Origin]
      PROVE  Ready([sm EXCEPT !.rcvdResp = TRUE, !.resp = content, !.t2 = age])
  <2> DEFINE o == [sm EXCEPT !.rcvdResp = TRUE, !.resp = content, !.t2 = age]
  <2>1. o \in Machine
    BY <1>1, Zenon DEF Machine, MachineOf
  <2>2. /\ o.sent = sm.sent /\ o.state = sm.state /\ o.redo = sm.redo
        /\ o.seq = sm.seq /\ o.txSeq = sm.txSeq /\ o.elapsed = sm.elapsed
    BY <1>1 DEF Machine, MachineOf
  <2> QED
    BY <1>2, <2>1, <2>2
<1>5. ASSUME NEW age \in Age, NEW content \in [seq: SeqIds, from: Origin]
      PROVE  Ready([sm EXCEPT !.rcvdFup = TRUE, !.fup = content, !.t3 = age])
  <2> DEFINE o == [sm EXCEPT !.rcvdFup = TRUE, !.fup = content, !.t3 = age]
  <2>1. o \in Machine
    BY <1>1, Zenon DEF Machine, MachineOf
  <2>2. /\ o.sent = sm.sent /\ o.state = sm.state /\ o.redo = sm.redo
        /\ o.seq = sm.seq /\ o.txSeq = sm.txSeq /\ o.elapsed = sm.elapsed
    BY <1>1 DEF Machine, MachineOf
  <2> QED
    BY <1>2, <2>1, <2>2
<1> QED
  BY <1>1, <1>3, <1>4, <1>5 DEF Ready

LEMMA SaneInitLemma == Init => Sane
<1> SUFFICES ASSUME Init PROVE Sane
  OBVIOUS
<1>1. /\ 0 \in SeqIds /\ Peer \in Origin /\ CeaseTime \in 0 .. CeaseTime
      /\ 0 \in 0 .. AllowedLost /\ 0 \in 0 .. AllowedFaults + 1 /\ 0 \in 0 .. AllowedLost + 1
  BY PdelayAssumption DEF SeqIds, Peer, Origin
<1>2. NoAnswer \in [seq: SeqIds, from: Origin]
  BY <1>1 DEF NoAnswer
<1>3. SmInit \in MachineOf({"no"})
  BY <1>1, <1>2, AgeLemma DEF SmInit, MachineOf, States
<1> QED
  BY <1>3 DEF Init, Sane, TypeOK, Rest, SmInit

LEMMA SaneStepLemma == Sane /\ [Next]_vars => Sane' /\ PacedStep
<1> SUFFICES ASSUME Sane, [Next]_vars PROVE Sane' /\ PacedStep
  OBVIOUS
<1>1. /\ sm \in MachineOf({"no"}) /\ sm \in Machine /\ wire \in SUBSET Answer
      /\ txts \in SUBSET TxTsOf /\ TypeOK /\ sm.elapsed \in 0 .. CeaseTime
  BY DEF Sane, TypeOK, Machine, MachineOf, TxTsOf
<1>2. CASE Timeout
  <2>1. PICK c \in Choice : Finish(Run(sm, portOper, c), wire, txts)
    BY <1>2 DEF Timeout
  <2> QED
    BY <1>1, <2>1, StoreLemma, RunTurnLemma, FinishLemma
<1>3. CASE TxTs
  <2>1. PICK t \in txts, c \in Choice :
            IF sm.state \in {"Send", "InitialSend"} /\ t.seq = sm.seq
            THEN Finish(Run([sm EXCEPT !.t1 = t.age, !.rcvdTs = TRUE], portOper, c),
                        wire, txts \ {t})
            ELSE Finish(sm, wire, txts \ {t})
    BY <1>3 DEF TxTs
  <2>2. t.age \in Age /\ txts \ {t} \in SUBSET TxTsOf
    BY <1>1 DEF TxTsOf
  <2> DEFINE o == [sm EXCEPT !.t1 = t.age, !.rcvdTs = TRUE]
  <2>3. Ready(o) /\ o.elapsed = sm.elapsed /\ o.txSeq = sm.txSeq
    BY <1>1, <2>2, StoreLemma DEF Machine, MachineOf
  <2>4. CASE Finish(sm, wire, txts \ {t})
    <3>1. Turn(sm, sm)
      BY StoreLemma DEF Ready, Turn, Unsent
    <3> QED
      BY <1>1, <2>2, <2>4, <3>1, FinishLemma
  <2>5. CASE Finish(Run(o, portOper, c), wire, txts \ {t})
    <3> HIDE DEF o
    <3> QED
      BY <1>1, <2>2, <2>3, <2>5, RunTurnLemma, FinishLemma
  <2> QED
    BY <2>1, <2>4, <2>5
<1>4. CASE RecvResp
  <2>1. PICK a \in Arriving("resp"), c \in Choice :
            LET m == Run([sm EXCEPT !.rcvdResp = TRUE, !.resp = Content(a), !.t2 = a.age],
                         portOper, c)
            IN  Finish([m EXCEPT !.t4 = IF m.sent = "no" THEN a.age ELSE Older(a.age)],
                       LeftOver(a), txts)
    BY <1>4 DEF RecvResp
  <2> DEFINE o == [sm EXCEPT !.rcvdResp = TRUE, !.resp = Content(a), !.t2 = a.age]
             m == Run(o, portOper, c)
             t4 == IF m.sent = "no" THEN a.age ELSE Older(a.age)
             n == [m EXCEPT !.t4 = t4]
  <2>2. /\ Content(a) \in [seq: SeqIds, from: Origin] /\ a.age \in Age
        /\ LeftOver(a) \in SUBSET Answer
    BY <1>1, <2>1, ArrivingLemma
  <2>3. Ready(o) /\ o.elapsed = sm.elapsed /\ o.txSeq = sm.txSeq
    BY <1>1, <2>2, StoreLemma DEF Machine, MachineOf
  <2>4. Finish(n, LeftOver(a), txts)
    BY <2>1
  <2> HIDE DEF o
  <2>5. Turn(m, o)
    BY <2>1, <2>3, RunTurnLemma
  <2>6. t4 \in Age
    BY <2>2, AgeLemma
  <2> HIDE DEF m, t4
  <2>7. m \in Machine
    BY <2>5 DEF Turn
  <2>8. n \in Machine
    BY <2>6, <2>7, Zenon DEF Machine, MachineOf
  <2>9. /\ n.sent = m.sent /\ n.redo = m.redo /\ n.state = m.state /\ n.elapsed = m.elapsed
        /\ n.seq = m.seq /\ n.txSeq = m.txSeq
    BY <2>7 DEF Machine, MachineOf
  <2> HIDE DEF n
  <2>10. Turn(n, o)
    BY <2>5, <2>8, <2>9 DEF Turn, Unsent, SentOnce, Rest
  <2> QED
    BY <1>1, <2>2, <2>3, <2>4, <2>10, FinishLemma
<1>5. CASE RecvRespFup
  <2>1. PICK a \in Arriving("fup"), c \in Choice :
            Finish(Run([sm EXCEPT !.rcvdFup = TRUE, !.fup = Content(a), !.t3 = a.age],
                       portOper, c), LeftOver(a), txts)
    BY <1>5 DEF RecvRespFup
  <2> DEFINE o == [sm EXCEPT !.rcvdFup = TRUE, !.fup = Content(a), !.t3 = a.age]
  <2>2. /\ Content(a) \in [seq: SeqIds, from: Origin] /\ a.age \in Age
        /\ LeftOver(a) \in SUBSET Answer
    BY <1>1, <2>1, ArrivingLemma
  <2>3. Ready(o) /\ o.elapsed = sm.elapsed /\ o.txSeq = sm.txSeq
    BY <1>1, <2>2, StoreLemma DEF Machine, MachineOf
  <2>4. Finish(Run(o, portOper, c), LeftOver(a), txts)
    BY <2>1
  <2> HIDE DEF o
  <2> QED
    BY <1>1, <2>1, <2>2, <2>3, <2>4, RunTurnLemma, FinishLemma
<1>6. ASSUME NEW age \in 0 .. CeaseTime, sm' = [sm EXCEPT !.elapsed = age], age >= sm.elapsed,
             UNCHANGED <<portOper, peerUp, wire, txts>>
      PROVE  Sane' /\ PacedStep
  <2>1. sm' \in MachineOf({"no"})
    BY <1>1, <1>6, Zenon DEF MachineOf
  <2>2. /\ sm'.redo = sm.redo /\ sm'.state = sm.state /\ sm'.seq = sm.seq
        /\ sm'.txSeq = sm.txSeq /\ sm'.elapsed = age
    BY <1>1, <1>6 DEF MachineOf
  <2>3. Rest(sm')
    BY <1>1, <1>6, <2>2, PdelayAssumption DEF Sane, Rest
  <2> QED
    BY <1>1, <1>6, <2>1, <2>2, <2>3, PdelayAssumption DEF Sane, TypeOK, PacedStep
<1>7. CASE Tick
  <2>1. sm.elapsed + 1 \in 0 .. CeaseTime /\ sm.elapsed + 1 >= sm.elapsed
    BY <1>1, <1>7, PdelayAssumption DEF Tick
  <2> QED
    BY <1>6, <1>7, <2>1 DEF Tick
<1>8. CASE DevDown
  <2>1. sm' = [sm EXCEPT !.asCapable = FALSE]
    BY <1>8 DEF DevDown
  <2>2. sm' \in MachineOf({"no"})
    BY <1>1, <2>1, Zenon DEF MachineOf
  <2>3. /\ sm'.redo = sm.redo /\ sm'.state = sm.state /\ sm'.seq = sm.seq
        /\ sm'.txSeq = sm.txSeq /\ sm'.elapsed = sm.elapsed
    BY <1>1, <2>1 DEF MachineOf
  <2>4. Rest(sm') /\ PacedStep
    BY <1>1, <2>3, PdelayAssumption DEF Sane, Rest, PacedStep
  <2>5. {portOper', peerUp'} \subseteq BOOLEAN /\ UNCHANGED <<wire, txts>>
    BY <1>1, <1>8 DEF DevDown, TypeOK
  <2> QED
    BY <1>1, <2>2, <2>4, <2>5 DEF Sane, TypeOK
<1>9. CASE UNCHANGED sm /\ {portOper', peerUp'} \subseteq BOOLEAN /\ UNCHANGED <<wire, txts>>
  BY <1>1, <1>9, PdelayAssumption DEF Sane, TypeOK, Rest, PacedStep
<1>10. ASSUME DevUp \/ PeerStops \/ UNCHANGED vars
       PROVE  UNCHANGED sm /\ {portOper', peerUp'} \subseteq BOOLEAN /\ UNCHANGED <<wire, txts>>
  BY <1>1, <1>10 DEF DevUp, PeerStops, vars, TypeOK
<1> QED
  BY <1>2, <1>3, <1>4, <1>5, <1>7, <1>8, <1>9, <1>10 DEF Next

(* While it ceases a run changes nothing. *)
LEMMA CeasedLemma ==
    ASSUME NEW m, NEW c, ConformToAvnu, m.state = "Reset", ~m.redo, m.multi >= AllowedLost,
           m.elapsed < CeaseTime
    PROVE  Run(m, TRUE, c) = m
<1>1. EnableStep(m, TRUE, c) = m
  BY DEF EnableStep
<1>2. TxTsStep(m, c) = m
  BY DEF TxTsStep
<1>3. RespStep(m) = m /\ FupStep(m, c) = m
  BY DEF RespStep, FupStep
<1>4. IntervalStep(m, c) = m
  BY DEF IntervalStep
<1> QED
  BY <1>1, <1>2, <1>3, <1>4 DEF Run

CeasesStep ==
    ConformToAvnu /\ sm.state = "Reset" /\ sm.multi >= AllowedLost
          /\ sm.elapsed < CeaseTime /\ portOper
          /\ sm.state # sm'.state => ~portOper'

LEMMA CeasesLemma == Sane /\ [Next]_vars => CeasesStep
<1> SUFFICES ASSUME Sane, [Next]_vars, ConformToAvnu, sm.state = "Reset", sm.multi >= AllowedLost,
                    sm.elapsed < CeaseTime, portOper, portOper'
             PROVE  sm'.state = sm.state
  BY DEF CeasesStep
<1>1. sm \in MachineOf({"no"}) /\ ~sm.redo /\ portOper = TRUE
  BY DEF Sane, TypeOK, Rest
<1>2. ASSUME NEW o, o.state = sm.state, o.redo = sm.redo, o.multi = sm.multi,
             o.elapsed = sm.elapsed, NEW c
      PROVE  Run(o, portOper, c) = o
  BY <1>1, <1>2, CeasedLemma
<1>3. ASSUME NEW m, DOMAIN m = DOMAIN sm, NEW remaining, NEW pending, Finish(m, remaining, pending)
      PROVE  sm'.state = m.state
  BY <1>1, <1>3 DEF Finish, MachineOf
<1>4. CASE Timeout
  BY <1>2, <1>3, <1>4 DEF Timeout
<1>5. CASE TxTs
  BY <1>3, <1>5 DEF TxTs
<1>6. CASE RecvResp
  <2>1. PICK a \in Arriving("resp"), c \in Choice :
            LET m == Run([sm EXCEPT !.rcvdResp = TRUE, !.resp = Content(a), !.t2 = a.age],
                         portOper, c)
            IN  Finish([m EXCEPT !.t4 = IF m.sent = "no" THEN a.age ELSE Older(a.age)],
                       LeftOver(a), txts)
    BY <1>6 DEF RecvResp
  <2> DEFINE o == [sm EXCEPT !.rcvdResp = TRUE, !.resp = Content(a), !.t2 = a.age]
             n == [o EXCEPT !.t4 = IF o.sent = "no" THEN a.age ELSE Older(a.age)]
  <2>2. /\ o.state = sm.state /\ o.redo = sm.redo /\ o.multi = sm.multi
        /\ o.elapsed = sm.elapsed /\ DOMAIN o = DOMAIN sm
    BY <1>1 DEF MachineOf
  <2>3. Run(o, portOper, c) = o
    BY <1>2, <2>2
  <2>4. Finish(n, LeftOver(a), txts)
    BY <2>1, <2>3
  <2> HIDE DEF o
  <2>5. DOMAIN n = DOMAIN sm /\ n.state = sm.state
    BY <1>1, <2>2 DEF MachineOf
  <2> QED
    BY <1>3, <2>4, <2>5
<1>7. CASE RecvRespFup
  <2>1. PICK a \in Arriving("fup"), c \in Choice :
            Finish(Run([sm EXCEPT !.rcvdFup = TRUE, !.fup = Content(a), !.t3 = a.age],
                       portOper, c), LeftOver(a), txts)
    BY <1>7 DEF RecvRespFup
  <2> DEFINE o == [sm EXCEPT !.rcvdFup = TRUE, !.fup = Content(a), !.t3 = a.age]
  <2>2. /\ o.state = sm.state /\ o.redo = sm.redo /\ o.multi = sm.multi
        /\ o.elapsed = sm.elapsed /\ DOMAIN o = DOMAIN sm
    BY <1>1 DEF MachineOf
  <2>3. Finish(o, LeftOver(a), txts)
    BY <1>2, <2>1, <2>2
  <2> HIDE DEF o
  <2> QED
    BY <1>3, <2>2, <2>3
<1>8. CASE Tick
  BY <1>1, <1>8 DEF Tick, MachineOf
<1>9. CASE DevUp \/ DevDown \/ PeerStops \/ UNCHANGED vars
  BY <1>9 DEF DevUp, DevDown, PeerStops, vars
<1> QED
  BY <1>4, <1>5, <1>6, <1>7, <1>8, <1>9 DEF Next

LEMMA SaneLemma == Spec => []Sane
  BY SaneInitLemma, SaneStepLemma, PTL DEF Spec

(* Every variable stays in its range (TypeOK), for all constants. *)
THEOREM TypeCorrect == Spec => []TypeOK
<1>1. Sane => TypeOK
  BY DEF Sane
<1> QED
  BY <1>1, SaneLemma, PTL

(* Requests are paced (Paced), however sends fail and TxTS are lost. *)
THEOREM RequestsArePaced == Spec => Paced
<1>1. Sane /\ [Next]_vars => [PacedStep]_vars
  BY SaneStepLemma
<1>2. [][PacedStep]_vars => Paced
  BY PTL DEF Paced, PacedStep
<1> QED
  BY <1>1, <1>2, SaneLemma, PTL DEF Spec

(* A port that ceases sends nothing before CeaseTime has passed (Ceases). *)
THEOREM PortCeases == Spec => Ceases
<1>1. Sane /\ [Next]_vars => [CeasesStep]_vars
  BY CeasesLemma
<1>2. [][CeasesStep]_vars => Ceases
  BY PTL DEF Ceases, CeasesStep
<1> QED
  BY <1>1, <1>2, SaneLemma, PTL DEF Spec

-----------------------------------------------------------------------------
(* The delay.  When no message outlives the next request, all comes from   *)
(* the peer and the driver reports hardware timestamps only, what the      *)
(* machine has received belongs to the last request.                       *)
Prompt ==
    MaxDelay = 0 /\ Strangers = {} /\ SeqMod > 1 /\ "mock" \notin SendResults

(* The timestamps that have been received are of the last request; late is *)
(* whether t4 is yet to be stored, as in the handler of a response.        *)
Stamps(m, late) ==
    /\ m.mock = NoMock /\ m.propDelay # "mixed" /\ m.resp.from = Peer /\ m.fup.from = Peer
    /\ m.rcvdFup => m.t3 = 0
    /\ m.rcvdResp => m.t2 = 0 /\ (late \/ m.t4 = 0)
    /\ m.state = "WaitResp" => m.t1 = 0 /\ ~(late /\ m.rcvdFup)
    /\ m.state = "WaitFup" => m.t1 = 0 /\ m.t2 = 0 /\ (m.t4 = 0 \/ (late /\ ~m.rcvdFup))
    /\ m.sent # "no" => ~m.rcvdResp /\ ~m.rcvdFup /\ m.state \in {"InitialSend", "Send"}

(* The TxTS that the driver may still report: of the request that waits    *)
(* for one, and none that a request to be sent again would take for its.   *)
Pending(m, T) ==
    m.sent = "no" =>
        /\ m.state \in {"WaitResp", "WaitFup", "Reset", "WaitInterval"} => T = {}
        /\ m.state = "Send" /\ m.redo => \A t \in T : t.seq # m.seq
        /\ m.state \in {"InitialSend", "Send"} /\ ~m.redo => \A t \in T : t.seq = m.seq

(* The TxTS that came in is of the request that waits for it. *)
Seen(m, T, late) ==
    m.rcvdTs /\ m.state # "NotEnabled" =>
        /\ m.state \in {"InitialSend", "Send"} /\ m.t1 = 0 /\ ~late
        /\ m.redo => m.state = "InitialSend"
        /\ ~m.redo => T = {} /\ m.sent = "no"

Own(m, T, late) == Stamps(m, late) /\ Pending(m, T) /\ Seen(m, T, late)

(* What a run leaves. *)
Clean(m) ==
    /\ m.rcvdTs => m.state = "NotEnabled"
    /\ m.state = "WaitResp" => ~m.rcvdFup

LEMMA PromptLemma ==
    ASSUME Prompt PROVE Old = 1 /\ \A c \in Choice : c.send # "fail" => c.send = "ok"
<1>1. Old = 1
  BY DEF Prompt, Old
<1>2. ASSUME NEW c \in Choice, c.send # "fail" PROVE c.send = "ok"
  BY <1>2, PdelayAssumption DEF Prompt, Choice
<1> QED
  BY <1>1, <1>2

LEMMA SendOwnLemma ==
    ASSUME Prompt, NEW m \in Machine, NEW seq \in SeqIds, NEW c \in Choice, NEW T,
           NEW late \in BOOLEAN,
           Stamps(m, late), ~m.rcvdTs, m.sent = "no",
           \A t \in T : t.seq # (seq + SeqMod - 1) % SeqMod
    PROVE  Own(SendWith(m, seq, c), T, late) /\ ~SendWith(m, seq, c).rcvdTs
<1> DEFINE n == SendWith(m, seq, c)
<1>1. /\ n \in Machine /\ n.state = "Send" /\ n.propDelay = m.propDelay
      /\ n.rcvdTs = m.rcvdTs /\ ~n.rcvdResp /\ ~n.rcvdFup /\ n.txSeq = seq
      /\ IF c.send = "fail"
         THEN n.redo /\ Keeps(n, m) /\ n.seq = (seq + SeqMod - 1) % SeqMod
         ELSE n.seq = seq /\ Ages(n, m, c)
  BY SendWithFacts
<1> SUFFICES Own(n, T, late) /\ ~n.rcvdTs
  OBVIOUS
<1> HIDE DEF n
<1>2. n.mock = NoMock /\ n.resp.from = Peer /\ n.fup.from = Peer /\ n.propDelay # "mixed"
  <2>1. CASE c.send = "fail"
    BY <1>1, <2>1 DEF Stamps, Keeps
  <2>2. CASE c.send # "fail"
    BY <1>1, <2>2, PromptLemma, AgeLemma DEF Stamps, Ages
  <2> QED
    BY <2>1, <2>2
<1>3. Stamps(n, late) /\ Seen(n, T, late)
  BY <1>1, <1>2 DEF Stamps, Seen
<1>4. Pending(n, T)
  <2>1. CASE c.send = "fail"
    BY <1>1, <2>1 DEF Pending
  <2>2. CASE c.send # "fail"
    <3>1. n.sent # "no"
      BY <1>1, <2>2, PromptLemma DEF Ages
    <3> QED
      BY <3>1 DEF Pending
  <2> QED
    BY <2>1, <2>2
<1> QED
  BY <1>1, <1>3, <1>4 DEF Own

LEMMA InitialOwnLemma ==
    ASSUME Prompt, NEW m \in Machine, NEW c \in Choice, NEW T, NEW late \in BOOLEAN,
           Stamps(m, late), m.sent = "no"
    PROVE  Own(InitialSend(m, c), T, late) /\ ~InitialSend(m, c).rcvdTs
<1> DEFINE n == InitialSend(m, c)
<1>1. /\ n \in Machine /\ n.state = "InitialSend" /\ n.propDelay = m.propDelay
      /\ ~n.rcvdTs /\ ~n.rcvdResp /\ ~n.rcvdFup
      /\ IF c.send = "fail" THEN n.redo /\ Keeps(n, m) ELSE Ages(n, m, c)
  BY InitialSendFacts
<1> SUFFICES Own(n, T, late) /\ ~n.rcvdTs
  OBVIOUS
<1> HIDE DEF n
<1>2. n.mock = NoMock /\ n.resp.from = Peer /\ n.fup.from = Peer /\ n.propDelay # "mixed"
  <2>1. CASE c.send = "fail"
    BY <1>1, <2>1 DEF Stamps, Keeps
  <2>2. CASE c.send # "fail"
    BY <1>1, <2>2, PromptLemma, AgeLemma DEF Stamps, Ages
  <2> QED
    BY <2>1, <2>2
<1>3. Stamps(n, late) /\ Seen(n, T, late)
  BY <1>1, <1>2 DEF Stamps, Seen
<1>4. Pending(n, T)
  <2>1. CASE c.send = "fail"
    BY <1>1, <2>1 DEF Pending
  <2>2. CASE c.send # "fail"
    <3>1. n.sent # "no"
      BY <1>1, <2>2, PromptLemma DEF Ages
    <3> QED
      BY <3>1 DEF Pending
  <2> QED
    BY <2>1, <2>2
<1> QED
  BY <1>1, <1>3, <1>4 DEF Own

LEMMA EnableOwnLemma ==
    ASSUME Prompt, NEW o, NEW oper, NEW c \in Choice, NEW T, NEW late \in BOOLEAN,
           Ready(o), Own(o, T, late)
    PROVE  LET n == EnableStep(o, oper, c)
           IN  Own(n, T, late) /\ (n.redo => ~n.rcvdTs)
<1> DEFINE off == [o EXCEPT !.state = "NotEnabled", !.redo = FALSE]
           Good(n) == Own(n, T, late) /\ (n.redo => ~n.rcvdTs)
<1>1. o \in Machine /\ o.sent = "no" /\ Rest(o) /\ o.seq \in SeqIds
  BY DEF Ready, Machine, MachineOf
<1>2. Good(off)
  <2>1. /\ off.state = "NotEnabled" /\ ~off.redo /\ off.sent = "no" /\ Keeps(off, o)
        /\ off.rcvdResp = o.rcvdResp /\ off.rcvdFup = o.rcvdFup /\ off.propDelay = o.propDelay
    BY <1>1 DEF Machine, MachineOf, Keeps
  <2> HIDE DEF off
  <2>2. Stamps(off, late)
    BY <2>1 DEF Own, Stamps, Keeps
  <2>3. Pending(off, T) /\ Seen(off, T, late)
    BY <2>1 DEF Pending, Seen
  <2> QED
    BY <2>1, <2>2, <2>3 DEF Own
<1>3. Good(InitialSend(o, c))
  BY <1>1, InitialOwnLemma DEF Own
<1>4. ASSUME o.redo, o.state # "InitialSend" PROVE Good(Send(o, c))
  <2> DEFINE seq == (o.seq + 1) % SeqMod
  <2>1. o.state = "Send" /\ seq \in SeqIds /\ (seq + SeqMod - 1) % SeqMod = o.seq
    BY <1>1, <1>4, SeqLemma DEF Rest
  <2>2. ~o.rcvdTs /\ \A t \in T : t.seq # o.seq
    BY <1>1, <1>4, <2>1 DEF Own, Pending, Seen
  <2> HIDE DEF seq
  <2>3. Good(SendWith(o, seq, c))
    BY <1>1, <2>1, <2>2, SendOwnLemma DEF Own
  <2> QED
    BY <2>3 DEF Send, seq
<1>5. ASSUME ~o.redo PROVE Good(o)
  BY <1>5
<1> HIDE DEF off, Good
<1>6. EnableStep(o, oper, c) =
          IF ~oper THEN off
          ELSE IF o.state = "NotEnabled" \/ (o.redo /\ o.state = "InitialSend") THEN InitialSend(o, c)
          ELSE IF o.redo THEN Send(o, c) ELSE o
  BY Zenon DEF EnableStep, off
<1>7. Good(EnableStep(o, oper, c))
  BY <1>2, <1>3, <1>4, <1>5, <1>6
<1> QED
  BY <1>7 DEF Good

LEMMA TxTsOwnLemma ==
    ASSUME Prompt, NEW m, NEW o, NEW c \in Choice, NEW T, NEW late \in BOOLEAN,
           Turn(m, o), Own(m, T, late), m.redo => ~m.rcvdTs
    PROVE  LET n == TxTsStep(m, c)
           IN  Own(n, T, late) /\ (n.rcvdTs => n.state = "NotEnabled")
<1> DEFINE go == [m EXCEPT !.state = "WaitResp", !.rcvdTs = FALSE]
           Good(n) == Own(n, T, late) /\ (n.rcvdTs => n.state = "NotEnabled")
<1>1. m \in Machine /\ m.seq \in SeqIds
  BY DEF Turn, Machine, MachineOf
<1>2. CASE ~(m.state \in {"InitialSend", "Send"} /\ m.sent = "no" /\ ~m.redo)
  <2>1. m.rcvdTs => m.state = "NotEnabled"
    BY <1>1, <1>2 DEF Own, Seen
  <2> QED
    BY <1>2, <2>1 DEF TxTsStep
<1>3. CASE m.state \in {"InitialSend", "Send"} /\ m.sent = "no" /\ ~m.redo
  <2>1. m.mock = NoMock /\ Stamps(m, late) /\ Pending(m, T) /\ Seen(m, T, late)
    BY DEF Own, Stamps
  <2>2. TxTsStep(m, c) =
            IF m.rcvdTs THEN go
            ELSE IF m.elapsed < TxTsLost THEN m
            ELSE IF m.state = "InitialSend" THEN InitialSend(m, c)
            ELSE SendWith(m, m.seq, c)
    BY <1>3, <2>1 DEF TxTsStep
  <2>3. ASSUME m.rcvdTs PROVE Good(go)
    <3>1. T = {} /\ m.t1 = 0 /\ ~late
      BY <1>3, <2>1, <2>3 DEF Seen
    <3>2. /\ go.state = "WaitResp" /\ ~go.rcvdTs /\ Keeps(go, m)
          /\ go.rcvdResp = m.rcvdResp /\ go.rcvdFup = m.rcvdFup /\ go.propDelay = m.propDelay
      BY <1>1 DEF Machine, MachineOf, Keeps
    <3> HIDE DEF go
    <3>3. Stamps(go, late)
      BY <1>3, <2>1, <3>1, <3>2 DEF Stamps, Keeps
    <3>4. Pending(go, T) /\ Seen(go, T, late)
      BY <3>1, <3>2 DEF Pending, Seen
    <3> QED
      BY <3>2, <3>3, <3>4 DEF Own
  <2>4. ASSUME ~m.rcvdTs PROVE Good(m) /\ Good(InitialSend(m, c)) /\ Good(SendWith(m, m.seq, c))
    <3>1. \A t \in T : t.seq # (m.seq + SeqMod - 1) % SeqMod
      BY <1>1, <1>3, <2>1, SeqLemma DEF Pending, Prompt
    <3>2. Good(InitialSend(m, c))
      BY <1>1, <1>3, <2>1, InitialOwnLemma
    <3>3. Good(SendWith(m, m.seq, c))
      BY <1>1, <1>3, <2>1, <2>4, <3>1, SendOwnLemma
    <3> QED
      BY <2>4, <3>2, <3>3
  <2> HIDE DEF Good, go
  <2>5. Good(TxTsStep(m, c))
    BY <2>2, <2>3, <2>4
  <2> QED
    BY <2>5 DEF Good
<1> QED
  BY <1>2, <1>3

LEMMA RespOwnLemma ==
    ASSUME Prompt, NEW m, NEW o, NEW T, NEW late \in BOOLEAN,
           Turn(m, o), Own(m, T, late), m.rcvdTs => m.state = "NotEnabled"
    PROVE  Own(RespStep(m), T, late) /\ Clean(RespStep(m))
<1> DEFINE ignored == [m EXCEPT !.rcvdFup = FALSE]
           taken == [m EXCEPT !.state = "WaitFup", !.rcvdResp = FALSE]
           Good(n) == Own(n, T, late) /\ Clean(n)
<1>1. m \in Machine
  BY DEF Turn
<1>2. CASE m.state # "WaitResp"
  BY <1>2 DEF RespStep, Clean
<1>3. CASE m.state = "WaitResp"
  <2>1. m.sent = "no" /\ T = {} /\ ~m.rcvdTs /\ Stamps(m, late)
    BY <1>3 DEF Own, Stamps, Pending
  <2>2. Good(ignored)
    <3>1. /\ ignored.state = "WaitResp" /\ ~ignored.rcvdTs /\ Keeps(ignored, m)
          /\ ignored.rcvdResp = m.rcvdResp /\ ~ignored.rcvdFup
          /\ ignored.propDelay = m.propDelay
      BY <1>1, <1>3, <2>1 DEF Machine, MachineOf, Keeps
    <3> HIDE DEF ignored
    <3>2. Stamps(ignored, late)
      BY <1>3, <2>1, <3>1 DEF Stamps, Keeps
    <3> QED
      BY <2>1, <3>1, <3>2 DEF Own, Pending, Seen, Clean
  <2>3. ASSUME m.rcvdResp PROVE Good(taken)
    <3>1. /\ taken.state = "WaitFup" /\ ~taken.rcvdTs /\ Keeps(taken, m)
          /\ ~taken.rcvdResp /\ taken.rcvdFup = m.rcvdFup
          /\ taken.propDelay = m.propDelay
      BY <1>1, <1>3, <2>1 DEF Machine, MachineOf, Keeps
    <3> HIDE DEF taken
    <3>2. Stamps(taken, late)
      BY <1>3, <2>1, <2>3, <3>1 DEF Stamps, Keeps
    <3> QED
      BY <2>1, <3>1, <3>2 DEF Own, Pending, Seen, Clean
  <2>4. Good(Reset(m, FALSE))
    <3> DEFINE n == Reset(m, FALSE)
    <3>1. /\ Keeps(n, m) /\ n.state = "Reset" /\ n.redo = m.redo /\ n.rcvdTs = m.rcvdTs
          /\ ~n.rcvdResp /\ n.rcvdFup = m.rcvdFup /\ n.propDelay = m.propDelay
      BY <1>1, ResetFacts
    <3> HIDE DEF n
    <3>2. Stamps(n, late)
      BY <1>3, <2>1, <3>1 DEF Stamps, Keeps
    <3>3. Own(n, T, late) /\ Clean(n)
      BY <2>1, <3>1, <3>2 DEF Own, Pending, Seen, Clean
    <3> QED
      BY <3>3 DEF n
  <2> HIDE DEF ignored, taken, Good
  <2>5. /\ RespStep(m) \in {Reset(m, FALSE), ignored, taken}
        /\ RespStep(m) = taken => m.rcvdResp \/ taken \in {Reset(m, FALSE), ignored}
    <3>1. m.resp.from.sdo
      BY <2>1 DEF Stamps, Peer
    <3> QED
      BY <1>3, <3>1 DEF RespStep, ignored, taken
  <2>6. Good(RespStep(m))
    BY <2>2, <2>3, <2>4, <2>5
  <2> QED
    BY <2>6 DEF Good
<1> QED
  BY <1>2, <1>3

LEMMA FupOwnLemma ==
    ASSUME Prompt, NEW m, NEW o, NEW c \in Choice, NEW T, NEW late \in BOOLEAN,
           Turn(m, o), Own(m, T, late), Clean(m)
    PROVE  Own(FupStep(m, c), T, late) /\ Clean(FupStep(m, c))
<1>1. m \in Machine
  BY DEF Turn
<1>2. CASE m.state # "WaitFup"
  BY <1>2 DEF FupStep
<1>3. CASE m.state = "WaitFup"
  <2> DEFINE Good(n) == Own(n, T, late) /\ Clean(n)
  <2>1. m.sent = "no" /\ T = {} /\ ~m.rcvdTs /\ Stamps(m, late)
    BY <1>3 DEF Own, Stamps, Pending, Clean
  <2>2. ASSUME NEW multi \in BOOLEAN PROVE Good(Reset(m, multi))
    <3> DEFINE n == Reset(m, multi)
    <3>1. /\ Keeps(n, m) /\ n.state = "Reset" /\ n.redo = m.redo /\ n.rcvdTs = m.rcvdTs
          /\ ~n.rcvdResp /\ n.rcvdFup = m.rcvdFup /\ n.propDelay = m.propDelay
      BY <1>1, ResetFacts
    <3> HIDE DEF n
    <3>2. Stamps(n, late)
      BY <1>3, <2>1, <3>1 DEF Stamps, Keeps
    <3>3. Own(n, T, late) /\ Clean(n)
      BY <2>1, <3>1, <3>2 DEF Own, Pending, Seen, Clean
    <3> QED
      BY <3>3 DEF n
  <2>3. ASSUME m.rcvdFup PROVE Good(Measured(m, c))
    <3> DEFINE n == Measured(m, c)
    <3>1. /\ Keeps(n, m) /\ n.state = "WaitInterval" /\ n.redo = m.redo /\ n.rcvdTs = m.rcvdTs
          /\ n.rcvdResp = m.rcvdResp /\ ~n.rcvdFup
          /\ n.propDelay = IF m.t1 < Old /\ m.t1 = m.t2 /\ m.t2 = m.t3 /\ m.t3 = m.t4
                           THEN "sound" ELSE "mixed"
      BY <1>1, MeasuredFacts
    <3>2. m.t1 = 0 /\ m.t2 = 0 /\ m.t3 = 0 /\ m.t4 = 0
      BY <1>3, <2>1, <2>3 DEF Stamps
    <3>3. n.propDelay = "sound"
      BY <3>1, <3>2, PromptLemma
    <3> HIDE DEF n
    <3>4. Stamps(n, late)
      BY <1>3, <2>1, <3>1, <3>3 DEF Stamps, Keeps
    <3>5. Own(n, T, late) /\ Clean(n)
      BY <2>1, <3>1, <3>4 DEF Own, Pending, Seen, Clean
    <3> QED
      BY <3>5 DEF n
  <2>4. Good(m)
    BY <1>3
  <2> HIDE DEF Good
  <2>5. \/ FupStep(m, c) \in {m, Reset(m, FALSE), Reset(m, TRUE)}
        \/ m.rcvdFup /\ FupStep(m, c) = Measured(m, c)
    BY DEF FupStep
  <2>6. Good(FupStep(m, c))
    BY <2>2, <2>3, <2>4, <2>5
  <2> QED
    BY <2>6 DEF Good
<1> QED
  BY <1>2, <1>3

LEMMA IntervalOwnLemma ==
    ASSUME Prompt, NEW m, NEW o, NEW c \in Choice, NEW T, NEW late \in BOOLEAN,
           Turn(m, o), Own(m, T, late), Clean(m)
    PROVE  Own(IntervalStep(m, c), T, late) /\ Clean(IntervalStep(m, c))
<1> DEFINE quiet == [m EXCEPT !.multi = 0]
           Good(n) == Own(n, T, late) /\ Clean(n)
<1>1. m \in Machine
  BY DEF Turn
<1>2. CASE m.state \notin {"Reset", "WaitInterval"}
  BY <1>2 DEF IntervalStep
<1>3. CASE m.state \in {"Reset", "WaitInterval"}
  <2>1. m.sent = "no" /\ T = {} /\ ~m.rcvdTs /\ Stamps(m, late)
    BY <1>3 DEF Own, Stamps, Pending, Clean
  <2>2. 0 \in 0 .. AllowedLost
    BY PdelayAssumption
  <2>3. quiet \in Machine
    BY <1>1, <2>2, Zenon DEF Machine, MachineOf
  <2>4. /\ Keeps(quiet, m) /\ quiet.state = m.state /\ quiet.rcvdTs = m.rcvdTs
        /\ quiet.rcvdResp = m.rcvdResp /\ quiet.rcvdFup = m.rcvdFup
        /\ quiet.propDelay = m.propDelay /\ quiet.sent = "no"
    BY <1>1, <2>1 DEF Machine, MachineOf, Keeps
  <2> HIDE DEF quiet
  <2>5. Stamps(quiet, late)
    BY <1>3, <2>1, <2>4 DEF Stamps, Keeps
  <2>6. Good(quiet)
    BY <1>3, <2>1, <2>4, <2>5 DEF Own, Pending, Seen, Clean
  <2>7. ASSUME NEW n \in Machine, Stamps(n, late), ~n.rcvdTs, n.sent = "no"
        PROVE  Good(Send(n, c))
    <3>1. (n.seq + 1) % SeqMod \in SeqIds
      BY <2>7, SeqLemma DEF Machine, MachineOf
    <3>2. Send(n, c) = SendWith(n, (n.seq + 1) % SeqMod, c)
      BY DEF Send
    <3>3. Send(n, c).state = "Send"
      BY <3>1, <3>2, SendWithFacts
    <3>4. Own(Send(n, c), T, late) /\ ~Send(n, c).rcvdTs
      BY <2>1, <2>7, <3>1, <3>2, SendOwnLemma
    <3> QED
      BY <3>3, <3>4 DEF Clean
  <2>8. Good(m)
    OBVIOUS
  <2> HIDE DEF Good
  <2>9. IntervalStep(m, c) \in {m, quiet, Send(m, c), Send(quiet, c)}
    BY DEF IntervalStep, quiet
  <2>10. Good(Send(m, c)) /\ Good(Send(quiet, c))
    BY <1>1, <2>1, <2>3, <2>4, <2>5, <2>7
  <2>11. Good(IntervalStep(m, c))
    BY <2>6, <2>8, <2>9, <2>10
  <2> QED
    BY <2>11 DEF Good
<1> QED
  BY <1>2, <1>3

LEMMA RunOwnLemma ==
    ASSUME Prompt, NEW o, NEW oper, NEW c \in Choice, NEW T, NEW late \in BOOLEAN,
           Ready(o), Own(o, T, late)
    PROVE  Own(Run(o, oper, c), T, late) /\ Clean(Run(o, oper, c))
<1> DEFINE e == EnableStep(o, oper, c)
           t == TxTsStep(e, c)
           r == RespStep(t)
           f == FupStep(r, c)
<1>1. Turn(e, o) /\ Own(e, T, late) /\ (e.redo => ~e.rcvdTs)
  BY EnableTurnLemma, EnableOwnLemma
<1> HIDE DEF e
<1>2. Turn(t, o) /\ Own(t, T, late) /\ (t.rcvdTs => t.state = "NotEnabled")
  BY <1>1, TxTsTurnLemma, TxTsOwnLemma
<1> HIDE DEF t
<1>3. Turn(r, o) /\ Own(r, T, late) /\ Clean(r)
  BY <1>2, RespTurnLemma, RespOwnLemma
<1> HIDE DEF r
<1>4. Turn(f, o) /\ Own(f, T, late) /\ Clean(f)
  BY <1>3, FupTurnLemma, FupOwnLemma
<1> HIDE DEF f
<1>5. Own(IntervalStep(f, c), T, late) /\ Clean(IntervalStep(f, c))
  BY <1>4, IntervalOwnLemma
<1> QED
  BY <1>5 DEF Run, e, t, r, f

(* The invariant that says so of every state. *)
Exact ==
    /\ Own(sm, txts, FALSE) /\ Clean(sm)
    /\ \A a \in wire : a.age = 0 /\ a.from = Peer
    /\ \A t \in txts : t.age = 0

LEMMA FinishOwnLemma ==
    ASSUME Prompt, Exact, NEW o, NEW m, Turn(m, o),
           NEW remaining \in SUBSET wire, NEW pending \in SUBSET txts,
           Own(m, pending, FALSE), Clean(m), Finish(m, remaining, pending)
    PROVE  Exact'
<1>1. m \in Machine /\ sm' = [m EXCEPT !.sent = "no"]
  BY DEF Turn, Finish
<1>2. /\ sm'.sent = "no" /\ sm'.redo = m.redo /\ sm'.state = m.state /\ sm'.seq = m.seq
      /\ sm'.mock = m.mock /\ sm'.propDelay = m.propDelay /\ sm'.resp = m.resp
      /\ sm'.fup = m.fup /\ sm'.t1 = m.t1 /\ sm'.t2 = m.t2 /\ sm'.t3 = m.t3 /\ sm'.t4 = m.t4
      /\ sm'.rcvdTs = m.rcvdTs /\ sm'.rcvdResp = m.rcvdResp /\ sm'.rcvdFup = m.rcvdFup
  BY <1>1 DEF Machine, MachineOf
<1>3. Stamps(sm', FALSE) /\ Clean(sm') /\ Seen(sm', txts', FALSE)
  BY <1>2 DEF Own, Stamps, Clean, Seen
<1>4. Aged(remaining) = {} /\ Aged(pending) = {}
  BY DEF Aged, Exact, Prompt
<1>5. \A a \in wire' : a.age = 0 /\ a.from = Peer
  <2>1. CASE m.sent = "no"
    BY <2>1 DEF Finish, Exact
  <2>2. CASE m.sent # "no"
    <3>1. wire' = Answers(m)
      BY <1>4, <2>2 DEF Finish
    <3> QED
      BY <3>1 DEF Answers
  <2> QED
    BY <2>1, <2>2
<1>6. (\A t \in txts' : t.age = 0) /\ Pending(sm', txts')
  <2>1. CASE m.sent = "no"
    BY <1>2, <2>1 DEF Finish, Exact, Own, Pending
  <2>2. CASE m.sent # "no"
    <3>1. m.state \in {"InitialSend", "Send"} /\ ~m.redo
      BY <2>2 DEF Turn, Unsent, SentOnce
    <3>2. txts' \subseteq {[seq |-> m.seq, age |-> 0]}
      BY <1>4, <2>2 DEF Finish
    <3>3. \A t \in txts' : t.age = 0 /\ t.seq = m.seq
      BY <3>2
    <3> QED
      BY <1>2, <3>1, <3>3 DEF Pending
  <2> QED
    BY <2>1, <2>2
<1> QED
  BY <1>3, <1>5, <1>6 DEF Exact, Own

LEMMA ExactInitLemma == Init => Exact
  BY AgeLemma DEF Init, Exact, SmInit, NoAnswer, Own, Stamps, Pending, Seen, Clean

LEMMA ArrivedLemma ==
    ASSUME Prompt, Exact, NEW kind, NEW a \in Arriving(kind)
    PROVE  a.age = 0 /\ Content(a).from = Peer /\ LeftOver(a) \in SUBSET wire
  BY DEF Prompt, Exact, Arriving, Content, LeftOver

LEMMA ExactStepLemma == Prompt /\ Sane /\ Exact /\ [Next]_vars => Exact'
<1> SUFFICES ASSUME Prompt, Sane, Exact, [Next]_vars PROVE Exact'
  OBVIOUS
<1>1. /\ sm \in Machine /\ sm.sent = "no" /\ txts \in SUBSET TxTsOf /\ TypeOK /\ Ready(sm)
  BY StoreLemma DEF Sane, TypeOK, Machine, MachineOf, TxTsOf
<1>2. CASE Timeout
  <2>1. PICK c \in Choice : Finish(Run(sm, portOper, c), wire, txts)
    BY <1>2 DEF Timeout
  <2> DEFINE m == Run(sm, portOper, c)
  <2>2. Turn(m, sm) /\ Own(m, txts, FALSE) /\ Clean(m)
    BY <1>1, <2>1, RunTurnLemma, RunOwnLemma DEF Exact
  <2> HIDE DEF m
  <2> QED
    BY <2>1, <2>2, FinishOwnLemma DEF m
<1>3. CASE TxTs
  <2>1. PICK t \in txts, c \in Choice :
            IF sm.state \in {"Send", "InitialSend"} /\ t.seq = sm.seq
            THEN Finish(Run([sm EXCEPT !.t1 = t.age, !.rcvdTs = TRUE], portOper, c),
                        wire, txts \ {t})
            ELSE Finish(sm, wire, txts \ {t})
    BY <1>3 DEF TxTs
  <2> DEFINE T == txts \ {t}
             o == [sm EXCEPT !.t1 = t.age, !.rcvdTs = TRUE]
             m == Run(o, portOper, c)
  <2>2. CASE sm.state \in {"Send", "InitialSend"} /\ t.seq = sm.seq
    <3>1. t.age = 0 /\ t.age \in Age /\ Ready(o)
      BY <1>1, <2>1, StoreLemma DEF Exact, TxTsOf
    <3>2. sm.redo => sm.state = "InitialSend"
      BY <1>1, <2>1, <2>2 DEF Exact, Own, Pending
    <3>3. ASSUME ~sm.redo PROVE T = {}
      <4>1. \A u \in txts : u.seq = sm.seq /\ u.age = 0 /\ u \in TxTsOf
        BY <1>1, <2>2, <3>3 DEF Exact, Own, Pending
      <4>2. \A u \in txts : u = [seq |-> sm.seq, age |-> 0]
        BY <4>1 DEF TxTsOf
      <4> QED
        BY <2>1, <4>2
    <3>4. /\ o.sent = "no" /\ o.redo = sm.redo /\ o.state = sm.state /\ o.seq = sm.seq
          /\ o.mock = sm.mock /\ o.propDelay = sm.propDelay /\ o.resp = sm.resp
          /\ o.fup = sm.fup /\ o.t1 = 0 /\ o.t2 = sm.t2 /\ o.t3 = sm.t3 /\ o.t4 = sm.t4
          /\ o.rcvdResp = sm.rcvdResp /\ o.rcvdFup = sm.rcvdFup
      BY <1>1, <3>1 DEF Machine, MachineOf
    <3> HIDE DEF o
    <3>5. Stamps(o, FALSE)
      BY <2>2, <3>4 DEF Exact, Own, Stamps
    <3>6. Pending(o, T) /\ Seen(o, T, FALSE)
      BY <2>2, <3>2, <3>3, <3>4 DEF Exact, Own, Pending, Seen
    <3>7. Turn(m, o) /\ Own(m, T, FALSE) /\ Clean(m)
      BY <2>1, <3>1, <3>5, <3>6, RunTurnLemma, RunOwnLemma DEF Own
    <3>8. Finish(m, wire, T)
      BY <2>1, <2>2 DEF o
    <3> HIDE DEF m
    <3> QED
      BY <3>7, <3>8, FinishOwnLemma
  <2>3. CASE ~(sm.state \in {"Send", "InitialSend"} /\ t.seq = sm.seq)
    <3>1. Turn(sm, sm)
      BY <1>1 DEF Ready, Turn, Unsent
    <3>2. Own(sm, T, FALSE) /\ Clean(sm)
      BY DEF Exact, Own, Pending, Seen, Clean
    <3> QED
      BY <2>1, <2>3, <3>1, <3>2, FinishOwnLemma
  <2> QED
    BY <2>2, <2>3
<1>4. CASE RecvResp
  <2>1. PICK a \in Arriving("resp"), c \in Choice :
            LET m == Run([sm EXCEPT !.rcvdResp = TRUE, !.resp = Content(a), !.t2 = a.age],
                         portOper, c)
            IN  Finish([m EXCEPT !.t4 = IF m.sent = "no" THEN a.age ELSE Older(a.age)],
                       LeftOver(a), txts)
    BY <1>4 DEF RecvResp
  <2> DEFINE o == [sm EXCEPT !.rcvdResp = TRUE, !.resp = Content(a), !.t2 = a.age]
             m == Run(o, portOper, c)
             t4 == IF m.sent = "no" THEN a.age ELSE Older(a.age)
             n == [m EXCEPT !.t4 = t4]
  <2>2. /\ Content(a) \in [seq: SeqIds, from: Origin] /\ a.age \in Age
        /\ a.age = 0 /\ Content(a).from = Peer /\ LeftOver(a) \in SUBSET wire
    BY <1>1, <2>1, ArrivingLemma, ArrivedLemma
  <2>3. Ready(o)
    BY <2>2, StoreLemma
  <2>4. /\ o.sent = "no" /\ o.redo = sm.redo /\ o.state = sm.state /\ o.seq = sm.seq
        /\ o.mock = sm.mock /\ o.propDelay = sm.propDelay /\ o.resp = Content(a)
        /\ o.fup = sm.fup /\ o.t1 = sm.t1 /\ o.t2 = 0 /\ o.t3 = sm.t3 /\ o.t4 = sm.t4
        /\ o.rcvdTs = sm.rcvdTs /\ o.rcvdResp = TRUE /\ o.rcvdFup = sm.rcvdFup
    BY <1>1, <2>2 DEF Machine, MachineOf
  <2>5. Finish(n, LeftOver(a), txts)
    BY <2>1
  <2> HIDE DEF o
  <2>6. Stamps(o, TRUE)
    <3>1. Stamps(sm, FALSE) /\ (sm.state = "WaitResp" => ~sm.rcvdFup)
      BY DEF Exact, Own, Clean
    <3>2. o.resp.from = Peer
      BY <2>2, <2>4
    <3> QED
      BY <1>1, <2>4, <3>1, <3>2 DEF Stamps
  <2>7. Pending(o, txts) /\ Seen(o, txts, TRUE)
    BY <1>1, <2>4 DEF Exact, Own, Pending, Seen, Clean
  <2>8. Turn(m, o) /\ Own(m, txts, TRUE) /\ Clean(m)
    BY <2>1, <2>3, <2>6, <2>7, RunTurnLemma, RunOwnLemma DEF Own
  <2>9. t4 \in Age /\ (m.sent = "no" => t4 = 0)
    BY <2>2, AgeLemma
  <2> HIDE DEF m, t4
  <2>10. m \in Machine
    BY <2>8 DEF Turn
  <2>11. n \in Machine
    BY <2>9, <2>10, Zenon DEF Machine, MachineOf
  <2>12. /\ n.sent = m.sent /\ n.redo = m.redo /\ n.state = m.state /\ n.elapsed = m.elapsed
         /\ n.seq = m.seq /\ n.txSeq = m.txSeq
         /\ n.mock = m.mock /\ n.propDelay = m.propDelay /\ n.resp = m.resp
         /\ n.fup = m.fup /\ n.t1 = m.t1 /\ n.t2 = m.t2 /\ n.t3 = m.t3 /\ n.t4 = t4
         /\ n.rcvdTs = m.rcvdTs /\ n.rcvdResp = m.rcvdResp /\ n.rcvdFup = m.rcvdFup
    BY <2>10 DEF Machine, MachineOf
  <2> HIDE DEF n
  <2>13. Turn(n, o)
    BY <2>8, <2>11, <2>12 DEF Turn, Unsent, SentOnce, Rest
  <2>14. Stamps(n, FALSE)
    BY <2>8, <2>9, <2>12 DEF Own, Stamps, Clean
  <2>15. Pending(n, txts) /\ Seen(n, txts, FALSE) /\ Clean(n)
    BY <2>8, <2>12 DEF Own, Pending, Seen, Clean
  <2> QED
    BY <2>2, <2>5, <2>13, <2>14, <2>15, FinishOwnLemma DEF Own
<1>5. CASE RecvRespFup
  <2>1. PICK a \in Arriving("fup"), c \in Choice :
            Finish(Run([sm EXCEPT !.rcvdFup = TRUE, !.fup = Content(a), !.t3 = a.age],
                       portOper, c), LeftOver(a), txts)
    BY <1>5 DEF RecvRespFup
  <2> DEFINE o == [sm EXCEPT !.rcvdFup = TRUE, !.fup = Content(a), !.t3 = a.age]
             m == Run(o, portOper, c)
  <2>2. /\ Content(a) \in [seq: SeqIds, from: Origin] /\ a.age \in Age
        /\ a.age = 0 /\ Content(a).from = Peer /\ LeftOver(a) \in SUBSET wire
    BY <1>1, <2>1, ArrivingLemma, ArrivedLemma
  <2>3. Ready(o)
    BY <2>2, StoreLemma
  <2>4. /\ o.sent = "no" /\ o.redo = sm.redo /\ o.state = sm.state /\ o.seq = sm.seq
        /\ o.mock = sm.mock /\ o.propDelay = sm.propDelay /\ o.resp = sm.resp
        /\ o.fup = Content(a) /\ o.t1 = sm.t1 /\ o.t2 = sm.t2 /\ o.t3 = 0 /\ o.t4 = sm.t4
        /\ o.rcvdTs = sm.rcvdTs /\ o.rcvdResp = sm.rcvdResp /\ o.rcvdFup = TRUE
    BY <1>1, <2>2 DEF Machine, MachineOf
  <2>5. Finish(m, LeftOver(a), txts)
    BY <2>1
  <2> HIDE DEF o
  <2>6. Stamps(o, FALSE)
    <3>1. Stamps(sm, FALSE)
      BY DEF Exact, Own
    <3>2. o.fup.from = Peer
      BY <2>2, <2>4
    <3> QED
      BY <1>1, <2>4, <3>1, <3>2 DEF Stamps
  <2>7. Pending(o, txts) /\ Seen(o, txts, FALSE)
    BY <1>1, <2>4 DEF Exact, Own, Pending, Seen, Clean
  <2>8. Turn(m, o) /\ Own(m, txts, FALSE) /\ Clean(m)
    BY <2>1, <2>3, <2>6, <2>7, RunTurnLemma, RunOwnLemma DEF Own
  <2> HIDE DEF m
  <2> QED
    BY <2>2, <2>5, <2>8, FinishOwnLemma
<1>6. ASSUME /\ sm'.sent = sm.sent /\ sm'.redo = sm.redo /\ sm'.state = sm.state
             /\ sm'.seq = sm.seq /\ sm'.mock = sm.mock /\ sm'.propDelay = sm.propDelay
             /\ sm'.resp = sm.resp /\ sm'.fup = sm.fup
             /\ sm'.t1 = sm.t1 /\ sm'.t2 = sm.t2 /\ sm'.t3 = sm.t3 /\ sm'.t4 = sm.t4
             /\ sm'.rcvdTs = sm.rcvdTs /\ sm'.rcvdResp = sm.rcvdResp /\ sm'.rcvdFup = sm.rcvdFup
             /\ UNCHANGED <<wire, txts>>
      PROVE  Exact'
  BY <1>6 DEF Exact, Own, Stamps, Pending, Seen, Clean
<1>7. CASE Tick \/ DevDown
  BY <1>1, <1>6, <1>7 DEF Tick, DevDown, Machine, MachineOf
<1>8. CASE DevUp \/ PeerStops \/ UNCHANGED vars
  BY <1>6, <1>8 DEF DevUp, PeerStops, vars
<1> QED
  BY <1>2, <1>3, <1>4, <1>5, <1>7, <1>8 DEF Next

(* The delay is computed from the timestamps of one exchange               *)
(* (SoundPropDelay), in whatever order its messages and TxTS come in,      *)
(* duplicated, lost or late within the exchange.                           *)
THEOREM DelayIsSound == Prompt /\ Spec => []SoundPropDelay
<1> DEFINE Inv == Prompt /\ Sane /\ Exact
<1>1. Prompt /\ Init => Inv
  BY SaneInitLemma, ExactInitLemma
<1>2. Inv /\ [Next]_vars => Inv'
  BY SaneStepLemma, ExactStepLemma DEF Prompt
<1>3. Inv => SoundPropDelay
  BY DEF Exact, Own, Stamps, SoundPropDelay
<1> HIDE DEF Inv
<1> QED
  BY <1>1, <1>2, <1>3, PTL DEF Spec
=============================================================================
