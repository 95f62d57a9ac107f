------------------------- MODULE PdelayResp_proofs -------------------------
(***************************************************************************)
(* Proofs about the responder of the peer delay measurement: its types,    *)
(* that it sends no follow-up without a response, and that a neighbour     *)
(* that counts its requests is told its own timestamps.                    *)
(***************************************************************************)
EXTENDS PdelayResp, TLAPS

(* What a run of the machine gives for the data it starts with: a machine  *)
(* that keeps the two facts below, and has sent two messages at most.      *)
Rests(m) == m \in Machine /\ Len(m.out) <= 2

(* A response that has left waits for its follow-up, and a follow-up that  *)
(* could not be sent is still owed: the invariant FollowsResponse needs.   *)
Owes(m) ==
    /\ m.state = "Sent" /\ ~m.redo => m.owed
    /\ m.state # "Sent" /\ m.redo => m.owed

IInv == TypeOK /\ Owes(sm)

(* The first message of a run is a follow-up. *)
FupFirst(m) == m.out # <<>> /\ m.out[1].kind = "fup"

-----------------------------------------------------------------------------
(* Append, as the machine uses it. *)
LEMMA AppendLemma ==
    ASSUME NEW out \in Seq(Message), NEW x \in Message, Len(out) <= 1
    PROVE  /\ Append(out, x) \in Seq(Message) /\ Len(Append(out, x)) <= 2
           /\ Append(out, x) # <<>>
           /\ out # <<>> => Append(out, x)[1] = out[1]
           /\ out = <<>> => Append(out, x)[1] = x /\ Len(Append(out, x)) = 1
  OBVIOUS

(* A response is one message, added to what was sent. *)
LEMMA SendRespLemma ==
    ASSUME NEW m \in Machine, NEW send \in SendResults, Len(m.out) <= 1
    PROVE  /\ Rests(SendResp(m, send)) /\ Owes(SendResp(m, send))
           /\ FupFirst(SendResp(m, send)) => FupFirst(m)
<1> DEFINE x == [kind |-> "resp", seq |-> m.seq, own |-> m.t2, stamped |-> send = "ok"]
           r == SendResp(m, send)
<1>1. x \in Message
  BY DEF Message, Machine
<1>2. CASE send = "fail"
  <2>1. r = [m EXCEPT !.state = "Sent", !.rcvdReq = FALSE, !.rcvdTs = FALSE, !.redo = TRUE]
    BY <1>2, Zenon DEF SendResp
  <2> HIDE DEF r
  <2>2. r \in Machine /\ r.out = m.out /\ r.redo /\ r.state = "Sent"
    BY <2>1 DEF Machine
  <2> QED
    BY <2>2 DEF Rests, Owes, FupFirst, r
<1>3. CASE send # "fail"
  <2> DEFINE n == IF send = "mock" THEN "own" ELSE m.mock
             u == [m EXCEPT !.state = "Sent", !.rcvdReq = FALSE, !.rcvdTs = FALSE, !.redo = FALSE]
             v == [u EXCEPT !.elapsed = 0, !.owed = TRUE, !.mock = n]
  <2>1. n \in {"none", "own", "other"}
    BY DEF Machine
  <2>2. u \in Machine /\ u.out = m.out /\ u.mock = m.mock /\ u.state = "Sent" /\ ~u.redo
    BY DEF Machine
  <2>3. r = [v EXCEPT !.out = Append(@, x)]
    <3>1. u = [m EXCEPT !.state = "Sent", !.rcvdReq = FALSE, !.rcvdTs = FALSE,
                        !.redo = send = "fail"]
      BY <1>3
    <3>2. r = [u EXCEPT !.elapsed = 0, !.owed = TRUE, !.mock = IF send = "mock" THEN "own" ELSE @,
                        !.out = Append(@, x)]
      BY <1>3, <3>1, Zenon DEF SendResp
    <3> QED
      BY <2>2, <3>2
  <2> HIDE DEF n, u
  <2>4. v \in Machine /\ v.out = u.out /\ v.owed /\ v.state = "Sent" /\ ~v.redo
    <3>1. 0 \in 0 .. TxTsLost
      BY PdelayRespAssumption
    <3>2. v \in Machine
      BY <2>1, <2>2, <3>1, Zenon DEF Machine
    <3> QED
      BY <2>2, <3>2 DEF Machine
  <2> HIDE DEF r, x, v
  <2>5. /\ r \in Machine
        /\ r.out = Append(m.out, x) /\ r.owed /\ r.state = "Sent"
    <3>1. m.out \in Seq(Message)
      BY DEF Machine
    <3>2. Append(m.out, x) \in Seq(Message)
      BY <3>1, <1>1, AppendLemma
    <3> QED
      BY <2>2, <2>3, <2>4, <3>2 DEF Machine
  <2>6. m.out \in Seq(Message)
    BY DEF Machine
  <2>7. x.kind # "fup"
    BY DEF x
  <2>8. Rests(r) /\ Owes(r)
    BY <2>5, <2>6, <1>1, AppendLemma DEF Rests, Owes
  <2>9. FupFirst(r) => FupFirst(m)
    BY <2>5, <2>6, <2>7, <1>1, AppendLemma DEF FupFirst
  <2> QED
    BY <2>8, <2>9 DEF r
<1> QED
  BY <1>2, <1>3

(* A follow-up that is sent settles what is owed; a response may come      *)
(* after it in the same run.                                               *)
LEMMA SendFupLemma ==
    ASSUME NEW m \in Machine, NEW fails \in BOOLEAN, NEW send \in SendResults,
           m.out = <<>>, m.owed
    PROVE  Rests(SendFup(m, fails, send)) /\ Owes(SendFup(m, fails, send))
<1> DEFINE f == [m EXCEPT !.state = "WaitReq", !.redo = fails]
           x == [kind |-> "fup", seq |-> m.seq, own |-> m.t3, stamped |-> FALSE]
           sent == [f EXCEPT !.owed = FALSE, !.out = Append(@, x)]
<1>1. x \in Message
  BY DEF Message, Machine
<1>2. f \in Machine /\ f.out = <<>> /\ f.owed
  BY DEF Machine
<1>3. SendFup(m, fails, send) =
          IF fails THEN f ELSE IF m.rcvdReq THEN SendResp(sent, send) ELSE sent
  BY Zenon DEF SendFup
<1> HIDE DEF f, x
<1>4. sent \in Machine /\ Len(sent.out) <= 1 /\ (~fails => Owes(sent))
  <2>1. /\ Append(f.out, x) \in Seq(Message) /\ Len(Append(f.out, x)) = 1
    BY <1>1, <1>2
  <2>2. sent \in Machine
    BY <1>2, <2>1, Zenon DEF Machine
  <2>3. sent.out = Append(f.out, x) /\ sent.state = f.state /\ sent.redo = f.redo
    BY <1>2 DEF Machine
  <2>4. f.state = "WaitReq" /\ f.redo = fails
    BY DEF f, Machine
  <2> QED
    BY <2>1, <2>2, <2>3, <2>4 DEF Owes
<1>5. Rests(f) /\ Owes(f)
  BY <1>2 DEF Rests, Owes
<1> HIDE DEF sent
<1>6. Rests(SendResp(sent, send)) /\ Owes(SendResp(sent, send))
  BY <1>4, SendRespLemma
<1> QED
  BY <1>3, <1>4, <1>5, <1>6 DEF Rests

(* What Run does, but for the messages of the run before. *)
LEMMA RunLemma ==
    ASSUME NEW m \in Machine, NEW oper \in BOOLEAN, NEW fails \in BOOLEAN,
           NEW send \in SendResults, Owes(m)
    PROVE  /\ Rests(Run(m, oper, fails, send)) /\ Owes(Run(m, oper, fails, send))
           /\ FupFirst(Run(m, oper, fails, send)) => m.owed
<1> DEFINE s == [m EXCEPT !.out = <<>>]
           run == Run(m, oper, fails, send)
<1>1. /\ s \in Machine /\ s.out = <<>> /\ Owes(s) /\ s.owed = m.owed
      /\ s.state = m.state /\ s.redo = m.redo
  <2>1. s \in Machine
    <3>1. <<>> \in Seq(Message)
      OBVIOUS
    <3> QED
      BY <3>1, Zenon DEF Machine
  <2>2. s.out = <<>> /\ s.owed = m.owed /\ s.state = m.state /\ s.redo = m.redo
    BY DEF Machine
  <2> QED
    BY <2>1, <2>2 DEF Owes
<1>2. run = IF ~oper THEN Disabled(s)
            ELSE IF s.state = "Sent"
                 THEN IF s.redo THEN SendResp(s, send) ELSE AwaitTxTs(s, fails, send)
            ELSE IF s.redo THEN SendFup(s, fails, send)
            ELSE IF s.rcvdReq THEN SendResp(s, send) ELSE s
  BY Zenon DEF Run
<1> HIDE DEF s, run
<1>3. Rests(s) /\ ~FupFirst(s)
  BY <1>1 DEF Rests, FupFirst
<1>4. /\ Rests(Disabled(s)) /\ Owes(Disabled(s)) /\ ~FupFirst(Disabled(s))
  <2>1. Disabled(s) \in Machine
    BY <1>1, Zenon DEF Disabled, Machine
  <2>2. Disabled(s).out = <<>> /\ Disabled(s).state = "Initial" /\ ~Disabled(s).redo
    BY <1>1 DEF Disabled, Machine
  <2> QED
    BY <2>1, <2>2 DEF Rests, Owes, FupFirst
<1>5. /\ Rests(SendResp(s, send)) /\ Owes(SendResp(s, send))
      /\ ~FupFirst(SendResp(s, send))
  BY <1>1, <1>3, SendRespLemma
<1>6. ASSUME s.owed
      PROVE  Rests(SendFup(s, fails, send)) /\ Owes(SendFup(s, fails, send))
  BY <1>1, <1>6, SendFupLemma
<1>7. ASSUME s.state = "Sent", ~s.redo
      PROVE  LET a == AwaitTxTs(s, fails, send)
             IN  Rests(a) /\ Owes(a) /\ (FupFirst(a) => s.owed)
  <2> DEFINE t == [s EXCEPT !.t3 = s.mock = "own", !.mock = "none"]
  <2>1. s.owed
    BY <1>1, <1>7 DEF Owes
  <2>2. t \in Machine /\ t.out = <<>> /\ t.owed
    BY <1>1, <2>1, ZenonT(60) DEF Machine
  <2>3. AwaitTxTs(s, fails, send) =
            IF s.rcvdTs THEN SendFup(s, fails, send)
            ELSE IF s.elapsed < TxTsLost THEN s
            ELSE IF s.mock # "none" THEN SendFup(t, fails, send)
            ELSE SendResp(s, send)
    BY Zenon DEF AwaitTxTs
  <2> HIDE DEF t
  <2>4. Rests(SendFup(t, fails, send)) /\ Owes(SendFup(t, fails, send))
    BY <2>2, SendFupLemma
  <2> QED
    BY <1>1, <1>3, <1>5, <1>6, <2>1, <2>3, <2>4
<1> QED
  BY <1>1, <1>2, <1>3, <1>4, <1>5, <1>6, <1>7 DEF Owes, run

-----------------------------------------------------------------------------
(* The handlers keep the bound of what is sent, and the types.             *)
LEMMA FinishLemma ==
    ASSUME NEW m, NEW pending, TypeOK, Rests(m),
           pending \subseteq [seq: SeqIds, own: BOOLEAN], Finish(m, pending)
    PROVE  world' \in Worlds /\ sm' \in Machine /\ Len(sm'.out) <= 2 /\ portOper' \in BOOLEAN
           /\ txts' \subseteq [seq: SeqIds, own: BOOLEAN]
<1>1. Stamped(m) \subseteq [seq: SeqIds, own: BOOLEAN]
  <2>1. m.out \in Seq(Message)
    BY DEF Rests, Machine
  <2>2. \A i \in DOMAIN m.out : m.out[i] \in Message
    BY <2>1
  <2>3. \A i \in DOMAIN m.out : m.out[i].seq \in SeqIds
    BY <2>2 DEF Message
  <2>4. \A i \in DOMAIN m.out :
            [seq |-> m.out[i].seq, own |-> TRUE] \in [seq: SeqIds, own: BOOLEAN]
    BY <2>3
  <2> QED
    BY <2>4, Zenon DEF Stamped
<1> QED
  BY <1>1 DEF Finish, TypeOK, Rests

(* The machine with the buffer filled by a request. *)
LEMMA BufferedLemma ==
    ASSUME NEW seq \in SeqIds, IInv
    PROVE  /\ Buffered(seq) \in Machine /\ Buffered(seq).out = <<>> /\ Owes(Buffered(seq))
           /\ Buffered(seq).owed = sm.owed
<1> DEFINE n == IF sm.mock = "own" THEN "other" ELSE sm.mock
<1>1. n \in {"none", "own", "other"} /\ <<>> \in Seq(Message)
  BY DEF IInv, TypeOK, Machine
<1>2. Buffered(seq) = [sm EXCEPT !.seq = seq, !.t2 = FALSE, !.t3 = FALSE, !.out = <<>>,
                                 !.ignored = FALSE, !.mock = n]
  BY DEF Buffered, IInv, TypeOK, Machine
<1> HIDE DEF n
<1>3. Buffered(seq) \in Machine
  BY <1>1, <1>2, Zenon DEF IInv, TypeOK, Machine
<1>4. /\ Buffered(seq).out = <<>> /\ Buffered(seq).owed = sm.owed
      /\ Buffered(seq).state = sm.state /\ Buffered(seq).redo = sm.redo
  BY <1>2 DEF IInv, TypeOK, Machine
<1> QED
  BY <1>3, <1>4 DEF Owes, IInv

(* Both parts of the invariant after a handler, and what it has sent. *)
LEMMA HandlerLemma ==
    ASSUME NEW m \in Machine, NEW pending, NEW fails \in BOOLEAN, NEW send \in SendResults,
           IInv, Owes(m), m.owed = sm.owed, pending \subseteq [seq: SeqIds, own: BOOLEAN],
           Finish(Run(m, portOper, fails, send), pending), last' \in SeqIds
    PROVE  IInv' /\ (FupFirst(sm') => sm.owed)
<1> DEFINE r == Run(m, portOper, fails, send)
<1>1. portOper \in BOOLEAN
  BY DEF IInv, TypeOK
<1>2. Rests(r) /\ Owes(r) /\ (FupFirst(r) => m.owed)
  BY <1>1, RunLemma
<1> HIDE DEF r
<1>3. Finish(r, pending)
  BY DEF r
<1>4. sm' = r
  BY <1>3 DEF Finish
<1> QED
  BY <1>2, <1>3, <1>4, FinishLemma DEF IInv, TypeOK, Owes

(* A handler that runs no machine and sends nothing. *)
LEMMA QuietLemma ==
    ASSUME NEW m \in Machine, NEW pending,
           IInv, Owes(m), m.out = <<>>, pending \subseteq [seq: SeqIds, own: BOOLEAN],
           Finish(m, pending), last' \in SeqIds
    PROVE  IInv' /\ (FupFirst(sm') => sm.owed)
<1>1. Rests(m) /\ ~FupFirst(m)
  BY DEF Rests, FupFirst
<1>2. sm' = m
  BY DEF Finish
<1> QED
  BY <1>1, <1>2, FinishLemma DEF IInv, TypeOK, Owes

LEMMA RecvReqLemma ==
    ASSUME NEW seq \in SeqIds, NEW fails \in BOOLEAN, NEW send \in SendResults,
           IInv, RecvReq(seq, fails, send), last' \in SeqIds
    PROVE  IInv' /\ (FupFirst(sm') => sm.owed)
<1> DEFINE b == Buffered(seq)
           valid == [b EXCEPT !.lastSeq = seq, !.rcvdReq = TRUE, !.t2 = TRUE]
           ignored == [b EXCEPT !.lastSeq = NoSeq]
<1>1. b \in Machine /\ b.out = <<>> /\ Owes(b) /\ b.owed = sm.owed
  BY BufferedLemma
<1>2. Superseded(txts) \subseteq [seq: SeqIds, own: BOOLEAN]
  <2>1. \A t \in txts : [t EXCEPT !.own = FALSE] \in [seq: SeqIds, own: BOOLEAN]
    BY DEF IInv, TypeOK
  <2> QED
    BY <2>1, Zenon DEF Superseded
<1>3. \/ Finish(ignored, Superseded(txts))
      \/ Finish(Run(valid, portOper, fails, send), Superseded(txts))
  BY Zenon DEF RecvReq
<1> HIDE DEF b
<1>4. valid \in Machine /\ ignored \in Machine
  BY <1>1, Zenon DEF Machine
<1>5. /\ valid.owed = b.owed /\ valid.state = b.state /\ valid.redo = b.redo
      /\ ignored.out = b.out
      /\ ignored.owed = b.owed /\ ignored.state = b.state /\ ignored.redo = b.redo
  BY <1>1 DEF Machine
<1> HIDE DEF valid, ignored
<1>6. Owes(valid) /\ Owes(ignored)
  BY <1>1, <1>5 DEF Owes
<1>7. CASE Finish(ignored, Superseded(txts))
  BY <1>1, <1>2, <1>4, <1>5, <1>6, <1>7, QuietLemma
<1>8. CASE Finish(Run(valid, portOper, fails, send), Superseded(txts))
  BY <1>1, <1>2, <1>4, <1>5, <1>6, <1>8, HandlerLemma
<1> QED
  BY <1>3, <1>7, <1>8

-----------------------------------------------------------------------------
(* The invariant holds at first. *)
LEMMA InitLemma == Init => IInv
<1> SUFFICES ASSUME Init PROVE IInv
  OBVIOUS
<1>1. /\ 0 \in SeqIds /\ 0 \in 0 .. TxTsLost /\ <<>> \in Seq(Message) /\ Len(<<>>) <= 2
  BY PdelayRespAssumption DEF SeqIds
<1>2. SmInit \in Machine
  BY <1>1, Zenon DEF SmInit, Machine
<1>3. SmInit.out = <<>> /\ SmInit.state = "Initial" /\ ~SmInit.redo
  BY DEF SmInit
<1> QED
  BY <1>1, <1>2, <1>3 DEF Init, IInv, TypeOK, Owes

(* Every step keeps it, and sends a follow-up first only if it is owed.    *)
LEMMA StepLemma ==
    ASSUME IInv, [Next]_vars
    PROVE  IInv' /\ (FupFirst(sm') => sm.owed \/ UNCHANGED vars)
<1> USE DEF IInv
<1>1. /\ sm \in Machine /\ portOper \in BOOLEAN /\ last \in SeqIds
      /\ txts \subseteq [seq: SeqIds, own: BOOLEAN]
  BY DEF TypeOK
<1>2. ASSUME NEW fails \in FupResults PROVE fails \in BOOLEAN
  BY DEF FupResults
<1>3. CASE Timeout
  BY <1>1, <1>2, <1>3, HandlerLemma DEF Timeout
<1>4. CASE Request
  BY <1>2, <1>4, RecvReqLemma DEF Request
<1>5. CASE RequestOtherDomain
  <2>1. PICK seq \in SeqIds, fails \in FupResults, send \in SendResults :
            /\ IF CmldsMode THEN RecvReq(seq, fails, send)
               ELSE Finish([Buffered(seq) EXCEPT !.ignored = TRUE], Superseded(txts))
            /\ UNCHANGED last
    BY <1>5 DEF RequestOtherDomain
  <2>2. CASE CmldsMode
    BY <1>1, <1>2, <2>1, <2>2, RecvReqLemma
  <2>3. CASE ~CmldsMode
    <3> DEFINE b == Buffered(seq)
               i == [b EXCEPT !.ignored = TRUE]
    <3>1. b \in Machine /\ b.out = <<>> /\ Owes(b)
      BY BufferedLemma
    <3>2. Superseded(txts) \subseteq [seq: SeqIds, own: BOOLEAN]
      <4>1. \A t \in txts : [t EXCEPT !.own = FALSE] \in [seq: SeqIds, own: BOOLEAN]
        BY <1>1
      <4> QED
        BY <4>1, Zenon DEF Superseded
    <3>3. Finish(i, Superseded(txts)) /\ last' \in SeqIds
      BY <1>1, <2>1, <2>3
    <3> HIDE DEF b
    <3>4. i \in Machine
      BY <3>1, Zenon DEF Machine
    <3>5. i.out = <<>> /\ i.state = b.state /\ i.redo = b.redo /\ i.owed = b.owed
      BY <3>1 DEF Machine
    <3> HIDE DEF i
    <3> QED
      BY <3>1, <3>2, <3>3, <3>4, <3>5, QuietLemma DEF Owes
  <2> QED
    BY <2>2, <2>3
<1>6. CASE TxTs
  <2>1. PICK t \in txts, fails \in FupResults, send \in SendResults :
            /\ IF sm.state = "Sent" /\ t.seq = sm.seq
               THEN Finish(Run([sm EXCEPT !.t3 = t.own, !.rcvdTs = TRUE], portOper, fails, send),
                           txts \ {t})
               ELSE Finish([sm EXCEPT !.out = <<>>], txts \ {t})
            /\ UNCHANGED last
    BY <1>6 DEF TxTs
  <2> DEFINE taken == [sm EXCEPT !.t3 = t.own, !.rcvdTs = TRUE]
             quiet == [sm EXCEPT !.out = <<>>]
  <2>2. txts \ {t} \subseteq [seq: SeqIds, own: BOOLEAN] /\ t.own \in BOOLEAN
    BY <1>1
  <2>3. taken \in Machine /\ quiet \in Machine
    <3>1. <<>> \in Seq(Message)
      OBVIOUS
    <3> QED
      BY <1>1, <2>2, <3>1, Zenon DEF Machine
  <2>4. /\ taken.owed = sm.owed /\ taken.state = sm.state /\ taken.redo = sm.redo
        /\ quiet.owed = sm.owed /\ quiet.state = sm.state /\ quiet.redo = sm.redo
        /\ quiet.out = <<>>
    BY <1>1 DEF Machine
  <2>5. \/ Finish(Run(taken, portOper, fails, send), txts \ {t})
        \/ Finish(quiet, txts \ {t})
    BY <2>1
  <2> HIDE DEF taken, quiet
  <2>6. Owes(taken) /\ Owes(quiet)
    BY <2>4 DEF Owes
  <2>7. last' \in SeqIds /\ fails \in BOOLEAN
    BY <1>1, <1>2, <2>1
  <2>8. CASE Finish(Run(taken, portOper, fails, send), txts \ {t})
    BY <2>2, <2>3, <2>4, <2>6, <2>7, <2>8, HandlerLemma
  <2>9. CASE Finish(quiet, txts \ {t})
    BY <2>2, <2>3, <2>4, <2>6, <2>7, <2>9, QuietLemma
  <2> QED
    BY <2>5, <2>8, <2>9
<1>7. CASE DevUpDown
  <2>1. sm' \in Machine
    <3>1. <<>> \in Seq(Message)
      OBVIOUS
    <3> QED
      BY <1>1, <1>7, <3>1, Zenon DEF DevUpDown, Machine
  <2>2. sm'.owed = sm.owed /\ sm'.state = sm.state /\ sm'.redo = sm.redo /\ sm'.out = <<>>
    BY <1>1, <1>7 DEF DevUpDown, Machine
  <2> QED
    BY <1>1, <1>7, <2>1, <2>2 DEF DevUpDown, TypeOK, Owes, FupFirst
<1>8. CASE Tick
  <2>1. sm' \in Machine
    <3>1. <<>> \in Seq(Message) /\ sm.elapsed + 1 \in 0 .. TxTsLost
      BY <1>1, <1>8, PdelayRespAssumption DEF Tick, Machine
    <3> QED
      BY <1>1, <1>8, <3>1, Zenon DEF Tick, Machine
  <2>2. sm'.owed = sm.owed /\ sm'.state = sm.state /\ sm'.redo = sm.redo /\ sm'.out = <<>>
    BY <1>1, <1>8 DEF Tick, Machine
  <2> QED
    BY <1>1, <1>8, <2>1, <2>2 DEF Tick, TypeOK, Owes, FupFirst
<1>9. CASE UNCHANGED vars
  BY <1>9 DEF vars, TypeOK, Owes
<1> QED
  BY <1>3, <1>4, <1>5, <1>6, <1>7, <1>8, <1>9 DEF Next

(* The types of the responder, for every range of sequence ids, every      *)
(* timeout and every behaviour of the network.                             *)
THEOREM TypeCorrect == Spec => []TypeOK
<1>1. Spec => []IInv
  BY InitLemma, StepLemma, PTL DEF Spec
<1>2. IInv => TypeOK
  BY DEF IInv
<1> QED
  BY <1>1, <1>2, PTL

(* No follow-up without a response (FollowsResponse). *)
THEOREM EveryFollowUpFollows == Spec => FollowsResponse
<1>1. ASSUME IInv, [Next]_vars
      PROVE  [sm'.out # <<>> /\ sm'.out[1].kind = "fup" => sm.owed]_vars
  BY <1>1, StepLemma DEF FupFirst, vars
<1>2. Spec => []IInv
  BY InitLemma, StepLemma, PTL DEF Spec
<1> QED
  BY <1>1, <1>2, PTL DEF Spec, FollowsResponse
-----------------------------------------------------------------------------
(***************************************************************************)
(* An orderly neighbour gets its own timestamps.  l is the sequence id of  *)
(* the last request it sent.                                               *)
(***************************************************************************)

(* The buffer of a port whose neighbour is orderly: what waits for an      *)
(* answer is the last request, with its receipt time.                      *)
Current(m, l) ==
    /\ m.lastSeq \in {NoSeq, l} /\ m.mock = "none"
    /\ m.state = "Sent" \/ m.rcvdReq => m.t2 /\ m.seq = l
    /\ m.redo => m.state = "Sent"

(* The TxTS that is about to be used is of the response to that request.   *)
StampedOwn(m) == m.state = "Sent" /\ ~m.redo /\ m.rcvdTs /\ SeqMod > 1 => m.t3

(* A message for the last request; its follow-up is told from the one of   *)
(* the request before if there are two sequence ids.                       *)
IsOwn(x, l) ==
    /\ x.kind = "resp" => x.own
    /\ x.kind = "fup" /\ SeqMod > 1 => x.own
    /\ x.stamped => x.seq = l

Said(m, l) == \A i \in DOMAIN m.out : m.seq = l /\ IsOwn(m.out[i], l)

(* What a run leaves. *)
Settled(m, l) == Current(m, l) /\ Said(m, l) /\ (m.state = "Sent" => ~m.rcvdTs)

LEMMA SaidLemma ==
    ASSUME NEW out \in Seq(Message), NEW x \in Message, NEW i \in DOMAIN Append(out, x)
    PROVE  Append(out, x)[i] = x \/ (i \in DOMAIN out /\ Append(out, x)[i] = out[i])
  OBVIOUS

LEMMA SendRespOwnLemma ==
    ASSUME NEW m \in Machine, NEW l, NEW send \in {"ok", "fail"},
           Current(m, l), Said(m, l), m.t2, m.seq = l
    PROVE  Settled(SendResp(m, send), l) /\ SendResp(m, send).seq = m.seq
<1> DEFINE x == [kind |-> "resp", seq |-> m.seq, own |-> m.t2, stamped |-> send = "ok"]
           n == SendResp(m, send)
<1>1. x \in Message /\ m.out \in Seq(Message)
  BY DEF Message, Machine
<1>2. /\ n.state = "Sent" /\ ~n.rcvdReq /\ ~n.rcvdTs /\ n.lastSeq = m.lastSeq /\ n.mock = m.mock
      /\ n.t2 = m.t2 /\ n.seq = m.seq
      /\ n.out = IF send = "fail" THEN m.out ELSE Append(m.out, x)
  BY DEF SendResp, Machine
<1>3. IsOwn(x, l)
  BY DEF IsOwn
<1> HIDE DEF n, x
<1>4. Said(n, l)
  <2>1. CASE send = "fail"
    BY <1>2, <2>1 DEF Said
  <2>2. CASE send # "fail"
    <3>1. ASSUME NEW i \in DOMAIN n.out PROVE IsOwn(n.out[i], l)
      BY <1>1, <1>2, <1>3, <2>2, <3>1, SaidLemma DEF Said
    <3> QED
      BY <1>2, <3>1 DEF Said
  <2> QED
    BY <2>1, <2>2
<1>5. Settled(n, l)
  BY <1>2, <1>4 DEF Settled, Current
<1> QED
  BY <1>2, <1>5 DEF n

LEMMA SendFupOwnLemma ==
    ASSUME NEW m \in Machine, NEW l, NEW send \in {"ok", "fail"},
           Current(m, l), m.out = <<>>, m.seq = l, SeqMod > 1 => m.t3
    PROVE  Settled(SendFup(m, FALSE, send), l) /\ SendFup(m, FALSE, send).seq = m.seq
<1> DEFINE x == [kind |-> "fup", seq |-> m.seq, own |-> m.t3, stamped |-> FALSE]
           f == [m EXCEPT !.state = "WaitReq", !.redo = FALSE]
           n == [f EXCEPT !.owed = FALSE, !.out = Append(@, x)]
<1>1. x \in Message /\ m.out \in Seq(Message)
  BY DEF Message, Machine
<1>2. f \in Machine /\ f.out = m.out
  BY DEF Machine
<1>3. Append(m.out, x) \in Seq(Message)
  BY <1>1, AppendLemma
<1>4. SendFup(m, FALSE, send) = IF m.rcvdReq THEN SendResp(n, send) ELSE n
  BY Zenon DEF SendFup
<1>5. IsOwn(x, l)
  BY DEF IsOwn
<1>6. /\ n.state = "WaitReq" /\ ~n.redo /\ n.rcvdReq = m.rcvdReq /\ n.lastSeq = m.lastSeq
      /\ n.mock = m.mock /\ n.t2 = m.t2 /\ n.seq = m.seq /\ n.out = Append(m.out, x)
  BY DEF Machine
<1> HIDE DEF x, f
<1>7. n \in Machine
  BY <1>2, <1>3, Zenon DEF Machine
<1> HIDE DEF n
<1>8. Current(n, l)
  BY <1>6 DEF Current
<1>9. Said(n, l)
  <2>1. ASSUME NEW i \in DOMAIN n.out PROVE IsOwn(n.out[i], l)
    BY <1>1, <1>5, <1>6, <2>1, SaidLemma
  <2> QED
    BY <1>6, <2>1 DEF Said
<1>10. ASSUME m.rcvdReq PROVE Settled(SendResp(n, send), l) /\ SendResp(n, send).seq = n.seq
  BY <1>6, <1>7, <1>8, <1>9, <1>10, SendRespOwnLemma DEF Current
<1> QED
  BY <1>4, <1>6, <1>8, <1>9, <1>10 DEF Settled

LEMMA RunOwnLemma ==
    ASSUME NEW m \in Machine, NEW l, NEW oper \in BOOLEAN, NEW send \in {"ok", "fail"},
           Current(m, l), StampedOwn(m)
    PROVE  Settled(Run(m, oper, FALSE, send), l) /\ Run(m, oper, FALSE, send).seq = m.seq
<1> DEFINE s == [m EXCEPT !.out = <<>>]
           run == Run(m, oper, FALSE, send)
           Good(n) == Settled(n, l) /\ n.seq = m.seq
<1>1. s \in Machine
  <2>1. <<>> \in Seq(Message)
    OBVIOUS
  <2> QED
    BY <2>1, Zenon DEF Machine
<1>2. /\ s.out = <<>> /\ s.state = m.state /\ s.redo = m.redo /\ s.rcvdReq = m.rcvdReq
      /\ s.rcvdTs = m.rcvdTs /\ s.lastSeq = m.lastSeq /\ s.mock = m.mock
      /\ s.t2 = m.t2 /\ s.t3 = m.t3 /\ s.seq = m.seq
  BY DEF Machine
<1>3. run = IF ~oper THEN Disabled(s)
            ELSE IF s.state = "Sent"
                 THEN IF s.redo THEN SendResp(s, send) ELSE AwaitTxTs(s, FALSE, send)
            ELSE IF s.redo THEN SendFup(s, FALSE, send)
            ELSE IF s.rcvdReq THEN SendResp(s, send) ELSE s
  BY Zenon DEF Run
<1> HIDE DEF s, run
<1>4. Current(s, l) /\ Said(s, l) /\ StampedOwn(s)
  BY <1>2 DEF Current, Said, StampedOwn
<1>5. Good(Disabled(s))
  <2> DEFINE d == Disabled(s)
  <2>1. /\ d.state = "Initial" /\ ~d.redo /\ ~d.rcvdReq /\ d.lastSeq = NoSeq /\ d.mock = s.mock
        /\ d.out = <<>> /\ d.seq = s.seq
    BY <1>1, <1>2 DEF Disabled, Machine
  <2> HIDE DEF d
  <2>2. Settled(d, l)
    BY <1>4, <2>1 DEF Settled, Current, Said
  <2> QED
    BY <1>2, <2>1, <2>2 DEF d
<1>6. ASSUME s.state = "Sent" \/ s.rcvdReq PROVE Good(SendResp(s, send))
  BY <1>1, <1>2, <1>4, <1>6, SendRespOwnLemma DEF Current
<1>7. ASSUME s.state = "Sent", ~s.redo PROVE Good(AwaitTxTs(s, FALSE, send))
  <2>1. s.mock = "none" /\ s.seq = l
    BY <1>4, <1>7 DEF Current
  <2>2. ASSUME s.rcvdTs PROVE Good(SendFup(s, FALSE, send))
    BY <1>1, <1>2, <1>4, <1>7, <2>1, <2>2, SendFupOwnLemma DEF StampedOwn
  <2>3. ASSUME ~s.rcvdTs PROVE Good(s)
    BY <1>2, <1>4, <2>3 DEF Settled
  <2>4. AwaitTxTs(s, FALSE, send) =
            IF s.rcvdTs THEN SendFup(s, FALSE, send)
            ELSE IF s.elapsed < TxTsLost THEN s ELSE SendResp(s, send)
    BY <2>1 DEF AwaitTxTs
  <2> HIDE DEF Good
  <2> QED
    BY <1>6, <1>7, <2>2, <2>3, <2>4
<1>8. ASSUME s.state # "Sent" PROVE Good(s) /\ ~s.redo
  BY <1>2, <1>4, <1>8 DEF Settled, Current
<1> HIDE DEF Good
<1>9. Good(run)
  BY <1>3, <1>5, <1>6, <1>7, <1>8
<1> QED
  BY <1>9 DEF Good, run

(* A TxTS that is outstanding is of the last request, or of the one before. *)
Outstanding(T, l) ==
    \A t \in T : IF t.own THEN t.seq = l ELSE t.seq = (l + SeqMod - 1) % SeqMod

(* What an orderly neighbour can rely on, with IInv. *)
Tied == Orderly => Settled(sm, last) /\ Outstanding(txts, last)

LEMMA SuccLemma ==
    ASSUME NEW l \in SeqIds
    PROVE  /\ (l + 1) % SeqMod \in SeqIds
           /\ (((l + 1) % SeqMod) + SeqMod - 1) % SeqMod = l
           /\ SeqMod > 1 => (l + SeqMod - 1) % SeqMod # l
  BY PdelayRespAssumption DEF SeqIds

(* A handler that runs the machine, for the last request l there is then.  *)
LEMMA HandlerTiedLemma ==
    ASSUME NEW m \in Machine, NEW pending, NEW oper \in BOOLEAN, NEW send \in {"ok", "fail"},
           Current(m, last'), StampedOwn(m), Outstanding(pending, last'),
           Finish(Run(m, oper, FALSE, send), pending)
    PROVE  Tied'
<1> DEFINE n == Run(m, oper, FALSE, send)
<1>1. Settled(n, last')
  BY RunOwnLemma
<1> HIDE DEF n
<1>2. sm' = n /\ txts' = pending \cup Stamped(n)
  BY DEF Finish, n
<1>3. ASSUME NEW t \in Stamped(n) PROVE t.own /\ t.seq = last'
  <2>1. PICK i \in DOMAIN n.out : n.out[i].stamped /\ t = [seq |-> n.out[i].seq, own |-> TRUE]
    BY <1>3, Zenon DEF Stamped
  <2>2. n.out[i].seq = last'
    BY <1>1, <2>1 DEF Settled, Said, IsOwn
  <2> QED
    BY <2>1, <2>2
<1>4. Outstanding(txts', last')
  BY <1>2, <1>3 DEF Outstanding
<1> QED
  BY <1>1, <1>2, <1>4 DEF Tied

(* A handler that sends nothing and leaves the last request as it is. *)
LEMMA QuietTiedLemma ==
    ASSUME NEW m \in Machine, IInv, Tied, Orderly, last' = last, sm' = m, txts' \subseteq txts,
           m.out = <<>>, m.state = sm.state, m.redo = sm.redo, m.rcvdReq = sm.rcvdReq,
           m.rcvdTs = sm.rcvdTs, m.seq = sm.seq, m.lastSeq = sm.lastSeq, m.t2 = sm.t2,
           m.mock = sm.mock
    PROVE  Tied'
<1>1. Settled(m, last)
  BY DEF Tied, Settled, Current, Said
<1>2. Outstanding(txts', last)
  BY DEF Tied, Outstanding
<1> QED
  BY <1>1, <1>2 DEF Tied

LEMMA RequestTiedLemma ==
    ASSUME IInv, Tied, Orderly, Request
    PROVE  Tied'
<1>1. /\ sm \in Machine /\ portOper \in BOOLEAN /\ last \in SeqIds
      /\ txts \subseteq [seq: SeqIds, own: BOOLEAN]
  BY DEF IInv, TypeOK
<1>2. PICK seq \in SeqIds, fails \in FupResults, send \in SendResults :
          /\ "gaps" \in world \/ seq = (last + 1) % SeqMod
          /\ RecvReq(seq, fails, send)
          /\ last' = seq
  BY Zenon DEF Request
<1>3. fails = FALSE /\ send \in {"ok", "fail"} /\ seq = (last + 1) % SeqMod
  BY <1>2 DEF Orderly, FupResults, SendResults
<1>4. (seq + SeqMod - 1) % SeqMod = last
  BY <1>1, <1>3, SuccLemma
<1> DEFINE b == Buffered(seq)
           valid == [b EXCEPT !.lastSeq = seq, !.rcvdReq = TRUE, !.t2 = TRUE]
<1>5. b \in Machine
  BY BufferedLemma
<1>6. /\ b.seq = seq /\ b.mock = sm.mock /\ b.state = sm.state /\ b.redo = sm.redo
      /\ b.rcvdTs = sm.rcvdTs
  BY <1>1 DEF Tied, Settled, Current, Buffered, Machine
<1>7. sm.lastSeq \in {NoSeq, (seq + SeqMod - 1) % SeqMod}
  BY <1>4 DEF Tied, Settled, Current
<1>8. Finish(Run(valid, portOper, FALSE, send), Superseded(txts))
  BY <1>2, <1>3, <1>7, Zenon DEF RecvReq
<1> HIDE DEF b
<1>9. valid \in Machine
  BY <1>5, Zenon DEF Machine
<1>10. /\ valid.lastSeq = seq /\ valid.t2 /\ valid.seq = b.seq /\ valid.mock = b.mock
       /\ valid.state = b.state /\ valid.redo = b.redo /\ valid.rcvdTs = b.rcvdTs
  BY <1>5 DEF Machine
<1> HIDE DEF valid
<1>11. Current(valid, seq) /\ StampedOwn(valid)
  BY <1>6, <1>10 DEF Tied, Settled, Current, StampedOwn
<1>12. Outstanding(Superseded(txts), seq)
  <2>1. ASSUME NEW t \in Superseded(txts) PROVE ~t.own /\ t.seq = last
    <3>1. PICK p \in txts : p.own /\ t = [p EXCEPT !.own = FALSE]
      BY <2>1, Zenon DEF Superseded
    <3> QED
      BY <1>1, <3>1 DEF Tied, Outstanding
  <2> QED
    BY <1>4, <2>1 DEF Outstanding
<1> QED
  BY <1>1, <1>2, <1>3, <1>8, <1>9, <1>11, <1>12, HandlerTiedLemma

LEMMA TxTsTiedLemma ==
    ASSUME IInv, Tied, Orderly, TxTs
    PROVE  Tied'
<1>1. /\ sm \in Machine /\ portOper \in BOOLEAN /\ last \in SeqIds
      /\ txts \subseteq [seq: SeqIds, own: BOOLEAN]
  BY DEF IInv, TypeOK
<1>2. PICK t \in txts, fails \in FupResults, send \in SendResults :
          /\ IF sm.state = "Sent" /\ t.seq = sm.seq
             THEN Finish(Run([sm EXCEPT !.t3 = t.own, !.rcvdTs = TRUE], portOper, fails, send),
                         txts \ {t})
             ELSE Finish([sm EXCEPT !.out = <<>>], txts \ {t})
          /\ UNCHANGED last
  BY Zenon DEF TxTs
<1>3. fails = FALSE /\ send \in {"ok", "fail"}
  BY <1>2 DEF Orderly, FupResults, SendResults
<1> DEFINE taken == [sm EXCEPT !.t3 = t.own, !.rcvdTs = TRUE]
           quiet == [sm EXCEPT !.out = <<>>]
<1>4. taken \in Machine /\ quiet \in Machine
  <2>1. <<>> \in Seq(Message) /\ t.own \in BOOLEAN
    BY <1>1
  <2> QED
    BY <1>1, <2>1, Zenon DEF Machine
<1>5. CASE sm.state = "Sent" /\ t.seq = sm.seq
  <2>1. Finish(Run(taken, portOper, FALSE, send), txts \ {t})
    BY <1>2, <1>3, <1>5
  <2>2. /\ taken.lastSeq = sm.lastSeq /\ taken.t2 = sm.t2 /\ taken.seq = sm.seq
        /\ taken.mock = sm.mock /\ taken.state = sm.state /\ taken.redo = sm.redo
        /\ taken.rcvdReq = sm.rcvdReq /\ taken.t3 = t.own
    BY <1>1 DEF Machine
  <2>3. SeqMod > 1 => t.own
    <3>1. sm.seq = last
      BY <1>5 DEF Tied, Settled, Current
    <3> QED
      BY <1>1, <1>5, <3>1, SuccLemma DEF Tied, Outstanding
  <2> HIDE DEF taken
  <2>4. Current(taken, last) /\ StampedOwn(taken)
    BY <2>2, <2>3 DEF Tied, Settled, Current, StampedOwn
  <2>5. Outstanding(txts \ {t}, last)
    BY DEF Tied, Outstanding
  <2> QED
    BY <1>1, <1>2, <1>3, <1>4, <2>1, <2>4, <2>5, HandlerTiedLemma
<1>6. CASE ~(sm.state = "Sent" /\ t.seq = sm.seq)
  <2>1. Finish(quiet, txts \ {t})
    BY <1>2, <1>6
  <2>2. /\ quiet.out = <<>> /\ quiet.state = sm.state /\ quiet.redo = sm.redo
        /\ quiet.rcvdReq = sm.rcvdReq /\ quiet.rcvdTs = sm.rcvdTs /\ quiet.seq = sm.seq
        /\ quiet.lastSeq = sm.lastSeq /\ quiet.t2 = sm.t2 /\ quiet.mock = sm.mock
    BY <1>1 DEF Machine
  <2> HIDE DEF quiet
  <2>3. sm' = quiet /\ txts' \subseteq txts
    <3>1. Stamped(quiet) = {}
      <4>1. DOMAIN quiet.out = {}
        BY <2>2
      <4>2. {j \in DOMAIN quiet.out : quiet.out[j].stamped} = {}
        BY <4>1
      <4> QED
        BY <4>2 DEF Stamped
    <3> QED
      BY <2>1, <3>1 DEF Finish
  <2> QED
    BY <1>2, <1>4, <2>2, <2>3, QuietTiedLemma
<1> QED
  BY <1>5, <1>6

LEMMA InitTiedLemma == Init => Tied
<1> SUFFICES ASSUME Init PROVE Tied
  OBVIOUS
<1>1. /\ SmInit.out = <<>> /\ SmInit.state = "Initial" /\ ~SmInit.redo /\ ~SmInit.rcvdReq
      /\ SmInit.lastSeq = NoSeq /\ SmInit.mock = "none"
  BY DEF SmInit
<1>2. Settled(sm, last)
  BY <1>1 DEF Init, Settled, Current, Said
<1> QED
  BY <1>2 DEF Init, Tied, Outstanding

LEMMA StepTiedLemma ==
    ASSUME IInv, Tied, [Next]_vars
    PROVE  Tied'
<1>1. /\ sm \in Machine /\ portOper \in BOOLEAN /\ last \in SeqIds
  BY DEF IInv, TypeOK
<1>2. world' = world
  BY Zenon DEF Next, Timeout, Request, RequestOtherDomain, TxTs, DevUpDown, Tick, RecvReq, Finish, vars
<1> SUFFICES ASSUME Orderly PROVE Tied'
  BY <1>2 DEF Tied, Orderly
<1>3. CASE Timeout
  <2>1. PICK fails \in FupResults, send \in SendResults :
            Finish(Run(sm, portOper, fails, send), txts) /\ UNCHANGED last
    BY <1>3, Zenon DEF Timeout
  <2>2. fails = FALSE /\ send \in {"ok", "fail"}
    BY <2>1 DEF Orderly, FupResults, SendResults
  <2>3. Current(sm, last) /\ StampedOwn(sm) /\ Outstanding(txts, last)
    BY DEF Tied, Settled, StampedOwn
  <2> QED
    BY <1>1, <2>1, <2>2, <2>3, HandlerTiedLemma
<1>4. CASE Request
  BY <1>4, RequestTiedLemma
<1>5. CASE RequestOtherDomain
  BY <1>5, Zenon DEF RequestOtherDomain, Orderly
<1>6. CASE TxTs
  BY <1>6, TxTsTiedLemma
<1>7. CASE DevUpDown
  <2>1. [sm EXCEPT !.out = <<>>] \in Machine
    <3>1. <<>> \in Seq(Message)
      OBVIOUS
    <3> QED
      BY <1>1, <3>1, Zenon DEF Machine
  <2>2. /\ sm' = [sm EXCEPT !.out = <<>>] /\ sm'.out = <<>> /\ sm'.state = sm.state
        /\ sm'.redo = sm.redo /\ sm'.rcvdReq = sm.rcvdReq /\ sm'.rcvdTs = sm.rcvdTs
        /\ sm'.seq = sm.seq /\ sm'.lastSeq = sm.lastSeq /\ sm'.t2 = sm.t2 /\ sm'.mock = sm.mock
        /\ last' = last /\ txts' = txts
    BY <1>1, <1>7 DEF DevUpDown, Machine
  <2> QED
    BY <2>1, <2>2, QuietTiedLemma
<1>8. CASE Tick
  <2>1. sm' \in Machine
    BY StepLemma DEF IInv, TypeOK
  <2>2. /\ sm'.out = <<>> /\ sm'.state = sm.state
        /\ sm'.redo = sm.redo /\ sm'.rcvdReq = sm.rcvdReq /\ sm'.rcvdTs = sm.rcvdTs
        /\ sm'.seq = sm.seq /\ sm'.lastSeq = sm.lastSeq /\ sm'.t2 = sm.t2 /\ sm'.mock = sm.mock
        /\ last' = last /\ txts' = txts
    BY <1>1, <1>8 DEF Tick, Machine
  <2> QED
    BY <2>1, <2>2, QuietTiedLemma
<1>9. CASE UNCHANGED vars
  BY <1>9 DEF vars, Tied, Orderly
<1> QED
  BY <1>3, <1>4, <1>5, <1>6, <1>7, <1>8, <1>9 DEF Next

LEMMA TiedLemma == Spec => [](IInv /\ Tied)
<1>1. Init => IInv /\ Tied
  BY InitLemma, InitTiedLemma
<1>2. IInv /\ Tied /\ [Next]_vars => (IInv /\ Tied)'
  BY StepLemma, StepTiedLemma
<1> QED
  BY <1>1, <1>2, PTL DEF Spec

(* An orderly neighbour is told when its own request was received          *)
(* (RespIsOwn), also when it is asked again, with the id it asked with.    *)
THEOREM ResponseIsOwn == Spec => []RespIsOwn
<1>1. IInv /\ Tied => RespIsOwn
  BY DEF Tied, Settled, Said, IsOwn, RespIsOwn, Sends
<1> QED
  BY <1>1, TiedLemma, PTL

(* With two sequence ids or more, 2^16 in the code, it is also told when   *)
(* the response to that request has left (FupIsOwn): the TxTS of an earlier *)
(* response that comes late has another sequence id.                       *)
THEOREM FollowUpIsOwn == SeqMod > 1 /\ Spec => []FupIsOwn
<1> DEFINE Inv == SeqMod > 1 /\ IInv /\ Tied
<1>1. SeqMod > 1 /\ Init => Inv
  BY InitLemma, InitTiedLemma
<1>2. Inv /\ [Next]_vars => Inv'
  BY StepLemma, StepTiedLemma
<1>3. Inv => FupIsOwn
  BY DEF Tied, Settled, Said, IsOwn, FupIsOwn, Sends
<1> HIDE DEF Inv
<1> QED
  BY <1>1, <1>2, <1>3, PTL DEF Spec
=============================================================================
