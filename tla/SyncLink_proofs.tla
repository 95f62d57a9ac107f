--------------------------- MODULE SyncLink_proofs ---------------------------
(***************************************************************************)
(* Proofs about Sync over one link: the types, for every driver and every  *)
(* fault, and that the two ends keep the promises of SyncExchange as long  *)
(* as the faults are the ones below.                                       *)
(***************************************************************************)
EXTENDS SyncLink, TLAPS

(* The faults the exchange withstands: no TxTS comes after it was given up *)
(* (not while the port is down either), a driver either reports TxTS or    *)
(* does not, and Syncs are not lost on a link whose sender loses TxTS: the *)
(* Sync that is sent again for want of one has the same sequence id.       *)
Withstood ==
    /\ {"late", "flap"} \cap faults = {}
    /\ ~ {"wire", "txts"} \subseteq faults
    /\ ~ {"ok", "mock"} \subseteq driver

Results == {"ok", "fail", "mock"}

(* The types, of snd and rcv once n Syncs have left *)
MessageOf(n) == [kind: {"none", "sync", "fup"}, seq: Nat, dep: 0 .. n]

SndRecord(n) ==
    [state: {"Initializing", "Send", "FollowUp"}, redo: BOOLEAN, rcvd: BOOLEAN,
     rcvdTs: BOOLEAN, ts: 0 .. n, mock: 0 .. n, seq: Nat, waiting: BOOLEAN,
     late: BOOLEAN, txts: SUBSET (0 .. n), out: MessageOf(n)]

RcvRecord(n) ==
    [state: {"Discard", "WaitFup", "WaitSync"}, rcvdSync: BOOLEAN, rcvdFup: BOOLEAN,
     sync: MessageOf(n), fup: MessageOf(n), expired: BOOLEAN, gives: BOOLEAN]

TypedState ==
    /\ driver \in Drivers /\ faults \in FaultModels
    /\ snd \in SndRecord(Len(departed)) /\ departed \in Seq(Nat) /\ told \subseteq 0 .. Len(departed)
    /\ wire \in Seq(MessageOf(Len(departed))) /\ rcv \in RcvRecord(Len(departed))
    /\ {sndUp, rcvUp} \subseteq BOOLEAN
    /\ joined \in [sync: 0 .. Len(departed), fup: 0 .. Len(departed)]

-----------------------------------------------------------------------------
(* What is known of the sender m, when the Syncs of deps have left, the    *)
(* departures of tld have been told, and the port is up or not.            *)

(* A Sync has left that has still to be followed up. *)
Owes(m) == (m.state = "Send" /\ ~m.redo) \/ (m.state = "FollowUp" /\ m.redo)

(* The next Sync has a sequence id of its own. *)
Begins(m) ==
    \/ m.state = "Initializing"
    \/ m.state = "FollowUp" /\ ~m.redo
    \/ m.state = "Send" /\ m.redo /\ "txts" \notin faults

Stamps(m, n, up) ==
    /\ ~m.rcvdTs
    /\ m.txts \subseteq {n}
    /\ m.txts # {} => /\ ~m.late /\ m.mock = 0
                      /\ ~up \/ (m.state = "Send" /\ ~m.redo)
    /\ m.mock # 0 => m.mock = n /\ "mock" \in driver

Follows(m, deps, tld) ==
    LET n == Len(deps)
    IN  /\ m.redo => m.state # "Initializing"
        /\ Owes(m) => n > 0 /\ n \notin tld /\ deps[n] = m.seq
        /\ m.state = "FollowUp" /\ m.redo => m.ts = n
        /\ m.state = "Send" /\ ~m.redo => m.mock = n \/ m.txts = {n} \/ "txts" \in faults
        /\ n > 0 => deps[n] <= m.seq /\ (Begins(m) => deps[n] < m.seq)

SndInv(m, deps, tld, up) == Stamps(m, Len(deps), up) /\ Follows(m, deps, tld)

(* What is known of the wire.  Sequence ids repeat only for want of a TxTS. *)
Ordered(deps) ==
    \A j \in 1 .. Len(deps) : \A i \in 1 .. j - 1 :
        deps[i] <= deps[j] /\ ("txts" \notin faults => deps[i] < deps[j])

Carried(x, deps, tld) ==
    /\ x.kind \in {"sync", "fup"} /\ x.dep \in 1 .. Len(deps) /\ x.seq = deps[x.dep]
    /\ x.kind = "fup" => x.dep \in tld

Before(x, y) == x.dep < y.dep \/ (x.dep = y.dep /\ x.kind = "sync" /\ y.kind = "fup")

(* Messages are in order, and so is what the receiver has had of them. *)
WireInv(w, deps, tld, last, given) ==
    /\ \A i \in 1 .. Len(w) :
           /\ Carried(w[i], deps, tld)
           /\ last < w[i].dep \/ (last = w[i].dep /\ w[i].kind = "fup")
           /\ given < w[i].dep
    /\ \A j \in 1 .. Len(w) : \A i \in 1 .. j - 1 : Before(w[i], w[j])
    /\ "wire" \notin faults =>
           \A k \in last + 1 .. Len(deps) :
               \E i \in 1 .. Len(w) : w[i].kind = "sync" /\ w[i].dep = k

RcvInv(r, deps) ==
    /\ ~r.rcvdSync
    /\ r.state = "WaitFup" => r.sync.dep \in 1 .. Len(deps) /\ r.sync.seq = deps[r.sync.dep]

(* The inductive invariant *)
IInv ==
    /\ TypedState /\ Withstood
    /\ SndInv(snd, departed, told, sndUp)
    /\ Ordered(departed)
    /\ WireInv(wire, departed, told, rcv.sync.dep, joined.sync)
    /\ RcvInv(rcv, departed)
    /\ joined.sync \in told \cup {0}

-----------------------------------------------------------------------------
(* The sender.  What a handler that leaves m has sent adds to the history. *)
DepartedBy(m) == IF m.out.kind = "sync" THEN Append(departed, m.out.seq) ELSE departed
ToldBy(m) == IF m.out.kind = "fup" THEN told \cup {m.out.dep} ELSE told

Typed(m) ==
    /\ m \in SndRecord(Len(DepartedBy(m)))
    /\ \/ m.out = NoMsg
       \/ m.out = SyncMsg(m.seq, Len(departed) + 1)
       \/ \E q \in Nat, d \in Departures : m.out = FupMsg(q, d)

LEMMA WiderLemma ==
    ASSUME NEW n \in Nat, NEW k \in Nat, n <= k
    PROVE  /\ MessageOf(n) \subseteq MessageOf(k)
           /\ SndRecord(n) \subseteq SndRecord(k)
           /\ RcvRecord(n) \subseteq RcvRecord(k)
<1>1. 0 .. n \subseteq 0 .. k
  OBVIOUS
<1>2. MessageOf(n) \subseteq MessageOf(k)
  BY <1>1, Zenon DEF MessageOf
<1>3. SndRecord(n) \subseteq SndRecord(k)
  <2>1. SUBSET (0 .. n) \subseteq SUBSET (0 .. k)
    BY <1>1
  <2> HIDE DEF MessageOf
  <2> QED
    BY <1>1, <1>2, <2>1, Zenon DEF SndRecord
<1>4. RcvRecord(n) \subseteq RcvRecord(k)
  BY <1>2, Zenon DEF RcvRecord
<1> QED
  BY <1>2, <1>3, <1>4

LEMMA DepartedLemma ==
    ASSUME departed \in Seq(Nat), NEW m, m.out.kind = "sync" => m.out.seq \in Nat
    PROVE  LET deps == DepartedBy(m)
           IN  /\ deps \in Seq(Nat)
               /\ Len(deps) = IF m.out.kind = "sync" THEN Len(departed) + 1 ELSE Len(departed)
               /\ \A i \in 1 .. Len(departed) : deps[i] = departed[i]
               /\ m.out.kind = "sync" => deps[Len(departed) + 1] = m.out.seq
  BY DEF DepartedBy

(* A Sync is held back, or it leaves. *)
LEMMA SendSyncLemma ==
    ASSUME departed \in Seq(Nat), NEW m \in SndRecord(Len(departed)), m.out = NoMsg,
           NEW res \in Results
    PROVE  LET r == SendSync(m, res)
               d == Len(departed) + 1
           IN  /\ Typed(r) /\ r.state = "Send" /\ r.rcvdTs = m.rcvdTs /\ r.seq = m.seq
               /\ \/ /\ r.redo /\ r.out = NoMsg
                     /\ r.txts = m.txts /\ r.late = m.late /\ r.mock = m.mock
                  \/ /\ ~r.redo /\ r.out = SyncMsg(m.seq, d) /\ ~r.late /\ res # "fail"
                     /\ r.mock = IF res = "mock" THEN d ELSE m.mock
                     /\ r.txts = (IF res = "ok" THEN {d} ELSE {})
                                 \cup (IF "late" \in faults THEN m.txts ELSE {})
<1> DEFINE n == Len(departed)
           d == n + 1
           b == [m EXCEPT !.state = "Send", !.rcvd = FALSE]
           txts == (IF res = "ok" THEN {d} ELSE {}) \cup (IF "late" \in faults THEN m.txts ELSE {})
           mock == IF res = "mock" THEN d ELSE m.mock
           held == [b EXCEPT !.redo = TRUE, !.waiting = m.waiting /\ ~m.late]
           left == [b EXCEPT !.redo = FALSE, !.late = FALSE, !.out = SyncMsg(m.seq, d),
                             !.waiting = res = "ok", !.mock = mock, !.txts = txts]
<1>1. n \in Nat /\ d \in Nat /\ n <= d
  OBVIOUS
<1>2. m \in SndRecord(d) /\ NoMsg \in MessageOf(n)
  BY <1>1, WiderLemma DEF MessageOf, NoMsg
<1>3. b = [[m EXCEPT !.state = "Send"] EXCEPT !.rcvd = FALSE]
  BY DEF SndRecord
<1>4. b \in SndRecord(n) /\ b \in SndRecord(d)
  BY <1>2, <1>3, Zenon DEF SndRecord
<1>5. b.state = "Send" /\ b.rcvdTs = m.rcvdTs /\ b.seq = m.seq /\ b.txts = m.txts /\ b.late = m.late
      /\ b.mock = m.mock /\ b.out = m.out /\ b.waiting = m.waiting
  BY DEF SndRecord
<1>6. SendSync(m, res) = IF Deferred(m) \/ res = "fail" THEN held ELSE left
  BY <1>5 DEF SendSync
<1> HIDE DEF b
<1>7. /\ held \in SndRecord(n) /\ held.redo /\ held.state = "Send" /\ held.rcvdTs = m.rcvdTs
      /\ held.seq = m.seq /\ held.txts = m.txts /\ held.late = m.late /\ held.mock = m.mock
      /\ held.out = NoMsg
  <2>1. (m.waiting /\ ~m.late) \in BOOLEAN
    OBVIOUS
  <2>2. held = [[b EXCEPT !.redo = TRUE] EXCEPT !.waiting = m.waiting /\ ~m.late]
    OBVIOUS
  <2>3. held \in SndRecord(n)
    BY <1>4, <2>1, <2>2, Zenon DEF SndRecord
  <2> QED
    BY <1>4, <1>5, <2>3 DEF SndRecord
<1>8. SyncMsg(m.seq, d) \in MessageOf(d)
  BY <1>1 DEF MessageOf, SyncMsg, SndRecord
<1>9. mock \in 0 .. d /\ txts \in SUBSET (0 .. d)
  BY <1>1, <1>2 DEF SndRecord
<1>10. /\ left \in SndRecord(d) /\ ~left.redo /\ left.state = "Send" /\ left.rcvdTs = m.rcvdTs
       /\ left.seq = m.seq /\ left.txts = txts /\ ~left.late /\ left.mock = mock
       /\ left.out = SyncMsg(m.seq, d)
  <2> DEFINE x == SyncMsg(m.seq, d)
             y == res = "ok"
  <2>1. x \in MessageOf(d) /\ y \in BOOLEAN
    BY <1>8
  <2> HIDE DEF mock, txts, x, y, d, MessageOf
  <2>2. left = [[[[[[b EXCEPT !.redo = FALSE] EXCEPT !.late = FALSE] EXCEPT !.out = x]
                    EXCEPT !.waiting = y] EXCEPT !.mock = mock] EXCEPT !.txts = txts]
    BY DEF x, y
  <2>3. left \in SndRecord(d)
    BY <1>4, <1>9, <2>1, <2>2, ZenonT(60) DEF SndRecord
  <2> QED
    BY <1>4, <1>5, <2>3 DEF SndRecord, x
<1> HIDE DEF held, left, mock, txts
<1>11. Typed(held)
  BY <1>1, <1>7 DEF Typed, DepartedBy, NoMsg
<1>12. Typed(left)
  <2>1. left.out.kind = "sync" /\ left.out.seq \in Nat
    BY <1>10 DEF SyncMsg, SndRecord
  <2>2. Len(DepartedBy(left)) = d
    BY <2>1, DepartedLemma
  <2> QED
    BY <1>10, <2>2 DEF Typed
<1> QED
  BY <1>6, <1>7, <1>10, <1>11, <1>12 DEF mock, txts

LEMMA SendFupLemma ==
    ASSUME departed \in Seq(Nat), NEW m \in SndRecord(Len(departed)), m.out = NoMsg,
           NEW res \in Results
    PROVE  LET r == SendFup(m, res)
           IN  /\ Typed(r) /\ r.state = "FollowUp" /\ ~r.rcvdTs /\ r.ts = m.ts
               /\ r.txts = m.txts /\ r.late = m.late /\ r.mock = m.mock
               /\ \/ r.redo /\ r.out = NoMsg /\ r.seq = m.seq
                  \/ ~r.redo /\ r.out = FupMsg(m.seq, m.ts) /\ r.seq = m.seq + 1
<1> DEFINE n == Len(departed)
           failed == res = "fail"
           b == [m EXCEPT !.state = "FollowUp", !.rcvdTs = FALSE, !.redo = failed]
           sent == [b EXCEPT !.seq = @ + 1, !.out = FupMsg(m.seq, m.ts)]
<1>1. n \in Nat /\ failed \in BOOLEAN /\ m.seq \in Nat /\ m.ts \in 0 .. n
  BY DEF SndRecord
<1>2. SendFup(m, res) = IF failed THEN b ELSE sent
  BY DEF SendFup
<1> HIDE DEF failed
<1>3. b = [[[m EXCEPT !.state = "FollowUp"] EXCEPT !.rcvdTs = FALSE] EXCEPT !.redo = failed]
  BY DEF SndRecord
<1>4. b \in SndRecord(n)
  BY <1>1, <1>3, Zenon DEF SndRecord
<1>5. b.state = "FollowUp" /\ ~b.rcvdTs /\ b.ts = m.ts /\ b.redo = failed /\ b.seq = m.seq
      /\ b.txts = m.txts /\ b.late = m.late /\ b.mock = m.mock /\ b.out = m.out
  BY DEF SndRecord
<1> HIDE DEF b
<1>6. FupMsg(m.seq, m.ts) \in MessageOf(n)
  BY <1>1 DEF MessageOf, FupMsg
<1>7. sent \in SndRecord(n)
  <2> DEFINE x == FupMsg(m.seq, m.ts)
             y == b.seq + 1
  <2>1. x \in MessageOf(n) /\ y \in Nat
    BY <1>1, <1>5, <1>6
  <2>2. sent = [[b EXCEPT !.seq = y] EXCEPT !.out = x]
    BY <1>4 DEF SndRecord
  <2> HIDE DEF x, y, MessageOf
  <2> QED
    BY <1>4, <2>1, <2>2, Zenon DEF SndRecord
<1>8. sent.state = "FollowUp" /\ ~sent.rcvdTs /\ sent.ts = m.ts /\ sent.redo = failed
      /\ sent.seq = m.seq + 1 /\ sent.txts = m.txts /\ sent.late = m.late /\ sent.mock = m.mock
      /\ sent.out = FupMsg(m.seq, m.ts)
  BY <1>4, <1>5 DEF SndRecord
<1> HIDE DEF sent
<1>9. Typed(b)
  BY <1>4, <1>5 DEF Typed, DepartedBy, NoMsg
<1>10. Typed(sent)
  BY <1>1, <1>7, <1>8 DEF Typed, DepartedBy, FupMsg, Departures
<1> QED
  BY <1>2, <1>5, <1>8, <1>9, <1>10

LEMMA InitializeLemma ==
    ASSUME departed \in Seq(Nat), NEW m \in SndRecord(Len(departed)), m.out = NoMsg
    PROVE  LET r == Initialize(m)
           IN  /\ Typed(r) /\ r.state = "Initializing" /\ ~r.redo /\ ~r.rcvdTs /\ r.out = NoMsg
               /\ r.txts = m.txts /\ r.late = m.late /\ r.mock = m.mock /\ r.seq = Fresh(m.seq)
<1> DEFINE n == Len(departed)
           q == Fresh(m.seq)
           r == [m EXCEPT !.state = "Initializing", !.redo = FALSE, !.rcvd = FALSE,
                          !.rcvdTs = FALSE, !.seq = q]
<1>1. q \in Nat
  BY DEF Fresh, SndRecord
<1>2. Initialize(m) = r
  BY DEF Initialize
<1> HIDE DEF q
<1>3. r = [[[[[m EXCEPT !.state = "Initializing"] EXCEPT !.redo = FALSE] EXCEPT !.rcvd = FALSE]
             EXCEPT !.rcvdTs = FALSE] EXCEPT !.seq = q]
  BY DEF SndRecord
<1>4. r \in SndRecord(n)
  BY <1>1, <1>3, Zenon DEF SndRecord
<1>5. r.state = "Initializing" /\ ~r.redo /\ ~r.rcvdTs /\ r.out = NoMsg
      /\ r.txts = m.txts /\ r.late = m.late /\ r.mock = m.mock /\ r.seq = q
  BY DEF SndRecord
<1> HIDE DEF r
<1>6. Typed(r)
  BY <1>4, <1>5 DEF Typed, DepartedBy, NoMsg
<1> QED
  BY <1>2, <1>5, <1>6 DEF q

LEMMA SndRunTypeLemma ==
    ASSUME departed \in Seq(Nat), NEW s \in SndRecord(Len(departed)), NEW res \in Results
    PROVE  Typed(SndRun(s, res))
<1> DEFINE n == Len(departed)
           m == [s EXCEPT !.out = NoMsg]
           mocked == [m EXCEPT !.ts = m.mock, !.mock = 0]
<1>1. NoMsg \in MessageOf(n)
  BY DEF NoMsg, MessageOf
<1>2. m \in SndRecord(n) /\ m.out = NoMsg
  BY <1>1 DEF SndRecord
<1>3. SndRun(s, res) \in {m, Initialize(m), SendSync(m, res), SendFup(m, res), SendFup(mocked, res)}
  BY DEF SndRun, AwaitTxTs
<1> HIDE DEF m
<1>4. mocked \in SndRecord(n) /\ mocked.out = NoMsg
  <2>1. mocked = [[m EXCEPT !.ts = m.mock] EXCEPT !.mock = 0]
    OBVIOUS
  <2>2. m.mock \in 0 .. n /\ 0 \in 0 .. n
    BY <1>2 DEF SndRecord
  <2>3. mocked \in SndRecord(n)
    BY <1>2, <2>1, <2>2, Zenon DEF SndRecord
  <2> QED
    BY <1>2, <2>3 DEF SndRecord
<1> HIDE DEF mocked
<1>5. Typed(m)
  BY <1>2 DEF Typed, DepartedBy, NoMsg
<1> QED
  BY <1>2, <1>3, <1>4, <1>5, InitializeLemma, SendSyncLemma, SendFupLemma

-----------------------------------------------------------------------------
(* What a run of the sender keeps, with the faults it withstands.          *)
Known ==
    /\ departed \in Seq(Nat) /\ told \subseteq Departures /\ driver \subseteq Results
    /\ Withstood /\ Ordered(departed)

(* A Sync carries the next departure, a follow-up the last one, which is   *)
(* told for the first time.                                                *)
Sends(m) ==
    LET n == Len(departed)
    IN  \/ m.out = NoMsg
        \/ m.out = SyncMsg(m.seq, n + 1)
        \/ m.out = FupMsg(departed[n], n) /\ n > 0 /\ n \notin told

Good(m) ==
    /\ SndInv(m, DepartedBy(m), ToldBy(m), sndUp)
    /\ Ordered(DepartedBy(m)) /\ Sends(m)

(* The sequence id of m may be sent. *)
MaySend(m) ==
    Len(departed) > 0 =>
        departed[Len(departed)] <= m.seq /\ ("txts" \notin faults => departed[Len(departed)] < m.seq)

Mocks(m) == m.mock # 0 => m.mock = Len(departed) /\ "mock" \in driver

LEMMA QuietLemma ==
    ASSUME Known, NEW m, m.out = NoMsg, SndInv(m, departed, told, sndUp)
    PROVE  Good(m)
  BY DEF Good, Known, DepartedBy, ToldBy, NoMsg, Sends

LEMMA SyncInvLemma ==
    ASSUME Known, sndUp, NEW m \in SndRecord(Len(departed)), m.out = NoMsg, NEW res \in driver,
           ~m.rcvdTs, m.txts = {}, Mocks(m), MaySend(m)
    PROVE  Good(SendSync(m, res))
<1> DEFINE r == SendSync(m, res)
           n == Len(departed)
           deps == DepartedBy(r)
<1>1. /\ Typed(r) /\ r.state = "Send" /\ ~r.rcvdTs /\ r.seq = m.seq
      /\ \/ /\ r.redo /\ r.out = NoMsg
            /\ r.txts = {} /\ r.late = m.late /\ r.mock = m.mock
         \/ /\ ~r.redo /\ r.out = SyncMsg(m.seq, n + 1) /\ ~r.late /\ res # "fail"
            /\ r.mock = IF res = "mock" THEN n + 1 ELSE m.mock
            /\ r.txts = IF res = "ok" THEN {n + 1} ELSE {}
  <2>1. departed \in Seq(Nat) /\ res \in Results /\ "late" \notin faults
    BY DEF Known, Withstood
  <2>2. /\ Typed(r) /\ r.state = "Send" /\ r.rcvdTs = m.rcvdTs /\ r.seq = m.seq
        /\ \/ /\ r.redo /\ r.out = NoMsg
              /\ r.txts = m.txts /\ r.late = m.late /\ r.mock = m.mock
           \/ /\ ~r.redo /\ r.out = SyncMsg(m.seq, n + 1) /\ ~r.late /\ res # "fail"
              /\ r.mock = IF res = "mock" THEN n + 1 ELSE m.mock
              /\ r.txts = (IF res = "ok" THEN {n + 1} ELSE {})
                          \cup (IF "late" \in faults THEN m.txts ELSE {})
    BY <2>1, SendSyncLemma
  <2> HIDE DEF r
  <2> QED
    BY <2>1, <2>2
<1>2. n \in Nat /\ m.seq \in Nat /\ departed \in Seq(Nat) /\ res \in Results
  BY DEF SndRecord, Known
<1>3. CASE r.redo
  <2>1. Stamps(r, n, sndUp)
    BY <1>1, <1>3 DEF Stamps, Mocks
  <2>2. Follows(r, departed, told)
    BY <1>1, <1>2, <1>3 DEF Follows, Owes, Begins, MaySend
  <2> QED
    BY <1>1, <1>3, <2>1, <2>2, QuietLemma DEF SndInv
<1>4. CASE ~r.redo
  <2>1. r.out.kind = "sync" /\ r.out.seq = m.seq
    BY <1>1, <1>4 DEF SyncMsg
  <2>2. deps \in Seq(Nat) /\ Len(deps) = n + 1 /\ deps[n + 1] = m.seq
        /\ (\A i \in 1 .. n : deps[i] = departed[i]) /\ ToldBy(r) = told
    BY <1>2, <2>1, DepartedLemma DEF ToldBy
  <2> HIDE DEF deps
  <2>3. Stamps(r, n + 1, sndUp)
    BY <1>1, <1>2, <1>4 DEF Stamps, Mocks, Withstood, Known, Results
  <2>4. Follows(r, deps, told)
    <3>1. n + 1 \notin told
      BY <1>2 DEF Known, Departures
    <3>2. r.mock = n + 1 \/ r.txts = {n + 1}
      BY <1>1, <1>2, <1>4 DEF Results
    <3> QED
      BY <1>1, <1>2, <1>4, <2>2, <3>1, <3>2 DEF Follows, Owes, Begins
  <2>5. Ordered(deps)
    <3> SUFFICES ASSUME NEW j \in 1 .. n + 1, NEW i \in 1 .. j - 1
                 PROVE  deps[i] <= deps[j] /\ ("txts" \notin faults => deps[i] < deps[j])
      BY <2>2 DEF Ordered
    <3>1. CASE j \in 1 .. n
      <4>1. i \in 1 .. n /\ i \in 1 .. j - 1
        BY <1>2, <3>1
      <4>2. departed[i] <= departed[j] /\ ("txts" \notin faults => departed[i] < departed[j])
        BY <3>1, <4>1 DEF Known, Ordered
      <4> QED
        BY <2>2, <3>1, <4>1, <4>2
    <3>2. CASE j = n + 1
      <4>1. n > 0 /\ i \in 1 .. n /\ deps[i] = departed[i] /\ departed[i] \in Nat /\ departed[n] \in Nat
        BY <1>2, <2>2, <3>2
      <4>2. i = n \/ i \in 1 .. n - 1
        BY <1>2, <4>1
      <4>3. departed[i] <= departed[n]
        BY <1>2, <4>1, <4>2, SMTT(30) DEF Known, Ordered
      <4> QED
        BY <1>2, <2>2, <3>2, <4>1, <4>3 DEF MaySend
    <3> QED
      BY <1>2, <3>1, <3>2
  <2> QED
    BY <1>1, <1>4, <2>2, <2>3, <2>4, <2>5 DEF Good, SndInv, Sends, deps
<1> QED
  BY <1>3, <1>4

LEMMA FupInvLemma ==
    ASSUME Known, NEW m \in SndRecord(Len(departed)), m.out = NoMsg, NEW res \in driver,
           m.txts = {}, Mocks(m), m.ts = Len(departed), Len(departed) > 0,
           Len(departed) \notin told, departed[Len(departed)] = m.seq
    PROVE  Good(SendFup(m, res))
<1> DEFINE r == SendFup(m, res)
           n == Len(departed)
<1>1. /\ r.state = "FollowUp" /\ ~r.rcvdTs /\ r.ts = n /\ r.txts = {} /\ r.mock = m.mock
      /\ \/ r.redo /\ r.out = NoMsg /\ r.seq = m.seq
         \/ ~r.redo /\ r.out = FupMsg(m.seq, n) /\ r.seq = m.seq + 1
  BY SendFupLemma DEF Known
<1>2. n \in Nat /\ m.seq \in Nat
  BY DEF SndRecord, Known
<1>3. Stamps(r, n, sndUp)
  BY <1>1 DEF Stamps, Mocks
<1>4. CASE r.redo
  <2>1. Follows(r, departed, told)
    BY <1>1, <1>2, <1>4 DEF Follows, Owes, Begins
  <2> QED
    BY <1>1, <1>3, <1>4, <2>1, QuietLemma DEF SndInv
<1>5. CASE ~r.redo
  <2>1. DepartedBy(r) = departed
    BY <1>1, <1>5 DEF DepartedBy, FupMsg
  <2>2. \A tld : Follows(r, departed, tld)
    BY <1>1, <1>2, <1>5 DEF Follows, Owes, Begins
  <2> QED
    BY <1>1, <1>3, <1>5, <2>1, <2>2 DEF Good, SndInv, Sends, Known
<1> QED
  BY <1>4, <1>5

LEMMA InitializeInvLemma ==
    ASSUME Known, ~sndUp, NEW m \in SndRecord(Len(departed)), m.out = NoMsg,
           m.txts \subseteq {Len(departed)}, m.txts # {} => ~m.late /\ m.mock = 0, Mocks(m),
           Len(departed) > 0 => departed[Len(departed)] <= m.seq
    PROVE  Good(Initialize(m))
<1> DEFINE r == Initialize(m)
           n == Len(departed)
<1>1. r.state = "Initializing" /\ ~r.redo /\ ~r.rcvdTs /\ r.out = NoMsg
      /\ r.txts = m.txts /\ r.late = m.late /\ r.mock = m.mock /\ r.seq = Fresh(m.seq)
  BY InitializeLemma DEF Known
<1>2. n \in Nat /\ m.seq \in Nat /\ departed \in Seq(Nat)
  BY DEF SndRecord, Known
<1>3. n > 0 => departed[n] <= r.seq /\ departed[n] < r.seq
  <2>1. n > 0 => departed # <<>> /\ departed[n] \in Nat
    BY <1>2
  <2> QED
    BY <1>1, <1>2, <2>1 DEF Fresh, Used
<1>4. Stamps(r, n, sndUp)
  BY <1>1 DEF Stamps, Mocks
<1>5. Follows(r, departed, told)
  <2>1. ~Owes(r) /\ r.state # "Send" /\ r.state # "FollowUp"
    BY <1>1 DEF Owes
  <2> QED
    BY <1>1, <1>3, <2>1 DEF Follows
<1> QED
  BY <1>1, <1>4, <1>5, QuietLemma DEF SndInv

(* A run of md_sync_send_sm *)
LEMMA SndRunInvLemma ==
    ASSUME Known, NEW s \in SndRecord(Len(departed)), SndInv(s, departed, told, sndUp),
           NEW res \in driver
    PROVE  Good(SndRun(s, res))
<1> DEFINE n == Len(departed)
           m == [s EXCEPT !.out = NoMsg]
           mocked == [m EXCEPT !.ts = m.mock, !.mock = 0]
<1>1. n \in Nat /\ departed \in Seq(Nat) /\ (n > 0 => departed[n] \in Nat)
  BY DEF Known
<1>2. m \in SndRecord(n) /\ m.out = NoMsg
  <2>1. NoMsg \in MessageOf(n)
    BY <1>1 DEF NoMsg, MessageOf
  <2> QED
    BY <2>1 DEF SndRecord
<1>3. SndInv(m, departed, told, sndUp)
  BY <1>2 DEF SndRecord, SndInv, Stamps, Follows, Owes, Begins
<1>4. SndRun(s, res) =
          IF ~sndUp THEN Initialize(m)
          ELSE IF m.redo THEN IF m.state = "Send" THEN SendSync(m, res) ELSE SendFup(m, res)
          ELSE IF m.state = "Send" THEN AwaitTxTs(m, res)
          ELSE IF m.rcvd THEN SendSync(m, res)
          ELSE m
  BY DEF SndRun
<1> HIDE DEF m
<1>5. Stamps(m, n, sndUp) /\ Follows(m, departed, told) /\ Mocks(m) /\ ~m.rcvdTs
  BY <1>3 DEF SndInv, Stamps, Mocks
<1>6. CASE ~sndUp
  <2>1. m.txts \subseteq {n} /\ (m.txts # {} => ~m.late /\ m.mock = 0)
        /\ (n > 0 => departed[n] <= m.seq)
    BY <1>5 DEF Stamps, Follows
  <2> QED
    BY <1>2, <1>4, <1>5, <1>6, <2>1, InitializeInvLemma
<1>7. CASE sndUp /\ m.redo /\ m.state = "Send"
  <2>1. m.txts = {} /\ MaySend(m)
    BY <1>5, <1>7 DEF Stamps, Follows, Begins, MaySend
  <2> QED
    BY <1>2, <1>4, <1>5, <1>7, <2>1, SyncInvLemma
<1>8. CASE sndUp /\ m.redo /\ m.state # "Send"
  <2>1. m.state = "FollowUp"
    BY <1>2, <1>5, <1>8 DEF Follows, SndRecord
  <2>2. m.txts = {} /\ m.ts = n /\ n > 0 /\ n \notin told /\ departed[n] = m.seq
    BY <1>5, <1>8, <2>1 DEF Stamps, Follows, Owes
  <2> QED
    BY <1>2, <1>4, <1>5, <1>8, <2>2, FupInvLemma
<1>9. CASE sndUp /\ ~m.redo /\ m.state = "Send"
  <2>1. n > 0 /\ n \notin told /\ departed[n] = m.seq
        /\ (m.mock = n \/ m.txts = {n} \/ "txts" \in faults)
    BY <1>5, <1>9 DEF Follows, Owes
  <2>2. SndRun(s, res) = IF m.mock # 0 THEN SendFup(mocked, res)
                         ELSE IF m.late THEN SendSync(m, res) ELSE m
    BY <1>4, <1>5, <1>9 DEF AwaitTxTs
  <2>3. CASE m.mock # 0
    <3>1. m.mock = n /\ m.txts = {}
      BY <1>5, <2>3 DEF Stamps
    <3>2. mocked = [[m EXCEPT !.ts = m.mock] EXCEPT !.mock = 0]
      OBVIOUS
    <3>3. mocked \in SndRecord(n)
      <4>1. m.mock \in 0 .. n /\ 0 \in 0 .. n
        BY <1>2 DEF SndRecord
      <4> QED
        BY <1>2, <3>2, <4>1, Zenon DEF SndRecord
    <3>4. mocked.out = NoMsg /\ mocked.txts = {} /\ mocked.ts = n /\ mocked.mock = 0
          /\ mocked.seq = m.seq
      BY <1>2, <3>1 DEF SndRecord
    <3> HIDE DEF mocked
    <3>5. Mocks(mocked)
      BY <3>4 DEF Mocks
    <3> QED
      BY <2>1, <2>2, <2>3, <3>3, <3>4, <3>5, FupInvLemma
  <2>4. CASE m.mock = 0 /\ m.late
    <3>1. m.txts = {} /\ "txts" \in faults
      BY <1>1, <1>5, <2>1, <2>4 DEF Stamps
    <3>2. MaySend(m)
      BY <1>1, <2>1, <3>1 DEF MaySend
    <3> HIDE DEF mocked
    <3> QED
      BY <1>2, <1>5, <1>9, <2>2, <2>4, <3>1, <3>2, SyncInvLemma
  <2>5. CASE m.mock = 0 /\ ~m.late
    <3> HIDE DEF mocked
    <3> QED
      BY <1>2, <1>3, <2>2, <2>5, QuietLemma
  <2> QED
    BY <2>3, <2>4, <2>5
<1>10. CASE sndUp /\ ~m.redo /\ m.state # "Send"
  <2>1. m.txts = {}
    BY <1>5, <1>10 DEF Stamps
  <2>2. MaySend(m)
    BY <1>1, <1>2, <1>5, <1>10 DEF Follows, Begins, MaySend, SndRecord
  <2>3. CASE m.rcvd
    BY <1>2, <1>4, <1>5, <1>10, <2>1, <2>2, <2>3, SyncInvLemma
  <2>4. CASE ~m.rcvd
    BY <1>2, <1>3, <1>4, <1>10, <2>4, QuietLemma
  <2> QED
    BY <2>3, <2>4
<1> QED
  BY <1>6, <1>7, <1>8, <1>9, <1>10

-----------------------------------------------------------------------------
(* The receiver.  What a run of md_sync_receive_sm leaves: it gives an     *)
(* MDSyncReceive when the follow-up it has is one of the Sync it has.      *)
LEMMA RcvRunLemma ==
    ASSUME NEW n \in Nat, NEW s \in RcvRecord(n)
    PROVE  LET r == RcvRun(s)
           IN  /\ r \in RcvRecord(n) /\ r.sync = s.sync /\ r.fup = s.fup /\ ~r.rcvdSync
               /\ r.state = "WaitFup" => s.state = "WaitFup" \/ s.rcvdSync
               /\ r.gives => /\ s.rcvdFup /\ s.fup.seq = s.sync.seq
                             /\ s.state = "WaitFup" \/ s.rcvdSync
<1> DEFINE Leaves(r) ==
               /\ r \in RcvRecord(n) /\ r.sync = s.sync /\ r.fup = s.fup /\ ~r.rcvdSync
               /\ r.state = "WaitFup" => s.state = "WaitFup" \/ s.rcvdSync
               /\ r.gives => /\ s.rcvdFup /\ s.fup.seq = s.sync.seq
                             /\ s.state = "WaitFup" \/ s.rcvdSync
           m == [s EXCEPT !.gives = FALSE]
<1>1. /\ m \in RcvRecord(n) /\ ~m.gives /\ m.sync = s.sync /\ m.fup = s.fup /\ m.state = s.state
      /\ m.rcvdSync = s.rcvdSync /\ m.rcvdFup = s.rcvdFup
  BY DEF RcvRecord
<1>2. RcvRun(s) =
          IF ~rcvUp THEN Discard(m)
          ELSE IF m.rcvdSync THEN NewSync(m)
          ELSE CASE m.state = "Discard" -> m
                 [] m.state = "WaitFup" -> AwaitFup(m)
                 [] m.state = "WaitSync" -> [m EXCEPT !.rcvdFup = FALSE]
  BY DEF RcvRun
<1> HIDE DEF m
<1>3. ASSUME NEW p \in RcvRecord(n), ~p.gives, p.sync = s.sync, p.fup = s.fup
      PROVE  Leaves(Discard(p))
  <2> DEFINE r == [p EXCEPT !.state = "Discard", !.rcvdSync = FALSE, !.rcvdFup = FALSE]
  <2>1. r = [[[p EXCEPT !.state = "Discard"] EXCEPT !.rcvdSync = FALSE] EXCEPT !.rcvdFup = FALSE]
    BY <1>3 DEF RcvRecord
  <2>2. r \in RcvRecord(n)
    BY <1>3, <2>1, Zenon DEF RcvRecord
  <2>3. r.sync = s.sync /\ r.fup = s.fup /\ ~r.rcvdSync /\ r.state = "Discard" /\ ~r.gives
    BY <1>3 DEF RcvRecord
  <2>4. Discard(p) = r
    BY DEF Discard
  <2> HIDE DEF r
  <2> QED
    BY <2>2, <2>3, <2>4
<1>4. ASSUME NEW p \in RcvRecord(n), ~p.gives, p.sync = s.sync, p.fup = s.fup, p.rcvdFup => s.rcvdFup,
             ~p.rcvdSync, s.state = "WaitFup" \/ s.rcvdSync
      PROVE  Leaves(AwaitFup(p))
  <2> DEFINE j == [p EXCEPT !.state = "WaitSync", !.rcvdSync = FALSE, !.rcvdFup = FALSE, !.gives = TRUE]
             w == [p EXCEPT !.rcvdFup = FALSE]
  <2>1. j = [[[[p EXCEPT !.state = "WaitSync"] EXCEPT !.rcvdSync = FALSE] EXCEPT !.rcvdFup = FALSE]
               EXCEPT !.gives = TRUE]
    BY <1>4 DEF RcvRecord
  <2>2. j \in RcvRecord(n)
    BY <1>4, <2>1, Zenon DEF RcvRecord
  <2>3. j.sync = s.sync /\ j.fup = s.fup /\ ~j.rcvdSync /\ j.state = "WaitSync"
    BY <1>4 DEF RcvRecord
  <2>4. w \in RcvRecord(n)
    BY <1>4, Zenon DEF RcvRecord
  <2>5. w.sync = s.sync /\ w.fup = s.fup /\ ~w.rcvdSync /\ ~w.gives
    BY <1>4 DEF RcvRecord
  <2>6. AwaitFup(p) = IF p.rcvdFup /\ p.fup.seq = p.sync.seq THEN j
                      ELSE IF p.expired THEN Discard(p) ELSE w
    BY DEF AwaitFup, Join
  <2> HIDE DEF j, w
  <2>7. Leaves(Discard(p)) /\ Leaves(w)
    BY <1>3, <1>4, <2>4, <2>5
  <2>8. p.rcvdFup /\ p.fup.seq = p.sync.seq => Leaves(j)
    BY <1>4, <2>2, <2>3
  <2> HIDE DEF Leaves
  <2> QED
    BY <2>6, <2>7, <2>8
<1>5. CASE ~rcvUp
  BY <1>1, <1>2, <1>3, <1>5
<1>6. CASE rcvUp /\ m.rcvdSync
  <2> DEFINE p == [m EXCEPT !.state = "WaitFup", !.rcvdSync = FALSE, !.expired = FALSE]
  <2>1. p = [[[m EXCEPT !.state = "WaitFup"] EXCEPT !.rcvdSync = FALSE] EXCEPT !.expired = FALSE]
    BY <1>1 DEF RcvRecord
  <2>2. p \in RcvRecord(n)
    BY <1>1, <2>1, Zenon DEF RcvRecord
  <2>3. ~p.gives /\ p.sync = s.sync /\ p.fup = s.fup /\ p.rcvdFup = s.rcvdFup /\ ~p.rcvdSync
    BY <1>1 DEF RcvRecord
  <2>4. RcvRun(s) = AwaitFup(p)
    BY <1>2, <1>6 DEF NewSync
  <2> HIDE DEF p, Leaves
  <2>5. Leaves(AwaitFup(p))
    BY <1>1, <1>4, <1>6, <2>2, <2>3
  <2> QED
    BY <2>4, <2>5 DEF Leaves
<1>7. CASE rcvUp /\ ~m.rcvdSync /\ m.state = "WaitFup"
  <2>1. RcvRun(s) = AwaitFup(m)
    BY <1>2, <1>7
  <2> HIDE DEF Leaves
  <2>2. Leaves(AwaitFup(m))
    BY <1>1, <1>4, <1>7
  <2> QED
    BY <2>1, <2>2 DEF Leaves
<1>8. CASE rcvUp /\ ~m.rcvdSync /\ m.state # "WaitFup"
  <2> DEFINE w == [m EXCEPT !.rcvdFup = FALSE]
  <2>1. RcvRun(s) \in {m, w}
    BY <1>1, <1>2, <1>8 DEF RcvRecord
  <2>2. w \in RcvRecord(n)
    BY <1>1, Zenon DEF RcvRecord
  <2>3. w.sync = s.sync /\ w.fup = s.fup /\ ~w.rcvdSync /\ ~w.gives /\ w.state # "WaitFup"
    BY <1>1, <1>8 DEF RcvRecord
  <2> HIDE DEF w
  <2>4. Leaves(m) /\ Leaves(w)
    BY <1>1, <1>8, <2>2, <2>3
  <2> HIDE DEF Leaves
  <2> QED
    BY <2>1, <2>4 DEF Leaves
<1> QED
  BY <1>5, <1>6, <1>7, <1>8

-----------------------------------------------------------------------------
(* The types.                                                              *)
LEMMA TypedStateLemma == TypeOK <=> TypedState
  BY DEF TypeOK, TypedState, SndRecord, RcvRecord, MessageOf, Message, Departures

LEMMA SentTypeLemma ==
    ASSUME TypedState, NEW m, Typed(m), Sent(m)
    PROVE  TypedState'
<1> DEFINE n == Len(departed)
           k == Len(DepartedBy(m))
<1>1. departed' = DepartedBy(m) /\ snd' = m /\ UNCHANGED <<receiverVars, env>>
  BY DEF Sent, DepartedBy
<1>2. m.out.seq \in Nat
  <2>1. m.out \in MessageOf(k)
    BY DEF Typed, SndRecord
  <2> QED
    BY <2>1 DEF MessageOf
<1>3. departed' \in Seq(Nat) /\ n \in Nat /\ k \in Nat /\ n <= k /\ Len(departed') = k
  BY <1>1, <1>2, DepartedLemma DEF TypedState
<1>4. m.out \in MessageOf(k)
  BY DEF Typed, SndRecord
<1>5. wire' \in Seq(MessageOf(k))
  <2>1. wire \in Seq(MessageOf(k))
    <3>1. MessageOf(n) \subseteq MessageOf(k)
      BY <1>3, WiderLemma
    <3> HIDE DEF MessageOf, n, k
    <3> QED
      BY <3>1 DEF TypedState, n
  <2> HIDE DEF MessageOf, k
  <2> QED
    BY <1>4, <2>1 DEF Sent
<1>6. told' \subseteq 0 .. k
  <2>1. m.out.kind = "fup" => m.out.dep \in 0 .. k
    BY <1>4 DEF MessageOf
  <2>2. told \subseteq 0 .. k
    BY <1>3 DEF TypedState
  <2> QED
    BY <2>1, <2>2 DEF Sent
<1>7. rcv' \in RcvRecord(k)
  BY <1>1, <1>3, WiderLemma DEF TypedState, receiverVars
<1>8. joined' \in [sync: 0 .. k, fup: 0 .. k]
  BY <1>1, <1>3 DEF TypedState, receiverVars
<1>9. snd' \in SndRecord(k)
  BY <1>1 DEF Typed
<1> HIDE DEF k
<1> QED
  BY <1>1, <1>3, <1>5, <1>6, <1>7, <1>8, <1>9 DEF TypedState, env

(* Time passes, or the driver loses a TxTS. *)
LEMMA QuietTypeLemma ==
    ASSUME TypedState, LoseTxTs \/ TxTsLostTime
    PROVE  snd' \in SndRecord(Len(departed)) /\ UNCHANGED <<departed, told, wire, receiverVars, env>>
<1> DEFINE n == Len(departed)
<1>1. NoMsg \in MessageOf(n) /\ snd \in SndRecord(n)
  BY DEF MessageOf, NoMsg, TypedState
<1>2. CASE LoseTxTs
  <2>1. PICK d \in snd.txts : snd' = [snd EXCEPT !.txts = @ \ {d}, !.out = NoMsg]
    BY <1>2 DEF LoseTxTs
  <2>2. snd.txts \ {d} \in SUBSET (0 .. n)
    BY <1>1 DEF SndRecord
  <2>3. snd' = [[snd EXCEPT !.txts = snd.txts \ {d}] EXCEPT !.out = NoMsg]
    BY <2>1
  <2> HIDE DEF MessageOf
  <2> QED
    BY <1>1, <1>2, <2>2, <2>3, Zenon DEF SndRecord, LoseTxTs
<1>3. CASE TxTsLostTime
  <2>1. snd' = [[snd EXCEPT !.late = TRUE] EXCEPT !.out = NoMsg]
    BY <1>3 DEF TxTsLostTime
  <2> QED
    BY <1>1, <1>3, <2>1, Zenon DEF SndRecord, TxTsLostTime
<1> QED
  BY <1>2, <1>3

(* What the receiver is given of the wire *)
LEMMA ArrivesLemma ==
    ASSUME TypedState, NEW kind, Arrives(kind)
    PROVE  /\ wire # <<>> /\ Head(wire) \in MessageOf(Len(departed)) /\ Head(wire).kind = kind
           /\ wire' = Tail(wire) /\ wire' \in Seq(MessageOf(Len(departed)))
           /\ UNCHANGED <<senderVars, env>>
<1> HIDE DEF MessageOf
<1> QED
  BY DEF Arrives, TypedState

LEMMA RecvSyncLemma ==
    ASSUME TypedState, RecvSync
    PROVE  /\ rcv' \in RcvRecord(Len(departed)) /\ rcv'.sync = Head(wire) /\ ~rcv'.rcvdSync
           /\ UNCHANGED joined
<1> DEFINE n == Len(departed)
           s == [rcv EXCEPT !.rcvdSync = TRUE, !.sync = Head(wire)]
<1>1. Head(wire) \in MessageOf(n) /\ n \in Nat /\ rcv \in RcvRecord(n)
  BY ArrivesLemma DEF RecvSync, TypedState
<1>2. s = [[rcv EXCEPT !.rcvdSync = TRUE] EXCEPT !.sync = Head(wire)]
  OBVIOUS
<1>3. s \in RcvRecord(n)
  BY <1>1, <1>2, Zenon DEF RcvRecord
<1>4. s.sync = Head(wire)
  BY <1>1 DEF RcvRecord
<1> HIDE DEF s
<1>5. rcv' = RcvRun(s) /\ UNCHANGED joined
  BY DEF RecvSync, s
<1> QED
  BY <1>1, <1>3, <1>4, <1>5, RcvRunLemma

LEMMA RecvFupLemma ==
    ASSUME TypedState, RecvFup
    PROVE  /\ rcv' \in RcvRecord(Len(departed)) /\ rcv'.sync = rcv.sync /\ rcv'.fup = Head(wire)
           /\ ~rcv'.rcvdSync
           /\ rcv'.state = "WaitFup" => rcv.state = "WaitFup" \/ rcv.rcvdSync
           /\ \/ UNCHANGED joined
              \/ /\ rcv.state = "WaitFup" \/ rcv.rcvdSync
                 /\ Head(wire).seq = rcv.sync.seq
                 /\ joined' = [sync |-> rcv.sync.dep, fup |-> Head(wire).dep]
<1> DEFINE n == Len(departed)
           s == [rcv EXCEPT !.rcvdFup = TRUE, !.fup = Head(wire)]
<1>1. Head(wire) \in MessageOf(n) /\ n \in Nat /\ rcv \in RcvRecord(n)
  BY ArrivesLemma DEF RecvFup, TypedState
<1>2. s = [[rcv EXCEPT !.rcvdFup = TRUE] EXCEPT !.fup = Head(wire)]
  OBVIOUS
<1>3. s \in RcvRecord(n)
  BY <1>1, <1>2, Zenon DEF RcvRecord
<1>4. s.fup = Head(wire) /\ s.sync = rcv.sync /\ s.state = rcv.state /\ s.rcvdSync = rcv.rcvdSync
  BY <1>1 DEF RcvRecord
<1> HIDE DEF s
<1>5. rcv' = RcvRun(s)
  BY DEF RecvFup, s
<1>6. joined' = IF rcv'.gives THEN [sync |-> rcv'.sync.dep, fup |-> rcv'.fup.dep] ELSE joined
  BY DEF RecvFup
<1>7. /\ rcv' \in RcvRecord(n) /\ rcv'.sync = s.sync /\ rcv'.fup = s.fup /\ ~rcv'.rcvdSync
      /\ rcv'.state = "WaitFup" => s.state = "WaitFup" \/ s.rcvdSync
      /\ rcv'.gives => s.fup.seq = s.sync.seq /\ (s.state = "WaitFup" \/ s.rcvdSync)
  BY <1>1, <1>3, <1>5, RcvRunLemma
<1> QED
  BY <1>4, <1>6, <1>7

(* What a handler of the sender stores before it runs the machine. *)
Stored(m, d) == [m EXCEPT !.txts = @ \ {d}, !.waiting = FALSE, !.rcvdTs = TRUE, !.ts = d]

LEMMA StoredLemma ==
    ASSUME NEW n \in Nat, NEW m \in SndRecord(n), NEW d \in m.txts
    PROVE  LET s == Stored(m, d)
           IN  /\ s \in SndRecord(n) /\ s.txts = m.txts \ {d} /\ s.rcvdTs /\ s.ts = d
               /\ s.state = m.state /\ s.redo = m.redo /\ s.mock = m.mock /\ s.seq = m.seq
               /\ s.late = m.late
<1> DEFINE txts == m.txts \ {d}
           s == [m EXCEPT !.txts = txts, !.waiting = FALSE, !.rcvdTs = TRUE, !.ts = d]
<1>1. d \in 0 .. n /\ txts \in SUBSET (0 .. n)
  BY DEF SndRecord
<1> HIDE DEF txts
<1>2. s = [[[[m EXCEPT !.txts = txts] EXCEPT !.waiting = FALSE] EXCEPT !.rcvdTs = TRUE] EXCEPT !.ts = d]
  BY DEF SndRecord
<1>3. s \in SndRecord(n)
  BY <1>1, <1>2, Zenon DEF SndRecord
<1>4. s.txts = txts /\ s.rcvdTs /\ s.ts = d /\ s.state = m.state /\ s.redo = m.redo
      /\ s.mock = m.mock /\ s.seq = m.seq /\ s.late = m.late
  BY DEF SndRecord
<1> QED
  BY <1>3, <1>4 DEF txts, Stored

LEMMA SenderTypeLemma ==
    ASSUME TypedState, Sender
    PROVE  TypedState'
<1>1. departed \in Seq(Nat) /\ snd \in SndRecord(Len(departed)) /\ Len(departed) \in Nat
      /\ driver \subseteq Results
  BY SyncLinkAssumption DEF TypedState, Results
<1>2. CASE \E res \in driver : SndTimeout(res)
  BY <1>1, <1>2, SndRunTypeLemma, SentTypeLemma DEF SndTimeout
<1>3. CASE \E res \in driver : MdSyncSend(res)
  <2>1. [snd EXCEPT !.rcvd = TRUE] \in SndRecord(Len(departed))
    BY <1>1, Zenon DEF SndRecord
  <2> QED
    BY <1>1, <1>3, <2>1, SndRunTypeLemma, SentTypeLemma DEF MdSyncSend
<1>4. CASE \E res \in driver, d \in snd.txts : TxTs(d, res)
  BY <1>1, <1>4, StoredLemma, SndRunTypeLemma, SentTypeLemma DEF TxTs, Stored
<1> QED
  BY <1>2, <1>3, <1>4 DEF Sender

LEMMA FupTimeLemma ==
    ASSUME TypedState, FupTime
    PROVE  /\ rcv' \in RcvRecord(Len(departed)) /\ rcv'.sync = rcv.sync
           /\ rcv'.rcvdSync = rcv.rcvdSync /\ rcv'.state = rcv.state
<1>1. rcv \in RcvRecord(Len(departed)) /\ rcv' = [[rcv EXCEPT !.expired = TRUE] EXCEPT !.gives = FALSE]
  BY DEF FupTime, TypedState
<1>2. rcv' \in RcvRecord(Len(departed))
  BY <1>1, Zenon DEF RcvRecord
<1> QED
  BY <1>1, <1>2 DEF RcvRecord

LEMMA TypeStepLemma == TypedState /\ [Next]_vars => TypedState'
<1> SUFFICES ASSUME TypedState, [Next]_vars PROVE TypedState'
  OBVIOUS
<1>1. CASE Sender
  BY <1>1, SenderTypeLemma
<1>2. CASE LoseTxTs \/ TxTsLostTime
  BY <1>2, QuietTypeLemma DEF TypedState, receiverVars, env
<1>3. CASE RecvSync
  <2>1. wire' \in Seq(MessageOf(Len(departed))) /\ UNCHANGED <<senderVars, env>>
    BY <1>3, ArrivesLemma DEF RecvSync
  <2> QED
    BY <1>3, <2>1, RecvSyncLemma DEF TypedState, senderVars, env
<1>4. CASE RecvFup
  <2>1. /\ wire' \in Seq(MessageOf(Len(departed))) /\ UNCHANGED <<senderVars, env>>
        /\ Head(wire) \in MessageOf(Len(departed))
    BY <1>4, ArrivesLemma DEF RecvFup
  <2>2. rcv.sync.dep \in 0 .. Len(departed) /\ Head(wire).dep \in 0 .. Len(departed)
    BY <2>1 DEF TypedState, RcvRecord, MessageOf
  <2>3. joined' \in [sync: 0 .. Len(departed), fup: 0 .. Len(departed)]
    BY <1>4, <2>2, RecvFupLemma DEF TypedState
  <2>4. rcv' \in RcvRecord(Len(departed))
    BY <1>4, RecvFupLemma
  <2> QED
    BY <2>1, <2>3, <2>4 DEF TypedState, senderVars, env
<1>5. CASE RcvTimeout
  <2>1. rcv \in RcvRecord(Len(departed)) /\ Len(departed) \in Nat
    BY DEF TypedState
  <2>2. rcv' \in RcvRecord(Len(departed))
    BY <1>5, <2>1, RcvRunLemma DEF RcvTimeout
  <2> QED
    BY <1>5, <2>2 DEF RcvTimeout, TypedState, senderVars, env
<1>6. CASE FupTime
  BY <1>6, FupTimeLemma DEF FupTime, TypedState, senderVars, env
<1>7. CASE LoseMsg
  <2>1. wire' \in Seq(MessageOf(Len(departed)))
    <3> HIDE DEF MessageOf
    <3> QED
      BY <1>7 DEF LoseMsg, TypedState
  <2> QED
    BY <1>7, <2>1 DEF LoseMsg, TypedState, senderVars, receiverVars, env
<1>8. CASE UpDown
  BY <1>8 DEF UpDown, TypedState, senderVars, receiverVars
<1>9. CASE UNCHANGED vars
  BY <1>9 DEF vars, TypedState, senderVars, receiverVars, env
<1> QED
  BY <1>1, <1>2, <1>3, <1>4, <1>5, <1>6, <1>7, <1>8, <1>9 DEF Next, Receiver

LEMMA TypeInitLemma == Init => TypedState
<1> SUFFICES ASSUME Init PROVE TypedState
  OBVIOUS
<1>1. departed = <<>> /\ Len(departed) = 0 /\ wire = <<>>
  BY DEF Init
<1>2. NoMsg \in MessageOf(0) /\ 0 \in 0 .. 0
  BY DEF NoMsg, MessageOf
<1>3. snd \in SndRecord(0)
  BY <1>2 DEF Init, SndInit, SndRecord
<1>4. rcv \in RcvRecord(0)
  BY <1>2 DEF Init, RcvInit, RcvRecord
<1>5. wire \in Seq(MessageOf(0)) /\ departed \in Seq(Nat)
  BY <1>1
<1> QED
  BY <1>1, <1>2, <1>3, <1>4, <1>5 DEF Init, TypedState

(* Every variable stays in its range and no timestamp is of the future,    *)
(* whatever the driver returns and whatever goes wrong.                    *)
THEOREM TypeCorrect == Spec => []TypeOK
<1>1. Spec => []TypedState
  BY TypeInitLemma, TypeStepLemma, PTL DEF Spec
<1> QED
  BY <1>1, TypedStateLemma, PTL

LEMMA NextIndex ==
    ASSUME NEW l \in Nat, NEW j \in 1 .. l + 1
    PROVE  /\ j \in 1 .. l \/ j = l + 1
           /\ \A i \in 1 .. j - 1 : i \in 1 .. l
  OBVIOUS

-----------------------------------------------------------------------------
(* The wire: a message that is sent comes last, and the first one is taken *)
(* from it.                                                                *)
LEMMA WireSyncLemma ==
    ASSUME NEW n \in Nat, NEW old \in Seq(Nat), Len(old) = n,
           NEW deps \in Seq(Nat), Len(deps) = n + 1, \A i \in 1 .. n : deps[i] = old[i],
           NEW w \in Seq(MessageOf(n)), NEW tld, NEW last \in 0 .. n, NEW given \in 0 .. n,
           NEW x, x.kind = "sync", x.dep = n + 1, x.seq = deps[n + 1],
           WireInv(w, old, tld, last, given)
    PROVE  WireInv(Append(w, x), deps, tld, last, given)
<1> DEFINE v == Append(w, x)
           l == Len(w)
<1>1. l \in Nat /\ Len(v) = l + 1 /\ v[l + 1] = x /\ \A i \in 1 .. l : v[i] = w[i]
  <2> HIDE DEF MessageOf
  <2> QED
    OBVIOUS
<1> HIDE DEF v
<1>2. \A i \in 1 .. l : Carried(w[i], old, tld) /\ w[i].dep \in 1 .. n
  BY DEF WireInv, Carried
<1>3. \A i \in 1 .. l : Carried(w[i], deps, tld)
  BY <1>2 DEF Carried
<1>4. Carried(x, deps, tld)
  BY DEF Carried
<1>5. ASSUME NEW i \in 1 .. l + 1
      PROVE  /\ Carried(v[i], deps, tld) /\ given < v[i].dep
             /\ last < v[i].dep \/ (last = v[i].dep /\ v[i].kind = "fup")
  <2>1. CASE i \in 1 .. l
    BY <1>1, <1>3, <2>1 DEF WireInv
  <2>2. CASE i = l + 1
    BY <1>1, <1>4, <2>2
  <2> QED
    BY <1>1, <2>1, <2>2
<1>6. ASSUME NEW j \in 1 .. l + 1, NEW i \in 1 .. j - 1
      PROVE  Before(v[i], v[j])
  <2>1. i \in 1 .. l /\ v[i] = w[i]
    BY <1>1, NextIndex
  <2>2. CASE j \in 1 .. l
    BY <1>1, <2>1, <2>2 DEF WireInv
  <2>3. CASE j = l + 1
    <3>1. v[j] = x /\ w[i].dep \in 1 .. n
      BY <1>1, <1>2, <2>1, <2>3
    <3> QED
      BY <2>1, <3>1 DEF Before
  <2> QED
    BY <1>1, <2>2, <2>3, NextIndex
<1>7. ASSUME "wire" \notin faults, NEW k \in last + 1 .. n + 1
      PROVE  \E i \in 1 .. l + 1 : v[i].kind = "sync" /\ v[i].dep = k
  <2>1. CASE k \in last + 1 .. n
    <3>1. PICK i \in 1 .. l : w[i].kind = "sync" /\ w[i].dep = k
      BY <1>7, <2>1 DEF WireInv
    <3> QED
      BY <1>1, <3>1
  <2>2. CASE k = n + 1
    BY <1>1, <2>2, SMTT(30)
  <2> QED
    BY <2>1, <2>2
<1> QED
  BY <1>1, <1>5, <1>6, <1>7 DEF WireInv, v

LEMMA WireFupLemma ==
    ASSUME NEW n \in Nat, n > 0, NEW deps \in Seq(Nat), Len(deps) = n,
           NEW w \in Seq(MessageOf(n)), NEW tld, n \notin tld,
           NEW last \in 0 .. n, NEW given \in 0 .. n, given \in tld \cup {0},
           NEW x, x.kind = "fup", x.dep = n, x.seq = deps[n],
           WireInv(w, deps, tld, last, given)
    PROVE  WireInv(Append(w, x), deps, tld \cup {n}, last, given)
<1> DEFINE v == Append(w, x)
           l == Len(w)
           told2 == tld \cup {n}
<1>1. l \in Nat /\ Len(v) = l + 1 /\ v[l + 1] = x /\ \A i \in 1 .. l : v[i] = w[i]
  <2> HIDE DEF MessageOf
  <2> QED
    OBVIOUS
<1> HIDE DEF v
<1>2. \A i \in 1 .. l : Carried(w[i], deps, tld) /\ w[i].dep \in 1 .. n
                        /\ w[i].kind \in {"sync", "fup"} /\ (w[i].kind = "fup" => w[i].dep # n)
  BY DEF WireInv, Carried
<1>3. \A i \in 1 .. l : Carried(w[i], deps, told2)
  BY <1>2 DEF Carried
<1>4. Carried(x, deps, told2) /\ given < n
  BY DEF Carried
<1>5. ASSUME NEW i \in 1 .. l + 1
      PROVE  /\ Carried(v[i], deps, told2) /\ given < v[i].dep
             /\ last < v[i].dep \/ (last = v[i].dep /\ v[i].kind = "fup")
  <2>1. CASE i \in 1 .. l
    BY <1>1, <1>3, <2>1, ZenonT(60) DEF WireInv
  <2>2. CASE i = l + 1
    BY <1>1, <1>4, <2>2
  <2> QED
    BY <1>1, <2>1, <2>2
<1>6. ASSUME NEW j \in 1 .. l + 1, NEW i \in 1 .. j - 1
      PROVE  Before(v[i], v[j])
  <2>1. i \in 1 .. l /\ v[i] = w[i]
    BY <1>1, NextIndex
  <2>2. CASE j \in 1 .. l
    BY <1>1, <2>1, <2>2 DEF WireInv
  <2>3. CASE j = l + 1
    <3>1. v[j] = x /\ w[i].dep \in 1 .. n /\ (w[i].dep = n => w[i].kind = "sync")
      BY <1>1, <1>2, <2>1, <2>3
    <3> QED
      BY <2>1, <3>1 DEF Before
  <2> QED
    BY <1>1, <2>2, <2>3, NextIndex
<1>7. ASSUME "wire" \notin faults, NEW k \in last + 1 .. n
      PROVE  \E i \in 1 .. l + 1 : v[i].kind = "sync" /\ v[i].dep = k
  <2>1. PICK i \in 1 .. l : w[i].kind = "sync" /\ w[i].dep = k
    BY <1>7 DEF WireInv
  <2> QED
    BY <1>1, <2>1, SMTT(30)
<1> QED
  BY <1>1, <1>5, <1>6, <1>7 DEF WireInv, v

(* Of a message that is taken the receiver, or nobody, has its departure.  *)
LEMMA WireTakenLemma ==
    ASSUME NEW n \in Nat, NEW deps \in Seq(Nat), Len(deps) = n, NEW w \in Seq(MessageOf(n)), w # <<>>,
           NEW tld, NEW last \in 0 .. n, NEW given \in 0 .. n, WireInv(w, deps, tld, last, given)
    PROVE  LET x == Head(w)
           IN  /\ Carried(x, deps, tld)
               /\ x.kind = "sync" => WireInv(Tail(w), deps, tld, x.dep, given)
               /\ x.kind = "fup" => WireInv(Tail(w), deps, tld, last, x.dep)
               /\ x.kind = "fup" \/ "wire" \in faults => WireInv(Tail(w), deps, tld, last, given)
<1> DEFINE v == Tail(w)
           l == Len(w)
           x == w[1]
<1>1. l \in Nat /\ l > 0 /\ Head(w) = x /\ Len(v) = l - 1 /\ \A i \in 1 .. l - 1 : v[i] = w[i + 1]
  <2> HIDE DEF MessageOf
  <2> QED
    OBVIOUS
<1> HIDE DEF v, x
<1>2. \A i \in 1 .. l : /\ Carried(w[i], deps, tld) /\ w[i].dep \in 1 .. n /\ given < w[i].dep
                        /\ last < w[i].dep \/ (last = w[i].dep /\ w[i].kind = "fup")
  BY DEF WireInv, Carried
<1>3. Carried(x, deps, tld) /\ x.dep \in 1 .. n /\ given < x.dep
      /\ (last < x.dep \/ (last = x.dep /\ x.kind = "fup"))
  BY <1>1, <1>2 DEF x
<1>4. ASSUME NEW i \in 1 .. l - 1
      PROVE  /\ i + 1 \in 1 .. l /\ v[i] = w[i + 1] /\ Carried(v[i], deps, tld) /\ given < v[i].dep
             /\ v[i].dep \in 1 .. n /\ Before(x, v[i])
             /\ last < v[i].dep \/ (last = v[i].dep /\ v[i].kind = "fup")
  <2>1. i + 1 \in 1 .. l /\ 1 \in 1 .. (i + 1) - 1 /\ v[i] = w[i + 1]
    BY <1>1
  <2>2. Before(w[1], w[i + 1])
    BY <2>1 DEF WireInv
  <2> QED
    BY <1>2, <2>1, <2>2 DEF x
<1>5. ASSUME NEW j \in 1 .. l - 1, NEW i \in 1 .. j - 1
      PROVE  Before(v[i], v[j])
  <2>1. i \in 1 .. l - 1 /\ j + 1 \in 1 .. l /\ i + 1 \in 1 .. (j + 1) - 1
    BY <1>1
  <2>2. Before(w[i + 1], w[j + 1])
    BY <2>1 DEF WireInv
  <2> QED
    BY <1>4, <2>1, <2>2
<1>6. ASSUME "wire" \notin faults, NEW k \in last + 1 .. n, k # x.dep \/ x.kind # "sync"
      PROVE  \E i \in 1 .. l - 1 : v[i].kind = "sync" /\ v[i].dep = k
  <2>1. PICK i \in 1 .. l : w[i].kind = "sync" /\ w[i].dep = k
    BY <1>6 DEF WireInv
  <2>2. i # 1
    BY <1>6, <2>1 DEF x
  <2>3. i - 1 \in 1 .. l - 1 /\ (i - 1) + 1 = i
    BY <1>1, <2>2
  <2>4. v[i - 1] = w[i]
    BY <1>1, <2>3
  <2> QED
    BY <2>1, <2>3, <2>4
<1>7. CASE x.kind = "sync"
  <2>1. \A i \in 1 .. l - 1 : x.dep < v[i].dep \/ (x.dep = v[i].dep /\ v[i].kind = "fup")
    BY <1>4 DEF Before
  <2>2. \A k \in x.dep + 1 .. n : k \in last + 1 .. n /\ k # x.dep
    BY <1>3, <1>7
  <2>3. WireInv(v, deps, tld, x.dep, given)
    BY <1>1, <1>4, <1>5, <1>6, <2>1, <2>2 DEF WireInv
  <2>4. "wire" \in faults => WireInv(v, deps, tld, last, given)
    BY <1>1, <1>4, <1>5 DEF WireInv
  <2> QED
    BY <1>1, <1>3, <1>7, <2>3, <2>4 DEF v
<1>8. CASE x.kind = "fup"
  <2>1. \A i \in 1 .. l - 1 : x.dep < v[i].dep
    BY <1>4, <1>8 DEF Before
  <2>2. WireInv(v, deps, tld, last, x.dep)
    BY <1>1, <1>4, <1>5, <1>6, <1>8, <2>1 DEF WireInv
  <2>3. WireInv(v, deps, tld, last, given)
    BY <1>1, <1>4, <1>5, <1>6, <1>8 DEF WireInv
  <2> QED
    BY <1>1, <1>3, <1>8, <2>2, <2>3 DEF v
<1> QED
  BY <1>3, <1>7, <1>8 DEF Carried

-----------------------------------------------------------------------------
(* The invariant.                                                          *)
LEMMA ExchangeLemma ==
    ASSUME \/ Len(departed)' = Len(departed) /\ told' = told /\ joined' = joined
           \/ Len(departed)' = Len(departed) + 1 /\ told' = told /\ joined' = joined
           \/ \E d \in 1 .. Len(departed) \ told :
                  Len(departed)' = Len(departed) /\ told' = told \cup {d} /\ joined' = joined
           \/ \E d \in told : /\ d > joined.sync /\ joined' = [sync |-> d, fup |-> d]
                              /\ Len(departed)' = Len(departed) /\ told' = told
    PROVE  [Exchange!Next]_Exchange!vars
  BY DEF Exchange!Next, Exchange!Depart, Exchange!Tell, Exchange!Join, Exchange!vars

LEMMA KnownLemma == IInv => Known
  BY SyncLinkAssumption DEF IInv, Known, TypedState, Results, Departures

(* A handler of the sender *)
LEMMA SentLemma ==
    ASSUME IInv, NEW m, Typed(m), Good(m), Sent(m)
    PROVE  IInv' /\ [Exchange!Next]_Exchange!vars
<1> DEFINE n == Len(departed)
           deps == DepartedBy(m)
           tld == ToldBy(m)
<1>1. /\ departed' = deps /\ told' = tld /\ snd' = m /\ sndUp' = sndUp /\ rcv' = rcv /\ joined' = joined
      /\ driver' = driver /\ faults' = faults
      /\ wire' = IF m.out = NoMsg THEN wire ELSE Append(wire, m.out)
  BY DEF Sent, DepartedBy, ToldBy, receiverVars, env
<1>2. TypedState'
  BY SentTypeLemma DEF IInv
<1>3. /\ n \in Nat /\ departed \in Seq(Nat) /\ wire \in Seq(MessageOf(n)) /\ rcv.sync.dep \in 0 .. n
      /\ joined.sync \in 0 .. n /\ joined.sync \in told \cup {0}
      /\ WireInv(wire, departed, told, rcv.sync.dep, joined.sync)
  BY DEF IInv, TypedState, RcvRecord, MessageOf
<1>4. /\ deps \in Seq(Nat)
      /\ \/ m.out = NoMsg /\ deps = departed /\ tld = told
         \/ /\ m.out = SyncMsg(m.seq, n + 1) /\ tld = told
            /\ Len(deps) = n + 1 /\ deps[n + 1] = m.seq /\ \A i \in 1 .. n : deps[i] = departed[i]
         \/ m.out = FupMsg(departed[n], n) /\ n > 0 /\ n \notin told /\ deps = departed /\ tld = told \cup {n}
  <2>1. CASE m.out = NoMsg
    BY <1>3, <2>1 DEF NoMsg, DepartedBy, ToldBy
  <2>2. CASE m.out = SyncMsg(m.seq, n + 1)
    <3>1. m.out.kind = "sync" /\ m.out.seq = m.seq /\ m.seq \in Nat
      BY <2>2 DEF SyncMsg, Typed, SndRecord
    <3> QED
      BY <1>3, <2>2, <3>1, DepartedLemma DEF ToldBy
  <2>3. CASE m.out = FupMsg(departed[n], n) /\ n > 0 /\ n \notin told
    BY <1>3, <2>3 DEF FupMsg, DepartedBy, ToldBy
  <2> QED
    BY <2>1, <2>2, <2>3 DEF Good, Sends
<1>5. SndInv(m, deps, tld, sndUp) /\ Ordered(deps)
  BY DEF Good
<1> HIDE DEF deps, tld
<1>6. Withstood' /\ SndInv(snd, departed, told, sndUp)' /\ Ordered(departed)'
  BY <1>1, <1>5 DEF IInv, Withstood, SndInv, Stamps, Follows, Owes, Begins, Ordered
<1>7. WireInv(wire', deps, tld, rcv.sync.dep, joined.sync)
  <2>1. CASE m.out = NoMsg /\ deps = departed /\ tld = told
    BY <1>1, <1>3, <2>1
  <2>2. CASE /\ m.out = SyncMsg(m.seq, n + 1) /\ tld = told
             /\ Len(deps) = n + 1 /\ deps[n + 1] = m.seq /\ \A i \in 1 .. n : deps[i] = departed[i]
    <3>1. m.out.kind = "sync" /\ m.out.dep = n + 1 /\ m.out.seq = m.seq /\ m.out # NoMsg
      BY <2>2 DEF SyncMsg, NoMsg
    <3> QED
      BY <1>1, <1>3, <1>4, <2>2, <3>1, WireSyncLemma
  <2>3. CASE m.out = FupMsg(departed[n], n) /\ n > 0 /\ n \notin told /\ deps = departed
             /\ tld = told \cup {n}
    <3>1. m.out.kind = "fup" /\ m.out.dep = n /\ m.out.seq = departed[n] /\ m.out # NoMsg
      BY <2>3 DEF FupMsg, NoMsg
    <3> QED
      BY <1>1, <1>3, <2>3, <3>1, WireFupLemma
  <2> QED
    BY <1>4, <2>1, <2>2, <2>3
<1>8. WireInv(wire, departed, told, rcv.sync.dep, joined.sync)'
  BY <1>1, <1>7 DEF WireInv, Carried, Before
<1>9. RcvInv(rcv, departed)'
  BY <1>1, <1>3, <1>4, SMTT(30) DEF IInv, RcvInv
<1>10. (joined.sync \in told \cup {0})'
  BY <1>1, <1>3, <1>4
<1>11. [Exchange!Next]_Exchange!vars
  <2>1. CASE m.out = NoMsg /\ deps = departed /\ tld = told
    BY <1>1, <2>1, ExchangeLemma
  <2>2. CASE tld = told /\ Len(deps) = n + 1
    BY <1>1, <2>2, ExchangeLemma
  <2>3. CASE n > 0 /\ n \notin told /\ deps = departed /\ tld = told \cup {n}
    <3>1. n \in 1 .. n \ told
      BY <1>3, <2>3
    <3> QED
      BY <1>1, <2>3, <3>1, ExchangeLemma
  <2> QED
    BY <1>4, <2>1, <2>2, <2>3
<1> QED
  BY <1>2, <1>6, <1>8, <1>9, <1>10, <1>11 DEF IInv

LEMMA SenderLemma ==
    ASSUME IInv, Sender
    PROVE  IInv' /\ [Exchange!Next]_Exchange!vars
<1> DEFINE n == Len(departed)
<1>1. Known /\ TypedState /\ snd \in SndRecord(n) /\ n \in Nat /\ SndInv(snd, departed, told, sndUp)
      /\ driver \subseteq Results /\ departed \in Seq(Nat)
  BY KnownLemma DEF IInv, TypedState, Known
<1>2. CASE \E res \in driver : SndTimeout(res)
  <2>1. PICK res \in driver : Sent(SndRun(snd, res))
    BY <1>2 DEF SndTimeout
  <2> QED
    BY <1>1, <2>1, SndRunTypeLemma, SndRunInvLemma, SentLemma
<1>3. CASE \E res \in driver : MdSyncSend(res)
  <2> DEFINE s == [snd EXCEPT !.rcvd = TRUE]
  <2>1. PICK res \in driver : Sent(SndRun(s, res))
    BY <1>3 DEF MdSyncSend
  <2>2. s \in SndRecord(n)
    BY <1>1, Zenon DEF SndRecord
  <2>3. SndInv(s, departed, told, sndUp)
    BY <1>1 DEF SndRecord, SndInv, Stamps, Follows, Owes, Begins
  <2> HIDE DEF s
  <2> QED
    BY <1>1, <2>1, <2>2, <2>3, SndRunTypeLemma, SndRunInvLemma, SentLemma
<1>4. CASE \E res \in driver, d \in snd.txts : TxTs(d, res)
  <2>1. PICK res \in driver, d \in snd.txts : TxTs(d, res)
    BY <1>4
  <2> DEFINE s == Stored(snd, d)
             m == [s EXCEPT !.out = NoMsg]
  <2>2. Sent(SndRun(s, res))
    BY <2>1 DEF TxTs, Stored
  <2>3. snd.txts = {n} /\ d = n /\ ~snd.late /\ snd.mock = 0
        /\ (~sndUp \/ (snd.state = "Send" /\ ~snd.redo))
    BY <1>1 DEF SndInv, Stamps
  <2>4. /\ s \in SndRecord(n) /\ s.txts = {} /\ s.rcvdTs /\ s.ts = n /\ s.state = snd.state
        /\ s.redo = snd.redo /\ s.mock = 0 /\ s.seq = snd.seq
    BY <1>1, <2>1, <2>3, StoredLemma
  <2> HIDE DEF s
  <2>5. /\ m \in SndRecord(n) /\ m.out = NoMsg /\ m.txts = {} /\ m.rcvdTs /\ m.ts = n
        /\ m.state = snd.state /\ m.redo = snd.redo /\ m.mock = 0 /\ m.seq = snd.seq
    <3>1. NoMsg \in MessageOf(n)
      BY <1>1 DEF NoMsg, MessageOf
    <3> QED
      BY <2>4, <3>1 DEF SndRecord
  <2>6. SndRun(s, res) = IF ~sndUp THEN Initialize(m) ELSE SendFup(m, res)
    <3>1. SndRun(s, res) = IF ~sndUp THEN Initialize(m)
                           ELSE IF m.redo
                           THEN IF m.state = "Send" THEN SendSync(m, res) ELSE SendFup(m, res)
                           ELSE IF m.state = "Send" THEN AwaitTxTs(m, res)
                           ELSE IF m.rcvd THEN SendSync(m, res)
                           ELSE m
      BY DEF SndRun
    <3>2. AwaitTxTs(m, res) = SendFup(m, res)
      BY <2>5 DEF AwaitTxTs
    <3> HIDE DEF m
    <3> QED
      BY <2>3, <2>5, <3>1, <3>2
  <2> HIDE DEF m
  <2>7. Mocks(m) /\ res \in Results
    BY <1>1, <2>5 DEF Mocks
  <2>8. (n > 0 => departed[n] <= m.seq)
        /\ (sndUp => n > 0 /\ n \notin told /\ departed[n] = m.seq)
    BY <1>1, <2>3, <2>5 DEF SndInv, Follows, Owes
  <2>9. Good(SndRun(s, res))
    <3>1. CASE ~sndUp
      BY <1>1, <2>5, <2>6, <2>7, <2>8, <3>1, InitializeInvLemma
    <3>2. CASE sndUp
      BY <1>1, <2>5, <2>6, <2>7, <2>8, <3>2, FupInvLemma
    <3> QED
      BY <3>1, <3>2
  <2>10. Typed(SndRun(s, res))
    BY <1>1, <2>4, <2>7, SndRunTypeLemma
  <2> QED
    BY <2>2, <2>9, <2>10, SentLemma
<1> QED
  BY <1>2, <1>3, <1>4 DEF Sender

(* Of the receiver and the wire only what has been taken changes. *)
LEMMA TakenLemma ==
    ASSUME IInv, TypedState', Withstood', UNCHANGED <<snd, sndUp, departed, told, driver, faults>>,
           WireInv(wire', departed, told, rcv'.sync.dep, joined'.sync), RcvInv(rcv', departed),
           joined'.sync \in told \cup {0}
    PROVE  IInv'
<1>1. SndInv(snd, departed, told, sndUp)' /\ Ordered(departed)'
  BY DEF IInv, SndInv, Stamps, Follows, Owes, Begins, Ordered
<1>2. WireInv(wire, departed, told, rcv.sync.dep, joined.sync)' /\ RcvInv(rcv, departed)'
  BY DEF WireInv, Carried, Before, RcvInv
<1> QED
  BY <1>1, <1>2 DEF IInv

(* A follow-up is joined to the Sync it belongs to.                        *)
LEMMA JoinLemma ==
    ASSUME IInv, wire # <<>>, Head(wire).kind = "fup", rcv.state = "WaitFup",
           Head(wire).seq = rcv.sync.seq
    PROVE  /\ Head(wire).dep = rcv.sync.dep /\ Head(wire).dep \in told
           /\ Head(wire).dep > joined.sync
<1> DEFINE n == Len(departed)
           x == Head(wire)
           a == x.dep
           b == rcv.sync.dep
<1>1. /\ n \in Nat /\ departed \in Seq(Nat) /\ wire \in Seq(MessageOf(n)) /\ b \in 0 .. n
      /\ joined.sync \in 0 .. n
  BY DEF IInv, TypedState, RcvRecord, MessageOf
<1>2. Len(wire) \in Nat /\ Len(wire) > 0 /\ x = wire[1] /\ 1 \in 1 .. Len(wire)
  <2> HIDE DEF MessageOf
  <2> QED
    BY <1>1
<1>3. Carried(x, departed, told) /\ b <= a /\ joined.sync < a
  <2>1. /\ Carried(wire[1], departed, told) /\ joined.sync < wire[1].dep
        /\ b < wire[1].dep \/ b = wire[1].dep
    BY <1>2 DEF IInv, WireInv
  <2> QED
    BY <1>1, <1>2, <2>1 DEF Carried
<1>4. a \in 1 .. n /\ departed[a] = departed[b] /\ a \in told /\ b \in 1 .. n
  BY <1>3 DEF Carried, IInv, RcvInv
<1>5. CASE "txts" \notin faults
  <2>1. ~(b < a)
    <3> SUFFICES ASSUME b < a PROVE FALSE
      OBVIOUS
    <3>1. b \in 1 .. a - 1
      BY <1>1, <1>4
    <3>2. departed[b] < departed[a]
      <4>1. \A j \in 1 .. n : \A i \in 1 .. j - 1 : departed[i] < departed[j]
        BY <1>5 DEF IInv, Ordered
      <4> QED
        BY <1>4, <3>1, <4>1
    <3>3. departed[a] \in Nat
      BY <1>1, <1>4
    <3> QED
      BY <1>4, <3>2, <3>3
  <2> QED
    BY <1>1, <1>3, <1>4, <2>1
<1>6. CASE "wire" \notin faults
  <2>1. ~(b < a)
    <3> SUFFICES ASSUME b < a PROVE FALSE
      OBVIOUS
    <3>1. a \in b + 1 .. n
      BY <1>1, <1>4
    <3>2. PICK i \in 1 .. Len(wire) : wire[i].kind = "sync" /\ wire[i].dep = a
      BY <1>6, <3>1 DEF IInv, WireInv
    <3>3. i # 1
      BY <1>2, <3>2
    <3>4. 1 \in 1 .. i - 1
      BY <1>2, <3>3
    <3>5. Before(wire[1], wire[i])
      BY <3>4 DEF IInv, WireInv
    <3> QED
      BY <1>1, <1>2, <1>4, <3>2, <3>5 DEF Before
  <2> QED
    BY <1>1, <1>3, <1>4, <2>1
<1> QED
  BY <1>1, <1>3, <1>4, <1>5, <1>6 DEF IInv, Withstood

LEMMA ReceiverLemma ==
    ASSUME IInv, Receiver, TypedState'
    PROVE  IInv' /\ [Exchange!Next]_Exchange!vars
<1> DEFINE n == Len(departed)
<1>1. /\ n \in Nat /\ departed \in Seq(Nat) /\ wire \in Seq(MessageOf(n)) /\ rcv \in RcvRecord(n)
      /\ rcv.sync.dep \in 0 .. n /\ joined.sync \in 0 .. n /\ joined.sync \in told \cup {0}
      /\ WireInv(wire, departed, told, rcv.sync.dep, joined.sync) /\ RcvInv(rcv, departed)
      /\ TypedState
  BY SMTT(30) DEF IInv, TypedState, RcvRecord, MessageOf
<1>2. ASSUME UNCHANGED <<senderVars, env>>
      PROVE  Withstood' /\ UNCHANGED <<snd, sndUp, departed, told, driver, faults>>
  BY <1>2 DEF IInv, Withstood, senderVars, env
<1>3. CASE RecvSync
  <2>1. wire # <<>> /\ Head(wire).kind = "sync" /\ wire' = Tail(wire) /\ UNCHANGED <<senderVars, env>>
    BY <1>1, <1>3, ArrivesLemma DEF RecvSync
  <2>2. rcv'.sync = Head(wire) /\ ~rcv'.rcvdSync /\ UNCHANGED joined
    BY <1>1, <1>3, RecvSyncLemma
  <2>3. Carried(Head(wire), departed, told)
        /\ WireInv(Tail(wire), departed, told, Head(wire).dep, joined.sync)
    BY <1>1, <2>1, WireTakenLemma
  <2>4. RcvInv(rcv', departed)
    BY <2>2, <2>3 DEF RcvInv, Carried
  <2>5. IInv'
    BY <1>1, <1>2, <2>1, <2>2, <2>3, <2>4, TakenLemma
  <2> QED
    BY <1>2, <2>1, <2>2, <2>5, ExchangeLemma
<1>4. CASE RecvFup
  <2>1. wire # <<>> /\ Head(wire).kind = "fup" /\ wire' = Tail(wire) /\ UNCHANGED <<senderVars, env>>
    BY <1>1, <1>4, ArrivesLemma DEF RecvFup
  <2>2. /\ rcv'.sync = rcv.sync /\ ~rcv'.rcvdSync /\ (rcv'.state = "WaitFup" => rcv.state = "WaitFup")
        /\ \/ UNCHANGED joined
           \/ /\ rcv.state = "WaitFup" /\ Head(wire).seq = rcv.sync.seq
              /\ joined' = [sync |-> rcv.sync.dep, fup |-> Head(wire).dep]
    BY <1>1, <1>4, RecvFupLemma DEF RcvInv
  <2>3. Carried(Head(wire), departed, told)
        /\ WireInv(Tail(wire), departed, told, rcv.sync.dep, joined.sync)
        /\ WireInv(Tail(wire), departed, told, rcv.sync.dep, Head(wire).dep)
    BY <1>1, <2>1, WireTakenLemma
  <2>4. RcvInv(rcv', departed)
    BY <1>1, <2>2 DEF RcvInv
  <2>5. CASE UNCHANGED joined
    <3>1. IInv'
      BY <1>1, <1>2, <2>1, <2>2, <2>3, <2>4, <2>5, TakenLemma
    <3> QED
      BY <1>2, <2>1, <2>5, <3>1, ExchangeLemma
  <2>6. CASE /\ rcv.state = "WaitFup" /\ Head(wire).seq = rcv.sync.seq
             /\ joined' = [sync |-> rcv.sync.dep, fup |-> Head(wire).dep]
    <3>1. /\ Head(wire).dep = rcv.sync.dep /\ Head(wire).dep \in told
          /\ Head(wire).dep > joined.sync
      BY <2>1, <2>6, JoinLemma
    <3>2. joined'.sync = Head(wire).dep
      BY <2>6, <3>1
    <3>3. IInv'
      BY <1>1, <1>2, <2>1, <2>2, <2>3, <2>4, <3>1, <3>2, TakenLemma
    <3>4. \E d \in told : /\ d > joined.sync /\ joined' = [sync |-> d, fup |-> d]
                          /\ Len(departed)' = Len(departed) /\ told' = told
      BY <1>2, <2>1, <2>6, <3>1
    <3> QED
      BY <3>3, <3>4, ExchangeLemma
  <2> QED
    BY <2>2, <2>5, <2>6
<1>5. CASE RcvTimeout
  <2>1. rcv' = RcvRun(rcv) /\ UNCHANGED <<joined, senderVars, wire, env>>
    BY <1>5 DEF RcvTimeout
  <2>2. rcv'.sync = rcv.sync /\ ~rcv'.rcvdSync /\ (rcv'.state = "WaitFup" => rcv.state = "WaitFup")
    BY <1>1, <2>1, RcvRunLemma DEF RcvInv
  <2>3. RcvInv(rcv', departed)
    BY <1>1, <2>2 DEF RcvInv
  <2>4. IInv'
    BY <1>1, <1>2, <2>1, <2>2, <2>3, TakenLemma
  <2> QED
    BY <1>2, <2>1, <2>4, ExchangeLemma
<1> QED
  BY <1>3, <1>4, <1>5 DEF Receiver

(* Time, loss, and ports that go up or down *)
LEMMA EnvironmentLemma ==
    ASSUME IInv, TypedState', LoseTxTs \/ TxTsLostTime \/ FupTime \/ LoseMsg \/ UpDown
    PROVE  IInv' /\ [Exchange!Next]_Exchange!vars
<1> DEFINE n == Len(departed)
<1>1. /\ n \in Nat /\ departed \in Seq(Nat) /\ wire \in Seq(MessageOf(n)) /\ rcv.sync.dep \in 0 .. n
      /\ joined.sync \in 0 .. n /\ joined.sync \in told \cup {0} /\ snd \in SndRecord(n)
      /\ WireInv(wire, departed, told, rcv.sync.dep, joined.sync) /\ RcvInv(rcv, departed)
      /\ TypedState /\ SndInv(snd, departed, told, sndUp)
  BY SMTT(30) DEF IInv, TypedState, RcvRecord, MessageOf
<1>2. CASE LoseTxTs \/ TxTsLostTime
  <2>1. UNCHANGED <<departed, told, wire, receiverVars, env>>
    BY <1>1, <1>2, QuietTypeLemma
  <2>2. SndInv(snd', departed, told, sndUp)
    <3>1. CASE LoseTxTs
      <4>1. PICK d \in snd.txts : snd' = [snd EXCEPT !.txts = @ \ {d}, !.out = NoMsg]
        BY <3>1 DEF LoseTxTs
      <4>2. "txts" \in faults
        BY <3>1 DEF LoseTxTs
      <4> QED
        BY <1>1, <4>1, <4>2 DEF SndRecord, SndInv, Stamps, Follows, Owes, Begins
    <3>2. CASE TxTsLostTime
      <4>1. snd' = [snd EXCEPT !.late = TRUE, !.out = NoMsg] /\ (snd.txts = {} \/ "late" \in faults)
        BY <3>2 DEF TxTsLostTime
      <4>2. snd.txts = {}
        BY <4>1 DEF IInv, Withstood
      <4> QED
        BY <1>1, <4>1, <4>2 DEF SndRecord, SndInv, Stamps, Follows, Owes, Begins
    <3> QED
      BY <1>2, <3>1, <3>2
  <2>3. SndInv(snd, departed, told, sndUp)'
    BY <2>1, <2>2 DEF SndInv, Stamps, Follows, Owes, Begins, env
  <2>4. IInv'
    BY <1>1, <2>1, <2>3 DEF IInv, Withstood, Ordered, WireInv, Carried, Before, RcvInv, env, receiverVars
  <2> QED
    BY <2>1, <2>4, ExchangeLemma DEF receiverVars
<1>3. CASE FupTime
  <2>1. rcv'.sync = rcv.sync /\ rcv'.rcvdSync = rcv.rcvdSync /\ rcv'.state = rcv.state
    BY <1>1, <1>3, FupTimeLemma
  <2>2. UNCHANGED <<joined, senderVars, wire, env>>
    BY <1>3 DEF FupTime
  <2>3. RcvInv(rcv', departed)
    BY <1>1, <2>1 DEF RcvInv
  <2>4. IInv'
    BY <1>1, <2>1, <2>2, <2>3, TakenLemma DEF IInv, Withstood, senderVars, env
  <2> QED
    BY <2>2, <2>4, ExchangeLemma DEF senderVars
<1>4. CASE LoseMsg
  <2>1. /\ wire # <<>> /\ ("wire" \in faults \/ Head(wire).kind = "fup")
        /\ wire' = Tail(wire) /\ UNCHANGED <<senderVars, receiverVars, env>>
    BY <1>4 DEF LoseMsg
  <2>2. WireInv(Tail(wire), departed, told, rcv.sync.dep, joined.sync)
    BY <1>1, <2>1, WireTakenLemma
  <2>3. IInv'
    BY <1>1, <2>1, <2>2, TakenLemma DEF IInv, Withstood, senderVars, receiverVars, env
  <2> QED
    BY <2>1, <2>3, ExchangeLemma DEF senderVars, receiverVars
<1>5. CASE UpDown
  <2>1. UNCHANGED <<driver, faults, senderVars, wire, receiverVars>>
    BY <1>5 DEF UpDown
  <2>2. sndUp' => sndUp \/ snd.txts = {}
    BY <1>5 DEF UpDown, IInv, Withstood
  <2>3. SndInv(snd, departed, told, sndUp)'
    <3>1. Stamps(snd, n, sndUp')
      BY <1>1, <2>2 DEF SndInv, Stamps
    <3> QED
      BY <1>1, <2>1, <3>1 DEF SndInv, Stamps, Follows, Owes, Begins, senderVars
  <2>4. IInv'
    BY <1>1, <2>1, <2>3
       DEF IInv, Withstood, Ordered, WireInv, Carried, Before, RcvInv, senderVars, receiverVars
  <2> QED
    BY <2>1, <2>4, ExchangeLemma DEF senderVars, receiverVars
<1> QED
  BY <1>2, <1>3, <1>4, <1>5

LEMMA StepLemma ==
    ASSUME IInv, [Next]_vars
    PROVE  IInv' /\ [Exchange!Next]_Exchange!vars
<1>1. TypedState'
  BY TypeStepLemma DEF IInv
<1>2. CASE UNCHANGED vars
  <2>1. IInv'
    BY <1>1, <1>2 DEF IInv, Withstood, SndInv, Stamps, Follows, Owes, Begins, Ordered, WireInv, Carried,
                      Before, RcvInv, vars, senderVars, receiverVars, env
  <2> QED
    BY <1>2, <2>1, ExchangeLemma DEF vars, senderVars, receiverVars
<1> QED
  BY <1>1, <1>2, SenderLemma, ReceiverLemma, EnvironmentLemma DEF Next

LEMMA InitLemma == Init /\ Withstood => IInv /\ Exchange!Init
<1> SUFFICES ASSUME Init, Withstood PROVE IInv /\ Exchange!Init
  OBVIOUS
<1>1. departed = <<>> /\ Len(departed) = 0 /\ wire = <<>> /\ Len(wire) = 0 /\ told = {}
      /\ joined = [sync |-> 0, fup |-> 0] /\ joined.sync = 0 /\ snd = SndInit /\ rcv = RcvInit
  BY DEF Init
<1>2. SndInv(snd, departed, told, sndUp)
  BY <1>1 DEF SndInit, SndInv, Stamps, Follows, Owes, Begins
<1>3. Ordered(departed) /\ RcvInv(rcv, departed)
  BY <1>1 DEF Ordered, RcvInv, RcvInit
<1>4. WireInv(wire, departed, told, rcv.sync.dep, joined.sync)
  BY <1>1 DEF WireInv, RcvInit, NoMsg
<1>5. Exchange!Init
  BY <1>1 DEF Exchange!Init, Exchange!Nothing
<1> QED
  BY <1>1, <1>2, <1>3, <1>4, <1>5, TypeInitLemma DEF IInv

(* With the faults it withstands, what the two ends of a link do is an     *)
(* exchange of Syncs as SyncExchange has it: every follow-up is joined to  *)
(* the very Sync it tells the departure of, and pairs come in order and    *)
(* once, however many Syncs are sent and whatever else is lost.            *)
THEOREM LinkImplementsExchange == Spec /\ Withstood => Implements
<1>1. Init /\ Withstood => IInv /\ Exchange!Init
  BY InitLemma
<1>2. IInv /\ [Next]_vars => IInv' /\ [Exchange!Next]_Exchange!vars
  BY StepLemma
<1> QED
  BY <1>1, <1>2, PTL DEF Spec, Implements, Exchange!Spec
=============================================================================
