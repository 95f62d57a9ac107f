-------------------------- MODULE SyncPath_proofs --------------------------
(***************************************************************************)
(* Proofs about the way of a Sync through one domain, for any number of    *)
(* ports and all intervals: the types, and that a system sends Syncs of    *)
(* its own clock exactly as the grandmaster.                               *)
(***************************************************************************)
EXTENDS SyncPath, TLAPS

Sender(p) ==
    [state: {"Init", "TransmitInit", "Send", "ReceiptTimeout"}, last: Sync,
     locked: BOOLEAN, idle: 0 .. PortInterval[p], done: BOOLEAN]

(* The selection has run, with one slave port, or never. *)
Roles == role \in Selected \/ \A p \in 0 .. NumPorts : role[p] # "Slave"

(* What SiteSyncSync has stored came in on a port. *)
Stored == site = NoSync \/ site.port \in 0 .. NumPorts

(* The inductive invariant *)
IInv ==
    /\ TypeOK /\ Roles /\ Stored
    /\ OwnOnlyAsGm

(* What SiteSyncSync is given: a Sync that has just come in, or one of the *)
(* system's own clock.                                                     *)
Given(s) == s \in Sync /\ s.port \in 0 .. NumPorts /\ s.age = 0

LEMMA IntervalsLemma ==
    OwnInterval \in Nat \ {0} /\ NumPorts \in Nat \ {0} /\ {0, OwnInterval} \cup Intervals \subseteq Nat
  BY SyncPathAssumption

LEMMA NoSyncLemma == NoSync \in Sync /\ NoSync.age = 0 /\ NoSync.port = -1
  BY SyncPathAssumption DEF NoSync, Sync

LEMMA OwnSyncLemma == Given(OwnSync)
  BY SyncPathAssumption DEF OwnSync, Sync, Given

LEMMA NewSyncLemma ==
    ASSUME NEW p \in Ports, NEW i \in Intervals PROVE Given(NewSync(p, i))
  BY SyncPathAssumption DEF NewSync, Sync, Given, Ports

LEMMA OlderLemma ==
    ASSUME NEW s \in Sync
    PROVE  Older(s) \in Sync /\ Older(s).port = s.port /\ (s.port = -1 => Older(s) = s)
<1>1. CASE Received(s) /\ s.age < MaxAge
  <2>1. s.age + 1 \in 0 .. MaxAge
    BY <1>1, SyncPathAssumption DEF Sync
  <2>2. Older(s) = [s EXCEPT !.age = s.age + 1]
    BY <1>1 DEF Older
  <2>3. [s EXCEPT !.age = s.age + 1] \in Sync
    BY <2>1, Zenon DEF Sync
  <2>4. [s EXCEPT !.age = s.age + 1].port = s.port
    BY DEF Sync
  <2> QED
    BY <1>1, <2>2, <2>3, <2>4 DEF Received
<1> QED
  BY <1>1 DEF Older

-----------------------------------------------------------------------------
(* With one slave port, a port other than 0 that is it leaves port 0 out.  *)
LEMMA RolesLemma ==
    ASSUME Roles, NEW p \in 0 .. NumPorts, role[p] = "Slave"
    PROVE  p = 0 <=> role[0] = "Slave"
  BY SyncPathAssumption DEF Roles, Selected

(* SiteSyncSync passes on what it is given, what it has stored, or nothing. *)
LEMMA PassesLemma ==
    ASSUME TypeOK, Roles, Stored, NEW s, Given(s)
    PROVE  LET q == Passes(s)
           IN  /\ q \in Sync /\ (q = NoSync \/ q.port \in 0 .. NumPorts)
               /\ q # NoSync => (q.port = 0 <=> role[0] = "Slave")
<1>1. s \in Sync /\ s.port \in 0 .. NumPorts
  BY DEF Given
<1>2. NoSync \in Sync
  BY NoSyncLemma
<1>3. CASE OfSlave(site) /\ Overdue(site) /\ ~Expired(site)
  <2>1. site \in Sync /\ site.port \in 0 .. NumPorts /\ site.port # 0 /\ role[site.port] = "Slave"
    BY <1>3 DEF OfSlave, Overdue, Received, Stored, TypeOK
  <2>2. role[0] # "Slave"
    BY <2>1, RolesLemma
  <2> QED
    BY <1>1, <1>3, <2>1, <2>2 DEF Passes
<1>4. CASE ~(OfSlave(site) /\ Overdue(site) /\ ~Expired(site)) /\ OfSlave(s)
  <2>1. s.port = 0 <=> role[0] = "Slave"
    BY <1>1, <1>4, RolesLemma DEF OfSlave
  <2> QED
    BY <1>1, <1>4, <2>1 DEF Passes
<1>5. CASE ~(OfSlave(site) /\ Overdue(site) /\ ~Expired(site)) /\ ~OfSlave(s)
  BY <1>2, <1>5 DEF Passes
<1> QED
  BY <1>3, <1>4, <1>5

-----------------------------------------------------------------------------
(* PortSyncSyncSend keeps its type. *)
LEMMA WaitingLemma ==
    ASSUME NEW p \in Ports, NEW state \in {"Init", "TransmitInit", "ReceiptTimeout"}
    PROVE  Waiting(state) \in Sender(p)
  BY NoSyncLemma, SyncPathAssumption DEF Waiting, Sender

LEMMA SendMdSyncLemma ==
    ASSUME NEW p \in Ports, NEW s \in Sync PROVE SendMdSync(p, s) \in Sender(p)
<1>1. 0 \in 0 .. PortInterval[p]
  BY SyncPathAssumption
<1>2. (IF s.interval = PortInterval[p] THEN NoSync ELSE s) \in Sync
  BY NoSyncLemma
<1>3. (s.interval = PortInterval[p]) \in BOOLEAN
  OBVIOUS
<1> QED
  BY <1>1, <1>2, <1>3, Zenon DEF SendMdSync, Sender

LEMMA SendRunLemma ==
    ASSUME TypeOK, NEW p \in Ports, NEW s \in Sync PROVE SendRun(p, s) \in Sender(p)
<1> DEFINE m == [send[p] EXCEPT !.done = FALSE]
<1>1. send[p] \in Sender(p) /\ up[p] \in BOOLEAN
  BY DEF TypeOK, Sender
<1>2. m \in Sender(p)
  BY <1>1, Zenon DEF Sender
<1>3. SendRun(p, s) =
          CASE m.state = "Init" \/ ~up[p] -> Waiting("TransmitInit")
            [] m.state \in {"TransmitInit", "ReceiptTimeout"} /\ up[p] ->
                   IF s.port # p /\ MaySend(p) THEN SendMdSync(p, s) ELSE m
            [] m.state = "Send" /\ up[p] -> Sending(m, p, s)
  BY Zenon DEF SendRun
<1> HIDE DEF m
<1>4. Sending(m, p, s) \in Sender(p)
  BY <1>2, WaitingLemma, SendMdSyncLemma DEF Sending
<1>5. m.state \in {"Init", "TransmitInit", "Send", "ReceiptTimeout"}
  BY <1>2 DEF Sender
<1>6. Waiting("TransmitInit") \in Sender(p) /\ SendMdSync(p, s) \in Sender(p)
  BY WaitingLemma, SendMdSyncLemma
<1> QED
  BY <1>1, <1>2, <1>3, <1>4, <1>5, <1>6

(* A Sync that is given goes its way through the machines. *)
LEMMA PortSyncSyncLemma ==
    ASSUME IInv, NEW s, Given(s), PortSyncSync(s), UNCHANGED roles
    PROVE  /\ site' \in Sync /\ passed' \in Sync /\ sent' \subseteq Ports
           /\ \A p \in Ports : send'[p] \in Sender(p)
           /\ Stored' /\ OwnOnlyAsGm'
<1> DEFINE q == Passes(s)
<1>1. /\ q \in Sync /\ (q = NoSync \/ q.port \in 0 .. NumPorts)
      /\ q # NoSync => (q.port = 0 <=> role[0] = "Slave")
  BY PassesLemma DEF IInv
<1>2. /\ passed' = q
      /\ IF q = NoSync
         THEN sent' = {} /\ UNCHANGED machines
         ELSE /\ site' = q
              /\ send' = [p \in Ports |-> SendRun(p, q)]
              /\ sent' = {p \in Ports : send'[p].done}
  BY DEF PortSyncSync
<1> HIDE DEF q
<1>3. OwnOnlyAsGm'
  BY <1>1, <1>2 DEF OwnOnlyAsGm, roles
<1>4. CASE q = NoSync
  BY <1>1, <1>2, <1>3, <1>4 DEF machines, IInv, TypeOK, Sender, Stored
<1>5. CASE q # NoSync
  BY <1>1, <1>2, <1>3, <1>5, SendRunLemma DEF IInv, Stored
<1> QED
  BY <1>4, <1>5

-----------------------------------------------------------------------------
LEMMA InitLemma == Init => IInv
<1> SUFFICES ASSUME Init PROVE IInv
  OBVIOUS
<1>1. \A p \in Ports : send[p] \in Sender(p)
  BY WaitingLemma DEF Init
<1>2. TypeOK
  <2>1. due \in 0 .. OwnInterval /\ {site, passed} \subseteq Sync
    BY NoSyncLemma, IntervalsLemma DEF Init
  <2> QED
    BY <1>1, <2>1 DEF Init, TypeOK, Sender
<1>3. Roles /\ Stored
  BY DEF Init, Roles, Stored
<1>4. OwnOnlyAsGm
  BY NoSyncLemma DEF Init, OwnOnlyAsGm
<1> QED
  BY <1>2, <1>3, <1>4 DEF IInv

(* A step that passes nothing on keeps what is said of the Sync passed on. *)
LEMMA QuietLemma == Quiet => OwnOnlyAsGm' /\ passed' \in Sync /\ sent' \subseteq Ports
  BY NoSyncLemma DEF Quiet, OwnOnlyAsGm

LEMMA StepLemma == IInv /\ [Next]_vars => IInv'
<1> SUFFICES ASSUME IInv, [Next]_vars PROVE IInv'
  OBVIOUS
<1>1. CASE Timeout
  <2>1. PortSyncSync(OwnSync) /\ UNCHANGED roles /\ silent' = silent /\ due' \in 0 .. OwnInterval
    BY <1>1, SyncPathAssumption DEF Timeout
  <2> QED
    BY <2>1, OwnSyncLemma, PortSyncSyncLemma DEF IInv, TypeOK, Roles, roles, Sender
<1>2. CASE Recv
  <2>1. PICK p \in Ports, i \in Intervals : RecvSync(p, i)
    BY <1>2 DEF Recv
  <2>2. PortSyncSync(NewSync(p, i)) /\ UNCHANGED <<roles, due, silent>>
    BY <2>1 DEF RecvSync
  <2> QED
    BY <2>2, NewSyncLemma, PortSyncSyncLemma DEF IInv, TypeOK, Roles, roles, Sender
<1>3. CASE Tick
  <2>1. Quiet /\ UNCHANGED <<roles, silent>> /\ site' = Older(site)
    BY <1>3 DEF Tick
  <2>2. due' \in 0 .. OwnInterval
    <3>1. due \in 0 .. OwnInterval /\ due > 0 /\ due' = due - 1
      BY <1>3, Zenon DEF Tick, IInv, TypeOK
    <3> QED
      BY <3>1, IntervalsLemma
  <2>3. site' \in Sync /\ Stored'
    BY <2>1, OlderLemma DEF IInv, TypeOK, Stored, NoSync
  <2>4. ASSUME NEW p \in Ports PROVE send'[p] \in Sender(p)
    <3> DEFINE m == send[p]
               idle == IF m.idle < PortInterval[p] /\ m.last # NoSync THEN m.idle + 1 ELSE m.idle
    <3>1. m \in Sender(p)
      BY DEF IInv, TypeOK, Sender
    <3>2. send'[p] = [m EXCEPT !.last = Older(m.last), !.done = FALSE, !.idle = idle]
      BY <1>3 DEF Tick
    <3>3. Older(m.last) \in Sync
      BY <3>1, OlderLemma DEF Sender
    <3>4. idle \in 0 .. PortInterval[p]
      BY <3>1, SyncPathAssumption DEF Sender
    <3> HIDE DEF m, idle
    <3> QED
      BY <3>1, <3>2, <3>3, <3>4, Zenon DEF Sender
  <2> QED
    BY <2>1, <2>2, <2>3, <2>4, QuietLemma DEF IInv, TypeOK, Roles, roles, Sender
<1>4. CASE Select
  <2>1. role' \in [0 .. NumPorts -> {"Disabled", "Master", "Slave", "Passive"}]
    BY <1>4 DEF Select, Selected
  <2> QED
    BY <1>4, <2>1, QuietLemma DEF Select, IInv, TypeOK, Roles, Stored, machines
<1>5. CASE UpDown
  <2>1. up' \in [Ports -> BOOLEAN]
    BY <1>5 DEF UpDown, IInv, TypeOK
  <2> QED
    BY <1>5, <2>1, QuietLemma DEF UpDown, IInv, TypeOK, Roles, Stored, machines
<1>6. CASE Silence
  BY <1>6, QuietLemma DEF Silence, IInv, TypeOK, Roles, Stored, machines, roles
<1>7. CASE UNCHANGED vars
  BY <1>7 DEF vars, IInv, TypeOK, Roles, Stored, OwnOnlyAsGm
<1> QED
  BY <1>1, <1>2, <1>3, <1>4, <1>5, <1>6, <1>7 DEF Next

(* The invariant, for every number of ports. *)
LEMMA Invariance == Spec => []IInv
  BY InitLemma, StepLemma, PTL DEF Spec

(* The types of the machines of every port (TypeOK). *)
THEOREM TypeCorrect == Spec => []TypeOK
  BY Invariance, PTL DEF IInv

(* Syncs of its own clock leave a system exactly while it is the           *)
(* grandmaster (OwnOnlyAsGm).                                              *)
THEOREM OwnSyncsOnlyAsGm == Spec => []OwnOnlyAsGm
  BY Invariance, PTL DEF IInv
=============================================================================
