------------------------------ MODULE SyncPath ------------------------------
(***************************************************************************)
(* The way of a Sync through one domain of a system: PortSyncSyncReceive,  *)
(* SiteSyncSync, PortSyncSyncSend of every port, and ClockMasterSyncSend,  *)
(* in the order portSyncSync_for_all and the handlers of gptpman.c call    *)
(* them.  SyncLink has what comes before and after: the MDSyncReceive that *)
(* is given, the MDSyncSend that is taken; ClockServo the clock.           *)
(*                                                                         *)
(* Time is counted in ticks, an interval in the ticks it lasts.  A Sync    *)
(* is the port it came in on (0 is the clock of the system), its interval  *)
(* and its age: what the code keeps as its receipt timeout and its next    *)
(* send timeout are ages.  Not here: static port states and the test ports *)
(* of the configuration.  syncSlowdown has no effect: both branches of     *)
(* send_md_sync_proc set interval1 to syncInterval.                        *)
(***************************************************************************)
EXTENDS Integers

CONSTANTS
    NumPorts,
    Intervals,     \* the intervals of the Syncs that are received
    OwnInterval,   \* clockMasterSyncInterval
    PortInterval,  \* syncInterval of each port
    MaxAge         \* bound: an age is not counted on from here

Ports == 1 .. NumPorts

ASSUME SyncPathAssumption ==
    /\ NumPorts \in Nat \ {0}
    /\ Intervals \subseteq Nat \ {0} /\ OwnInterval \in Nat \ {0}
    /\ PortInterval \in [Ports -> Nat \ {0}]
    /\ MaxAge \in Nat /\ \A i \in Intervals : MaxAge > 3 * i
    /\ \A p \in Ports : MaxAge > PortInterval[p]

VARIABLES
    role, gmPresent, \* selectedState, and whether a grandmaster is present
    up,              \* portOper, ptpPortEnabled and asCapable
    due,             \* ticks until ClockMasterSyncSend issues a Sync
    site,            \* txPSSyncPtrSSS, or NoSync in INITIALIZING; PortAnnounceInformation
                     \* has its receipt timeout
    send,            \* PortSyncSyncSend of each port
    passed, sent,    \* the Sync SiteSyncSync has passed on in the last handler, and the ports it left by
    silent           \* no neighbour sends Sync any more

vars == <<role, gmPresent, up, due, site, send, passed, sent, silent>>
machines == <<site, send>>
roles == <<role, gmPresent, up>>

NoSync == [port |-> -1, age |-> 0, interval |-> 0]
OwnSync == [port |-> 0, age |-> 0, interval |-> OwnInterval]
NewSync(p, i) == [port |-> p, age |-> 0, interval |-> i]

Received(s) == s.port \notin {-1, 0}

(* Its syncNextSendTimeoutTime, its syncReceiptTimeoutTime is past; the    *)
(* latter as SiteSyncSync and as PortSyncSyncSend compare it.              *)
Overdue(s) == Received(s) /\ 2 * s.age > 3 * s.interval
Expired(s) == Received(s) /\ s.age > 3 * s.interval
TimedOut(s) == Received(s) /\ s.age >= 3 * s.interval

(* Nothing refers to a Sync after MaxAge but to tell that it is too old. *)
Older(s) == IF Received(s) /\ s.age < MaxAge THEN [s EXCEPT !.age = @ + 1] ELSE s

-----------------------------------------------------------------------------
(* site_sync_sync_sm *)
OfSlave(s) == s # NoSync /\ role[s.port] = "Slave" /\ gmPresent

(* Mutant: the old Sync is as good as a new one.                           *)
Passes_renewed(s) ==
    IF OfSlave(site) /\ Overdue(site) /\ ~Expired(site)
    THEN IF s.port = 0 THEN [site EXCEPT !.age = 0] ELSE s
    ELSE IF OfSlave(s) THEN s ELSE NoSync

(* Mutant: also when the port is not the slave port any more.              *)
Passes_stale(s) ==
    IF Overdue(site) /\ ~Expired(site) THEN IF s.port = 0 THEN site ELSE s
    ELSE IF OfSlave(s) THEN s ELSE NoSync

(* What SiteSyncSync passes on when it is given s.  When the Sync of the   *)
(* slave port is late, that Sync is sent again for one of the own clock;   *)
(* one from another port is passed on as it is.                            *)
Passes(s) ==
    IF OfSlave(site) /\ Overdue(site) /\ ~Expired(site) THEN IF s.port = 0 THEN site ELSE s
    ELSE IF OfSlave(s) THEN s ELSE NoSync

-----------------------------------------------------------------------------
(***************************************************************************)
(* port_sync_sync_send_sm: locked is syncLocked, last the Sync sent last,  *)
(* idle the time since (both only kept while they are looked at), done     *)
(* that the last run gave an MDSyncSend.                                   *)
(***************************************************************************)
Waiting(state) == [state |-> state, locked |-> FALSE, last |-> NoSync, idle |-> 0, done |-> FALSE]

MaySend(p) == up[p] /\ role[p] = "Master"

SendMdSync(p, s) ==
    LET locked == s.interval = PortInterval[p]
    IN  [state |-> "Send", locked |-> locked, last |-> IF locked THEN NoSync ELSE s,
         idle |-> 0, done |-> TRUE]

(* send_md_sync_condition *)
Sending(m, p, s) ==
    IF TimedOut(m.last) /\ ~m.locked THEN Waiting("ReceiptTimeout")
    ELSE IF /\ \/ m.locked /\ s.port # p
               \/ ~m.locked /\ m.idle >= PortInterval[p] /\ m.last.port # p
            /\ MaySend(p)
    THEN SendMdSync(p, s)
    ELSE m

(* A Sync is dropped by the run that enters TRANSMIT_INIT or               *)
(* SYNC_RECEIPT_TIMEOUT.                                                   *)
SendRun(p, s) ==
    LET m == [send[p] EXCEPT !.done = FALSE]
    IN  CASE m.state = "Init" \/ ~up[p] -> Waiting("TransmitInit")
          [] m.state \in {"TransmitInit", "ReceiptTimeout"} /\ up[p] ->
                 IF s.port # p /\ MaySend(p) THEN SendMdSync(p, s) ELSE m
          [] m.state = "Send" /\ up[p] -> Sending(m, p, s)

-----------------------------------------------------------------------------
(* site_sync_sync_sm_portSyncSync and portSyncSync_for_all *)
PortSyncSync(s) ==
    LET q == Passes(s)
    IN  /\ passed' = q
        /\ IF q = NoSync
           THEN sent' = {} /\ UNCHANGED machines
           ELSE /\ site' = q
                /\ send' = [p \in Ports |-> SendRun(p, q)]
                /\ sent' = {p \in Ports : send'[p].done}

(* Mutant: the next send time is one tick past the interval. *)
Timeout_late ==
    /\ due = 0 /\ due' = OwnInterval + 1
    /\ PortSyncSync(OwnSync)
    /\ UNCHANGED <<roles, silent>>

(* gptpnet_cb_timeout: clock_master_sync_send_sm *)
Timeout ==
    /\ due = 0 /\ due' = OwnInterval
    /\ PortSyncSync(OwnSync)
    /\ UNCHANGED <<roles, silent>>

(* gptpnet_cb_recv of a FOLLOW_UP: an MDSyncReceive is only given on a     *)
(* port that is up, so that PortSyncSyncReceive always passes it on.       *)
RecvSync(p, i) ==
    /\ up[p] /\ ~silent
    /\ PortSyncSync(NewSync(p, i))
    /\ UNCHANGED <<roles, due, silent>>

Quiet == passed' = NoSync /\ sent' = {}

Tick ==
    /\ due > 0 /\ due' = due - 1
    /\ site' = Older(site)
    /\ send' = [p \in Ports |->
                   [send[p] EXCEPT !.last = Older(@), !.done = FALSE,
                                   !.idle = IF @ < PortInterval[p] /\ send[p].last # NoSync
                                            THEN @ + 1 ELSE @]]
    /\ Quiet /\ UNCHANGED <<roles, silent>>

(* The selection of Bmcs: one slave port at most, and port 0 is the slave  *)
(* port exactly when there is no other.                                    *)
Selected ==
    {r \in [0 .. NumPorts -> {"Master", "Slave", "Passive"}] :
        /\ \E q \in 0 .. NumPorts : \A p \in 0 .. NumPorts : r[p] = "Slave" <=> p = q
        /\ r[0] # "Master"}

Select ==
    /\ role' \in Selected /\ gmPresent' \in BOOLEAN
    /\ Quiet /\ UNCHANGED <<up, due, machines, silent>>

UpDown ==
    /\ \E p \in Ports : up' = [up EXCEPT ![p] = ~@]
    /\ Quiet /\ UNCHANGED <<role, gmPresent, due, machines, silent>>

Silence ==
    /\ ~silent /\ silent' = TRUE
    /\ Quiet /\ UNCHANGED <<roles, due, machines>>

Init ==
    /\ role = [p \in 0 .. NumPorts |-> "Disabled"] /\ gmPresent = FALSE
    /\ up = [p \in Ports |-> FALSE]
    /\ due = OwnInterval
    /\ site = NoSync /\ send = [p \in Ports |-> Waiting("Init")]
    /\ passed = NoSync /\ sent = {}
    /\ silent = FALSE

Recv == \E p \in Ports, i \in Intervals : RecvSync(p, i)

Next == Timeout \/ Recv \/ Tick \/ Select \/ UpDown \/ Silence

SlaveSync == \E p \in Ports, i \in Intervals : role[p] = "Slave" /\ RecvSync(p, i)

(* Time passes, the daemon runs its timeout, and the neighbour of the      *)
(* slave port sends Sync.                                                  *)
Fairness == WF_vars(Tick) /\ WF_vars(Timeout) /\ WF_vars(SlaveSync)

Spec == Init /\ [][Next]_vars /\ Fairness

-----------------------------------------------------------------------------
Sync == [port: -1 .. NumPorts, age: 0 .. MaxAge, interval: {0, OwnInterval} \cup Intervals]

(* Every variable stays in its range. *)
TypeOK ==
    /\ role \in [0 .. NumPorts -> {"Disabled", "Master", "Slave", "Passive"}]
    /\ gmPresent \in BOOLEAN /\ silent \in BOOLEAN
    /\ up \in [Ports -> BOOLEAN]
    /\ due \in 0 .. OwnInterval
    /\ {site, passed} \subseteq Sync
    /\ \A p \in Ports :
        send[p] \in [state: {"Init", "TransmitInit", "Send", "ReceiptTimeout"}, last: Sync,
                     locked: BOOLEAN, idle: 0 .. PortInterval[p], done: BOOLEAN]
    /\ sent \subseteq Ports

(* Syncs of the system's own clock leave it, and no others do, exactly     *)
(* while it is the grandmaster: also right after the selection changed     *)
(* (receiving_sync_condition, with what it had stored before).             *)
OwnOnlyAsGm == passed # NoSync => (passed.port = 0 <=> role[0] = "Slave")

(* Sending old Syncs again does not hide that the grandmaster is silent:   *)
(* the receipt timeout that PortAnnounceInformation looks at passes.       *)
SilenceNoticed == silent ~> (Expired(site) \/ ~Received(site))

(* A Sync that is passed on came in on the slave port: of a gap the code   *)
(* says "Lost Sync message from GM, force reaction and refer to            *)
(* txPSSyncPtrSSS as reference".  A Sync sent again after a change of roles *)
(* did not: TLC refutes this; no run checks it.  Nor did one of another    *)
(* port that comes in during a gap: an unlocked port even sends that back  *)
(* to where it came from (send_md_sync_condition, lastRcvdPortNum).        *)
PassesSlaveOnly == passed # NoSync => role[passed.port] = "Slave"

(* While the roles and the links stay, a master port goes on sending what  *)
(* the slave port receives, whatever its own interval is.                  *)
Relaying(p) ==
    /\ up[p] /\ role[p] = "Master" /\ gmPresent /\ ~silent
    /\ \E q \in Ports : role[q] = "Slave" /\ up[q]

Relays == \A p \in Ports : <>[]Relaying(p) => []<>(p \in sent)

(* What leaves the system ends up following its source: a silent one is    *)
(* noticed and a steady one relayed, with the same repetitions of a Sync.  *)
FollowsSource == SilenceNoticed /\ Relays
=============================================================================
