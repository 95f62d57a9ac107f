------------------------------- MODULE Clients -------------------------------
(***************************************************************************)
(* The two ways an application learns of the clock of the daemon, and the  *)
(* life of the daemon: gptp2d starts, stops and crashes while              *)
(*   - a reader (gptpmasterclock) has its shared memory mapped, or         *)
(*   - a client (the thread of gptpipc) is told by its IPC socket whether  *)
(*     the master clock is synced and a port is gPTP-capable.              *)
(* A behaviour has one application, of one of the kinds in Kinds.          *)
(*                                                                         *)
(* An object of shared memory lives on for those who have mapped it when   *)
(* it is unlinked; a crash leaves it linked.  The server of the socket is  *)
(* a library: it delivers to the clients it has had a request from, in     *)
(* order, and drops what does not fit.                                     *)
(* Not here: GM_CHANGE, NETDEV and ACTIVE_DOMAIN notices, statistics, and  *)
(* the mutex of the shared memory, which both sides use without looking    *)
(* whether they got it.                                                    *)
(***************************************************************************)
EXTENDS Integers, Sequences, FiniteSets

CONSTANTS
    Kinds,       \* the applications: a subset of {"reader", "client"}
    MaxUsers,    \* bound: users of gptpmasterclock in one process
    MaxFaults,   \* bound: ends of the daemon, of the client, of a use of gptpmasterclock,
                 \* and devices that do not open
    MaxChanges,  \* bound: handlers that change gmsync or asCapable
    QueueSize,   \* what the client's socket holds
    Timeouts     \* query_interval/IPC_TOUT_MS; 0: the client does not query

Domains == {0, 1}

ASSUME ClientsAssumption ==
    /\ Kinds \subseteq {"reader", "client"}
    /\ MaxUsers \in Nat \ {0} /\ MaxFaults \in Nat /\ MaxChanges \in Nat
    /\ QueueSize \in Nat \ {0} /\ Timeouts \in Nat

VARIABLES
    kind,    \* the kind of the application
    daemon,  \* phase, and of its first port and domain: gmsync, flags, capable, portFlags;
             \* knows: its server knows the client; asked: it has requests to answer
    shm,     \* what is linked at the name: linked, whether max_domains # 0, the ptpdevs named
    reader,  \* gmcd, and the point that gptpmasterclock_init is at
    client,  \* the thread: running, socket, got (get_response), count (timeout_count), queue, view;
             \* missed: since the last answer that has reached it something has not, or none has
    faults, changes

vars == <<kind, daemon, shm, reader, client, faults, changes>>

Up == daemon.phase = "up"

-----------------------------------------------------------------------------
(***************************************************************************)
(* The life of the daemon: gptpclock_init, gptpnet_init,                   *)
(* static_domains_init, the event loop, gptpclock_close.                   *)
(***************************************************************************)
Down == [phase |-> "down", gmsync |-> FALSE, flags |-> {}, capable |-> FALSE, portFlags |-> {},
         knows |-> FALSE, asked |-> FALSE]

NoMemory == [linked |-> FALSE, max |-> FALSE, named |-> {}]

Enter(phase) == daemon' = [daemon EXCEPT !.phase = phase]

(* gptpclock_init: the object may be one that a crash has left.            *)
ClearMemory ==
    /\ daemon.phase = "down"
    /\ Enter("cleared")
    /\ shm' = [linked |-> TRUE, max |-> FALSE, named |-> {}]
    /\ UNCHANGED <<kind, reader, client, faults, changes>>

SetMaxDomains ==
    /\ daemon.phase = "cleared"
    /\ Enter("clocks")
    /\ shm' = [shm EXCEPT !.max = TRUE]
    /\ UNCHANGED <<kind, reader, client, faults, changes>>

(* gptpclock_add_clock of the master clock of domain d                     *)
AddClock(d) ==
    /\ daemon.phase = "clocks" /\ shm.named = 0 .. d - 1
    /\ shm' = [shm EXCEPT !.named = @ \cup {d}]
    /\ UNCHANGED <<kind, daemon, reader, client, faults, changes>>

Activate ==
    /\ daemon.phase = "clocks" /\ shm.named = Domains
    /\ Enter("up")
    /\ UNCHANGED <<kind, shm, reader, client, faults, changes>>

(* What the end of the server is to a client.                              *)
Cut == client' = [client EXCEPT !.socket = IF @ = "none" THEN @ ELSE "cut"]

Ends ==
    /\ daemon.phase # "down" /\ faults < MaxFaults /\ faults' = faults + 1
    /\ daemon' = Down /\ Cut
    /\ UNCHANGED <<kind, changes>>

(* Mutant: the object is only unlinked. *)
Close_silent ==
    /\ Ends /\ shm' = NoMemory
    /\ reader' = IF reader.map = "linked"
                 THEN [reader EXCEPT !.map = "old", !.old = [max |-> shm.max, named |-> shm.named]]
                 ELSE reader

(* A signal, or an error at the start: gptpclock_close unlinks the object  *)
(* and tells those who have it mapped with max_domains = 0.                *)
Close ==
    /\ Ends /\ shm' = NoMemory
    /\ reader' = IF reader.map = "linked"
                 THEN [reader EXCEPT !.map = "old", !.old = [max |-> FALSE, named |-> shm.named]]
                 ELSE reader

Crash == Ends /\ UNCHANGED <<shm, reader>>

-----------------------------------------------------------------------------
(***************************************************************************)
(* gptpmasterclock, used by one thread.  reader: ref (ref_counter), max    *)
(* (max_domains # 0), map (what shm points to: "none", the object "linked" *)
(* at the name, or an "old" one), fds (the domains whose ptpdev is open),  *)
(* at and by (where init is, and who called it), users, and dead: a null   *)
(* pointer has been followed.                                              *)
(***************************************************************************)
NewReader == [at |-> "idle", by |-> "read", ref |-> 0, max |-> FALSE, map |-> "none",
              old |-> [max |-> FALSE, named |-> {}], fds |-> {}, users |-> 0, dead |-> FALSE]

Mapped == IF reader.map = "linked" THEN shm ELSE reader.old

(* gptpmasterclock_close                                                   *)
Closed(r) ==
    IF ~r.max \/ r.map = "none" THEN r
    ELSE IF r.ref > 1 THEN [r EXCEPT !.ref = @ - 1]
    ELSE [NewReader EXCEPT !.users = r.users]

(* Mutant: a failed call keeps its count. *)
Failed_counts(r) == [Closed(r) EXCEPT !.at = "idle"]

(* erexit of gptpmasterclock_init                                          *)
Failed(r) == [Closed(r) EXCEPT !.ref = @ - 1, !.at = "idle"]

(* gptpmasterclock_init up to the reading of max_domains                   *)
InitReader(r, by) ==
    LET q == [r EXCEPT !.ref = @ + 1]
    IN  IF q.max THEN [q EXCEPT !.users = IF by = "user" THEN @ + 1 ELSE @]
        ELSE IF shm.linked /\ shm.max THEN [q EXCEPT !.max = TRUE, !.at = "map", !.by = by]
        ELSE Failed(q)

ReaderBecomes(r) == reader' = r /\ UNCHANGED <<kind, daemon, shm, client, changes>>

Idle == kind = "reader" /\ reader.at = "idle" /\ ~reader.dead

UserOpens ==
    /\ Idle /\ reader.ref < MaxUsers /\ reader.users < MaxUsers
    /\ ReaderBecomes(InitReader(reader, "user")) /\ UNCHANGED faults

UserCloses ==
    /\ Idle /\ reader.users > 0 /\ faults < MaxFaults /\ faults' = faults + 1
    /\ ReaderBecomes([Closed(reader) EXCEPT !.users = @ - 1])

(* The object is opened a second time: it may have gone.                   *)
Map ==
    /\ reader.at = "map"
    /\ ReaderBecomes(IF shm.linked THEN [reader EXCEPT !.map = "linked", !.at = "devices"]
                     ELSE Failed(reader))
    /\ UNCHANGED faults

(* ptpdev_open, and the end of init                                        *)
OpenDevices ==
    /\ reader.at = "devices"
    /\ \/ /\ Mapped.named # {}
          /\ ReaderBecomes([reader EXCEPT !.fds = Mapped.named, !.at = "idle",
                                          !.users = IF reader.by = "user" THEN @ + 1 ELSE @])
          /\ UNCHANGED faults
       \/ Mapped.named = {} /\ ReaderBecomes(Failed(reader)) /\ UNCHANGED faults
       \/ Mapped.named # {} /\ faults < MaxFaults /\ ReaderBecomes(Failed(reader)) /\ faults' = faults + 1

(* Mutant: a daemon that has closed is not looked for again. *)
HealthCheck_trusts(r) == IF ~r.max THEN InitReader(r, "read") ELSE r

(* gptpmasterclock_health_check.  A domain whose ptpdev was not named when *)
(* the others were opened has the file descriptor 0, which passes for open.*)
(* There is one name of the memory, the default one.                       *)
HealthCheck(r) ==
    IF ~r.max THEN InitReader(r, "read")
    ELSE IF r.map = "none" THEN [r EXCEPT !.dead = TRUE]
    ELSE IF ~Mapped.max THEN InitReader(Closed(r), "read")
    ELSE r

(* gptpmasterclock_get_domain_ts64.  A read that has had to initialize is  *)
(* over when that is; the next one reads what it has mapped.               *)
Read ==
    /\ Idle
    /\ ReaderBecomes(HealthCheck(reader)) /\ UNCHANGED faults

(* A process that has died is started again.                               *)
Restart == reader.dead /\ ReaderBecomes(NewReader) /\ UNCHANGED faults

(* What a read of domain d uses is of the daemon that runs.                *)
ReadsDaemon(d) ==
    /\ reader.at = "idle" /\ reader.max /\ reader.map = "linked" /\ shm.max
    /\ d \in reader.fds

-----------------------------------------------------------------------------
(***************************************************************************)
(* gptpman: a handler, the notices after it, and the answers to requests.  *)
(* A message is about gmsync or asCapable, which is "yes", "no", or, in a  *)
(* notice with the flags of both changes, "both".                          *)
(***************************************************************************)
About(topic, is) == [about |-> topic, is |-> is]

Word(b) == IF b THEN "yes" ELSE "no"

Notice(topic, flags) ==
    IF flags = {} THEN <<>>
    ELSE <<About(topic, IF Cardinality(flags) = 1 THEN CHOOSE f \in flags : TRUE ELSE "both")>>

(* cb_ipcsocket_server_write: what does not fit is dropped.                *)
Deliver(messages, missed) ==
    client' = IF client.socket = "none" THEN [client EXCEPT !.missed = missed \/ messages # <<>>]
              ELSE [client EXCEPT !.missed = missed \/ Len(client.queue \o messages) > QueueSize,
                                  !.queue = SubSeq(@ \o messages, 1,
                        IF Len(@ \o messages) < QueueSize THEN Len(@ \o messages) ELSE QueueSize)]

(* Mutant: the loss of gmsync is not told. *)
SetGmSync_quiet(s, sync) ==
    IF s.gmsync = sync THEN s
    ELSE [s EXCEPT !.gmsync = sync, !.flags = IF sync THEN @ \cup {"yes"} ELSE @]

(* gptpclock_set_gmsync, gptpclock_reset_gmsync                            *)
SetGmSync(s, sync) ==
    IF s.gmsync = sync THEN s
    ELSE [s EXCEPT !.gmsync = sync, !.flags = @ \cup {Word(sync)}]

(* set_asCapable, and what gptpnet_cb_devdown does to asCapable            *)
SetAsCapable(s, capable) ==
    IF s.capable = capable THEN s
    ELSE [s EXCEPT !.capable = capable, !.portFlags = {Word(capable)}]

(* ipc_clock_notice: the flags are cleared, whoever has been told.         *)
Notify(s) ==
    /\ daemon' = [s EXCEPT !.flags = {}, !.portFlags = {}]
    /\ Deliver(IF s.knows THEN Notice("gmsync", s.flags) \o Notice("asCapable", s.portFlags) ELSE <<>>,
               client.missed)

(* A handler that changes gmsync and asCapable up to twice each.           *)
Handle ==
    /\ Up /\ kind = "client" /\ changes < MaxChanges /\ changes' = changes + 1
    /\ \E sync1, sync2, capable1, capable2 \in BOOLEAN :
           Notify(SetAsCapable(SetAsCapable(SetGmSync(SetGmSync(daemon, sync1), sync2),
                                            capable1), capable2))
    /\ UNCHANGED <<kind, shm, reader, faults>>

(* gptpnet_ipc_cb: the requests of the client                              *)
Answer ==
    /\ Up /\ daemon.asked
    /\ daemon' = [daemon EXCEPT !.asked = FALSE, !.knows = TRUE]
    /\ Deliver(<<About("asCapable", Word(daemon.capable)), About("gmsync", Word(daemon.gmsync))>>, FALSE)
    /\ UNCHANGED <<kind, shm, reader, faults, changes>>

-----------------------------------------------------------------------------
(***************************************************************************)
(* gptpipc_thread_proc.  client: socket ("none", "open", or "cut": opened  *)
(* to a daemon that has ended), queue (what the socket holds), got         *)
(* (get_response), count (timeout_count), turn (what the thread is about   *)
(* to do), and view: what its callback was told last.                      *)
(***************************************************************************)
NewClient == [running |-> FALSE, socket |-> "none", queue |-> <<>>, got |-> FALSE, count |-> 0,
              turn |-> "send", missed |-> TRUE,
              view |-> [gmsync |-> "unknown", asCapable |-> "unknown"]]

Serves == daemon.phase \in {"clocks", "up"}

ClientBecomes(c) == client' = c /\ UNCHANGED <<kind, shm, reader, changes>>

(* The next turn of the loop                                               *)
Loop(c) == [c EXCEPT !.turn = IF c.got THEN "read" ELSE "send"]

(* reinit: what has been said is not asked again.  The daemon knows a      *)
(* socket of UDP by its address, and the new one from the next request on; *)
(* here its notices of the time between reach the new one.                 *)
Reopen(c) == Loop([c EXCEPT !.socket = "none", !.queue = <<>>, !.missed = @ \/ c.queue # <<>>])

(* gptpipc_init                                                            *)
Start ==
    /\ kind = "client" /\ ~client.running
    /\ ClientBecomes([NewClient EXCEPT !.running = TRUE]) /\ UNCHANGED <<daemon, faults>>

(* gptpipc_close                                                           *)
Stop ==
    /\ client.running /\ faults < MaxFaults /\ faults' = faults + 1
    /\ ClientBecomes(NewClient) /\ daemon' = [daemon EXCEPT !.knows = FALSE]

(* A socket of UDP opens without a server, too; others are tried again.    *)
Connect ==
    /\ client.running /\ client.socket = "none"
    /\ ClientBecomes([client EXCEPT !.socket = IF Serves THEN "open" ELSE "cut"])
    /\ UNCHANGED <<daemon, faults>>

(* Requests that find no daemon are lost, or the socket reports an error;  *)
(* those of a socket of UDP reach a daemon that has started since.         *)
Send ==
    /\ client.running /\ client.socket # "none" /\ client.turn = "send"
    /\ \/ /\ ClientBecomes([client EXCEPT !.turn = "read"])
          /\ daemon' = [daemon EXCEPT !.asked = Serves]
       \/ /\ client.socket = "cut"
          /\ ClientBecomes(Reopen(client)) /\ UNCHANGED daemon
    /\ UNCHANGED faults

Receive ==
    /\ client.socket # "none" /\ client.turn = "read" /\ client.queue # <<>>
    /\ LET m == Head(client.queue)
       IN  ClientBecomes([client EXCEPT !.queue = Tail(@), !.got = TRUE, !.count = 0,
                                        !.view[m.about] = m.is])
    /\ UNCHANGED <<daemon, faults>>

(* After query_interval without a message, it asks again.                  *)
ReadTimeout ==
    /\ client.socket # "none" /\ client.turn = "read" /\ client.queue = <<>>
    /\ LET count == IF Timeouts > 0 /\ client.count <= Timeouts THEN client.count + 1 ELSE client.count
       IN  ClientBecomes(Loop([client EXCEPT !.count = count, !.got = @ /\ count <= Timeouts]))
    /\ UNCHANGED <<daemon, faults>>

ReadError ==
    /\ client.socket = "cut" /\ client.turn = "read"
    /\ ClientBecomes(Reopen(client)) /\ UNCHANGED <<daemon, faults>>

-----------------------------------------------------------------------------
Init ==
    /\ kind \in Kinds
    /\ daemon = Down /\ shm = NoMemory
    /\ reader = NewReader /\ client = NewClient
    /\ faults = 0 /\ changes = 0

Daemon ==
    \/ ClearMemory \/ SetMaxDomains \/ (\E d \in Domains : AddClock(d)) \/ Activate
    \/ Close \/ Crash \/ Handle \/ Answer

Reader == UserOpens \/ UserCloses \/ Map \/ OpenDevices \/ Read \/ Restart

Thread == Connect \/ Send \/ Receive \/ ReadTimeout

Client == Start \/ Stop \/ Thread \/ ReadError

Next == Daemon \/ Reader \/ Client

Spec == Init /\ [][Next]_vars

(* The daemon answers, the thread runs, and an application goes on reading *)
(* and waits for its calls to end.                                         *)
FairSpec ==
    /\ Spec
    /\ WF_vars(Answer)
    /\ WF_vars(Thread)
    /\ WF_vars(Map \/ OpenDevices \/ Read)

-----------------------------------------------------------------------------
Object == [max : BOOLEAN, named : SUBSET Domains]
Words == {"yes", "no", "both", "unknown"}

(* The type invariant.  gmcd is cleared with ref_counter at 0 or 1, so it  *)
(* never holds a mapping, an open device or a mapping in progress without  *)
(* max_domains; ref_counter is at least -1.                                *)
TypeOK ==
    /\ kind \in Kinds
    /\ daemon.phase \in {"down", "cleared", "clocks", "up"}
    /\ daemon.flags = {} /\ daemon.portFlags = {}
    /\ daemon.gmsync \in BOOLEAN /\ daemon.capable \in BOOLEAN
    /\ daemon.knows \/ daemon.asked => Serves
    /\ shm.named # {} => shm.max
    /\ reader.old \in Object /\ reader.fds \subseteq Domains
    /\ reader.ref \in -1 .. MaxUsers /\ reader.users \in 0 .. MaxUsers
    /\ reader.map # "none" \/ reader.fds # {} \/ reader.at # "idle" => reader.max
    /\ client.queue \in Seq([about : {"gmsync", "asCapable"}, is : Words \ {"unknown"}])
    /\ Len(client.queue) <= QueueSize /\ client.count \in 0 .. Timeouts + 1
    /\ client.view \in [{"gmsync", "asCapable"} -> Words]
    /\ faults \in 0 .. MaxFaults /\ changes \in 0 .. MaxChanges

(* What passes the health check is the object that is linked at the name,  *)
(* with the device of the first domain open: a reader never takes the      *)
(* memory of a daemon that has closed for that of one that runs, nor reads *)
(* after an init that has failed half way (gptpmasterclock.c:61-86).       *)
ReadsWhatIsLinked ==
    reader.at = "idle" /\ reader.max /\ reader.map # "none" /\ Mapped.max =>
        reader.map = "linked" /\ shm.linked /\ 0 \in reader.fds

(* What the callback of c has been told of a topic once the socket is read. *)
WillBeTold(c, topic, is) ==
    \/ /\ c.view[topic] = is
       /\ \A i \in DOMAIN c.queue : c.queue[i].about # topic
    \/ \E i \in DOMAIN c.queue :
           /\ c.queue[i] = About(topic, is)
           /\ \A j \in DOMAIN c.queue : j > i => c.queue[j].about # topic

(* A client that the daemon knows and that has missed nothing has, once it *)
(* has read its socket, the asCapable and the gmsync of the daemon, or of  *)
(* gmsync a notice with the flags of both changes: no change is forgotten  *)
(* whose notice found room (ipc_clock_notice clears the flags all the      *)
(* same), and none overtakes a later one.                                  *)
MissesNothing ==
    daemon.knows /\ ~client.missed =>
        /\ WillBeTold(client, "asCapable", Word(daemon.capable))
        /\ WillBeTold(client, "gmsync", Word(daemon.gmsync)) \/ WillBeTold(client, "gmsync", "both")

(* However the daemon ended and started again, a process that goes on      *)
(* reading ends up on the memory and the first domain of the daemon that   *)
(* stays.  The exceptions are what the code does: with a second user       *)
(* gptpmasterclock_close does not close (gptpmasterclock.c:157-159), and   *)
(* an object that goes while it is opened leaves a null pointer (:128-132).*)
(* With a CONF_MASTER_CLOCK_SHARED_MEM of its own a process would not get  *)
(* there either: the close clears the name too (:168), and what it opens   *)
(* next is the default one (:67).                                          *)
Recovers ==
    <>[](Up /\ kind = "reader" /\ reader.ref <= 1 /\ ~reader.dead) => <>[]ReadsDaemon(0)

(* However the daemon ended and started again, whatever notices were lost  *)
(* or said nothing, a client that queries ends up with the gmsync and      *)
(* asCapable of the daemon that stays (gptpipc.c:222-250).                 *)
Informed ==
    <>[](Up /\ client.running) =>
        <>[](client.view = [gmsync |-> Word(daemon.gmsync), asCapable |-> Word(daemon.capable)])

(* Both kinds of application catch up with the daemon that stays, through  *)
(* the memory and through the socket.                                      *)
CatchesUp == Recovers /\ Informed
=============================================================================
