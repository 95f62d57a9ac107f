--------------------------- MODULE Clients_proofs --------------------------
(***************************************************************************)
(* Proofs about the applications of the daemon, for any number of users of *)
(* the shared memory, ends of the daemon and messages.                     *)
(***************************************************************************)
EXTENDS Clients, FiniteSetTheorems, TLAPS

Phases == {"down", "cleared", "clocks", "up"}
Topics == {"gmsync", "asCapable"}
Message == [about : Topics, is : Words \ {"unknown"}]

DaemonType ==
    [phase : Phases, gmsync : BOOLEAN, flags : SUBSET {"yes", "no"}, capable : BOOLEAN,
     portFlags : SUBSET {"yes", "no"}, knows : BOOLEAN, asked : BOOLEAN]

MemoryType == [linked : BOOLEAN, max : BOOLEAN, named : SUBSET Domains]

ReaderType ==
    [at : {"idle", "map", "devices"}, by : {"read", "user"}, ref : Int, max : BOOLEAN,
     map : {"none", "linked", "old"}, old : Object, fds : SUBSET Domains, users : Int,
     dead : BOOLEAN]

ClientType ==
    [running : BOOLEAN, socket : {"none", "open", "cut"}, queue : Seq(Message), got : BOOLEAN,
     count : 0 .. Timeouts + 1, turn : {"send", "read"}, missed : BOOLEAN,
     view : [Topics -> Words]]

(* Without max_domains the reference counter is 0 or -1 and nothing is     *)
(* held; while gptpmasterclock_init is under way it counts its caller, for *)
(* whom there is room.                                                     *)
ReaderOK(r) ==
    /\ r \in ReaderType
    /\ r.ref >= -1 /\ r.ref <= MaxUsers /\ r.users >= 0 /\ r.users <= MaxUsers
    /\ ~r.max => r.ref <= 0 /\ r.map = "none" /\ r.fds = {} /\ r.at = "idle"
    /\ r.at # "idle" => r.ref >= 0 /\ (r.by = "user" => r.users < MaxUsers)

DaemonOK ==
    /\ daemon \in DaemonType
    /\ daemon.flags = {} /\ daemon.portFlags = {}
    /\ daemon.knows \/ daemon.asked => Serves

MemoryOK ==
    /\ shm \in MemoryType
    /\ shm.named # {} \/ Serves => shm.max

ClientOK(c) == c \in ClientType /\ Len(c.queue) <= QueueSize

IInv ==
    /\ kind \in Kinds /\ faults \in 0 .. MaxFaults /\ changes \in 0 .. MaxChanges
    /\ DaemonOK /\ MemoryOK /\ ReaderOK(reader) /\ ClientOK(client)

-----------------------------------------------------------------------------
(* gptpmasterclock                                                         *)
LEMMA NewReaderLemma == ReaderOK(NewReader)
  BY ClientsAssumption DEF NewReader, ReaderOK, ReaderType, Object, Domains

LEMMA ReaderParts ==
    ASSUME NEW r \in ReaderType,
           r.ref >= -1, r.ref <= MaxUsers, r.users >= 0, r.users <= MaxUsers,
           r.max \/ (r.ref <= 0 /\ r.map = "none" /\ r.fds = {} /\ r.at = "idle"),
           r.at = "idle" \/ (r.ref >= 0 /\ (r.by = "read" \/ r.users < MaxUsers))
    PROVE  ReaderOK(r)
<1>1. r.by \in {"read", "user"}
  BY DEF ReaderType
<1> QED
  BY <1>1, Zenon DEF ReaderOK

LEMMA ReaderFacts ==
    ASSUME NEW r, ReaderOK(r)
    PROVE  /\ r \in ReaderType /\ MaxUsers \in Nat /\ MaxUsers >= 1
           /\ r.ref \in Int /\ r.users \in Int /\ r.max \in BOOLEAN /\ r.by \in {"read", "user"}
           /\ r.ref >= -1 /\ r.ref <= MaxUsers /\ r.users >= 0 /\ r.users <= MaxUsers
           /\ r.max \/ (r.ref <= 0 /\ r.map = "none" /\ r.fds = {} /\ r.at = "idle")
           /\ r.at = "idle" \/ (r.ref >= 0 /\ (r.by = "read" \/ r.users < MaxUsers))
<1>1. r \in ReaderType
  BY DEF ReaderOK
<1>2. r.ref \in Int /\ r.users \in Int /\ r.max \in BOOLEAN /\ r.by \in {"read", "user"}
  BY <1>1 DEF ReaderType
<1>3. MaxUsers \in Nat /\ MaxUsers >= 1
  BY ClientsAssumption
<1>4. "read" # "user"
  OBVIOUS
<1> QED
  BY <1>1, <1>2, <1>3, <1>4, Zenon DEF ReaderOK

LEMMA ClosedLemma ==
    ASSUME NEW r, ReaderOK(r)
    PROVE  /\ ReaderOK(Closed(r)) /\ Closed(r).users = r.users
           /\ r.ref >= 0 => Closed(r).ref >= 0
           /\ r.at = "idle" => Closed(r).at = "idle"
           /\ r.max /\ r.map # "none" /\ Closed(r).max => Closed(r).ref < MaxUsers
<1> DEFINE less == [r EXCEPT !.ref = @ - 1]
           new == [NewReader EXCEPT !.users = r.users]
<1>1. r \in ReaderType
  BY DEF ReaderOK
<1>2. /\ less \in ReaderType /\ less.ref = r.ref - 1 /\ less.max = r.max /\ less.at = r.at
      /\ less.map = r.map /\ less.fds = r.fds /\ less.users = r.users /\ less.by = r.by
  BY <1>1 DEF ReaderType
<1>3. /\ new \in ReaderType /\ new.ref = 0 /\ new.max = FALSE /\ new.at = "idle"
      /\ new.map = "none" /\ new.fds = {} /\ new.users = r.users
  <2>1. r.users \in Int
    BY ReaderFacts
  <2>2. NewReader \in ReaderType
    BY NewReaderLemma DEF ReaderOK
  <2>3. new \in ReaderType /\ new.users = r.users
    BY <2>1, <2>2 DEF ReaderType
  <2>4. /\ new.ref = 0 /\ new.max = FALSE /\ new.at = "idle"
        /\ new.map = "none" /\ new.fds = {}
    BY DEF NewReader
  <2> QED
    BY <2>3, <2>4
<1>4. Closed(r) = IF ~r.max \/ r.map = "none" THEN r ELSE IF r.ref > 1 THEN less ELSE new
  BY DEF Closed
<1> HIDE DEF less, new
<1>5. ASSUME r.ref > 1, r.max PROVE ReaderOK(less)
  <2>1. /\ less.ref >= -1 /\ less.ref <= MaxUsers /\ less.ref >= 0
        /\ less.users >= 0 /\ less.users <= MaxUsers
    BY <1>2, <1>5, ReaderFacts
  <2>2. less.at = "idle" \/ (less.ref >= 0 /\ (less.by = "read" \/ less.users < MaxUsers))
    BY <1>2, <2>1, ReaderFacts, Zenon
  <2> QED
    BY <1>2, <1>5, <2>1, <2>2, ReaderParts
<1>6. ReaderOK(new)
  <2>1. new.ref >= -1 /\ new.ref <= MaxUsers /\ new.ref <= 0
    BY <1>3, ReaderFacts
  <2>2. new.users >= 0 /\ new.users <= MaxUsers
    BY <1>3, ReaderFacts
  <2> QED
    BY <1>3, <2>1, <2>2, ReaderParts
<1>8. CASE ~r.max \/ r.map = "none"
  <2>1. Closed(r) = r
    BY <1>4, <1>8
  <2> QED
    BY <1>8, <2>1
<1>9. CASE r.max /\ r.map # "none" /\ r.ref > 1
  <2>1. Closed(r) = less
    BY <1>4, <1>9
  <2>2. less.ref >= 0 /\ less.ref < MaxUsers
    BY <1>2, <1>9, ReaderFacts
  <2> QED
    BY <1>2, <1>5, <1>9, <2>1, <2>2
<1>10. CASE r.max /\ r.map # "none" /\ ~(r.ref > 1)
  <2>1. Closed(r) = new
    BY <1>4, <1>10
  <2> QED
    BY <1>3, <1>6, <2>1
<1> QED
  BY <1>8, <1>9, <1>10

LEMMA FailedLemma ==
    ASSUME NEW r, ReaderOK(r), r.ref >= 0
    PROVE  ReaderOK(Failed(r))
<1> DEFINE c == Closed(r)
           f == [c EXCEPT !.ref = @ - 1, !.at = "idle"]
<1>1. ReaderOK(c) /\ c.ref >= 0
  BY ClosedLemma
<1>2. Failed(r) = f
  BY DEF Failed
<1> HIDE DEF c
<1>3. c \in ReaderType
  BY <1>1 DEF ReaderOK
<1>4. /\ f \in ReaderType /\ f.ref = c.ref - 1 /\ f.at = "idle" /\ f.max = c.max
      /\ f.map = c.map /\ f.fds = c.fds /\ f.users = c.users
  <2>1. c.ref - 1 \in Int
    BY <1>1, ReaderFacts
  <2>2. f \in ReaderType
    BY <1>3, <2>1 DEF ReaderType
  <2>3. /\ f.ref = c.ref - 1 /\ f.at = "idle" /\ f.max = c.max
        /\ f.map = c.map /\ f.fds = c.fds /\ f.users = c.users
    BY <1>3 DEF ReaderType
  <2> QED
    BY <2>2, <2>3
<1> HIDE DEF f
<1>5. /\ f.ref >= -1 /\ f.ref <= MaxUsers /\ f.users >= 0 /\ f.users <= MaxUsers
      /\ (c.ref <= 0 => f.ref <= 0)
  BY <1>1, <1>4, ReaderFacts
<1>6. f.max \/ (f.ref <= 0 /\ f.map = "none" /\ f.fds = {} /\ f.at = "idle")
  BY <1>1, <1>4, <1>5, ReaderFacts, Zenon
<1>7. ReaderOK(f)
  BY <1>4, <1>5, <1>6, ReaderParts
<1> QED
  BY <1>2, <1>7

LEMMA InitReaderLemma ==
    ASSUME NEW r, ReaderOK(r), r.at = "idle", NEW by \in {"read", "user"},
           by = "user" => r.users < MaxUsers, r.max => r.ref < MaxUsers
    PROVE  ReaderOK(InitReader(r, by))
<1> DEFINE q == [r EXCEPT !.ref = @ + 1]
           u == [q EXCEPT !.users = IF by = "user" THEN @ + 1 ELSE @]
           m == [q EXCEPT !.max = TRUE, !.at = "map", !.by = by]
<1>1. r \in ReaderType /\ MaxUsers \in Nat /\ MaxUsers >= 1
  BY ClientsAssumption DEF ReaderOK
<1>2. /\ q \in ReaderType /\ q.ref = r.ref + 1 /\ q.max = r.max /\ q.at = r.at
      /\ q.map = r.map /\ q.fds = r.fds /\ q.users = r.users /\ q.by = r.by
  BY <1>1 DEF ReaderType
<1>3. InitReader(r, by) = IF q.max THEN u
                          ELSE IF shm.linked /\ shm.max THEN m ELSE Failed(q)
  BY DEF InitReader
<1> HIDE DEF q
<1>4. /\ u \in ReaderType /\ u.ref = q.ref /\ u.max = q.max /\ u.at = q.at
      /\ u.map = q.map /\ u.fds = q.fds
      /\ u.users = IF by = "user" THEN q.users + 1 ELSE q.users
  BY <1>2 DEF ReaderType
<1>5. /\ m \in ReaderType /\ m.ref = q.ref /\ m.max = TRUE /\ m.at = "map" /\ m.by = by
      /\ m.map = q.map /\ m.fds = q.fds /\ m.users = q.users
  BY <1>2 DEF ReaderType
<1> HIDE DEF u, m
<1>6. CASE q.max
  <2>1. ReaderOK(u)
    BY <1>1, <1>2, <1>4, <1>6 DEF ReaderOK, ReaderType
  <2> QED
    BY <1>3, <1>6, <2>1
<1>7. CASE ~q.max /\ shm.linked /\ shm.max
  <2>1. ReaderOK(m)
    BY <1>1, <1>2, <1>5, <1>7 DEF ReaderOK, ReaderType
  <2> QED
    BY <1>3, <1>7, <2>1
<1>8. CASE ~q.max /\ ~(shm.linked /\ shm.max)
  <2> DEFINE f == [q EXCEPT !.ref = @ - 1, !.at = "idle"]
  <2>1. InitReader(r, by) = f
    BY <1>3, <1>8 DEF Failed, Closed
  <2>2. /\ f \in ReaderType /\ f.ref = q.ref - 1 /\ f.max = q.max /\ f.at = "idle"
        /\ f.map = q.map /\ f.fds = q.fds /\ f.users = q.users
    <3>1. q.ref - 1 \in Int
      BY <1>2, ReaderFacts
    <3>2. f \in ReaderType
      BY <1>2, <3>1 DEF ReaderType
    <3>3. /\ f.ref = q.ref - 1 /\ f.max = q.max /\ f.at = "idle"
          /\ f.map = q.map /\ f.fds = q.fds /\ f.users = q.users
      BY <1>2 DEF ReaderType
    <3> QED
      BY <3>2, <3>3
  <2> HIDE DEF f
  <2>3. ReaderOK(f)
    <3>1. r.ref <= 0 /\ r.map = "none" /\ r.fds = {}
      BY <1>2, <1>8, ReaderFacts, Zenon
    <3>2. /\ f.ref >= -1 /\ f.ref <= MaxUsers /\ f.ref <= 0
          /\ f.users >= 0 /\ f.users <= MaxUsers
      BY <1>2, <2>2, <3>1, ReaderFacts
    <3> QED
      BY <1>2, <2>2, <3>1, <3>2, ReaderParts
  <2> QED
    BY <2>1, <2>3
<1> QED
  BY <1>6, <1>7, <1>8

LEMMA HealthCheckLemma ==
    ASSUME NEW r, ReaderOK(r), r.at = "idle"
    PROVE  ReaderOK(HealthCheck(r))
<1>1. CASE ~r.max
  BY <1>1, InitReaderLemma DEF HealthCheck
<1>2. CASE r.max /\ r.map = "none"
  <2> DEFINE d == [r EXCEPT !.dead = TRUE]
  <2>1. HealthCheck(r) = d
    BY <1>2 DEF HealthCheck
  <2>2. /\ d \in ReaderType /\ d.ref = r.ref /\ d.max = r.max /\ d.at = r.at
        /\ d.map = r.map /\ d.fds = r.fds /\ d.users = r.users
    BY DEF ReaderOK, ReaderType
  <2> HIDE DEF d
  <2>3. ReaderOK(d)
    BY <1>2, <2>2 DEF ReaderOK
  <2> QED
    BY <2>1, <2>3
<1>3. CASE r.max /\ r.map # "none" /\ ~Mapped.max
  <2>1. HealthCheck(r) = InitReader(Closed(r), "read")
    BY <1>3 DEF HealthCheck
  <2>2. /\ ReaderOK(Closed(r)) /\ Closed(r).at = "idle"
        /\ Closed(r).max => Closed(r).ref < MaxUsers
    BY <1>3, ClosedLemma
  <2> QED
    BY <2>1, <2>2, InitReaderLemma
<1>4. CASE r.max /\ r.map # "none" /\ Mapped.max
  BY <1>4 DEF HealthCheck
<1> QED
  BY <1>1, <1>2, <1>3, <1>4
-----------------------------------------------------------------------------
(* The steps of the process that reads the memory                          *)
LEMMA ReaderStep ==
    ASSUME IInv, NEW r, ReaderOK(r), ReaderBecomes(r), faults' \in 0 .. MaxFaults
    PROVE  IInv'
<1>1. ReaderOK(reader')
  BY DEF ReaderBecomes
<1>2. /\ kind' = kind /\ daemon' = daemon /\ shm' = shm /\ client' = client
      /\ changes' = changes
  BY DEF ReaderBecomes
<1> QED
  BY <1>1, <1>2 DEF IInv, DaemonOK, MemoryOK, ClientOK, Serves, ReaderOK

(* A fault there was room for                                              *)
LEMMA OneFault ==
    ASSUME IInv, faults' = faults \/ (faults < MaxFaults /\ faults' = faults + 1)
    PROVE  faults' \in 0 .. MaxFaults
<1>1. faults \in 0 .. MaxFaults /\ MaxFaults \in Nat
  BY ClientsAssumption DEF IInv
<1> QED
  BY <1>1

LEMMA MappedLemma ==
    ASSUME IInv
    PROVE  Mapped.named \subseteq Domains
<1>1. shm.named \subseteq Domains /\ reader.old.named \subseteq Domains
  BY DEF IInv, MemoryOK, MemoryType, ReaderOK, ReaderType, Object
<1> QED
  BY <1>1 DEF Mapped

LEMMA OpenDevicesStep ==
    ASSUME IInv, OpenDevices
    PROVE  IInv'
<1> DEFINE o == [reader EXCEPT !.fds = Mapped.named, !.at = "idle",
                               !.users = IF reader.by = "user" THEN @ + 1 ELSE @]
<1>1. ReaderOK(reader) /\ reader.at = "devices" /\ reader.max /\ reader.ref >= 0
  <2>1. ReaderOK(reader) /\ reader.at = "devices" /\ reader.at # "idle"
    BY DEF IInv, OpenDevices
  <2> QED
    BY <2>1, ReaderFacts, Zenon
<1>2. faults' \in 0 .. MaxFaults
  BY OneFault DEF OpenDevices
<1>3. CASE ReaderBecomes(Failed(reader))
  BY <1>1, <1>2, <1>3, FailedLemma, ReaderStep
<1>4. CASE ReaderBecomes(o)
  <2> DEFINE n == Mapped.named
             u == IF reader.by = "user" THEN reader.users + 1 ELSE reader.users
  <2>1. reader \in ReaderType /\ reader.users \in Int /\ n \subseteq Domains
    BY <1>1, MappedLemma, ReaderFacts
  <2>2. u \in Int /\ u >= 0 /\ u <= MaxUsers
    <3>1. CASE reader.by = "user"
      <4>1. reader.users < MaxUsers
        <5>1. reader.at # "idle" /\ reader.by # "read"
          BY <1>1, <3>1
        <5> QED
          BY <1>1, <5>1, ReaderFacts, Zenon
      <4> QED
        BY <1>1, <3>1, <4>1, ReaderFacts
    <3>2. CASE reader.by # "user"
      BY <1>1, <3>2, ReaderFacts
    <3> QED
      BY <3>1, <3>2
  <2>3. o = [reader EXCEPT !.fds = n, !.at = "idle", !.users = u]
    OBVIOUS
  <2> HIDE DEF n, u
  <2>4. o \in ReaderType
    BY <2>1, <2>2, <2>3 DEF ReaderType
  <2>5. o.at = "idle" /\ o.users = u /\ o.ref = reader.ref /\ o.max = reader.max
    BY <2>1, <2>3 DEF ReaderType
  <2> HIDE DEF o
  <2>6. ReaderOK(o)
    <3>1. o.ref >= -1 /\ o.ref <= MaxUsers
      BY <1>1, <2>5, ReaderFacts
    <3> QED
      BY <1>1, <2>2, <2>4, <2>5, <3>1, ReaderParts
  <2> QED
    BY <1>2, <1>4, <2>6, ReaderStep
<1> QED
  BY <1>3, <1>4 DEF OpenDevices

LEMMA MapStep ==
    ASSUME IInv, Map
    PROVE  IInv'
<1> DEFINE o == [reader EXCEPT !.map = "linked", !.at = "devices"]
<1>1. ReaderOK(reader) /\ reader.at = "map" /\ reader.max /\ reader.ref >= 0
  <2>1. ReaderOK(reader) /\ reader.at = "map" /\ reader.at # "idle"
    BY DEF IInv, Map
  <2> QED
    BY <2>1, ReaderFacts, Zenon
<1>2. faults' \in 0 .. MaxFaults
  BY OneFault DEF Map
<1>3. ReaderOK(o)
  <2>1. reader \in ReaderType /\ reader.at # "idle"
    BY <1>1, ReaderFacts
  <2>2. o \in ReaderType
    BY <2>1 DEF ReaderType
  <2>3. /\ o.users = reader.users /\ o.ref = reader.ref /\ o.max = reader.max
        /\ o.by = reader.by
    BY <2>1 DEF ReaderType
  <2> HIDE DEF o
  <2>4. o.ref >= -1 /\ o.ref <= MaxUsers /\ o.users >= 0 /\ o.users <= MaxUsers /\ o.ref >= 0
    BY <1>1, <2>3, ReaderFacts
  <2>5. o.by = "read" \/ o.users < MaxUsers
    BY <1>1, <2>1, <2>3, ReaderFacts, Zenon
  <2> QED
    BY <1>1, <2>2, <2>3, <2>4, <2>5, ReaderParts
<1> HIDE DEF o
<1>4. CASE ReaderBecomes(o)
  BY <1>2, <1>3, <1>4, ReaderStep
<1>5. CASE ReaderBecomes(Failed(reader))
  BY <1>1, <1>2, <1>5, FailedLemma, ReaderStep
<1> QED
  BY <1>4, <1>5 DEF Map, o

LEMMA UserClosesStep ==
    ASSUME IInv, UserCloses
    PROVE  IInv'
<1> DEFINE c == Closed(reader)
           o == [c EXCEPT !.users = @ - 1]
<1>1. ReaderOK(c) /\ c.users > 0 /\ c.at = "idle"
  BY ClosedLemma DEF IInv, UserCloses, Idle
<1>2. faults' \in 0 .. MaxFaults
  BY OneFault DEF UserCloses
<1>3. ReaderBecomes(o)
  BY DEF UserCloses
<1> HIDE DEF c
<1>4. c \in ReaderType /\ c.users - 1 \in Int
  BY <1>1, ReaderFacts
<1>5. o \in ReaderType
  BY <1>4 DEF ReaderType
<1>6. /\ o.users = c.users - 1 /\ o.ref = c.ref /\ o.max = c.max /\ o.at = c.at
      /\ o.map = c.map /\ o.fds = c.fds
  BY <1>4 DEF ReaderType
<1> HIDE DEF o
<1>7. /\ o.ref >= -1 /\ o.ref <= MaxUsers /\ o.users >= 0 /\ o.users <= MaxUsers
  BY <1>1, <1>6, ReaderFacts
<1>8. o.max \/ (o.ref <= 0 /\ o.map = "none" /\ o.fds = {} /\ o.at = "idle")
  BY <1>1, <1>6, ReaderFacts, Zenon
<1>9. ReaderOK(o)
  BY <1>1, <1>5, <1>6, <1>7, <1>8, ReaderParts
<1> QED
  BY <1>2, <1>3, <1>9, ReaderStep

LEMMA ReaderSteps ==
    ASSUME IInv, Reader
    PROVE  IInv'
<1>1. CASE UserOpens
  <2>1. ReaderOK(InitReader(reader, "user"))
    BY <1>1, InitReaderLemma DEF IInv, UserOpens, Idle
  <2> QED
    BY <1>1, <2>1, OneFault, ReaderStep DEF UserOpens
<1>2. CASE UserCloses
  BY <1>2, UserClosesStep
<1>3. CASE Map
  BY <1>3, MapStep
<1>4. CASE OpenDevices
  BY <1>4, OpenDevicesStep
<1>5. CASE Read
  <2>1. ReaderOK(HealthCheck(reader))
    BY <1>5, HealthCheckLemma DEF IInv, Read, Idle
  <2> QED
    BY <1>5, <2>1, OneFault, ReaderStep DEF Read
<1>6. CASE Restart
  BY <1>6, NewReaderLemma, OneFault, ReaderStep DEF Restart
<1> QED
  BY <1>1, <1>2, <1>3, <1>4, <1>5, <1>6 DEF Reader
-----------------------------------------------------------------------------
(* What the client's socket holds                                          *)
LEMMA NoticeLemma ==
    ASSUME NEW topic \in Topics, NEW flags \in SUBSET {"yes", "no"}
    PROVE  Notice(topic, flags) \in Seq(Message)
<1>1. CASE flags = {}
  BY <1>1 DEF Notice
<1>2. CASE flags # {}
  <2> DEFINE f == CHOOSE f \in flags : TRUE
             is == IF Cardinality(flags) = 1 THEN f ELSE "both"
  <2>1. f \in flags
    BY <1>2
  <2>2. Notice(topic, flags) = <<About(topic, is)>>
    BY <1>2 DEF Notice
  <2> HIDE DEF f
  <2>3. is \in Words \ {"unknown"}
    BY <2>1 DEF Words
  <2> HIDE DEF is
  <2>4. About(topic, is) \in Message
    BY <2>3 DEF About, Message
  <2> QED
    BY <2>2, <2>4
<1> QED
  BY <1>1, <1>2

LEMMA DeliverLemma ==
    ASSUME IInv, NEW messages \in Seq(Message), NEW missed \in BOOLEAN, Deliver(messages, missed)
    PROVE  ClientOK(client')
<1>1. client \in ClientType /\ ClientOK(client)
  BY DEF IInv, ClientOK
<1>2. CASE client.socket = "none"
  <2> DEFINE b == missed \/ messages # <<>>
             c == [client EXCEPT !.missed = b]
  <2>1. client' = c
    BY <1>2 DEF Deliver
  <2>2. b \in BOOLEAN
    OBVIOUS
  <2> HIDE DEF b
  <2>3. c \in ClientType /\ c.queue = client.queue
    BY <1>1, <2>2 DEF ClientType
  <2> HIDE DEF c
  <2> QED
    BY <1>1, <2>1, <2>3 DEF ClientOK
<1>3. CASE client.socket # "none"
  <2> DEFINE q == client.queue \o messages
             n == IF Len(q) < QueueSize THEN Len(q) ELSE QueueSize
             k == SubSeq(q, 1, n)
             b == missed \/ Len(q) > QueueSize
             c == [client EXCEPT !.missed = b, !.queue = k]
  <2>1. client' = c
    BY <1>3 DEF Deliver
  <2>2. client.queue \in Seq(Message)
    BY <1>1 DEF ClientType
  <2>3. q \in Seq(Message)
    BY <2>2
  <2> HIDE DEF q
  <2>4. n \in Nat /\ n <= Len(q) /\ n <= QueueSize
    BY <2>3, ClientsAssumption
  <2> HIDE DEF n
  <2>5. k \in Seq(Message) /\ Len(k) = n
    <3>1. 1 \in 1 .. Len(q) + 1 /\ n \in 1 - 1 .. Len(q)
      BY <2>3, <2>4
    <3>2. \A i \in 1 .. n : q[i] \in Message
      BY <2>3, <2>4
    <3> QED
      BY <2>3, <2>4, <3>1, <3>2
  <2> HIDE DEF k
  <2>6. b \in BOOLEAN
    OBVIOUS
  <2> HIDE DEF b
  <2>7. c \in ClientType /\ c.queue = k
    BY <1>1, <2>5, <2>6 DEF ClientType
  <2> HIDE DEF c
  <2> QED
    BY <2>1, <2>4, <2>5, <2>7 DEF ClientOK
<1> QED
  BY <1>2, <1>3

-----------------------------------------------------------------------------
(* The steps of the daemon                                                 *)
DaemonFits(s) ==
    /\ s \in DaemonType /\ s.flags = {} /\ s.portFlags = {}
    /\ s.knows \/ s.asked => s.phase \in {"clocks", "up"}

MemoryFits(m, phase) ==
    /\ m \in MemoryType
    /\ m.named # {} \/ phase \in {"clocks", "up"} => m.max

LEMMA StepFits ==
    ASSUME IInv, kind' = kind, faults' \in 0 .. MaxFaults, changes' \in 0 .. MaxChanges,
           DaemonFits(daemon'), MemoryFits(shm', daemon'.phase), ReaderOK(reader'),
           ClientOK(client')
    PROVE  IInv'
<1>1. DaemonOK'
  BY DEF DaemonOK, DaemonFits, Serves, DaemonType
<1>2. MemoryOK'
  BY DEF MemoryOK, MemoryFits, Serves, MemoryType
<1>3. ReaderOK(reader)' /\ ClientOK(client)'
  BY DEF ReaderOK, ClientOK
<1> QED
  BY <1>1, <1>2, <1>3 DEF IInv

LEMMA NowFits ==
    ASSUME IInv
    PROVE  /\ DaemonFits(daemon) /\ MemoryFits(shm, daemon.phase) /\ daemon \in DaemonType
           /\ shm \in MemoryType /\ ReaderOK(reader) /\ ClientOK(client)
           /\ faults \in 0 .. MaxFaults /\ changes \in 0 .. MaxChanges
BY DEF IInv, DaemonOK, MemoryOK, DaemonFits, MemoryFits, Serves

LEMMA PhaseLemma ==
    ASSUME NEW s, DaemonFits(s), NEW p \in Phases, p = "cleared" => ~s.knows /\ ~s.asked,
           p # "cleared" => p \in {"clocks", "up"}
    PROVE  DaemonFits([s EXCEPT !.phase = p]) /\ [s EXCEPT !.phase = p].phase = p
<1> DEFINE t == [s EXCEPT !.phase = p]
<1>1. /\ t \in DaemonType /\ t.phase = p /\ t.flags = s.flags /\ t.portFlags = s.portFlags
      /\ t.knows = s.knows /\ t.asked = s.asked
  BY DEF DaemonFits, DaemonType, Phases
<1> HIDE DEF t
<1>2. t.knows \/ t.asked => t.phase \in {"clocks", "up"}
  BY <1>1, Zenon
<1>3. DaemonFits(t)
  BY <1>1, <1>2, Zenon DEF DaemonFits
<1> QED
  BY <1>1, <1>3 DEF t

LEMMA StartSteps ==
    ASSUME IInv, ClearMemory \/ SetMaxDomains \/ (\E d \in Domains : AddClock(d)) \/ Activate
    PROVE  IInv'
<1>1. CASE ClearMemory
  <2>1. "down" \notin {"clocks", "up"} /\ "cleared" \notin {"clocks", "up"} /\ "cleared" \in Phases
    BY DEF Phases
  <2>2. ~daemon.knows /\ ~daemon.asked
    BY <1>1, <2>1, NowFits, Zenon DEF ClearMemory, DaemonFits
  <2>3. DaemonFits(daemon') /\ daemon'.phase = "cleared"
    BY <1>1, <2>1, <2>2, NowFits, PhaseLemma DEF ClearMemory, Enter
  <2>4. MemoryFits(shm', "cleared")
    BY <1>1, <2>1 DEF ClearMemory, MemoryFits, MemoryType
  <2> QED
    BY <1>1, <2>3, <2>4, NowFits, StepFits DEF ClearMemory
<1>2. CASE SetMaxDomains
  <2>1. DaemonFits(daemon') /\ daemon'.phase = "clocks"
    BY <1>2, NowFits, PhaseLemma DEF SetMaxDomains, Enter, Phases
  <2>2. MemoryFits(shm', "clocks")
    BY <1>2, NowFits DEF SetMaxDomains, MemoryFits, MemoryType
  <2> QED
    BY <1>2, <2>1, <2>2, NowFits, StepFits DEF SetMaxDomains
<1>3. ASSUME NEW d \in Domains, AddClock(d) PROVE IInv'
  <2>1. MemoryFits(shm', "clocks")
    <3>1. shm.max
      BY <1>3, NowFits DEF AddClock, MemoryFits
    <3>2. shm' \in MemoryType /\ shm'.max = shm.max
      BY <1>3, NowFits DEF AddClock, MemoryType
    <3> QED
      BY <3>1, <3>2 DEF MemoryFits
  <2> QED
    BY <1>3, <2>1, NowFits, StepFits DEF AddClock
<1>4. CASE Activate
  <2>1. DaemonFits(daemon') /\ daemon'.phase = "up"
    BY <1>4, NowFits, PhaseLemma DEF Activate, Enter, Phases
  <2>2. MemoryFits(shm', "up")
    BY <1>4, NowFits DEF Activate, MemoryFits
  <2> QED
    BY <1>4, <2>1, <2>2, NowFits, StepFits DEF Activate
<1> QED
  BY <1>1, <1>2, <1>3, <1>4

LEMMA EndSteps ==
    ASSUME IInv, Close \/ Crash
    PROVE  IInv'
<1>1. Ends
  BY DEF Close, Crash
<1>2. faults' \in 0 .. MaxFaults
  BY <1>1, OneFault DEF Ends
<1>3. DaemonFits(daemon') /\ daemon'.phase = "down"
  BY <1>1 DEF Ends, Down, DaemonFits, DaemonType, Phases
<1>4. ClientOK(client')
  <2> DEFINE x == IF client.socket = "none" THEN client.socket ELSE "cut"
             c == [client EXCEPT !.socket = x]
  <2>1. client \in ClientType /\ ClientOK(client) /\ client.socket \in {"none", "open", "cut"}
    BY NowFits DEF ClientOK, ClientType
  <2>2. client' = c
    BY <1>1 DEF Ends, Cut
  <2>3. x \in {"none", "open", "cut"}
    BY <2>1
  <2> HIDE DEF x
  <2>4. c \in ClientType /\ c.queue = client.queue
    BY <2>1, <2>3 DEF ClientType
  <2> QED
    BY <2>1, <2>2, <2>4 DEF ClientOK
<1>5. ReaderOK(reader')
  <2> DEFINE old == [max |-> FALSE, named |-> shm.named]
             o == [reader EXCEPT !.map = "old", !.old = old]
  <2>1. CASE reader' = reader
    BY <2>1, NowFits
  <2>2. CASE reader.map = "linked" /\ reader' = o
    <3>1. ReaderOK(reader) /\ reader \in ReaderType
      BY NowFits, ReaderFacts
    <3>2. old \in Object
      BY NowFits DEF MemoryType, Object
    <3> HIDE DEF old
    <3>3. o \in ReaderType
      BY <3>1, <3>2 DEF ReaderType
    <3>4. /\ o.users = reader.users /\ o.ref = reader.ref /\ o.max = reader.max
          /\ o.by = reader.by /\ o.at = reader.at
      BY <3>1 DEF ReaderType
    <3> HIDE DEF o
    <3>5. reader.max
      <4>1. reader.map # "none"
        BY <2>2
      <4> QED
        BY <3>1, <4>1, ReaderFacts, Zenon
    <3>6. o.ref >= -1 /\ o.ref <= MaxUsers /\ o.users >= 0 /\ o.users <= MaxUsers
      BY <3>1, <3>4, ReaderFacts
    <3>7. o.at = "idle" \/ (o.ref >= 0 /\ (o.by = "read" \/ o.users < MaxUsers))
      BY <3>1, <3>4, ReaderFacts, Zenon
    <3>8. ReaderOK(o)
      BY <3>3, <3>4, <3>5, <3>6, <3>7, ReaderParts
    <3> QED
      BY <2>2, <3>8
  <2> QED
    BY <2>1, <2>2 DEF Close, Crash
<1>6. MemoryFits(shm', "down")
  <2>1. CASE shm' = shm
    BY <2>1, NowFits DEF MemoryFits
  <2>2. CASE shm' = NoMemory
    BY <2>2 DEF MemoryFits, NoMemory, MemoryType
  <2> QED
    BY <2>1, <2>2 DEF Close, Crash
<1> QED
  BY <1>1, <1>2, <1>3, <1>4, <1>5, <1>6, NowFits, StepFits DEF Ends
-----------------------------------------------------------------------------
(* The handlers of the daemon                                              *)
LEMMA SettersLemma ==
    ASSUME NEW s \in DaemonType, NEW b \in BOOLEAN
    PROVE  /\ SetGmSync(s, b) \in DaemonType /\ SetAsCapable(s, b) \in DaemonType
           /\ SetGmSync(s, b).phase = s.phase /\ SetAsCapable(s, b).phase = s.phase
           /\ SetGmSync(s, b).knows = s.knows /\ SetAsCapable(s, b).knows = s.knows
           /\ SetGmSync(s, b).asked = s.asked /\ SetAsCapable(s, b).asked = s.asked
<1> DEFINE w == Word(b)
<1>1. w \in {"yes", "no"}
  BY DEF Word
<1>2. /\ SetGmSync(s, b) = IF s.gmsync = b THEN s
                            ELSE [s EXCEPT !.gmsync = b, !.flags = s.flags \cup {w}]
      /\ SetAsCapable(s, b) = IF s.capable = b THEN s
                               ELSE [s EXCEPT !.capable = b, !.portFlags = {w}]
  BY DEF SetGmSync, SetAsCapable
<1> HIDE DEF w
<1> DEFINE x == [s EXCEPT !.gmsync = b, !.flags = s.flags \cup {w}]
           y == [s EXCEPT !.capable = b, !.portFlags = {w}]
<1>3. x \in DaemonType /\ x.phase = s.phase /\ x.knows = s.knows /\ x.asked = s.asked
  BY <1>1 DEF DaemonType
<1>4. y \in DaemonType /\ y.phase = s.phase /\ y.knows = s.knows /\ y.asked = s.asked
  BY <1>1 DEF DaemonType
<1> HIDE DEF x, y
<1>5. /\ SetGmSync(s, b) \in DaemonType /\ SetGmSync(s, b).phase = s.phase
      /\ SetGmSync(s, b).knows = s.knows /\ SetGmSync(s, b).asked = s.asked
  BY <1>2, <1>3, Zenon DEF x
<1>6. /\ SetAsCapable(s, b) \in DaemonType /\ SetAsCapable(s, b).phase = s.phase
      /\ SetAsCapable(s, b).knows = s.knows /\ SetAsCapable(s, b).asked = s.asked
  BY <1>2, <1>4, Zenon DEF y
<1> QED
  BY <1>5, <1>6

LEMMA HandleStep ==
    ASSUME IInv, Handle
    PROVE  IInv'
<1>1. PICK sync1, sync2, capable1, capable2 \in BOOLEAN :
          Notify(SetAsCapable(SetAsCapable(SetGmSync(SetGmSync(daemon, sync1), sync2),
                                           capable1), capable2))
  BY DEF Handle
<1> DEFINE s1 == SetGmSync(daemon, sync1)
           s2 == SetGmSync(s1, sync2)
           s3 == SetAsCapable(s2, capable1)
           s == SetAsCapable(s3, capable2)
           d == [s EXCEPT !.flags = {}, !.portFlags = {}]
           messages == IF s.knows THEN Notice("gmsync", s.flags) \o Notice("asCapable", s.portFlags)
                       ELSE <<>>
<1>2. daemon' = d /\ Deliver(messages, client.missed) /\ client.missed \in BOOLEAN
  BY <1>1, NowFits DEF Notify, ClientOK, ClientType
<1> HIDE DEF s
<1>3. s \in DaemonType /\ s.phase = daemon.phase
  <2>1. s1 \in DaemonType /\ s1.phase = daemon.phase
    BY NowFits, SettersLemma
  <2> HIDE DEF s1
  <2>2. s2 \in DaemonType /\ s2.phase = s1.phase
    BY <2>1, SettersLemma
  <2> HIDE DEF s2
  <2>3. s3 \in DaemonType /\ s3.phase = s2.phase
    BY <2>2, SettersLemma
  <2> HIDE DEF s3
  <2> QED
    BY <2>1, <2>2, <2>3, SettersLemma DEF s
<1>4. daemon.phase = "up"
  BY DEF Handle, Up
<1>5. /\ d \in DaemonType /\ d.phase = "up" /\ d.flags = {} /\ d.portFlags = {}
  BY <1>3, <1>4 DEF DaemonType
<1>6. messages \in Seq(Message)
  <2>1. s.flags \in SUBSET {"yes", "no"} /\ s.portFlags \in SUBSET {"yes", "no"}
    BY <1>3 DEF DaemonType
  <2>2. Notice("gmsync", s.flags) \in Seq(Message)
    BY <2>1, NoticeLemma DEF Topics
  <2>3. Notice("asCapable", s.portFlags) \in Seq(Message)
    BY <2>1, NoticeLemma DEF Topics
  <2> QED
    BY <2>2, <2>3
<1> HIDE DEF d, messages
<1>7. DaemonFits(daemon')
  BY <1>2, <1>5 DEF DaemonFits
<1>8. ClientOK(client')
  BY <1>2, <1>6, DeliverLemma
<1>9. MemoryFits(shm', daemon'.phase)
  BY <1>2, <1>4, <1>5, NowFits DEF Handle
<1>10. changes' \in 0 .. MaxChanges
  <2>1. changes \in 0 .. MaxChanges /\ MaxChanges \in Nat
    BY NowFits, ClientsAssumption
  <2> QED
    BY <2>1 DEF Handle
<1> QED
  BY <1>7, <1>8, <1>9, <1>10, NowFits, StepFits DEF Handle

LEMMA AnswerStep ==
    ASSUME IInv, Answer
    PROVE  IInv'
<1> DEFINE d == [daemon EXCEPT !.asked = FALSE, !.knows = TRUE]
           a == About("asCapable", Word(daemon.capable))
           g == About("gmsync", Word(daemon.gmsync))
<1>1. daemon' = d /\ Deliver(<<a, g>>, FALSE) /\ daemon.phase = "up"
  BY DEF Answer, Up
<1>2. /\ d \in DaemonType /\ d.phase = daemon.phase /\ d.flags = daemon.flags
      /\ d.portFlags = daemon.portFlags
  BY NowFits DEF DaemonType
<1> HIDE DEF d
<1>3. DaemonFits(daemon')
  BY <1>1, <1>2, NowFits DEF DaemonFits
<1>4. a \in Message /\ g \in Message
  BY DEF About, Word, Message, Topics, Words
<1> HIDE DEF a, g
<1>5. ClientOK(client')
  <2>1. <<a, g>> \in Seq(Message)
    BY <1>4
  <2> QED
    BY <1>1, <2>1, DeliverLemma
<1>6. MemoryFits(shm', daemon'.phase)
  BY <1>1, <1>2, NowFits DEF Answer
<1> QED
  BY <1>3, <1>5, <1>6, NowFits, StepFits DEF Answer

-----------------------------------------------------------------------------
(* The steps of the client                                                 *)
LEMMA ClientStep ==
    ASSUME IInv, NEW c, ClientOK(c), ClientBecomes(c),
           \/ daemon' = daemon
           \/ daemon' = [daemon EXCEPT !.knows = FALSE]
           \/ daemon' = [daemon EXCEPT !.asked = Serves],
           faults' = faults \/ (faults < MaxFaults /\ faults' = faults + 1)
    PROVE  IInv'
<1>1. DaemonFits(daemon') /\ daemon'.phase = daemon.phase
  <2>1. CASE daemon' = daemon
    BY <2>1, NowFits
  <2>2. CASE daemon' = [daemon EXCEPT !.knows = FALSE]
    <3>1. /\ daemon' \in DaemonType /\ daemon'.phase = daemon.phase
          /\ daemon'.flags = daemon.flags /\ daemon'.portFlags = daemon.portFlags
          /\ daemon'.knows = FALSE /\ daemon'.asked = daemon.asked
      BY <2>2, NowFits DEF DaemonType
    <3> QED
      BY <3>1, NowFits, Zenon DEF DaemonFits
  <2>3. CASE daemon' = [daemon EXCEPT !.asked = Serves]
    <3>1. Serves \in BOOLEAN
      BY DEF Serves
    <3>2. /\ daemon' \in DaemonType /\ daemon'.phase = daemon.phase
          /\ daemon'.flags = daemon.flags /\ daemon'.portFlags = daemon.portFlags
          /\ daemon'.knows = daemon.knows /\ daemon'.asked = Serves
      BY <2>3, <3>1, NowFits DEF DaemonType
    <3> QED
      BY <3>2, NowFits, Zenon DEF DaemonFits, Serves
  <2> QED
    BY <2>1, <2>2, <2>3
<1>2. MemoryFits(shm', daemon'.phase)
  BY <1>1, NowFits DEF ClientBecomes
<1> QED
  BY <1>1, <1>2, NowFits, OneFault, StepFits DEF ClientBecomes

LEMMA NewClientLemma ==
    ASSUME NEW b \in BOOLEAN
    PROVE  ClientOK([NewClient EXCEPT !.running = b]) /\ ClientOK(NewClient)
<1> DEFINE view == [gmsync |-> "unknown", asCapable |-> "unknown"]
           new == [NewClient EXCEPT !.running = b]
<1>1. view \in [Topics -> Words]
  BY DEF Topics, Words
<1>2. NewClient = [running |-> FALSE, socket |-> "none", queue |-> <<>>, got |-> FALSE,
                   count |-> 0, turn |-> "send", missed |-> TRUE, view |-> view]
  BY DEF NewClient
<1> HIDE DEF view
<1>3. <<>> \in Seq(Message) /\ Len(<<>>) = 0 /\ 0 \in 0 .. Timeouts + 1 /\ 0 <= QueueSize
  BY ClientsAssumption
<1>4. NewClient \in ClientType /\ NewClient.queue = <<>>
  BY <1>1, <1>2, <1>3 DEF ClientType
<1>5. new \in ClientType /\ new.queue = NewClient.queue
  BY <1>4 DEF ClientType
<1> HIDE DEF new
<1>6. ClientOK(new) /\ ClientOK(NewClient)
  BY <1>3, <1>4, <1>5 DEF ClientOK
<1> QED
  BY <1>6 DEF new

LEMMA LoopLemma ==
    ASSUME NEW c, ClientOK(c)
    PROVE  ClientOK(Loop(c))
<1> DEFINE turn == IF c.got THEN "read" ELSE "send"
           l == [c EXCEPT !.turn = turn]
<1>1. l \in ClientType /\ l.queue = c.queue
  <2>1. turn \in {"send", "read"} /\ c \in ClientType
    BY DEF ClientOK
  <2> HIDE DEF turn
  <2> QED
    BY <2>1 DEF ClientType
<1>2. Loop(c) = l
  BY DEF Loop
<1> HIDE DEF l
<1> QED
  BY <1>1, <1>2 DEF ClientOK

LEMMA ReopenLemma ==
    ASSUME NEW c, ClientOK(c)
    PROVE  ClientOK(Reopen(c))
<1> DEFINE b == c.missed \/ c.queue # <<>>
           o == [c EXCEPT !.socket = "none", !.queue = <<>>, !.missed = b]
<1>1. <<>> \in Seq(Message) /\ Len(<<>>) = 0 /\ 0 <= QueueSize /\ b \in BOOLEAN
  BY ClientsAssumption
<1>2. Reopen(c) = Loop(o)
  BY DEF Reopen
<1> HIDE DEF b
<1>3. o \in ClientType /\ o.queue = <<>>
  BY <1>1 DEF ClientOK, ClientType
<1> HIDE DEF o
<1>4. ClientOK(o)
  BY <1>1, <1>3 DEF ClientOK
<1> QED
  BY <1>2, <1>4, LoopLemma

LEMMA ReceiveStep ==
    ASSUME IInv, Receive
    PROVE  IInv'
<1> DEFINE m == Head(client.queue)
           v == [client.view EXCEPT ![m.about] = m.is]
           t == Tail(client.queue)
           c == [client EXCEPT !.queue = t, !.got = TRUE, !.count = 0, !.view = v]
<1>1. client \in ClientType /\ Len(client.queue) <= QueueSize /\ client.queue # <<>>
  BY NowFits DEF ClientOK, Receive
<1>2. client.queue \in Seq(Message) /\ client.view \in [Topics -> Words]
  BY <1>1 DEF ClientType
<1>3. m \in Message /\ t \in Seq(Message) /\ Len(t) <= QueueSize
  BY <1>1, <1>2, ClientsAssumption
<1>4. ClientBecomes(c)
  BY DEF Receive
<1> HIDE DEF m, t
<1>5. v \in [Topics -> Words]
  BY <1>2, <1>3 DEF Message
<1> HIDE DEF v
<1>6. 0 \in 0 .. Timeouts + 1
  BY ClientsAssumption
<1>7. c \in ClientType /\ c.queue = t
  BY <1>1, <1>3, <1>5, <1>6 DEF ClientType
<1> HIDE DEF c
<1>8. ClientOK(c)
  BY <1>3, <1>7 DEF ClientOK
<1> QED
  BY <1>4, <1>8, ClientStep DEF Receive

LEMMA ReadTimeoutStep ==
    ASSUME IInv, ReadTimeout
    PROVE  IInv'
<1> DEFINE n == IF Timeouts > 0 /\ client.count <= Timeouts THEN client.count + 1 ELSE client.count
           got == client.got /\ n <= Timeouts
           c == [client EXCEPT !.count = n, !.got = got]
<1>1. client \in ClientType /\ Len(client.queue) <= QueueSize
  BY NowFits DEF ClientOK
<1>2. n \in 0 .. Timeouts + 1
  <2>1. client.count \in 0 .. Timeouts + 1
    BY <1>1 DEF ClientType
  <2> QED
    BY <2>1, ClientsAssumption
<1>3. ClientBecomes(Loop(c))
  BY DEF ReadTimeout
<1> HIDE DEF n
<1>4. got \in BOOLEAN
  OBVIOUS
<1> HIDE DEF got
<1>5. c \in ClientType /\ c.queue = client.queue
  BY <1>1, <1>2, <1>4 DEF ClientType
<1> HIDE DEF c
<1>6. ClientOK(Loop(c))
  BY <1>1, <1>5, LoopLemma DEF ClientOK
<1> QED
  BY <1>3, <1>6, ClientStep DEF ReadTimeout

LEMMA ClientSteps ==
    ASSUME IInv, Client
    PROVE  IInv'
<1>1. CASE Start
  BY <1>1, NewClientLemma, ClientStep DEF Start
<1>2. CASE Stop
  BY <1>2, NewClientLemma, ClientStep DEF Stop
<1>3. CASE Connect
  <2> DEFINE x == IF Serves THEN "open" ELSE "cut"
             c == [client EXCEPT !.socket = x]
  <2>1. ClientBecomes(c)
    BY <1>3 DEF Connect
  <2>2. x \in {"none", "open", "cut"} /\ client \in ClientType
    BY NowFits DEF ClientOK
  <2> HIDE DEF x
  <2>3. c \in ClientType /\ c.queue = client.queue
    BY <2>2 DEF ClientType
  <2> HIDE DEF c
  <2>4. ClientOK(c)
    BY <2>3, NowFits DEF ClientOK
  <2> QED
    BY <1>3, <2>1, <2>4, ClientStep DEF Connect
<1>4. CASE Send
  <2> DEFINE c == [client EXCEPT !.turn = "read"]
  <2>1. c \in ClientType /\ c.queue = client.queue
    BY NowFits DEF ClientType, ClientOK
  <2>2. \/ ClientBecomes(c) /\ daemon' = [daemon EXCEPT !.asked = Serves]
        \/ ClientBecomes(Reopen(client)) /\ daemon' = daemon
    BY <1>4 DEF Send
  <2> HIDE DEF c
  <2>3. ClientOK(c)
    BY <2>1, NowFits DEF ClientOK
  <2>4. faults' = faults
    BY <1>4 DEF Send
  <2>5. CASE ClientBecomes(c) /\ daemon' = [daemon EXCEPT !.asked = Serves]
    BY <2>3, <2>4, <2>5, ClientStep
  <2>6. CASE ClientBecomes(Reopen(client)) /\ daemon' = daemon
    BY <2>4, <2>6, NowFits, ReopenLemma, ClientStep
  <2> QED
    BY <2>2, <2>5, <2>6
<1>5. CASE Receive
  BY <1>5, ReceiveStep
<1>6. CASE ReadTimeout
  BY <1>6, ReadTimeoutStep
<1>7. CASE ReadError
  BY <1>7, NowFits, ReopenLemma, ClientStep DEF ReadError
<1> QED
  BY <1>1, <1>2, <1>3, <1>4, <1>5, <1>6, <1>7 DEF Client, Thread

-----------------------------------------------------------------------------
LEMMA InitLemma == Init => IInv
<1> SUFFICES ASSUME Init PROVE IInv
  OBVIOUS
<1>1. DaemonOK
  BY DEF Init, Down, DaemonOK, DaemonType, Phases, Serves
<1>2. MemoryOK
  BY DEF Init, Down, NoMemory, MemoryOK, MemoryType, Serves
<1>3. ReaderOK(reader) /\ ClientOK(client)
  BY NewReaderLemma, NewClientLemma DEF Init
<1>4. faults \in 0 .. MaxFaults /\ changes \in 0 .. MaxChanges
  BY ClientsAssumption DEF Init
<1> QED
  BY <1>1, <1>2, <1>3, <1>4 DEF Init, IInv

LEMMA StepLemma == IInv /\ [Next]_vars => IInv'
<1> SUFFICES ASSUME IInv, [Next]_vars PROVE IInv'
  OBVIOUS
<1>1. CASE Daemon
  BY <1>1, StartSteps, EndSteps, HandleStep, AnswerStep DEF Daemon
<1>2. CASE Reader
  BY <1>2, ReaderSteps
<1>3. CASE Client
  BY <1>3, ClientSteps
<1>4. CASE UNCHANGED vars
  BY <1>4, NowFits, StepFits DEF vars, IInv
<1> QED
  BY <1>1, <1>2, <1>3, <1>4 DEF Next

LEMMA InvLemma == IInv => TypeOK
<1> SUFFICES ASSUME IInv PROVE TypeOK
  OBVIOUS
<1>1. /\ daemon.phase \in {"down", "cleared", "clocks", "up"}
      /\ daemon.gmsync \in BOOLEAN /\ daemon.capable \in BOOLEAN
  BY DEF IInv, DaemonOK, DaemonType, Phases
<1>2. /\ reader.old \in Object /\ reader.fds \subseteq Domains
      /\ reader.ref \in -1 .. MaxUsers /\ reader.users \in 0 .. MaxUsers
  <2>1. reader \in ReaderType /\ ReaderOK(reader)
    BY NowFits, ReaderFacts
  <2>2. reader.old \in Object /\ reader.fds \subseteq Domains
    BY <2>1 DEF ReaderType
  <2> QED
    BY <2>1, <2>2, ReaderFacts
<1>3. reader.map # "none" \/ reader.fds # {} \/ reader.at # "idle" => reader.max
  BY NowFits, ReaderFacts, Zenon
<1>4. /\ client.queue \in Seq([about : {"gmsync", "asCapable"}, is : Words \ {"unknown"}])
      /\ Len(client.queue) <= QueueSize /\ client.count \in 0 .. Timeouts + 1
      /\ client.view \in [{"gmsync", "asCapable"} -> Words]
  BY NowFits DEF ClientOK, ClientType, Message, Topics
<1>5. shm.named # {} => shm.max
  BY DEF IInv, MemoryOK
<1> QED
  BY <1>1, <1>2, <1>3, <1>4, <1>5, Zenon DEF IInv, DaemonOK, TypeOK

(* Type correctness: the reader never holds a mapping, an open device or a *)
(* mapping in progress without max_domains, its reference counter stays    *)
(* between -1 and the number of users, and what the client's socket holds  *)
(* stays within its size, for any number of users, of ends of the daemon   *)
(* and of changes (gptpmasterclock_init and _close, gptpipc_thread_proc).  *)
THEOREM TypeCorrect == Spec => []TypeOK
<1>1. Spec => []IInv
  BY InitLemma, StepLemma, PTL DEF Spec
<1> QED
  BY <1>1, InvLemma, PTL

-----------------------------------------------------------------------------
(***************************************************************************)
(* What a reader reads.  An old object has been left by gptpclock_close;   *)
(* an init counts no other user, so that one that fails lets go of all it  *)
(* has; and one that has ended has opened the device of the first domain,  *)
(* since gptpclock_add_clock names that one first.                         *)
(***************************************************************************)
ReaderWhole(r) ==
    /\ r.map = "old" => ~r.old.max
    /\ r.old.named # {} => 0 \in r.old.named
    /\ r.at = "map" => r.map = "none"
    /\ r.at = "idle" \/ r.ref <= 1
    /\ r.at = "idle" /\ r.max /\ r.map # "none" => 0 \in r.fds

MemoryWhole ==
    /\ shm.named # {} => 0 \in shm.named
    /\ reader.map = "linked" => shm.linked

LEMMA NewReaderWhole == ReaderWhole(NewReader)
  BY DEF NewReader, ReaderWhole

(* gptpmasterclock_close                                                   *)
LEMMA ClosedWhole ==
    ASSUME NEW r, ReaderOK(r), ReaderWhole(r)
    PROVE  /\ ReaderWhole(Closed(r)) /\ Closed(r).map \in {r.map, "none"}
           /\ r.at = "idle" \/ Closed(r) = r \/ ~Closed(r).max
<1> DEFINE less == [r EXCEPT !.ref = @ - 1]
           new == [NewReader EXCEPT !.users = r.users]
<1>1. r \in ReaderType /\ r.ref \in Int
  BY ReaderFacts
<1>2. /\ less.ref = r.ref - 1 /\ less.max = r.max /\ less.at = r.at
      /\ less.map = r.map /\ less.fds = r.fds /\ less.old = r.old
  BY <1>1 DEF ReaderType
<1>3. /\ new.ref = 0 /\ new.max = FALSE /\ new.at = "idle" /\ new.map = "none"
      /\ new.old.named = {}
  BY DEF NewReader
<1>4. Closed(r) = IF ~r.max \/ r.map = "none" THEN r ELSE IF r.ref > 1 THEN less ELSE new
  BY DEF Closed
<1> HIDE DEF less, new
<1>5. CASE ~r.max \/ r.map = "none"
  BY <1>4, <1>5
<1>6. CASE ~(~r.max \/ r.map = "none") /\ r.ref > 1
  <2>1. Closed(r) = less
    BY <1>4, <1>6
  <2>2. r.at = "idle"
    BY <1>1, <1>6 DEF ReaderWhole
  <2>3. ReaderWhole(less)
    BY <1>2, <2>2 DEF ReaderWhole
  <2> QED
    BY <1>2, <2>1, <2>2, <2>3
<1>7. CASE ~(~r.max \/ r.map = "none") /\ ~(r.ref > 1)
  <2>1. Closed(r) = new
    BY <1>4, <1>7
  <2>2. ReaderWhole(new)
    BY <1>3 DEF ReaderWhole
  <2> QED
    BY <1>3, <2>1, <2>2
<1> QED
  BY <1>5, <1>6, <1>7

(* erexit of gptpmasterclock_init                                          *)
LEMMA FailedWhole ==
    ASSUME NEW r, ReaderOK(r), ReaderWhole(r), r.at # "idle" \/ ~r.max
    PROVE  ReaderWhole(Failed(r)) /\ Failed(r).map \in {r.map, "none"}
<1> DEFINE c == Closed(r)
           f == [c EXCEPT !.ref = @ - 1, !.at = "idle"]
<1>1. /\ ReaderOK(c) /\ ReaderWhole(c) /\ c.map \in {r.map, "none"}
      /\ r.at = "idle" \/ c = r \/ ~c.max
  BY ClosedLemma, ClosedWhole
<1>2. Failed(r) = f
  BY DEF Failed
<1>3. ~c.max \/ c.map = "none"
  <2>1. r.max /\ r.map # "none" => c # r
    <3>1. CASE r.ref > 1
      BY <3>1, ReaderFacts DEF ReaderWhole
    <3>2. CASE ~(r.ref > 1)
      BY <3>2 DEF Closed, NewReader
    <3> QED
      BY <3>1, <3>2
  <2>2. ~r.max => c = r
    BY DEF Closed
  <2> QED
    BY <1>1, <2>1, <2>2
<1> HIDE DEF c
<1>4. /\ f.at = "idle" /\ f.max = c.max /\ f.map = c.map /\ f.fds = c.fds /\ f.old = c.old
  <2>1. c \in ReaderType
    BY <1>1 DEF ReaderOK
  <2> QED
    BY <2>1 DEF ReaderType
<1> HIDE DEF f
<1>5. ReaderWhole(f)
  BY <1>1, <1>3, <1>4 DEF ReaderWhole
<1> QED
  BY <1>1, <1>2, <1>4, <1>5

(* gptpmasterclock_init up to the reading of max_domains                   *)
LEMMA InitReaderWhole ==
    ASSUME NEW r, ReaderOK(r), ReaderWhole(r), r.at = "idle", NEW by
    PROVE  ReaderWhole(InitReader(r, by)) /\ InitReader(r, by).map \in {r.map, "none"}
<1> DEFINE q == [r EXCEPT !.ref = @ + 1]
           u == [q EXCEPT !.users = IF by = "user" THEN @ + 1 ELSE @]
           m == [q EXCEPT !.max = TRUE, !.at = "map", !.by = by]
           f == [q EXCEPT !.ref = @ - 1, !.at = "idle"]
<1>1. r \in ReaderType
  BY ReaderFacts
<1>2. /\ q.ref = r.ref + 1 /\ q.max = r.max /\ q.at = r.at /\ q.map = r.map
      /\ q.fds = r.fds /\ q.old = r.old /\ q \in ReaderType
  BY <1>1 DEF ReaderType
<1>3. InitReader(r, by) = IF q.max THEN u ELSE IF shm.linked /\ shm.max THEN m ELSE Failed(q)
  BY DEF InitReader
<1>4. ~q.max => Failed(q) = f
  BY DEF Failed, Closed
<1> HIDE DEF q
<1>5. /\ u.ref = q.ref /\ u.max = q.max /\ u.at = q.at /\ u.map = q.map
      /\ u.fds = q.fds /\ u.old = q.old
  BY <1>2 DEF ReaderType
<1>6. /\ m.ref = q.ref /\ m.max = TRUE /\ m.at = "map" /\ m.map = q.map /\ m.old = q.old
  BY <1>2 DEF ReaderType
<1>7. /\ f.max = q.max /\ f.at = "idle" /\ f.map = q.map /\ f.old = q.old
  BY <1>2 DEF ReaderType
<1> HIDE DEF u, m, f
<1>8. CASE q.max
  <2>1. ReaderWhole(u)
    BY <1>2, <1>5 DEF ReaderWhole
  <2> QED
    BY <1>2, <1>3, <1>5, <1>8, <2>1
<1>9. CASE ~q.max /\ shm.linked /\ shm.max
  <2>1. r.map = "none" /\ r.ref <= 0 /\ r.ref \in Int
    <3>1. r.map = "none" /\ r.ref <= 0
      BY <1>2, <1>9, ReaderFacts, Zenon
    <3> QED
      BY <3>1, ReaderFacts
  <2>2. m.ref <= 1
    BY <1>2, <1>6, <2>1
  <2>3. ReaderWhole(m)
    BY <1>2, <1>6, <2>1, <2>2 DEF ReaderWhole
  <2> QED
    BY <1>2, <1>3, <1>6, <1>9, <2>3
<1>10. CASE ~q.max /\ ~(shm.linked /\ shm.max)
  <2>1. ReaderWhole(f)
    BY <1>2, <1>7, <1>10 DEF ReaderWhole
  <2> QED
    BY <1>2, <1>3, <1>4, <1>7, <1>10, <2>1
<1> QED
  BY <1>8, <1>9, <1>10

LEMMA HealthCheckWhole ==
    ASSUME NEW r, ReaderOK(r), ReaderWhole(r), r.at = "idle"
    PROVE  ReaderWhole(HealthCheck(r)) /\ HealthCheck(r).map \in {r.map, "none"}
<1>1. CASE ~r.max
  BY <1>1, InitReaderWhole DEF HealthCheck
<1>2. CASE r.max /\ r.map = "none"
  <2> DEFINE d == [r EXCEPT !.dead = TRUE]
  <2>1. HealthCheck(r) = d
    BY <1>2 DEF HealthCheck
  <2>2. /\ d.ref = r.ref /\ d.max = r.max /\ d.at = r.at /\ d.map = r.map /\ d.fds = r.fds
        /\ d.old = r.old
    BY ReaderFacts DEF ReaderType
  <2> HIDE DEF d
  <2>3. ReaderWhole(d)
    BY <2>2 DEF ReaderWhole
  <2> QED
    BY <2>1, <2>2, <2>3
<1>3. CASE r.max /\ r.map # "none" /\ ~Mapped.max
  <2>1. HealthCheck(r) = InitReader(Closed(r), "read")
    BY <1>3 DEF HealthCheck
  <2> DEFINE c == Closed(r)
  <2>2. ReaderOK(c) /\ c.at = "idle" /\ ReaderWhole(c) /\ c.map \in {r.map, "none"}
    BY ClosedLemma, ClosedWhole
  <2> HIDE DEF c
  <2>3. ReaderWhole(InitReader(c, "read")) /\ InitReader(c, "read").map \in {c.map, "none"}
    BY <2>2, InitReaderWhole
  <2> QED
    BY <2>1, <2>2, <2>3 DEF c
<1>4. CASE r.max /\ r.map # "none" /\ Mapped.max
  BY <1>4 DEF HealthCheck
<1> QED
  BY <1>1, <1>2, <1>3, <1>4

Whole == ReaderWhole(reader) /\ MemoryWhole

LEMMA ReaderWholeStep ==
    ASSUME Whole, NEW r, ReaderWhole(r), ReaderBecomes(r), r.map \in {reader.map, "none"}
    PROVE  Whole'
<1>1. shm' = shm /\ reader' = r
  BY DEF ReaderBecomes
<1>2. ReaderWhole(reader)'
  BY <1>1 DEF ReaderWhole
<1>3. MemoryWhole'
  BY <1>1 DEF MemoryWhole, Whole
<1> QED
  BY <1>2, <1>3 DEF Whole

LEMMA ReaderWholeSteps ==
    ASSUME IInv, Whole, Reader
    PROVE  Whole'
<1>1. ReaderOK(reader) /\ reader \in ReaderType /\ ReaderWhole(reader)
  BY NowFits, ReaderFacts DEF Whole
<1>2. CASE UserOpens
  BY <1>1, <1>2, InitReaderWhole, ReaderWholeStep DEF UserOpens, Idle
<1>3. CASE UserCloses
  <2> DEFINE c == Closed(reader)
             o == [c EXCEPT !.users = @ - 1]
  <2>1. ReaderOK(c) /\ ReaderWhole(c) /\ c.map \in {reader.map, "none"}
    BY <1>1, ClosedLemma, ClosedWhole
  <2>2. ReaderBecomes(o)
    BY <1>3 DEF UserCloses
  <2> HIDE DEF c
  <2>3. /\ o.ref = c.ref /\ o.max = c.max /\ o.at = c.at /\ o.map = c.map /\ o.fds = c.fds
        /\ o.old = c.old
    BY <2>1, ReaderFacts DEF ReaderType
  <2> HIDE DEF o
  <2>4. ReaderWhole(o)
    BY <2>1, <2>3 DEF ReaderWhole
  <2> QED
    BY <2>1, <2>2, <2>3, <2>4, ReaderWholeStep
<1>4. CASE Map
  <2> DEFINE o == [reader EXCEPT !.map = "linked", !.at = "devices"]
  <2>1. /\ o.ref = reader.ref /\ o.max = reader.max /\ o.at = "devices" /\ o.map = "linked"
        /\ o.old = reader.old
    BY <1>1 DEF ReaderType
  <2>2. reader.at = "map" /\ ReaderBecomes(IF shm.linked THEN o ELSE Failed(reader))
    BY <1>4 DEF Map
  <2> HIDE DEF o
  <2>3. CASE shm.linked
    <3>1. ReaderWhole(o)
      BY <1>1, <2>1, <2>2 DEF ReaderWhole
    <3>2. shm' = shm /\ reader' = o
      BY <2>2, <2>3 DEF ReaderBecomes
    <3>3. ReaderWhole(reader)'
      BY <3>1, <3>2 DEF ReaderWhole
    <3>4. MemoryWhole'
      BY <2>3, <3>2 DEF MemoryWhole, Whole
    <3> QED
      BY <3>3, <3>4 DEF Whole
  <2>4. CASE ~shm.linked
    BY <1>1, <2>2, <2>4, FailedWhole, ReaderWholeStep
  <2> QED
    BY <2>3, <2>4
<1>5. CASE OpenDevices
  <2> DEFINE n == Mapped.named
             u == IF reader.by = "user" THEN reader.users + 1 ELSE reader.users
             o == [reader EXCEPT !.fds = n, !.at = "idle", !.users = u]
  <2>1. n # {} => 0 \in n
    BY <1>1 DEF Mapped, ReaderWhole, Whole, MemoryWhole
  <2>2. \/ n # {} /\ ReaderBecomes(o)
        \/ ReaderBecomes(Failed(reader))
    BY <1>5 DEF OpenDevices
  <2>3. reader.at = "devices"
    BY <1>5 DEF OpenDevices
  <2> HIDE DEF n, u
  <2>4. /\ o.ref = reader.ref /\ o.max = reader.max /\ o.at = "idle" /\ o.map = reader.map
        /\ o.old = reader.old /\ o.fds = n
    BY <1>1 DEF ReaderType
  <2> HIDE DEF o
  <2>5. ASSUME n # {} PROVE ReaderWhole(o)
    BY <1>1, <2>1, <2>4, <2>5 DEF ReaderWhole
  <2> QED
    BY <1>1, <2>2, <2>3, <2>4, <2>5, FailedWhole, ReaderWholeStep
<1>6. CASE Read
  BY <1>1, <1>6, HealthCheckWhole, ReaderWholeStep DEF Read, Idle
<1>7. CASE Restart
  <2>1. NewReader.map = "none"
    BY DEF NewReader
  <2> QED
    BY <1>7, <2>1, NewReaderWhole, ReaderWholeStep DEF Restart
<1> QED
  BY <1>2, <1>3, <1>4, <1>5, <1>6, <1>7 DEF Reader

LEMMA KeepsWhole ==
    ASSUME Whole, reader' = reader, shm' = shm
    PROVE  Whole'
<1>1. ReaderWhole(reader)' /\ MemoryWhole'
  BY DEF Whole, ReaderWhole, MemoryWhole
<1> QED
  BY <1>1 DEF Whole

LEMMA DaemonWholeSteps ==
    ASSUME IInv, Whole, Daemon
    PROVE  Whole'
<1>1. reader \in ReaderType /\ shm \in MemoryType
  BY NowFits, ReaderFacts
<1>2. CASE reader' = reader /\ shm' = shm
  BY <1>2, KeepsWhole
<1>3. ASSUME reader' = reader, shm'.linked = shm.linked \/ shm'.linked,
             shm'.named # {} => 0 \in shm'.named
      PROVE  Whole'
  <2>1. ReaderWhole(reader)' /\ MemoryWhole'
    BY <1>3 DEF Whole, ReaderWhole, MemoryWhole
  <2> QED
    BY <2>1 DEF Whole
<1>4. CASE ClearMemory
  BY <1>3, <1>4 DEF ClearMemory
<1>5. CASE SetMaxDomains
  <2>1. shm'.linked = shm.linked /\ shm'.named = shm.named /\ reader' = reader
    BY <1>1, <1>5 DEF SetMaxDomains, MemoryType
  <2> QED
    BY <1>3, <2>1 DEF Whole, MemoryWhole
<1>6. ASSUME NEW d \in Domains, AddClock(d) PROVE Whole'
  <2>1. shm'.linked = shm.linked /\ shm'.named = shm.named \cup {d} /\ reader' = reader
    BY <1>1, <1>6 DEF AddClock, MemoryType
  <2>2. d = 0 \/ 0 \in shm.named
    BY <1>6 DEF AddClock, Domains
  <2> QED
    BY <1>3, <2>1, <2>2
<1>7. CASE Close
  <2> DEFINE old == [max |-> FALSE, named |-> shm.named]
             o == [reader EXCEPT !.map = "old", !.old = old]
  <2>1. shm' = NoMemory /\ reader' = IF reader.map = "linked" THEN o ELSE reader
    BY <1>7 DEF Close
  <2>2. old.max = FALSE /\ old.named = shm.named
    OBVIOUS
  <2> HIDE DEF old
  <2>3. /\ o.ref = reader.ref /\ o.max = reader.max /\ o.at = reader.at /\ o.map = "old"
        /\ o.old = old /\ o.fds = reader.fds
    BY <1>1 DEF ReaderType
  <2> HIDE DEF o
  <2>4. CASE reader.map = "linked"
    <3>1. ReaderWhole(o)
      BY <2>2, <2>3, <2>4 DEF Whole, ReaderWhole, MemoryWhole
    <3>2. reader' = o
      BY <2>1, <2>4
    <3>3. ReaderWhole(reader)'
      BY <3>1, <3>2 DEF ReaderWhole
    <3>4. MemoryWhole'
      BY <2>1, <2>3, <3>2 DEF MemoryWhole, NoMemory
    <3> QED
      BY <3>3, <3>4 DEF Whole
  <2>5. CASE reader.map # "linked"
    <3>1. ReaderWhole(reader)' /\ MemoryWhole'
      BY <2>1, <2>5 DEF Whole, ReaderWhole, MemoryWhole, NoMemory
    <3> QED
      BY <3>1 DEF Whole
  <2> QED
    BY <2>4, <2>5
<1> QED
  BY <1>2, <1>4, <1>5, <1>6, <1>7 DEF Daemon, Activate, Crash, Handle, Answer

LEMMA WholeStep == IInv /\ Whole /\ [Next]_vars => Whole'
<1> SUFFICES ASSUME IInv, Whole, [Next]_vars PROVE Whole'
  OBVIOUS
<1>1. CASE Daemon
  BY <1>1, DaemonWholeSteps
<1>2. CASE Reader
  BY <1>2, ReaderWholeSteps
<1>3. CASE Client
  BY <1>3, KeepsWhole
     DEF Client, Thread, Start, Stop, Connect, Send, Receive, ReadTimeout, ReadError, ClientBecomes
<1>4. CASE UNCHANGED vars
  BY <1>4, KeepsWhole DEF vars
<1> QED
  BY <1>1, <1>2, <1>3, <1>4 DEF Next

LEMMA WholeInit == Init => Whole
  BY NewReaderWhole DEF Init, NewReader, NoMemory, Whole, MemoryWhole

LEMMA WholeReads == IInv /\ Whole => ReadsWhatIsLinked
<1> SUFFICES ASSUME IInv, Whole, reader.at = "idle", reader.max, reader.map # "none", Mapped.max
             PROVE  reader.map = "linked" /\ shm.linked /\ 0 \in reader.fds
  BY DEF ReadsWhatIsLinked
<1>1. reader.map \in {"none", "linked", "old"}
  BY NowFits, ReaderFacts DEF ReaderType
<1>2. reader.map # "old"
  BY DEF Whole, ReaderWhole, Mapped
<1> QED
  BY <1>1, <1>2 DEF Whole, ReaderWhole, MemoryWhole

(* A reader never takes the memory of a daemon that has closed for that of *)
(* one that runs, nor reads a clock that a failed init has not opened,     *)
(* whenever the daemon closes, crashes and starts again and whatever fails *)
(* in between (gptpmasterclock_init, _close and _health_check).            *)
THEOREM ReaderIsLinked == Spec => []ReadsWhatIsLinked
<1>1. Init => IInv /\ Whole
  BY InitLemma, WholeInit
<1>2. (IInv /\ Whole) /\ [Next]_vars => (IInv /\ Whole)'
  BY StepLemma, WholeStep
<1>3. IInv /\ Whole => ReadsWhatIsLinked
  BY WholeReads
<1> QED
  BY <1>1, <1>2, <1>3, PTL DEF Spec

-----------------------------------------------------------------------------
(***************************************************************************)
(* What a client will be told: the last message about a topic counts.      *)
(***************************************************************************)
Silent(messages, topic) == \A i \in DOMAIN messages : messages[i].about # topic

Concludes(messages, topic, is) ==
    \E i \in DOMAIN messages :
        /\ messages[i] = About(topic, is)
        /\ \A j \in DOMAIN messages : j > i => messages[j].about # topic

LEMMA ConcatLemma ==
    ASSUME NEW q \in Seq(Message), NEW m \in Seq(Message), NEW topic, NEW is
    PROVE  /\ Silent(q, topic) /\ Silent(m, topic) => Silent(q \o m, topic)
           /\ Concludes(q, topic, is) /\ Silent(m, topic) => Concludes(q \o m, topic, is)
           /\ Concludes(m, topic, is) => Concludes(q \o m, topic, is)
<1> DEFINE s == q \o m
<1>1. /\ Len(q) \in Nat /\ Len(m) \in Nat /\ Len(s) = Len(q) + Len(m)
      /\ DOMAIN q = 1 .. Len(q) /\ DOMAIN m = 1 .. Len(m) /\ DOMAIN s = 1 .. Len(s)
  OBVIOUS
<1>2. \A i \in 1 .. Len(q) : s[i] = q[i]
  OBVIOUS
<1>3. \A i \in 1 .. Len(m) : s[Len(q) + i] = m[i]
  OBVIOUS
<1>4. \A i \in 1 .. Len(s) : i \in 1 .. Len(q) \/ (i - Len(q) \in 1 .. Len(m) /\ s[i] = m[i - Len(q)])
  BY <1>1, <1>3
<1> HIDE DEF s
<1>5. ASSUME Silent(q, topic), Silent(m, topic) PROVE Silent(s, topic)
  BY <1>1, <1>2, <1>4, <1>5 DEF Silent
<1>6. ASSUME Concludes(q, topic, is), Silent(m, topic) PROVE Concludes(s, topic, is)
  <2>1. PICK i \in 1 .. Len(q) : /\ q[i] = About(topic, is)
                                 /\ \A j \in 1 .. Len(q) : j > i => q[j].about # topic
    BY <1>1, <1>6 DEF Concludes
  <2>2. i \in 1 .. Len(s) /\ s[i] = About(topic, is)
    BY <1>1, <1>2, <2>1
  <2>3. \A j \in 1 .. Len(s) : j > i => s[j].about # topic
    BY <1>1, <1>2, <1>4, <1>6, <2>1 DEF Silent
  <2> QED
    BY <1>1, <2>2, <2>3 DEF Concludes
<1>7. ASSUME Concludes(m, topic, is) PROVE Concludes(s, topic, is)
  <2>1. PICK i \in 1 .. Len(m) : /\ m[i] = About(topic, is)
                                 /\ \A j \in 1 .. Len(m) : j > i => m[j].about # topic
    BY <1>1, <1>7 DEF Concludes
  <2> DEFINE k == Len(q) + i
  <2>2. k \in 1 .. Len(s) /\ s[k] = About(topic, is)
    BY <1>1, <1>3, <2>1
  <2>3. ASSUME NEW j \in 1 .. Len(s), j > k PROVE s[j].about # topic
    <3>1. j \notin 1 .. Len(q)
      BY <1>1, <2>1, <2>3
    <3>2. j - Len(q) \in 1 .. Len(m) /\ s[j] = m[j - Len(q)]
      BY <1>4, <3>1
    <3>3. j - Len(q) > i
      BY <1>1, <2>1, <2>3
    <3> QED
      BY <2>1, <3>2, <3>3
  <2> QED
    BY <1>1, <2>2, <2>3 DEF Concludes
<1> QED
  BY <1>5, <1>6, <1>7 DEF s

LEMMA ToldLemma ==
    ASSUME NEW c, NEW topic, NEW is
    PROVE  WillBeTold(c, topic, is) <=>
               (c.view[topic] = is /\ Silent(c.queue, topic)) \/ Concludes(c.queue, topic, is)
BY DEF WillBeTold, Silent, Concludes

(* What is delivered counts, and what was said before of other topics.     *)
LEMMA DeliveredLemma ==
    ASSUME IInv, NEW messages \in Seq(Message), NEW missed \in BOOLEAN,
           Deliver(messages, missed), ~client'.missed
    PROVE  /\ ~missed
           /\ \A topic \in Topics, is \in Words :
                  \/ Concludes(messages, topic, is)
                  \/ Silent(messages, topic) /\ WillBeTold(client, topic, is)
                  => WillBeTold(client', topic, is)
<1>1. client \in ClientType /\ client.queue \in Seq(Message) /\ Len(client.queue) <= QueueSize
  BY NowFits DEF ClientOK, ClientType
<1>2. CASE client.socket = "none"
  <2> DEFINE b == missed \/ messages # <<>>
             c == [client EXCEPT !.missed = b]
  <2>1. client' = c
    BY <1>2 DEF Deliver
  <2> HIDE DEF b
  <2>2. c.missed = b /\ c.queue = client.queue /\ c.view = client.view
    BY <1>1 DEF ClientType
  <2> HIDE DEF c
  <2>3. ~missed /\ messages = <<>>
    BY <2>1, <2>2 DEF b
  <2>4. \A topic, is : ~Concludes(messages, topic, is)
    BY <2>3 DEF Concludes
  <2>5. \A topic, is : WillBeTold(client', topic, is) <=> WillBeTold(client, topic, is)
    BY <2>1, <2>2, ToldLemma
  <2> QED
    BY <2>3, <2>4, <2>5
<1>3. CASE client.socket # "none"
  <2> DEFINE q == client.queue \o messages
             n == IF Len(q) < QueueSize THEN Len(q) ELSE QueueSize
             k == SubSeq(q, 1, n)
             b == missed \/ Len(q) > QueueSize
             c == [client EXCEPT !.missed = b, !.queue = k]
  <2>1. client' = c
    BY <1>3 DEF Deliver
  <2>2. q \in Seq(Message) /\ Len(q) \in Nat
    BY <1>1
  <2> HIDE DEF q
  <2>3. c.missed = b /\ c.queue = k /\ c.view = client.view
    BY <1>1 DEF ClientType
  <2> HIDE DEF c
  <2>4. ~missed /\ Len(q) <= QueueSize
    <3>1. ~b
      <4> HIDE DEF b
      <4> QED
        BY <2>1, <2>3
    <3>2. ~missed /\ ~(Len(q) > QueueSize)
      BY <3>1, Zenon DEF b
    <3>3. Len(q) <= QueueSize
      BY <2>2, <3>2, ClientsAssumption
    <3> QED
      BY <3>2, <3>3
  <2>5. k = q
    <3>1. n = Len(q)
      BY <2>2, <2>4, ClientsAssumption
    <3> QED
      BY <2>2, <3>1
  <2>6. ASSUME NEW topic \in Topics, NEW is \in Words,
               \/ Concludes(messages, topic, is)
               \/ Silent(messages, topic) /\ WillBeTold(client, topic, is)
        PROVE  WillBeTold(client', topic, is)
    <3>1. CASE Concludes(messages, topic, is)
      <4>1. Concludes(q, topic, is)
        BY <1>1, <3>1, ConcatLemma DEF q
      <4> QED
        BY <2>1, <2>3, <2>5, <4>1, ToldLemma
    <3>2. CASE Silent(messages, topic) /\ WillBeTold(client, topic, is)
      <4>1. \/ client.view[topic] = is /\ Silent(client.queue, topic)
            \/ Concludes(client.queue, topic, is)
        BY <3>2, ToldLemma
      <4>2. \/ client.view[topic] = is /\ Silent(q, topic)
            \/ Concludes(q, topic, is)
        BY <1>1, <3>2, <4>1, ConcatLemma DEF q
      <4> QED
        BY <2>1, <2>3, <2>5, <4>2, ToldLemma
    <3> QED
      BY <2>6, <3>1, <3>2
  <2> QED
    BY <2>4, <2>6
<1> QED
  BY <1>2, <1>3

(* gptpclock_set_gmsync and _reset_gmsync, set_asCapable: what a handler   *)
(* has told so far of the changes it has made                              *)
Tells(s) ==
    /\ s \in DaemonType
    /\ s.flags = {} => s.gmsync = daemon.gmsync
    /\ s.flags # {} => Word(s.gmsync) \in s.flags
    /\ s.portFlags = {} => s.capable = daemon.capable
    /\ s.portFlags # {} => s.portFlags = {Word(s.capable)}

LEMMA SettersTell ==
    ASSUME NEW s, Tells(s), NEW b \in BOOLEAN
    PROVE  Tells(SetGmSync(s, b)) /\ Tells(SetAsCapable(s, b))
<1> DEFINE w == Word(b)
           x == [s EXCEPT !.gmsync = b, !.flags = s.flags \cup {w}]
           y == [s EXCEPT !.capable = b, !.portFlags = {w}]
<1>1. s \in DaemonType /\ SetGmSync(s, b) \in DaemonType /\ SetAsCapable(s, b) \in DaemonType
  BY SettersLemma DEF Tells
<1>2. /\ SetGmSync(s, b) = IF s.gmsync = b THEN s ELSE x
      /\ SetAsCapable(s, b) = IF s.capable = b THEN s ELSE y
  BY DEF SetGmSync, SetAsCapable
<1> HIDE DEF w
<1>3. /\ x.gmsync = b /\ x.flags = s.flags \cup {w}
      /\ x.capable = s.capable /\ x.portFlags = s.portFlags
  BY <1>1 DEF DaemonType
<1>4. /\ y.capable = b /\ y.portFlags = {w} /\ y.gmsync = s.gmsync /\ y.flags = s.flags
  BY <1>1 DEF DaemonType
<1> HIDE DEF x, y
<1>5. Tells(SetGmSync(s, b))
  <2>1. CASE s.gmsync = b
    BY <1>2, <2>1
  <2>2. CASE s.gmsync # b
    <3>1. SetGmSync(s, b) = x
      BY <1>2, <2>2
    <3>2. x.flags # {} /\ Word(x.gmsync) \in x.flags
      BY <1>3 DEF w
    <3> QED
      BY <1>1, <1>3, <3>1, <3>2 DEF Tells
  <2> QED
    BY <2>1, <2>2
<1>6. Tells(SetAsCapable(s, b))
  <2>1. CASE s.capable = b
    BY <1>2, <2>1
  <2>2. CASE s.capable # b
    <3>1. SetAsCapable(s, b) = y
      BY <1>2, <2>2
    <3>2. y.portFlags # {} /\ y.portFlags = {Word(y.capable)}
      BY <1>4 DEF w
    <3> QED
      BY <1>1, <1>4, <3>1, <3>2 DEF Tells
  <2> QED
    BY <2>1, <2>2
<1> QED
  BY <1>5, <1>6

(* ipc_clock_master_clock_notice: what the notice of some flags says       *)
LEMMA NoticeTells ==
    ASSUME NEW topic \in Topics, NEW flags \in SUBSET {"yes", "no"}
    PROVE  /\ flags = {} => Notice(topic, flags) = <<>>
           /\ \A w \in flags : \/ Notice(topic, flags) = <<About(topic, w)>> /\ flags = {w}
                               \/ Notice(topic, flags) = <<About(topic, "both")>> /\ flags # {w}
<1>1. ASSUME NEW w \in flags
      PROVE  \/ Notice(topic, flags) = <<About(topic, w)>> /\ flags = {w}
             \/ Notice(topic, flags) = <<About(topic, "both")>> /\ flags # {w}
  <2> DEFINE f == CHOOSE f \in flags : TRUE
             is == IF Cardinality(flags) = 1 THEN f ELSE "both"
  <2>1. f \in flags
    BY <1>1
  <2>2. Notice(topic, flags) = <<About(topic, is)>>
    BY <1>1 DEF Notice
  <2>3. flags = {"yes"} \/ flags = {"no"} \/ flags = {"yes", "no"}
    BY <1>1
  <2>4. IsFiniteSet(flags)
    <3>1. IsFiniteSet({"yes"}) /\ IsFiniteSet({"no"})
      BY FS_Singleton
    <3>2. IsFiniteSet({"yes"} \cup {"no"})
      BY <3>1, FS_AddElement
    <3>3. {"yes", "no"} = {"yes"} \cup {"no"}
      OBVIOUS
    <3> QED
      BY <2>3, <3>1, <3>2, <3>3
  <2>5. Cardinality(flags) = 1 <=> \E x : flags = {x}
    BY <2>4, FS_Singleton
  <2>6. CASE flags = {w}
    BY <2>1, <2>2, <2>5, <2>6
  <2>7. CASE flags # {w}
    <3>1. ~\E x : flags = {x}
      BY <1>1, <2>7
    <3> QED
      BY <2>2, <2>5, <2>7, <3>1
  <2> QED
    BY <2>6, <2>7
<1> QED
  BY <1>1 DEF Notice

LEMMA OneMessage ==
    ASSUME NEW a \in Message, NEW topic, NEW is
    PROVE  /\ <<a>> \in Seq(Message)
           /\ Silent(<<>>, topic)
           /\ a.about # topic => Silent(<<a>>, topic)
           /\ a = About(topic, is) => Concludes(<<a>>, topic, is)
<1>1. <<a>> \in Seq(Message) /\ DOMAIN <<a>> = {1} /\ <<a>>[1] = a
  OBVIOUS
<1> QED
  BY <1>1 DEF Silent, Concludes

LEMMA AboutLemma ==
    ASSUME NEW topic \in Topics, NEW w \in {"yes", "no", "both"}
    PROVE  About(topic, w) \in Message /\ About(topic, w).about = topic
  BY DEF About, Message, Words

(* The notices of a handler, one after the other                           *)
LEMMA NoticesLemma ==
    ASSUME NEW s, Tells(s)
    PROVE  LET m == Notice("gmsync", s.flags) \o Notice("asCapable", s.portFlags)
           IN  /\ m \in Seq(Message)
               /\ \/ Silent(m, "asCapable") /\ s.capable = daemon.capable
                  \/ Concludes(m, "asCapable", Word(s.capable))
               /\ \/ Silent(m, "gmsync") /\ s.gmsync = daemon.gmsync
                  \/ Concludes(m, "gmsync", Word(s.gmsync))
                  \/ Concludes(m, "gmsync", "both")
<1> DEFINE g == Notice("gmsync", s.flags)
           a == Notice("asCapable", s.portFlags)
           m == g \o a
<1>1. /\ s.flags \in SUBSET {"yes", "no"} /\ s.portFlags \in SUBSET {"yes", "no"}
      /\ "gmsync" \in Topics /\ "asCapable" \in Topics
  BY DEF Tells, DaemonType, Topics
<1>2. g \in Seq(Message) /\ a \in Seq(Message)
  BY <1>1, NoticeLemma
<1>3. \/ g = <<>> /\ s.gmsync = daemon.gmsync
      \/ g = <<About("gmsync", Word(s.gmsync))>>
      \/ g = <<About("gmsync", "both")>>
  <2>1. CASE s.flags = {}
    BY <1>1, <2>1, NoticeTells DEF Tells
  <2>2. CASE s.flags # {}
    <3>1. Word(s.gmsync) \in s.flags
      BY <2>2 DEF Tells
    <3> QED
      BY <1>1, <3>1, NoticeTells
  <2> QED
    BY <2>1, <2>2
<1>4. \/ a = <<>> /\ s.capable = daemon.capable
      \/ a = <<About("asCapable", Word(s.capable))>>
  <2>1. CASE s.portFlags = {}
    BY <1>1, <2>1, NoticeTells DEF Tells
  <2>2. CASE s.portFlags # {}
    <3>1. s.portFlags = {Word(s.capable)}
      BY <2>2 DEF Tells
    <3> QED
      BY <1>1, <3>1, NoticeTells
  <2> QED
    BY <2>1, <2>2
<1> HIDE DEF g, a
<1>5. \A b \in BOOLEAN : Word(b) \in {"yes", "no", "both"}
  BY DEF Word
<1>6. s.gmsync \in BOOLEAN /\ s.capable \in BOOLEAN
  BY DEF Tells, DaemonType
<1>7. /\ \A topic : Silent(<<>>, topic)
      /\ \A w \in {"yes", "no", "both"} :
             /\ Silent(<<About("gmsync", w)>>, "asCapable") /\ Silent(<<About("asCapable", w)>>, "gmsync")
             /\ Concludes(<<About("gmsync", w)>>, "gmsync", w)
             /\ Concludes(<<About("asCapable", w)>>, "asCapable", w)
  <2>1. "gmsync" # "asCapable" /\ "yes" \in {"yes", "no", "both"}
    OBVIOUS
  <2>2. ASSUME NEW w \in {"yes", "no", "both"}
        PROVE  /\ Silent(<<About("gmsync", w)>>, "asCapable") /\ Silent(<<About("asCapable", w)>>, "gmsync")
               /\ Concludes(<<About("gmsync", w)>>, "gmsync", w)
               /\ Concludes(<<About("asCapable", w)>>, "asCapable", w)
    BY <1>1, <2>1, AboutLemma, OneMessage
  <2>3. ASSUME NEW topic PROVE Silent(<<>>, topic)
    BY DEF Silent
  <2> QED
    BY <2>2, <2>3
<1>8. /\ Silent(g, "asCapable")
      /\ \/ Silent(g, "gmsync") /\ s.gmsync = daemon.gmsync
         \/ Concludes(g, "gmsync", Word(s.gmsync))
         \/ Concludes(g, "gmsync", "both")
  BY <1>3, <1>5, <1>6, <1>7
<1>9. /\ Silent(a, "gmsync")
      /\ \/ Silent(a, "asCapable") /\ s.capable = daemon.capable
         \/ Concludes(a, "asCapable", Word(s.capable))
  BY <1>4, <1>5, <1>6, <1>7
<1>10. \/ Silent(m, "asCapable") /\ s.capable = daemon.capable
       \/ Concludes(m, "asCapable", Word(s.capable))
  BY <1>2, <1>8, <1>9, ConcatLemma
<1>11. \/ Silent(m, "gmsync") /\ s.gmsync = daemon.gmsync
       \/ Concludes(m, "gmsync", Word(s.gmsync))
       \/ Concludes(m, "gmsync", "both")
  BY <1>2, <1>8, <1>9, ConcatLemma
<1>12. m \in Seq(Message)
  BY <1>2
<1> QED
  BY <1>10, <1>11, <1>12 DEF g, a

(* A message at a time leaves the queue for the callback.                  *)
LEMMA TailLemma ==
    ASSUME NEW q \in Seq(Message), q # <<>>, NEW view, NEW topic \in Topics, NEW is,
           NEW seen, seen[topic] = IF Head(q).about = topic THEN Head(q).is ELSE view[topic],
           (view[topic] = is /\ Silent(q, topic)) \/ Concludes(q, topic, is)
    PROVE  (seen[topic] = is /\ Silent(Tail(q), topic)) \/ Concludes(Tail(q), topic, is)
<1> DEFINE t == Tail(q)
<1>1. /\ Len(q) \in Nat /\ Len(q) >= 1 /\ Len(t) = Len(q) - 1 /\ Head(q) = q[1]
      /\ DOMAIN q = 1 .. Len(q) /\ DOMAIN t = 1 .. Len(t)
  OBVIOUS
<1>2. \A i \in 1 .. Len(t) : i + 1 \in 1 .. Len(q) /\ t[i] = q[i + 1]
  OBVIOUS
<1> HIDE DEF t
<1>3. CASE view[topic] = is /\ Silent(q, topic)
  <2>1. q[1].about # topic
    BY <1>1, <1>3 DEF Silent
  <2>2. Silent(t, topic)
    BY <1>1, <1>2, <1>3 DEF Silent
  <2> QED
    BY <1>1, <1>3, <2>1, <2>2 DEF t
<1>4. CASE Concludes(q, topic, is)
  <2>1. PICK i \in 1 .. Len(q) : /\ q[i] = About(topic, is)
                                 /\ \A j \in 1 .. Len(q) : j > i => q[j].about # topic
    BY <1>1, <1>4 DEF Concludes
  <2>2. CASE i = 1
    <3>1. seen[topic] = is
      BY <1>1, <2>1, <2>2 DEF About
    <3>2. Silent(t, topic)
      BY <1>1, <1>2, <2>1, <2>2 DEF Silent
    <3> QED
      BY <3>1, <3>2 DEF t
  <2>3. CASE i # 1
    <3>1. i - 1 \in 1 .. Len(t) /\ t[i - 1] = About(topic, is)
      BY <1>1, <1>2, <2>1, <2>3
    <3>2. \A j \in 1 .. Len(t) : j > i - 1 => t[j].about # topic
      BY <1>1, <1>2, <2>1, <2>3
    <3>3. Concludes(t, topic, is)
      BY <1>1, <3>1, <3>2 DEF Concludes
    <3> QED
      BY <3>3 DEF t
  <2> QED
    BY <2>2, <2>3
<1> QED
  BY <1>3, <1>4

LEMMA HandleTells ==
    ASSUME IInv, MissesNothing, Handle
    PROVE  MissesNothing'
<1>1. PICK sync1, sync2, capable1, capable2 \in BOOLEAN :
          Notify(SetAsCapable(SetAsCapable(SetGmSync(SetGmSync(daemon, sync1), sync2),
                                           capable1), capable2))
  BY DEF Handle
<1> DEFINE s1 == SetGmSync(daemon, sync1)
           s2 == SetGmSync(s1, sync2)
           s3 == SetAsCapable(s2, capable1)
           s == SetAsCapable(s3, capable2)
           d == [s EXCEPT !.flags = {}, !.portFlags = {}]
           notices == Notice("gmsync", s.flags) \o Notice("asCapable", s.portFlags)
           messages == IF s.knows THEN notices ELSE <<>>
<1>2. daemon' = d /\ Deliver(messages, client.missed) /\ client.missed \in BOOLEAN
  BY <1>1, NowFits DEF Notify, ClientOK, ClientType
<1>3. Tells(s) /\ s.knows = daemon.knows
  <2>1. Tells(daemon) /\ daemon \in DaemonType
    BY NowFits DEF Tells, DaemonFits
  <2>2. Tells(s1) /\ s1.knows = daemon.knows
    BY <2>1, SettersTell, SettersLemma
  <2> HIDE DEF s1
  <2>3. Tells(s2) /\ s2.knows = s1.knows
    BY <2>2, SettersTell, SettersLemma DEF Tells
  <2> HIDE DEF s2
  <2>4. Tells(s3) /\ s3.knows = s2.knows
    BY <2>3, SettersTell, SettersLemma DEF Tells
  <2> HIDE DEF s3
  <2>5. Tells(s) /\ s.knows = s3.knows
    BY <2>4, SettersTell, SettersLemma DEF Tells
  <2> QED
    BY <2>2, <2>3, <2>4, <2>5
<1> HIDE DEF s
<1>4. d.knows = s.knows /\ d.gmsync = s.gmsync /\ d.capable = s.capable
  BY <1>3 DEF Tells, DaemonType
<1> HIDE DEF d
<1>5. /\ notices \in Seq(Message)
      /\ \/ Silent(notices, "asCapable") /\ s.capable = daemon.capable
         \/ Concludes(notices, "asCapable", Word(s.capable))
      /\ \/ Silent(notices, "gmsync") /\ s.gmsync = daemon.gmsync
         \/ Concludes(notices, "gmsync", Word(s.gmsync))
         \/ Concludes(notices, "gmsync", "both")
  BY <1>3, NoticesLemma
<1> HIDE DEF notices
<1> SUFFICES ASSUME daemon'.knows, ~client'.missed
             PROVE  /\ WillBeTold(client', "asCapable", Word(s.capable))
                    /\ \/ WillBeTold(client', "gmsync", Word(s.gmsync))
                       \/ WillBeTold(client', "gmsync", "both")
  BY <1>2, <1>4 DEF MissesNothing, WillBeTold
<1>6. s.knows /\ daemon.knows /\ messages = notices
  BY <1>2, <1>3, <1>4
<1> HIDE DEF messages
<1>7. /\ ~client.missed
      /\ \A topic \in Topics, is \in Words :
             \/ Concludes(messages, topic, is)
             \/ Silent(messages, topic) /\ WillBeTold(client, topic, is)
             => WillBeTold(client', topic, is)
  BY <1>2, <1>5, <1>6, DeliveredLemma
<1>8. /\ WillBeTold(client, "asCapable", Word(daemon.capable))
      /\ WillBeTold(client, "gmsync", Word(daemon.gmsync)) \/ WillBeTold(client, "gmsync", "both")
  BY <1>6, <1>7 DEF MissesNothing
<1>9. /\ Word(s.capable) \in Words /\ Word(s.gmsync) \in Words /\ "both" \in Words
      /\ "gmsync" \in Topics /\ "asCapable" \in Topics
  BY DEF Word, Words, Topics
<1>10. WillBeTold(client', "asCapable", Word(s.capable))
  BY <1>5, <1>6, <1>7, <1>8, <1>9
<1>11. WillBeTold(client', "gmsync", Word(s.gmsync)) \/ WillBeTold(client', "gmsync", "both")
  BY <1>5, <1>6, <1>7, <1>8, <1>9
<1> QED
  BY <1>10, <1>11

LEMMA AnswerTells ==
    ASSUME IInv, Answer
    PROVE  MissesNothing'
<1> DEFINE d == [daemon EXCEPT !.asked = FALSE, !.knows = TRUE]
           x == Word(daemon.capable)
           y == Word(daemon.gmsync)
           a == About("asCapable", x)
           g == About("gmsync", y)
           m == <<a, g>>
<1>1. daemon' = d /\ Deliver(m, FALSE)
  BY DEF Answer
<1>2. d.gmsync = daemon.gmsync /\ d.capable = daemon.capable
  BY NowFits DEF DaemonType
<1> HIDE DEF d
<1>3. x \in {"yes", "no"} /\ y \in {"yes", "no"}
  BY DEF Word
<1> HIDE DEF x, y
<1>4. /\ a \in Message /\ g \in Message /\ a.about = "asCapable" /\ g.about = "gmsync"
  BY <1>3, AboutLemma DEF Topics
<1>5. Concludes(m, "asCapable", x) /\ Concludes(m, "gmsync", y) /\ m \in Seq(Message)
  <2>1. m \in Seq(Message) /\ DOMAIN m = 1 .. 2 /\ m[1] = a /\ m[2] = g
    BY <1>4
  <2>2. /\ 1 \in 1 .. 2 /\ 2 \in 1 .. 2 /\ \A j \in 1 .. 2 : (j > 1 => j = 2) /\ ~(j > 2)
    OBVIOUS
  <2> HIDE DEF m
  <2>3. Concludes(m, "gmsync", y)
    BY <2>1, <2>2 DEF Concludes, g
  <2>4. \A j \in DOMAIN m : j > 1 => m[j].about # "asCapable"
    BY <1>4, <2>1, <2>2
  <2>5. Concludes(m, "asCapable", x)
    BY <2>1, <2>2, <2>4 DEF Concludes, a
  <2> QED
    BY <2>1, <2>3, <2>5
<1> HIDE DEF m, a, g
<1> SUFFICES ASSUME ~client'.missed
             PROVE  WillBeTold(client', "asCapable", x) /\ WillBeTold(client', "gmsync", y)
  BY <1>1, <1>2 DEF MissesNothing, WillBeTold, x, y
<1>6. "asCapable" \in Topics /\ "gmsync" \in Topics /\ x \in Words /\ y \in Words
  BY <1>3 DEF Topics, Words
<1> QED
  BY <1>1, <1>5, <1>6, DeliveredLemma

(* What leaves the queue, the view and the state of the daemon alone       *)
LEMMA KeepsTold ==
    ASSUME MissesNothing, daemon'.knows => daemon.knows,
           daemon'.knows => daemon'.gmsync = daemon.gmsync /\ daemon'.capable = daemon.capable,
           \/ client'.missed
           \/ ~client.missed /\ client'.queue = client.queue /\ client'.view = client.view
    PROVE  MissesNothing'
<1> SUFFICES ASSUME daemon'.knows, ~client'.missed
             PROVE  /\ WillBeTold(client', "asCapable", Word(daemon.capable))
                    /\ \/ WillBeTold(client', "gmsync", Word(daemon.gmsync))
                       \/ WillBeTold(client', "gmsync", "both")
  BY DEF MissesNothing, WillBeTold
<1> QED
  BY DEF MissesNothing, WillBeTold

LEMMA LoopTold ==
    ASSUME NEW c \in ClientType
    PROVE  Loop(c).queue = c.queue /\ Loop(c).view = c.view /\ Loop(c).missed = c.missed
BY DEF Loop, ClientType

LEMMA ReopenTold ==
    ASSUME NEW c \in ClientType
    PROVE  \/ Reopen(c).missed
           \/ ~c.missed /\ Reopen(c).queue = c.queue /\ Reopen(c).view = c.view
<1> DEFINE b == c.missed \/ c.queue # <<>>
           o == [c EXCEPT !.socket = "none", !.queue = <<>>, !.missed = b]
<1>1. Reopen(c) = Loop(o)
  BY DEF Reopen
<1> HIDE DEF b
<1>2. o.queue = <<>> /\ o.view = c.view /\ o.missed = b
  BY DEF ClientType
<1>3. o \in ClientType
  <2>1. <<>> \in Seq(Message) /\ b \in BOOLEAN
    BY DEF b
  <2> QED
    BY <2>1 DEF ClientType
<1> HIDE DEF o
<1>4. Loop(o).queue = <<>> /\ Loop(o).view = c.view /\ Loop(o).missed = b
  BY <1>2, <1>3, LoopTold
<1>5. CASE b
  BY <1>1, <1>4, <1>5
<1>6. CASE ~b
  <2>1. ~c.missed /\ c.queue = <<>>
    BY <1>6 DEF b
  <2> QED
    BY <1>1, <1>4, <2>1
<1> QED
  BY <1>5, <1>6

LEMMA ReceiveTells ==
    ASSUME IInv, MissesNothing, Receive
    PROVE  MissesNothing'
<1> DEFINE q == client.queue
           m == Head(q)
           v == [client.view EXCEPT ![m.about] = m.is]
           c == [client EXCEPT !.queue = Tail(q), !.got = TRUE, !.count = 0, !.view = v]
<1>1. client \in ClientType /\ q \in Seq(Message) /\ q # <<>> /\ client.view \in [Topics -> Words]
  BY NowFits DEF ClientOK, ClientType, Receive
<1>2. m \in Message
  BY <1>1
<1>3. client' = c /\ daemon' = daemon
  BY DEF Receive, ClientBecomes
<1> HIDE DEF q, m
<1>4. \A topic \in Topics : v[topic] = IF m.about = topic THEN m.is ELSE client.view[topic]
  BY <1>1, <1>2 DEF Message
<1> HIDE DEF v
<1>5. c.queue = Tail(q) /\ c.view = v /\ c.missed = client.missed
  BY <1>1 DEF ClientType
<1> HIDE DEF c
<1>6. ASSUME NEW topic \in Topics, NEW is, WillBeTold(client, topic, is)
      PROVE  WillBeTold(client', topic, is)
  <2>1. (client.view[topic] = is /\ Silent(q, topic)) \/ Concludes(q, topic, is)
    BY <1>6, ToldLemma DEF q
  <2>2. (v[topic] = is /\ Silent(Tail(q), topic)) \/ Concludes(Tail(q), topic, is)
    BY <1>1, <1>4, <2>1, TailLemma DEF m
  <2> QED
    BY <1>3, <1>5, <2>2, ToldLemma
<1> SUFFICES ASSUME daemon.knows, ~client.missed
             PROVE  /\ WillBeTold(client', "asCapable", Word(daemon.capable))
                    /\ \/ WillBeTold(client', "gmsync", Word(daemon.gmsync))
                       \/ WillBeTold(client', "gmsync", "both")
  BY <1>3, <1>5 DEF MissesNothing, WillBeTold
<1> QED
  BY <1>6 DEF MissesNothing, Topics

LEMMA ClientTells ==
    ASSUME IInv, MissesNothing, Client
    PROVE  MissesNothing'
<1>1. client \in ClientType /\ daemon \in DaemonType
  BY NowFits DEF ClientOK
<1>2. CASE Start \/ Stop
  <2>1. client'.missed
    <3>1. NewClient.missed /\ [NewClient EXCEPT !.running = TRUE].missed
      BY DEF NewClient
    <3> QED
      BY <1>2, <3>1 DEF Start, Stop, ClientBecomes
  <2> QED
    BY <2>1 DEF MissesNothing
<1>3. CASE Connect
  <2> DEFINE x == IF Serves THEN "open" ELSE "cut"
             c == [client EXCEPT !.socket = x]
  <2>1. client' = c /\ daemon' = daemon
    BY <1>3 DEF Connect, ClientBecomes
  <2> HIDE DEF x
  <2>2. c.queue = client.queue /\ c.view = client.view /\ c.missed = client.missed
    BY <1>1 DEF ClientType
  <2> HIDE DEF c
  <2> QED
    BY <2>1, <2>2, KeepsTold
<1>4. CASE Send
  <2> DEFINE c == [client EXCEPT !.turn = "read"]
             d == [daemon EXCEPT !.asked = Serves]
  <2>1. \/ client' = c /\ daemon' = d
        \/ client' = Reopen(client) /\ daemon' = daemon
    BY <1>4 DEF Send, ClientBecomes
  <2>2. c.queue = client.queue /\ c.view = client.view /\ c.missed = client.missed
    BY <1>1 DEF ClientType
  <2>3. d.knows = daemon.knows /\ d.gmsync = daemon.gmsync /\ d.capable = daemon.capable
    BY <1>1 DEF DaemonType
  <2> HIDE DEF c, d
  <2>4. CASE client' = c /\ daemon' = d
    BY <2>2, <2>3, <2>4, KeepsTold
  <2>5. CASE client' = Reopen(client) /\ daemon' = daemon
    BY <1>1, <2>5, ReopenTold, KeepsTold
  <2> QED
    BY <2>1, <2>4, <2>5
<1>5. CASE Receive
  BY <1>5, ReceiveTells
<1>6. CASE ReadTimeout
  <2> DEFINE n == IF Timeouts > 0 /\ client.count <= Timeouts THEN client.count + 1 ELSE client.count
             got == client.got /\ n <= Timeouts
             c == [client EXCEPT !.count = n, !.got = got]
  <2>1. client' = Loop(c) /\ daemon' = daemon
    BY <1>6 DEF ReadTimeout, ClientBecomes
  <2>2. n \in 0 .. Timeouts + 1
    <3>1. client.count \in 0 .. Timeouts + 1
      BY <1>1 DEF ClientType
    <3> QED
      BY <3>1, ClientsAssumption
  <2>3. got \in BOOLEAN
    OBVIOUS
  <2> HIDE DEF n, got
  <2>4. c \in ClientType
    BY <1>1, <2>2, <2>3 DEF ClientType
  <2>5. c.queue = client.queue /\ c.view = client.view /\ c.missed = client.missed
    BY <1>1 DEF ClientType
  <2> HIDE DEF c
  <2> QED
    BY <2>1, <2>4, <2>5, LoopTold, KeepsTold
<1>7. CASE ReadError
  BY <1>1, <1>7, ReopenTold, KeepsTold DEF ReadError, ClientBecomes
<1> QED
  BY <1>2, <1>3, <1>4, <1>5, <1>6, <1>7 DEF Client, Thread

LEMMA DaemonTells ==
    ASSUME IInv, MissesNothing, Daemon
    PROVE  MissesNothing'
<1>1. daemon \in DaemonType
  BY NowFits
<1>2. ASSUME NEW p, daemon' = [daemon EXCEPT !.phase = p] \/ daemon' = daemon, client' = client
      PROVE  MissesNothing'
  <2>1. daemon'.knows = daemon.knows /\ daemon'.gmsync = daemon.gmsync /\ daemon'.capable = daemon.capable
    BY <1>1, <1>2 DEF DaemonType
  <2> QED
    BY <1>2, <2>1, KeepsTold
<1>3. CASE ClearMemory \/ SetMaxDomains \/ Activate
  BY <1>2, <1>3 DEF ClearMemory, SetMaxDomains, Activate, Enter
<1>4. ASSUME NEW d \in Domains, AddClock(d) PROVE MissesNothing'
  BY <1>2, <1>4 DEF AddClock
<1>5. CASE Close \/ Crash
  <2>1. ~daemon'.knows
    BY <1>5 DEF Close, Crash, Ends, Down
  <2> QED
    BY <2>1 DEF MissesNothing
<1> QED
  BY <1>3, <1>4, <1>5, HandleTells, AnswerTells DEF Daemon

LEMMA TellsStep == IInv /\ MissesNothing /\ [Next]_vars => MissesNothing'
<1> SUFFICES ASSUME IInv, MissesNothing, [Next]_vars PROVE MissesNothing'
  OBVIOUS
<1>1. CASE Daemon
  BY <1>1, DaemonTells
<1>2. CASE Reader
  <2>1. client' = client /\ daemon' = daemon
    BY <1>2 DEF Reader, UserOpens, UserCloses, Map, OpenDevices, Read, Restart, ReaderBecomes
  <2> QED
    BY <2>1, KeepsTold
<1>3. CASE Client
  BY <1>3, ClientTells
<1>4. CASE UNCHANGED vars
  BY <1>4, KeepsTold DEF vars
<1> QED
  BY <1>1, <1>2, <1>3, <1>4 DEF Next

(* A client that the daemon knows and that has missed nothing will have    *)
(* the asCapable and gmsync of the daemon once it has read its socket, or  *)
(* a notice of gmsync with both flags, whatever the size of the socket and *)
(* whether it queries or not: clearing the flags after each handler        *)
(* (ipc_clock_notice) forgets nothing but what found no room.              *)
THEOREM ClientMissesNothing == Spec => []MissesNothing
<1>1. Init => IInv /\ MissesNothing
  BY InitLemma DEF Init, Down, MissesNothing
<1>2. (IInv /\ MissesNothing) /\ [Next]_vars => (IInv /\ MissesNothing)'
  BY StepLemma, TellsStep
<1> QED
  BY <1>1, <1>2, PTL DEF Spec
=============================================================================
