# Verification of the gPTP daemon

TLA+ models of `gptp2d`, the IEEE 802.1AS-2020 (gPTP) daemon of this
repository, and of the two libraries applications use to follow it; the TLC runs
that check them, and TLAPS proofs about them.  `PROJECT.json` ties every
definition to the lines it models.

## 1. The system

The daemon is **one event loop** (`gptpnet_eventloop`, `src/posix/ix_gptpnet.c`).
It calls `gptpnet_cb` (`src/gptpman.c`) with one event at a time: a timeout (at
least every 125 ms), a received message, the transmit timestamp (TxTS) of a
message that was sent, a link that came up or went down.  The handler of an
event calls the state machines of 802.1AS one after the other, and each machine
loops until its state is stable.  Nothing runs in between: **a handler is
atomic**, and the hard behaviour lies in the *order of events* and in the state
that the machines share (`mind.h`).  Applications are other processes and
threads, which share memory and a socket with the daemon.

| component | source | state it keeps | operations | talks to | module |
|---|---|---|---|---|---|
| peer delay initiator | `md_pdelay_req_sm.c` | state, sequence id, t1..t4, last response and follow-up, lost and multiple response counts | timeout, TxTS, response, follow-up | the link; sets `asCapableAcrossDomains` | `PdelayReq` |
| peer delay responder | `md_pdelay_resp_sm.c` | state, the buffered request, t2, t3, last sequence id | timeout, TxTS, request | the link | `PdelayResp` |
| announce reception | `md_announce_receive_sm.c`, `port_announce_receive_sm.c` | the last announce, path trace | announce | the information machine | `BmcsCore` |
| announce information | `port_announce_information_sm.c` | `infoIs`, port priority, timers | every handler of the port | selection (`reselect`) | `BmcsCore` |
| state selection | `port_state_selection_sm.c` | grandmaster priority, port states, `updtInfo`, deferred gmsync | when a port asks, every handler | information machines, `gptpclock`, gm_stable | `BmcsCore`, `GmSync` |
| announce transmission | `port_announce_transmit_sm.c`, `md_announce_send_sm.c` | `newInfo`, the deferred message | every handler of the port | the link | `BmcsCore` |
| grandmaster stability | `gm_stable_sm.c` | state, `gmstable` | timeout, change of grandmaster | `gptpclock` | `BmcsCore`, `GmSync` |
| Sync send and receive | `md_sync_send_sm.c`, `md_sync_receive_sm.c` | Sync and follow-up, TxTS, sequence id | MDSyncSend, TxTS, Sync, follow-up, timeout | the link, the Sync path | `SyncLink` |
| Sync path | `port_sync_sync_*`, `site_sync_sync_sm.c`, `clock_master_sync_send_sm.c` | the last Sync of the site and of each port, timeouts | PortSyncSync, timeout | Sync machines, servo | `SyncPath` |
| clock servo | `clock_slave_sync_sm.c`, `clock_master_sync_receive_sm.c` | phase state, offset, rate, counts | Sync, change of grandmaster | `gptpclock` | `ClockServo` |
| capability TLV | `gptp_capable_*_sm.c` | timers, `neighborGptpCapable` | signaling, timeout | `asCapable` | `Signaling` |
| intervals, signaling | `md_signaling_*`, `*_interval_setting_sm.c`, `one_step_tx_oper_setting_sm.c` | current intervals | signaling | all senders | `Signaling` |
| clocks | `gptpclock.c` | gmsync, gmstable, active domain, offsets; the shared memory | called | all | `GmSync`, `ClockServo`, `Clients` |
| dispatch | `gptpman.c` | domains and ports, `asCapable`, event flags | all events | everything | in all of them |
| applications | `gptpmasterclock.c`, `gptpipc.c` | what they have mapped or opened | their calls, the thread | shared memory, socket | `Clients` |
| network | `posix/ix_gptpnet.c` | a TxTS that is waited for, the IPC server | send, events | outside | `SyncLink`, `Clients` |
| external port configuration | `port_*_ext_sm.c` | like selection | unreachable | | - |
| hardware clocks, tools, tests | `posix/`, monitors | devices | I/O | outside | - |

What makes each of them correct:

* **initiator** - the delay is computed from the four timestamps of *one*
  exchange; a neighbour is capable only while it answers; requests are paced;
  a silent neighbour is noticed.
* **responder** - what a response or a follow-up names (sequence id, requester)
  and the timestamp it carries belong to the same request.
* **best master clock** - every handler leaves the port states consistent with
  the grandmaster, which is the best of what the ports hold; at most one slave
  port; a port announces only when it is capable, and the neighbour of a master
  port is told each new grandmaster; the path trace recognises loops.
* **gmsync, gmstable, active domain** - a system knows whether it is the
  grandmaster; applications are given a stable domain; a deferral ends.
* **Sync** - a follow-up tells the departure of its Sync and is joined with that
  Sync; a Sync of the own clock leaves a system exactly while it is the
  grandmaster; nothing steady is held back.
* **servo** - it locks, and a small error does not drive it off.
* **signaling** - TLVs do not drift or stop; intervals are those asked for.
* **applications** - whatever happens to the daemon and to notices, they end up
  with the clock and the state of the daemon that runs.

Hard behaviour (the list with lines is `hazards` in `PROJECT.json`): late,
repeated, lost and foreign messages that overwrite shared buffers; sends that
fail and are retried by the timeout; TxTS that come late or never; links that go
down in the middle of an exchange; the updates that one port's handler leaves to
another port's; old Syncs sent again in a gap; deferrals that race the
selection; a servo whose samples are disturbed; a daemon that ends and starts
under its applications; notices that are lost.

## 2. The modules

| module | models | uses |
|---|---|---|
| `PdelayReq` | the initiator of one port and its link | |
| `PdelayResp` | the responder of one port | |
| `PriorityVectors` | layout and comparison of priority vectors | |
| `BmcsCore` | the best master clock algorithm of one system, as operators on a record | `PriorityVectors` |
| `Bmcs` | one system among arbitrary neighbours | `BmcsCore` |
| `SyncExchange` | what the two ends of a link promise of Syncs (abstract) | |
| `SyncLink` | both ends of a link, the device and the wire; implements `SyncExchange` | `SyncExchange` |
| `SyncPath` | a Sync through one domain of a system | |
| `ClockServo` | the clock of a domain following its grandmaster | |
| `Signaling` | gPTP-capable TLVs and interval requests of a port | |
| `ActiveDomain` | what applications are promised of the active domain (abstract) | |
| `GmSync` | what two domains know of their synchronization; implements `ActiveDomain` | `ActiveDomain` |
| `Clients` | the daemon's life and its applications | |
| `MCPdelayReq`, `MCPriorityVectors`, `MCBmcs`, `MCSyncPath`, `MCClockServo` | values of the constants for TLC | |
| `PdelayReq_proofs`, `PdelayResp_proofs`, `Bmcs_proofs`, `Clients_proofs`, `SyncLink_proofs`, `SyncPath_proofs`, `Signaling_proofs`, `GmSync_proofs` | the theorems about a module and their proofs (section 5); `Bmcs_proofs` also about `PriorityVectors` | the module |

Definitions whose comment says *Mutant* are faulty variants of the definition
after them: each property is known to fail when its mutant takes the place of
the code's behaviour, so no property holds vacuously.

### Common conventions

* **One handler, one action.**  The states of a machine are passed through in
  one order only within a run, so a run is a composition of operators, one per
  state (`Run` in `PdelayReq` and `PdelayResp`, `Perform` in `BmcsCore`,
  `SndRun` and `RcvRun` in `SyncLink`, `SendRun` in `SyncPath`).
* **Time** is a counter of ticks that saturates, or a choice of what has expired
  (`late`, `due`, `stable`, `expired`).
* **Sends** return "ok", "fail" (`-1`: the network does not take the message,
  it is tried again by the timeout), or "mock" (no hardware TxTS will come, the
  time of the send serves instead).
* **Timestamps** are the transmission they were taken of, not a time: what can go
  wrong is that two of them do not belong together.  Only `ClockServo` computes
  with times.
* **Silence** (`silent`, `PeerStops`) is a neighbour that sends nothing from then
  on: with it, that something is noticed is a liveness property.

### PdelayReq

`sm` is `md_pdelay_req_data_t` and what the machine owns of the port.  A
timestamp is modelled by the *transmission it belongs to*, as an age: 0 for the
last request sent, 1 for the one before.  Whether t1..t4 belong together is all
that matters for `computePropTime`; the delay itself is one of the ranges the
code distinguishes (`Delays`).  The handlers are `Timeout`, `TxTs`, `RecvResp`,
`RecvRespFup`, `DevUp`, `DevDown`; `RecvResp` runs the machine *before* t4 is
stored, as the code does.  The link (`wire`, `txts`) and the neighbour
(`peerUp`) are external: a request is answered by a response and a follow-up,
which may be lost, reordered, late by at most `MaxDelay` transmissions and, with
`Duplicates`, come twice.  `Strangers` are answers that are not for this port or
domain; they multiply the states beyond what TLC can visit, so that the runs have
none and the proof, which allows any, covers them.  `missed` is a history
variable: the exchanges missed since the last one that was completed.

### PdelayResp

`t2`, `t3` and `mock` say whether a timestamp belongs to the request that is in
the buffer *now*; `Buffered` shows that every request overwrites it, before the
checks of `md_pdelay_resp_sm_recv_req`.  The NOT_ENABLED and INITIAL states are
one, since one run passes through both.  `out` is what the last handler sent.
`Orderly` says that the neighbour has counted its requests without a gap and has
sent none of another domain: only then are `RespIsOwn` and `FupIsOwn` promised.

### PriorityVectors

`Packed` is the structure as it lies in memory, `compare_priority_vectors` is
memcmp on it.  `Base` is the number of values of a byte.  `clockClass` and
`clockAccuracy` share a byte, a clock identity is one byte.  `Fields` are the
components of the standard one after another, `ComparesFields` says that the
comparison is the numerical one, and `Misleads` when it is not: the first field
in which two vectors differ has two bytes, and the low ones, which memcmp meets
first on a little-endian machine, are the other way round.

### BmcsCore and Bmcs

A system is one record; an operator per state machine gives the record after it
has come to rest; an operator per handler (`TimeoutHandler`, `DevUpHandler`,
`DevDownHandler`, `RespFupHandler`, `AnnounceHandler`, `SyncHandler`) composes
them in the order of `gptpman.c`.  A priority vector is <<rank, clock, steps,
source clock, source port, receiving port>>.  `selected[]` is folded away (the
machines always leave it true between handlers), `reselect[]` is one boolean
(the selection looks at all of them at once), the first run of the machines is
folded into `Started`.  `tx`, `deferred` and `tlv` are the buffers of each port:
the announce composed last, whether it is put off, and the path trace TLV
received last.  `out` records what a handler sent; `told`, a history variable,
the last announce that has left a port since its link is up.  `Bmcs` calls the handlers in any
order with any announces of a given set; `Measured` is `asCapableAcrossDomains`
changing in the peer delay machine outside of a follow-up.

### SyncExchange and SyncLink

`SyncExchange` has three variables: how many Syncs have *departed*, whose
departure time has been *told*, and the pair *joined* last.  Its steps are a
departure, the telling of a departure that has happened, and a join of a Sync
with its own told departure, later than the one before.  It says nothing of
timers, sequence ids, retries or TxTS.

`SyncLink` is `md_sync_send_sm.c` with its device at one end (`snd`) and
`md_sync_receive_sm.c` at the other (`rcv`).  `departed`, `told` and `joined`
are history variables, and the refinement maps `departed` to its length and the
others to themselves.  A *random* sequence id (INITIALIZING) is one that no Sync
has carried: that the 16 bits of `rand` repeat the very last one is left out.
`Drivers` are the results that the sends of one device can have: with hardware
timestamps, and without.  `FaultModels` are sets of what goes wrong together.

The refinement does *not* hold with the faults `late` (a TxTS is reported after
TXTS_LOST_TIME, when the Sync has been sent again) or `flap` (the port is down
and up again within the time a TxTS takes): `md_sync_send_sm_txts` does not look
at the sequence id of a TxTS, and the follow-up then tells the departure of
another Sync.  Adding them to `FaultModels` shows it.

### SyncPath

`site` is SiteSyncSync's stored Sync, `send[p]` PortSyncSyncSend of port p; a
Sync is the port it came in on, its interval and its age.  `PortSyncSync` is
`site_sync_sync_sm_portSyncSync` followed by `portSyncSync_for_all`.  The two
callers are `Timeout` (ClockMasterSyncSend gives a Sync of the own clock, port
0, every interval, whatever the role of the system) and `RecvSync`.  `Select`
changes the roles to anything that a selection may give; `passed` and `sent`
record what the last handler let through.

### ClockServo

The arithmetic of `set_phase_offsetGM`, `computeGmRateRatio`,
`gptpclock_setoffset64` and `gptpclock_setadj` on integers (ns and ppb; the code
uses doubles and truncates), with the constants of the default configuration.
The loop is closed: what `adj` does to the clock changes the next sample.  An
undefined result of the code (0/0 converted to an integer, when two samples have
the same local time) is a choice (`Undefined`).

### Signaling

One port in domain 0: `capTx`/`pending` are the transmission of TLVs, `capRx`
and `neighbor` their reception, `set` the four setting machines.  Two of these
never leave NOT_ENABLED: `portEnabled3` is never set, and
`useMgtSettableOneStepTxOper` always is (`PortEnabled3`,
`UseMgtSettableOneStepTxOper`).  `given` counts the TLVs since the port was
enabled and the ticks since the first: that is what drift is measured with.

### ActiveDomain and GmSync

`ActiveDomain` has the domains that are *stable*, the one that is *active*, the
one an application has *fixed* and the policy of the automatic switch.  Stability
changes in any way; an active domain that stays stable is left only for a
preferred one, and none that is unstable is taken while the other is stable.  A
step is a whole handler.

Two domains; the outcome of a selection is arbitrary (`Outcomes`, restricted by
`Possible` to what the code of `Bmcs` may give), so that the module is about
what *follows* from it: gmsync, `we_are_gm`, gm_stable_sm, the initial slave
time of domain 0 and the gmsync that domain 1 defers until domain 0 is stable,
and the choice of the active domain.  The timeout handler visits the domains in
turn (`turn`), other handlers come between two timeouts.  All machines of a
handler are given the same time, so a domain whose stability timer has started
anew in a handler does not become stable in it (`told` in `Timeout`).  The
refinement of `ActiveDomain` maps the stable domains and the rest as they are.

### Clients

The daemon goes through the phases of `gptpman_run` (shared memory cleared,
`max_domains` set, clocks added, activated) and may at any point close or crash.
`shm` is the object linked at the name; an object that was unlinked lives on for
the reader that has it mapped (`reader.old`).  The reader is
`gptpmasterclock.c`, split where the daemon may come in between: the two
openings of the object, and the devices.  The client is the thread of
`gptpipc.c`; `view` is what its callback was told last.  `missed` is a history
variable: a message to the client found no room or was dropped since the last
answer that reached it, or none has reached it yet.  A behaviour has one
application of one kind.  The shared memory has its default name: the close of
`gptpmasterclock.c` forgets another one (`:168`), and what opens again then opens
the default.  A UDP client that reopens its socket is served at once, where the
daemon learns the new address with the next request.

## 3. The runs

All runs explore the complete state space of their instance.  `PriorityVectors`
finds the comment it checks violated (section 4); all others pass.

| run | properties | shows |
|---|---|---|
| `PdelayReqPrompt` | `TypeOK`, `SoundPropDelay`, `Paced`, `CapableWithinLost`, `Ceases` | with no message or TxTS outliving a later request, no delay mixes two exchanges, although messages are lost, reordered and repeated and sends fail; requests are paced; the bound on lost exchanges; the cease time of the AVnu mode |
| `PdelayReqSilent` | `LostPeerNoticed` | a neighbour that stops is noticed (liveness) |
| `PdelayResp` | `TypeOK`, `RespIsOwn`, `FupIsOwn`, `FollowsResponse` | with consecutive sequence ids each message carries the timestamp of the request it names; with any requests and failing sends no follow-up without a response |
| `PriorityVectors` | `LesserIsBetter` (violated) | with the default variance 0x436A and the greater 0x4E5D, memcmp finds the greater one better |
| `BmcsTwo` | `OneSlave`, `NeighborsKnowGm`, `TypeOK`, `GmIsBest`, `Rests`, `PathEndsHere` | two ports that hear the same better clock; or a worse clock, a path at its limit, an announce that came round a loop |
| `BmcsDeferred` | `NeighborsKnowGm`, `OnlyCapableAnnounces` | sends that the network refuses: while the grandmaster changes, the neighbour of a master port is not left with an earlier one, and a port that stops being capable does not send what it put off; a capable-TLV neighbour |
| `SyncLink` | `TypeOK`, `Implements`, `NoWaitForever` | the refinement; a Sync does not wait for its TxTS, nor its receiver for a follow-up, for ever |
| `SyncPath` | `TypeOK`, `OwnOnlyAsGm`, `FollowsSource` | what leaves a system belongs to its role; a silent grandmaster is noticed in spite of the Syncs sent again; a steady one is relayed by ports of any interval |
| `Signaling` | `TypeOK`, `NoDrift`, `IntervalAsked`, `Announced` | TLVs keep their schedule through late calls and failed sends; the interval is the one asked for |
| `ClockServo` | `PhaseKept`, `Locks` | the servo locks after any one fault; an error below the jump criterion does not drive it off |
| `GmSync` | `TypeOK`, `ActiveIsStable`, `WeAreGmIsGm`, `KeepsPromise`, `DeferralEnds` | the states of two domains agree with their roles whatever the selections give; the refinement of `ActiveDomain` |
| `Clients` | `TypeOK`, `ReadsWhatIsLinked`, `MissesNothing`, `CatchesUp` | applications never take the memory of an ended daemon for a live one and recover from every end of it; a client that has missed no message knows the daemon's state, and clients recover from every loss of notices |

### Bounds

* `SeqMod` 2 to 4: small enough that ids wrap and late messages meet their own
  id again; no code compares ids but for equality, successor and `>`.
* `TxTsLost` < `Interval` < `CeaseTime` (1, 2, 3 ticks): the order of the three
  times is all the code relies on (`PdelayAssumption`).
* `AllowedLost` 1 or 2, `AllowedFaults` 0: the counters pass their limits.
* `MaxDelay` bounds how many later transmissions a message or TxTS may outlive.
  With 0, messages of *one* exchange still come in any order, twice or never.
* BMCS: two ports are the least with which ports compete and one port's handler
  leaves work to another; three different clocks give a better, an equal and a
  worse one; `MaxPath` 4 is reached by the longest announce.  `QuickUpdate` is
  off in `BmcsTwo` and on in `BmcsDeferred`.  Refused sends multiply the states,
  so that `BmcsTwo` has none, and in `BmcsDeferred` port 1 hears a better and a
  worse clock in turn and port 2 nothing: port 2 is a master port whose announces
  are refused (`Refused`) and whose neighbour sends the capable TLV (`Signalled`)
  while the grandmaster changes.  The proofs have any ports in both sets, and
  announces without a path trace TLV.
* `SyncLink`: `MaxSync` 3 departures: a TxTS, a follow-up and a retry can each
  meet the Sync before and after their own.  The machines keep one Sync each.
* `SyncPath`: intervals of 2 ticks, with one port of 2 and one of 4 ticks: one
  locked to the rate it receives and one that has to wait; `MaxAge` 7 is past
  every timeout (3 intervals).
* `Signaling`: `MaxLag` lets a timeout be later than a whole interval; `Receipt`
  includes 0, which the shift of small intervals gives; `Requested` includes 127,
  which the code does not treat specially.  `MaxTime` bounds the history of TLVs.
* `ClockServo`: phases below and above the jump criterion, one fault per
  behaviour at any sample (three where only Syncs are lost); without a fault the
  loop is deterministic, so that one is enough to reach every regime of it.
* `GmSync`: domain 0 and one other, and every configuration of the automatic
  switch and of the initial slave time.
* `Clients`: three faults let the daemon end twice and a device not open
  in between; two changes, three messages in the socket and four requests per
  round let notices be lost; `MaxUsers` 2 includes the second user.
* `PriorityVectors` has bytes of 256 values, the default variance and one other,
  and small step and port numbers, as in a network of today.

### Fairness

* `PdelayReq!FairSpec`: the timeout handler is called again and again (the event
  loop calls it every 125 ms), time passes, and the driver reports the TxTS of a
  request it has taken.  Without the TxTS the code sends the request again for
  ever and never looks at the interval timer (`hazards`): the assumption is
  needed.  Nothing is assumed of the neighbour or of the link.
* `SyncLink`: the timeouts of both ends, time, a driver that reports a TxTS
  it has, and *strong* fairness for a send that does not fail: a network that
  is tried for ever takes a message.  A TxTS may be lost.
* `SyncPath`: time, the timeout, and a neighbour of the slave port that sends
  Sync (`SlaveSync`, disabled once it is silent).
* `Signaling`: time, the timeout, and a network that takes a message at last.
* `ClockServo`: a Sync is received at last, however often an old one is sent
  again; the other faults are bounded.
* `GmSync!FairSpec`: the timer of the event loop.
* `Clients!FairSpec`: a daemon that is up answers (`Answer`), the thread runs, an
  application goes on reading.  The daemon need not start again: `Recovers` and
  `Informed` speak of behaviours in which one stays up.

`BmcsTwo`, `BmcsDeferred`, `PdelayReqPrompt`, `PdelayResp` and `PriorityVectors` need
no fairness: they check safety.  `SyncLink` turns deadlock off: once `MaxSync`
Syncs have left and both ports are idle, nothing need happen any more; so does
`PriorityVectors`, whose one step compares two vectors.

## 4. Where the code differs from what is said of it

The models reproduce these.  The first is a run and a finding in `PROJECT.json`;
the other formulas named are defined beside the properties and refuted by TLC,
but no run lists them.

* `LesserIsBetter` (`MCPriorityVectors`, run `PriorityVectors`): "For all
  components, a lsser numerical value is better" (`gptpcommon.c:78`).  The
  comparison is memcmp, and two-byte fields are in the order of the host, so that
  on a little-endian machine offsetScaledLogVariance 0x4E5D is better than the
  default 0x436A.  Systems that all run this code still agree, since the order is
  a strict one (proved), but not with one that compares numerically.

* `DiscardsOldResponse` (`PdelayReq`): `md_pdelay_req_sm.c:432` logs "Discard
  this RESP", and goes on to accept the old response.
* `IgnoredUnanswered` (`PdelayResp`): a request of another domain, "ignore
  event" (`md_pdelay_resp_sm.c:315`), has replaced the request in the buffer, and
  the pending follow-up is composed from it.
* `NoZeroPath` (`Bmcs`, with the surroundings `NoPathTrace`): "empty pathTrace"
  (`port_announce_receive_sm.c:108`): its length stays, zeros are announced.
* `DeferredIsUnsynced` (`GmSync`): "if init_slave_ts is set, defer
  gptpclock_set_gmsync" (`port_state_selection_sm.c:302`): the ClockSourceReq
  after a change of the grandmaster (`gptpman.c:203`) sets it all the same.
* `NeighborTimesOut` (`Signaling`): the receipt timeout of TLVs
  (`gptp_defaults.h`, 10.7.3.3) is compared only when the next TLV arrives.
* `PassesSlaveOnly` (`SyncPath`): a Sync that is passed on need not have come in
  on the slave port: in a gap of the slave port, what another port receives is
  passed on as it is.  A port with an interval of its own may even send it back
  to where it came from, since it looks at the port it was given a Sync of last
  (`port_sync_sync_send_sm.c:158`); no document says that it must not.
* A response of another domain, "ignore"d at `md_pdelay_req_sm.c:418`, has
  overwritten t2 and t4 (hence `SoundPropDelay` is checked without `Strangers`).
* `md_pdelay_req_sm.c:248`: asCapable is false after `allowedLostResponses`
  losses; the code tolerates that many and gives up at the next.
* `md_pdelay_req_sm.c:118`: the rate ratio is valid only after two responses;
  the flag survives the link going down.
* `gptp_defaults.h:109`: the port ceases after *successive* multiple responses;
  a lost exchange between them does not clear the count.
* `port_announce_information_sm.c:131`: gmIdentity is a copy of the
  grandmaster's; any port that ages sets it to this clock.
* Signaling: the first interval request after a port comes up is always dropped
  (INITIALIZE clears it); the value 127, "stop sending", is shifted like any
  other; a TLV that waits is sent from INITIALIZE though the port is down.
* Servo: the phase of a jump is not adopted at first, its rate is
  (`clock_master_sync_receive_sm.c:115` and `:212`); a Sync that is sent again
  counts as the second jump (`:108`).
* gptpclock: `adjust_GM_btw_domains` says it "is called after gm_stable of D0
  becomes true" (`gptpclock.c:797`); the deferral does not ensure that.
* gptpmasterclock: with two users in a process, a daemon that has closed is never
  looked for again (`:64-68`, `:157-159`); an object that goes between its two
  openings leaves `max_domains` set and a null pointer (`:127-130`); a domain
  whose device is not named at init has the descriptor 0, which counts as open
  (`ll_gptpsupport.h:26`), against the comment at `:73`.
* gptpman: `:744` tests with `&&` for `&`; the flags of a clock are looked up
  with a domain's index for its number (`:741`).

## 5. The proofs

* `PdelayReq_proofs!CapablePortIsHeard`: `Spec => []CapableWithinLost`, for all
  constants that satisfy `PdelayAssumption`.  `CapableWithinLost` is not
  inductive: it relates `missed`, the exchanges missed in a row, to the limit,
  while the code compares its own counter `lostResponses`.  The invariant
  `Counts` says that while the port is capable the counter is at least `missed`
  and at most the limit.  Each operator of `Run` has a lemma that it keeps
  `Counts`; `ResetLemma` is the one that does the work.  `Counts` needs nothing
  of the other fields, so no type invariant is involved.
* `PdelayReq_proofs!TypeCorrect`, `!RequestsArePaced` and `!PortCeases`:
  `Spec => []TypeOK`, `Spec => Paced` and `Spec => Ceases`.  Every operator of
  `Run` has a lemma with the facts about what it returns.  `Paced` is not a
  property of single operators: one run may pass through several states.
  `Turn(m, o)` says what a run that began with `o` has done when it holds `m`
  (nothing sent yet, or one request sent for a reason `Paced` allows), and each
  operator keeps it.  The invariant `Rest` says in which states a request may be
  left for a retry, and that such a request has the sequence id it had.
* `PdelayReq_proofs!DelayIsSound`: `Prompt /\ Spec => []SoundPropDelay`.
  `Prompt` is what the property needs of the link: no message outlives the next
  request, there is one neighbour, the driver reports the TxTS of every request
  and there are two sequence ids (the code has 2^16).  Without the first the
  property is false: with `MaxDelay` 1 TLC finds a delay that mixes two
  exchanges.  The invariant `Exact` ties everything the machine
  holds to the last request: the timestamps it has taken, the messages and TxTS
  that are still to come, and that nothing of a run before is left once a new
  request has gone.
* `PdelayResp_proofs!TypeCorrect` and `!EveryFollowUpFollows`: `Spec => []TypeOK`
  and `Spec => FollowsResponse`.  The action property needs the invariant
  `Owes`: a port that waits for a TxTS, or that has a follow-up to send again,
  owes a follow-up.  One lemma per operator shows that it keeps the type, adds
  at most two messages and never puts a follow-up first unless one is owed.
* `PdelayResp_proofs!ResponseIsOwn` and `!FollowUpIsOwn`: `Spec => []RespIsOwn`
  and `SeqMod > 1 /\ Spec => []FupIsOwn`.  The invariant `Tied` says that with
  an orderly neighbour the buffer of a port that waits for a TxTS, or has a
  request to answer, holds the last request with its receipt time, that the
  messages of the last handler are for that request, and that an outstanding
  TxTS is of the last request or names the one before.  With one sequence id the
  two could not be told apart, hence the hypothesis.
* `SyncLink_proofs!TypeCorrect`: `Spec => []TypeOK`; and
  `!LinkImplementsExchange`: `Spec /\ Withstood => Implements`, the refinement
  of `SyncExchange`.  `Withstood` are the faults the run of `SyncLink` has, for
  all bounds: a TxTS that comes after it was given up (late, or because the port
  was down), a driver that sometimes reports TxTS and sometimes does not, and
  lost Syncs together with lost TxTS are left out, since the promise is false
  with them.  The invariant has a part for each place a Sync can be in: the
  sender (`Stamps`, `Follows`: a Sync that is still to be followed up has the
  departure time its TxTS or mock time tells), the wire (`WireInv`: messages are
  in order and later than what the receiver has had) and the receiver
  (`RcvInv`).  Each action maps to a step of `SyncExchange` or a stutter.
* `SyncPath_proofs!TypeCorrect` and `!OwnSyncsOnlyAsGm`: `Spec => []TypeOK` and
  `[]OwnOnlyAsGm`, for any number of ports.
  Beyond the properties themselves the invariant needs that the roles are those
  of one selection, and that the stored Sync came in on a port.
* `Signaling_proofs!TypeCorrect`, `!TlvsDoNotDrift` and `!IntervalIsAsked`:
  `Spec => []TypeOK`, `[]NoDrift`, `[]IntervalAsked`, by what one run of each
  machine does.
* `GmSync_proofs!TypeCorrect`, `!ActiveDomainIsStable` and
  `!OnlyGmTakesItselfForGm`: `Spec => []TypeOK`, `[]ActiveIsStable`,
  `[]WeAreGmIsGm`.  A handler changes one domain and then perhaps the active
  one, so the invariant is stated of states within a handler, too: `Losing`
  allows a domain that has just lost the grandmaster to say it is the
  grandmaster as long as it has lost gmsync.
* `GmSync_proofs!ImplementsActiveDomain`: `Spec => KeepsPromise`, the refinement
  of `ActiveDomain`.  One handler may choose the active domain twice, and two
  choices that are each right need not be right together: with one domain that
  became unstable and stable again in a handler the other, stable domain would
  have been taken and the net step would break the promise.  `UpDown` is
  what excludes that: since the stability timer starts anew, a domain becomes
  stable at most once in a handler, and before it becomes unstable.  `Moves`
  carries it through the selection, which may run gm_stable_sm before the
  handler does; `HandlesLemma` maps the two choices to one step of
  `ActiveDomain`.  It needs one more invariant, `Obeys`: a domain that an
  application has fixed is the active one.
* `Bmcs_proofs!SuperiorIsInferiorReversed` and `!SuperiorIsTransitive`: memcmp on
  the packed structures is asymmetric and transitive, for every `Base` and all
  vectors.  `!ComparesUnlessMisled`: `ComparesFields(a, b) <=> ~Misleads(a, b)`,
  that is, for which pairs exactly the comment of the comparison holds.
  `!SameVarianceCompares`: among clocks of one variance, as the default
  configuration gives it to all, and step and port numbers with equal high
  bytes, the comparison is the one the comment states.
* `Bmcs_proofs!TypeCorrect`, `!SlaveIsOne`, `!GrandmasterIsBest`,
  `!MachinesRest`, `!CapableAnnounce`, `!NeighborsAreTold` and
  `!AnnouncesEndHere`: the six invariants of `BmcsTwo` and the other one of `BmcsDeferred`,
  for any number of ports, any neighbours (`Announce` is the set of all
  announces), any order of the handlers and both values of `QuickUpdate`.
  None of them is inductive: `GmIsBest` speaks of the information of all ports
  and a selection that one handler of one port has run.  The invariant `AtRest`
  says of a system between two handlers:
  - `Held`: what a port has received came in on that port and is not our own,
    what it has as its own is our own vector;
  - `Settled` or `Blank`: the selection has run on all that the ports hold now
    (`Selection`), or the system has just started and knows nothing;
  - `Sending`: what is sent or put off is an announce, whose path trace ends with
    this clock if the neighbours send path traces;
  - `Tells`: a port with information of its own has no `newInfo` left, the
    announce in its buffer is composed of that information and, unless it is put
    off or the link is down, is the last one the neighbour was told;
  - `Wired`: a port that is capable and not disabled has a link;
  - `Cleans`: path traces that were accepted hold no clock twice and not ours.

  The longest part is that two rounds of the loop of `sm_bmcs_perform` are
  enough: the first (`Rounded`) leaves a port that is to be updated only with
  information that the second one finishes with.  Before that come the lemmas
  about what one machine does (`Informed`, `Syncs`, `SendsOne`) and that
  `Better` is a strict order with a best vector in each finite set, which is
  where the comparison of vectors enters.  `TimeoutHandler` visits the ports one
  after another, by a recursive function: `Visits` is the formula on that function
  that is proved by induction on the number of ports visited.  The library's
  induction theorem cannot be instantiated with it, so the least number for
  which it fails is taken from the well-foundedness of the naturals instead.

  `NeighborsAreTold` is where these meet: the selection gives a master port that
  need not update (`~updtInfo`) the priority it has, which is the grandmaster's
  with this system's steps (`Selection`), and `Tells` says that the neighbour has
  been told that priority.  It holds with sends that fail, too.

  `AnnouncesEndHere` is `Traceful /\ Spec => []PathEndsHere`: without a path
  trace TLV the buffer of the path keeps its length and zeros are announced
  (`NoZeroPath`, section 4), and a neighbour that sends a clock twice gets it
  twice.  The instance of `BmcsTwo` satisfies it.
* `Clients_proofs!TypeCorrect`: `Spec => []TypeOK`.  `TypeOK` says more than
  types: a reader with a mapping, an open device or an init under way has
  `max_domains`, and `ref_counter` stays between -1 and the number of users.
  The invariant `ReaderOK` adds that without `max_domains` the count is 0 or -1
  (a failed init counts down what `close` has cleared already) and that an init
  under way has counted its caller; `MemoryOK` adds that the memory of a daemon
  that has its clocks has `max_domains`.
* `Clients_proofs!ReaderIsLinked`: `Spec => []ReadsWhatIsLinked`, for any number
  of ends of the daemon, failures and users.  The health check looks only at
  `max_domains` in what is mapped.  That this is enough is the invariant `Whole`:
  an object that was unlinked has `max_domains` cleared (`gptpclock_close` does so
  before it unlinks, and a crash does not unlink), an init holds nothing of an
  earlier one, one that fails lets go of all it has, and the first domain is
  named first and opened by every init that ends.
* `Clients_proofs!ClientMissesNothing`: `Spec => []MissesNothing`, for any size of
  the socket.  `Tells` says of the daemon within a handler that the flags
  collected so far tell the last change of each kind (of gmsync perhaps with the
  other flag); `NoticeTells` that the notices made of them do; the rest is about
  a queue in which the last message on a topic counts: what is appended
  concludes it (`ConcatLemma`), what is cut off is counted as missed
  (`DeliveredLemma`), and what is read off moves to the client's view
  (`TailLemma`).

Assumptions: the theorems hold for all constants that satisfy the assumption of
their module (`PdelayAssumption`, `SystemAssumption`, `ClientsAssumption`, ...),
which TLC evaluates in every run; hypotheses beyond that are in the statement.
Two of them say what the type invariants need: `SystemAssumption` what announces
are made of, `ClientsAssumption` that there is room for one user (a read counts
as one while its init is under way).

Only model-checked:

* Liveness (`LostPeerNoticed`, `Announced`, `Locks`, `DeferralEnds`;
  `NoWaitForever`, which is `FollowedUp` and `WaitEnds`; `FollowsSource`, which
  is `SilenceNoticed` and `Relays`; `CatchesUp`, which is `Recovers` and
  `Informed`): it rests on fairness and ENABLED, which the prover does not have.
* `ClockServo!PhaseKept`: a numerical fact about the default configuration and
  the few disturbed samples of `Worlds`.  It does not hold of arbitrary
  constants or of any number of outliers, and for the default ones it is
  the evaluation of a loop with division, not an argument.

Every other property of the passing runs is stated by a theorem.

## 6. Not modelled

* External port configuration: no code sets `rcvdPortStateInd`, `portStateInd`
  or the `rcvdAnnounce` of the machine, so that both stay in INITIALIZE.
* An index of the active domain that is no domain: the daemon does not validate
  what an application asks for (`gptpman.c:937`, `gptpclock.c:816-821`).
* asCapableOrAll while it is collected port by port (`gptpman.c:350-371`): `GmSync`
  has its value at the end of a domain's turn.
* Static port states and the test ports of the configuration; the asymmetry
  measurement mode; a fixed `CONF_NEIGHBOR_PROP_DELAY` (the request machine
  then never runs, `md_pdelay_req_sm.c:168-182`); one-step Sync (the code never
  sends it); the abnormal hooks (a test facility).
* The flags, leap second fields and sequence ids of announces; rate ratios and
  correction fields of Syncs; statistics; the notices about devices, changes of
  the grandmaster and of the active domain.
* ClockMasterSyncOffset, whose outputs are only reported.
* Sockets, message layout, kernel timestamps, switch and hardware clocks, the
  monitors and tools.
* The mutex of the shared memory: both sides use trylock and go on without
  looking at its result, so that it excludes nothing; what a reader gets of a
  half-written offset is data no module has.

`components` in `PROJECT.json` has the status of each part.

## 7. What could follow

1. `BmcsNet`: several systems built from `BmcsCore`, linked: agreement on one
   grandmaster, and its loss, under fairness.
2. Static port states in `BmcsCore`.
3. An abstract specification of the gmsync of a domain: with the deferral at the
   start it depends on the order of handlers (`DeferredIsUnsynced`, section 4),
   so that it first needs a decision of what is meant.
