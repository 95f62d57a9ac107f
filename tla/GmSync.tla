------------------------------- MODULE GmSync -------------------------------
(***************************************************************************)
(* What two domains of one system know of their synchronization: gmsync    *)
(* and we_are_gm of gptpclock, gm_stable_sm, the gmsync that               *)
(* PortStateSelection defers when the system starts, and the active domain *)
(* that applications are given the clock of.                               *)
(*                                                                         *)
(* Bmcs has the selection of one domain in detail; here its outcome is     *)
(* arbitrary.  A domain is a record:                                       *)
(*   capable  asCapableOrAll          gm        the grandmaster selected   *)
(*   role     selectedState[0]: "none" at the start, "gm" for SlavePort,   *)
(*            "slave" for PassivePort                                      *)
(*   gmsync, weAreGm, stable          as in gptpclock                      *)
(*   deferred deferred_gmsync         slaveTime init_slave_ts is set       *)
(*   machine, gmChange, clock, initdone   gm_stable_sm and what it was     *)
(*            told last                                                    *)
(* Not here: static port states and the external port configuration.      *)
(***************************************************************************)
EXTENDS Integers

CONSTANTS
    Others,        \* the other grandmasters
    SecondNumber,  \* CONF_SECOND_DOMAIN_NUMBER
    AutoSwitches,  \* values of CONF_ACTIVE_DOMAIN_AUTO_SWITCH
    SlaveTimes     \* whether there is a CONF_INITIAL_SLAVE_TIME

Domains == {0, 1}
Number == [d \in Domains |-> IF d = 0 THEN 0 ELSE SecondNumber]
AutoSwitch == -1

ASSUME GmSyncAssumption ==
    /\ SecondNumber \in Nat \ {0}
    /\ {"self", "none"} \cap Others = {}
    /\ AutoSwitches \subseteq {0, 1, 2} /\ SlaveTimes \subseteq BOOLEAN

VARIABLES
    sys,    \* the domains, the active one, the one an application has fixed;
            \* asked: one has been asked for since the stability changed
    conf,   \* the configuration
    turn    \* the domain the timeout handler comes to next

vars == <<sys, conf, turn>>

-----------------------------------------------------------------------------
(***************************************************************************)
(* gptpclock                                                               *)
(***************************************************************************)
Set(s, d, domain) == [s EXCEPT !.domain[d] = domain]

SetGmSync(s, d, becomeGM) ==
    IF s.domain[d].gmsync THEN s
    ELSE Set(s, d, [s.domain[d] EXCEPT !.gmsync = TRUE, !.weAreGm = becomeGM])

(* Mutant: gmsync is not lost. *)
ResetGmSync_forgotten(s, d) == s

ResetGmSync(s, d) == Set(s, d, [s.domain[d] EXCEPT !.gmsync = FALSE])

StableDomains(s) == {d \in Domains : s.domain[d].stable}

(* Mutant: the domain that was active last is left when it is stable. *)
Chosen_stays(s) ==
    IF s.fixed # AutoSwitch THEN s.fixed
    ELSE IF conf.auto = 0 \/ StableDomains(s) = {} THEN s.active
    ELSE IF s.active \in StableDomains(s) THEN s.active
    ELSE IF 0 \in StableDomains(s) THEN 0 ELSE 1

(* Mutant: domain 0 is always preferred. *)
Chosen_first(s) ==
    IF s.fixed # AutoSwitch THEN s.fixed
    ELSE IF conf.auto = 0 \/ StableDomains(s) = {} THEN s.active
    ELSE IF 0 \in StableDomains(s) THEN 0 ELSE 1

(* gptpclock_update_active_domain *)
Chosen(s) ==
    IF s.fixed # AutoSwitch THEN s.fixed
    ELSE IF conf.auto = 0 \/ StableDomains(s) = {} THEN s.active
    ELSE IF conf.auto = 1 /\ s.active \in StableDomains(s) THEN s.active
    ELSE IF 0 \in StableDomains(s) THEN 0 ELSE 1

SetGmStable(s, d, stable) ==
    LET t == Set(s, d, [s.domain[d] EXCEPT !.stable = stable])
    IN  IF s.domain[d].stable = stable THEN s
        ELSE [t EXCEPT !.active = Chosen(t), !.asked = FALSE]

-----------------------------------------------------------------------------
(***************************************************************************)
(* gm_stable_sm; expired tells that gm_stable_time has passed.  With a     *)
(* change that waits, it is lost as soon as it is unstable.                *)
(***************************************************************************)
Enter(s, d, machine) == Set(s, d, [s.domain[d] EXCEPT !.machine = machine])

(* It resets gmsync of the domain with the number that is the index of d.  *)
Initialize(s, d) ==
    LET t == Set(s, d, [s.domain[d] EXCEPT !.machine = "Initialize", !.initdone = FALSE])
    IN  SetGmStable(IF s.domain[d].role # "gm" /\ Number[d] = d THEN ResetGmSync(t, d) ELSE t,
                    d, FALSE)

Unstable(s, d) == SetGmStable(Enter(s, d, "Unstable"), d, FALSE)

Stable(s, d) ==
    SetGmStable(Set(s, d, [s.domain[d] EXCEPT !.machine = "Stable", !.initdone = TRUE]), d, TRUE)

GmLost(s, d) ==
    LET t == Set(s, d, [s.domain[d] EXCEPT !.machine = "Lost", !.gmChange = FALSE])
    IN  IF s.domain[d].gmsync THEN Unstable(t, d) ELSE t

GmStableSM(s, d, expired) ==
    LET q == s.domain[d]
        t == IF q.machine = "Unstable" /\ expired THEN Stable(s, d) ELSE s
    IN  IF ~q.capable THEN IF q.machine = "Initialize" THEN s ELSE Initialize(s, d)
        ELSE IF q.machine \in {"Initialize", "Lost"} THEN IF q.gmsync THEN GmLost(s, d) ELSE s
        ELSE IF q.gmChange THEN GmLost(t, d) ELSE t

(* sm_bmcs_perform when the grandmaster has changed: gm_stable_gm_change,  *)
(* and ClockSourceReq, which sets gmsync whether or not a Sync has come.   *)
GmChanged(s, d, expired) ==
    LET q == s.domain[d]
        t == Set(s, d, [q EXCEPT !.clock = q.gm, !.gmChange = TRUE])
    IN  SetGmSync(IF q.clock = q.gm THEN s ELSE GmStableSM(t, d, expired), d, FALSE)

-----------------------------------------------------------------------------
(***************************************************************************)
(* port_state_selection_sm.  An outcome c of a selection: the grandmaster, *)
(* whether the slave port is another one, whether there is a selection at  *)
(* all (otherwise the machine only looks at what it has deferred), and     *)
(* whether the initial slave time and gm_stable_time have passed.          *)
(***************************************************************************)
Outcomes == [gm : {"self"} \cup Others, moved : BOOLEAN, select : BOOLEAN, late : BOOLEAN,
             expired : BOOLEAN]

Possible(q, c) ==
    /\ c.gm # "self" => q.capable
    /\ c.moved => q.role = "slave" /\ c.gm # "self"
    /\ q.role = "slave" /\ ~q.capable => c.select

Changed(q, c) == c.gm # q.gm \/ c.moved

UpdtStatesTree(s, d, c) ==
    LET q == s.domain[d]
        role == IF c.gm = "self" THEN "gm" ELSE "slave"
        left == q.role = "slave" /\ (c.moved \/ role = "gm")
        t == Set(s, d, [q EXCEPT !.gm = c.gm, !.role = role, !.gmsync = @ /\ ~left])
    IN  IF role = q.role THEN t
        ELSE IF role = "slave" THEN ResetGmSync(t, d)
        ELSE IF q.deferred THEN t
        ELSE SetGmSync(t, d, TRUE)

(* state_selection_proc: until the clock has been stable, what domain 0    *)
(* selects restarts the initial slave time, and domain 1 waits for it.     *)
Select(s, d, c) ==
    LET q == s.domain[d]
        waits == ~q.initdone /\ (d # 0 \/ conf.slaveTime)
        t == Set(s, d, [q EXCEPT !.deferred = @ \/ waits, !.slaveTime = @ \/ (waits /\ d = 0)])
        u == UpdtStatesTree(t, d, c)
    IN  IF Changed(q, c) THEN GmChanged(u, d, c.expired) ELSE u

(* Mutant: domain 0 goes on deferring. *)
EndSlaveTime_keeps(s, d, c) ==
    LET q == s.domain[d]
        t == IF q.role = "gm" THEN SetGmSync(s, d, TRUE) ELSE s
        u == UpdtStatesTree(Set(t, d, [t.domain[d] EXCEPT !.slaveTime = FALSE]), d, c)
    IN  IF Changed(q, c) \/ q.role = "gm" THEN GmChanged(u, d, c.expired)
        ELSE IF c.select THEN Select(u, d, c) ELSE u

(* proc_init_slave: the priority of the system is the configured one.      *)
EndSlaveTime(s, d, c) ==
    LET q == s.domain[d]
        synced == q.role # "gm" /\ q.gmsync /\ q.initdone
        t == IF ~synced /\ q.role = "gm" THEN SetGmSync(s, d, TRUE) ELSE s
        u == UpdtStatesTree(Set(t, d, [t.domain[d] EXCEPT !.deferred = FALSE, !.slaveTime = FALSE]), d, c)
    IN  IF Changed(q, c) \/ q.role = "gm" THEN GmChanged(u, d, c.expired)
        ELSE IF c.select THEN Select(u, d, c) ELSE u

(* Mutant: domain 1 waits for its own stability. *)
EndDeferral_own(s, d) ==
    LET t == IF s.domain[d].role = "gm" THEN SetGmSync(s, d, TRUE) ELSE s
    IN  IF s.domain[d].stable THEN Set(t, d, [t.domain[d] EXCEPT !.deferred = FALSE]) ELSE s

(* proc_deferred_gmsync of domain 1 *)
EndDeferral(s, d) ==
    LET t == IF s.domain[d].role = "gm" THEN SetGmSync(s, d, TRUE) ELSE s
    IN  IF s.domain[0].stable THEN Set(t, d, [t.domain[d] EXCEPT !.deferred = FALSE]) ELSE s

Perform(s, d, c) ==
    LET q == s.domain[d]
        t == IF q.deferred /\ d # 0 THEN EndDeferral(s, d) ELSE s
    IN  IF q.slaveTime /\ (c.late \/ (q.role # "gm" /\ q.gmsync /\ q.initdone))
        THEN EndSlaveTime(s, d, c)
        ELSE IF c.select THEN Select(t, d, c) ELSE t

-----------------------------------------------------------------------------
Becomes(s) == sys' = s /\ UNCHANGED conf

(* gptpnet_cb_timeout, for the domain whose turn it is: set_asCapable, the *)
(* machines of the ports, gm_stable_sm.  All are given the same time: when *)
(* gm_stable_sm has been told of another grandmaster, its time starts anew.*)
(* capable is asCapableOrAll at the end of the turn; the code collects it  *)
(* port by port while their machines run (gptpman.c:350-371), and sets     *)
(* that of domain 0 to one port at a follow-up (gptpman.c:441-447).        *)
Timeout ==
    /\ \E c \in Outcomes, capable \in BOOLEAN :
           LET s == Set(sys, turn, [sys.domain[turn] EXCEPT !.capable = capable])
               t == Perform(s, turn, c)
               told == t.domain[turn].clock # s.domain[turn].clock
           IN  /\ Possible(s.domain[turn], c)
               /\ Becomes(GmStableSM(t, turn, c.expired /\ ~told))
    /\ turn' = 1 - turn

(* An announce, or a device that goes up: sm_bmcs_perform.  One that goes  *)
(* down changes asCapable only (gptpman.c:303-328), which a Timeout finds. *)
Announce ==
    /\ turn = 0 /\ UNCHANGED turn
    /\ \E d \in Domains, c \in Outcomes :
           Possible(sys.domain[d], c) /\ Becomes(Perform(sys, d, c))

(* A Sync on the slave port reaches ClockMasterSyncReceive.                *)
RecvSync ==
    /\ turn = 0 /\ UNCHANGED turn
    /\ \E d \in Domains :
           sys.domain[d].role = "slave" /\ Becomes(SetGmSync(sys, d, FALSE))

(* gptpclock_active_domain_switch, asked for by an application, of a       *)
(* domain there is: the index is taken as it comes (gptpman.c:937), and    *)
(* what another one does (gptpclock.c:816-821) is not modelled.            *)
ActiveDomainSwitch ==
    /\ turn = 0 /\ UNCHANGED turn
    /\ \E i \in Domains \cup {AutoSwitch} :
           Becomes([sys EXCEPT !.fixed = i, !.asked = TRUE,
                               !.active = IF i = AutoSwitch THEN @ ELSE i])

Init ==
    /\ sys = [domain |-> [d \in Domains |->
                  [capable |-> FALSE, gm |-> "none", role |-> "none", gmsync |-> FALSE,
                   weAreGm |-> FALSE, stable |-> FALSE, deferred |-> FALSE, slaveTime |-> FALSE,
                   machine |-> "Initialize", gmChange |-> FALSE, clock |-> "none", initdone |-> FALSE]],
              active |-> 0, fixed |-> AutoSwitch, asked |-> FALSE]
    /\ conf \in [auto : AutoSwitches, slaveTime : SlaveTimes]
    /\ turn = 0

Next == Timeout \/ Announce \/ RecvSync \/ ActiveDomainSwitch

Spec == Init /\ [][Next]_vars

(* The timer of the event loop expires again and again: only Timeout       *)
(* changes the turn, and it is always enabled.                             *)
FairSpec == Spec /\ WF_turn(turn' = 1 - turn)

-----------------------------------------------------------------------------
(* Besides: domain 0 defers gmsync exactly during the initial slave time.  *)
TypeOK ==
    /\ sys.domain \in [Domains ->
           [capable : BOOLEAN, gm : {"self", "none"} \cup Others, role : {"none", "gm", "slave"},
            gmsync : BOOLEAN, weAreGm : BOOLEAN, stable : BOOLEAN, deferred : BOOLEAN,
            slaveTime : BOOLEAN, machine : {"Initialize", "Lost", "Unstable", "Stable"},
            gmChange : BOOLEAN, clock : {"self", "none"} \cup Others, initdone : BOOLEAN]]
    /\ DOMAIN sys = {"domain", "active", "fixed", "asked"}
    /\ sys.active \in Domains /\ sys.fixed \in Domains \cup {AutoSwitch} /\ sys.asked \in BOOLEAN
    /\ conf \in [auto : AutoSwitches, slaveTime : SlaveTimes] /\ turn \in Domains
    /\ \A d \in Domains : sys.domain[d].slaveTime <=> d = 0 /\ sys.domain[d].deferred

(* Unless an application has asked for a domain, the active one is stable  *)
(* when one is; with CONF_ACTIVE_DOMAIN_AUTO_SWITCH 2 it is domain 0 when  *)
(* that is: no handler leaves the applications with a lesser clock.        *)
ActiveIsStable ==
    sys.fixed = AutoSwitch /\ ~sys.asked /\ conf.auto # 0 /\ StableDomains(sys) # {} =>
        /\ sys.active \in StableDomains(sys)
        /\ conf.auto = 2 /\ 0 \in StableDomains(sys) => sys.active = 0

(* The choice of the active domain keeps the promise of ActiveDomain: it   *)
(* leaves a stable domain only for one that is preferred, and takes no     *)
(* unstable one while another is stable (gptpclock_update_active_domain).  *)
Promise == INSTANCE ActiveDomain
    WITH policy <- conf.auto, stable <- StableDomains(sys), fixed <- sys.fixed, active <- sys.active

KeepsPromise == Promise!Spec

(* A system that is not the grandmaster of a domain does not take itself   *)
(* for it: md_sync_send_sm would clear the correction of the Syncs it      *)
(* relays (setFollowUp_txFollowUp).                                        *)
WeAreGmIsGm == \A d \in Domains : sys.domain[d].weAreGm => sys.domain[d].role = "gm"

(* Once domain 0 stays stable and domain 1 has been, domain 1 does not     *)
(* stay without gmsync because of the deferral (proc_deferred_gmsync).     *)
DeferralEnds ==
    <>[](sys.domain[0].stable /\ sys.domain[1].initdone) => <>[]~sys.domain[1].deferred

(* "if init_slave_ts is set, defer gptpclock_set_gmsync".  ClockSourceReq  *)
(* sets it all the same (sm_bmcs_perform): TLC refutes this; no run checks it. *)
DeferredIsUnsynced ==
    \A d \in Domains : sys.domain[d].deferred /\ sys.domain[d].role = "gm" => ~sys.domain[d].gmsync
=============================================================================
