----------------------------- MODULE ActiveDomain ---------------------------
(***************************************************************************)
(* What applications are promised of the domain whose clock they are given *)
(* (the active domain of gptpclock), whatever makes domains stable and     *)
(* unstable.  A step is a handler, in which the stability of a domain may  *)
(* change more than once.                                                  *)
(***************************************************************************)
EXTENDS Integers

Domains == {0, 1}
AutoSwitch == -1

VARIABLES
    policy,  \* CONF_ACTIVE_DOMAIN_AUTO_SWITCH: 0 never switches, 2 prefers domain 0
    stable,  \* the domains that are stable
    fixed,   \* the domain an application has fixed, or AutoSwitch
    active

vars == <<policy, stable, fixed, active>>

Init ==
    /\ policy \in {0, 1, 2}
    /\ stable = {} /\ fixed = AutoSwitch /\ active = 0

(* An application asks for a domain, or for the automatic choice.          *)
Ask(i) ==
    /\ fixed' = i
    /\ active' = IF i = AutoSwitch THEN active ELSE i
    /\ UNCHANGED <<policy, stable>>

Automatic == fixed = AutoSwitch /\ policy # 0

Preferred(s) == IF policy = 2 /\ 0 \in s THEN {0} ELSE s

(* A stable domain is not left but for a preferred one, and no unstable    *)
(* one is taken while another is stable.                                   *)
Switch ==
    /\ Automatic
    /\ active' \in Domains \ {active}
    /\ active \notin Preferred(stable')
    /\ active' \in Preferred(stable') \/ (stable' = {} /\ active \notin stable)

Keep ==
    /\ active' = active
    /\ Automatic /\ stable' # stable => active \in Preferred(stable') \/ stable' = {}

Change ==
    /\ stable' \in SUBSET Domains
    /\ Switch \/ Keep
    /\ UNCHANGED <<policy, fixed>>

Next == Change \/ \E i \in Domains \cup {AutoSwitch} : Ask(i)

Spec == Init /\ [][Next]_vars
=============================================================================
