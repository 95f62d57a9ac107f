--------------------------- MODULE GmSync_proofs ---------------------------
(***************************************************************************)
(* Proofs about what two domains know of their synchronization: the types, *)
(* that the active domain is a stable one, and that a system that is not   *)
(* the grandmaster of a domain does not take itself for it.                *)
(***************************************************************************)
EXTENDS GmSync, TLAPS

Clocks == {"self", "none"} \cup Others

Domain ==
    [capable : BOOLEAN, gm : Clocks, role : {"none", "gm", "slave"},
     gmsync : BOOLEAN, weAreGm : BOOLEAN, stable : BOOLEAN, deferred : BOOLEAN,
     slaveTime : BOOLEAN, machine : {"Initialize", "Lost", "Unstable", "Stable"},
     gmChange : BOOLEAN, clock : Clocks, initdone : BOOLEAN]

System ==
    [domain : [Domains -> Domain], active : Domains, fixed : Domains \cup {AutoSwitch}, asked : BOOLEAN]

(* The role of a system follows from the grandmaster it has selected, and  *)
(* only domain 0 has an initial slave time.                                *)
Consistent(q, d) ==
    /\ q.role = (CASE q.gm = "self" -> "gm" [] q.gm = "none" -> "none" [] OTHER -> "slave")
    /\ q.slaveTime <=> d = 0 /\ q.deferred

(* weAreGm is right, or gmsync is lost, so that it will be set again: what *)
(* holds within a handler that has selected another grandmaster.           *)
Losing(q, d) == Consistent(q, d) /\ (q.weAreGm => q.role = "gm" \/ ~q.gmsync)
Right(q, d) == Consistent(q, d) /\ (q.weAreGm => q.role = "gm")

(* ActiveIsStable, of a state within a handler *)
Active(s) ==
    s.fixed = AutoSwitch /\ ~s.asked /\ conf.auto # 0 /\ StableDomains(s) # {} =>
        /\ s.active \in StableDomains(s)
        /\ conf.auto = 2 /\ 0 \in StableDomains(s) => s.active = 0

Configured == conf \in [auto : AutoSwitches, slaveTime : SlaveTimes]

OK(s) == s \in System /\ Active(s)

(* The inductive invariant *)
IInv ==
    /\ OK(sys) /\ Configured /\ turn \in Domains
    /\ \A d \in Domains : Right(sys.domain[d], d)

(* t is s but for domain d. *)
Kept(s, t, d) == OK(t) /\ \A e \in Domains \ {d} : t.domain[e] = s.domain[e]

(* r selects what q does. *)
Same(r, q) ==
    r.gm = q.gm /\ r.role = q.role /\ r.deferred = q.deferred /\ r.slaveTime = q.slaveTime

(* r is q but that it may have lost gmsync. *)
Drops(r, q) == Same(r, q) /\ r.weAreGm = q.weAreGm /\ (r.gmsync => q.gmsync)

(* What gm_stable_sm does. *)
Steps(s, t, d) == Kept(s, t, d) /\ Drops(t.domain[d], s.domain[d])

-----------------------------------------------------------------------------
(* The stability of the domains and the active one, for KeepsPromise.  In  *)
(* a handler a domain becomes stable at most once, before it becomes       *)
(* unstable: its time starts anew then.                                    *)
Choice(fixed, stable, active) ==
    IF fixed # AutoSwitch THEN fixed
    ELSE IF conf.auto = 0 \/ stable = {} THEN active
    ELSE IF conf.auto = 1 /\ active \in stable THEN active
    ELSE IF 0 \in stable THEN 0 ELSE 1

(* In t the stable domains are those of stable, since s. *)
Chooses(s, t, stable) ==
    /\ StableDomains(t) = stable /\ t.fixed = s.fixed
    /\ t.active = IF stable = StableDomains(s) THEN s.active ELSE Choice(s.fixed, stable, s.active)

Calm(s, t) == Chooses(s, t, StableDomains(s))
Up(s, t, d) == Calm(s, t) \/ Chooses(s, t, StableDomains(s) \cup {d})
Down(s, t, d) == Calm(s, t) \/ Chooses(s, t, StableDomains(s) \ {d})
UpDown(s, t, d) == \E u : Up(s, u, d) /\ Down(u, t, d)

SameClock(s, t, d) == t.domain[d].clock = s.domain[d].clock
Quiet(s, t, d) == Calm(s, t) /\ SameClock(s, t, d)

(* What a handler does before it comes to gm_stable_sm: when that has been *)
(* told of another grandmaster, it has run already.                        *)
Moves(s, t, d) == UpDown(s, t, d) /\ (SameClock(s, t, d) => Calm(s, t))

LEMMA CalmLemma ==
    ASSUME NEW s, NEW t, NEW d
    PROVE  /\ Calm(s, s) /\ (Calm(s, t) => Up(s, t, d) /\ Down(s, t, d))
           /\ Up(s, t, d) \/ Down(s, t, d) => UpDown(s, t, d)
           /\ \A u : Calm(s, t) /\ Calm(t, u) => Calm(s, u)
           /\ \A u : Calm(s, t) /\ Up(t, u, d) => Up(s, u, d)
           /\ \A u : Down(s, t, d) /\ Down(t, u, d) => Down(s, u, d)
           /\ \A u : Calm(s, t) /\ UpDown(t, u, d) => UpDown(s, u, d)
           /\ \A u : UpDown(s, t, d) /\ Down(t, u, d) => UpDown(s, u, d)
<1>1. \A x : Calm(x, x)
  BY DEF Calm, Chooses
<1>2. \A x, y : Calm(x, y) => Up(x, y, d) /\ Down(x, y, d)
  BY DEF Up, Down
<1>3. \A x, y : Up(x, y, d) \/ Down(x, y, d) => UpDown(x, y, d)
  BY <1>1, <1>2 DEF UpDown
<1>4. \A x, y, z : Calm(x, y) /\ Calm(y, z) => Calm(x, z)
  BY DEF Calm, Chooses
<1>5. \A x, y, z : Calm(x, y) /\ Up(y, z, d) => Up(x, z, d)
  BY DEF Up, Calm, Chooses
<1>6. \A x, y, z : Down(x, y, d) /\ Down(y, z, d) => Down(x, z, d)
  <2> SUFFICES ASSUME NEW x, NEW y, NEW z, Down(x, y, d), Down(y, z, d) PROVE Down(x, z, d)
    OBVIOUS
  <2>1. (StableDomains(x) \ {d}) \ {d} = StableDomains(x) \ {d}
    OBVIOUS
  <2> QED
    BY <2>1 DEF Down, Calm, Chooses
<1>7. \A x, y, z : Calm(x, y) /\ UpDown(y, z, d) => UpDown(x, z, d)
  BY <1>5 DEF UpDown
<1>8. \A x, y, z : UpDown(x, y, d) /\ Down(y, z, d) => UpDown(x, z, d)
  BY <1>6 DEF UpDown
<1> QED
  BY <1>1, <1>2, <1>3, <1>4, <1>5, <1>6, <1>7, <1>8

LEMMA QuietLemma ==
    ASSUME NEW s, NEW t, NEW d
    PROVE  /\ Quiet(s, s, d) /\ (Quiet(s, t, d) => Moves(s, t, d))
           /\ \A u : Quiet(s, t, d) /\ Quiet(t, u, d) => Quiet(s, u, d)
           /\ \A u : Quiet(s, t, d) /\ Moves(t, u, d) => Moves(s, u, d)
           /\ \A u : Moves(s, t, d) /\ Quiet(t, u, d) => Moves(s, u, d)
  BY CalmLemma DEF Quiet, Moves, SameClock

LEMMA DropsLemma ==
    ASSUME NEW r, NEW q, NEW d, Drops(r, q)
    PROVE  /\ Losing(q, d) => Losing(r, d)
           /\ Right(q, d) => Right(r, d)
  BY DEF Drops, Same, Losing, Right, Consistent

-----------------------------------------------------------------------------
(* gptpclock.                                                              *)
LEMMA SetLemma ==
    ASSUME NEW s \in System, NEW d \in Domains, NEW q \in Domain
    PROVE  /\ Set(s, d, q) \in System /\ Set(s, d, q).domain[d] = q
           /\ \A e \in Domains \ {d} : Set(s, d, q).domain[e] = s.domain[e]
           /\ q.stable = s.domain[d].stable /\ Active(s) => Active(Set(s, d, q))
           /\ q.stable = s.domain[d].stable => Calm(s, Set(s, d, q))
<1> DEFINE t == Set(s, d, q)
<1>1. [s.domain EXCEPT ![d] = q] \in [Domains -> Domain]
  BY DEF System
<1>2. t = [s EXCEPT !.domain = [s.domain EXCEPT ![d] = q]]
  BY DEF Set
<1>3. t \in System
  BY <1>1, <1>2, Zenon DEF System
<1>4. /\ t.domain = [s.domain EXCEPT ![d] = q] /\ t.active = s.active /\ t.fixed = s.fixed
      /\ t.asked = s.asked
  BY <1>2 DEF System
<1>5. t.domain[d] = q /\ \A e \in Domains \ {d} : t.domain[e] = s.domain[e]
  BY <1>4 DEF System
<1> HIDE DEF t
<1>6. ASSUME q.stable = s.domain[d].stable PROVE StableDomains(t) = StableDomains(s)
  BY <1>5, <1>6 DEF StableDomains
<1> QED
  BY <1>3, <1>4, <1>5, <1>6 DEF Active, Calm, Chooses, t

LEMMA SetGmSyncLemma ==
    ASSUME NEW s, OK(s), NEW d \in Domains, NEW becomeGM \in BOOLEAN
    PROVE  LET t == SetGmSync(s, d, becomeGM)
               q == s.domain[d]
           IN  /\ Kept(s, t, d) /\ Same(t.domain[d], q) /\ Quiet(s, t, d)
               /\ Losing(q, d) /\ (becomeGM => q.role = "gm") => Right(t.domain[d], d)
<1> DEFINE q == s.domain[d]
           r == [q EXCEPT !.gmsync = TRUE, !.weAreGm = becomeGM]
<1>1. q \in Domain
  BY DEF OK, System
<1>2. r \in Domain
  BY <1>1, Zenon DEF Domain
<1>3. Same(r, q) /\ r.stable = q.stable /\ r.weAreGm = becomeGM /\ r.role = q.role
      /\ r.clock = q.clock
  BY <1>1 DEF Domain, Same
<1>4. SetGmSync(s, d, becomeGM) = IF q.gmsync THEN s ELSE Set(s, d, r)
  BY DEF SetGmSync
<1> HIDE DEF q, r
<1>5. CASE q.gmsync
  BY <1>4, <1>5, QuietLemma DEF Kept, OK, Same, Losing, Right, q
<1>6. CASE ~q.gmsync
  <2>1. Kept(s, Set(s, d, r), d) /\ Set(s, d, r).domain[d] = r /\ Calm(s, Set(s, d, r))
    BY <1>2, <1>3, SetLemma DEF OK, Kept, q
  <2>2. ASSUME Losing(q, d), becomeGM => q.role = "gm" PROVE Right(r, d)
    BY <1>3, <2>2 DEF Losing, Right, Consistent, Same
  <2> QED
    BY <1>3, <1>4, <1>6, <2>1, <2>2 DEF Quiet, SameClock, q
<1> QED
  BY <1>5, <1>6

LEMMA ResetGmSyncLemma ==
    ASSUME NEW s, OK(s), NEW d \in Domains
    PROVE  LET t == ResetGmSync(s, d)
           IN  Steps(s, t, d) /\ ~t.domain[d].gmsync /\ Quiet(s, t, d)
<1> DEFINE q == s.domain[d]
           r == [q EXCEPT !.gmsync = FALSE]
<1>1. q \in Domain
  BY DEF OK, System
<1>2. r \in Domain
  BY <1>1, Zenon DEF Domain
<1>3. Drops(r, q) /\ r.stable = q.stable /\ ~r.gmsync /\ r.clock = q.clock
  BY <1>1 DEF Domain, Same, Drops
<1>4. ResetGmSync(s, d) = Set(s, d, r)
  BY DEF ResetGmSync
<1> HIDE DEF q, r
<1>5. Kept(s, Set(s, d, r), d) /\ Set(s, d, r).domain[d] = r /\ Calm(s, Set(s, d, r))
  BY <1>2, <1>3, SetLemma DEF OK, Kept, q
<1> QED
  BY <1>3, <1>4, <1>5 DEF Steps, Quiet, SameClock, q

(* Whenever a domain becomes stable or unstable, the active one is chosen  *)
(* anew.                                                                   *)
LEMMA SetGmStableLemma ==
    ASSUME Configured, NEW s, OK(s), NEW d \in Domains, NEW stable \in BOOLEAN
    PROVE  LET v == SetGmStable(s, d, stable)
           IN  /\ Steps(s, v, d) /\ SameClock(s, v, d)
               /\ IF stable THEN Up(s, v, d) ELSE Down(s, v, d)
<1> DEFINE q == s.domain[d]
           r == [q EXCEPT !.stable = stable]
           t == Set(s, d, r)
           u == [t EXCEPT !.active = Chosen(t), !.asked = FALSE]
<1>1. q \in Domain
  BY DEF OK, System
<1>2. r \in Domain
  BY <1>1, Zenon DEF Domain
<1>3. Drops(r, q) /\ r.clock = q.clock /\ r.stable = stable
  BY <1>1 DEF Domain, Same, Drops
<1>4. SetGmStable(s, d, stable) = IF q.stable = stable THEN s ELSE u
  BY DEF SetGmStable
<1> HIDE DEF q, r
<1>5. t \in System /\ t.domain[d] = r /\ \A e \in Domains \ {d} : t.domain[e] = s.domain[e]
  BY <1>2, SetLemma DEF OK
<1> HIDE DEF t
<1>6. Chosen(t) \in Domains
  <2>1. t.active \in Domains /\ t.fixed \in Domains \cup {AutoSwitch} /\ 0 \in Domains /\ 1 \in Domains
    BY <1>5 DEF System, Domains
  <2> QED
    BY <2>1, Zenon DEF Chosen
<1>7. u \in System
  <2>1. u = [[t EXCEPT !.active = Chosen(t)] EXCEPT !.asked = FALSE]
    OBVIOUS
  <2> QED
    BY <1>5, <1>6, Zenon DEF System
<1>8. u.domain = t.domain /\ u.active = Chosen(t) /\ u.fixed = t.fixed
  BY <1>5 DEF System
<1> HIDE DEF u
<1>9. Active(u)
  <2>1. StableDomains(u) = StableDomains(t) /\ StableDomains(t) \subseteq Domains
    BY <1>8 DEF StableDomains
  <2>2. conf.auto \in {0, 1, 2}
    BY GmSyncAssumption DEF Configured
  <2> SUFFICES ASSUME t.fixed = AutoSwitch, conf.auto # 0, StableDomains(t) # {}
               PROVE  /\ Chosen(t) \in StableDomains(t)
                      /\ conf.auto = 2 /\ 0 \in StableDomains(t) => Chosen(t) = 0
    BY <1>8, <2>1 DEF Active
  <2>3. 0 \notin StableDomains(t) => 1 \in StableDomains(t)
    BY <2>1 DEF Domains
  <2> QED
    BY <2>2, <2>3 DEF Chosen
<1>10. CASE q.stable = stable
  BY <1>4, <1>10, CalmLemma DEF Kept, Steps, Drops, Same, SameClock, q
<1>11. CASE q.stable # stable
  <2>1. Steps(s, u, d) /\ SameClock(s, u, d)
    BY <1>3, <1>5, <1>7, <1>8, <1>9 DEF Kept, Steps, OK, SameClock, q
  <2>2. StableDomains(u) = IF stable THEN StableDomains(s) \cup {d} ELSE StableDomains(s) \ {d}
    BY <1>3, <1>5, <1>8, <1>11 DEF StableDomains, q
  <2>3. StableDomains(u) # StableDomains(s)
    <3>1. q.stable \in BOOLEAN /\ (d \in StableDomains(s) <=> q.stable)
      BY <1>1 DEF StableDomains, Domain, q
    <3>2. d \in StableDomains(u) <=> stable
      BY <2>2
    <3> QED
      BY <1>11, <3>1, <3>2
  <2>4. t.fixed = s.fixed /\ t.active = s.active
    BY DEF t, Set, OK, System
  <2>5. u.active = Choice(s.fixed, StableDomains(u), s.active)
    <3>1. StableDomains(u) = StableDomains(t)
      BY <1>8 DEF StableDomains
    <3> QED
      BY <1>8, <2>4, <3>1 DEF Chosen, Choice
  <2>6. Chooses(s, u, StableDomains(u))
    BY <1>8, <2>3, <2>4, <2>5 DEF Chooses
  <2> QED
    BY <1>4, <1>11, <2>1, <2>2, <2>6 DEF Up, Down
<1> QED
  BY <1>10, <1>11

LEMMA StepsLemma ==
    ASSUME NEW s, OK(s), NEW d \in Domains
    PROVE  /\ Steps(s, s, d)
           /\ \A t, u : Steps(s, t, d) /\ Steps(t, u, d) => Steps(s, u, d)
           /\ \A r \in Domain :
                  Drops(r, s.domain[d]) /\ r.stable = s.domain[d].stable =>
                      /\ Steps(s, Set(s, d, r), d) /\ Calm(s, Set(s, d, r))
                      /\ r.clock = s.domain[d].clock => SameClock(s, Set(s, d, r), d)
<1>1. Steps(s, s, d)
  BY DEF Steps, Kept, Drops, Same
<1>2. ASSUME NEW t, NEW u, Steps(s, t, d), Steps(t, u, d) PROVE Steps(s, u, d)
  BY <1>2 DEF Steps, Kept, Drops, Same
<1>3. ASSUME NEW r \in Domain, Drops(r, s.domain[d]), r.stable = s.domain[d].stable
      PROVE  /\ Steps(s, Set(s, d, r), d) /\ Calm(s, Set(s, d, r))
             /\ r.clock = s.domain[d].clock => SameClock(s, Set(s, d, r), d)
  BY <1>3, SetLemma DEF OK, Kept, Steps, SameClock
<1> QED
  BY <1>1, <1>2, <1>3

-----------------------------------------------------------------------------
(* gm_stable_sm.                                                           *)
LEMMA UnstableLemma ==
    ASSUME Configured, NEW s, OK(s), NEW d \in Domains
    PROVE  Steps(s, Unstable(s, d), d) /\ SameClock(s, Unstable(s, d), d) /\ Down(s, Unstable(s, d), d)
<1> DEFINE q == s.domain[d]
           r == [q EXCEPT !.machine = "Unstable"]
<1>1. q \in Domain
  BY DEF OK, System
<1>2. r \in Domain
  BY <1>1, Zenon DEF Domain
<1>3. Drops(r, q) /\ r.stable = q.stable /\ r.clock = q.clock
  BY <1>1 DEF Domain, Same, Drops
<1>4. Unstable(s, d) = SetGmStable(Set(s, d, r), d, FALSE)
  BY DEF Unstable, Enter
<1> HIDE DEF r
<1> DEFINE t == Set(s, d, r)
           u == SetGmStable(t, d, FALSE)
<1>5. Steps(s, t, d) /\ OK(t) /\ Calm(s, t) /\ SameClock(s, t, d)
  BY <1>2, <1>3, StepsLemma DEF Steps, Kept
<1> HIDE DEF t
<1>6. Steps(t, u, d) /\ SameClock(t, u, d) /\ Down(t, u, d)
  BY <1>5, SetGmStableLemma
<1> HIDE DEF u
<1>7. Steps(s, u, d) /\ SameClock(s, u, d) /\ Down(s, u, d)
  BY <1>5, <1>6, StepsLemma, CalmLemma DEF SameClock
<1> QED
  BY <1>4, <1>7 DEF u, t

LEMMA StableLemma ==
    ASSUME Configured, NEW s, OK(s), NEW d \in Domains
    PROVE  Steps(s, Stable(s, d), d) /\ SameClock(s, Stable(s, d), d) /\ Up(s, Stable(s, d), d)
<1> DEFINE q == s.domain[d]
           r == [q EXCEPT !.machine = "Stable", !.initdone = TRUE]
<1>1. q \in Domain
  BY DEF OK, System
<1>2. r \in Domain
  <2>1. r = [[q EXCEPT !.machine = "Stable"] EXCEPT !.initdone = TRUE]
    OBVIOUS
  <2> QED
    BY <1>1, <2>1, Zenon DEF Domain
<1>3. Drops(r, q) /\ r.stable = q.stable /\ r.clock = q.clock
  BY <1>1 DEF Domain, Same, Drops
<1>4. Stable(s, d) = SetGmStable(Set(s, d, r), d, TRUE)
  BY DEF Stable
<1> HIDE DEF r
<1> DEFINE t == Set(s, d, r)
           u == SetGmStable(t, d, TRUE)
<1>5. Steps(s, t, d) /\ OK(t) /\ Calm(s, t) /\ SameClock(s, t, d)
  BY <1>2, <1>3, StepsLemma DEF Steps, Kept
<1> HIDE DEF t
<1>6. Steps(t, u, d) /\ SameClock(t, u, d) /\ Up(t, u, d)
  BY <1>5, SetGmStableLemma
<1> HIDE DEF u
<1>7. Steps(s, u, d) /\ SameClock(s, u, d) /\ Up(s, u, d)
  BY <1>5, <1>6, StepsLemma, CalmLemma DEF SameClock
<1> QED
  BY <1>4, <1>7 DEF u, t

LEMMA InitializeLemma ==
    ASSUME Configured, NEW s, OK(s), NEW d \in Domains
    PROVE  Steps(s, Initialize(s, d), d) /\ SameClock(s, Initialize(s, d), d)
           /\ Down(s, Initialize(s, d), d)
<1> DEFINE q == s.domain[d]
           r == [q EXCEPT !.machine = "Initialize", !.initdone = FALSE]
           t == Set(s, d, r)
           u == IF q.role # "gm" /\ Number[d] = d THEN ResetGmSync(t, d) ELSE t
<1>1. q \in Domain
  BY DEF OK, System
<1>2. r \in Domain
  <2>1. r = [[q EXCEPT !.machine = "Initialize"] EXCEPT !.initdone = FALSE]
    OBVIOUS
  <2> QED
    BY <1>1, <2>1, Zenon DEF Domain
<1>3. Drops(r, q) /\ r.stable = q.stable /\ r.clock = q.clock
  BY <1>1 DEF Domain, Same, Drops
<1>4. Initialize(s, d) = SetGmStable(u, d, FALSE)
  BY DEF Initialize
<1> HIDE DEF r
<1>5. Steps(s, t, d) /\ OK(t) /\ Quiet(s, t, d)
  BY <1>2, <1>3, StepsLemma DEF Steps, Kept, Quiet
<1> HIDE DEF t
<1>6. Steps(t, u, d) /\ Quiet(t, u, d)
  BY <1>5, StepsLemma, ResetGmSyncLemma, QuietLemma
<1> DEFINE v == SetGmStable(u, d, FALSE)
<1> HIDE DEF u
<1>7. Steps(u, v, d) /\ SameClock(u, v, d) /\ Down(u, v, d)
  BY <1>6, SetGmStableLemma DEF Steps, Kept
<1> HIDE DEF v
<1>8. Steps(s, u, d) /\ Quiet(s, u, d)
  BY <1>5, <1>6, StepsLemma, QuietLemma
<1>9. Steps(s, v, d) /\ SameClock(s, v, d) /\ Down(s, v, d)
  BY <1>7, <1>8, StepsLemma, CalmLemma DEF Quiet, SameClock
<1> QED
  BY <1>4, <1>9 DEF v

LEMMA GmLostLemma ==
    ASSUME Configured, NEW s, OK(s), NEW d \in Domains
    PROVE  Steps(s, GmLost(s, d), d) /\ SameClock(s, GmLost(s, d), d) /\ Down(s, GmLost(s, d), d)
<1> DEFINE q == s.domain[d]
           r == [q EXCEPT !.machine = "Lost", !.gmChange = FALSE]
           t == Set(s, d, r)
<1>1. q \in Domain
  BY DEF OK, System
<1>2. r \in Domain
  <2>1. r = [[q EXCEPT !.machine = "Lost"] EXCEPT !.gmChange = FALSE]
    OBVIOUS
  <2> QED
    BY <1>1, <2>1, Zenon DEF Domain
<1>3. Drops(r, q) /\ r.stable = q.stable /\ r.clock = q.clock
  BY <1>1 DEF Domain, Same, Drops
<1>4. GmLost(s, d) \in {t, Unstable(t, d)}
  BY DEF GmLost
<1> HIDE DEF r
<1>5. Steps(s, t, d) /\ OK(t) /\ Calm(s, t) /\ SameClock(s, t, d)
  BY <1>2, <1>3, StepsLemma DEF Steps, Kept
<1> HIDE DEF t
<1> DEFINE u == Unstable(t, d)
<1>6. Steps(t, u, d) /\ SameClock(t, u, d) /\ Down(t, u, d)
  BY <1>5, UnstableLemma
<1>7. Down(s, t, d)
  BY <1>5, CalmLemma
<1> HIDE DEF u
<1>8. Steps(s, u, d) /\ SameClock(s, u, d) /\ Down(s, u, d)
  BY <1>5, <1>6, <1>7, StepsLemma, CalmLemma DEF SameClock
<1> QED
  BY <1>4, <1>5, <1>7, <1>8 DEF u

(* It never sets gmsync, and does not select.  Unless its time has passed  *)
(* it makes no domain stable.                                              *)
LEMMA GmStableLemma ==
    ASSUME Configured, NEW s, OK(s), NEW d \in Domains, NEW expired
    PROVE  LET v == GmStableSM(s, d, expired)
           IN  /\ Steps(s, v, d) /\ SameClock(s, v, d)
               /\ UpDown(s, v, d) /\ (~expired => Down(s, v, d))
<1> DEFINE q == s.domain[d]
           t == IF q.machine = "Unstable" /\ expired THEN Stable(s, d) ELSE s
           v == GmStableSM(s, d, expired)
<1>1. Steps(s, t, d) /\ OK(t) /\ SameClock(s, t, d) /\ Up(s, t, d) /\ (~expired => Calm(s, t))
  <2>1. CASE q.machine = "Unstable" /\ expired
    BY <2>1, StableLemma DEF Steps, Kept
  <2>2. CASE ~(q.machine = "Unstable" /\ expired)
    <3>1. t = s
      BY <2>2
    <3> QED
      BY <3>1, StepsLemma, CalmLemma DEF SameClock
  <2> QED
    BY <2>1, <2>2
<1>2. v \in {s, t, Initialize(s, d), GmLost(s, d), GmLost(t, d)}
  BY DEF GmStableSM
<1> HIDE DEF t, v
<1>3. CASE v \in {s, Initialize(s, d), GmLost(s, d)}
  <2>1. Steps(s, v, d) /\ SameClock(s, v, d) /\ Down(s, v, d)
    BY <1>3, StepsLemma, CalmLemma, InitializeLemma, GmLostLemma DEF SameClock
  <2> QED
    BY <2>1, CalmLemma DEF v
<1>4. CASE v \in {t, GmLost(t, d)}
  <2>1. Steps(t, v, d) /\ SameClock(t, v, d) /\ Down(t, v, d)
    BY <1>1, <1>4, StepsLemma, CalmLemma, GmLostLemma DEF SameClock
  <2>2. Steps(s, v, d) /\ SameClock(s, v, d)
    BY <1>1, <2>1, StepsLemma DEF SameClock
  <2>3. UpDown(s, v, d) /\ (~expired => Down(s, v, d))
    BY <1>1, <2>1, CalmLemma DEF UpDown
  <2> QED
    BY <2>2, <2>3 DEF v
<1> QED
  BY <1>2, <1>3, <1>4

-----------------------------------------------------------------------------
(* port_state_selection_sm: within it a domain other than d is left alone. *)
Settles(s, t, d) == Kept(s, t, d) /\ Right(t.domain[d], d)

LEMMA SettlesLemma ==
    ASSUME NEW s, NEW t, NEW d \in Domains
    PROVE  /\ OK(s) /\ Right(s.domain[d], d) => Settles(s, s, d)
           /\ Settles(s, t, d) => OK(t) /\ Right(t.domain[d], d)
           /\ \A u : Settles(s, t, d) /\ Settles(t, u, d) => Settles(s, u, d)
           /\ \A u : Kept(s, t, d) /\ Settles(t, u, d) => Settles(s, u, d)
           /\ Right(s.domain[d], d) /\ Steps(s, t, d) => Settles(s, t, d)
  BY DropsLemma DEF Settles, Kept, Steps

LEMMA SettingLemma ==
    ASSUME NEW s, OK(s), NEW d \in Domains, NEW r \in Domain, Right(r, d),
           r.stable = s.domain[d].stable
    PROVE  /\ Settles(s, Set(s, d, r), d)
           /\ r.clock = s.domain[d].clock => Quiet(s, Set(s, d, r), d)
  BY SetLemma DEF OK, Kept, Settles, Quiet, SameClock

(* Once the grandmaster change has been told, weAreGm is right. *)
LEMMA GmChangedLemma ==
    ASSUME Configured, NEW s, OK(s), NEW d \in Domains, Losing(s.domain[d], d), NEW expired
    PROVE  Settles(s, GmChanged(s, d, expired), d) /\ Moves(s, GmChanged(s, d, expired), d)
<1> DEFINE q == s.domain[d]
           r == [q EXCEPT !.clock = q.gm, !.gmChange = TRUE]
           t == Set(s, d, r)
           u == IF q.clock = q.gm THEN s ELSE GmStableSM(t, d, expired)
<1>1. q \in Domain
  BY DEF OK, System
<1>2. r \in Domain
  <2>1. q.gm \in Clocks
    BY <1>1 DEF Domain
  <2>2. r = [[q EXCEPT !.clock = q.gm] EXCEPT !.gmChange = TRUE]
    OBVIOUS
  <2> QED
    BY <1>1, <2>1, <2>2, Zenon DEF Domain
<1>3. Drops(r, q) /\ r.stable = q.stable /\ r.clock = q.gm
  BY <1>1 DEF Domain, Same, Drops
<1>4. GmChanged(s, d, expired) = SetGmSync(u, d, FALSE)
  BY DEF GmChanged
<1> HIDE DEF r
<1>5. Steps(s, t, d) /\ OK(t) /\ Calm(s, t) /\ t.domain[d].clock = q.gm
  <2>1. Steps(s, t, d) /\ OK(t) /\ Calm(s, t)
    BY <1>2, <1>3, StepsLemma DEF Steps, Kept
  <2>2. t.domain[d] = r
    BY <1>2, SetLemma DEF OK
  <2> QED
    BY <1>3, <2>1, <2>2
<1> HIDE DEF t
<1>6. Steps(s, u, d) /\ Moves(s, u, d)
  <2>1. CASE q.clock = q.gm
    BY <2>1, StepsLemma, QuietLemma
  <2>2. CASE q.clock # q.gm
    <3> DEFINE v == GmStableSM(t, d, expired)
    <3>1. Steps(t, v, d) /\ SameClock(t, v, d) /\ UpDown(t, v, d)
      BY <1>5, GmStableLemma
    <3> HIDE DEF v
    <3>2. Steps(s, v, d)
      BY <1>5, <3>1, StepsLemma
    <3>3. UpDown(s, v, d)
      BY <1>5, <3>1, CalmLemma
    <3>4. ~SameClock(s, v, d)
      BY <1>5, <2>2, <3>1 DEF SameClock
    <3> QED
      BY <2>2, <3>2, <3>3, <3>4 DEF Moves, v
  <2> QED
    BY <2>1, <2>2
<1> HIDE DEF u
<1>7. Losing(u.domain[d], d) /\ OK(u) /\ Kept(s, u, d)
  BY <1>6, DropsLemma DEF Steps, Kept
<1> DEFINE w == SetGmSync(u, d, FALSE)
<1>8. Settles(u, w, d) /\ Quiet(u, w, d)
  BY <1>7, SetGmSyncLemma DEF Settles
<1> HIDE DEF w
<1>9. Moves(s, w, d)
  BY <1>6, <1>8, QuietLemma
<1> QED
  BY <1>4, <1>7, <1>8, <1>9, SettlesLemma DEF w

(* A port that is no longer the slave port, and a new one, lose gmsync.    *)
LEMMA TreeLemma ==
    ASSUME NEW s, OK(s), NEW d \in Domains, Right(s.domain[d], d), NEW c \in Outcomes
    PROVE  LET u == UpdtStatesTree(s, d, c)
           IN  /\ Kept(s, u, d) /\ Losing(u.domain[d], d) /\ Quiet(s, u, d)
               /\ ~Changed(s.domain[d], c) => Right(u.domain[d], d)
<1> DEFINE q == s.domain[d]
           role == IF c.gm = "self" THEN "gm" ELSE "slave"
           left == q.role = "slave" /\ (c.moved \/ role = "gm")
           r == [q EXCEPT !.gm = c.gm, !.role = role, !.gmsync = @ /\ ~left]
           t == Set(s, d, r)
<1>1. q \in Domain /\ c.gm \in Clocks /\ c.gm # "none" /\ role \in {"gm", "slave"} /\ left \in BOOLEAN
  BY GmSyncAssumption DEF OK, System, Outcomes, Clocks
<1>2. r \in Domain /\ r.stable = q.stable /\ r.gm = c.gm /\ r.role = role /\ (r.gmsync => q.gmsync)
      /\ r.weAreGm = q.weAreGm /\ r.deferred = q.deferred /\ r.slaveTime = q.slaveTime
      /\ r.clock = q.clock
  <2> HIDE DEF q, role, left
  <2>1. (q.gmsync /\ ~left) \in BOOLEAN
    OBVIOUS
  <2>2. r = [[[q EXCEPT !.gm = c.gm] EXCEPT !.role = role] EXCEPT !.gmsync = q.gmsync /\ ~left]
    BY <1>1 DEF Domain
  <2>3. r \in Domain
    BY <1>1, <2>1, <2>2, Zenon DEF Domain
  <2> QED
    BY <1>1, <2>3 DEF Domain
<1>3. UpdtStatesTree(s, d, c) =
          IF role = q.role THEN t
          ELSE IF role = "slave" THEN ResetGmSync(t, d)
          ELSE IF q.deferred THEN t
          ELSE SetGmSync(t, d, TRUE)
  BY DEF UpdtStatesTree
<1>4. Consistent(r, d)
  BY <1>1, <1>2 DEF Right, Consistent
<1>5. q.weAreGm => q.role = "gm"
  BY DEF Right
<1>6. ~Changed(q, c) => role = q.role
  BY <1>1 DEF Changed, Right, Consistent
<1> HIDE DEF r
<1>7. Kept(s, t, d) /\ OK(t) /\ t.domain[d] = r /\ Quiet(s, t, d)
  BY <1>2, SetLemma DEF OK, Kept, Quiet, SameClock
<1> HIDE DEF t, role, q, left
<1>8. CASE role = q.role
  BY <1>2, <1>3, <1>4, <1>5, <1>7, <1>8 DEF Losing, Right, q
<1>9. CASE role # q.role /\ role = "slave"
  <2>1. Steps(t, ResetGmSync(t, d), d) /\ ~ResetGmSync(t, d).domain[d].gmsync
        /\ Quiet(t, ResetGmSync(t, d), d)
    BY <1>7, ResetGmSyncLemma
  <2>2. Consistent(ResetGmSync(t, d).domain[d], d)
    BY <1>4, <1>7, <2>1 DEF Steps, Drops, Same, Consistent
  <2>3. Kept(s, ResetGmSync(t, d), d) /\ Quiet(s, ResetGmSync(t, d), d)
    BY <1>7, <2>1, QuietLemma DEF Steps, Kept
  <2> QED
    BY <1>3, <1>6, <1>9, <2>1, <2>2, <2>3 DEF Losing, q
<1>10. CASE role # q.role /\ role = "gm" /\ q.deferred
  BY <1>2, <1>3, <1>4, <1>7, <1>10 DEF Losing, Right, q
<1>11. CASE role # q.role /\ role = "gm" /\ ~q.deferred
  <2>1. Losing(t.domain[d], d) /\ t.domain[d].role = "gm"
    BY <1>2, <1>4, <1>7, <1>11 DEF Losing
  <2>2. Settles(t, SetGmSync(t, d, TRUE), d) /\ Quiet(t, SetGmSync(t, d, TRUE), d)
    BY <1>7, <2>1, SetGmSyncLemma DEF Settles
  <2>3. Kept(s, SetGmSync(t, d, TRUE), d) /\ Quiet(s, SetGmSync(t, d, TRUE), d)
    BY <1>7, <2>2, QuietLemma DEF Settles, Kept
  <2> QED
    BY <1>3, <1>11, <2>2, <2>3 DEF Settles, Losing, Right
<1> QED
  BY <1>1, <1>8, <1>9, <1>10, <1>11 DEF role

LEMMA SelectLemma ==
    ASSUME Configured, NEW s, OK(s), NEW d \in Domains, Right(s.domain[d], d), NEW c \in Outcomes
    PROVE  Settles(s, Select(s, d, c), d) /\ Moves(s, Select(s, d, c), d)
<1> DEFINE q == s.domain[d]
           waits == ~q.initdone /\ (d # 0 \/ conf.slaveTime)
           r == [q EXCEPT !.deferred = @ \/ waits, !.slaveTime = @ \/ (waits /\ d = 0)]
           t == Set(s, d, r)
           u == UpdtStatesTree(t, d, c)
<1>1. q \in Domain /\ waits \in BOOLEAN
  BY DEF OK, System
<1>2. r \in Domain /\ r.stable = q.stable /\ r.gm = q.gm /\ r.role = q.role /\ r.weAreGm = q.weAreGm
      /\ r.deferred = (q.deferred \/ waits) /\ r.slaveTime = (q.slaveTime \/ (waits /\ d = 0))
      /\ r.clock = q.clock
  <2> HIDE DEF q, waits
  <2>1. (q.deferred \/ waits) \in BOOLEAN /\ (q.slaveTime \/ (waits /\ d = 0)) \in BOOLEAN
    OBVIOUS
  <2>2. r = [[q EXCEPT !.deferred = q.deferred \/ waits]
                EXCEPT !.slaveTime = q.slaveTime \/ (waits /\ d = 0)]
    BY <1>1 DEF Domain
  <2>3. r \in Domain
    BY <1>1, <2>1, <2>2, Zenon DEF Domain
  <2> QED
    BY <1>1, <2>3 DEF Domain
<1>3. Right(r, d)
  <2>1. Right(q, d)
    OBVIOUS
  <2> HIDE DEF q, r, waits
  <2> QED
    BY <1>1, <1>2, <2>1 DEF Right, Consistent
<1>4. Changed(r, c) = Changed(q, c)
  BY <1>2 DEF Changed
<1>5. Select(s, d, c) = IF Changed(q, c) THEN GmChanged(u, d, c.expired) ELSE u
  BY DEF Select
<1> HIDE DEF r
<1>6. Kept(s, t, d) /\ OK(t) /\ t.domain[d] = r /\ Quiet(s, t, d)
  BY <1>2, SetLemma DEF OK, Kept, Quiet, SameClock
<1> HIDE DEF t, q, waits
<1>7. Kept(t, u, d) /\ OK(u) /\ Losing(u.domain[d], d) /\ (~Changed(q, c) => Settles(t, u, d))
      /\ Quiet(t, u, d)
  BY <1>3, <1>4, <1>6, TreeLemma DEF Kept, Settles
<1> HIDE DEF u
<1> DEFINE v == GmChanged(u, d, c.expired)
<1>8. Settles(u, v, d) /\ Moves(u, v, d)
  BY <1>7, GmChangedLemma
<1> HIDE DEF v
<1>9. Quiet(s, u, d) /\ Moves(s, u, d) /\ Moves(s, v, d)
  BY <1>6, <1>7, <1>8, QuietLemma
<1> QED
  BY <1>5, <1>6, <1>7, <1>8, <1>9, SettlesLemma DEF v

(* A grandmaster may set gmsync: it stays right. *)
LEMMA OwnLemma ==
    ASSUME NEW s, OK(s), NEW d \in Domains, Right(s.domain[d], d), NEW own \in BOOLEAN,
           own => s.domain[d].role = "gm"
    PROVE  LET t == IF own THEN SetGmSync(s, d, TRUE) ELSE s
           IN  Settles(s, t, d) /\ Same(t.domain[d], s.domain[d]) /\ Quiet(s, t, d)
<1>1. Losing(s.domain[d], d)
  BY DEF Right, Losing
<1>2. CASE own
  BY <1>1, <1>2, SetGmSyncLemma DEF Settles
<1>3. CASE ~own
  BY <1>3, SettlesLemma, QuietLemma DEF Same
<1> QED
  BY <1>2, <1>3

LEMMA EndSlaveTimeLemma ==
    ASSUME Configured, NEW s, OK(s), NEW d \in Domains, Right(s.domain[d], d), NEW c \in Outcomes
    PROVE  Settles(s, EndSlaveTime(s, d, c), d) /\ Moves(s, EndSlaveTime(s, d, c), d)
<1> DEFINE q == s.domain[d]
           synced == q.role # "gm" /\ q.gmsync /\ q.initdone
           own == ~synced /\ q.role = "gm"
           t == IF own THEN SetGmSync(s, d, TRUE) ELSE s
           p == t.domain[d]
           r == [p EXCEPT !.deferred = FALSE, !.slaveTime = FALSE]
           v == Set(t, d, r)
           u == UpdtStatesTree(v, d, c)
<1>1. Settles(s, t, d) /\ Same(p, q) /\ OK(t) /\ Quiet(s, t, d)
  <2> HIDE DEF synced
  <2>1. own \in BOOLEAN /\ (own => s.domain[d].role = "gm")
    OBVIOUS
  <2> HIDE DEF own
  <2> QED
    BY <2>1, OwnLemma, SettlesLemma
<1>2. EndSlaveTime(s, d, c) =
          IF Changed(q, c) \/ q.role = "gm" THEN GmChanged(u, d, c.expired)
          ELSE IF c.select THEN Select(u, d, c) ELSE u
  BY DEF EndSlaveTime
<1> HIDE DEF own, t
<1>3. p \in Domain /\ Right(p, d)
  BY <1>1 DEF OK, System, Settles
<1>4. r \in Domain /\ r.stable = p.stable /\ r.gm = p.gm /\ r.role = p.role /\ r.weAreGm = p.weAreGm
      /\ ~r.deferred /\ ~r.slaveTime /\ r.clock = p.clock
  <2> HIDE DEF p
  <2>1. r = [[p EXCEPT !.deferred = FALSE] EXCEPT !.slaveTime = FALSE]
    OBVIOUS
  <2>2. r \in Domain
    BY <1>3, <2>1, Zenon DEF Domain
  <2> QED
    BY <1>3, <2>2 DEF Domain
<1> HIDE DEF p, r
<1>5. Right(r, d) /\ Changed(r, c) = Changed(q, c)
  <2>1. Changed(r, c) = Changed(q, c)
    BY <1>1, <1>4 DEF Changed, Same
  <2> HIDE DEF q
  <2> QED
    BY <1>3, <1>4, <2>1 DEF Right, Consistent
<1>6. Settles(t, v, d) /\ OK(v) /\ v.domain[d] = r /\ Quiet(t, v, d)
  BY <1>1, <1>4, <1>5, SettingLemma, SetLemma DEF OK, Settles, Kept, p
<1> HIDE DEF v, q
<1>7. Kept(v, u, d) /\ OK(u) /\ Losing(u.domain[d], d)
      /\ (~Changed(q, c) => Settles(v, u, d) /\ Right(u.domain[d], d)) /\ Quiet(v, u, d)
  BY <1>5, <1>6, TreeLemma DEF Kept, Settles
<1> HIDE DEF u
<1>8. Settles(s, v, d) /\ Quiet(s, u, d)
  BY <1>1, <1>6, <1>7, SettlesLemma, QuietLemma
<1>9. CASE Changed(q, c) \/ q.role = "gm"
  <2> DEFINE w == GmChanged(u, d, c.expired)
  <2>1. Settles(u, w, d) /\ Moves(u, w, d)
    BY <1>7, GmChangedLemma
  <2> HIDE DEF w
  <2>2. Moves(s, w, d)
    BY <1>8, <2>1, QuietLemma
  <2> QED
    BY <1>2, <1>7, <1>8, <1>9, <2>1, <2>2, SettlesLemma DEF w
<1>10. CASE ~(Changed(q, c) \/ q.role = "gm")
  <2>1. Settles(s, u, d)
    BY <1>7, <1>8, <1>10, SettlesLemma
  <2> DEFINE w == Select(u, d, c)
  <2>2. Settles(u, w, d) /\ Moves(u, w, d)
    BY <1>7, <1>10, SelectLemma
  <2> HIDE DEF w
  <2>3. Moves(s, u, d) /\ Moves(s, w, d)
    BY <1>8, <2>2, QuietLemma
  <2> QED
    BY <1>2, <1>10, <2>1, <2>2, <2>3, SettlesLemma DEF w
<1> QED
  BY <1>9, <1>10

LEMMA EndDeferralLemma ==
    ASSUME NEW s, OK(s), NEW d \in Domains, d # 0, Right(s.domain[d], d)
    PROVE  Settles(s, EndDeferral(s, d), d) /\ Quiet(s, EndDeferral(s, d), d)
<1> DEFINE own == s.domain[d].role = "gm"
           t == IF own THEN SetGmSync(s, d, TRUE) ELSE s
           p == t.domain[d]
           r == [p EXCEPT !.deferred = FALSE]
<1>1. Settles(s, t, d) /\ OK(t) /\ Right(p, d) /\ Quiet(s, t, d)
  <2>1. own \in BOOLEAN /\ (own => s.domain[d].role = "gm")
    OBVIOUS
  <2> HIDE DEF own
  <2> QED
    BY <2>1, OwnLemma, SettlesLemma
<1>2. EndDeferral(s, d) = IF s.domain[0].stable THEN Set(t, d, r) ELSE s
  BY DEF EndDeferral
<1> HIDE DEF own, t
<1>3. p \in Domain
  BY <1>1 DEF OK, System
<1>4. r \in Domain /\ r.stable = p.stable /\ r.clock = p.clock
  <2> HIDE DEF p
  <2>1. r \in Domain
    BY <1>3, Zenon DEF Domain
  <2> QED
    BY <1>3 DEF Domain
<1>5. Right(r, d)
  <2> HIDE DEF p
  <2> QED
    BY <1>1, <1>3 DEF Right, Consistent, Domain
<1> HIDE DEF r
<1>6. Settles(t, Set(t, d, r), d) /\ Quiet(t, Set(t, d, r), d)
  BY <1>1, <1>4, <1>5, SettingLemma DEF p
<1> QED
  BY <1>1, <1>2, <1>6, SettlesLemma, QuietLemma

LEMMA PerformLemma ==
    ASSUME Configured, NEW s, OK(s), NEW d \in Domains, Right(s.domain[d], d), NEW c \in Outcomes
    PROVE  Settles(s, Perform(s, d, c), d) /\ Moves(s, Perform(s, d, c), d)
<1> DEFINE q == s.domain[d]
           t == IF q.deferred /\ d # 0 THEN EndDeferral(s, d) ELSE s
<1>1. Settles(s, t, d) /\ OK(t) /\ Right(t.domain[d], d) /\ Quiet(s, t, d)
  BY EndDeferralLemma, SettlesLemma, QuietLemma
<1>2. Perform(s, d, c) \in {EndSlaveTime(s, d, c), Select(t, d, c), t}
  BY DEF Perform
<1> HIDE DEF t
<1> DEFINE u == Select(t, d, c)
<1>3. Settles(t, u, d) /\ Moves(t, u, d)
  BY <1>1, SelectLemma
<1> HIDE DEF u
<1>4. Settles(s, u, d) /\ Moves(s, t, d) /\ Moves(s, u, d)
  BY <1>1, <1>3, SettlesLemma, QuietLemma
<1> QED
  BY <1>1, <1>2, <1>4, EndSlaveTimeLemma DEF u

-----------------------------------------------------------------------------
(* The actions.                                                            *)
Handles == conf' = conf /\ \E d \in Domains : UpDown(sys, sys', d)

LEMMA InvLemma ==
    ASSUME IInv, NEW d \in Domains, NEW s, Settles(sys, s, d), UpDown(sys, s, d), Becomes(s),
           turn' \in Domains
    PROVE  IInv' /\ Handles
<1>1. OK(s) /\ Right(s.domain[d], d) /\ \A e \in Domains \ {d} : s.domain[e] = sys.domain[e]
  BY DEF Settles, Kept
<1>2. \A e \in Domains : Right(s.domain[e], e)
  BY <1>1 DEF IInv
<1>3. sys' = s /\ conf' = conf
  BY DEF Becomes
<1>4. OK(sys)' /\ Configured'
  BY <1>1, <1>3 DEF OK, Active, StableDomains, Configured, IInv
<1> QED
  BY <1>2, <1>3, <1>4 DEF IInv, Handles

LEMMA TimeoutLemma == IInv /\ Timeout => IInv' /\ Handles
<1> SUFFICES ASSUME IInv, NEW c \in Outcomes, NEW capable \in BOOLEAN, turn' = 1 - turn,
                    LET s == Set(sys, turn, [sys.domain[turn] EXCEPT !.capable = capable])
                        t == Perform(s, turn, c)
                        told == t.domain[turn].clock # s.domain[turn].clock
                    IN  Becomes(GmStableSM(t, turn, c.expired /\ ~told))
             PROVE  IInv' /\ Handles
  BY DEF Timeout
<1> DEFINE q == sys.domain[turn]
           r == [q EXCEPT !.capable = capable]
           s == Set(sys, turn, r)
           t == Perform(s, turn, c)
           told == t.domain[turn].clock # s.domain[turn].clock
           u == GmStableSM(t, turn, c.expired /\ ~told)
<1>1. turn \in Domains /\ turn' \in Domains /\ Configured /\ OK(sys) /\ q \in Domain /\ Right(q, turn)
  BY DEF IInv, OK, System, Domains
<1>2. r \in Domain /\ r.stable = q.stable /\ r.clock = q.clock /\ Right(r, turn)
  <2> HIDE DEF q
  <2>1. r \in Domain
    BY <1>1, Zenon DEF Domain
  <2> QED
    BY <1>1, <2>1 DEF Domain, Right, Consistent
<1>3. Becomes(u) /\ (told <=> ~SameClock(s, t, turn))
  BY DEF SameClock
<1> HIDE DEF r, told
<1>4. Settles(sys, s, turn) /\ OK(s) /\ Right(s.domain[turn], turn) /\ Calm(sys, s)
  BY <1>1, <1>2, SettingLemma, SettlesLemma DEF Quiet
<1> HIDE DEF s
<1>5. Settles(s, t, turn) /\ OK(t) /\ Right(t.domain[turn], turn) /\ Moves(s, t, turn)
  BY <1>1, <1>4, PerformLemma, SettlesLemma
<1> HIDE DEF t
<1>6. Settles(t, u, turn) /\ UpDown(t, u, turn) /\ (told => Down(t, u, turn))
  BY <1>1, <1>5, GmStableLemma, SettlesLemma
<1> HIDE DEF u
<1>7. Settles(sys, u, turn)
  BY <1>1, <1>4, <1>5, <1>6, SettlesLemma
<1>8. UpDown(s, u, turn)
  <2>1. CASE told
    BY <1>5, <1>6, <2>1, CalmLemma DEF Moves
  <2>2. CASE ~told
    BY <1>3, <1>5, <1>6, <2>2, CalmLemma DEF Moves
  <2> QED
    BY <2>1, <2>2
<1>9. UpDown(sys, u, turn)
  BY <1>4, <1>8, CalmLemma
<1> QED
  BY <1>1, <1>3, <1>7, <1>9, InvLemma

LEMMA AnnounceLemma == IInv /\ Announce => IInv' /\ Handles
<1> SUFFICES ASSUME IInv, NEW d \in Domains, NEW c \in Outcomes, Becomes(Perform(sys, d, c)),
                    turn' = turn
             PROVE  IInv' /\ Handles
  BY DEF Announce
<1>1. Settles(sys, Perform(sys, d, c), d) /\ UpDown(sys, Perform(sys, d, c), d) /\ turn' \in Domains
  BY PerformLemma DEF IInv, Moves
<1> QED
  BY <1>1, InvLemma

LEMMA RecvSyncLemma == IInv /\ RecvSync => IInv' /\ Handles
<1> SUFFICES ASSUME IInv, NEW d \in Domains, Becomes(SetGmSync(sys, d, FALSE)), turn' = turn
             PROVE  IInv' /\ Handles
  BY DEF RecvSync
<1>1. Settles(sys, SetGmSync(sys, d, FALSE), d) /\ Quiet(sys, SetGmSync(sys, d, FALSE), d)
      /\ turn' \in Domains
  BY SetGmSyncLemma DEF IInv, Settles, Right, Losing
<1>2. UpDown(sys, SetGmSync(sys, d, FALSE), d)
  BY <1>1, CalmLemma DEF Quiet
<1> QED
  BY <1>1, <1>2, InvLemma

LEMMA ActiveDomainSwitchLemma == IInv /\ ActiveDomainSwitch => IInv'
<1> SUFFICES ASSUME IInv, NEW i \in Domains \cup {AutoSwitch}, turn' = turn,
                    Becomes([sys EXCEPT !.fixed = i, !.asked = TRUE,
                                        !.active = IF i = AutoSwitch THEN @ ELSE i])
             PROVE  IInv'
  BY DEF ActiveDomainSwitch
<1> DEFINE active == IF i = AutoSwitch THEN sys.active ELSE i
<1>1. sys \in System
  BY DEF IInv, OK
<1>2. active \in Domains
  BY <1>1 DEF System
<1>3. sys' = [[[sys EXCEPT !.fixed = i] EXCEPT !.asked = TRUE] EXCEPT !.active = active]
  BY <1>1 DEF Becomes, System
<1> HIDE DEF active
<1>4. sys' \in System
  BY <1>1, <1>2, <1>3, Zenon DEF System
<1>5. sys'.domain = sys.domain /\ sys'.asked
  BY <1>1, <1>3 DEF System
<1>6. OK(sys)'
  BY <1>4, <1>5 DEF OK, Active
<1>7. Configured' /\ turn' \in Domains
  BY DEF IInv, Configured, Becomes
<1> QED
  BY <1>5, <1>6, <1>7 DEF IInv

LEMMA InitLemma == Init => IInv
<1> SUFFICES ASSUME Init PROVE IInv
  OBVIOUS
<1> DEFINE q == [capable |-> FALSE, gm |-> "none", role |-> "none", gmsync |-> FALSE,
                 weAreGm |-> FALSE, stable |-> FALSE, deferred |-> FALSE, slaveTime |-> FALSE,
                 machine |-> "Initialize", gmChange |-> FALSE, clock |-> "none", initdone |-> FALSE]
<1>1. q \in Domain /\ ~q.stable /\ \A d \in Domains : Right(q, d)
  BY DEF Domain, Clocks, Right, Consistent
<1>2. sys = [domain |-> [d \in Domains |-> q], active |-> 0, fixed |-> AutoSwitch, asked |-> FALSE]
  BY DEF Init
<1> HIDE DEF q
<1>3. sys \in System
  BY <1>1, <1>2 DEF System, Domains
<1>4. \A d \in Domains : sys.domain[d] = q
  BY <1>2
<1>5. Active(sys)
  BY <1>1, <1>4 DEF Active, StableDomains
<1> QED
  BY <1>1, <1>3, <1>4, <1>5 DEF IInv, OK, Configured, Init, Domains

LEMMA StepLemma == IInv /\ [Next]_vars => IInv'
<1> SUFFICES ASSUME IInv, [Next]_vars PROVE IInv'
  OBVIOUS
<1>1. CASE UNCHANGED vars
  BY <1>1 DEF vars, IInv, OK, Active, StableDomains, Configured
<1> QED
  BY <1>1, TimeoutLemma, AnnounceLemma, RecvSyncLemma, ActiveDomainSwitchLemma DEF Next

LEMMA Invariance == Spec => []IInv
  BY InitLemma, StepLemma, PTL DEF Spec

(* In every state each variable has its type; domain 0 defers gmsync       *)
(* exactly during the initial slave time, and domain 1 has none.           *)
THEOREM TypeCorrect == Spec => []TypeOK
<1>1. IInv => TypeOK
  <2> SUFFICES ASSUME IInv PROVE TypeOK
    OBVIOUS
  <2>1. sys \in System
    BY DEF IInv, OK
  <2>2. sys.domain \in [Domains -> Domain] /\ DOMAIN sys = {"domain", "active", "fixed", "asked"}
        /\ sys.active \in Domains /\ sys.fixed \in Domains \cup {AutoSwitch} /\ sys.asked \in BOOLEAN
    BY <2>1 DEF System
  <2>3. \A d \in Domains : sys.domain[d].slaveTime <=> d = 0 /\ sys.domain[d].deferred
    BY DEF IInv, Right, Consistent
  <2> QED
    BY <2>2, <2>3, Zenon DEF TypeOK, IInv, Configured, Domain, Clocks
<1> QED
  BY <1>1, Invariance, PTL

(* Unless an application has asked for a domain, it is given the clock of  *)
(* a stable one when there is one, whatever the domains select, and in     *)
(* whatever order: gptpclock_update_active_domain runs at every change.    *)
THEOREM ActiveDomainIsStable == Spec => []ActiveIsStable
<1>1. IInv => ActiveIsStable
  BY DEF IInv, OK, Active, ActiveIsStable
<1> QED
  BY <1>1, Invariance, PTL

(* A system never takes itself for the grandmaster of a domain that has    *)
(* another one: within a handler gmsync is lost before weAreGm is wrong.   *)
THEOREM OnlyGmTakesItselfForGm == Spec => []WeAreGmIsGm
<1>1. IInv => WeAreGmIsGm
  BY DEF IInv, Right, WeAreGmIsGm
<1> QED
  BY <1>1, Invariance, PTL
-----------------------------------------------------------------------------
(* The refinement of ActiveDomain.                                         *)

(* A domain that an application has fixed is the active one. *)
Obeys == sys.fixed # AutoSwitch => sys.active = sys.fixed

(* A handler changes the stability of one domain at most: the active one   *)
(* changes as Change allows.                                               *)
LEMMA HandlesLemma ==
    ASSUME IInv, IInv', Obeys, Handles
    PROVE  Obeys' /\ Promise!Change
<1> DEFINE S == StableDomains(sys)
           T == StableDomains(sys')
<1>1. sys.active \in Domains /\ sys.fixed \in Domains \cup {AutoSwitch} /\ sys'.active \in Domains
      /\ S \subseteq Domains /\ T \subseteq Domains
  BY DEF IInv, OK, System, StableDomains
<1>2. conf.auto \in {0, 1, 2} /\ conf' = conf
  BY GmSyncAssumption DEF IInv, Configured, Handles
<1>3. PICK d \in Domains : \E u : Up(sys, u, d) /\ Down(u, sys', d)
  BY DEF Handles, UpDown
<1> PICK u : Up(sys, u, d) /\ Down(u, sys', d)
  BY <1>3
<1> DEFINE U == StableDomains(u)
<1>4. (U = S \/ U = S \cup {d}) /\ Chooses(sys, u, U)
  BY DEF Up, Calm, Chooses
<1>5. T = U \/ T = U \ {d}
  BY DEF Down, Calm, Chooses
<1>6. Chooses(u, sys', T)
  BY DEF Down, Calm, Chooses
<1>7. sys'.fixed = sys.fixed
  BY <1>4, <1>6 DEF Chooses
<1> DEFINE a == IF U = S THEN sys.active ELSE Choice(sys.fixed, U, sys.active)
<1>8. sys'.active = IF T = U THEN a ELSE Choice(sys.fixed, T, a)
  BY <1>4, <1>6 DEF Chooses
<1>9. Obeys'
  BY <1>1, <1>7, <1>8 DEF Obeys, Choice
<1>10. CASE sys.fixed # AutoSwitch
  <2>1. sys'.active = sys.active
    BY <1>7, <1>9, <1>10 DEF Obeys
  <2> QED
    BY <1>1, <1>2, <1>7, <1>9, <1>10, <2>1 DEF Promise!Change, Promise!Keep, Promise!Automatic,
       Promise!Domains, Promise!AutoSwitch, Domains, AutoSwitch
<1>11. CASE sys.fixed = AutoSwitch /\ conf.auto = 0
  <2>1. sys'.active = sys.active
    BY <1>8, <1>11 DEF Choice
  <2> QED
    BY <1>1, <1>2, <1>7, <1>9, <1>11, <2>1 DEF Promise!Change, Promise!Keep, Promise!Automatic,
       Promise!Domains, Domains
<1>12. CASE sys.fixed = AutoSwitch /\ conf.auto # 0
  <2> DEFINE P(X) == IF conf.auto = 2 /\ 0 \in X THEN {0} ELSE X
             b == sys.active
             c == sys'.active
  <2>1. /\ c = IF T = U THEN a ELSE Choice(AutoSwitch, T, a)
        /\ a = IF U = S THEN b ELSE Choice(AutoSwitch, U, b)
    BY <1>8, <1>12
  <2>2. ASSUME NEW X \in SUBSET Domains, NEW x \in Domains
        PROVE  /\ X # {} => Choice(AutoSwitch, X, x) \in P(X)
               /\ X = {} => Choice(AutoSwitch, X, x) = x
               /\ x \in P(X) => Choice(AutoSwitch, X, x) = x
               /\ Choice(AutoSwitch, X, x) \in Domains
    <3>1. 0 \notin X /\ X # {} => 1 \in X /\ \A y \in X : y = 1
      BY DEF Domains
    <3> QED
      BY <1>2, <1>12, <3>1 DEF Choice, Domains
  <2>3. U \in SUBSET Domains /\ T \in SUBSET Domains /\ b \in Domains /\ a \in Domains
    <3>1. U \in SUBSET Domains /\ T \in SUBSET Domains /\ b \in Domains
      BY <1>1, <1>4
    <3> HIDE DEF U, S, b
    <3> QED
      BY <2>1, <2>2, <3>1
  <2>4. c \in Domains /\ d \in Domains /\ S \subseteq Domains
    BY <1>1
  <2> HIDE DEF S, T, U, P, a, b, c
  <2>5. ASSUME T # {}, T # S \/ c # b PROVE c \in P(T) /\ (b \in P(T) => c = b)
    <3>1. c \in P(T)
      BY <2>1, <2>2, <2>3, <2>5
    <3>2. ASSUME b \in P(T) PROVE c = b
      <4>1. CASE U = S
        BY <2>1, <2>2, <2>3, <3>2, <4>1
      <4>2. CASE T = U
        BY <2>1, <2>2, <2>3, <3>2, <4>2
      <4>3. CASE U # S /\ T # U
        <5>1. T = S /\ d \notin T
          BY <1>4, <1>5, <4>3
        <5>2. \A x, y \in T : x = y
          BY <2>3, <2>4, <5>1 DEF Domains
        <5> QED
          BY <3>1, <3>2, <5>2 DEF P
      <4> QED
        BY <4>1, <4>2, <4>3
    <3> QED
      BY <3>1, <3>2
  <2>6. ASSUME T = {}, c # b PROVE S = {}
    <3>1. c = a
      BY <2>1, <2>2, <2>3, <2>6
    <3>2. U # S
      BY <2>1, <2>6, <3>1
    <3> QED
      BY <1>4, <1>5, <2>6, <3>2
  <2>7. (c \in Domains \ {b} /\ b \notin P(T) /\ (c \in P(T) \/ (T = {} /\ b \notin S)))
        \/ (c = b /\ (T # S => b \in P(T) \/ T = {}))
    BY <2>4, <2>5, <2>6 DEF P
  <2>8. Promise!Preferred(T) = P(T)
    BY DEF Promise!Preferred, P
  <2>9. Promise!Switch \/ Promise!Keep
    BY <1>2, <1>12, <2>7, <2>8 DEF Promise!Switch, Promise!Keep, Promise!Automatic,
       Promise!AutoSwitch, AutoSwitch, Promise!Domains, Domains, S, T, b, c
  <2>10. T \in SUBSET Promise!Domains
    BY <2>3 DEF Promise!Domains, Domains
  <2> QED
    BY <1>2, <1>7, <1>9, <2>9, <2>10 DEF Promise!Change, T
<1> QED
  BY <1>1, <1>10, <1>11, <1>12

(* However the domains become stable and unstable, within a handler as     *)
(* well, the active domain is the one that ActiveDomain promises: a stable *)
(* one is left only for one that is preferred                              *)
(* (gptpclock_update_active_domain).                                       *)
THEOREM ImplementsActiveDomain == Spec => KeepsPromise
<1>1. Init => Promise!Init /\ Obeys
  <2> SUFFICES ASSUME Init PROVE Promise!Init /\ Obeys
    OBVIOUS
  <2>1. conf.auto \in {0, 1, 2}
    BY GmSyncAssumption DEF Init
  <2>2. sys.active = 0 /\ sys.fixed = AutoSwitch /\ StableDomains(sys) = {}
    BY DEF Init, StableDomains
  <2> QED
    BY <2>1, <2>2 DEF Promise!Init, Promise!AutoSwitch, AutoSwitch, Obeys
<1>2. IInv /\ Obeys /\ [Next]_vars => Obeys' /\ [Promise!Next]_(Promise!vars)
  <2> SUFFICES ASSUME IInv, Obeys, [Next]_vars PROVE Obeys' /\ [Promise!Next]_(Promise!vars)
    OBVIOUS
  <2>1. CASE Timeout \/ Announce \/ RecvSync
    <3>1. IInv' /\ Handles
      BY <2>1, TimeoutLemma, AnnounceLemma, RecvSyncLemma
    <3> QED
      BY <3>1, HandlesLemma DEF Promise!Next
  <2>2. CASE ActiveDomainSwitch
    <3>1. PICK i \in Domains \cup {AutoSwitch} :
              Becomes([sys EXCEPT !.fixed = i, !.asked = TRUE,
                                  !.active = IF i = AutoSwitch THEN @ ELSE i])
      BY <2>2 DEF ActiveDomainSwitch
    <3>2. /\ sys'.domain = sys.domain /\ sys'.fixed = i /\ conf' = conf
          /\ sys'.active = IF i = AutoSwitch THEN sys.active ELSE i
      BY <3>1 DEF Becomes, IInv, OK, System
    <3>3. StableDomains(sys') = StableDomains(sys)
      BY <3>2 DEF StableDomains
    <3>4. Promise!Ask(i) /\ Obeys'
      BY <3>2, <3>3 DEF Promise!Ask, Promise!AutoSwitch, AutoSwitch, Obeys
    <3> QED
      BY <3>4 DEF Promise!Next, Promise!Domains, Promise!AutoSwitch, Domains, AutoSwitch
  <2>3. CASE UNCHANGED vars
    BY <2>3 DEF vars, Promise!vars, Obeys, StableDomains
  <2> QED
    BY <2>1, <2>2, <2>3 DEF Next
<1> QED
  BY <1>1, <1>2, Invariance, PTL DEF Spec, KeepsPromise, Promise!Spec
=============================================================================
