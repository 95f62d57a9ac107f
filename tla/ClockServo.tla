----------------------------- MODULE ClockServo -----------------------------
(***************************************************************************)
(* The clock of one domain steered by the Syncs of its grandmaster:        *)
(* ClockSlaveSync, ClockMasterSyncReceive, and the loop that closes over   *)
(* gptpclock, where setadj turns the clock the next Sync is stamped with.  *)
(*                                                                         *)
(* Phases are in ns, rates in ppb (ns of a second), a tick is half of the  *)
(* compute interval of 1 s and the interval of the Syncs.  A sample is     *)
(* what ClockSlaveSync makes of a Sync, as the difference of its two       *)
(* times: syncReceiptTime - syncReceiptLocalTime.  The ratio of the two    *)
(* clocks over an interval is 1 and a difference in ppb.  mrate is always  *)
(* 1: nothing else is assigned to it.  The configuration is the default    *)
(* one; the phase of the hardware clock is not adjusted.                   *)
(***************************************************************************)
EXTENDS Integers

CONSTANTS
    NewGm, Stable, Unstable, ByFreq, \* PHASE_NEWGM_CRITERION .. PHASE_OFFSET_ADJUST_BY_FREQ
    TooBig,                          \* CMSR_TOO_BIG_PASSTIME_GAP
    RateStable, RateUnstable,        \* CONF_FREQ_OFFSET_STABLE_PPB, FREQ_OFFSET_UNSTABLE_PPB
    UpdateRate, MaxAdjust,           \* CONF_FREQ_OFFSET_UPDATE_MRATE_PPB, CONF_MAX_ADJUST_RATE_ON_CLOCK
    Transitions,                     \* FREQ_OFFSET_STABLE_TRNS
    AlphaStart, AlphaStable,         \* CONF_*_IIR_ALPHA_*_VALUE
    Phases,                          \* of the first grandmaster, against the clock
    Steps,                           \* how far the phase of a new grandmaster is from the old
    Outliers,                        \* how wrong a Sync may be
    Worlds                           \* bounds: how often each fault may happen, and the drifts
                                     \* of the grandmasters against the unadjusted clock

Faults == {"wrong", "lost", "change"}

ASSUME ServoAssumption ==
    /\ {NewGm, Stable, Unstable, ByFreq, TooBig} \subseteq Nat
    /\ {RateStable, RateUnstable, UpdateRate, MaxAdjust} \subseteq Nat
    /\ {Transitions, AlphaStart, AlphaStable} \subseteq Nat \ {0}
    /\ Phases \cup Steps \cup Outliers \subseteq Int
    /\ \A w \in Worlds : w.may \in [Faults -> Nat] /\ w.drifts \subseteq Int

VARIABLES
    servo,   \* clock_master_sync_receive_data
    sample,  \* syncReceiptTime - syncReceiptLocalTime
    missed,  \* the Syncs lost since
    phase,   \* of the grandmaster against thisClock, now
    drift,   \* of the grandmaster against the unadjusted clock
    world,   \* the faults that may still happen, and the drifts
    shaken   \* history: a Sync was so wrong that it was taken for a jump

vars == <<servo, sample, missed, phase, drift, world, shaken>>

Compute == 2  \* CONF_CLOCK_COMPUTE_INTERVAL_MSEC, in ticks

Abs(x) == IF x < 0 THEN -x ELSE x
Quot(x, y) == IF x < 0 THEN -((-x) \div y) ELSE x \div y  \* the division of C

(* The phase error of the clock that applications are given. *)
Error == phase - servo.offset

-----------------------------------------------------------------------------
(***************************************************************************)
(* set_phase_offsetGM.  comp is what it returns: the part of the phase to  *)
(* adjust by frequency.  noop stands for SET_PHASE_OFFSETGM_NOOP_RETURN.   *)
(***************************************************************************)
(* Mutant: the sample is taken as it is. *)
Filter_none(s, d, alpha) == d

Filter(s, d, alpha) == Quot(d, alpha) + (alpha - 1) * Quot(s.offset, alpha)

(* A small difference is left to the frequency. *)
Adopt(s, new) ==
    IF Abs(new - s.offset) < ByFreq
    THEN [servo |-> s, noop |-> FALSE, comp |-> new - s.offset]
    ELSE [servo |-> [s EXCEPT !.offset = new], noop |-> FALSE, comp |-> 0]

Filtered(s, d, ripe) ==
    LET far == Abs(d - s.offset)
    IN  CASE s.stage \in {"NotAdj", "Start"} -> Adopt([s EXCEPT !.stage = "Unstable"], d)
          [] s.stage \in {"Unstable", "Stable"} /\ ~ripe -> [servo |-> s, noop |-> TRUE, comp |-> 0]
          [] s.stage = "Unstable" /\ ripe ->
                 Adopt(IF far < Stable THEN [s EXCEPT !.stage = "Stable", !.known = TRUE] ELSE s,
                       Filter(s, d, AlphaStart))
          [] s.stage = "Stable" /\ ripe /\ ~s.known ->
                 [servo |-> [s EXCEPT !.stage = "Start"], noop |-> FALSE, comp |-> 0]
          [] s.stage = "Stable" /\ ripe /\ s.known ->
                 Adopt(IF far > Unstable THEN [s EXCEPT !.stage = "Unstable"] ELSE s,
                       Filter(s, d, AlphaStable))

(* The first big jump of the same grandmaster is not adopted. *)
SetPhase(s, d, ripe) ==
    IF Abs(d - s.offset) < NewGm THEN Filtered(s, d, ripe)
    ELSE IF s.known /\ s.stage # "NotAdj"
    THEN [servo |-> [s EXCEPT !.stage = "NotAdj"], noop |-> FALSE, comp |-> 0]
    ELSE Filtered([s EXCEPT !.stage = "Start"], d, ripe)

-----------------------------------------------------------------------------
(***************************************************************************)
(* computeGmRateRatio.  Over no time the ratio is 0/0, and what its        *)
(* conversion gives is not defined: 0, or the least of all integers, whose *)
(* abs is itself, and with which sums overflow.                            *)
(***************************************************************************)
Alpha(s) == IF s.rateStable = Transitions THEN AlphaStable ELSE AlphaStart

Rated(s, ppb) ==
    IF Abs(ppb) > RateUnstable THEN [s EXCEPT !.rateStable = 0]
    ELSE IF Abs(ppb) < RateStable /\ s.rateStable < Transitions
    THEN [s EXCEPT !.rateStable = @ + 1]
    ELSE s

(* Mutant: the rate is set, not added to the rate there is. *)
Adjust_set(s, ppb) ==
    IF Abs(ppb) <= UpdateRate THEN s
    ELSE [s EXCEPT !.adj = IF ppb > MaxAdjust THEN MaxAdjust
                           ELSE IF ppb < -MaxAdjust THEN -MaxAdjust ELSE ppb]

(* gptpclock_setadj *)
Adjust(s, ppb) ==
    LET adj == s.adj + ppb
    IN  IF Abs(ppb) <= UpdateRate THEN s
        ELSE [s EXCEPT !.adj = IF adj > MaxAdjust THEN MaxAdjust
                               ELSE IF adj < -MaxAdjust THEN -MaxAdjust ELSE adj]

Undefined(s, comp) ==
    {Adjust(Rated(s, 0), comp)} \cup
    {[Rated(s, 0) EXCEPT !.adj = a] : a \in IF comp = 0 THEN {s.adj} ELSE {-MaxAdjust, MaxAdjust}}

(* What the machine may be after the sample d, g ticks after the one it    *)
(* has last computed with.                                                 *)
Computed(s, d, g) ==
    LET p == SetPhase(s, d, IF s.started THEN g >= Compute ELSE g > 0)
        t == [p.servo EXCEPT !.last = d, !.started = @ \/ g > 0, !.gap = 0]
        ppb == IF s.started THEN Quot(Quot((d - s.last) * Compute, g), Alpha(s)) ELSE 0
    IN  IF p.noop THEN {[p.servo EXCEPT !.gap = g]}
        ELSE IF Abs(d - s.last) > TooBig THEN {t}
        ELSE IF g = 0 THEN Undefined(t, p.comp)
        ELSE {Adjust(Rated(t, ppb), ppb + p.comp)}

-----------------------------------------------------------------------------
(* clock_master_sync_receive_sm_ClockSourceReq with the sample d. *)
ClockSourceReq(s, d, g) == servo' \in Computed(s, d, g) /\ sample' = d

Elapsed == phase + Quot(drift - servo.adj, Compute)

(* A Sync arrives, wrong by e: clock_slave_sync_sm_portSyncSync.           *)
Receive(e) ==
    /\ phase' = Elapsed
    /\ ClockSourceReq(servo, Elapsed + e, servo.gap + missed + 1)
    /\ missed' = 0 /\ UNCHANGED drift

Fault(kind) == world.may[kind] > 0 /\ world' = [world EXCEPT !.may[kind] = @ - 1]

Sync == Receive(0) /\ UNCHANGED <<world, shaken>>

WrongSync ==
    /\ Fault("wrong")
    /\ \E e \in Outliers : Receive(e)
    /\ shaken' = (shaken \/ Abs(sample' - servo.offset) >= NewGm)

Lost ==
    /\ Fault("lost")
    /\ phase' = Elapsed /\ missed' = missed + 1
    /\ UNCHANGED <<servo, sample, drift, shaken>>

(* SiteSyncSync sends the last Sync again when the next one is late. *)
Repeated ==
    /\ ClockSourceReq(servo, sample, servo.gap)
    /\ UNCHANGED <<missed, phase, drift, world, shaken>>

(* gptpclock_set_gmchange, then sm_bmcs_perform asks for the last sample. *)
GmChange ==
    /\ Fault("change")
    /\ \E step \in Steps : phase' = phase + step
    /\ drift' \in world.drifts
    /\ ClockSourceReq([servo EXCEPT !.known = FALSE], sample, servo.gap)
    /\ UNCHANGED <<missed, shaken>>

(* The first selection has asked for a sample when there was none. *)
Init ==
    /\ servo = [stage |-> "Unstable", offset |-> 0, known |-> FALSE, rateStable |-> 1, adj |-> 0,
                last |-> 0, started |-> FALSE, gap |-> 0]
    /\ sample = 0 /\ missed = 0
    /\ phase \in Phases
    /\ world \in Worlds /\ drift \in world.drifts
    /\ shaken = FALSE

Next == Sync \/ WrongSync \/ Lost \/ Repeated \/ GmChange

(* A Sync is what the grandmaster keeps sending. *)
Spec == Init /\ [][Next]_vars /\ WF_vars(Sync)

-----------------------------------------------------------------------------
(* Whatever has happened, the clock settles: it is stable, and within the  *)
(* criterion of that of the phase of its grandmaster, when the faults      *)
(* cease.  Phase and frequency are adjusted by the same samples, each      *)
(* adjustment moves what the next sample measures, and the two filters     *)
(* change with the state.  (set_phase_offsetGM, computeGmRateRatio)        *)
Locked == servo.stage = "Stable" /\ Abs(Error) < Stable

Locks == <>[]Locked

(* Once the clock has been stable, a Sync that is wrong by less than what  *)
(* is taken for a jump (300 us here) never takes the clock as far as that, *)
(* by phase and by the frequency it leaves behind.  It does not hold for a *)
(* jump: its phase is not adopted, but its rate is (computeGmRateRatio     *)
(* goes on after set_phase_offsetGM has returned 0), and the clock runs    *)
(* off by up to a millisecond a second.                                    *)
PhaseKept == servo.known /\ ~shaken => Abs(Error) < 3 * ByFreq
=============================================================================
