---------------------------- MODULE MCClockServo ----------------------------
(* An instance of ClockServo with the default configuration of the program: *)
(* one fault while the clock settles or has settled on a grandmaster that  *)
(* is off by 30 ppm, and Syncs lost where the rates are the same.          *)
EXTENDS ClockServo

Times(n, kinds) == [f \in Faults |-> IF f \in kinds THEN n ELSE 0]

OneFault == {[may |-> Times(1, {f}), drifts |-> {30000}] : f \in Faults}
Losses == {[may |-> Times(3, {"lost"}), drifts |-> {0}]}

Disturbed == OneFault \cup Losses
=============================================================================
