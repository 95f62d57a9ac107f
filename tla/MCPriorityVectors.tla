------------------------- MODULE MCPriorityVectors -------------------------
(***************************************************************************)
(* Pairs of priority vectors, for TLC: each step pairs one with another.   *)
(***************************************************************************)
EXTENDS PriorityVectors

CONSTANTS Bytes, Words, Variances    \* the values fields of one and of two bytes are given

VARIABLES a, b

vars == <<a, b>>

Vectors ==
    [priority1: Bytes, quality: {0}, offsetScaledLogVariance: Variances, priority2: {0},
     clockIdentity: Bytes, stepsRemoved: Words, sourceClock: Bytes, sourcePort: {1},
     portNumber: Words]

Init == a \in Vectors /\ b = a

Next == b = a /\ b' \in Vectors \ {a} /\ a' = a

Spec == Init /\ [][Next]_vars

-----------------------------------------------------------------------------
(* "For all components, a lsser numerical value is better, and earlier     *)
(* components in the list are more significant" (compare_priority_vectors). *)
(* memcmp of the variance, in the order of the host, does not keep this:   *)
(* 0x4E5D is found better than the default 0x436A.                         *)
LesserIsBetter == ComparesFields(a, b)

=============================================================================
