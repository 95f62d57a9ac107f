-------------------------- MODULE PriorityVectors --------------------------
(***************************************************************************)
(* The priority vectors of the best master clock algorithm (gptpbasetypes, *)
(* UInteger224) and their comparison (compare_priority_vectors).           *)
(*                                                                         *)
(* The vectors are packed structures compared with memcmp: byte after byte *)
(* as they lie in memory.  A field of two bytes is in host order, on the   *)
(* targets of the daemon the low byte first.                               *)
(***************************************************************************)
EXTENDS Naturals

CONSTANT Base    \* how many values a byte has (256 in the code)

ASSUME BaseAssumption == Base \in Nat \ {0, 1}

Byte == 0 .. Base - 1
Word == 0 .. Base * Base - 1

(* memcmp(x, y, n) < 0 *)
Before(x, y, n) ==
    \E i \in 1 .. n : x[i] < y[i] /\ \A j \in 1 .. i - 1 : x[j] = y[j]

(***************************************************************************)
(* clockClass and clockAccuracy are single bytes between priority1 and     *)
(* offsetScaledLogVariance: one byte stands for both.  One byte stands for *)
(* each clock identity, too: it is kept in network order.                  *)
(***************************************************************************)
UInteger224 ==
    [priority1: Byte, quality: Byte, offsetScaledLogVariance: Word, priority2: Byte,
     clockIdentity: Byte, stepsRemoved: Word, sourceClock: Byte, sourcePort: Word,
     portNumber: Word]

Low(w) == w % Base
High(w) == w \div Base

Size == 13

Packed(v) ==
    <<v.priority1, v.quality, Low(v.offsetScaledLogVariance), High(v.offsetScaledLogVariance),
      v.priority2, v.clockIdentity, Low(v.stepsRemoved), High(v.stepsRemoved), v.sourceClock,
      Low(v.sourcePort), High(v.sourcePort), Low(v.portNumber), High(v.portNumber)>>

compare_priority_vectors(a, b) ==
    IF Before(Packed(a), Packed(b), Size) THEN "SUPERIOR_PRIORITY"
    ELSE IF Before(Packed(b), Packed(a), Size) THEN "INFERIOR_PRIORITY"
    ELSE "SAME_PRIORITY"

-----------------------------------------------------------------------------
(* What 10.3.4 of the standard asks, and the comment of the comparison:    *)
(* "For all components, a lsser numerical value is better, and earlier     *)
(* components in the list are more significant".                           *)
Fields(v) ==
    <<v.priority1, v.quality, v.offsetScaledLogVariance, v.priority2, v.clockIdentity,
      v.stepsRemoved, v.sourceClock, v.sourcePort, v.portNumber>>

NumericallyBetter(a, b) == Before(Fields(a), Fields(b), 9)

ComparesFields(a, b) ==
    compare_priority_vectors(a, b) =
        IF a = b THEN "SAME_PRIORITY"
        ELSE IF NumericallyBetter(a, b) THEN "SUPERIOR_PRIORITY" ELSE "INFERIOR_PRIORITY"

(* The first field in which the vectors differ has two bytes, and its low  *)
(* byte, which memcmp meets first, is the greater one of the lesser value. *)
Misleads(a, b) ==
    \E i \in {3, 6, 8, 9} :
        LET v == Fields(a)[i]
            w == Fields(b)[i]
        IN  /\ \A j \in 1 .. i - 1 : Fields(a)[j] = Fields(b)[j]
            /\ (v < w /\ Low(w) < Low(v)) \/ (w < v /\ Low(v) < Low(w))

=============================================================================
