---------------------------- MODULE Bmcs_proofs ----------------------------
(***************************************************************************)
(* Proofs about the comparison of priority vectors and the best master     *)
(* clock algorithm of one system, for any number of ports and whatever the *)
(* neighbours announce.                                                    *)
(***************************************************************************)
EXTENDS Bmcs, WellFoundedInduction, TLAPS

(***************************************************************************)
(* Induction over numbers                                                  *)
(***************************************************************************)
LEMMA LeastNumber ==
    ASSUME NEW T, T \subseteq Nat, T # {}
    PROVE  \E x \in T : \A y \in T : ~(y < x)
<1> DEFINE R == OpToRel(<, Nat)
<1>1. IsWellFoundedOn(R, Nat)
  BY NatLessThanWellFounded
<1>2. \A x, y \in Nat : x < y => <<x, y>> \in R
  BY DEF OpToRel
<1> HIDE DEF R
<1>3. \E x \in T : \A y \in T : ~(<<y, x>> \in R)
  BY <1>1, WFMin
<1> QED
  BY <1>2, <1>3

LEMMA Induction ==
    ASSUME NEW T, 0 \in T, \A n \in Nat : n \in T => n + 1 \in T
    PROVE  Nat \subseteq T
<1> DEFINE U == {n \in Nat : n \notin T}
<1> SUFFICES ASSUME U # {} PROVE FALSE
  OBVIOUS
<1>1. PICK x \in U : \A y \in U : ~(y < x)
  BY LeastNumber
<1>2. x \in Nat /\ x # 0 /\ x - 1 \in Nat /\ x - 1 \notin U
  BY <1>1
<1> QED
  BY <1>1, <1>2

-----------------------------------------------------------------------------
(***************************************************************************)
(* The comparison of priority vectors is a strict order on what memcmp     *)
(* sees, so that two systems that compare the same pair agree which of the *)
(* two is better.                                                          *)
(***************************************************************************)
AreBytes(x, n) == \A i \in 1 .. n : x[i] \in Nat

LEMMA BeforeTotal ==
    ASSUME NEW n \in Nat, NEW x, NEW y, AreBytes(x, n), AreBytes(y, n), \E i \in 1 .. n : x[i] # y[i]
    PROVE  Before(x, y, n) \/ Before(y, x, n)
<1> DEFINE D == {i \in 1 .. n : x[i] # y[i]}
<1>1. D \subseteq Nat /\ D # {}
  OBVIOUS
<1>2. PICK i \in D : \A j \in D : ~(j < i)
  BY <1>1, LeastNumber
<1>3. i \in 1 .. n /\ x[i] # y[i] /\ \A j \in 1 .. i - 1 : x[j] = y[j]
  BY <1>2
<1>4. x[i] \in Nat /\ y[i] \in Nat
  BY <1>3 DEF AreBytes
<1>5. CASE x[i] < y[i]
  BY <1>3, <1>5 DEF Before
<1>6. CASE y[i] < x[i]
  BY <1>3, <1>6 DEF Before
<1> QED
  BY <1>3, <1>4, <1>5, <1>6

LEMMA BeforeAsymmetric ==
    ASSUME NEW n \in Nat, NEW x, NEW y, AreBytes(x, n), AreBytes(y, n), Before(x, y, n)
    PROVE  ~Before(y, x, n)
<1> SUFFICES ASSUME Before(y, x, n) PROVE FALSE
  OBVIOUS
<1>1. PICK i \in 1 .. n : x[i] < y[i] /\ \A k \in 1 .. i - 1 : x[k] = y[k]
  BY DEF Before
<1>2. PICK j \in 1 .. n : y[j] < x[j] /\ \A k \in 1 .. j - 1 : y[k] = x[k]
  BY DEF Before
<1>3. /\ x[i] \in Nat /\ y[i] \in Nat /\ x[j] \in Nat /\ y[j] \in Nat
  BY DEF AreBytes
<1>4. CASE i < j
  BY <1>1, <1>2, <1>3, <1>4
<1>5. CASE j < i
  BY <1>1, <1>2, <1>3, <1>5
<1>6. CASE i = j
  BY <1>1, <1>2, <1>3, <1>6
<1> QED
  BY <1>4, <1>5, <1>6

LEMMA BeforeTransitive ==
    ASSUME NEW n \in Nat, NEW x, NEW y, NEW z, AreBytes(x, n), AreBytes(y, n), AreBytes(z, n),
           Before(x, y, n), Before(y, z, n)
    PROVE  Before(x, z, n)
<1>1. PICK i \in 1 .. n : x[i] < y[i] /\ \A k \in 1 .. i - 1 : x[k] = y[k]
  BY DEF Before
<1>2. PICK j \in 1 .. n : y[j] < z[j] /\ \A k \in 1 .. j - 1 : y[k] = z[k]
  BY DEF Before
<1>3. /\ x[i] \in Nat /\ y[i] \in Nat /\ z[i] \in Nat
      /\ x[j] \in Nat /\ y[j] \in Nat /\ z[j] \in Nat
  BY DEF AreBytes
<1>4. CASE i < j
  <2>1. x[i] < z[i] /\ \A k \in 1 .. i - 1 : x[k] = z[k]
    BY <1>1, <1>2, <1>3, <1>4
  <2> QED
    BY <2>1 DEF Before
<1>5. CASE j < i
  <2>1. x[j] < z[j] /\ \A k \in 1 .. j - 1 : x[k] = z[k]
    BY <1>1, <1>2, <1>3, <1>5
  <2> QED
    BY <2>1 DEF Before
<1>6. CASE i = j
  <2>1. x[i] < z[i] /\ \A k \in 1 .. i - 1 : x[k] = z[k]
    BY <1>1, <1>2, <1>3, <1>6
  <2> QED
    BY <2>1 DEF Before
<1> QED
  BY <1>4, <1>5, <1>6

(* What memcmp sees of a vector are bytes. *)
LEMMA PackedLemma ==
    ASSUME NEW v \in UInteger224 PROVE AreBytes(Packed(v), Size)
<1>1. ASSUME NEW w \in Word PROVE Low(w) \in Nat /\ High(w) \in Nat
  BY BaseAssumption DEF Word, Low, High
<1>2. /\ v.priority1 \in Nat /\ v.quality \in Nat /\ v.priority2 \in Nat
      /\ v.clockIdentity \in Nat /\ v.sourceClock \in Nat
      /\ v.offsetScaledLogVariance \in Word /\ v.stepsRemoved \in Word
      /\ v.sourcePort \in Word /\ v.portNumber \in Word
  BY BaseAssumption DEF UInteger224, Byte
<1> QED
  BY <1>1, <1>2 DEF AreBytes, Packed, Size

(* Of two vectors one system finds superior, every system finds the other  *)
(* inferior (compare_priority_vectors).                                    *)
THEOREM SuperiorIsInferiorReversed ==
    ASSUME NEW a \in UInteger224, NEW b \in UInteger224
    PROVE  compare_priority_vectors(a, b) = "SUPERIOR_PRIORITY" <=>
               compare_priority_vectors(b, a) = "INFERIOR_PRIORITY"
<1>1. Size \in Nat /\ AreBytes(Packed(a), Size) /\ AreBytes(Packed(b), Size)
  BY PackedLemma DEF Size
<1> QED
  BY <1>1, BeforeAsymmetric DEF compare_priority_vectors

(* A vector that is better than a better one is better: the choice of the  *)
(* best of three does not depend on the order of the comparisons.          *)
THEOREM SuperiorIsTransitive ==
    ASSUME NEW a \in UInteger224, NEW b \in UInteger224, NEW c \in UInteger224,
           compare_priority_vectors(a, b) = "SUPERIOR_PRIORITY",
           compare_priority_vectors(b, c) = "SUPERIOR_PRIORITY"
    PROVE  compare_priority_vectors(a, c) = "SUPERIOR_PRIORITY"
<1>1. /\ Size \in Nat /\ AreBytes(Packed(a), Size) /\ AreBytes(Packed(b), Size)
      /\ AreBytes(Packed(c), Size)
  BY PackedLemma DEF Size
<1>2. Before(Packed(a), Packed(b), Size) /\ Before(Packed(b), Packed(c), Size)
  BY DEF compare_priority_vectors
<1> QED
  BY <1>1, <1>2, BeforeTransitive DEF compare_priority_vectors

(***************************************************************************)
(* Where the order of the bytes is that of the fields.  Places are those   *)
(* of the nine fields in what memcmp sees; WordFields have two bytes.      *)
(***************************************************************************)
Places == <<1, 2, 3, 5, 6, 7, 9, 10, 12>>
WordFields == {3, 6, 8, 9}

LEMMA WordLemma ==
    ASSUME NEW v \in Word, NEW w \in Word
    PROVE  /\ Low(v) \in Nat /\ High(v) \in Nat /\ Low(w) \in Nat /\ High(w) \in Nat
           /\ v < w /\ Low(v) = Low(w) => High(v) < High(w)
           /\ v < w /\ High(v) = High(w) => Low(v) < Low(w)
<1>1. Base \in Nat \ {0} /\ v \in Nat /\ w \in Nat
  BY BaseAssumption DEF Word
<1>2. /\ Low(v) \in Nat /\ High(v) \in Nat /\ v = Base * High(v) + Low(v)
      /\ Low(w) \in Nat /\ High(w) \in Nat /\ w = Base * High(w) + Low(w)
  BY <1>1 DEF Low, High
<1>3. ASSUME Low(v) = Low(w), ~(High(v) < High(w)) PROVE ~(v < w)
  <2>1. PICK n \in Nat : High(v) = High(w) + n
    <3>1. High(v) - High(w) \in Nat /\ High(v) = High(w) + (High(v) - High(w))
      BY <1>2, <1>3
    <3> QED
      BY <3>1
  <2>2. Base * High(v) = Base * High(w) + Base * n /\ Base * n \in Nat
    BY <1>1, <1>2, <2>1
  <2>3. Base * High(v) \in Nat /\ Base * High(w) \in Nat
    BY <1>1, <1>2
  <2> QED
    BY <1>2, <1>3, <2>2, <2>3
<1>4. ASSUME v < w, High(v) = High(w) PROVE Low(v) < Low(w)
  <2>1. Base * High(v) \in Nat
    BY <1>1, <1>2
  <2> QED
    BY <1>2, <1>4, <2>1
<1> QED
  BY <1>2, <1>3, <1>4

LEMMA FieldsLemma ==
    ASSUME NEW v \in UInteger224
    PROVE  /\ \A k \in 1 .. 9 : Fields(v)[k] \in Nat
           /\ \A k \in 1 .. 9 \ WordFields : Packed(v)[Places[k]] = Fields(v)[k]
           /\ \A k \in WordFields :
                  /\ Fields(v)[k] \in Word
                  /\ Packed(v)[Places[k]] = Low(Fields(v)[k])
                  /\ Packed(v)[Places[k] + 1] = High(Fields(v)[k])
<1>1. /\ v.offsetScaledLogVariance \in Word /\ v.stepsRemoved \in Word
      /\ v.sourcePort \in Word /\ v.portNumber \in Word
      /\ v.priority1 \in Nat /\ v.quality \in Nat /\ v.priority2 \in Nat
      /\ v.clockIdentity \in Nat /\ v.sourceClock \in Nat
  BY BaseAssumption DEF UInteger224, Byte
<1>2. Word \subseteq Nat
  BY BaseAssumption DEF Word
<1>3. /\ Fields(v)[1] = v.priority1 /\ Fields(v)[2] = v.quality
      /\ Fields(v)[3] = v.offsetScaledLogVariance /\ Fields(v)[4] = v.priority2
      /\ Fields(v)[5] = v.clockIdentity /\ Fields(v)[6] = v.stepsRemoved
      /\ Fields(v)[7] = v.sourceClock /\ Fields(v)[8] = v.sourcePort
      /\ Fields(v)[9] = v.portNumber
  BY DEF Fields
<1>4. \A k \in 1 .. 9 : Fields(v)[k] \in Nat
  <2>1. /\ Fields(v)[1] \in Nat /\ Fields(v)[2] \in Nat /\ Fields(v)[3] \in Nat
        /\ Fields(v)[4] \in Nat /\ Fields(v)[5] \in Nat /\ Fields(v)[6] \in Nat
        /\ Fields(v)[7] \in Nat /\ Fields(v)[8] \in Nat /\ Fields(v)[9] \in Nat
    BY <1>1, <1>2, <1>3
  <2>2. 1 .. 9 = {1, 2, 3, 4, 5, 6, 7, 8, 9}
    OBVIOUS
  <2> QED
    BY <2>1, <2>2
<1>5. \A k \in 1 .. 9 \ WordFields : Packed(v)[Places[k]] = Fields(v)[k]
  BY DEF Fields, Packed, Places, WordFields
<1>6. \A k \in WordFields :
          /\ Packed(v)[Places[k]] = Low(Fields(v)[k])
          /\ Packed(v)[Places[k] + 1] = High(Fields(v)[k])
  BY DEF Fields, Packed, Places, WordFields
<1>7. \A k \in WordFields : Fields(v)[k] \in Word
  BY <1>1, <1>3 DEF WordFields
<1> QED
  BY <1>4, <1>5, <1>6, <1>7

(* The bytes before a field are those of the fields before it. *)
LEMMA BytesBefore ==
    ASSUME NEW x, NEW y, NEW i \in 1 .. 9,
           \A k \in 1 .. i - 1 :
               x[Places[k]] = y[Places[k]] /\ (k \in WordFields => x[Places[k] + 1] = y[Places[k] + 1])
    PROVE  \A j \in 1 .. Places[i] - 1 : x[j] = y[j]
<1>1. /\ 1 < i => x[1] = y[1]
      /\ 2 < i => x[2] = y[2]
      /\ 3 < i => x[3] = y[3] /\ x[4] = y[4]
      /\ 4 < i => x[5] = y[5]
      /\ 5 < i => x[6] = y[6]
      /\ 6 < i => x[7] = y[7] /\ x[8] = y[8]
      /\ 7 < i => x[9] = y[9]
      /\ 8 < i => x[10] = y[10] /\ x[11] = y[11]
  BY DEF Places, WordFields
<1> QED
  BY <1>1 DEF Places

(* The byte order of two vectors is decided in the first field in which    *)
(* they differ, by its low byte before its high one.                       *)
LEMMA FirstDifference ==
    ASSUME NEW a \in UInteger224, NEW b \in UInteger224, NEW i \in 1 .. 9,
           \A k \in 1 .. i - 1 : Fields(a)[k] = Fields(b)[k], Fields(a)[i] < Fields(b)[i]
    PROVE  IF i \in WordFields /\ Low(Fields(b)[i]) < Low(Fields(a)[i])
           THEN Before(Packed(b), Packed(a), 13) ELSE Before(Packed(a), Packed(b), 13)
<1> DEFINE x == Packed(a)
           y == Packed(b)
           f == Fields(a)
           g == Fields(b)
           n == Places[i]
<1>1. \A j \in 1 .. n - 1 : x[j] = y[j] /\ y[j] = x[j]
  <2>1. \A k \in 1 .. i - 1 :
            x[Places[k]] = y[Places[k]] /\ (k \in WordFields => x[Places[k] + 1] = y[Places[k] + 1])
    BY FieldsLemma
  <2> HIDE DEF x, y
  <2> QED
    BY <2>1, BytesBefore
<1>2. n \in 1 .. 13 /\ (i \in WordFields => n + 1 \in 1 .. 13)
  BY DEF Places, WordFields
<1>3. AreBytes(x, 13) /\ AreBytes(y, 13)
  BY PackedLemma DEF Size
<1>4. f[i] < g[i]
  OBVIOUS
<1>5. CASE i \notin WordFields
  <2>1. x[n] = f[i] /\ y[n] = g[i]
    BY <1>5, FieldsLemma
  <2> HIDE DEF x, y, n, f, g
  <2>2. Before(x, y, 13)
    BY <1>1, <1>2, <1>4, <2>1 DEF Before
  <2> QED
    BY <1>5, <2>2 DEF x, y
<1>6. CASE i \in WordFields
  <2>1. /\ x[n] = Low(f[i]) /\ x[n + 1] = High(f[i]) /\ f[i] \in Word
        /\ y[n] = Low(g[i]) /\ y[n + 1] = High(g[i]) /\ g[i] \in Word
    BY <1>6, FieldsLemma
  <2> HIDE DEF x, y, n, f, g
  <2>2. x[n] = y[n] => x[n + 1] < y[n + 1]
    BY <1>4, <2>1, WordLemma
  <2>3. x[n] \in Nat /\ y[n] \in Nat
    BY <1>2, <1>3 DEF AreBytes
  <2>4. CASE y[n] < x[n]
    <3>1. Before(y, x, 13)
      BY <1>1, <1>2, <2>4 DEF Before
    <3> QED
      BY <1>6, <2>1, <2>4, <3>1 DEF x, y, f, g
  <2>5. CASE x[n] < y[n]
    <3>1. Before(x, y, 13)
      BY <1>1, <1>2, <2>5 DEF Before
    <3>2. ~(y[n] < x[n])
      BY <2>3, <2>5
    <3> QED
      BY <1>6, <2>1, <3>1, <3>2 DEF x, y, f, g
  <2>6. CASE x[n] = y[n]
    <3>1. \A j \in 1 .. (n + 1) - 1 : x[j] = y[j]
      BY <1>1, <1>2, <2>6
    <3>2. Before(x, y, 13)
      BY <1>2, <1>6, <2>2, <2>6, <3>1 DEF Before
    <3>3. ~(y[n] < x[n])
      BY <2>3, <2>6
    <3> QED
      BY <1>6, <2>1, <3>2, <3>3 DEF x, y, f, g
  <2> QED
    BY <2>3, <2>4, <2>5, <2>6
<1> QED
  BY <1>5, <1>6

(* Two vectors that differ do so in a first field. *)
LEMMA DifferenceExists ==
    ASSUME NEW a \in UInteger224, NEW b \in UInteger224, a # b
    PROVE  \E i \in 1 .. 9 :
               /\ Fields(a)[i] < Fields(b)[i] \/ Fields(b)[i] < Fields(a)[i]
               /\ \A k \in 1 .. i - 1 : Fields(a)[k] = Fields(b)[k]
<1> DEFINE f == Fields(a)
           g == Fields(b)
<1>1. /\ f[1] = a.priority1 /\ f[2] = a.quality /\ f[3] = a.offsetScaledLogVariance
      /\ f[4] = a.priority2 /\ f[5] = a.clockIdentity /\ f[6] = a.stepsRemoved
      /\ f[7] = a.sourceClock /\ f[8] = a.sourcePort /\ f[9] = a.portNumber
  BY DEF Fields
<1>2. /\ g[1] = b.priority1 /\ g[2] = b.quality /\ g[3] = b.offsetScaledLogVariance
      /\ g[4] = b.priority2 /\ g[5] = b.clockIdentity /\ g[6] = b.stepsRemoved
      /\ g[7] = b.sourceClock /\ g[8] = b.sourcePort /\ g[9] = b.portNumber
  BY DEF Fields
<1>3. AreBytes(f, 9) /\ AreBytes(g, 9)
  BY FieldsLemma DEF AreBytes
<1> HIDE DEF f, g
<1>4. \E k \in 1 .. 9 : f[k] # g[k]
  <2> SUFFICES ASSUME \A k \in 1 .. 9 : f[k] = g[k] PROVE a = b
    OBVIOUS
  <2>1. /\ f[1] = g[1] /\ f[2] = g[2] /\ f[3] = g[3] /\ f[4] = g[4] /\ f[5] = g[5]
        /\ f[6] = g[6] /\ f[7] = g[7] /\ f[8] = g[8] /\ f[9] = g[9]
    OBVIOUS
  <2>2. /\ a.priority1 = b.priority1 /\ a.quality = b.quality
        /\ a.offsetScaledLogVariance = b.offsetScaledLogVariance
        /\ a.priority2 = b.priority2 /\ a.clockIdentity = b.clockIdentity
        /\ a.stepsRemoved = b.stepsRemoved /\ a.sourceClock = b.sourceClock
        /\ a.sourcePort = b.sourcePort /\ a.portNumber = b.portNumber
    BY <1>1, <1>2, <2>1
  <2> QED
    BY <2>2 DEF UInteger224
<1>5. Before(f, g, 9) \/ Before(g, f, 9)
  BY <1>3, <1>4, BeforeTotal
<1> QED
  BY <1>5 DEF Before, f, g

(* Of any two vectors, memcmp finds the one superior that is better field  *)
(* by field, but exactly when the first field that differs misleads it:    *)
(* one of two bytes, with the greater low byte in the lesser value         *)
(* (compare_priority_vectors).                                             *)
THEOREM ComparesUnlessMisled ==
    ASSUME NEW a \in UInteger224, NEW b \in UInteger224
    PROVE  ComparesFields(a, b) <=> ~Misleads(a, b)
<1> DEFINE x == Packed(a)
           y == Packed(b)
           f == Fields(a)
           g == Fields(b)
<1>1. AreBytes(x, 13) /\ AreBytes(y, 13)
  BY PackedLemma DEF Size
<1>2. AreBytes(f, 9) /\ AreBytes(g, 9)
  BY FieldsLemma DEF AreBytes
<1>3. compare_priority_vectors(a, b) =
          IF Before(x, y, 13) THEN "SUPERIOR_PRIORITY"
          ELSE IF Before(y, x, 13) THEN "INFERIOR_PRIORITY" ELSE "SAME_PRIORITY"
  BY DEF compare_priority_vectors, Size
<1>4. NumericallyBetter(a, b) <=> Before(f, g, 9)
  BY DEF NumericallyBetter
<1>5. Misleads(a, b) <=>
          \E i \in WordFields :
              /\ \A j \in 1 .. i - 1 : f[j] = g[j]
              /\ \/ f[i] < g[i] /\ Low(g[i]) < Low(f[i])
                 \/ g[i] < f[i] /\ Low(f[i]) < Low(g[i])
  BY DEF Misleads, WordFields
<1>6. CASE a = b
  <2>1. x = y /\ f = g
    BY <1>6
  <2> HIDE DEF x, y, f, g
  <2>2. ~Before(x, y, 13)
    BY <1>1, <2>1, BeforeAsymmetric
  <2>3. \A i \in WordFields : f[i] \in Nat
    BY <1>2 DEF AreBytes, WordFields
  <2> QED
    BY <1>3, <1>5, <1>6, <2>1, <2>2, <2>3 DEF ComparesFields
<1>7. CASE a # b
  <2>1. PICK i \in 1 .. 9 :
            /\ f[i] < g[i] \/ g[i] < f[i]
            /\ \A k \in 1 .. i - 1 : f[k] = g[k]
    BY <1>7, DifferenceExists
  <2> DEFINE misled == i \in WordFields /\ \/ f[i] < g[i] /\ Low(g[i]) < Low(f[i])
                                           \/ g[i] < f[i] /\ Low(f[i]) < Low(g[i])
  <2>2. /\ f[i] < g[i] => IF i \in WordFields /\ Low(g[i]) < Low(f[i])
                          THEN Before(y, x, 13) ELSE Before(x, y, 13)
        /\ g[i] < f[i] => IF i \in WordFields /\ Low(f[i]) < Low(g[i])
                          THEN Before(x, y, 13) ELSE Before(y, x, 13)
    BY <2>1, FirstDifference
  <2> HIDE DEF x, y, f, g
  <2>3. f[i] \in Nat /\ g[i] \in Nat
    BY <1>2 DEF AreBytes
  <2>4. Misleads(a, b) <=> misled
    <3>1. ASSUME NEW j \in WordFields, \A k \in 1 .. j - 1 : f[k] = g[k],
                 f[j] < g[j] \/ g[j] < f[j]
          PROVE  j = i
      <4>1. j \in 1 .. 9 /\ f[j] \in Nat /\ g[j] \in Nat
        BY <1>2 DEF AreBytes, WordFields
      <4>2. ~(i < j)
        BY <2>1, <2>3, <3>1, <4>1
      <4>3. ~(j < i)
        BY <2>1, <3>1, <4>1
      <4> QED
        BY <4>1, <4>2, <4>3
    <3>2. misled => Misleads(a, b)
      BY <1>5, <2>1
    <3>3. ASSUME Misleads(a, b) PROVE misled
      <4>1. PICK j \in WordFields :
                /\ \A k \in 1 .. j - 1 : f[k] = g[k]
                /\ \/ f[j] < g[j] /\ Low(g[j]) < Low(f[j])
                   \/ g[j] < f[j] /\ Low(f[j]) < Low(g[j])
        BY <1>5, <3>3
      <4>2. j = i
        BY <3>1, <4>1
      <4> QED
        BY <4>1, <4>2
    <3> QED
      BY <3>2, <3>3
  <2>5. /\ f[i] < g[i] => Before(f, g, 9)
        /\ g[i] < f[i] => Before(g, f, 9)
    BY <2>1 DEF Before
  <2>6. Before(f, g, 9) <=> f[i] < g[i]
    BY <1>2, <2>1, <2>3, <2>5, BeforeAsymmetric
  <2>7. Before(x, y, 13) => ~Before(y, x, 13)
    BY <1>1, BeforeAsymmetric
  <2>8. ComparesFields(a, b) <=>
            compare_priority_vectors(a, b) =
                IF f[i] < g[i] THEN "SUPERIOR_PRIORITY" ELSE "INFERIOR_PRIORITY"
    BY <1>4, <1>7, <2>6 DEF ComparesFields
  <2>9. CASE f[i] < g[i]
    <3>1. misled <=> i \in WordFields /\ Low(g[i]) < Low(f[i])
      BY <2>3, <2>9
    <3>2. misled <=> Before(y, x, 13) /\ ~Before(x, y, 13)
      BY <2>2, <2>7, <2>9, <3>1
    <3>3. ~misled <=> Before(x, y, 13)
      BY <2>2, <2>7, <2>9, <3>1
    <3> HIDE DEF misled
    <3> QED
      BY <1>3, <2>4, <2>8, <2>9, <3>2, <3>3
  <2>10. CASE g[i] < f[i]
    <3>1. misled <=> i \in WordFields /\ Low(f[i]) < Low(g[i])
      BY <2>3, <2>10
    <3>2. misled <=> Before(x, y, 13)
      BY <2>2, <2>7, <2>10, <3>1
    <3>3. ~misled <=> Before(y, x, 13) /\ ~Before(x, y, 13)
      BY <2>2, <2>7, <2>10, <3>1
    <3>4. ~(f[i] < g[i])
      BY <2>3, <2>10
    <3> HIDE DEF misled
    <3> QED
      BY <1>3, <2>4, <2>8, <3>2, <3>3, <3>4
  <2> QED
    BY <2>1, <2>9, <2>10
<1> QED
  BY <1>6, <1>7

(* Systems with one variance, such as those of the default configuration,  *)
(* are compared field by field as long as their steps and port numbers     *)
(* have the same high bytes (compare_priority_vectors).                    *)
THEOREM SameVarianceCompares ==
    ASSUME NEW a \in UInteger224, NEW b \in UInteger224,
           a.offsetScaledLogVariance = b.offsetScaledLogVariance,
           High(a.stepsRemoved) = High(b.stepsRemoved),
           High(a.sourcePort) = High(b.sourcePort),
           High(a.portNumber) = High(b.portNumber)
    PROVE  ComparesFields(a, b)
<1> DEFINE f == Fields(a)
           g == Fields(b)
<1>1. \A i \in WordFields : f[i] \in Word /\ g[i] \in Word
  BY FieldsLemma
<1>2. f[3] = g[3] /\ High(f[6]) = High(g[6]) /\ High(f[8]) = High(g[8]) /\ High(f[9]) = High(g[9])
  BY DEF Fields
<1>3. Word \subseteq Nat
  BY BaseAssumption DEF Word
<1>4. Misleads(a, b) =>
          \E i \in WordFields : \/ f[i] < g[i] /\ Low(g[i]) < Low(f[i])
                                \/ g[i] < f[i] /\ Low(f[i]) < Low(g[i])
  BY DEF Misleads, WordFields
<1> HIDE DEF f, g
<1>5. ASSUME NEW i \in WordFields
      PROVE  /\ f[i] < g[i] => ~(Low(g[i]) < Low(f[i]))
             /\ g[i] < f[i] => ~(Low(f[i]) < Low(g[i]))
  <2>1. CASE i = 3
    <3>1. f[i] \in Nat /\ f[i] = g[i]
      BY <1>1, <1>2, <1>3, <2>1
    <3> QED
      BY <3>1
  <2>2. CASE i # 3
    <3>1. High(f[i]) = High(g[i])
      BY <1>2, <2>2 DEF WordFields
    <3>2. Low(f[i]) \in Nat /\ Low(g[i]) \in Nat
      BY <1>1, WordLemma
    <3>3. /\ f[i] < g[i] => Low(f[i]) < Low(g[i])
          /\ g[i] < f[i] => Low(g[i]) < Low(f[i])
      BY <1>1, <3>1, WordLemma
    <3> QED
      BY <3>2, <3>3
  <2> QED
    BY <2>1, <2>2
<1> QED
  BY <1>4, <1>5, ComparesUnlessMisled

-----------------------------------------------------------------------------
(***************************************************************************)
(* The types of a system, also within a handler.                           *)
(***************************************************************************)
Flags == [Ports -> BOOLEAN]
InfoStates == {"Disabled", "Aged", "Mine", "Received"}
PortStates == {"Disabled", "Master", "Slave", "Passive"}
Paths == Seq(Nat)
Traces == {path \in Paths : Len(path) <= MaxPath}
Vectors == Vector \cup {None}
TlvRecord == [tlv: BOOLEAN, path: Paths]
Message == [root: Nat \X Nat, steps: Nat, tlv: TlvRecord]
Messages == Message \cup {None}

Sys ==
    [system: Vector, oper: Flags, across: Flags, neighbor: Flags, asCapable: Flags,
     anyCapable: BOOLEAN, tlv: [Ports -> TlvRecord], rcvd: Announce \cup {None},
     infoIs: [Ports -> InfoStates], prio: [Ports -> Vectors], annPath: [Ports -> Paths],
     updtInfo: Flags, reselect: BOOLEAN, selected: [Ports -> PortStates],
     selected0: {"Disabled", "Slave", "Passive"}, gm: Vectors, gmIdentity: Nat,
     pathTrace: Traces, newInfo: Flags, tx: [Ports -> Messages], deferred: Flags,
     out: [Ports -> Seq(Messages)], told: [Ports -> Messages], gmsync: BOOLEAN, weAreGm: BOOLEAN,
     stable: {"Initialize", "Lost", "Unstable", "Stable"}, gmChange: BOOLEAN,
     stableClock: Nat, gmstable: BOOLEAN, spins: BOOLEAN]

(***************************************************************************)
(* What most operators leave alone: the link and the messages of ports,    *)
(* and what the selection has chosen.                                      *)
(***************************************************************************)
SameLinks(t, s) ==
    /\ t.system = s.system /\ t.oper = s.oper /\ t.asCapable = s.asCapable
    /\ t.tlv = s.tlv /\ t.spins = s.spins

SameOut(t, s) == t.tx = s.tx /\ t.deferred = s.deferred /\ t.out = s.out /\ t.told = s.told

SameChoice(t, s) == t.gm = s.gm /\ t.selected = s.selected /\ t.pathTrace = s.pathTrace

SameInfo(t, s) ==
    /\ t.infoIs = s.infoIs /\ t.prio = s.prio /\ t.annPath = s.annPath
    /\ t.rcvd = s.rcvd

SameFlags(t, s) == t.updtInfo = s.updtInfo /\ t.reselect = s.reselect

(* gmsync and gm_stable_sm touch none of these. *)
Like(t, s) ==
    /\ SameLinks(t, s) /\ SameOut(t, s) /\ SameChoice(t, s) /\ SameInfo(t, s)
    /\ SameFlags(t, s) /\ t.newInfo = s.newInfo

(* The operators that touch only what is known of the synchronization. *)
Syncs(t, s) == t \in Sys /\ Like(t, s)

LEMMA SyncsTransitive ==
    ASSUME NEW s, NEW t, NEW u, Syncs(t, s), Syncs(u, t)
    PROVE  Syncs(u, s)
  BY DEF Syncs, Like, SameLinks, SameOut, SameChoice, SameInfo, SameFlags

LEMMA SyncsReflexive == ASSUME NEW s \in Sys PROVE Syncs(s, s)
  BY DEF Syncs, Like, SameLinks, SameOut, SameChoice, SameInfo, SameFlags

LEMMA SetGmSyncFacts ==
    ASSUME NEW s \in Sys, NEW gm \in BOOLEAN
    PROVE  Syncs(SetGmSync(s, gm), s) /\ Syncs(ResetGmSync(s), s)
<1> DEFINE t == [s EXCEPT !.gmsync = TRUE, !.weAreGm = gm]
           r == [s EXCEPT !.gmsync = FALSE]
<1>1. t \in Sys /\ r \in Sys
  BY ZenonT(60) DEF Sys
<1>2. Like(t, s) /\ Like(r, s)
  BY DEF Sys, Like, SameLinks, SameOut, SameChoice, SameInfo, SameFlags
<1>3. SetGmSync(s, gm) = (IF s.gmsync THEN s ELSE t) /\ ResetGmSync(s) = r
  BY Zenon DEF SetGmSync, ResetGmSync
<1> HIDE DEF t, r
<1> QED
  BY <1>1, <1>2, <1>3, SyncsReflexive DEF Syncs

LEMMA GmLostFacts ==
    ASSUME NEW s \in Sys
    PROVE  Syncs(GmLost(s), s)
<1> DEFINE t == [s EXCEPT !.gmChange = FALSE, !.stable = "Unstable", !.gmstable = FALSE]
           r == [s EXCEPT !.gmChange = FALSE, !.stable = "Lost"]
<1>1. t \in Sys /\ r \in Sys
  BY ZenonT(60) DEF Sys
<1>2. Like(t, s) /\ Like(r, s)
  BY DEF Sys, Like, SameLinks, SameOut, SameChoice, SameInfo, SameFlags
<1>3. GmLost(s) = IF s.gmsync THEN t ELSE r
  BY Zenon DEF GmLost
<1> HIDE DEF t, r
<1> QED
  BY <1>1, <1>2, <1>3 DEF Syncs

LEMMA GmUnstableFacts ==
    ASSUME NEW s \in Sys, NEW expired \in BOOLEAN
    PROVE  Syncs(GmUnstable(s, expired), s)
<1> DEFINE t == [s EXCEPT !.stable = "Stable", !.gmstable = TRUE]
<1>1. t \in Sys
  BY ZenonT(60) DEF Sys
<1>2. Like(t, s)
  BY DEF Sys, Like, SameLinks, SameOut, SameChoice, SameInfo, SameFlags
<1>3. GmUnstable(s, expired) =
          IF expired THEN IF s.gmChange THEN GmLost(t) ELSE t
          ELSE IF s.gmChange THEN GmLost(s) ELSE s
  <2>1. t.gmChange = s.gmChange
    BY DEF Sys
  <2> QED
    BY <2>1, Zenon DEF GmUnstable
<1> HIDE DEF t
<1>4. Syncs(t, s) /\ Syncs(GmLost(t), t) /\ Syncs(GmLost(s), s)
  BY <1>1, <1>2, GmLostFacts DEF Syncs
<1> QED
  BY <1>3, <1>4, SyncsTransitive, SyncsReflexive

LEMMA GmStableFacts ==
    ASSUME NEW s \in Sys, NEW expired \in BOOLEAN
    PROVE  Syncs(GmStableSM(s, expired), s)
<1> DEFINE t == [s EXCEPT !.stable = "Initialize", !.gmstable = FALSE]
           u == [s EXCEPT !.stable = "Unstable", !.gmstable = FALSE]
<1>1. t \in Sys /\ u \in Sys
  BY ZenonT(60) DEF Sys
<1>2. Like(t, s) /\ Like(u, s)
  BY DEF Sys, Like, SameLinks, SameOut, SameChoice, SameInfo, SameFlags
<1>3. Syncs(t, s) /\ Syncs(u, s)
  BY <1>1, <1>2 DEF Syncs
<1>4. \/ GmStableSM(s, expired) \in {s, t, ResetGmSync(t), GmLost(s)}
      \/ GmStableSM(s, expired) \in {GmUnstable(u, FALSE), GmUnstable(s, expired)}
  <2>1. t.selected0 = s.selected0
    BY DEF Sys
  <2>2. s.stable \in {"Initialize", "Lost", "Unstable", "Stable"}
    BY DEF Sys
  <2> QED
    BY <2>1, <2>2 DEF GmStableSM
<1> HIDE DEF t, u
<1>5. Syncs(ResetGmSync(t), s)
  BY <1>3, SetGmSyncFacts, SyncsTransitive DEF Syncs
<1>6. Syncs(GmUnstable(u, FALSE), s)
  BY <1>3, GmUnstableFacts, SyncsTransitive DEF Syncs
<1> QED
  BY <1>3, <1>4, <1>5, <1>6, GmLostFacts, GmUnstableFacts, SyncsReflexive

LEMMA GmChangedFacts ==
    ASSUME NEW s \in Sys, s.gm \in Vector, NEW expired \in BOOLEAN
    PROVE  Syncs(GmChanged(s, expired), s)
<1> DEFINE clock == s.gm[2]
           t == [s EXCEPT !.stableClock = clock, !.gmChange = TRUE]
<1>1. clock \in Nat
  BY DEF Vector
<1>2. t \in Sys
  BY <1>1, ZenonT(60) DEF Sys
<1>3. Like(t, s)
  BY DEF Sys, Like, SameLinks, SameOut, SameChoice, SameInfo, SameFlags
<1>4. GmChanged(s, expired) =
          SetGmSync(IF s.stableClock = clock THEN s ELSE GmStableSM(t, expired), FALSE)
  BY Zenon DEF GmChanged
<1> HIDE DEF clock, t
<1>5. Syncs(GmStableSM(t, expired), s)
  BY <1>2, <1>3, GmStableFacts, SyncsTransitive DEF Syncs
<1>6. Syncs(SetGmSync(s, FALSE), s) /\ Syncs(SetGmSync(GmStableSM(t, expired), FALSE), s)
  BY <1>5, SetGmSyncFacts, SyncsTransitive DEF Syncs
<1> QED
  BY <1>4, <1>6

LEMMA OwnSyncFacts ==
    ASSUME NEW s \in Sys
    PROVE  Syncs(OwnSync(s), s)
  BY SetGmSyncFacts, SyncsReflexive DEF OwnSync

-----------------------------------------------------------------------------
(***************************************************************************)
(* The vectors of the selection: there is a best one among those of the    *)
(* system and of any number of ports.                                      *)
(***************************************************************************)
LEMMA VectorLemma ==
    ASSUME NEW v \in Vector
    PROVE  /\ v[1] \in Nat /\ v[2] \in Nat /\ v[3] \in Nat
           /\ v[4] \in Nat /\ v[5] \in Nat /\ v[6] \in Nat
           /\ v = <<v[1], v[2], v[3], v[4], v[5], v[6]>>
           /\ AreBytes(v, 6) /\ v # None
<1>1. /\ v[1] \in Nat /\ v[2] \in Nat /\ v[3] \in Nat
      /\ v[4] \in Nat /\ v[5] \in Nat /\ v[6] \in Nat
      /\ v = <<v[1], v[2], v[3], v[4], v[5], v[6]>>
  BY DEF Vector
<1>2. AreBytes(v, 6)
  BY <1>1 DEF AreBytes
<1>3. v # None
  <2>1. ASSUME NEW a, NEW b, NEW c, NEW d, NEW e, NEW f
        PROVE  <<a, b, c, d, e, f>> # <<>>
    OBVIOUS
  <2> QED
    BY <1>1, <2>1, Zenon DEF None
<1> QED
  BY <1>1, <1>2, <1>3

LEMMA SameVector ==
    ASSUME NEW v \in Vector, NEW w \in Vector, \A i \in 1 .. 6 : v[i] = w[i]
    PROVE  v = w
<1>1. v[1] = w[1] /\ v[2] = w[2] /\ v[3] = w[3] /\ v[4] = w[4] /\ v[5] = w[5] /\ v[6] = w[6]
  OBVIOUS
<1>2. /\ v = <<v[1], v[2], v[3], v[4], v[5], v[6]>>
      /\ w = <<w[1], w[2], w[3], w[4], w[5], w[6]>>
  BY VectorLemma
<1> QED
  BY <1>1, <1>2, Zenon

LEMMA BetterTotal ==
    ASSUME NEW v \in Vector, NEW w \in Vector, v # w
    PROVE  Better(v, w) \/ Better(w, v)
  BY SameVector, BeforeTotal, VectorLemma DEF Better

LEMMA BetterAsymmetric ==
    ASSUME NEW v \in Vector, NEW w \in Vector, Better(v, w)
    PROVE  ~Better(w, v)
  BY BeforeAsymmetric, VectorLemma DEF Better

LEMMA BetterTransitive ==
    ASSUME NEW u \in Vector, NEW v \in Vector, NEW w \in Vector, Better(u, v), Better(v, w)
    PROVE  Better(u, w)
  BY BeforeTransitive, VectorLemma DEF Better

IsBest(v, S) == v \in S /\ \A w \in S \ {v} : Better(v, w)

LEMMA BestUnique ==
    ASSUME NEW S, S \subseteq Vector, NEW v, NEW w, IsBest(v, S), IsBest(w, S)
    PROVE  v = w
  BY BetterAsymmetric DEF IsBest

LEMMA BestIsBest ==
    ASSUME NEW S, S \subseteq Vector, NEW v, IsBest(v, S)
    PROVE  Best(S) = v /\ IsBest(Best(S), S)
<1>1. IsBest(Best(S), S)
  BY Zenon DEF IsBest, Best
<1> QED
  BY <1>1, BestUnique

(* The vectors of the system and of some ports have a best one. *)
LEMMA BestExists ==
    ASSUME NEW v0 \in Vector, NEW Q \in SUBSET Ports, NEW f, \A p \in Q : f[p] \in Vector
    PROVE  \E v : IsBest(v, {v0} \cup {f[p] : p \in Q})
<1> DEFINE S(n) == {v0} \cup {f[p] : p \in {q \in Q : q <= n}}
           T == {n \in Nat : \E v : IsBest(v, S(n))}
<1>1. NumPorts \in Nat /\ Q \subseteq 1 .. NumPorts
  BY BmcsAssumption DEF Ports
<1>2. 0 \in T
  <2>1. \A q \in Q : ~(q <= 0)
    BY <1>1
  <2>2. {f[p] : p \in {q \in Q : q <= 0}} = {}
    BY <2>1
  <2>3. IsBest(v0, S(0))
    BY <2>2 DEF IsBest
  <2> QED
    BY <2>3
<1>3. ASSUME NEW n \in Nat, n \in T PROVE n + 1 \in T
  <2>1. PICK v : IsBest(v, S(n))
    BY <1>3
  <2>2. S(n) \subseteq Vector /\ v \in Vector
    BY <2>1 DEF IsBest
  <2>3. CASE n + 1 \notin Q
    <3>1. \A q \in Q : q <= n + 1 <=> q <= n
      BY <1>1, <2>3
    <3>2. S(n + 1) = S(n)
      BY <3>1
    <3> HIDE DEF S
    <3> QED
      BY <2>1, <3>2
  <2>4. CASE n + 1 \in Q
    <3> DEFINE x == f[n + 1]
    <3>1. x \in Vector
      BY <2>4
    <3>2. \A q \in Q : q <= n + 1 <=> q <= n \/ q = n + 1
      BY <1>1
    <3>3. S(n + 1) = S(n) \cup {x}
      BY <2>4, <3>2
    <3> HIDE DEF S, x
    <3>4. CASE x = v \/ Better(v, x)
      <4>1. IsBest(v, S(n + 1))
        BY <2>1, <3>3, <3>4 DEF IsBest
      <4> QED
        BY <4>1
    <3>5. CASE Better(x, v)
      <4>1. \A w \in S(n) : w = v \/ Better(x, w)
        BY <2>1, <2>2, <3>1, <3>5, BetterTransitive DEF IsBest
      <4>2. IsBest(x, S(n + 1))
        BY <3>3, <3>5, <4>1 DEF IsBest
      <4> QED
        BY <4>2
    <3> QED
      BY <2>2, <3>1, <3>4, <3>5, BetterTotal
  <2> QED
    BY <2>3, <2>4
<1> HIDE DEF T
<1>4. Nat \subseteq T
  BY <1>2, <1>3, Induction
<1> USE DEF T
<1>5. PICK v : IsBest(v, S(NumPorts))
  BY <1>1, <1>4
<1>6. {q \in Q : q <= NumPorts} = Q
  <2>1. \A q \in Q : q <= NumPorts
    BY <1>1
  <2> QED
    BY <2>1
<1> QED
  BY <1>5, <1>6

-----------------------------------------------------------------------------
(***************************************************************************)
(* What the information of the ports and the selection have to do with     *)
(* each other.                                                             *)
(***************************************************************************)

(* A vector that a port holds came in on it, and is not our own; or it is. *)
Held(s) ==
    /\ s.system \in Vector /\ Me(s) = ThisClock
    /\ \A p \in Ports :
           /\ s.infoIs[p] \in {"Mine", "Received"} => s.prio[p] \in Vector
           /\ s.infoIs[p] = "Received" => s.prio[p][6] = p /\ s.prio[p][4] # ThisClock
           /\ s.infoIs[p] = "Mine" => s.prio[p][4] = ThisClock

(* The selection has looked at all the ports hold. *)
Selection(s) ==
    /\ IsBest(s.gm, Candidates(s))
    /\ \A p \in Ports :
           /\ s.selected[p] = NewState(s, p)
           /\ s.infoIs[p] = "Disabled" => ~s.updtInfo[p]
           /\ s.infoIs[p] = "Aged" => s.updtInfo[p]
           /\ s.infoIs[p] = "Mine" => s.updtInfo[p] \/ s.prio[p] = MasterPriority(s, p)
           /\ s.infoIs[p] = "Received" => (s.updtInfo[p] <=> s.selected[p] = "Master")

LEMMA PortsLemma == Ports \subseteq Nat /\ 0 \notin Ports /\ 1 \in Ports /\ NumPorts \in Ports
  BY BmcsAssumption DEF Ports

LEMMA PathPriorityLemma ==
    ASSUME NEW s, NEW p, s.prio[p] \in Vector
    PROVE  /\ PathPriority(s, p) \in Vector
           /\ PathPriority(s, p)[6] = s.prio[p][6] /\ PathPriority(s, p)[4] = s.prio[p][4]
           /\ PathPriority(s, p)[1] = s.prio[p][1] /\ PathPriority(s, p)[2] = s.prio[p][2]
<1> DEFINE v == s.prio[p]
           w == [v EXCEPT ![3] = @ + 1]
<1>1. v \in Vector /\ PathPriority(s, p) = w
  BY DEF PathPriority
<1> HIDE DEF v
<1>2. /\ v[1] \in Nat /\ v[2] \in Nat /\ v[3] \in Nat /\ v[4] \in Nat /\ v[5] \in Nat /\ v[6] \in Nat
      /\ v = <<v[1], v[2], v[3], v[4], v[5], v[6]>>
  BY <1>1, VectorLemma
<1>3. w = <<v[1], v[2], v[3] + 1, v[4], v[5], v[6]>>
  BY <1>2
<1>4. v[3] + 1 \in Nat
  BY <1>2
<1>5. w \in Vector
  BY <1>2, <1>3, <1>4 DEF Vector
<1>6. w[6] = v[6] /\ w[4] = v[4] /\ w[1] = v[1] /\ w[2] = v[2]
  BY <1>3
<1> QED
  BY <1>1, <1>5, <1>6 DEF v

LEMMA MasterPriorityLemma ==
    ASSUME NEW s, s.gm \in Vector, Me(s) \in Nat, NEW p \in Ports
    PROVE  /\ MasterPriority(s, p) \in Vector
           /\ MasterPriority(s, p)[4] = Me(s) /\ MasterPriority(s, p)[5] = p
<1>1. s.gm[1] \in Nat /\ s.gm[2] \in Nat /\ s.gm[3] \in Nat /\ p \in Nat
  BY VectorLemma, PortsLemma
<1> QED
  BY <1>1 DEF MasterPriority, Vector

LEMMA CandidatesLemma ==
    ASSUME NEW s, Held(s)
    PROVE  /\ Candidates(s) \subseteq Vector
           /\ Candidates(s) =
                {s.system} \cup {PathPriority(s, p) : p \in {q \in Ports : s.infoIs[q] = "Received"}}
           /\ IsBest(Best(Candidates(s)), Candidates(s))
<1> DEFINE Q == {q \in Ports : s.infoIs[q] = "Received"}
           f == [q \in Q |-> PathPriority(s, q)]
<1>1. \A q \in Ports : Offers(s, q) <=> s.infoIs[q] = "Received"
  BY DEF Offers, Held
<1>2. Candidates(s) = {s.system} \cup {PathPriority(s, p) : p \in Q}
  BY <1>1, Zenon DEF Candidates
<1>3. \A q \in Q : PathPriority(s, q) \in Vector
  BY PathPriorityLemma DEF Held
<1>4. Candidates(s) \subseteq Vector
  BY <1>2, <1>3 DEF Held
<1>5. {PathPriority(s, p) : p \in Q} = {f[p] : p \in Q}
  OBVIOUS
<1>6. Q \in SUBSET Ports /\ s.system \in Vector /\ \A p \in Q : f[p] \in Vector
  BY <1>3 DEF Held
<1> HIDE DEF f, Q
<1>7. PICK v : IsBest(v, {s.system} \cup {f[p] : p \in Q})
  BY <1>6, BestExists
<1>8. IsBest(v, Candidates(s))
  BY <1>2, <1>5, <1>7
<1>9. IsBest(Best(Candidates(s)), Candidates(s))
  BY <1>4, <1>8, BestIsBest
<1> QED
  BY <1>2, <1>4, <1>9 DEF Q

(* What the state of a port depends on *)
LEMMA SamePort ==
    ASSUME NEW s, NEW t, NEW p, t.system = s.system, t.gm = s.gm,
           t.infoIs[p] = s.infoIs[p], t.prio[p] = s.prio[p]
    PROVE  /\ NewState(t, p) = NewState(s, p) /\ MasterPriority(t, p) = MasterPriority(s, p)
           /\ PathPriority(t, p) = PathPriority(s, p)
<1>1. MasterPriority(t, p) = MasterPriority(s, p) /\ PathPriority(t, p) = PathPriority(s, p)
  BY DEF MasterPriority, PathPriority, Me
<1> QED
  BY <1>1 DEF NewState

LEMMA SameCandidates ==
    ASSUME NEW s, NEW t, t.system = s.system, t.infoIs = s.infoIs, t.prio = s.prio
    PROVE  Candidates(t) = Candidates(s)
  BY DEF Candidates, Offers, PathPriority, Me

(* Both depend on little of the state. *)
LEMMA SameSelection ==
    ASSUME NEW s, NEW t, t.system = s.system, t.infoIs = s.infoIs, t.prio = s.prio
    PROVE  /\ Held(s) => Held(t)
           /\ t.gm = s.gm /\ t.selected = s.selected /\ t.updtInfo = s.updtInfo /\ Selection(s)
                  => Selection(t)
<1>1. Held(s) => Held(t)
  BY DEF Held, Me
<1>2. Candidates(t) = Candidates(s)
  BY SameCandidates
<1>3. ASSUME t.gm = s.gm, t.selected = s.selected, t.updtInfo = s.updtInfo, Selection(s)
      PROVE  Selection(t)
  <2>1. \A p \in Ports : NewState(t, p) = NewState(s, p)
                         /\ MasterPriority(t, p) = MasterPriority(s, p)
    BY <1>3, SamePort
  <2> QED
    BY <1>2, <1>3, <2>1 DEF Selection
<1> QED
  BY <1>1, <1>3

LEMMA TracedLemma ==
    ASSUME NEW path \in Paths, NEW me \in Nat
    PROVE  Traced(path, me) \in Traces
<1> DEFINE N == IF Len(path) < MaxPath THEN Len(path) ELSE MaxPath
<1>1. N \in Nat /\ N <= Len(path) /\ N <= MaxPath
  BY BmcsAssumption DEF Paths
<1>2. Traced(path, me) = IF N + 1 <= MaxPath THEN Append(SubSeq(path, 1, N), me) ELSE <<>>
  BY DEF Traced
<1> HIDE DEF N
<1>3. SubSeq(path, 1, N) \in Paths /\ Len(SubSeq(path, 1, N)) = N
  BY <1>1 DEF Paths
<1>4. Append(SubSeq(path, 1, N), me) \in Paths /\ Len(Append(SubSeq(path, 1, N), me)) = N + 1
  BY <1>1, <1>3 DEF Paths
<1>5. <<>> \in Paths /\ Len(<<>>) <= MaxPath
  BY BmcsAssumption DEF Paths
<1> QED
  BY <1>2, <1>4, <1>5 DEF Traces

LEMMA UpdtStatesTreeFacts ==
    ASSUME NEW s \in Sys, Held(s)
    PROVE  LET t == UpdtStatesTree(s)
           IN  /\ t \in Sys /\ Held(t) /\ Selection(t) /\ ~t.reselect /\ t.gm \in Vector
               /\ SameLinks(t, s) /\ SameOut(t, s) /\ SameInfo(t, s) /\ t.newInfo = s.newInfo
               /\ t.pathTrace \in {<<ThisClock>>, s.pathTrace}
                                  \cup {Traced(s.annPath[p], ThisClock) : p \in Ports}
<1> DEFINE best == Best(Candidates(s))
           g == [s EXCEPT !.gm = best, !.reselect = FALSE]
           sync == s.gmsync /\ ~\E p \in Ports : s.selected[p] = "Slave" /\ NewState(g, p) # "Slave"
           sel == [p \in Ports |-> NewState(g, p)]
           upd == [p \in Ports |-> NewUpdtInfo(g, p)]
           sel0 == IF \E p \in Ports : NewState(g, p) = "Slave" THEN "Passive" ELSE "Slave"
           t == [g EXCEPT !.selected = sel, !.updtInfo = upd, !.gmsync = sync, !.selected0 = sel0]
           path == PathTraceOf(t, s.selected)
           u == [t EXCEPT !.pathTrace = path]
<1>1. IsBest(best, Candidates(s)) /\ best \in Vector
  BY CandidatesLemma DEF IsBest
<1>2. UpdtStatesTree(s) = IF t.selected0 = s.selected0 THEN u
                          ELSE IF t.selected0 = "Slave" THEN SetGmSync(u, TRUE) ELSE ResetGmSync(u)
  <2>1. g.gmsync = s.gmsync
    BY DEF Sys
  <2> HIDE DEF g
  <2>2. t = [g EXCEPT !.selected = sel, !.updtInfo = upd,
                      !.gmsync = @ /\ ~\E p \in Ports : s.selected[p] = "Slave" /\ NewState(g, p) # "Slave",
                      !.selected0 = sel0]
    BY <2>1, Zenon
  <2> QED
    BY <2>2, Zenon DEF UpdtStatesTree, g
<1> HIDE DEF best
<1>3. g \in Sys
  <2>1. best \in Vectors
    BY <1>1 DEF Vectors
  <2> QED
    BY <2>1, ZenonT(60) DEF Sys
<1>4. /\ g.gm = best /\ ~g.reselect /\ g.selected = s.selected /\ g.pathTrace = s.pathTrace
      /\ SameLinks(g, s) /\ SameOut(g, s) /\ SameInfo(g, s) /\ g.newInfo = s.newInfo
  BY DEF Sys, SameLinks, SameOut, SameInfo
<1> HIDE DEF g
<1>5. \A p \in Ports : g.infoIs[p] \in InfoStates /\ g.updtInfo[p] \in BOOLEAN
  BY <1>3 DEF Sys, Flags
<1>6. \A p \in Ports : NewState(g, p) \in PortStates /\ NewUpdtInfo(g, p) \in BOOLEAN
  BY <1>5 DEF InfoStates, PortStates, NewState, NewUpdtInfo
<1>7. /\ sel \in [Ports -> PortStates] /\ upd \in Flags /\ sync \in BOOLEAN
      /\ sel0 \in {"Disabled", "Slave", "Passive"}
  BY <1>6 DEF Flags
<1>8. \A p \in Ports : sel[p] = NewState(g, p) /\ upd[p] = NewUpdtInfo(g, p)
  OBVIOUS
<1> HIDE DEF sync, sel, upd, sel0
<1>9. t \in Sys
  BY <1>3, <1>7, ZenonT(60) DEF Sys
<1>10. /\ t.gm = best /\ ~t.reselect /\ t.selected = sel /\ t.updtInfo = upd
       /\ SameLinks(t, s) /\ SameOut(t, s) /\ SameInfo(t, s) /\ t.pathTrace = s.pathTrace
       /\ t.newInfo = s.newInfo
  BY <1>3, <1>4 DEF Sys, SameLinks, SameOut, SameInfo
<1> HIDE DEF t
<1>11. Held(t) /\ Held(g)
  BY <1>4, <1>10, SameSelection DEF SameLinks, SameInfo
<1>12. Selection(t)
  <2>1. Candidates(t) = Candidates(s)
    BY <1>10, SameCandidates DEF SameLinks, SameInfo
  <2>2. ASSUME NEW p \in Ports
        PROVE  /\ NewState(t, p) = NewState(g, p)
               /\ MasterPriority(t, p) = MasterPriority(g, p)
    BY <1>4, <1>10, SamePort DEF SameLinks, SameInfo
  <2>3. ASSUME NEW p \in Ports
        PROVE  /\ t.infoIs[p] = "Disabled" => ~t.updtInfo[p]
               /\ t.infoIs[p] = "Aged" => t.updtInfo[p]
               /\ t.infoIs[p] = "Mine" => t.updtInfo[p] \/ t.prio[p] = MasterPriority(t, p)
               /\ t.infoIs[p] = "Received" => (t.updtInfo[p] <=> t.selected[p] = "Master")
    <3>1. /\ t.infoIs[p] = g.infoIs[p] /\ t.prio[p] = g.prio[p]
          /\ t.updtInfo[p] = NewUpdtInfo(g, p) /\ t.selected[p] = NewState(g, p)
      BY <1>4, <1>8, <1>10 DEF SameInfo
    <3> QED
      BY <2>2, <3>1 DEF NewUpdtInfo
  <2> QED
    BY <1>1, <1>8, <1>10, <2>1, <2>2, <2>3 DEF Selection
<1>13. path \in {<<ThisClock>>, s.pathTrace} \cup {Traced(s.annPath[p], ThisClock) : p \in Ports}
  <2>1. Me(t) = ThisClock /\ t.annPath = s.annPath /\ t.pathTrace = s.pathTrace
    BY <1>10, <1>11 DEF Held, SameInfo
  <2> DEFINE slaves == {p \in Ports : t.selected[p] = "Slave" /\ s.selected[p] # "Slave"}
  <2>2. path = IF t.gm[2] = ThisClock THEN <<ThisClock>>
               ELSE IF slaves # {} THEN Traced(s.annPath[CHOOSE p \in slaves : TRUE], ThisClock)
               ELSE s.pathTrace
    BY <2>1 DEF PathTraceOf
  <2>3. slaves # {} => (CHOOSE p \in slaves : TRUE) \in slaves
    BY Zenon
  <2>4. slaves \subseteq Ports
    OBVIOUS
  <2> HIDE DEF slaves
  <2> QED
    BY <2>2, <2>3, <2>4
<1>14. path \in Traces
  <2>1. \A p \in Ports : Traced(s.annPath[p], ThisClock) \in Traces
    BY TracedLemma, SystemAssumption DEF Sys
  <2>2. s.pathTrace \in Traces
    BY DEF Sys
  <2>3. <<ThisClock>> \in Traces
    BY SystemAssumption, BmcsAssumption DEF Traces, Paths
  <2> QED
    BY <1>13, <2>1, <2>2, <2>3
<1> HIDE DEF path
<1>15. u \in Sys
  BY <1>9, <1>14, ZenonT(60) DEF Sys
<1>16. /\ u.pathTrace = path /\ u.gm = t.gm /\ u.selected = t.selected
       /\ SameLinks(u, t) /\ SameOut(u, t) /\ SameInfo(u, t) /\ SameFlags(u, t)
       /\ u.newInfo = t.newInfo
  BY <1>9 DEF Sys, SameLinks, SameOut, SameInfo, SameFlags
<1> HIDE DEF u
<1>17. Syncs(UpdtStatesTree(s), u)
  BY <1>2, <1>15, SetGmSyncFacts, SyncsReflexive
<1> DEFINE r == UpdtStatesTree(s)
<1> HIDE DEF r
<1>18. /\ r \in Sys /\ r.gm = t.gm /\ r.selected = t.selected /\ r.pathTrace = path
       /\ SameLinks(r, t) /\ SameOut(r, t) /\ SameInfo(r, t) /\ SameFlags(r, t)
       /\ r.newInfo = t.newInfo
  BY <1>16, <1>17
     DEF Syncs, Like, SameLinks, SameOut, SameInfo, SameFlags, SameChoice, r
<1>19. Held(r) /\ Selection(r)
  BY <1>11, <1>12, <1>18, SameSelection DEF SameLinks, SameInfo, SameFlags
<1>20. ~r.reselect /\ r.gm \in Vector
  BY <1>1, <1>10, <1>18 DEF SameFlags
<1>21. SameLinks(r, s) /\ SameOut(r, s) /\ SameInfo(r, s) /\ r.newInfo = s.newInfo
  BY <1>10, <1>18 DEF SameLinks, SameOut, SameInfo
<1> QED
  BY <1>13, <1>18, <1>19, <1>20, <1>21 DEF r

-----------------------------------------------------------------------------
(***************************************************************************)
(* port_announce_information_sm                                            *)
(***************************************************************************)
Done(s) == [s EXCEPT !.rcvd = None]

Common(t, s) == SameLinks(t, s) /\ SameOut(t, s) /\ SameChoice(t, s)

LEMMA DoneFacts ==
    ASSUME NEW s \in Sys
    PROVE  /\ Done(s) \in Sys /\ Common(Done(s), s) /\ SameFlags(Done(s), s)
           /\ Done(s).infoIs = s.infoIs /\ Done(s).prio = s.prio /\ Done(s).annPath = s.annPath
           /\ Done(s).rcvd = None /\ Done(s).newInfo = s.newInfo
<1>1. Done(s) \in Sys
  BY ZenonT(60) DEF Done, Sys
<1>2. /\ Common(Done(s), s) /\ SameFlags(Done(s), s)
      /\ Done(s).infoIs = s.infoIs /\ Done(s).prio = s.prio /\ Done(s).annPath = s.annPath
      /\ Done(s).rcvd = None /\ Done(s).newInfo = s.newInfo
  BY DEF Done, Sys, Common, SameLinks, SameOut, SameChoice, SameFlags
<1> QED
  BY <1>1, <1>2

LEMMA InfoDisabledFacts ==
    ASSUME NEW s \in Sys, NEW p \in Ports
    PROVE  LET t == InfoDisabled(s, p)
           IN  /\ t \in Sys /\ Common(t, s) /\ t.reselect /\ t.rcvd = None
               /\ t.infoIs = [s.infoIs EXCEPT ![p] = "Disabled"]
               /\ t.prio = s.prio /\ t.annPath = s.annPath /\ t.newInfo = s.newInfo
<1> DEFINE i == [s.infoIs EXCEPT ![p] = "Disabled"]
           t == [s EXCEPT !.rcvd = None, !.infoIs = i, !.reselect = TRUE]
<1>1. InfoDisabled(s, p) = t
  BY DEF InfoDisabled, Sys
<1>2. i \in [Ports -> InfoStates]
  BY DEF Sys, InfoStates
<1>3. i = [s.infoIs EXCEPT ![p] = "Disabled"]
  OBVIOUS
<1> HIDE DEF i
<1>4. t \in Sys
  BY <1>2, ZenonT(60) DEF Sys
<1>5. /\ Common(t, s) /\ t.reselect /\ t.rcvd = None /\ t.infoIs = i
      /\ t.prio = s.prio /\ t.annPath = s.annPath /\ t.newInfo = s.newInfo
  BY DEF Sys, Common, SameLinks, SameOut, SameChoice
<1> HIDE DEF t
<1> QED
  BY <1>1, <1>3, <1>4, <1>5

LEMMA AgedFacts ==
    ASSUME NEW s \in Sys, Me(s) = ThisClock, NEW p \in Ports
    PROVE  LET t == Aged(s, p)
           IN  /\ t \in Sys /\ Common(t, s) /\ t.reselect /\ t.rcvd = s.rcvd
               /\ t.infoIs = [s.infoIs EXCEPT ![p] = "Aged"]
               /\ t.prio = s.prio /\ t.annPath = [s.annPath EXCEPT ![p] = <<>>]
               /\ t.newInfo = s.newInfo
<1> DEFINE i == [s.infoIs EXCEPT ![p] = "Aged"]
           a == [s.annPath EXCEPT ![p] = <<>>]
           t == [s EXCEPT !.infoIs = i, !.reselect = TRUE, !.annPath = a, !.gmIdentity = ThisClock]
<1>1. Aged(s, p) = t
  BY DEF Aged, Sys
<1>2. i \in [Ports -> InfoStates] /\ a \in [Ports -> Paths]
  BY DEF Sys, InfoStates, Paths
<1>3. i = [s.infoIs EXCEPT ![p] = "Aged"] /\ a = [s.annPath EXCEPT ![p] = <<>>]
  OBVIOUS
<1> HIDE DEF i, a
<1>4. ThisClock \in Nat
  BY SystemAssumption
<1>5. t \in Sys
  BY <1>2, <1>4, ZenonT(60) DEF Sys
<1>6. /\ Common(t, s) /\ t.reselect /\ t.rcvd = s.rcvd /\ t.infoIs = i
      /\ t.prio = s.prio /\ t.annPath = a /\ t.newInfo = s.newInfo
  BY DEF Sys, Common, SameLinks, SameOut, SameChoice
<1> HIDE DEF t
<1> QED
  BY <1>1, <1>3, <1>5, <1>6

LEMMA UpdateFacts ==
    ASSUME NEW s \in Sys, Me(s) = ThisClock, s.gm \in Vector, NEW p \in Ports
    PROVE  LET t == Update(s, p)
           IN  /\ t \in Sys /\ Common(t, s) /\ t.reselect = s.reselect /\ t.rcvd = s.rcvd
               /\ t.infoIs = [s.infoIs EXCEPT ![p] = "Mine"]
               /\ t.prio = [s.prio EXCEPT ![p] = MasterPriority(s, p)]
               /\ t.updtInfo = [s.updtInfo EXCEPT ![p] = FALSE]
               /\ t.annPath = s.annPath /\ t.newInfo = [s.newInfo EXCEPT ![p] = TRUE]
<1> DEFINE i == [s.infoIs EXCEPT ![p] = "Mine"]
           v == [s.prio EXCEPT ![p] = MasterPriority(s, p)]
           u == [s.updtInfo EXCEPT ![p] = FALSE]
           n == [s.newInfo EXCEPT ![p] = TRUE]
           t == [s EXCEPT !.prio = v, !.updtInfo = u, !.infoIs = i, !.newInfo = n]
<1>1. Update(s, p) = t
  BY DEF Update, Sys
<1>2. MasterPriority(s, p) \in Vector
  BY MasterPriorityLemma, SystemAssumption
<1>3. /\ i \in [Ports -> InfoStates] /\ v \in [Ports -> Vectors]
      /\ u \in Flags /\ n \in Flags
  BY <1>2 DEF Sys, InfoStates, Vectors, Flags
<1>4. /\ i = [s.infoIs EXCEPT ![p] = "Mine"] /\ v = [s.prio EXCEPT ![p] = MasterPriority(s, p)]
      /\ u = [s.updtInfo EXCEPT ![p] = FALSE] /\ n = [s.newInfo EXCEPT ![p] = TRUE]
  OBVIOUS
<1> HIDE DEF i, v, u, n
<1>5. t \in Sys
  BY <1>3, ZenonT(60) DEF Sys
<1>6. /\ Common(t, s) /\ t.reselect = s.reselect /\ t.rcvd = s.rcvd /\ t.infoIs = i
      /\ t.prio = v /\ t.updtInfo = u /\ t.annPath = s.annPath /\ t.newInfo = n
  BY DEF Sys, Common, SameLinks, SameOut, SameChoice
<1> HIDE DEF t
<1> QED
  BY <1>1, <1>4, <1>5, <1>6

LEMMA MessageLemma ==
    ASSUME NEW a \in Announce, NEW p \in Ports
    PROVE  /\ MessagePriority(a, p) \in Vector /\ MessagePriority(a, p)[6] = p
           /\ MessagePriority(a, p)[4] = a.src[1] /\ a.root[2] \in Nat
  BY PortsLemma DEF Announce, MessagePriority, Vector

LEMMA SuperiorFacts ==
    ASSUME NEW s \in Sys, s.rcvd \in Announce, NEW p \in Ports
    PROVE  LET t == Superior(s, p)
           IN  /\ t \in Sys /\ Common(t, s) /\ t.reselect /\ t.rcvd = None
               /\ t.infoIs = [s.infoIs EXCEPT ![p] = "Received"]
               /\ t.prio = [s.prio EXCEPT ![p] = MessagePriority(s.rcvd, p)]
               /\ t.annPath = [s.annPath EXCEPT ![p] = s.tlv[p].path]
               /\ t.newInfo = s.newInfo
<1> DEFINE i == [s.infoIs EXCEPT ![p] = "Received"]
           v == [s.prio EXCEPT ![p] = MessagePriority(s.rcvd, p)]
           a == [s.annPath EXCEPT ![p] = s.tlv[p].path]
           c == s.rcvd.root[2]
           t == [s EXCEPT !.prio = v, !.annPath = a, !.gmIdentity = c, !.infoIs = i,
                          !.reselect = TRUE, !.rcvd = None]
<1>1. Superior(s, p) = t
  BY DEF Superior, Sys
<1>2. MessagePriority(s.rcvd, p) \in Vector /\ c \in Nat
  BY MessageLemma
<1>3. /\ i \in [Ports -> InfoStates] /\ v \in [Ports -> Vectors] /\ a \in [Ports -> Paths]
  BY <1>2 DEF Sys, InfoStates, Vectors, TlvRecord
<1>4. /\ i = [s.infoIs EXCEPT ![p] = "Received"]
      /\ v = [s.prio EXCEPT ![p] = MessagePriority(s.rcvd, p)]
      /\ a = [s.annPath EXCEPT ![p] = s.tlv[p].path]
  OBVIOUS
<1> HIDE DEF i, v, a, c
<1>5. t \in Sys
  BY <1>2, <1>3, ZenonT(60) DEF Sys
<1>6. /\ Common(t, s) /\ t.reselect /\ t.rcvd = None /\ t.infoIs = i
      /\ t.prio = v /\ t.annPath = a /\ t.newInfo = s.newInfo
  BY DEF Sys, Common, SameLinks, SameOut, SameChoice
<1> HIDE DEF t
<1> QED
  BY <1>1, <1>4, <1>5, <1>6

(* Of a port whose information is to be updated, the selection stays what  *)
(* it is: its vector was not the one chosen.                               *)
LEMMA UpdateKeeps ==
    ASSUME NEW s \in Sys, Held(s), Selection(s), s.gm \in Vector, NEW p \in Ports, s.updtInfo[p]
    PROVE  LET m == Update(s, p)
           IN  /\ Held(m) /\ Selection(m) /\ m.infoIs[p] = "Mine" /\ ~m.updtInfo[p]
               /\ m.prio[p] = MasterPriority(m, p) /\ m.selected[p] = "Master"
<1> DEFINE m == Update(s, p)
<1>1. Me(s) = ThisClock
  BY DEF Held
<1>2. /\ m \in Sys /\ Common(m, s)
      /\ m.infoIs = [s.infoIs EXCEPT ![p] = "Mine"]
      /\ m.prio = [s.prio EXCEPT ![p] = MasterPriority(s, p)]
      /\ m.updtInfo = [s.updtInfo EXCEPT ![p] = FALSE]
  BY <1>1, UpdateFacts
<1> HIDE DEF m
<1>3. m.system = s.system /\ m.gm = s.gm /\ m.selected = s.selected
  BY <1>2 DEF Common, SameLinks, SameChoice
<1>4. /\ m.infoIs[p] = "Mine" /\ m.prio[p] = MasterPriority(s, p) /\ ~m.updtInfo[p]
      /\ \A q \in Ports \ {p} : /\ m.infoIs[q] = s.infoIs[q] /\ m.prio[q] = s.prio[q]
                                /\ m.updtInfo[q] = s.updtInfo[q]
  BY <1>2 DEF Sys, Flags
<1>5. MasterPriority(s, p) \in Vector /\ MasterPriority(s, p)[4] = ThisClock
  BY <1>1, MasterPriorityLemma, SystemAssumption
<1>6. MasterPriority(m, p) = MasterPriority(s, p)
  BY <1>3 DEF MasterPriority, Me
<1>7. Held(m)
  BY <1>3, <1>4, <1>5 DEF Held, Me
<1>8. s.selected[p] = "Master" /\ (s.infoIs[p] = "Received" => PathPriority(s, p) # s.gm)
  <2>1. s.infoIs[p] \in {"Aged", "Mine", "Received"}
    BY DEF Selection, Sys, InfoStates
  <2>2. s.selected[p] = NewState(s, p)
    BY DEF Selection
  <2>3. CASE s.infoIs[p] = "Received"
    BY <2>2, <2>3 DEF Selection, NewState
  <2>4. CASE s.infoIs[p] # "Received"
    BY <2>1, <2>2, <2>4 DEF NewState
  <2> QED
    BY <2>3, <2>4
<1>9. IsBest(m.gm, Candidates(m))
  <2> DEFINE Q(r) == {q \in Ports : r.infoIs[q] = "Received"}
  <2>1. /\ Candidates(s) = {s.system} \cup {PathPriority(s, q) : q \in Q(s)}
        /\ Candidates(m) = {m.system} \cup {PathPriority(m, q) : q \in Q(m)}
    BY <1>7, CandidatesLemma
  <2>2. Q(m) = Q(s) \ {p}
    BY <1>4
  <2>3. \A q \in Q(m) : PathPriority(m, q) = PathPriority(s, q)
    BY <1>3, <1>4, <2>2, SamePort
  <2>4. Candidates(m) \subseteq Candidates(s)
    BY <1>3, <2>1, <2>2, <2>3
  <2>5. s.gm \in Candidates(m)
    <3>1. s.gm \in Candidates(s)
      BY DEF Selection, IsBest
    <3>2. CASE s.gm = s.system
      BY <1>3, <2>1, <3>2
    <3>3. CASE s.gm # s.system
      <4>1. PICK q \in Q(s) : s.gm = PathPriority(s, q)
        BY <2>1, <3>1, <3>3
      <4>2. q \in Q(m) /\ PathPriority(m, q) = PathPriority(s, q)
        BY <1>8, <2>2, <2>3, <4>1
      <4> QED
        BY <2>1, <4>1, <4>2
    <3> QED
      BY <3>2, <3>3
  <2> QED
    BY <1>3, <2>4, <2>5 DEF Selection, IsBest
<1>10. Selection(m)
  <2>1. ASSUME NEW q \in Ports
        PROVE  /\ m.selected[q] = NewState(m, q)
               /\ m.infoIs[q] = "Disabled" => ~m.updtInfo[q]
               /\ m.infoIs[q] = "Aged" => m.updtInfo[q]
               /\ m.infoIs[q] = "Mine" => m.updtInfo[q] \/ m.prio[q] = MasterPriority(m, q)
               /\ m.infoIs[q] = "Received" => (m.updtInfo[q] <=> m.selected[q] = "Master")
    <3>1. CASE q = p
      BY <1>3, <1>4, <1>6, <1>8, <3>1 DEF NewState
    <3>2. CASE q # p
      <4>1. /\ NewState(m, q) = NewState(s, q)
            /\ MasterPriority(m, q) = MasterPriority(s, q)
        BY <1>3, <1>4, <3>2, SamePort
      <4> QED
        BY <1>3, <1>4, <3>2, <4>1 DEF Selection
    <3> QED
      BY <3>1, <3>2
  <2> QED
    BY <1>9, <2>1 DEF Selection
<1> QED
  BY <1>3, <1>4, <1>6, <1>7, <1>8, <1>10 DEF m

(* The other ports hold what they did, and if the port tells its own       *)
(* information and has nothing new to tell, it did so before.              *)
OneTold(t, s, p) ==
    /\ \A q \in Ports \ {p} : /\ t.infoIs[q] = s.infoIs[q] /\ t.prio[q] = s.prio[q]
                              /\ t.newInfo[q] = s.newInfo[q]
    /\ t.infoIs[p] = "Mine" /\ ~t.newInfo[p] =>
           s.infoIs[p] = "Mine" /\ ~s.newInfo[p] /\ t.prio[p] = s.prio[p]

(* What a port knows of one announce, and that of the others is as it was. *)
Informed(t, s, p) ==
    /\ t \in Sys /\ Held(t) /\ (t.reselect \/ (Selection(t) /\ t.gm \in Vector))
    /\ Common(t, s) /\ t.rcvd \in {None, s.rcvd} /\ OneTold(t, s, p)
    /\ \A q \in Ports : \/ t.annPath[q] \in {s.annPath[q], <<>>}
                        \/ s.rcvd # None /\ t.annPath[q] = s.tlv[p].path

(* What has come in is not our own announce. *)
Foreign(s) == s.rcvd # None => s.rcvd \in Announce /\ s.rcvd.src[1] # ThisClock

LEMMA InformedByAged ==
    ASSUME NEW s \in Sys, Held(s), NEW p \in Ports
    PROVE  /\ Informed(Aged(s, p), s, p) /\ Aged(s, p).reselect
           /\ Aged(s, p).infoIs[p] = "Aged" /\ Aged(s, p).rcvd = s.rcvd
<1> DEFINE t == Aged(s, p)
<1>1. /\ t \in Sys /\ Common(t, s) /\ t.reselect /\ t.rcvd = s.rcvd
      /\ t.infoIs = [s.infoIs EXCEPT ![p] = "Aged"]
      /\ t.prio = s.prio /\ t.annPath = [s.annPath EXCEPT ![p] = <<>>]
      /\ t.newInfo = s.newInfo
  BY AgedFacts DEF Held
<1> HIDE DEF t
<1>2. /\ t.infoIs[p] = "Aged" /\ t.annPath[p] = <<>>
      /\ \A q \in Ports \ {p} : t.infoIs[q] = s.infoIs[q] /\ t.annPath[q] = s.annPath[q]
  BY <1>1 DEF Sys
<1>3. t.system = s.system
  BY <1>1 DEF Common, SameLinks
<1>4. Held(t)
  BY <1>1, <1>2, <1>3 DEF Held, Me
<1>5. Informed(t, s, p)
  BY <1>1, <1>2, <1>4 DEF Informed, OneTold
<1> QED
  BY <1>1, <1>2, <1>5 DEF t

LEMMA InformedByDisabled ==
    ASSUME NEW s \in Sys, Held(s), NEW p \in Ports
    PROVE  /\ Informed(InfoDisabled(s, p), s, p) /\ InfoDisabled(s, p).reselect
           /\ InfoDisabled(s, p).infoIs[p] = "Disabled" /\ InfoDisabled(s, p).rcvd = None
<1> DEFINE t == InfoDisabled(s, p)
<1>1. /\ t \in Sys /\ Common(t, s) /\ t.reselect /\ t.rcvd = None
      /\ t.infoIs = [s.infoIs EXCEPT ![p] = "Disabled"]
      /\ t.prio = s.prio /\ t.annPath = s.annPath /\ t.newInfo = s.newInfo
  BY InfoDisabledFacts
<1> HIDE DEF t
<1>2. /\ t.infoIs[p] = "Disabled"
      /\ \A q \in Ports \ {p} : t.infoIs[q] = s.infoIs[q]
  BY <1>1 DEF Sys
<1>3. t.system = s.system
  BY <1>1 DEF Common, SameLinks
<1>4. Held(t)
  BY <1>1, <1>2, <1>3 DEF Held, Me
<1>5. Informed(t, s, p)
  BY <1>1, <1>2, <1>4 DEF Informed, OneTold
<1> QED
  BY <1>1, <1>2, <1>5 DEF t

LEMMA InformedBySuperior ==
    ASSUME NEW s \in Sys, Held(s), NEW p \in Ports, Foreign(s), s.rcvd # None
    PROVE  LET t == Superior(s, p)
           IN  /\ Informed(t, s, p) /\ t.reselect /\ t.rcvd = None /\ t.infoIs[p] = "Received"
               /\ t.prio[p] = MessagePriority(s.rcvd, p)
               /\ \A q \in Ports \ {p} : t.prio[q] = s.prio[q]
<1> DEFINE t == Superior(s, p)
           v == MessagePriority(s.rcvd, p)
<1>1. /\ t \in Sys /\ Common(t, s) /\ t.reselect /\ t.rcvd = None
      /\ t.infoIs = [s.infoIs EXCEPT ![p] = "Received"]
      /\ t.prio = [s.prio EXCEPT ![p] = v]
      /\ t.annPath = [s.annPath EXCEPT ![p] = s.tlv[p].path] /\ t.newInfo = s.newInfo
  BY SuperiorFacts DEF Foreign
<1>2. v \in Vector /\ v[6] = p /\ v[4] # ThisClock
  BY MessageLemma DEF Foreign
<1> HIDE DEF t, v
<1>3. /\ t.infoIs[p] = "Received" /\ t.prio[p] = v /\ t.annPath[p] = s.tlv[p].path
      /\ \A q \in Ports \ {p} : /\ t.infoIs[q] = s.infoIs[q] /\ t.prio[q] = s.prio[q]
                                /\ t.annPath[q] = s.annPath[q]
  BY <1>1 DEF Sys
<1>4. t.system = s.system
  BY <1>1 DEF Common, SameLinks
<1>5. Held(t)
  BY <1>2, <1>3, <1>4 DEF Held, Me
<1>6. Informed(t, s, p)
  BY <1>1, <1>3, <1>5 DEF Informed, OneTold
<1> QED
  BY <1>1, <1>3, <1>6 DEF t, v

LEMMA InformedByDone ==
    ASSUME NEW s \in Sys, Held(s), Selection(s), s.gm \in Vector, NEW p \in Ports
    PROVE  /\ Informed(Done(s), s, p) /\ Done(s).rcvd = None
           /\ SameFlags(Done(s), s) /\ Done(s).infoIs = s.infoIs /\ Done(s).prio = s.prio
<1> DEFINE t == Done(s)
<1>1. /\ t \in Sys /\ Common(t, s) /\ SameFlags(t, s)
      /\ t.infoIs = s.infoIs /\ t.prio = s.prio /\ t.annPath = s.annPath /\ t.rcvd = None
      /\ t.newInfo = s.newInfo
  BY DoneFacts
<1> HIDE DEF t
<1>2. Held(t) /\ Selection(t) /\ t.gm \in Vector
  BY <1>1, SameSelection DEF Common, SameLinks, SameChoice, SameFlags
<1>3. Informed(t, s, p)
  BY <1>1, <1>2 DEF Informed, OneTold
<1> QED
  BY <1>1, <1>3 DEF t

(* RECEIVE and CURRENT end with the announce put away, as what the port    *)
(* holds, as the reason to age, or for nothing.                            *)
LEMMA CurrentFacts ==
    ASSUME NEW s \in Sys, Held(s), Selection(s), s.gm \in Vector, NEW p \in Ports, Foreign(s),
           s.infoIs[p] \in {"Mine", "Received"}, NEW late \in {"no", "sync", "announce"}
    PROVE  \/ s.rcvd = None /\ Current(s, p, late) = s
           \/ Current(s, p, late) = Done(s)
           \/ Current(s, p, late) = Superior(s, p) /\ s.rcvd # None
              /\ Better(MessagePriority(s.rcvd, p), s.prio[p])
           \/ Current(s, p, late) \in {Aged(Done(s), p), Aged(s, p)} /\ s.infoIs[p] = "Received"
              /\ (Current(s, p, late) = Aged(s, p) => s.rcvd = None)
<1> DEFINE message == MessagePriority(s.rcvd, p)
<1>1. \A l : Expired(s, p, l) => s.infoIs[p] = "Received"
  BY DEF Expired
<1>2. CASE s.rcvd = None
  BY <1>1, <1>2 DEF Current
<1>3. CASE s.rcvd # None
  <2>1. Current(s, p, late) = Receive(s, p, late)
    BY <1>3 DEF Current
  <2>2. Source(message) = Source(s.prio[p]) => s.infoIs[p] = "Received"
    <3>1. message[4] = s.rcvd.src[1] /\ s.rcvd.src[1] # ThisClock
      BY <1>3, MessageLemma DEF Foreign
    <3>2. s.infoIs[p] = "Mine" => s.prio[p][4] = ThisClock
      BY DEF Held
    <3> HIDE DEF message
    <3> QED
      BY <3>1, <3>2 DEF Source
  <2>3. \/ Receive(s, p, late) = Done(s)
        \/ Receive(s, p, late) = Superior(s, p) /\ Better(message, s.prio[p])
        \/ Receive(s, p, late) = Aged(Done(s), p) /\ s.infoIs[p] = "Received"
    <3> HIDE DEF message
    <3>1. Receive(s, p, late) =
              IF s.selected[p] # "Disabled" /\ message # s.prio[p] /\ Better(message, s.prio[p])
              THEN Superior(s, p)
              ELSE IF s.selected[p] # "Disabled" /\ message = s.prio[p]
              THEN IF Expired(s, p, IF late = "announce" THEN "no" ELSE late)
                   THEN Aged(Done(s), p) ELSE Done(s)
              ELSE IF (QuickUpdate /\ Source(message) = Source(s.prio[p])) \/ Expired(s, p, late)
              THEN Aged(Done(s), p)
              ELSE Done(s)
      BY Zenon DEF Receive, Done, message
    <3> QED
      BY <1>1, <2>2, <3>1
  <2>4. \/ Current(s, p, late) = Done(s)
        \/ Current(s, p, late) = Superior(s, p) /\ Better(message, s.prio[p])
        \/ Current(s, p, late) = Aged(Done(s), p) /\ s.infoIs[p] = "Received"
    BY <2>1, <2>3, Zenon
  <2>5. Aged(Done(s), p) # Aged(s, p)
    <3>1. Done(s) \in Sys /\ Held(Done(s)) /\ Done(s).rcvd = None
      BY DoneFacts, InformedByDone DEF Informed
    <3>2. Aged(Done(s), p).rcvd = None /\ Aged(s, p).rcvd = s.rcvd
      BY <3>1, InformedByAged
    <3> QED
      BY <1>3, <3>2
  <2> HIDE DEF message
  <2> QED
    BY <1>3, <2>4, <2>5 DEF message
<1> QED
  BY <1>2, <1>3

-----------------------------------------------------------------------------
(***************************************************************************)
(* Path traces, among neighbours that send them.                           *)
(***************************************************************************)
Distinct(path) == \A i, j \in DOMAIN path : path[i] = path[j] => i = j

(* A path that was qualified, and one that ends here *)
Clean(path) ==
    /\ path \in Paths /\ Distinct(path)
    /\ \A i \in DOMAIN path : i > MaxPath \/ path[i] # ThisClock

Ended(path) == path # <<>> => path[Len(path)] = ThisClock /\ Distinct(path)

(* p is the port an announce may have come in on. *)
Cleans(s, p) ==
    /\ \A q \in Ports : Clean(s.annPath[q])
    /\ s.rcvd # None => Clean(s.tlv[p].path)
    /\ Ended(s.pathTrace)

LEMMA CleanLemma ==
    /\ Clean(<<>>) /\ Ended(<<>>) /\ Ended(<<ThisClock>>)
    /\ \A path : Clean(path) => Ended(Traced(path, ThisClock))
<1>1. Clean(<<>>) /\ Ended(<<>>)
  BY DEF Clean, Distinct, Ended, Paths
<1>2. Ended(<<ThisClock>>)
  BY DEF Ended, Distinct
<1>3. ASSUME NEW path, Clean(path) PROVE Ended(Traced(path, ThisClock))
  <2> DEFINE N == IF Len(path) < MaxPath THEN Len(path) ELSE MaxPath
  <2>1. path \in Seq(Nat) /\ ThisClock \in Nat
    BY <1>3, SystemAssumption DEF Clean, Paths
  <2>2. N \in Nat /\ N <= Len(path) /\ N <= MaxPath
    BY <2>1, BmcsAssumption
  <2>3. Traced(path, ThisClock) =
            IF N + 1 <= MaxPath THEN Append(SubSeq(path, 1, N), ThisClock) ELSE <<>>
    BY DEF Traced
  <2> HIDE DEF N
  <2> DEFINE sub == SubSeq(path, 1, N)
             app == Append(sub, ThisClock)
  <2>4. sub \in Seq(Nat) /\ Len(sub) = N /\ \A i \in 1 .. N : sub[i] = path[i]
    BY <2>1, <2>2
  <2> HIDE DEF sub
  <2>5. /\ Len(app) = N + 1 /\ app[N + 1] = ThisClock /\ DOMAIN app = 1 .. N + 1
        /\ \A i \in 1 .. N : app[i] = sub[i]
    BY <2>1, <2>2, <2>4
  <2> HIDE DEF app
  <2>6. \A i, j \in 1 .. N : path[i] = path[j] => i = j
    BY <1>3, <2>1, <2>2 DEF Clean, Distinct
  <2>7. \A i \in 1 .. N : path[i] # ThisClock
    BY <1>3, <2>1, <2>2, BmcsAssumption DEF Clean
  <2>8. Distinct(app)
    <3> SUFFICES ASSUME NEW i \in 1 .. N + 1, NEW j \in 1 .. N + 1, app[i] = app[j] PROVE i = j
      BY <2>5 DEF Distinct
    <3>1. CASE i \in 1 .. N /\ j \in 1 .. N
      BY <2>4, <2>5, <2>6, <3>1
    <3>2. CASE i = N + 1 \/ j = N + 1
      BY <2>2, <2>4, <2>5, <2>7, <3>2
    <3> QED
      BY <2>2, <3>1, <3>2
  <2>9. Ended(app)
    BY <2>5, <2>8 DEF Ended
  <2> QED
    BY <1>1, <2>3, <2>9 DEF app, sub
<1> QED
  BY <1>1, <1>2, <1>3

LEMMA InformedCleans ==
    ASSUME NEW s \in Sys, NEW t, NEW p, Informed(t, s, p), Cleans(s, p)
    PROVE  Cleans(t, p)
<1>1. \A q \in Ports : Clean(t.annPath[q])
  BY CleanLemma DEF Informed, Cleans
<1>2. t.rcvd # None => Clean(t.tlv[p].path)
  BY DEF Informed, Cleans, Common, SameLinks
<1>3. Ended(t.pathTrace)
  BY DEF Informed, Cleans, Common, SameChoice
<1> QED
  BY <1>1, <1>2, <1>3 DEF Cleans

-----------------------------------------------------------------------------
(***************************************************************************)
(* The loop of sm_bmcs_perform: two rounds are enough.                     *)
(***************************************************************************)

(* The selection has run; or the system was started, and nothing is known. *)
Settled(s) == ~s.reselect /\ s.gm \in Vector /\ Selection(s)

Blank(s) ==
    /\ s.reselect /\ s.gm = None
    /\ \A p \in Ports : s.infoIs[p] = "Disabled" /\ ~s.updtInfo[p] /\ s.selected[p] = "Disabled"

LEMMA InformedReflexive ==
    ASSUME NEW s \in Sys, Held(s), Settled(s) \/ Blank(s), NEW p
    PROVE  Informed(s, s, p)
  BY DEF Informed, Settled, Blank, Common, SameLinks, SameOut, SameChoice, OneTold

LEMMA InformedTransitive ==
    ASSUME NEW s, NEW t, NEW u, NEW p, Informed(t, s, p), Informed(u, t, p)
    PROVE  Informed(u, s, p)
<1>1. Common(u, s)
  BY DEF Informed, Common, SameLinks, SameOut, SameChoice
<1>2. u.rcvd \in {None, s.rcvd} /\ OneTold(u, s, p)
  BY DEF Informed, OneTold
<1>3. \A q \in Ports : \/ u.annPath[q] \in {s.annPath[q], <<>>}
                       \/ s.rcvd # None /\ u.annPath[q] = s.tlv[p].path
  BY DEF Informed, Common, SameLinks
<1> QED
  BY <1>1, <1>2, <1>3 DEF Informed

LEMMA InformedByUpdate ==
    ASSUME NEW s \in Sys, Held(s), Settled(s), NEW p \in Ports, s.updtInfo[p]
    PROVE  /\ Informed(Update(s, p), s, p) /\ Settled(Update(s, p))
           /\ Update(s, p).rcvd = s.rcvd
<1> DEFINE m == Update(s, p)
<1>1. /\ m \in Sys /\ Common(m, s) /\ m.reselect = s.reselect /\ m.rcvd = s.rcvd
      /\ m.infoIs = [s.infoIs EXCEPT ![p] = "Mine"] /\ m.annPath = s.annPath
      /\ m.prio = [s.prio EXCEPT ![p] = MasterPriority(s, p)]
      /\ m.newInfo = [s.newInfo EXCEPT ![p] = TRUE]
  BY UpdateFacts DEF Held, Settled
<1>2. Held(m) /\ Selection(m)
  BY UpdateKeeps DEF Settled
<1> HIDE DEF m
<1>3. OneTold(m, s, p)
  BY <1>1 DEF Sys, Flags, OneTold
<1>4. m.gm \in Vector
  BY <1>1 DEF Common, SameChoice, Settled
<1>5. Informed(m, s, p) /\ Settled(m)
  BY <1>1, <1>2, <1>3, <1>4 DEF Informed, Settled
<1> QED
  BY <1>1, <1>5 DEF m

(* CURRENT, from a port that has nothing to update *)
LEMMA InformedByCurrent ==
    ASSUME NEW s \in Sys, Held(s), Settled(s), NEW p \in Ports, Foreign(s),
           s.infoIs[p] \in {"Mine", "Received"}, NEW late \in {"no", "sync", "announce"}
    PROVE  Informed(Current(s, p, late), s, p) /\ Current(s, p, late).rcvd = None
<1> DEFINE t == Current(s, p, late)
<1>1. /\ Informed(s, s, p) /\ Informed(Done(s), s, p) /\ Done(s).rcvd = None
      /\ Informed(Aged(s, p), s, p) /\ Aged(s, p).rcvd = s.rcvd
  BY InformedReflexive, InformedByDone, InformedByAged DEF Settled
<1>2. Informed(Aged(Done(s), p), s, p) /\ Aged(Done(s), p).rcvd = None
  <2>1. Done(s) \in Sys /\ Held(Done(s))
    BY <1>1 DEF Informed
  <2> QED
    BY <1>1, <2>1, InformedByAged, InformedTransitive
<1>3. s.rcvd # None => Informed(Superior(s, p), s, p) /\ Superior(s, p).rcvd = None
  BY InformedBySuperior
<1>4. \/ s.rcvd = None /\ t = s
      \/ t = Done(s)
      \/ t = Superior(s, p) /\ s.rcvd # None
      \/ t = Aged(Done(s), p) \/ (t = Aged(s, p) /\ s.rcvd = None)
  BY CurrentFacts DEF Settled
<1> HIDE DEF t
<1>5. Informed(t, s, p) /\ t.rcvd = None
  BY <1>1, <1>2, <1>3, <1>4
<1> QED
  BY <1>5 DEF t

(* The machine in the first round: if the announce is not yet put away,    *)
(* the port has just been enabled.                                         *)
LEMMA FirstInfo ==
    ASSUME NEW s \in Sys, Held(s), Settled(s) \/ Blank(s), NEW p \in Ports, Foreign(s),
           s.rcvd # None => Up(s, p), s.infoIs[p] # "Aged",
           NEW late \in {"no", "sync", "announce"}
    PROVE  LET t == InfoSM(s, p, late)
           IN  /\ Informed(t, s, p) /\ (~Up(s, p) => t.infoIs[p] = "Disabled")
               /\ t.rcvd # None => t.infoIs[p] = "Aged"
<1> DEFINE t == InfoSM(s, p, late)
           m == IF s.updtInfo[p] THEN Update(s, p) ELSE s
<1>1. s.infoIs[p] \in {"Disabled", "Mine", "Received"}
  BY DEF Sys, InfoStates
<1>2. CASE s.infoIs[p] # "Disabled" /\ ~Up(s, p)
  <2>1. t = InfoDisabled(s, p)
    BY <1>2 DEF InfoSM
  <2> QED
    BY <2>1, InformedByDisabled
<1>3. CASE s.infoIs[p] = "Disabled" /\ Up(s, p)
  <2>1. t = Aged(s, p)
    BY <1>3 DEF InfoSM
  <2> QED
    BY <1>3, <2>1, InformedByAged
<1>4. CASE s.infoIs[p] = "Disabled" /\ ~Up(s, p)
  <2>1. t = s
    BY <1>4 DEF InfoSM
  <2> QED
    BY <1>4, <2>1, InformedReflexive
<1>5. CASE s.infoIs[p] # "Disabled" /\ Up(s, p)
  <2>1. t = Current(m, p, late)
    BY <1>5 DEF InfoSM
  <2>2. Settled(s)
    BY <1>5 DEF Blank
  <2>3. Informed(m, s, p) /\ Settled(m) /\ m.rcvd = s.rcvd /\ m.infoIs[p] \in {"Mine", "Received"}
    <3>1. CASE s.updtInfo[p]
      BY <2>2, <3>1, InformedByUpdate, UpdateKeeps DEF Settled
    <3>2. CASE ~s.updtInfo[p]
      BY <1>1, <1>5, <2>2, <3>2, InformedReflexive
    <3> QED
      BY <3>1, <3>2
  <2> HIDE DEF m
  <2>4. m \in Sys /\ Held(m) /\ Foreign(m)
    BY <2>3 DEF Informed, Foreign
  <2>5. Informed(Current(m, p, late), m, p) /\ Current(m, p, late).rcvd = None
    BY <2>3, <2>4, InformedByCurrent
  <2> QED
    BY <1>5, <2>1, <2>3, <2>5, InformedTransitive
<1> QED
  BY <1>1, <1>2, <1>3, <1>4, <1>5

(* What a round leaves, with what it found. *)
Rounded(u, s, p) ==
    /\ u \in Sys /\ Held(u) /\ Settled(u) /\ SameLinks(u, s) /\ SameOut(u, s)
    /\ u.rcvd \in {None, s.rcvd} /\ OneTold(u, s, p)
    /\ Cleans(s, p) => Cleans(u, p)

LEMMA RoundFacts ==
    ASSUME NEW s \in Sys, NEW t, NEW p \in Ports, Informed(t, s, p), NEW expired \in BOOLEAN
    PROVE  LET u == StateSelection(t, expired)
           IN  Rounded(u, s, p) /\ SameInfo(u, t)
<1> DEFINE v == UpdtStatesTree(t)
           u == StateSelection(t, expired)
<1>1. t \in Sys /\ Held(t) /\ Common(t, s)
  BY DEF Informed
<1>2. CASE ~t.reselect
  <2>1. u = t
    BY <1>2 DEF StateSelection
  <2>2. Settled(t)
    BY <1>2 DEF Informed, Settled
  <2>3. Cleans(s, p) => Cleans(t, p)
    BY InformedCleans
  <2> HIDE DEF u
  <2>4. Rounded(t, s, p) /\ SameInfo(t, t)
    BY <2>2, <2>3 DEF Rounded, Informed, Common, SameInfo
  <2> QED
    BY <2>1, <2>4 DEF u
<1>3. CASE t.reselect
  <2>1. /\ v \in Sys /\ Held(v) /\ Selection(v) /\ ~v.reselect /\ v.gm \in Vector
        /\ SameLinks(v, t) /\ SameOut(v, t) /\ SameInfo(v, t) /\ v.newInfo = t.newInfo
        /\ v.pathTrace \in {<<ThisClock>>, t.pathTrace}
                           \cup {Traced(t.annPath[q], ThisClock) : q \in Ports}
    BY <1>1, UpdtStatesTreeFacts
  <2>2. u = IF v.gm # t.gm THEN GmChanged(v, expired) ELSE v
    BY <1>3 DEF StateSelection
  <2> HIDE DEF v
  <2>3. Syncs(u, v)
    BY <2>1, <2>2, GmChangedFacts, SyncsReflexive
  <2> HIDE DEF u
  <2>4. /\ u \in Sys /\ SameLinks(u, v) /\ SameOut(u, v) /\ SameChoice(u, v) /\ SameInfo(u, v)
        /\ SameFlags(u, v) /\ u.newInfo = v.newInfo
    BY <2>3 DEF Syncs, Like
  <2>5. Held(u) /\ Selection(u)
    BY <2>1, <2>4, SameSelection DEF SameLinks, SameChoice, SameInfo, SameFlags
  <2>6. Settled(u)
    BY <2>1, <2>4, <2>5 DEF Settled, SameChoice, SameFlags
  <2>7. SameInfo(u, t) /\ u.newInfo = t.newInfo
    BY <2>1, <2>4 DEF SameInfo
  <2>8. SameLinks(u, s) /\ SameOut(u, s)
    BY <1>1, <2>1, <2>4 DEF Common, SameLinks, SameOut
  <2>9. ASSUME Cleans(s, p) PROVE Cleans(u, p)
    <3>1. Cleans(t, p)
      BY <2>9, InformedCleans
    <3>2. Ended(v.pathTrace)
      BY <2>1, <3>1, CleanLemma DEF Cleans
    <3>3. u.pathTrace = v.pathTrace /\ u.annPath = t.annPath /\ u.rcvd = t.rcvd /\ u.tlv = t.tlv
      BY <2>1, <2>4 DEF SameChoice, SameInfo, SameLinks
    <3> QED
      BY <3>1, <3>2, <3>3 DEF Cleans
  <2>10. u.rcvd \in {None, s.rcvd} /\ OneTold(u, s, p)
    BY <2>7 DEF Informed, SameInfo, OneTold
  <2>11. Rounded(u, s, p)
    BY <2>4, <2>5, <2>6, <2>8, <2>9, <2>10 DEF Rounded
  <2> QED
    BY <2>7, <2>11 DEF u
<1> QED
  BY <1>2, <1>3

LEMMA RoundedTransitive ==
    ASSUME NEW s, NEW u, NEW v, NEW p, Rounded(u, s, p), Rounded(v, u, p)
    PROVE  Rounded(v, s, p)
<1>1. SameLinks(v, s) /\ SameOut(v, s)
  BY DEF Rounded, SameLinks, SameOut
<1>2. OneTold(v, s, p)
  BY DEF Rounded, OneTold
<1> QED
  BY <1>1, <1>2 DEF Rounded

LEMMA SettledPort ==
    ASSUME NEW s \in Sys, Selection(s), NEW p \in Ports
    PROVE  /\ s.infoIs[p] = "Disabled" => ~s.updtInfo[p] /\ s.selected[p] = "Disabled"
           /\ ~s.updtInfo[p] => s.infoIs[p] # "Aged"
  BY DEF Selection, NewState

(* The port tells its master priority, then looks at the announce: whether *)
(* it is taken or not, nothing is left to be updated.                      *)
LEMMA SecondRound ==
    ASSUME NEW s \in Sys, Held(s), Settled(s), NEW p \in Ports, s.updtInfo[p], Up(s, p),
           Foreign(s), NEW c \in Conditions
    PROVE  LET v == Round(s, p, c)
           IN  Rounded(v, s, p) /\ v.rcvd = None /\ ~v.updtInfo[p]
<1> DEFINE m == Update(s, p)
           t == Current(m, p, c.late)
           v == Round(s, p, c)
<1>1. c.late \in {"no", "sync", "announce"} /\ c.stable \in BOOLEAN
  BY DEF Conditions
<1>2. s.infoIs[p] # "Disabled"
  BY SettledPort DEF Settled
<1>3. InfoSM(s, p, c.late) = t
  BY <1>2 DEF InfoSM
<1>4. v = StateSelection(t, c.stable)
  BY <1>3 DEF Round
<1>5. /\ Informed(m, s, p) /\ Settled(m) /\ m.rcvd = s.rcvd /\ m.infoIs[p] = "Mine" /\ ~m.updtInfo[p]
      /\ m.prio[p] = MasterPriority(m, p)
  BY InformedByUpdate, UpdateKeeps DEF Settled
<1> HIDE DEF m
<1>6. m \in Sys /\ Held(m) /\ Foreign(m) /\ Selection(m) /\ m.gm \in Vector
  BY <1>5 DEF Informed, Foreign, Settled
<1>7. Informed(t, s, p) /\ t.rcvd = None
  BY <1>1, <1>5, <1>6, InformedByCurrent, InformedTransitive
<1>8. \/ s.rcvd = None /\ t = m
      \/ t = Done(m)
      \/ t = Superior(m, p) /\ m.rcvd # None /\ Better(MessagePriority(m.rcvd, p), m.prio[p])
  BY <1>1, <1>5, <1>6, CurrentFacts
<1> HIDE DEF t, v
<1>9. Rounded(v, s, p) /\ SameInfo(v, t)
  BY <1>1, <1>4, <1>7, RoundFacts
<1>10. v.rcvd = None
  BY <1>7, <1>9 DEF SameInfo
<1>11. ASSUME t = m \/ t = Done(m) PROVE ~v.updtInfo[p]
  <2>1. ~t.reselect /\ ~t.updtInfo[p]
    BY <1>5, <1>6, <1>11, DoneFacts DEF Settled, SameFlags
  <2>2. v = t
    BY <1>4, <2>1 DEF StateSelection
  <2> QED
    BY <2>1, <2>2
<1>12. ASSUME t = Superior(m, p), m.rcvd # None, Better(MessagePriority(m.rcvd, p), m.prio[p])
       PROVE  ~v.updtInfo[p]
  <2> DEFINE a == MessagePriority(m.rcvd, p)
             Q(r) == {q \in Ports : r.infoIs[q] = "Received"}
  <2>1. /\ Informed(t, m, p) /\ t.infoIs[p] = "Received" /\ t.prio[p] = a
        /\ \A q \in Ports \ {p} : t.prio[q] = m.prio[q]
    BY <1>6, <1>12, InformedBySuperior
  <2>2. a \in Vector
    BY <1>6, <1>12, MessageLemma DEF Foreign
  <2>3. /\ v.infoIs[p] = "Received" /\ v.prio[p] = a
        /\ \A q \in Ports \ {p} : v.infoIs[q] = m.infoIs[q] /\ v.prio[q] = m.prio[q]
    BY <1>9, <2>1 DEF SameInfo, Informed, OneTold
  <2>4. v.system = m.system
    BY <1>5, <1>9 DEF Rounded, Informed, Common, SameLinks
  <2>5. v \in Sys /\ Held(v) /\ Selection(v)
    BY <1>9 DEF Rounded, Settled
  <2> SUFFICES ASSUME v.updtInfo[p] PROVE FALSE
    OBVIOUS
  <2>6. v.selected[p] = "Master" /\ v.selected[p] = NewState(v, p)
    BY <2>3, <2>5 DEF Selection
  <2>7. PathPriority(v, p) # v.gm /\ Better(MasterPriority(v, p), a)
    BY <2>3, <2>6 DEF NewState
  <2>8. /\ Candidates(v) = {v.system} \cup {PathPriority(v, q) : q \in Q(v)}
        /\ Candidates(m) = {m.system} \cup {PathPriority(m, q) : q \in Q(m)}
        /\ Candidates(m) \subseteq Vector
    BY <1>6, <2>5, CandidatesLemma
  <2>9. Q(v) = Q(m) \cup {p} /\ p \notin Q(m)
    BY <1>5, <2>3
  <2>10. \A q \in Q(m) : PathPriority(v, q) = PathPriority(m, q)
    BY <2>3, <2>9 DEF PathPriority
  <2>11. Candidates(m) \subseteq Candidates(v) /\ Candidates(v) \subseteq Candidates(m) \cup {PathPriority(v, p)}
    BY <2>4, <2>8, <2>9, <2>10
  <2>12. IsBest(v.gm, Candidates(m)) /\ IsBest(m.gm, Candidates(m))
    BY <1>6, <2>5, <2>7, <2>11 DEF Selection, IsBest
  <2>13. v.gm = m.gm
    BY <2>8, <2>12, BestUnique
  <2>14. MasterPriority(v, p) = m.prio[p]
    BY <1>5, <2>4, <2>13 DEF MasterPriority, Me
  <2>15. m.prio[p] \in Vector
    BY <1>5, <1>6 DEF Held
  <2> HIDE DEF a
  <2> QED
    BY <1>12, <2>2, <2>7, <2>14, <2>15, BetterAsymmetric DEF a
<1> QED
  BY <1>5, <1>8, <1>9, <1>10, <1>11, <1>12 DEF v

(* Before the announce machine: what the loop of rounds starts with. *)
Starts(s, p) ==
    /\ s \in Sys /\ Held(s) /\ (Settled(s) \/ Blank(s)) /\ Foreign(s)
    /\ (s.rcvd # None => Up(s, p)) /\ s.infoIs[p] # "Aged"

LEMMA TwoRounds ==
    ASSUME NEW s, NEW p \in Ports, Starts(s, p), NEW c \in Conditions
    PROVE  LET once == Round(s, p, c)
               twice == IF once.updtInfo[p] THEN Round(once, p, c) ELSE once
           IN  /\ Rounded(twice, s, p) /\ twice.rcvd = None /\ ~twice.updtInfo[p]
               /\ ~Up(s, p) => twice.infoIs[p] = "Disabled"
<1> DEFINE once == Round(s, p, c)
           two == Round(once, p, c)
           t == InfoSM(s, p, c.late)
<1>1. c.late \in {"no", "sync", "announce"} /\ c.stable \in BOOLEAN /\ s \in Sys
  BY DEF Conditions, Starts
<1>2. /\ Informed(t, s, p) /\ (~Up(s, p) => t.infoIs[p] = "Disabled")
      /\ t.rcvd # None => t.infoIs[p] = "Aged"
  BY <1>1, FirstInfo DEF Starts
<1>3. Rounded(once, s, p) /\ SameInfo(once, t)
  BY <1>1, <1>2, RoundFacts DEF Round
<1> HIDE DEF once, t
<1>4. /\ once \in Sys /\ Held(once) /\ Settled(once) /\ (Up(once, p) <=> Up(s, p))
  BY <1>3 DEF Rounded, SameLinks, Up
<1>5. ~Up(s, p) => once.infoIs[p] = "Disabled" /\ ~once.updtInfo[p]
  BY <1>2, <1>3, <1>4, SettledPort DEF SameInfo, Settled
<1>6. CASE ~once.updtInfo[p]
  <2>1. once.infoIs[p] # "Aged"
    BY <1>4, <1>6, SettledPort DEF Settled
  <2>2. once.rcvd = None
    BY <1>2, <1>3, <2>1 DEF SameInfo
  <2> QED
    BY <1>3, <1>5, <1>6, <2>2 DEF once
<1>7. CASE once.updtInfo[p]
  <2>1. Up(once, p) /\ Up(s, p)
    BY <1>4, <1>5, <1>7
  <2>2. Foreign(once)
    BY <1>3 DEF Rounded, Foreign, Starts
  <2>3. Rounded(two, once, p) /\ two.rcvd = None /\ ~two.updtInfo[p]
    BY <1>4, <1>7, <2>1, <2>2, SecondRound
  <2> HIDE DEF two
  <2>4. Rounded(two, s, p)
    BY <1>3, <2>3, RoundedTransitive
  <2> QED
    BY <1>7, <2>1, <2>3, <2>4 DEF once, two
<1> QED
  BY <1>6, <1>7

-----------------------------------------------------------------------------
(***************************************************************************)
(* port_announce_transmit_sm and md_announce_send_sm                       *)
(***************************************************************************)

(* Every announce that may arrive has a path trace TLV, and no path trace  *)
(* holds a clock twice.                                                    *)
Traceful ==
    \A around \in Surroundings, p \in Ports : \A a \in around[p] :
        a.tlv.tlv /\ Distinct(a.tlv.path)

LeavingOn(s, p) == {s.out[p][i] : i \in DOMAIN s.out[p]}

(* What a port sends or has put off, whatever has happened since *)
Sending(s, p) ==
    /\ s.deferred[p] => s.tx[p] \in Message
    /\ \A a \in LeavingOn(s, p) : a \in Message
    /\ Traceful => /\ s.tx[p] # None => Ended(s.tx[p].tlv.path)
                   /\ \A a \in LeavingOn(s, p) : Ended(a.tlv.path)

(* A port that tells its own information has nothing new to tell: it has   *)
(* composed an announce of it, and if the link is up and the network has   *)
(* taken it, that is what the neighbour was told last.                     *)
Tells(s, p) ==
    s.infoIs[p] = "Mine" =>
        /\ ~s.newInfo[p] /\ s.tx[p] # None
        /\ s.tx[p].root = <<s.prio[p][1], s.prio[p][2]>> /\ s.tx[p].steps = s.prio[p][3]
        /\ s.oper[p] /\ ~s.deferred[p] => s.told[p] = s.tx[p]

(* A port whose link is down is disabled, or will be: it is not capable. *)
Wired(s, p) == s.infoIs[p] # "Disabled" /\ s.asCapable[p] => s.oper[p]

(* What of the two the machines need to find for a port p. *)
KnowsBut(s, p) ==
    /\ \A q \in Ports \ {p} : Tells(s, q) /\ Wired(s, q)
    /\ Up(s, p) => Tells(s, p)

(* All but the messages is the same. *)
Kept(t, s) ==
    /\ t \in Sys /\ SameLinks(t, s) /\ SameChoice(t, s) /\ SameInfo(t, s) /\ SameFlags(t, s)

(* At most one more message leaves, on a port that may send, and the other *)
(* ports send what they did.                                               *)
SendsOne(t, s, p) ==
    /\ \A q \in Ports \ {p} : t.out[q] = s.out[q]
    /\ \/ t.out[p] = s.out[p]
       \/ Up(t, p) /\ Len(t.out[p]) = Len(s.out[p]) + 1

LEMMA KeptReflexive == ASSUME NEW s \in Sys PROVE Kept(s, s)
  BY DEF Kept, SameLinks, SameChoice, SameInfo, SameFlags

LEMMA MessageIsSome ==
    ASSUME NEW m \in Message
    PROVE  m # None
<1>1. m.tlv \in TlvRecord /\ DOMAIN m = {"root", "steps", "tlv"}
  BY DEF Message
<1>2. DOMAIN None = {}
  BY DEF None
<1> QED
  BY <1>1, <1>2

(* The port has put its announce off, or that is what was told last; what  *)
(* there is to tell and what the others have told stays.                   *)
TellsTx(t, s, p) ==
    /\ t.newInfo = s.newInfo /\ t.tx = s.tx
    /\ ~t.deferred[p] => t.told[p] = t.tx[p]
    /\ \A q \in Ports \ {p} : t.deferred[q] = s.deferred[q] /\ t.told[q] = s.told[q]

LEMMA SentFacts ==
    ASSUME NEW s \in Sys, NEW p \in Ports, NEW fail \in BOOLEAN,
           s.tx[p] \in Message, Up(s, p), \A q \in Ports : Sending(s, q)
    PROVE  LET t == Sent(s, p, fail)
           IN  /\ Kept(t, s) /\ SendsOne(t, s, p) /\ \A q \in Ports : Sending(t, q)
               /\ TellsTx(t, s, p)
<1> DEFINE a == s.tx[p]
           yes == [s.deferred EXCEPT ![p] = TRUE]
           no == [s.deferred EXCEPT ![p] = FALSE]
           out == [s.out EXCEPT ![p] = Append(@, a)]
           told == [s.told EXCEPT ![p] = a]
           f == [s EXCEPT !.deferred = yes]
           g == [s EXCEPT !.deferred = no, !.out = out, !.told = told]
<1>1. Sent(s, p, fail) = IF fail THEN f ELSE g
  BY DEF Sent, Sys
<1>2. a \in Messages /\ a \in Message /\ a = s.tx[p]
  BY DEF Messages
<1>3. s.out[p] \in Seq(Messages)
  BY DEF Sys
<1> HIDE DEF a
<1>4. /\ yes \in Flags /\ no \in Flags /\ out \in [Ports -> Seq(Messages)]
      /\ told \in [Ports -> Messages]
      /\ yes[p] /\ ~no[p] /\ out[p] = Append(s.out[p], a) /\ told[p] = a
      /\ \A q \in Ports \ {p} : /\ yes[q] = s.deferred[q] /\ no[q] = s.deferred[q]
                                /\ out[q] = s.out[q] /\ told[q] = s.told[q]
  BY <1>2, <1>3 DEF Sys, Flags
<1> HIDE DEF yes, no, out, told
<1>5. f \in Sys /\ g \in Sys
  BY <1>4, ZenonT(60) DEF Sys
<1>6. /\ Kept(f, s) /\ Kept(g, s)
  BY <1>5 DEF Kept, SameLinks, SameChoice, SameInfo, SameFlags, Sys
<1>7. /\ f.deferred = yes /\ f.out = s.out /\ f.tx = s.tx /\ f.told = s.told
      /\ g.deferred = no /\ g.out = out /\ g.tx = s.tx /\ g.told = told
      /\ f.newInfo = s.newInfo /\ g.newInfo = s.newInfo
  BY DEF Sys
<1> HIDE DEF f, g
<1>8. CASE fail
  <2>1. SendsOne(f, s, p)
    BY <1>7 DEF SendsOne
  <2>2. ASSUME NEW q \in Ports PROVE Sending(f, q)
    <3>1. LeavingOn(f, q) = LeavingOn(s, q)
      BY <1>7 DEF LeavingOn
    <3>2. f.deferred[q] => s.tx[q] \in Message
      BY <1>4, <1>7 DEF Sending
    <3> QED
      BY <1>7, <3>1, <3>2 DEF Sending
  <2>3. TellsTx(f, s, p)
    BY <1>4, <1>7 DEF TellsTx
  <2> QED
    BY <1>1, <1>6, <1>8, <2>1, <2>2, <2>3
<1>9. CASE ~fail
  <2>1. Up(g, p)
    BY <1>6 DEF Kept, SameLinks, Up
  <2>2. SendsOne(g, s, p)
    BY <1>3, <1>4, <1>7, <2>1 DEF SendsOne
  <2>3. LeavingOn(g, p) \subseteq LeavingOn(s, p) \cup {a}
    BY <1>2, <1>3, <1>4, <1>7 DEF LeavingOn
  <2>4. \A q \in Ports \ {p} : LeavingOn(g, q) = LeavingOn(s, q)
    BY <1>4, <1>7 DEF LeavingOn
  <2>5. Traceful => Ended(a.tlv.path)
    BY <1>2, MessageIsSome DEF Sending
  <2>6. Sending(g, p)
    BY <1>2, <1>4, <1>7, <2>3, <2>5 DEF Sending
  <2>7. \A q \in Ports \ {p} : Sending(g, q)
    BY <1>4, <1>7, <2>4 DEF Sending
  <2>8. TellsTx(g, s, p)
    BY <1>2, <1>4, <1>7 DEF TellsTx
  <2> QED
    BY <1>1, <1>6, <1>9, <2>2, <2>6, <2>7, <2>8
<1> QED
  BY <1>8, <1>9

(* What md_announce_send_sm leaves to the machines of the port *)
LEMMA SendDeferredFacts ==
    ASSUME NEW s \in Sys, NEW p \in Ports, NEW fail \in BOOLEAN,
           \A q \in Ports : Sending(s, q)
    PROVE  LET t == SendDeferred(s, p, fail)
           IN  /\ Kept(t, s) /\ SendsOne(t, s, p) /\ \A q \in Ports : Sending(t, q)
               /\ \A q \in Ports \ {p} : Tells(s, q) => Tells(t, q)
               /\ Up(s, p) /\ Tells(s, p) => Tells(t, p)
<1> DEFINE no == [s.deferred EXCEPT ![p] = FALSE]
           f == [s EXCEPT !.deferred = no]
<1>1. SendDeferred(s, p, fail) = IF ~Up(s, p) THEN f
                                 ELSE IF s.deferred[p] THEN Sent(s, p, fail) ELSE s
  BY DEF SendDeferred, Sys
<1>2. no \in Flags /\ ~no[p] /\ \A q \in Ports \ {p} : no[q] = s.deferred[q]
  BY DEF Sys, Flags
<1> HIDE DEF no
<1>3. f \in Sys
  BY <1>2, ZenonT(60) DEF Sys
<1>4. /\ Kept(f, s) /\ f.deferred = no /\ f.out = s.out /\ f.tx = s.tx
      /\ f.newInfo = s.newInfo /\ f.told = s.told
  BY <1>3 DEF Kept, SameLinks, SameChoice, SameInfo, SameFlags, Sys
<1> HIDE DEF f
<1>5. CASE ~Up(s, p)
  <2>1. SendsOne(f, s, p)
    BY <1>4 DEF SendsOne
  <2>2. ASSUME NEW q \in Ports PROVE Sending(f, q)
    <3>1. LeavingOn(f, q) = LeavingOn(s, q)
      BY <1>4 DEF LeavingOn
    <3> QED
      BY <1>2, <1>4, <3>1 DEF Sending
  <2>3. \A q \in Ports \ {p} : Tells(s, q) => Tells(f, q)
    BY <1>2, <1>4 DEF Tells, Kept, SameInfo, SameLinks
  <2> QED
    BY <1>1, <1>4, <1>5, <2>1, <2>2, <2>3
<1>6. CASE Up(s, p) /\ s.deferred[p]
  <2> DEFINE g == Sent(s, p, fail)
  <2>1. s.tx[p] \in Message
    BY <1>6 DEF Sending
  <2>2. g = SendDeferred(s, p, fail)
    BY <1>1, <1>6
  <2>3. /\ Kept(g, s) /\ SendsOne(g, s, p) /\ \A q \in Ports : Sending(g, q)
        /\ TellsTx(g, s, p)
    BY <1>6, <2>1, SentFacts
  <2> HIDE DEF g
  <2>4. \A q \in Ports : Tells(s, q) => Tells(g, q)
    BY <2>3 DEF Tells, TellsTx, Kept, SameInfo, SameLinks
  <2> QED
    BY <2>2, <2>3, <2>4
<1>7. CASE Up(s, p) /\ ~s.deferred[p]
  BY <1>1, <1>7, KeptReflexive DEF SendsOne
<1> QED
  BY <1>5, <1>6, <1>7

LEMMA TxAnnounceLemma ==
    ASSUME NEW s \in Sys, s.gm \in Vector
    PROVE  /\ TxAnnounce(s) \in Message
           /\ TxAnnounce(s).root = Root(s.gm) /\ TxAnnounce(s).steps = Steps(s.gm)
           /\ TxAnnounce(s).tlv.path = s.pathTrace
<1>1. Root(s.gm) \in Nat \X Nat /\ Steps(s.gm) \in Nat
  BY VectorLemma DEF Root, Steps
<1>2. Tlv(s.pathTrace) \in TlvRecord /\ Tlv(s.pathTrace).path = s.pathTrace
  BY DEF Sys, Traces, Tlv, TlvRecord
<1> QED
  BY <1>1, <1>2 DEF TxAnnounce, Message

LEMMA TransmitFacts ==
    ASSUME NEW s \in Sys, NEW p \in Ports, NEW due \in BOOLEAN, NEW fail \in BOOLEAN,
           \A q \in Ports : Sending(s, q), Settled(s), ~s.updtInfo[p],
           ~Up(s, p) => s.infoIs[p] = "Disabled", Traceful => Ended(s.pathTrace),
           \A q \in Ports \ {p} : Tells(s, q), ~s.newInfo[p] => Tells(s, p)
    PROVE  LET t == Transmit(s, p, due, fail)
           IN  /\ Kept(t, s) /\ SendsOne(t, s, p)
               /\ \A q \in Ports : Sending(t, q) /\ Tells(t, q)
<1> DEFINE m == TxAnnounce(s)
           n == [s.newInfo EXCEPT ![p] = @ \/ ~s.asCapable[p] \/ (due /\ s.selected[p] = "Master")]
           z == [n EXCEPT ![p] = FALSE]
           x == [s.tx EXCEPT ![p] = m]
           t == [s EXCEPT !.newInfo = n]
           u == [t EXCEPT !.newInfo = z, !.tx = x]
<1>1. /\ n \in Flags /\ z \in Flags /\ ~z[p] /\ (s.newInfo[p] => n[p])
      /\ \A q \in Ports \ {p} : n[q] = s.newInfo[q] /\ z[q] = s.newInfo[q]
  BY DEF Sys, Flags
<1>2. m \in Message /\ m.root = Root(s.gm) /\ m.steps = Steps(s.gm) /\ m.tlv.path = s.pathTrace
  BY TxAnnounceLemma DEF Settled
<1>3. Transmit(s, p, due, fail) =
          IF s.asCapable[p] /\ t.newInfo[p] /\ s.selected[p] = "Master" /\ ~s.updtInfo[p]
          THEN Sent(u, p, fail) ELSE t
  <2> DEFINE b == [s EXCEPT !.newInfo[p] = @ \/ ~s.asCapable[p] \/ (due /\ s.selected[p] = "Master")]
             d == [b EXCEPT !.newInfo[p] = FALSE, !.tx[p] = TxAnnounce(s)]
  <2>1. t = b
    BY DEF Sys
  <2>2. Transmit(s, p, due, fail) =
            IF s.asCapable[p] /\ b.newInfo[p] /\ s.selected[p] = "Master" /\ ~s.updtInfo[p]
            THEN Sent(d, p, fail) ELSE b
    BY Zenon DEF Transmit
  <2> HIDE DEF b
  <2>3. u = [t EXCEPT !.newInfo[p] = FALSE, !.tx[p] = TxAnnounce(s)]
    BY DEF Sys
  <2> HIDE DEF t, u
  <2>4. d = u
    BY <2>1, <2>3
  <2> HIDE DEF d
  <2> QED
    BY <2>1, <2>2, <2>4
<1> HIDE DEF m
<1>4. x \in [Ports -> Messages] /\ x[p] = m /\ \A q \in Ports \ {p} : x[q] = s.tx[q]
  BY <1>2 DEF Sys, Messages
<1> HIDE DEF n, z, x
<1>5. t \in Sys
  BY <1>1, ZenonT(60) DEF Sys
<1>6. Kept(t, s) /\ SameOut(t, s) /\ t.newInfo = n
  BY <1>5 DEF Kept, SameLinks, SameChoice, SameInfo, SameFlags, SameOut, Sys
<1> HIDE DEF t
<1>7. u \in Sys
  BY <1>1, <1>4, <1>5, ZenonT(60) DEF Sys
<1>8. /\ Kept(u, t) /\ u.tx = x /\ u.deferred = t.deferred /\ u.out = t.out
      /\ u.told = t.told /\ u.newInfo = z
  BY <1>5, <1>7 DEF Kept, SameLinks, SameChoice, SameInfo, SameFlags, Sys
<1> HIDE DEF u
<1>9. CASE ~(s.asCapable[p] /\ t.newInfo[p] /\ s.selected[p] = "Master" /\ ~s.updtInfo[p])
  <2>1. SendsOne(t, s, p)
    BY <1>6 DEF SameOut, SendsOne
  <2>2. \A q \in Ports : Sending(t, q)
    BY <1>6 DEF SameOut, Sending, LeavingOn
  <2>3. s.infoIs[p] = "Mine" => ~n[p]
    <3>1. s.infoIs[p] = "Mine" => s.asCapable[p] /\ s.selected[p] = "Master"
      BY DEF Settled, Selection, NewState, Up
    <3> QED
      BY <1>6, <1>9, <3>1
  <2>4. Tells(t, p)
    BY <1>1, <1>6, <2>3 DEF Tells, Kept, SameInfo, SameLinks, SameOut
  <2>5. \A q \in Ports \ {p} : Tells(t, q)
    BY <1>1, <1>6 DEF Tells, Kept, SameInfo, SameLinks, SameOut
  <2> QED
    BY <1>3, <1>6, <1>9, <2>1, <2>2, <2>4, <2>5
<1>10. CASE s.asCapable[p] /\ t.newInfo[p] /\ s.selected[p] = "Master" /\ ~s.updtInfo[p]
  <2>1. Kept(u, s) /\ u.deferred = s.deferred /\ u.out = s.out /\ u.told = s.told
    BY <1>6, <1>8 DEF Kept, SameLinks, SameChoice, SameInfo, SameFlags, SameOut
  <2>2. Up(s, p) /\ Up(u, p)
    <3>1. Up(s, p)
      BY <1>10, SettledPort DEF Settled
    <3> QED
      BY <2>1, <3>1 DEF Kept, SameLinks, Up
  <2>3. u.tx[p] = m /\ \A q \in Ports \ {p} : u.tx[q] = s.tx[q]
    BY <1>4, <1>6, <1>8 DEF SameOut
  <2>4. s.infoIs[p] = "Mine" => m.root = <<s.prio[p][1], s.prio[p][2]>> /\ m.steps = s.prio[p][3]
    <3>1. s.infoIs[p] = "Mine" => s.prio[p] = MasterPriority(s, p)
      BY DEF Settled, Selection
    <3> QED
      BY <1>2, <3>1 DEF MasterPriority, Root, Steps
  <2>5. ASSUME NEW q \in Ports PROVE Sending(u, q)
    <3>1. LeavingOn(u, q) = LeavingOn(s, q)
      BY <2>1 DEF LeavingOn
    <3>2. Sending(s, q)
      OBVIOUS
    <3>3. CASE q = p
      BY <1>2, <2>1, <2>3, <3>1, <3>2, <3>3 DEF Sending
    <3>4. CASE q # p
      <4>1. u.tx[q] = s.tx[q]
        BY <2>3, <3>4
      <4> QED
        BY <2>1, <3>1, <3>2, <4>1 DEF Sending
    <3> QED
      BY <3>3, <3>4
  <2> DEFINE v == Sent(u, p, fail)
  <2>6. /\ Kept(v, u) /\ SendsOne(v, u, p) /\ \A q \in Ports : Sending(v, q)
        /\ TellsTx(v, u, p)
    BY <1>2, <1>7, <2>2, <2>3, <2>5, SentFacts
  <2> HIDE DEF v
  <2>7. Kept(v, s)
    BY <2>1, <2>6 DEF Kept, SameLinks, SameChoice, SameInfo, SameFlags
  <2>8. SendsOne(v, s, p)
    BY <2>1, <2>6 DEF SendsOne
  <2>9. v.tx = u.tx /\ v.newInfo = z
    BY <1>8, <2>6 DEF TellsTx
  <2>10. Tells(v, p)
    <3>1. v.tx[p] = m /\ m # None
      BY <1>2, <2>3, <2>9, MessageIsSome
    <3>2. ~v.newInfo[p] /\ (~v.deferred[p] => v.told[p] = v.tx[p])
      BY <1>1, <2>6, <2>9 DEF TellsTx
    <3>3. v.infoIs = s.infoIs /\ v.prio = s.prio
      BY <2>7 DEF Kept, SameInfo
    <3> QED
      BY <2>4, <3>1, <3>2, <3>3 DEF Tells
  <2>11. ASSUME NEW q \in Ports \ {p} PROVE Tells(v, q)
    <3>1. /\ v.tx[q] = s.tx[q] /\ v.newInfo[q] = s.newInfo[q]
          /\ v.deferred[q] = s.deferred[q] /\ v.told[q] = s.told[q]
      BY <1>1, <2>1, <2>3, <2>6, <2>9 DEF TellsTx
    <3>2. v.infoIs = s.infoIs /\ v.prio = s.prio /\ v.oper = s.oper
      BY <2>7 DEF Kept, SameInfo, SameLinks
    <3>3. Tells(s, q)
      OBVIOUS
    <3> QED
      BY <3>1, <3>2, <3>3 DEF Tells
  <2> QED
    BY <1>3, <1>10, <2>6, <2>7, <2>8, <2>10, <2>11 DEF v
<1> QED
  BY <1>9, <1>10

-----------------------------------------------------------------------------
(***************************************************************************)
(* sm_bmcs_perform, and the state a handler leaves behind.                 *)
(***************************************************************************)

(* No machine waits; what is held, chosen and sent is as it should be, and *)
(* so is what the neighbours were told.                                    *)
Idle(s) ==
    /\ s \in Sys /\ Held(s) /\ (Settled(s) \/ Blank(s)) /\ s.rcvd = None /\ ~s.spins
    /\ \A p \in Ports : s.infoIs[p] # "Aged" /\ Sending(s, p)
    /\ Traceful => \A p \in Ports : Cleans(s, p)

Resting(s) == Idle(s) /\ \A p \in Ports : Tells(s, p) /\ Wired(s, p)

LEMMA PerformFacts ==
    ASSUME NEW s, NEW p \in Ports, Starts(s, p), ~s.spins,
           \A q \in Ports : s.infoIs[q] # "Aged" /\ Sending(s, q), Traceful => Cleans(s, p),
           KnowsBut(s, p), NEW c \in Choices
    PROVE  LET t == Perform(s, p, c)
           IN  /\ Resting(t) /\ SendsOne(t, s, p)
               /\ t.oper = s.oper /\ t.asCapable = s.asCapable
<1> DEFINE once == Round(s, p, c)
           twice == IF once.updtInfo[p] THEN Round(once, p, c) ELSE once
           r == [twice EXCEPT !.spins = twice.updtInfo[p]]
           t == Transmit(r, p, c.due, c.fail)
<1>1. /\ c \in Conditions /\ c.due \in BOOLEAN /\ c.fail \in BOOLEAN
  BY DEF Choices, Conditions
<1>2. /\ Rounded(twice, s, p) /\ twice.rcvd = None /\ ~twice.updtInfo[p]
      /\ ~Up(s, p) => twice.infoIs[p] = "Disabled"
  BY <1>1, TwoRounds
<1>3. Perform(s, p, c) = t
  BY Zenon DEF Perform
<1> HIDE DEF once, twice
<1>4. twice \in Sys /\ Held(twice) /\ Settled(twice) /\ SameLinks(twice, s) /\ SameOut(twice, s)
  BY <1>2 DEF Rounded
<1>5. r = twice
  BY <1>2, <1>4 DEF Sys, SameLinks, Flags
<1>6. ~twice.spins /\ twice.oper = s.oper /\ twice.asCapable = s.asCapable
  BY <1>4 DEF SameLinks
<1>7. \A q \in Ports : twice.infoIs[q] # "Aged"
  <2>1. twice.infoIs[p] # "Aged"
    BY <1>2, <1>4, SettledPort DEF Settled
  <2> QED
    BY <1>2, <2>1 DEF Rounded, OneTold
<1>8. \A q \in Ports : Sending(twice, q)
  BY <1>4 DEF SameOut, Sending, LeavingOn
<1>9. Traceful => Cleans(twice, p)
  BY <1>2 DEF Rounded
<1>10. ASSUME NEW q \in Ports
       PROVE  /\ q # p => Tells(twice, q)
              /\ q = p /\ ~twice.newInfo[p] => Tells(twice, p)
              /\ Wired(twice, q)
  <2>1. OneTold(twice, s, p)
    BY <1>2 DEF Rounded
  <2>2. CASE q # p
    <3>1. Tells(s, q) /\ Wired(s, q)
      BY <2>2 DEF KnowsBut
    <3>2. /\ twice.infoIs[q] = s.infoIs[q] /\ twice.prio[q] = s.prio[q]
          /\ twice.newInfo[q] = s.newInfo[q]
      BY <2>1, <2>2 DEF OneTold
    <3> QED
      BY <1>4, <1>6, <2>2, <3>1, <3>2 DEF Tells, Wired, SameOut
  <2>3. CASE q = p
    <3>1. Wired(twice, p)
      BY <1>2, <1>6 DEF Wired, Up
    <3>2. ASSUME ~twice.newInfo[p], twice.infoIs[p] = "Mine" PROVE Tells(twice, p)
      <4>1. Tells(s, p)
        BY <1>2, <3>2 DEF KnowsBut
      <4>2. s.infoIs[p] = "Mine" /\ ~s.newInfo[p] /\ twice.prio[p] = s.prio[p]
        BY <2>1, <3>2 DEF OneTold
      <4> QED
        BY <1>4, <1>6, <3>2, <4>1, <4>2 DEF Tells, SameOut
    <3>3. twice.infoIs[p] # "Mine" => Tells(twice, p)
      BY DEF Tells
    <3> QED
      BY <2>3, <3>1, <3>2, <3>3
  <2> QED
    BY <2>2, <2>3
<1> HIDE DEF r
<1>11. /\ Kept(t, twice) /\ SendsOne(t, twice, p)
       /\ \A q \in Ports : Sending(t, q) /\ Tells(t, q)
  <2>1. ~Up(twice, p) => twice.infoIs[p] = "Disabled"
    BY <1>2, <1>6 DEF Up
  <2>2. Traceful => Ended(twice.pathTrace)
    BY <1>9 DEF Cleans
  <2> QED
    BY <1>1, <1>2, <1>4, <1>5, <1>8, <1>10, <2>1, <2>2, TransmitFacts
<1> HIDE DEF t
<1>12. /\ t \in Sys /\ SameLinks(t, twice) /\ SameChoice(t, twice) /\ SameInfo(t, twice)
       /\ SameFlags(t, twice)
  BY <1>11 DEF Kept
<1>13. Held(t) /\ Selection(t)
  BY <1>4, <1>12, SameSelection DEF SameLinks, SameChoice, SameInfo, SameFlags, Settled
<1>14. Settled(t)
  BY <1>4, <1>12, <1>13 DEF Settled, SameChoice, SameFlags
<1>15. t.rcvd = None /\ ~t.spins /\ \A q \in Ports : t.infoIs[q] # "Aged"
  BY <1>2, <1>6, <1>7, <1>12 DEF SameInfo, SameLinks
<1>16. Traceful => \A q \in Ports : Cleans(t, q)
  BY <1>9, <1>12, <1>15 DEF Cleans, SameInfo, SameChoice
<1>17. Resting(t)
  <2>1. \A q \in Ports : Wired(t, q)
    BY <1>12, <1>10 DEF Wired, SameInfo, SameLinks
  <2>2. Idle(t)
    BY <1>11, <1>12, <1>13, <1>14, <1>15, <1>16 DEF Idle
  <2> QED
    BY <1>11, <2>1, <2>2 DEF Resting
<1>18. SendsOne(t, s, p)
  BY <1>4, <1>11 DEF SendsOne, SameOut
<1>19. t.oper = s.oper /\ t.asCapable = s.asCapable
  BY <1>6, <1>12 DEF SameLinks
<1> QED
  BY <1>3, <1>17, <1>18, <1>19

-----------------------------------------------------------------------------
(***************************************************************************)
(* The handlers of gptpman.c                                               *)
(***************************************************************************)

(* Neither the links nor the TLV in the buffer nor what is known of the    *)
(* synchronization keep an idle system from resting.                       *)
Relinked(t, s) ==
    /\ t \in Sys /\ t.system = s.system /\ t.spins = s.spins
    /\ SameChoice(t, s) /\ SameInfo(t, s) /\ SameFlags(t, s) /\ t.newInfo = s.newInfo
    /\ t.tx = s.tx /\ t.deferred = s.deferred
    /\ \A p \in Ports : t.out[p] \in {s.out[p], <<>>}

(* Nor does what was told matter, as long as the links stay.               *)
Joined(t, s) == t.oper = s.oper /\ t.asCapable = s.asCapable /\ t.told = s.told

LEMMA RelinkedIdles ==
    ASSUME NEW s, NEW t, Idle(s), Relinked(t, s)
    PROVE  Idle(t)
<1>1. t \in Sys /\ t.rcvd = None /\ ~t.spins /\ \A p \in Ports : t.infoIs[p] # "Aged"
  BY DEF Relinked, Idle, SameInfo
<1>2. Held(t) /\ (Selection(s) => Selection(t))
  BY SameSelection DEF Relinked, Idle, SameInfo, SameChoice, SameFlags
<1>3. Settled(t) \/ Blank(t)
  BY <1>2 DEF Relinked, Idle, SameInfo, SameChoice, SameFlags, Settled, Blank
<1>4. ASSUME NEW p \in Ports PROVE Sending(t, p)
  <2>1. LeavingOn(t, p) \subseteq LeavingOn(s, p)
    BY DEF Relinked, LeavingOn
  <2>2. t.tx = s.tx /\ t.deferred = s.deferred /\ Sending(s, p)
    BY DEF Relinked, Idle
  <2> QED
    BY <2>1, <2>2 DEF Sending
<1>5. Traceful => \A p \in Ports : Cleans(t, p)
  BY <1>1 DEF Cleans, Relinked, Idle, SameInfo, SameChoice
<1> QED
  BY <1>1, <1>2, <1>3, <1>4, <1>5 DEF Idle

LEMMA JoinedRests ==
    ASSUME NEW s, NEW t, Resting(s), Relinked(t, s), Joined(t, s)
    PROVE  Resting(t)
<1>1. \A p \in Ports : Tells(t, p) /\ Wired(t, p)
  BY DEF Resting, Relinked, Joined, SameInfo, Tells, Wired
<1> QED
  BY <1>1, RelinkedIdles DEF Resting

LEMMA KeptIdles ==
    ASSUME NEW s, NEW t, Idle(s), Kept(t, s), \A p \in Ports : Sending(t, p)
    PROVE  Idle(t)
<1>1. t \in Sys /\ t.rcvd = None /\ ~t.spins /\ \A p \in Ports : t.infoIs[p] # "Aged"
  BY DEF Kept, Idle, SameInfo, SameLinks
<1>2. Held(t) /\ (Selection(s) => Selection(t))
  BY SameSelection DEF Kept, Idle, SameInfo, SameChoice, SameFlags, SameLinks
<1>3. Settled(t) \/ Blank(t)
  BY <1>2 DEF Kept, Idle, SameInfo, SameChoice, SameFlags, Settled, Blank
<1>4. Traceful => \A p \in Ports : Cleans(t, p)
  BY <1>1 DEF Cleans, Kept, Idle, SameInfo, SameChoice
<1> QED
  BY <1>1, <1>2, <1>3, <1>4 DEF Idle

LEMMA SyncsRelinks ==
    ASSUME NEW s, NEW t, Syncs(t, s)
    PROVE  Relinked(t, s) /\ Joined(t, s) /\ t.out = s.out
  BY DEF Syncs, Like, SameLinks, SameOut, Relinked, Joined

(* A handler starts with nothing sent. *)
Silent(s) == Resting(s) /\ \A p \in Ports : s.out[p] = <<>>

(* What a handler leaves behind: at most what was put off and one more     *)
(* announce have left, on ports that may send.                             *)
AtRest(s) ==
    /\ Resting(s)
    /\ \A p \in Ports : Len(s.out[p]) <= 2 /\ (s.out[p] # <<>> => Up(s, p))

LEMMA SilentIsAtRest ==
    ASSUME NEW s, Silent(s) PROVE AtRest(s)
  BY DEF Silent, AtRest

LEMMA SilentJoined ==
    ASSUME NEW s, NEW t, Silent(s), Relinked(t, s), Joined(t, s)
    PROVE  Silent(t)
<1>1. \A p \in Ports : t.out[p] = <<>>
  BY DEF Silent, Relinked
<1> QED
  BY <1>1, JoinedRests DEF Silent

LEMMA BeginFacts ==
    ASSUME NEW s, Resting(s)
    PROVE  LET t == Begin(s)
           IN  Silent(t) /\ t \in Sys /\ Joined(t, s) /\ t.infoIs = s.infoIs
<1> DEFINE none == [p \in Ports |-> <<>>]
           t == [s EXCEPT !.out = none]
<1>1. Begin(s) = t
  BY DEF Begin
<1>2. none \in [Ports -> Seq(Messages)] /\ \A p \in Ports : none[p] = <<>>
  OBVIOUS
<1>3. s \in Sys
  BY DEF Resting, Idle
<1> HIDE DEF none
<1>4. t \in Sys
  BY <1>2, <1>3, ZenonT(60) DEF Sys
<1>5. Relinked(t, s) /\ Joined(t, s) /\ t.out = none /\ t.infoIs = s.infoIs
  BY <1>2, <1>3, <1>4 DEF Sys, Relinked, Joined, SameChoice, SameInfo, SameFlags
<1> HIDE DEF t
<1> QED
  BY <1>1, <1>2, <1>4, <1>5, JoinedRests DEF Silent

(* The links and what was measured of them change. *)
Linked(t, s, oper, asCapable, told) ==
    /\ Relinked(t, s) /\ Idle(t) /\ \A p \in Ports : t.out[p] = <<>>
    /\ t.oper = oper /\ t.asCapable = asCapable /\ t.told = told

LEMMA LinksFacts ==
    ASSUME NEW s, Silent(s), NEW oper \in Flags, NEW across \in Flags,
           NEW neighbor \in Flags, NEW asCapable \in Flags, NEW any \in BOOLEAN,
           NEW told \in [Ports -> Messages], NEW t,
           t = [s EXCEPT !.oper = oper, !.across = across, !.neighbor = neighbor,
                         !.asCapable = asCapable, !.anyCapable = any, !.told = told]
    PROVE  Linked(t, s, oper, asCapable, told)
<1>1. s \in Sys /\ Idle(s)
  BY DEF Silent, Resting, Idle
<1>2. t \in Sys
  BY <1>1, ZenonT(60) DEF Sys
<1>3. Relinked(t, s) /\ t.oper = oper /\ t.asCapable = asCapable /\ t.told = told
  BY <1>1, <1>2 DEF Sys, Relinked, SameChoice, SameInfo, SameFlags
<1>4. \A p \in Ports : t.out[p] = <<>>
  BY <1>3 DEF Silent, Relinked
<1> QED
  BY <1>1, <1>3, <1>4, RelinkedIdles DEF Linked

(* No link comes up, and no port becomes capable without one. *)
LEMMA LinksRest ==
    ASSUME NEW s, Silent(s), NEW oper \in Flags, NEW across \in Flags,
           NEW neighbor \in Flags, NEW asCapable \in Flags, NEW any \in BOOLEAN,
           NEW told \in [Ports -> Messages],
           \A p \in Ports : /\ oper[p] => s.oper[p] /\ told[p] = s.told[p]
                            /\ asCapable[p] => oper[p] \/ (s.asCapable[p] /\ ~s.oper[p])
    PROVE  Silent([s EXCEPT !.oper = oper, !.across = across, !.neighbor = neighbor,
                            !.asCapable = asCapable, !.anyCapable = any, !.told = told])
<1> DEFINE t == [s EXCEPT !.oper = oper, !.across = across, !.neighbor = neighbor,
                          !.asCapable = asCapable, !.anyCapable = any, !.told = told]
<1>1. /\ Relinked(t, s) /\ Idle(t) /\ \A p \in Ports : t.out[p] = <<>>
      /\ t.oper = oper /\ t.asCapable = asCapable /\ t.told = told
  <2>1. Linked(t, s, oper, asCapable, told)
    BY LinksFacts, Zenon
  <2> QED
    BY <2>1 DEF Linked
<1> HIDE DEF t
<1>2. ASSUME NEW p \in Ports PROVE Tells(t, p) /\ Wired(t, p)
  <2>1. Tells(s, p) /\ Wired(s, p)
    BY DEF Silent, Resting
  <2>2. /\ t.infoIs = s.infoIs /\ t.prio = s.prio /\ t.newInfo = s.newInfo /\ t.tx = s.tx
        /\ t.deferred = s.deferred
    BY <1>1 DEF Relinked, SameInfo
  <2>3. Tells(t, p)
    BY <1>1, <2>1, <2>2 DEF Tells
  <2>4. Wired(t, p)
    BY <1>1, <2>1, <2>2 DEF Wired
  <2> QED
    BY <2>3, <2>4
<1>3. Silent(t)
  BY <1>1, <1>2 DEF Silent, Resting
<1> QED
  BY <1>3 DEF t

LEMMA SyncFacts ==
    ASSUME NEW s, Resting(s), NEW p
    PROVE  AtRest(SyncHandler(s, p))
<1>1. Silent(Begin(s)) /\ Begin(s) \in Sys
  BY BeginFacts
<1>2. Syncs(SetGmSync(Begin(s), FALSE), Begin(s))
  BY <1>1, SetGmSyncFacts
<1>3. Silent(SetGmSync(Begin(s), FALSE))
  BY <1>1, <1>2, SyncsRelinks, SilentJoined
<1> QED
  BY <1>1, <1>3, SilentIsAtRest DEF SyncHandler

LEMMA DevDownFacts ==
    ASSUME NEW s, Resting(s), NEW p \in Ports
    PROVE  AtRest(DevDownHandler(s, p))
<1> DEFINE b == Begin(s)
<1>1. Silent(b) /\ b \in Sys
  BY BeginFacts
<1>2. DevDownHandler(s, p) = [b EXCEPT !.oper[p] = FALSE, !.across[p] = FALSE,
                                      !.asCapable[p] = FALSE, !.told[p] = None]
  BY DEF DevDownHandler
<1> HIDE DEF b
<1> DEFINE o == [b.oper EXCEPT ![p] = FALSE]
           x == [b.across EXCEPT ![p] = FALSE]
           c == [b.asCapable EXCEPT ![p] = FALSE]
           l == [b.told EXCEPT ![p] = None]
           t == [b EXCEPT !.oper = o, !.across = x, !.neighbor = b.neighbor,
                          !.asCapable = c, !.anyCapable = b.anyCapable, !.told = l]
<1>3. /\ o \in Flags /\ x \in Flags /\ c \in Flags /\ b.neighbor \in Flags /\ b.anyCapable \in BOOLEAN
      /\ l \in [Ports -> Messages]
  BY <1>1 DEF Sys, Flags, Messages
<1>4. DevDownHandler(s, p) = t
  BY <1>1, <1>2 DEF Sys
<1>5. \A q \in Ports : /\ o[q] => b.oper[q] /\ l[q] = b.told[q]
                       /\ c[q] => o[q] \/ (b.asCapable[q] /\ ~b.oper[q])
  BY <1>1 DEF Sys, Flags
<1> HIDE DEF o, x, c, l
<1>6. Silent(t)
  BY <1>1, <1>3, <1>5, LinksRest
<1> QED
  BY <1>4, <1>6, SilentIsAtRest

LEMMA MeasuredFacts ==
    ASSUME NEW s, Resting(s), NEW p \in Ports, NEW across \in BOOLEAN
    PROVE  AtRest([Begin(s) EXCEPT !.across[p] = across])
<1> DEFINE b == Begin(s)
           x == [b.across EXCEPT ![p] = across]
           t == [b EXCEPT !.oper = b.oper, !.across = x, !.neighbor = b.neighbor,
                          !.asCapable = b.asCapable, !.anyCapable = b.anyCapable,
                          !.told = b.told]
<1>1. Silent(b) /\ b \in Sys
  BY BeginFacts
<1> HIDE DEF b
<1>2. /\ x \in Flags /\ b.oper \in Flags /\ b.asCapable \in Flags /\ b.neighbor \in Flags
      /\ b.anyCapable \in BOOLEAN /\ b.told \in [Ports -> Messages]
      /\ \A q \in Ports : b.asCapable[q] => b.oper[q] \/ (b.asCapable[q] /\ ~b.oper[q])
  BY <1>1 DEF Sys, Flags
<1>3. [b EXCEPT !.across[p] = across] = t
  BY <1>1 DEF Sys
<1> HIDE DEF x
<1>4. Silent(t)
  BY <1>1, <1>2, LinksRest
<1> QED
  BY <1>3, <1>4, SilentIsAtRest DEF b

LEMMA GptpCapableFacts ==
    ASSUME NEW s, Resting(s), NEW p \in Ports
    PROVE  AtRest([Begin(s) EXCEPT !.neighbor[p] = ~@])
<1> DEFINE b == Begin(s)
           x == [b.neighbor EXCEPT ![p] = ~b.neighbor[p]]
           t == [b EXCEPT !.oper = b.oper, !.across = b.across, !.neighbor = x,
                          !.asCapable = b.asCapable, !.anyCapable = b.anyCapable,
                          !.told = b.told]
<1>1. Silent(b) /\ b \in Sys
  BY BeginFacts
<1> HIDE DEF b
<1>2. /\ x \in Flags /\ b.oper \in Flags /\ b.asCapable \in Flags /\ b.across \in Flags
      /\ b.anyCapable \in BOOLEAN /\ b.told \in [Ports -> Messages]
      /\ \A q \in Ports : b.asCapable[q] => b.oper[q] \/ (b.asCapable[q] /\ ~b.oper[q])
  BY <1>1 DEF Sys, Flags
<1>3. [b EXCEPT !.neighbor[p] = ~@] = t
  BY <1>1 DEF Sys
<1> HIDE DEF x
<1>4. Silent(t)
  BY <1>1, <1>2, LinksRest
<1> QED
  BY <1>3, <1>4, SilentIsAtRest DEF b

LEMMA RespFupFacts ==
    ASSUME NEW s, Resting(s), NEW p \in Ports, s.oper[p], NEW across \in BOOLEAN
    PROVE  AtRest(RespFupHandler(s, p, across))
<1> DEFINE b == Begin(s)
           x == [b.across EXCEPT ![p] = across]
           able == across \/ b.neighbor[p]
           c == [b.asCapable EXCEPT ![p] = able]
           t == [b EXCEPT !.oper = b.oper, !.across = x, !.neighbor = b.neighbor,
                          !.asCapable = c, !.anyCapable = able, !.told = b.told]
<1>1. Silent(b) /\ b \in Sys /\ b.oper[p]
  BY BeginFacts DEF Joined
<1>2. RespFupHandler(s, p, across) =
          LET a == SetAsCapable([b EXCEPT !.across[p] = across], p)
          IN  [a EXCEPT !.anyCapable = a.asCapable[p]]
  BY Zenon DEF RespFupHandler
<1> HIDE DEF b
<1>3. /\ x \in Flags /\ b.oper \in Flags /\ b.neighbor \in Flags /\ c \in Flags /\ able \in BOOLEAN
      /\ b.told \in [Ports -> Messages]
      /\ \A q \in Ports : c[q] => b.oper[q] \/ (b.asCapable[q] /\ ~b.oper[q])
  BY <1>1 DEF Sys, Flags
<1>4. RespFupHandler(s, p, across) = t
  <2> DEFINE a == [b EXCEPT !.across[p] = across]
             d == [a EXCEPT !.asCapable[p] = a.across[p] \/ a.neighbor[p]]
  <2>1. RespFupHandler(s, p, across) = [d EXCEPT !.anyCapable = d.asCapable[p]]
    BY <1>2 DEF SetAsCapable
  <2>2. a = [b EXCEPT !.across = x] /\ a.across[p] = across /\ a.neighbor = b.neighbor
        /\ a.asCapable = b.asCapable
    BY <1>1 DEF Sys, Flags
  <2> HIDE DEF a
  <2>3. d = [a EXCEPT !.asCapable = c]
    BY <2>2
  <2> HIDE DEF x
  <2>4. d = [b EXCEPT !.across = x, !.asCapable = c]
    BY <2>2, <2>3
  <2> HIDE DEF d
  <2>5. d.asCapable[p] = able
    <3>1. c[p] = able
      BY <1>1 DEF Sys, Flags
    <3> HIDE DEF c
    <3>2. d.asCapable = c
      BY <1>1, <2>4 DEF Sys
    <3> QED
      BY <3>1, <3>2, Zenon
  <2> HIDE DEF c, able
  <2>6. RespFupHandler(s, p, across) = [d EXCEPT !.anyCapable = able]
    BY <2>1, <2>5, Zenon
  <2>7. [d EXCEPT !.anyCapable = able] = t
    BY <1>1, <2>4 DEF Sys
  <2> QED
    BY <2>6, <2>7, Zenon
<1> HIDE DEF x, c, able
<1>5. Silent(t)
  BY <1>1, <1>3, LinksRest
<1> QED
  BY <1>4, <1>5, SilentIsAtRest

(* What the machines do for a port of an idle system *)
LEMMA PerformRests ==
    ASSUME NEW s, Idle(s), NEW p \in Ports, KnowsBut(s, p), NEW c \in Choices
    PROVE  LET t == Perform(s, p, c)
           IN  /\ Resting(t) /\ SendsOne(t, s, p)
               /\ t.oper = s.oper /\ t.asCapable = s.asCapable
<1>1. Starts(s, p)
  BY DEF Idle, Starts, Foreign
<1>2. /\ ~s.spins /\ (\A q \in Ports : s.infoIs[q] # "Aged" /\ Sending(s, q))
      /\ Traceful => Cleans(s, p)
  BY DEF Idle
<1> QED
  BY <1>1, <1>2, PerformFacts

(* If all that left in the handler is what its one run sent *)
LEMMA OneRunAtRest ==
    ASSUME NEW s, \A q \in Ports : s.out[q] = <<>>, NEW t, Resting(t), NEW p \in Ports,
           SendsOne(t, s, p)
    PROVE  AtRest(t)
<1>1. Len(<<>>) = 0
  OBVIOUS
<1>2. \A q \in Ports \ {p} : t.out[q] = <<>>
  BY DEF SendsOne
<1>3. Len(s.out[p]) = 0
  BY <1>1
<1>4. t.out[p] = <<>> \/ (Up(t, p) /\ Len(t.out[p]) = 1)
  BY <1>3 DEF SendsOne
<1>5. ASSUME NEW q \in Ports PROVE Len(t.out[q]) <= 2 /\ (t.out[q] # <<>> => Up(t, q))
  <2>1. CASE t.out[q] = <<>>
    BY <1>1, <2>1
  <2>2. CASE t.out[q] # <<>>
    <3>1. q = p
      BY <1>2, <2>2
    <3>2. Len(t.out[q]) = 1 /\ Up(t, q)
      BY <1>4, <2>2, <3>1, Zenon
    <3>3. Len(t.out[q]) <= 2
      BY <3>2
    <3> QED
      BY <3>2, <3>3, Zenon
  <2> QED
    BY <2>1, <2>2
<1> QED
  BY <1>5 DEF AtRest

LEMMA DevUpFacts ==
    ASSUME NEW s, Resting(s), NEW p \in Ports, ~s.oper[p], NEW c \in Choices
    PROVE  AtRest(DevUpHandler(s, p, c))
<1> DEFINE b == Begin(s)
           o == [b.oper EXCEPT ![p] = TRUE]
           t == [b EXCEPT !.oper = o, !.across = b.across, !.neighbor = b.neighbor,
                          !.asCapable = b.asCapable, !.anyCapable = b.anyCapable,
                          !.told = b.told]
<1>1. Silent(b) /\ b \in Sys /\ ~b.oper[p]
  BY BeginFacts DEF Joined
<1>2. DevUpHandler(s, p, c) = Perform([b EXCEPT !.oper[p] = TRUE], p, c)
  BY DEF DevUpHandler
<1> HIDE DEF b
<1>3. /\ o \in Flags /\ b.across \in Flags /\ b.asCapable \in Flags /\ b.neighbor \in Flags
      /\ b.anyCapable \in BOOLEAN /\ b.told \in [Ports -> Messages]
      /\ \A q \in Ports \ {p} : o[q] = b.oper[q]
  BY <1>1 DEF Sys, Flags
<1>4. [b EXCEPT !.oper[p] = TRUE] = t
  BY <1>1 DEF Sys
<1> HIDE DEF o
<1>5. /\ Relinked(t, b) /\ Idle(t) /\ \A q \in Ports : t.out[q] = <<>>
      /\ t.oper = o /\ t.asCapable = b.asCapable /\ t.told = b.told
  <2>1. Linked(t, b, o, b.asCapable, b.told)
    BY <1>1, <1>3, LinksFacts, Zenon
  <2> QED
    BY <2>1 DEF Linked
<1> HIDE DEF t
<1>6. KnowsBut(t, p)
  <2>1. /\ t.infoIs = b.infoIs /\ t.prio = b.prio /\ t.newInfo = b.newInfo /\ t.tx = b.tx
        /\ t.deferred = b.deferred
    BY <1>5 DEF Relinked, SameInfo
  <2>2. \A q \in Ports : Tells(b, q) /\ Wired(b, q)
    BY <1>1 DEF Silent, Resting
  <2>3. ASSUME NEW q \in Ports \ {p} PROVE Tells(t, q) /\ Wired(t, q)
    BY <1>3, <1>5, <2>1, <2>2 DEF Tells, Wired
  <2>4. ASSUME Up(t, p) PROVE Tells(t, p)
    <3>1. b.infoIs[p] = "Disabled"
      BY <1>1, <1>5, <2>2, <2>4 DEF Wired, Up
    <3> QED
      BY <2>1, <3>1 DEF Tells
  <2> QED
    BY <2>3, <2>4 DEF KnowsBut
<1> DEFINE u == Perform(t, p, c)
<1>7. Resting(u) /\ SendsOne(u, t, p)
  BY <1>5, <1>6, PerformRests
<1> HIDE DEF u
<1>8. AtRest(u)
  BY <1>5, <1>7, OneRunAtRest
<1> QED
  BY <1>2, <1>4, <1>8 DEF u

(* An announce, put into the buffer and qualified or not *)
LEMMA QualifyFacts ==
    ASSUME NEW s, Silent(s), NEW p \in Ports, Up(s, p), NEW a \in Announce,
           Traceful => s.tlv[p].tlv /\ s.tlv[p].path = a.tlv.path /\ Distinct(a.tlv.path)
    PROVE  LET t == Qualify(s, p, a)
           IN  /\ Starts(t, p) /\ ~t.spins /\ (Traceful => Cleans(t, p)) /\ KnowsBut(t, p)
               /\ \A q \in Ports : t.infoIs[q] # "Aged" /\ Sending(t, q) /\ t.out[q] = <<>>
<1> DEFINE t == Qualify(s, p, a)
           zeros == [i \in DOMAIN s.pathTrace |-> Zero]
           traced == Traced(s.tlv[p].path, ThisClock)
<1>1. Resting(s) /\ Idle(s) /\ s \in Sys /\ Me(s) = ThisClock
  BY DEF Silent, Resting, Idle, Held
<1>2. s.pathTrace \in Traces /\ s.tlv[p] \in TlvRecord
  BY <1>1 DEF Sys
<1>3. CASE ~Qualified(s, p, a)
  <2>1. t = s
    BY <1>3 DEF Qualify
  <2>2. Starts(s, p)
    BY <1>1 DEF Idle, Starts, Foreign
  <2>3. KnowsBut(s, p)
    BY <1>1 DEF Resting, KnowsBut
  <2> QED
    BY <1>1, <2>1, <2>2, <2>3 DEF Silent, Idle
<1>4. CASE Qualified(s, p, a)
  <2>1. a.src[1] # ThisClock
    BY <1>1, <1>4 DEF Qualified
  <2>2. PICK path : /\ t = [s EXCEPT !.rcvd = a, !.pathTrace = path]
                    /\ path \in {zeros, traced, s.pathTrace}
                    /\ s.tlv[p].tlv => path \in {traced, s.pathTrace}
    <3> HIDE DEF zeros, traced
    <3>1. CASE ~s.tlv[p].tlv
      <4>1. t = [s EXCEPT !.rcvd = a, !.pathTrace = zeros]
        BY <1>4, <3>1 DEF Qualify, zeros
      <4> QED
        BY <3>1, <4>1
    <3>2. CASE s.tlv[p].tlv /\ s.selected[p] = "Slave"
      <4>1. t = [s EXCEPT !.rcvd = a, !.pathTrace = traced]
        BY <1>1, <1>4, <3>2 DEF Qualify, traced
      <4> QED
        BY <4>1
    <3>3. CASE s.tlv[p].tlv /\ s.selected[p] # "Slave"
      <4>1. t = [s EXCEPT !.rcvd = a]
        BY <1>4, <3>3 DEF Qualify
      <4>2. t = [s EXCEPT !.rcvd = a, !.pathTrace = s.pathTrace]
        BY <1>1, <4>1 DEF Sys
      <4> QED
        BY <4>2
    <3> QED
      BY <3>1, <3>2, <3>3
  <2>3. path \in Traces
    <3>1. zeros \in Traces
      <4>1. s.pathTrace \in Seq(Nat) /\ Len(s.pathTrace) <= MaxPath /\ Zero \in Nat
        BY <1>2 DEF Traces, Paths, Zero
      <4>2. zeros \in Seq(Nat) /\ Len(zeros) = Len(s.pathTrace)
        BY <4>1
      <4> HIDE DEF zeros
      <4> QED
        BY <4>1, <4>2 DEF Traces, Paths
    <3>2. traced \in Traces
      BY <1>2, TracedLemma, SystemAssumption DEF TlvRecord
    <3> HIDE DEF zeros, traced
    <3> QED
      BY <1>2, <2>2, <3>1, <3>2
  <2>4. Traceful => Clean(s.tlv[p].path) /\ Ended(path)
    <3>1. Traceful => Clean(s.tlv[p].path)
      BY <1>1, <1>2, <1>4 DEF Qualified, Clean, TlvRecord
    <3>2. Traceful => Ended(traced)
      BY <3>1, CleanLemma
    <3>3. Traceful => Ended(s.pathTrace)
      BY <1>1 DEF Idle, Cleans
    <3> HIDE DEF traced
    <3> QED
      BY <2>2, <3>1, <3>2, <3>3
  <2> HIDE DEF t
  <2>5. t \in Sys
    BY <1>1, <2>2, <2>3, ZenonT(60) DEF Sys
  <2>6. /\ t.rcvd = a /\ t.pathTrace = path /\ t.gm = s.gm /\ t.selected = s.selected
        /\ t.infoIs = s.infoIs /\ t.prio = s.prio /\ t.annPath = s.annPath
        /\ SameFlags(t, s) /\ SameLinks(t, s) /\ SameOut(t, s) /\ t.newInfo = s.newInfo
    BY <1>1, <2>2 DEF Sys, SameFlags, SameLinks, SameOut
  <2>7. Held(t) /\ (Selection(s) => Selection(t))
    BY <1>1, <2>6, SameSelection DEF Idle, SameFlags, SameLinks
  <2>8. Settled(t) \/ Blank(t)
    BY <1>1, <2>6, <2>7 DEF Idle, SameFlags, Settled, Blank
  <2>9. Foreign(t) /\ Up(t, p) /\ ~t.spins
    BY <1>1, <2>1, <2>6 DEF Foreign, Up, SameLinks, Idle
  <2>10. \A q \in Ports : t.infoIs[q] # "Aged" /\ Sending(t, q) /\ t.out[q] = <<>>
    BY <1>1, <2>6 DEF Idle, Silent, SameOut, Sending, LeavingOn
  <2>11. Traceful => Cleans(t, p)
    BY <1>1, <2>4, <2>6 DEF Idle, Cleans, SameLinks
  <2>12. Starts(t, p)
    BY <2>5, <2>7, <2>8, <2>9, <2>10 DEF Starts
  <2>13. KnowsBut(t, p)
    <3>1. \A r \in Ports : Tells(s, r) /\ Wired(s, r)
      BY <1>1 DEF Resting
    <3> QED
      BY <2>6, <3>1 DEF KnowsBut, Tells, Wired, SameLinks, SameOut
  <2> QED
    BY <2>9, <2>10, <2>11, <2>12, <2>13 DEF t
<1> QED
  BY <1>3, <1>4

LEMMA AnnounceFacts ==
    ASSUME NEW s, Resting(s), NEW p \in Ports, NEW a \in Announce, NEW c \in Choices,
           Traceful => a.tlv.tlv /\ Distinct(a.tlv.path)
    PROVE  AtRest(AnnounceHandler(s, p, a, c))
<1> DEFINE b == Begin(s)
           d == Decomposed(b, p, a)
           q == Qualify(d, p, a)
           u == IF Up(s, p) THEN q ELSE d
           t == Perform(u, p, c)
<1>1. Silent(b) /\ b \in Sys /\ b.oper = s.oper /\ b.asCapable = s.asCapable
  BY BeginFacts DEF Joined
<1>2. AnnounceHandler(s, p, a, c) = t
  BY DEF AnnounceHandler
<1>3. a.tlv \in TlvRecord
  BY DEF Announce, TlvRecord, Paths
<1> HIDE DEF b
<1>4. /\ Silent(d) /\ d.oper = s.oper /\ d.asCapable = s.asCapable
      /\ a.tlv.tlv => d.tlv[p] = a.tlv
  <2> DEFINE v == [b.tlv EXCEPT ![p] = IF a.tlv.tlv THEN a.tlv ELSE @]
  <2>1. d = [b EXCEPT !.tlv = v]
    BY <1>1 DEF Decomposed, Sys
  <2>2. v \in [Ports -> TlvRecord]
    BY <1>1, <1>3 DEF Sys
  <2>3. a.tlv.tlv => v[p] = a.tlv
    BY <1>1 DEF Sys
  <2> HIDE DEF v, d
  <2>4. d \in Sys
    BY <1>1, <2>1, <2>2, ZenonT(60) DEF Sys
  <2>5. Relinked(d, b) /\ Joined(d, b) /\ d.tlv = v
    BY <1>1, <2>1, <2>4, ZenonT(60) DEF Sys, Relinked, Joined, SameChoice, SameInfo, SameFlags
  <2>6. d.oper = s.oper /\ d.asCapable = s.asCapable
    BY <1>1, <2>5 DEF Joined
  <2> QED
    BY <1>1, <2>3, <2>5, <2>6, SilentJoined
<1> HIDE DEF d
<1>5. /\ Starts(u, p) /\ ~u.spins /\ (Traceful => Cleans(u, p)) /\ KnowsBut(u, p)
      /\ \A r \in Ports : u.infoIs[r] # "Aged" /\ Sending(u, r) /\ u.out[r] = <<>>
  <2>1. CASE Up(s, p)
    <3>1. Up(d, p)
      BY <1>4, <2>1 DEF Up
    <3>2. Traceful => d.tlv[p].tlv /\ d.tlv[p].path = a.tlv.path /\ Distinct(a.tlv.path)
      BY <1>4
    <3>3. u = q
      BY <2>1
    <3>4. /\ Starts(q, p) /\ ~q.spins /\ (Traceful => Cleans(q, p)) /\ KnowsBut(q, p)
          /\ \A r \in Ports : q.infoIs[r] # "Aged" /\ Sending(q, r) /\ q.out[r] = <<>>
      BY <1>4, <3>1, <3>2, QualifyFacts
    <3> HIDE DEF u, q
    <3> QED
      BY <3>3, <3>4
  <2>2. CASE ~Up(s, p)
    <3>1. u = d
      BY <2>2
    <3> HIDE DEF u
    <3> QED
      BY <1>4, <3>1 DEF Silent, Resting, Idle, Starts, Foreign, KnowsBut
  <2> QED
    BY <2>1, <2>2
<1> HIDE DEF u
<1>6. Resting(t) /\ SendsOne(t, u, p)
  BY <1>5, PerformFacts
<1> HIDE DEF t
<1>7. AtRest(t)
  BY <1>5, <1>6, OneRunAtRest
<1> QED
  BY <1>2, <1>7

-----------------------------------------------------------------------------
(***************************************************************************)
(* gptpnet_cb_timeout: the ports one after another                         *)
(***************************************************************************)

(* The ports up to n have been visited. *)
Visited(s, n) ==
    /\ Resting(s)
    /\ \A p \in Ports : /\ p <= n => /\ s.out[p] \in Seq(Messages) /\ Len(s.out[p]) <= 2
                                     /\ s.out[p] # <<>> => Up(s, p)
                        /\ p > n => s.out[p] = <<>>

LEMMA OneMore ==
    ASSUME NEW x, NEW y, x = 0 \/ x = 1, y = x \/ y = x + 1
    PROVE  y <= 2
<1>1. CASE x = 0
  BY <1>1
<1>2. CASE x = 1
  BY <1>2
<1> QED
  BY <1>1, <1>2

LEMMA VisitFacts ==
    ASSUME NEW s, NEW n \in Nat, n + 1 \in Ports, Visited(s, n), NEW c \in Choices
    PROVE  Visited(Visit(s, n + 1, c), n + 1)
<1> DEFINE p == n + 1
           able == s.across[p] \/ s.neighbor[p]
           as == [s.asCapable EXCEPT ![p] = able]
           anyone == s.anyCapable \/ able
           u == [s EXCEPT !.asCapable = as, !.anyCapable = anyone]
           d == SendDeferred(u, p, c.fail)
           t == Perform(d, p, c)
<1>1. Resting(s) /\ Idle(s) /\ s \in Sys
  BY DEF Visited, Resting, Idle
<1>2. p \in Ports /\ s.out[p] = <<>>
  <2>1. n + 1 > n
    OBVIOUS
  <2> QED
    BY <2>1 DEF Visited
<1>3. Visit(s, p, c) = t
  <2> DEFINE a == SetAsCapable(s, p)
             b == [a EXCEPT !.anyCapable = @ \/ a.asCapable[p]]
  <2>1. Visit(s, p, c) = Perform(SendDeferred(b, p, c.fail), p, c)
    BY Zenon DEF Visit
  <2>2. a = [s EXCEPT !.asCapable = as] /\ a.anyCapable = s.anyCapable
    BY <1>1 DEF Sys, SetAsCapable
  <2> HIDE DEF a
  <2>3. a.asCapable[p] = able
    <3>1. as[p] = able
      BY <1>1, <1>2 DEF Sys, Flags
    <3> HIDE DEF as
    <3>2. a.asCapable = as
      BY <1>1, <2>2 DEF Sys
    <3> QED
      BY <3>1, <3>2, Zenon
  <2>4. b = [a EXCEPT !.anyCapable = anyone]
    <3> HIDE DEF able
    <3> QED
      BY <2>2, <2>3, Zenon
  <2> HIDE DEF as, anyone, b
  <2>5. b = u
    BY <1>1, <2>2, <2>4 DEF Sys
  <2> HIDE DEF u
  <2> QED
    BY <2>1, <2>5
<1>4. as \in Flags /\ anyone \in BOOLEAN /\ \A q \in Ports \ {p} : as[q] = s.asCapable[q]
  BY <1>1, <1>2 DEF Sys, Flags
<1> HIDE DEF p, as, anyone
<1>5. u \in Sys
  BY <1>1, <1>4, ZenonT(60) DEF Sys
<1>6. /\ Relinked(u, s) /\ u.out = s.out /\ u.oper = s.oper /\ u.asCapable = as
      /\ u.told = s.told
  BY <1>1, <1>5 DEF Sys, Relinked, SameChoice, SameInfo, SameFlags
<1> HIDE DEF u
<1>7. /\ Idle(u) /\ \A q \in Ports : Tells(u, q)
      /\ \A q \in Ports \ {p} : Wired(u, q)
  <2>1. \A q \in Ports : Tells(s, q) /\ Wired(s, q)
    BY <1>1 DEF Resting
  <2>2. \A q \in Ports : Tells(u, q)
    BY <1>6, <2>1 DEF Tells, Relinked, SameInfo
  <2>3. \A q \in Ports \ {p} : Wired(u, q)
    BY <1>4, <1>6, <2>1 DEF Wired, Relinked, SameInfo
  <2> QED
    BY <1>1, <1>6, <2>2, <2>3, RelinkedIdles
<1>8. c.fail \in BOOLEAN
  BY DEF Choices, Conditions
<1>9. /\ Kept(d, u) /\ SendsOne(d, u, p) /\ \A q \in Ports : Sending(d, q)
      /\ \A q \in Ports \ {p} : Tells(d, q)
      /\ Up(u, p) => Tells(d, p)
  <2>1. \A q \in Ports : Sending(u, q)
    BY <1>7 DEF Idle
  <2> QED
    BY <1>2, <1>5, <1>7, <1>8, <2>1, SendDeferredFacts
<1> HIDE DEF d
<1>10. Idle(d) /\ KnowsBut(d, p)
  <2>1. \A q \in Ports \ {p} : Wired(d, q)
    BY <1>7, <1>9 DEF Wired, Kept, SameInfo, SameLinks
  <2>2. Up(d, p) => Up(u, p)
    BY <1>9 DEF Up, Kept, SameLinks
  <2> QED
    BY <1>7, <1>9, <2>1, <2>2, KeptIdles DEF KnowsBut
<1>11. Resting(t) /\ SendsOne(t, d, p) /\ t.oper = d.oper /\ t.asCapable = d.asCapable
  BY <1>2, <1>10, PerformRests
<1> HIDE DEF t
<1>12. t.oper = s.oper /\ t.asCapable = as
  BY <1>6, <1>9, <1>11 DEF Kept, SameLinks
<1>13. \A q \in Ports \ {p} : t.out[q] = s.out[q] /\ (Up(t, q) <=> Up(s, q))
  BY <1>4, <1>6, <1>9, <1>11, <1>12 DEF SendsOne, Up
<1>14. u.out[p] = <<>> /\ Len(<<>>) = 0 /\ t.out[p] \in Seq(Messages)
  BY <1>2, <1>6, <1>11 DEF Resting, Idle, Sys
<1>15. (d.out[p] = <<>> /\ Len(d.out[p]) = 0) \/ (Up(d, p) /\ Len(d.out[p]) = 1)
  BY <1>9, <1>14 DEF SendsOne
<1>16. Up(d, p) <=> Up(t, p)
  BY <1>11 DEF Up
<1>17. Len(t.out[p]) <= 2
  <2>1. Len(d.out[p]) = 0 \/ Len(d.out[p]) = 1
    BY <1>15, Zenon
  <2>2. Len(t.out[p]) = Len(d.out[p]) \/ Len(t.out[p]) = Len(d.out[p]) + 1
    BY <1>11, Zenon DEF SendsOne
  <2> QED
    BY <2>1, <2>2, OneMore
<1>18. t.out[p] # <<>> => Up(t, p)
  <2>1. t.out[p] = d.out[p] \/ Up(t, p)
    BY <1>11 DEF SendsOne
  <2> QED
    BY <1>15, <1>16, <2>1
<1>19. \A q \in Ports : q <= p => q = p \/ q <= n
  BY PortsLemma DEF p
<1>20. \A q \in Ports : q > p => q # p /\ q > n
  BY PortsLemma DEF p
<1>21. ASSUME NEW q \in Ports
       PROVE  /\ q <= p => /\ t.out[q] \in Seq(Messages) /\ Len(t.out[q]) <= 2
                           /\ t.out[q] # <<>> => Up(t, q)
              /\ q > p => t.out[q] = <<>>
  <2>1. CASE q = p
    BY <1>14, <1>17, <1>18, <1>20, <2>1
  <2>2. CASE q # p
    BY <1>13, <1>19, <1>20, <2>2 DEF Visited
  <2> QED
    BY <2>1, <2>2
<1>22. Visited(t, p)
  BY <1>11, <1>21 DEF Visited
<1> QED
  BY <1>3, <1>22 DEF p

(* What the function of TimeoutHandler is *)
Visits(f, start, cs, k) ==
    f = [n \in 0 .. k |-> IF n = 0 THEN start ELSE Visit(f[n - 1], n, cs[n])]

LEMMA VisitsExist ==
    ASSUME NEW start, NEW cs, NEW k \in Nat
    PROVE  \E f : Visits(f, start, cs, k)
<1> DEFINE T == {j \in Nat : \E f : Visits(f, start, cs, j)}
<1>1. 0 \in T
  <2> DEFINE f == [n \in 0 .. 0 |-> start]
  <2>1. Visits(f, start, cs, 0)
    BY DEF Visits
  <2> QED
    BY <2>1
<1>2. ASSUME NEW j \in Nat, j \in T PROVE j + 1 \in T
  <2>1. PICK f : Visits(f, start, cs, j)
    BY <1>2
  <2> DEFINE g == [n \in 0 .. j + 1 |-> IF n = j + 1 THEN Visit(f[j], j + 1, cs[j + 1]) ELSE f[n]]
             h == [n \in 0 .. j + 1 |-> IF n = 0 THEN start ELSE Visit(g[n - 1], n, cs[n])]
  <2>2. ASSUME NEW n \in 0 .. j PROVE g[n] = f[n]
    OBVIOUS
  <2>3. ASSUME NEW n \in 0 .. j + 1 PROVE g[n] = h[n]
    <3>1. CASE n = j + 1
      <4>1. j + 1 # 0 /\ n - 1 = j
        BY <3>1
      <4>2. g[n] = Visit(f[j], j + 1, cs[j + 1])
        BY <3>1
      <4>3. h[n] = Visit(g[n - 1], n, cs[n])
        BY <3>1, <4>1
      <4>4. g[n - 1] = f[j]
        BY <2>2, <4>1
      <4> QED
        BY <3>1, <4>2, <4>3, <4>4
    <3>2. CASE n # j + 1
      <4>1. n \in 0 .. j /\ g[n] = f[n]
        BY <3>2
      <4>2. f[n] = IF n = 0 THEN start ELSE Visit(f[n - 1], n, cs[n])
        BY <2>1, <4>1 DEF Visits
      <4>3. n # 0 => g[n - 1] = f[n - 1]
        BY <2>2, <4>1
      <4>4. h[n] = IF n = 0 THEN start ELSE Visit(g[n - 1], n, cs[n])
        OBVIOUS
      <4> QED
        BY <4>1, <4>2, <4>3, <4>4
    <3> QED
      BY <3>1, <3>2
  <2>4. g = h
    BY <2>3
  <2>5. Visits(g, start, cs, j + 1)
    BY <2>4 DEF Visits
  <2> QED
    BY <2>5
<1> HIDE DEF T
<1>3. Nat \subseteq T
  BY <1>1, <1>2, Induction
<1> QED
  BY <1>3 DEF T

LEMMA AllVisited ==
    ASSUME NEW start, Silent(start), NEW cs \in [Ports -> Choices], NEW f,
           Visits(f, start, cs, NumPorts)
    PROVE  Visited(f[NumPorts], NumPorts)
<1> DEFINE T == {j \in Nat : j <= NumPorts => Visited(f[j], j)}
<1>1. NumPorts \in Nat
  BY BmcsAssumption
<1>2. 0 \in T
  <2>1. f[0] = start
    BY <1>1 DEF Visits
  <2>2. \A p \in Ports : ~(p <= 0)
    BY PortsLemma
  <2>3. Visited(start, 0)
    BY <2>2 DEF Visited, Silent
  <2> QED
    BY <2>1, <2>3
<1>3. ASSUME NEW j \in Nat, j \in T PROVE j + 1 \in T
  <2> SUFFICES ASSUME j + 1 <= NumPorts PROVE Visited(f[j + 1], j + 1)
    OBVIOUS
  <2>1. Visited(f[j], j)
    BY <1>1, <1>3
  <2>2. j + 1 \in Ports /\ j + 1 \in 0 .. NumPorts /\ j + 1 # 0 /\ (j + 1) - 1 = j
    BY <1>1 DEF Ports
  <2>3. f[j + 1] = Visit(f[j], j + 1, cs[j + 1])
    <3>1. f[j + 1] = Visit(f[(j + 1) - 1], j + 1, cs[j + 1])
      BY <2>2 DEF Visits
    <3> QED
      BY <2>2, <3>1
  <2>4. cs[j + 1] \in Choices
    BY <2>2
  <2> QED
    BY <2>1, <2>2, <2>3, <2>4, VisitFacts
<1> HIDE DEF T
<1>4. Nat \subseteq T
  BY <1>2, <1>3, Induction
<1> QED
  BY <1>1, <1>4 DEF T

LEMMA TimeoutFacts ==
    ASSUME NEW s, Resting(s), NEW cs \in [Ports -> Choices]
    PROVE  AtRest(TimeoutHandler(s, cs))
<1> DEFINE b == Begin(s)
           o == OwnSync(b)
           start == [o EXCEPT !.anyCapable = FALSE]
           f == CHOOSE g : Visits(g, start, cs, NumPorts)
           v == f[NumPorts]
           told == v.stableClock # s.stableClock
           t == GmStableSM(v, cs[1].stable /\ ~told)
<1>1. Silent(b) /\ b \in Sys
  BY BeginFacts
<1>2. TimeoutHandler(s, cs) = t
  BY Zenon DEF TimeoutHandler, Visits
<1> HIDE DEF b
<1>3. Silent(o) /\ o \in Sys
  BY <1>1, OwnSyncFacts, SyncsRelinks, SilentJoined DEF Syncs
<1> HIDE DEF o
<1>4. Silent(start)
  <2> DEFINE r == [o EXCEPT !.oper = o.oper, !.across = o.across, !.neighbor = o.neighbor,
                            !.asCapable = o.asCapable, !.anyCapable = FALSE, !.told = o.told]
  <2>1. start = r
    BY <1>3 DEF Sys
  <2>2. /\ {o.oper, o.across, o.neighbor, o.asCapable} \subseteq Flags
        /\ o.told \in [Ports -> Messages]
        /\ \A q \in Ports : o.asCapable[q] => o.oper[q] \/ (o.asCapable[q] /\ ~o.oper[q])
    BY <1>3 DEF Sys, Flags
  <2>3. Silent(r)
    BY <1>3, <2>2, LinksRest
  <2> QED
    BY <2>1, <2>3
<1> HIDE DEF start
<1>5. Visits(f, start, cs, NumPorts)
  BY VisitsExist, BmcsAssumption
<1> HIDE DEF f
<1>6. Visited(v, NumPorts)
  BY <1>4, <1>5, AllVisited
<1>7. \A p \in Ports : p <= NumPorts
  BY BmcsAssumption DEF Ports
<1> HIDE DEF v, told
<1>8. Syncs(t, v)
  <2>1. (cs[1].stable /\ ~told) \in BOOLEAN
    BY PortsLemma DEF Choices, Conditions
  <2>2. v \in Sys
    BY <1>6 DEF Visited, Resting, Idle
  <2> QED
    BY <2>1, <2>2, GmStableFacts
<1> HIDE DEF t
<1>9. Relinked(t, v) /\ Joined(t, v) /\ t.out = v.out
  BY <1>8, SyncsRelinks
<1>10. Resting(t)
  BY <1>6, <1>9, JoinedRests DEF Visited
<1>11. \A p \in Ports : Len(v.out[p]) <= 2 /\ (v.out[p] # <<>> => Up(v, p))
  BY <1>6, <1>7 DEF Visited
<1>12. AtRest(t)
  BY <1>9, <1>10, <1>11 DEF AtRest, Up, Joined
<1> QED
  BY <1>2, <1>12

-----------------------------------------------------------------------------
(***************************************************************************)
(* The inductive invariant.                                                *)
(***************************************************************************)
Inv == announces \in Surroundings /\ AtRest(sys)

LEMMA InitInv == Init => Inv
<1> SUFFICES ASSUME Init PROVE AtRest(sys)
  BY DEF Init, Inv
<1> DEFINE s == Started(Rank, ThisClock)
           no == [p \in Ports |-> FALSE]
           disabled == [p \in Ports |-> "Disabled"]
           nothing == [p \in Ports |-> <<>>]
           buffers == [p \in Ports |-> NoTlv]
<1>1. Rank \in Nat /\ ThisClock \in Nat /\ MaxPath >= 1
  BY SystemAssumption, BmcsAssumption
<1>2. /\ no \in Flags /\ [p \in Ports |-> TRUE] \in Flags
      /\ disabled \in [Ports -> InfoStates] /\ disabled \in [Ports -> PortStates]
      /\ nothing \in [Ports -> Paths] /\ nothing \in [Ports -> Seq(Messages)]
  BY DEF Flags, InfoStates, PortStates, Paths
<1>3. nothing \in [Ports -> Vectors] /\ nothing \in [Ports -> Messages]
  BY DEF Vectors, Messages, None
<1>4. /\ <<Rank, ThisClock, 0, ThisClock, 0, 0>> \in Vector
      /\ <<ThisClock>> \in Traces /\ buffers \in [Ports -> TlvRecord]
      /\ None \in Vectors /\ None \in Announce \cup {None} /\ Zero \in Nat
  BY <1>1 DEF Vector, Traces, Paths, NoTlv, TlvRecord, Vectors, Zero
<1>5. s = [system |-> <<Rank, ThisClock, 0, ThisClock, 0, 0>>,
           oper |-> no, across |-> no, neighbor |-> no, asCapable |-> no,
           anyCapable |-> FALSE, tlv |-> buffers, rcvd |-> None,
           infoIs |-> disabled, prio |-> nothing, annPath |-> nothing, updtInfo |-> no,
           reselect |-> TRUE, selected |-> disabled, selected0 |-> "Disabled",
           gm |-> None, gmIdentity |-> ThisClock, pathTrace |-> <<ThisClock>>,
           newInfo |-> [p \in Ports |-> TRUE], tx |-> nothing, deferred |-> no, out |-> nothing,
           told |-> nothing,
           gmsync |-> FALSE, weAreGm |-> FALSE,
           stable |-> "Initialize", gmChange |-> FALSE, stableClock |-> Zero, gmstable |-> FALSE,
           spins |-> FALSE]
  BY Zenon DEF Started, None
<1>6. \A p \in Ports : no[p] = FALSE /\ disabled[p] = "Disabled" /\ nothing[p] = <<>>
  OBVIOUS
<1> HIDE DEF s, no, disabled, nothing, buffers
<1>7. s \in Sys
  BY <1>1, <1>2, <1>3, <1>4, <1>5, ZenonT(60) DEF Sys
<1>8. /\ s.system = <<Rank, ThisClock, 0, ThisClock, 0, 0>>
      /\ s.rcvd = None /\ ~s.spins /\ s.reselect /\ s.gm = None
      /\ s.infoIs = disabled /\ s.selected = disabled /\ s.updtInfo = no
      /\ s.annPath = nothing /\ s.pathTrace = <<ThisClock>>
      /\ s.tx = nothing /\ s.deferred = no /\ s.out = nothing
  BY <1>5
<1>9. Held(s)
  BY <1>4, <1>6, <1>8 DEF Held, Me
<1>10. Blank(s)
  BY <1>6, <1>8 DEF Blank
<1>11. ASSUME NEW p \in Ports PROVE Sending(s, p)
  <2>1. ~s.deferred[p] /\ s.tx[p] = None /\ s.out[p] = <<>>
    BY <1>6, <1>8 DEF None
  <2>2. LeavingOn(s, p) = {}
    BY <2>1 DEF LeavingOn
  <2> QED
    BY <2>1, <2>2 DEF Sending
<1>12. \A p \in Ports : Cleans(s, p)
  BY <1>6, <1>8, CleanLemma DEF Cleans
<1>13. Resting(s)
  <2>1. Idle(s)
    BY <1>6, <1>7, <1>8, <1>9, <1>10, <1>11, <1>12 DEF Idle
  <2>2. \A p \in Ports : Tells(s, p) /\ Wired(s, p)
    BY <1>6, <1>8 DEF Tells, Wired
  <2> QED
    BY <2>1, <2>2 DEF Resting
<1>14. Silent(s)
  BY <1>6, <1>8, <1>13 DEF Silent
<1>15. AtRest(s)
  BY <1>14, SilentIsAtRest
<1> QED
  BY <1>15 DEF Init, s

LEMMA NextInv == Inv /\ [Next]_vars => Inv'
<1> SUFFICES ASSUME Inv, [Next]_vars PROVE Inv'
  OBVIOUS
<1>1. announces \in Surroundings /\ AtRest(sys) /\ Resting(sys)
  BY DEF Inv, AtRest
<1>2. ASSUME NEW s, AtRest(s), Becomes(s) PROVE Inv'
  BY <1>1, <1>2 DEF Becomes, Inv
<1>3. CASE Timeout
  <2>1. PICK cs \in [Ports -> Choices] : Becomes(TimeoutHandler(sys, cs))
    BY <1>3 DEF Timeout
  <2>2. AtRest(TimeoutHandler(sys, cs))
    BY <1>1, TimeoutFacts
  <2> QED
    BY <1>2, <2>1, <2>2
<1>4. CASE RecvAnnounce
  <2>1. PICK p \in Ports, c \in Choices : \E a \in announces[p] :
            Becomes(AnnounceHandler(sys, p, a, c))
    BY <1>4 DEF RecvAnnounce, ChoicesOf
  <2>2. PICK a \in announces[p] : Becomes(AnnounceHandler(sys, p, a, c))
    BY <2>1
  <2>3. a \in Announce
    BY <1>1, SystemAssumption
  <2>4. Traceful => a.tlv.tlv /\ Distinct(a.tlv.path)
    BY <1>1 DEF Traceful
  <2>5. AtRest(AnnounceHandler(sys, p, a, c))
    BY <1>1, <2>3, <2>4, AnnounceFacts
  <2> QED
    BY <1>2, <2>2, <2>5
<1>5. CASE RecvSync
  <2>1. PICK p \in Ports : Becomes(SyncHandler(sys, p))
    BY <1>5 DEF RecvSync
  <2> QED
    BY <1>1, <1>2, <2>1, SyncFacts
<1>6. CASE DevUp
  <2>1. PICK p \in Ports, c \in Choices : ~sys.oper[p] /\ Becomes(DevUpHandler(sys, p, c))
    BY <1>6 DEF DevUp, ChoicesOf
  <2> QED
    BY <1>1, <1>2, <2>1, DevUpFacts
<1>7. CASE DevDown
  <2>1. PICK p \in Ports : Becomes(DevDownHandler(sys, p))
    BY <1>7 DEF DevDown
  <2> QED
    BY <1>1, <1>2, <2>1, DevDownFacts
<1>8. CASE RecvRespFup
  <2>1. PICK p \in Ports, across \in BOOLEAN :
            sys.oper[p] /\ Becomes(RespFupHandler(sys, p, across))
    BY <1>8 DEF RecvRespFup
  <2> QED
    BY <1>1, <1>2, <2>1, RespFupFacts
<1>9. CASE Measured
  <2>1. PICK p \in Ports, across \in BOOLEAN :
            Becomes([Begin(sys) EXCEPT !.across[p] = across])
    BY <1>9 DEF Measured
  <2>2. AtRest([Begin(sys) EXCEPT !.across[p] = across])
    BY <1>1, MeasuredFacts
  <2> QED
    BY <1>2, <2>1, <2>2
<1>10. CASE GptpCapable
  <2>1. PICK p \in Ports : Becomes([Begin(sys) EXCEPT !.neighbor[p] = ~@])
    BY <1>10, SystemAssumption DEF GptpCapable
  <2>2. AtRest([Begin(sys) EXCEPT !.neighbor[p] = ~@])
    BY <1>1, GptpCapableFacts
  <2> QED
    BY <1>2, <2>1, <2>2
<1>11. CASE UNCHANGED vars
  BY <1>11 DEF vars, Inv, AtRest
<1> QED
  BY <1>3, <1>4, <1>5, <1>6, <1>7, <1>8, <1>9, <1>10, <1>11 DEF Next

(* What holds between two handlers, by induction over the handlers. *)
THEOREM Invariance == Spec => []Inv
<1>1. Init => Inv
  BY InitInv
<1>2. Inv /\ [Next]_vars => Inv'
  BY NextInv
<1> QED
  BY <1>1, <1>2, PTL DEF Spec

-----------------------------------------------------------------------------
(* Every field of the state keeps its type, the path trace stays within    *)
(* MAX_PATH_TRACE_N, and a handler sends at most the announce that was put *)
(* off and one more on a port (md_announce_send_sm.c).                     *)
THEOREM TypeCorrect == Spec => []TypeOK
<1>1. ASSUME Inv PROVE TypeOK
  <2>1. announces \in Surroundings /\ sys \in Sys /\ \A p \in Ports : Len(sys.out[p]) <= 2
    BY <1>1 DEF Inv, AtRest, Resting, Idle
  <2>2. /\ {sys.oper, sys.across, sys.neighbor, sys.asCapable, sys.updtInfo, sys.newInfo,
            sys.deferred} \subseteq [Ports -> BOOLEAN]
        /\ {sys.anyCapable, sys.reselect, sys.gmsync, sys.weAreGm, sys.gmChange,
            sys.gmstable, sys.spins} \subseteq BOOLEAN
    BY <2>1 DEF Sys, Flags
  <2>3. /\ sys.infoIs \in [Ports -> {"Disabled", "Aged", "Mine", "Received"}]
        /\ sys.selected \in [Ports -> {"Disabled", "Master", "Slave", "Passive"}]
        /\ sys.selected0 \in {"Disabled", "Slave", "Passive"}
        /\ sys.stable \in {"Initialize", "Lost", "Unstable", "Stable"}
    BY <2>1 DEF Sys, InfoStates, PortStates
  <2>4. /\ sys.gm = None \/ sys.gm \in Vector
        /\ \A p \in Ports : sys.prio[p] = None \/ sys.prio[p] \in Vector
        /\ Len(sys.pathTrace) <= MaxPath
    BY <2>1 DEF Sys, Vectors, Traces
  <2> QED
    BY <2>1, <2>2, <2>3, <2>4 DEF TypeOK
<1> QED
  BY <1>1, Invariance, PTL

(* At most one port is a slave port: it is the one whose number is the     *)
(* last component of the grandmaster's vector (updtStatesTree).            *)
THEOREM SlaveIsOne == Spec => []OneSlave
<1>1. ASSUME Inv PROVE OneSlave
  <2>1. Held(sys) /\ sys \in Sys /\ (Settled(sys) \/ Blank(sys))
    BY <1>1 DEF Inv, AtRest, Resting, Idle
  <2>2. ASSUME NEW p \in Ports, sys.selected[p] = "Slave" PROVE p = sys.gm[6]
    <3>1. Settled(sys)
      BY <2>1, <2>2 DEF Blank
    <3>2. NewState(sys, p) = "Slave" /\ sys.infoIs[p] \in InfoStates
      BY <2>1, <2>2, <3>1 DEF Settled, Selection, Sys
    <3>3. sys.infoIs[p] = "Received" /\ PathPriority(sys, p) = sys.gm
      BY <3>2 DEF NewState, InfoStates
    <3> QED
      BY <2>1, <3>3, PathPriorityLemma DEF Held
  <2> QED
    BY <2>2 DEF OneSlave
<1> QED
  BY <1>1, Invariance, PTL

(* Between two handlers the grandmaster is the best of what the ports hold *)
(* and of the system itself (updtStatesTree, gptpman.c).                   *)
THEOREM GrandmasterIsBest == Spec => []GmIsBest
<1>1. ASSUME Inv PROVE GmIsBest
  <2>1. Held(sys) /\ (Settled(sys) \/ sys.gm = None)
    BY <1>1 DEF Inv, AtRest, Resting, Idle, Blank
  <2> SUFFICES ASSUME sys.gm # None PROVE sys.gm = Best(Candidates(sys))
    BY DEF GmIsBest, Chosen
  <2>2. IsBest(sys.gm, Candidates(sys))
    BY <2>1 DEF Settled, Selection
  <2>3. Candidates(sys) \subseteq Vector
    BY <2>1, CandidatesLemma
  <2> QED
    BY <2>2, <2>3, BestIsBest
<1> QED
  BY <1>1, Invariance, PTL

(* When a handler ends no machine waits; above all, two rounds of the loop *)
(* of sm_bmcs_perform are always enough.                                   *)
THEOREM MachinesRest == Spec => []Rests
<1>1. ASSUME Inv PROVE Rests
  BY <1>1 DEF Inv, AtRest, Resting, Idle, Settled, Blank, Rests, Chosen
<1> QED
  BY <1>1, Invariance, PTL

(* Only a port that is up and capable announces, also what was put off     *)
(* (md_announce_send_sm.c).                                                *)
THEOREM CapableAnnounce == Spec => []OnlyCapableAnnounces
<1>1. ASSUME Inv PROVE OnlyCapableAnnounces
  <2> SUFFICES ASSUME NEW p \in Ports, SentOn(p) # {} PROVE Up(sys, p)
    BY DEF OnlyCapableAnnounces
  <2>1. sys.out[p] # <<>>
    BY DEF SentOn
  <2> QED
    BY <1>1, <2>1 DEF Inv, AtRest
<1> QED
  BY <1>1, Invariance, PTL

(* What the neighbour of a capable master port was told last is the        *)
(* grandmaster, whatever the announces, links and timers do, and whichever *)
(* announces the network refuses: a port that need not update its          *)
(* information and has nothing put off has told it (update_proc,           *)
(* txAnnounce, md_announce_send_sm.c).                                     *)
THEOREM NeighborsAreTold == Spec => []NeighborsKnowGm
<1>1. ASSUME Inv PROVE NeighborsKnowGm
  <2>1. Resting(sys) /\ Idle(sys) /\ sys \in Sys
    BY <1>1 DEF Inv, AtRest, Resting, Idle
  <2> SUFFICES ASSUME NEW p \in Ports, Up(sys, p), sys.selected[p] = "Master",
                      ~sys.updtInfo[p], ~sys.deferred[p]
               PROVE  /\ sys.told[p] # None
                      /\ sys.told[p].root = Root(sys.gm) /\ sys.told[p].steps = Steps(sys.gm)
    BY DEF NeighborsKnowGm
  <2>2. Settled(sys)
    BY <2>1 DEF Idle, Blank
  <2>3. sys.infoIs[p] = "Mine" /\ sys.prio[p] = MasterPriority(sys, p)
    <3>1. sys.infoIs[p] \in InfoStates
      BY <2>1 DEF Sys
    <3>2. sys.selected[p] = NewState(sys, p)
      BY <2>2 DEF Settled, Selection
    <3>3. sys.infoIs[p] # "Disabled"
      BY <3>2 DEF NewState
    <3>4. sys.infoIs[p] \notin {"Aged", "Received"}
      BY <2>2 DEF Settled, Selection
    <3>5. sys.infoIs[p] = "Mine"
      BY <3>1, <3>3, <3>4 DEF InfoStates
    <3> QED
      BY <2>2, <3>5 DEF Settled, Selection
  <2>4. Tells(sys, p) /\ sys.oper[p]
    BY <2>1 DEF Resting, Up
  <2>5. /\ sys.told[p] = sys.tx[p] /\ sys.tx[p] # None
        /\ sys.tx[p].root = <<sys.prio[p][1], sys.prio[p][2]>> /\ sys.tx[p].steps = sys.prio[p][3]
    BY <2>3, <2>4 DEF Tells
  <2> QED
    BY <2>3, <2>5 DEF MasterPriority, Root, Steps
<1> QED
  BY <1>1, Invariance, PTL

(* Among neighbours that send path traces, none of which holds a clock     *)
(* twice, the path trace of every announce holds no clock twice and, if it *)
(* is not empty, ends with this clock (port_announce_transmit_sm.c).       *)
THEOREM AnnouncesEndHere == Traceful /\ Spec => []PathEndsHere
<1> DEFINE TracedInv == Traceful /\ Inv
<1>1. Traceful /\ Init => TracedInv
  BY InitInv
<1>2. TracedInv /\ [Next]_vars => TracedInv'
  BY NextInv DEF Traceful, Distinct
<1>3. ASSUME TracedInv PROVE PathEndsHere
  <2>1. \A p \in Ports : \A a \in SentOn(p) : Ended(a.tlv.path)
    BY <1>3 DEF Inv, AtRest, Resting, Idle, Sending, SentOn, LeavingOn
  <2> QED
    BY <2>1 DEF Ended, Distinct, PathEndsHere
<1> HIDE DEF TracedInv
<1> QED
  BY <1>1, <1>2, <1>3, PTL DEF Spec
=============================================================================
