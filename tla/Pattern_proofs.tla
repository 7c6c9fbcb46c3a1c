---------------------------- MODULE Pattern_proofs ----------------------------
(***************************************************************************)
(* Match strings, for any characters and any length: the order rules are   *)
(* tried in, and what a match string is read as.                           *)
(* patternLess compares like a dictionary: there is a number for every     *)
(* place of a pattern, and the first place where two patterns have         *)
(* different numbers decides. parseSegments and Pieces are recursive       *)
(* functions, defined by CHOOSE; that there is something to choose, and    *)
(* what holds at each of its arguments, is shown by induction over a set   *)
(* of numbers, never over an operator.                                     *)
(***************************************************************************)
EXTENDS MCPattern, FiniteSetTheorems, SequenceTheorems, TLAPS

(* Patterns whose wildcards have a literal between them. *)
PatternsOf(Char) ==
  {p \in Seq([s : Seq(Char), wildcard : BOOLEAN]) : Len(p) > 0 /\ Apart(p)}

(* What is compared at place i: one segment before more and a literal at   *)
(* the start before a wildcard, then lengths; -1 behind the end.           *)
Weight(p, i) ==
  IF i = 0 THEN (IF Len(p) = 1 THEN 2 ELSE 0) + (IF p[1].wildcard THEN 0 ELSE 1)
  ELSE IF i > Len(p) THEN -1
  ELSE IF p[i].wildcard THEN 0 ELSE Len(p[i].s)

(* The first place where they differ decides for p1. *)
Above(p1, p2) ==
  \E i \in Nat : /\ Weight(p1, i) > Weight(p2, i)
                 /\ \A j \in 0 .. i - 1 : Weight(p1, j) = Weight(p2, j)

------------------------------------------------------------------------------
(* The least number, found as the smallest of the intervals below.         *)
LEMMA Smallest ==
  ASSUME NEW S \in SUBSET Nat, S # {} PROVE \E n \in S : \A m \in S : n <= m
<1> DEFINE R == StrictSubsetOrdering(Nat)
           T == {0 .. n : n \in S}
<1>1. IsWellFoundedOn(R, FiniteSubsetsOf(Nat))
  BY FS_StrictSubsetOrderingWellFounded
<1>2. T \subseteq FiniteSubsetsOf(Nat) /\ T # {}
  <2>1. ASSUME NEW n \in S PROVE 0 .. n \in FiniteSubsetsOf(Nat)
    <3>1. IsFiniteSet(0 .. n)
      BY FS_Interval
    <3>2. 0 .. n \subseteq Nat
      OBVIOUS
    <3> QED
      BY <3>1, <3>2 DEF FiniteSubsetsOf
  <2> QED
    BY <2>1
<1>3. \A x, y \in Nat : x < y => <<0 .. x, 0 .. y>> \in R
  <2> SUFFICES ASSUME NEW x \in Nat, NEW y \in Nat, x < y PROVE <<0 .. x, 0 .. y>> \in R
    OBVIOUS
  <2>1. 0 .. x \subseteq 0 .. y /\ 0 .. y \subseteq Nat
    OBVIOUS
  <2>2. y \in 0 .. y /\ y \notin 0 .. x
    OBVIOUS
  <2> QED
    BY <2>1, <2>2 DEF StrictSubsetOrdering
<1> HIDE DEF R
<1>4. \E X \in T : \A Y \in T : ~(<<Y, X>> \in R)
  <2> HIDE DEF T
  <2> QED
    BY <1>1, <1>2, WFMin
<1>5. PICK n \in S : \A m \in S : ~(<<0 .. m, 0 .. n>> \in R)
  BY <1>4
<1>6. \A m \in S : ~(m < n)
  BY <1>3, <1>5
<1> QED
  BY <1>6

LEMMA LeastIs ==
  ASSUME NEW S \in SUBSET Nat, S # {}
  PROVE  Least(S) \in S /\ \A m \in S : Least(S) <= m
<1>1. \E n \in S : \A m \in S : n <= m
  BY Smallest
<1> QED
  BY <1>1 DEF Least

(* Induction on the numbers up to n: a set of them that has 0, and with    *)
(* every number the next, has them all.                                    *)
LEMMA Upwards ==
  ASSUME NEW n \in Nat, NEW T, 0 \in T, \A i \in 1 .. n : i - 1 \in T => i \in T
  PROVE  0 .. n \subseteq T
<1> DEFINE Left == {i \in 0 .. n : i \notin T}
<1> SUFFICES ASSUME Left # {} PROVE FALSE
  OBVIOUS
<1>1. Left \in SUBSET Nat
  OBVIOUS
<1>2. PICK k \in Left : \A m \in Left : k <= m
  <2> HIDE DEF Left
  <2> QED
    BY <1>1, Smallest
<1>3. k \in 1 .. n /\ k \notin T /\ k - 1 \notin Left
  BY <1>2
<1>4. k - 1 \in T
  BY <1>3
<1> QED
  BY <1>3, <1>4

(* Strings, and segments of them. *)
SegmentsOf(Char) == [s : Seq(Char), wildcard : BOOLEAN]

LEMMA SegmentIs ==
  ASSUME NEW Char, NEW segs \in Seq(SegmentsOf(Char))
  PROVE  /\ Len(segs) \in Nat /\ DOMAIN segs = 1 .. Len(segs)
         /\ \A i \in 1 .. Len(segs) :
              segs[i].s \in Seq(Char) /\ segs[i].wildcard \in BOOLEAN
              /\ Len(segs[i].s) \in Nat
<1>1. \A i \in 1 .. Len(segs) : segs[i] \in SegmentsOf(Char)
  OBVIOUS
<1>2. \A i \in 1 .. Len(segs) : segs[i].s \in Seq(Char) /\ segs[i].wildcard \in BOOLEAN
  BY <1>1 DEF SegmentsOf
<1> QED
  BY <1>2

LEMMA PatternIs ==
  ASSUME NEW Char, NEW p \in PatternsOf(Char)
  PROVE  /\ Len(p) \in Nat \ {0} /\ DOMAIN p = 1 .. Len(p)
         /\ \A i \in 1 .. Len(p) : p[i].wildcard \in BOOLEAN /\ Len(p[i].s) \in Nat
         /\ \A i \in 1 .. Len(p) - 1 : p[i].wildcard # p[i + 1].wildcard
<1>1. \A i \in 1 .. Len(p) : p[i] \in [s : Seq(Char), wildcard : BOOLEAN]
  <2> DEFINE Segments == [s : Seq(Char), wildcard : BOOLEAN]
  <2>1. p \in Seq(Segments)
    BY DEF PatternsOf
  <2> HIDE DEF Segments
  <2>2. \A i \in 1 .. Len(p) : p[i] \in Segments
    BY <2>1
  <2> QED
    BY <2>2 DEF Segments
<1>2. \A i \in 1 .. Len(p) : p[i].wildcard \in BOOLEAN /\ p[i].s \in Seq(Char)
  BY <1>1
<1>3. Len(p) \in Nat \ {0} /\ DOMAIN p = 1 .. Len(p) /\ Apart(p)
  BY DEF PatternsOf
<1> QED
  BY <1>2, <1>3 DEF Apart

LEMMA WeightIs ==
  ASSUME NEW Char, NEW p \in PatternsOf(Char), NEW i \in Nat PROVE Weight(p, i) \in Int
BY PatternIs DEF Weight

(* Segments take turns, so two patterns that begin alike stay alike. *)
LEMMA TakeTurns ==
  ASSUME NEW Char, NEW p1 \in PatternsOf(Char), NEW p2 \in PatternsOf(Char),
         p1[1].wildcard = p2[1].wildcard
  PROVE  \A i \in DOMAIN p1 \cap DOMAIN p2 : p1[i].wildcard = p2[i].wildcard
<1> DEFINE Unlike == {i \in DOMAIN p1 \cap DOMAIN p2 : p1[i].wildcard # p2[i].wildcard}
<1> SUFFICES ASSUME Unlike # {} PROVE FALSE
  OBVIOUS
<1>1. PICK n \in Unlike : \A m \in Unlike : n <= m
  <2>1. Unlike \in SUBSET Nat
    BY PatternIs
  <2> HIDE DEF Unlike
  <2> QED
    BY <2>1, Smallest
<1>2. n \in 1 .. Len(p1) /\ n \in 1 .. Len(p2) /\ p1[n].wildcard # p2[n].wildcard
  BY PatternIs
<1>3. n # 1 /\ Len(p1) \in Nat /\ Len(p2) \in Nat
  BY <1>2, PatternIs
<1>4. n - 1 \in 1 .. Len(p1) - 1 /\ n - 1 \in 1 .. Len(p2) - 1 /\ n - 1 < n
  BY <1>2, <1>3
<1>5. n - 1 \notin Unlike
  BY <1>1, <1>4
<1>6. p1[n - 1].wildcard = p2[n - 1].wildcard
  BY <1>3, <1>4, <1>5, PatternIs
<1>7. p1[n - 1].wildcard # p1[n].wildcard /\ p2[n - 1].wildcard # p2[n].wildcard
  <2>1. (n - 1) + 1 = n
    BY <1>2, <1>3
  <2> QED
    BY <1>4, <2>1, PatternIs
<1>8. {p1[n].wildcard, p2[n].wildcard, p1[n - 1].wildcard} \subseteq BOOLEAN
  BY <1>2, <1>3, <1>4, PatternIs
<1> QED
  BY <1>2, <1>6, <1>7, <1>8

(* patternLess is that comparison. *)
LEMMA LessIsAbove ==
  ASSUME NEW Char, NEW p1 \in PatternsOf(Char), NEW p2 \in PatternsOf(Char)
  PROVE  patternLess(p1, p2) <=> Above(p1, p2)
<1>1. /\ Len(p1) \in Nat \ {0} /\ Len(p2) \in Nat \ {0}
      /\ p1[1].wildcard \in BOOLEAN /\ p2[1].wildcard \in BOOLEAN
      /\ DOMAIN p1 = 1 .. Len(p1) /\ DOMAIN p2 = 1 .. Len(p2)
  BY PatternIs
<1> DEFINE w1 == Weight(p1, 0)  w2 == Weight(p2, 0)
           one1 == Len(p1) = 1  one2 == Len(p2) = 1
           wild1 == p1[1].wildcard  wild2 == p2[1].wildcard
<1>2. /\ w1 = (IF one1 THEN 2 ELSE 0) + (IF wild1 THEN 0 ELSE 1)
      /\ w2 = (IF one2 THEN 2 ELSE 0) + (IF wild2 THEN 0 ELSE 1)
  BY DEF Weight
<1>3. /\ w1 \in {w2} <=> (one1 <=> one2) /\ (wild1 <=> wild2)
      /\ ~(one1 <=> one2) => (w1 > w2 <=> one1)
      /\ (one1 <=> one2) /\ ~(wild1 <=> wild2) => (w1 > w2 <=> ~wild1)
      /\ w1 \in Nat /\ w2 \in Nat
  <2> HIDE DEF one1, one2, wild1, wild2, w1, w2
  <2>1. CASE one1 /\ wild1
    BY <1>2, <2>1
  <2>2. CASE one1 /\ ~wild1
    BY <1>2, <2>2
  <2>3. CASE ~one1 /\ wild1
    BY <1>2, <2>3
  <2>4. CASE ~one1 /\ ~wild1
    BY <1>2, <2>4
  <2> QED
    BY <2>1, <2>2, <2>3, <2>4
<1>4. /\ (wild1 <=> wild2) <=> p1[1].wildcard = p2[1].wildcard
      /\ (Len(p1) # Len(p2) /\ 1 \in {Len(p1), Len(p2)}) <=> ~(one1 <=> one2)
  <2>1. (wild1 <=> wild2) <=> p1[1].wildcard = p2[1].wildcard
    BY <1>1
  <2>2. (Len(p1) # Len(p2) /\ 1 \in {Len(p1), Len(p2)}) <=> ~(one1 <=> one2)
    OBVIOUS
  <2> QED
    BY <2>1, <2>2
<1> HIDE DEF w1, w2, one1, one2, wild1, wild2
<1>5. CASE w1 # w2
  <2>1. Above(p1, p2) <=> w1 > w2
    <3>1. w1 > w2 => Above(p1, p2)
      <4>1. 0 \in Nat /\ \A j \in 0 .. 0 - 1 : Weight(p1, j) = Weight(p2, j)
        OBVIOUS
      <4> QED
        BY <4>1 DEF Above, w1, w2
    <3>2. Above(p1, p2) => w1 > w2
      <4> SUFFICES ASSUME NEW i \in Nat, Weight(p1, i) > Weight(p2, i),
                          \A j \in 0 .. i - 1 : Weight(p1, j) = Weight(p2, j)
                   PROVE  w1 > w2
        BY DEF Above
      <4>1. i = 0
        BY <1>5 DEF w1, w2
      <4> QED
        BY <4>1 DEF w1, w2
    <3> QED
      BY <3>1, <3>2
  <2>2. CASE ~(one1 <=> one2)
    <3>1. patternLess(p1, p2) <=> one1
      BY <1>4, <2>2 DEF patternLess, one1
    <3> QED
      BY <1>3, <2>1, <2>2, <3>1
  <2>3. CASE one1 <=> one2
    <3>1. ~(wild1 <=> wild2)
      BY <1>3, <1>5, <2>3
    <3>2. patternLess(p1, p2) <=> ~wild1
      BY <1>4, <2>3, <3>1 DEF patternLess, wild1
    <3> QED
      BY <1>3, <2>1, <2>3, <3>1, <3>2
  <2> QED
    BY <2>2, <2>3
<1>6. CASE w1 = w2
  <2>1. /\ ~(Len(p1) # Len(p2) /\ 1 \in {Len(p1), Len(p2)})
        /\ p1[1].wildcard = p2[1].wildcard
    BY <1>6, <1>3, <1>4
  <2>2. \A i \in 1 .. Len(p1) : i <= Len(p2) =>
          /\ p1[i].wildcard = p2[i].wildcard /\ p1[i].wildcard \in BOOLEAN
          /\ Len(p1[i].s) \in Nat /\ Len(p2[i].s) \in Nat
    <3>1. \A i \in DOMAIN p1 \cap DOMAIN p2 : p1[i].wildcard = p2[i].wildcard
      BY <2>1, TakeTurns
    <3>2. /\ \A i \in 1 .. Len(p1) : p1[i].wildcard \in BOOLEAN /\ Len(p1[i].s) \in Nat
          /\ \A i \in 1 .. Len(p2) : Len(p2[i].s) \in Nat
      BY PatternIs
    <3> QED
      BY <1>1, <3>1, <3>2
  <2>3. \A i \in 1 .. Len(p1) : i <= Len(p2) =>
          (i \in Differ(p1, p2) <=> Weight(p1, i) # Weight(p2, i))
    BY <1>1, <2>2 DEF Differ, Weight
  <2>4. \A i \in Nat \ {0} :
          /\ i > Len(p1) => Weight(p1, i) = -1
          /\ i > Len(p2) => Weight(p2, i) = -1
          /\ i <= Len(p1) => Weight(p1, i) >= 0
          /\ i <= Len(p2) => Weight(p2, i) >= 0
    BY <1>1, PatternIs DEF Weight
  <2>5. CASE Differ(p1, p2) # {}
    <3> DEFINE d == Least(Differ(p1, p2))
    <3>1. d \in Differ(p1, p2) /\ \A m \in Differ(p1, p2) : d <= m
      <4>1. Differ(p1, p2) \in SUBSET Nat
        BY <1>1 DEF Differ
      <4> QED
        BY <2>5, <4>1, LeastIs
    <3> HIDE DEF d
    <3>2. d \in 1 .. Len(p1) /\ d <= Len(p2) /\ d \in Nat
      BY <1>1, <3>1 DEF Differ
    <3>3. patternLess(p1, p2) <=> Len(p1[d].s) > Len(p2[d].s)
      BY <2>1, <2>5 DEF patternLess, d
    <3>4. Weight(p1, d) = Len(p1[d].s) /\ Weight(p2, d) = Len(p2[d].s)
      BY <1>1, <3>1, <3>2 DEF Weight, Differ
    <3>5. \A j \in 0 .. d - 1 : Weight(p1, j) = Weight(p2, j)
      <4> SUFFICES ASSUME NEW j \in 0 .. d - 1, j # 0 PROVE Weight(p1, j) = Weight(p2, j)
        BY <1>6 DEF w1, w2
      <4>1. j \in 1 .. Len(p1) /\ j <= Len(p2) /\ j \notin Differ(p1, p2)
        BY <1>1, <3>1, <3>2
      <4> QED
        BY <2>3, <4>1
    <3>6. Weight(p1, d) # Weight(p2, d) /\ Weight(p1, d) \in Int /\ Weight(p2, d) \in Int
      BY <2>3, <3>1, <3>2, WeightIs
    <3>7. Above(p1, p2) <=> Weight(p1, d) > Weight(p2, d)
      <4>1. Weight(p1, d) > Weight(p2, d) => Above(p1, p2)
        BY <3>2, <3>5 DEF Above
      <4>2. ASSUME NEW i \in Nat, Weight(p1, i) > Weight(p2, i),
                   \A j \in 0 .. i - 1 : Weight(p1, j) = Weight(p2, j)
            PROVE  i = d
        <5>1. ~(d < i)
          BY <3>2, <3>6, <4>2
        <5>2. ~(i < d)
          <6>1. i < d => Weight(p1, i) = Weight(p2, i)
            BY <3>2, <3>5, <4>2
          <6> QED
            BY <4>2, <6>1, WeightIs
        <5> QED
          BY <3>2, <5>1, <5>2
      <4> QED
        BY <4>1, <4>2 DEF Above
    <3> QED
      BY <3>3, <3>4, <3>7
  <2>6. CASE Differ(p1, p2) = {}
    <3>1. patternLess(p1, p2) <=> Len(p1) > Len(p2)
      BY <2>1, <2>6 DEF patternLess
    <3>2. \A j \in Nat : j <= Len(p1) /\ j <= Len(p2) => Weight(p1, j) = Weight(p2, j)
      <4> SUFFICES ASSUME NEW j \in Nat, j <= Len(p1), j <= Len(p2), j # 0
                   PROVE  Weight(p1, j) = Weight(p2, j)
        BY <1>6 DEF w1, w2
      <4> QED
        BY <1>1, <2>3, <2>6
    <3>3. Len(p1) > Len(p2) => Above(p1, p2)
      <4> SUFFICES ASSUME Len(p1) > Len(p2) PROVE Above(p1, p2)
        OBVIOUS
      <4> DEFINE i == Len(p2) + 1
      <4>1. i \in Nat \ {0} /\ Weight(p1, i) > Weight(p2, i)
        <5>1. i \in Nat \ {0} /\ i > Len(p2) /\ i <= Len(p1)
          BY <1>1
        <5>2. Weight(p1, i) >= 0 /\ Weight(p2, i) = -1 /\ Weight(p1, i) \in Int
          BY <2>4, <5>1, WeightIs
        <5> QED
          BY <5>1, <5>2
      <4>2. \A j \in 0 .. i - 1 : Weight(p1, j) = Weight(p2, j)
        BY <1>1, <3>2
      <4> QED
        BY <4>1, <4>2 DEF Above
    <3>4. Above(p1, p2) => Len(p1) > Len(p2)
      <4> SUFFICES ASSUME NEW i \in Nat, Weight(p1, i) > Weight(p2, i)
                   PROVE  Len(p1) > Len(p2)
        BY DEF Above
      <4>1. i # 0 /\ Weight(p1, i) \in Int /\ Weight(p2, i) \in Int
        BY <1>1, <3>2, WeightIs
      <4>2. ~(i <= Len(p1) /\ i <= Len(p2)) /\ i <= Len(p1)
        BY <1>1, <2>4, <3>2, <4>1
      <4> QED
        BY <1>1, <4>2
    <3> QED
      BY <3>1, <3>3, <3>4
  <2> QED
    BY <2>5, <2>6
<1> QED
  BY <1>5, <1>6

(* Who is above neither way has the same number at every place. *)
LEMMA TiedIsEqual ==
  ASSUME NEW Char, NEW p1 \in PatternsOf(Char), NEW p2 \in PatternsOf(Char),
         ~Above(p1, p2), ~Above(p2, p1)
  PROVE  \A i \in Nat : Weight(p1, i) = Weight(p2, i)
<1> DEFINE Unequal == {i \in Nat : Weight(p1, i) # Weight(p2, i)}
<1> SUFFICES ASSUME Unequal # {} PROVE FALSE
  OBVIOUS
<1>1. PICK n \in Unequal : \A m \in Unequal : n <= m
  <2>1. Unequal \in SUBSET Nat
    OBVIOUS
  <2> HIDE DEF Unequal
  <2> QED
    BY <2>1, Smallest
<1>2. n \in Nat /\ Weight(p1, n) # Weight(p2, n)
  OBVIOUS
<1>3. \A j \in 0 .. n - 1 : Weight(p1, j) = Weight(p2, j)
  BY <1>1, <1>2
<1>4. Weight(p1, n) > Weight(p2, n) \/ Weight(p2, n) > Weight(p1, n)
  BY <1>2, WeightIs
<1> QED
  BY <1>2, <1>3, <1>4 DEF Above

(* sort.Slice may be given patternLess: no rule comes before itself, what  *)
(* is before what is before a rule is before the rule, and rules that may  *)
(* come either way fall into groups.                                       *)
THEOREM PatternLessOrders ==
  ASSUME NEW Char, NEW p1 \in PatternsOf(Char), NEW p2 \in PatternsOf(Char),
         NEW p3 \in PatternsOf(Char)
  PROVE  /\ ~patternLess(p1, p1)
         /\ patternLess(p1, p2) /\ patternLess(p2, p3) => patternLess(p1, p3)
         /\ /\ ~patternLess(p1, p2) /\ ~patternLess(p2, p1)
            /\ ~patternLess(p2, p3) /\ ~patternLess(p3, p2)
            => ~patternLess(p1, p3) /\ ~patternLess(p3, p1)
<1>1. ~Above(p1, p1)
  BY WeightIs DEF Above
<1>2. ASSUME Above(p1, p2), Above(p2, p3) PROVE Above(p1, p3)
  <2>1. PICK a \in Nat : /\ Weight(p1, a) > Weight(p2, a)
                         /\ \A j \in 0 .. a - 1 : Weight(p1, j) = Weight(p2, j)
    BY <1>2 DEF Above
  <2>2. PICK b \in Nat : /\ Weight(p2, b) > Weight(p3, b)
                         /\ \A j \in 0 .. b - 1 : Weight(p2, j) = Weight(p3, j)
    BY <1>2 DEF Above
  <2>3. CASE a <= b
    <3>1. Weight(p1, a) > Weight(p3, a)
      <4>1. Weight(p2, a) >= Weight(p3, a)
        BY <2>2, <2>3, WeightIs
      <4> QED
        BY <2>1, <4>1, WeightIs
    <3>2. \A j \in 0 .. a - 1 : Weight(p1, j) = Weight(p3, j)
      BY <2>1, <2>2, <2>3
    <3> QED
      BY <3>1, <3>2 DEF Above
  <2>4. CASE b < a
    <3>1. Weight(p1, b) > Weight(p3, b)
      BY <2>1, <2>2, <2>4
    <3>2. \A j \in 0 .. b - 1 : Weight(p1, j) = Weight(p3, j)
      BY <2>1, <2>2, <2>4
    <3> QED
      BY <3>1, <3>2 DEF Above
  <2> QED
    BY <2>3, <2>4
<1>3. ASSUME ~Above(p1, p2), ~Above(p2, p1), ~Above(p2, p3), ~Above(p3, p2)
      PROVE  ~Above(p1, p3) /\ ~Above(p3, p1)
  <2>1. \A i \in Nat : Weight(p1, i) = Weight(p3, i)
    BY <1>3, TiedIsEqual
  <2>2. \A i \in Nat : ~(Weight(p1, i) > Weight(p3, i)) /\ ~(Weight(p3, i) > Weight(p1, i))
    BY <2>1, WeightIs
  <2> QED
    BY <2>2 DEF Above
<1> QED
  BY <1>1, <1>2, <1>3, LessIsAbove
------------------------------------------------------------------------------
(* What the calls of patternLess that are checked return. *)
Ordered ==
  call = "order" =>
    /\ input \in Triples
    /\ output \in {<<>>, <<{p \in (1 .. 3) \X (1 .. 3) :
                              patternLess(input[p[1]], input[p[2]])}>>}

LEMMA TriplesAre ==
  ASSUME NEW t \in Triples, NEW i \in 1 .. 3 PROVE t[i] \in PatternsOf({"a", "n"})
<1> DEFINE Segments == [s : Seq({"a", "n"}), wildcard : BOOLEAN]
           Few == {Literal(<<"a">>), Literal(<<"a", "a">>), Wildcard(<<"n">>)}
<1>1. t[i] \in Patterns(Few) /\ Apart(t[i])
  BY DEF Triples
<1>2. Few \subseteq Segments
  <2>1. <<"a">> \in Seq({"a", "n"}) /\ <<"a", "a">> \in Seq({"a", "n"})
        /\ <<"n">> \in Seq({"a", "n"})
    OBVIOUS
  <2> QED
    BY <2>1 DEF Literal, Wildcard
<1> HIDE DEF Few, Segments
<1>3. PICK n \in 1 .. MaxSegments : t[i] \in [1 .. n -> Few]
  BY <1>1 DEF Patterns, Strings
<1>4. t[i] \in Seq(Segments) /\ Len(t[i]) > 0
  BY <1>2, <1>3
<1> QED
  BY <1>1, <1>4 DEF PatternsOf, Segments

(* The triples that are checked, for patterns of any length. *)
THEOREM TriplesAreOrdered == Spec => []StrictWeakOrder
<1>1. Init => Ordered
  BY DEF Init, Ordered
<1>2. Ordered /\ [Next]_vars => Ordered'
  BY DEF Ordered, Next, Parse, Match, Order, vars
<1>3. Ordered => StrictWeakOrder
  <2> SUFFICES ASSUME Ordered, call = "order", output # <<>>
               PROVE  LET less(i, j) == <<i, j>> \in output[1]
                          tied(i, j) == ~less(i, j) /\ ~less(j, i) IN
                      /\ ~less(1, 1)
                      /\ less(1, 2) /\ less(2, 3) => less(1, 3)
                      /\ tied(1, 2) /\ tied(2, 3) => tied(1, 3)
    BY DEF StrictWeakOrder
  <2>1. \A i, j \in 1 .. 3 : <<i, j>> \in output[1] <=> patternLess(input[i], input[j])
    BY DEF Ordered
  <2>2. \A i \in 1 .. 3 : input[i] \in PatternsOf({"a", "n"})
    BY TriplesAre DEF Ordered
  <2>3. /\ ~patternLess(input[1], input[1])
        /\ patternLess(input[1], input[2]) /\ patternLess(input[2], input[3])
           => patternLess(input[1], input[3])
        /\ /\ ~patternLess(input[1], input[2]) /\ ~patternLess(input[2], input[1])
           /\ ~patternLess(input[2], input[3]) /\ ~patternLess(input[3], input[2])
           => ~patternLess(input[1], input[3]) /\ ~patternLess(input[3], input[1])
    BY <2>2, PatternLessOrders
  <2> QED
    BY <2>1, <2>3
<1> QED
  BY <1>1, <1>2, <1>3, PTL DEF Spec
------------------------------------------------------------------------------
(* The place found is the first of its kind. *)
LEMMA FindIs ==
  ASSUME NEW s, Len(s) \in Nat, NEW i \in 1 .. Len(s) + 1, NEW c
  PROVE  /\ Find(s, i, c) \in i .. Len(s) + 1
         /\ Find(s, i, c) <= Len(s) => s[Find(s, i, c)] = c
         /\ \A m \in i .. Find(s, i, c) - 1 : s[m] # c
<1> DEFINE Places == {j \in i .. Len(s) : s[j] = c} \cup {Len(s) + 1}
           j == Find(s, i, c)
<1>1. Places \in SUBSET Nat /\ Places # {} /\ j = Least(Places)
  BY DEF Find
<1>2. j \in Places /\ \A m \in Places : j <= m
  <2> HIDE DEF Places, j
  <2> QED
    BY <1>1, LeastIs
<1>3. j \in i .. Len(s) + 1 /\ (j <= Len(s) => s[j] = c)
  BY <1>2
<1>4. ASSUME NEW m \in i .. j - 1 PROVE s[m] # c
  <2> HIDE DEF j
  <2>1. m \in i .. Len(s) /\ ~(j <= m)
    BY <1>3
  <2> QED
    BY <1>2, <2>1
<1> QED
  BY <1>3, <1>4

LEMMA FoundIs ==
  ASSUME NEW s, Len(s) \in Nat, NEW i \in 1 .. Len(s) + 1, NEW c,
         NEW j \in i .. Len(s) + 1, j <= Len(s) => s[j] = c,
         \A m \in i .. j - 1 : s[m] # c
  PROVE  Find(s, i, c) = j
<1> DEFINE f == Find(s, i, c)
<1>1. /\ f \in i .. Len(s) + 1 /\ (f <= Len(s) => s[f] = c)
      /\ \A m \in i .. f - 1 : s[m] # c
  BY FindIs
<1> HIDE DEF f
<1>2. ~(f < j)
  <2> SUFFICES ASSUME f < j PROVE FALSE
    OBVIOUS
  <2>1. f \in i .. j - 1 /\ f <= Len(s)
    BY <1>1
  <2> QED
    BY <1>1, <2>1
<1>3. ~(j < f)
  <2> SUFFICES ASSUME j < f PROVE FALSE
    OBVIOUS
  <2>1. j \in i .. f - 1 /\ j <= Len(s)
    BY <1>1
  <2> QED
    BY <1>1, <2>1
<1>4. f = j
  BY <1>1, <1>2, <1>3
<1> QED
  BY <1>4 DEF f

(* Braces by name: the translation for SMT does not read them in strings. *)
Opening == "{"

Closing == "}"

LEMMA BracesDiffer == Opening # Closing
BY Zenon DEF Opening, Closing

------------------------------------------------------------------------------
(* One segment, at place i, before what is read behind it. *)
Read(s, i, from) ==
  LET ahead(seg, rest) == [ok |-> rest.ok, segs |-> <<seg>> \o rest.segs] IN
  IF i > Len(s) THEN [ok |-> TRUE, segs |-> <<>>]
  ELSE LET opens == s[i] = Opening
           j == Find(s, i, IF opens THEN Closing ELSE Opening) IN
       IF ~opens THEN ahead(Literal(SubSeq(s, i, j - 1)), from[j])
       ELSE IF j > Len(s) \/ j = i + 1 THEN [ok |-> FALSE, segs |-> <<>>]
       ELSE ahead(Wildcard(SubSeq(s, i + 1, j - 1)), from[j + 1])

(* What is read at a place depends on what is read at a later one only. *)
LEMMA ReadsOn ==
  ASSUME NEW s, Len(s) \in Nat, NEW i \in 1 .. Len(s) + 1, NEW f, NEW g,
         \A m \in i + 1 .. Len(s) + 1 : f[m] = g[m]
  PROVE  Read(s, i, f) = Read(s, i, g)
<1> DEFINE a == Find(s, i, Closing)  b == Find(s, i, Opening)
<1>1. CASE i > Len(s)
  BY <1>1 DEF Read
<1>2. CASE i <= Len(s) /\ s[i] # Opening
  <2>1. b \in i .. Len(s) + 1 /\ (b <= Len(s) => s[b] = Opening)
    BY FindIs
  <2> HIDE DEF b
  <2>2. b \in i + 1 .. Len(s) + 1
    BY <1>2, <2>1
  <2>3. f[b] = g[b]
    BY <2>2
  <2> QED
    BY <1>2, <2>3 DEF Read, b
<1>3. CASE i <= Len(s) /\ s[i] = Opening /\ (a > Len(s) \/ a = i + 1)
  BY <1>3 DEF Read
<1>4. CASE i <= Len(s) /\ s[i] = Opening /\ ~(a > Len(s) \/ a = i + 1)
  <2>1. a \in i .. Len(s) + 1
    BY FindIs
  <2> HIDE DEF a
  <2>2. a + 1 \in i + 1 .. Len(s) + 1
    BY <1>4, <2>1
  <2>3. f[a + 1] = g[a + 1]
    BY <2>2
  <2> QED
    BY <1>4, <2>3 DEF Read, a
<1>5. i > Len(s) \/ i <= Len(s)
  OBVIOUS
<1> HIDE DEF a, b
<1> QED
  BY <1>1, <1>2, <1>3, <1>4, <1>5

LEMMA ParseRuns ==
  ASSUME NEW s, Len(s) \in Nat
  PROVE  \E from : /\ \A i \in 1 .. Len(s) + 1 : from[i] = Read(s, i, from)
                   /\ parseSegments(s) = from[1]
<1> DEFINE n == Len(s)
           Reads(k, g) == g = [i \in n + 1 - k .. n + 1 |-> Read(s, i, g)]
           T == {k \in 0 .. n : \E g : Reads(k, g)}
           from == CHOOSE g : Reads(n, g)
<1>1. n \in T
  <2> HIDE DEF n
  <2>1. n \in Nat /\ n = Len(s)
    BY DEF n
  <2>2. 0 \in T
    <3> DEFINE g == [i \in n + 1 - 0 .. n + 1 |-> [ok |-> TRUE, segs |-> <<>>]]
    <3>1. \A i \in n + 1 - 0 .. n + 1 : Read(s, i, g) = [ok |-> TRUE, segs |-> <<>>]
      BY <2>1 DEF Read
    <3> HIDE DEF g
    <3>2. g = [i \in n + 1 - 0 .. n + 1 |-> Read(s, i, g)]
      BY <3>1 DEF g
    <3>3. 0 \in 0 .. n
      BY <2>1
    <3>4. Reads(0, g)
      BY <3>2
    <3> HIDE DEF Reads
    <3> QED
      BY <3>3, <3>4
  <2>3. ASSUME NEW k \in 1 .. n, k - 1 \in T PROVE k \in T
    <3>1. PICK g : Reads(k - 1, g)
      BY <2>3
    <3> DEFINE h == [i \in n + 1 - k .. n + 1 |-> IF i = n + 1 - k THEN Read(s, i, g) ELSE g[i]]
    <3>2. \A i \in n + 1 - (k - 1) .. n + 1 : g[i] = Read(s, i, g)
      BY <3>1
    <3>3. \A i \in n + 1 - (k - 1) .. n + 1 : h[i] = g[i]
      BY <2>1
    <3>4. ASSUME NEW i \in n + 1 - k .. n + 1 PROVE h[i] = Read(s, i, h)
      <4>1. \A m \in i + 1 .. n + 1 : h[m] = g[m]
        BY <2>1, <3>3
      <4>2. h[i] = Read(s, i, g)
        <5>1. i = n + 1 - k \/ i \in n + 1 - (k - 1) .. n + 1
          BY <2>1
        <5>2. i = n + 1 - k => h[i] = Read(s, i, g)
          BY <2>1
        <5> HIDE DEF h
        <5> QED
          BY <3>2, <3>3, <5>1, <5>2
      <4> HIDE DEF h
      <4>3. i \in 1 .. Len(s) + 1
        BY <2>1
      <4>4. Read(s, i, g) = Read(s, i, h)
        BY <2>1, <4>1, <4>3, ReadsOn
      <4> QED
        BY <4>2, <4>4
    <3>5. h = [i \in n + 1 - k .. n + 1 |-> h[i]]
      OBVIOUS
    <3> HIDE DEF h
    <3>6. Reads(k, h)
      BY <3>4, <3>5
    <3>7. k \in 0 .. n
      BY <2>1
    <3> HIDE DEF Reads
    <3> QED
      BY <3>6, <3>7
  <2> HIDE DEF T
  <2>4. n \in Nat
    BY <2>1
  <2>5. 0 .. n \subseteq T
    BY <2>2, <2>3, <2>4, Upwards
  <2> QED
    BY <2>4, <2>5
<1>2. Reads(n, from)
  <2>1. \E g : Reads(n, g)
    BY <1>1
  <2> HIDE DEF Reads
  <2> QED
    BY <2>1
<1>3. \A i \in 1 .. n + 1 : from[i] = Read(s, i, from)
  <2>1. n + 1 - n = 1 /\ n \in Nat
    OBVIOUS
  <2> HIDE DEF from, n
  <2>2. from = [i \in 1 .. n + 1 |-> Read(s, i, from)]
    BY <1>2, <2>1
  <2> QED
    BY <2>2
<1>4. parseSegments(s) = from[1]
  <2>1. n + 1 - n = 1
    OBVIOUS
  <2>2. from = CHOOSE g : g = [i \in 1 .. n + 1 |-> Read(s, i, g)]
    BY <2>1
  <2> HIDE DEF from
  <2> QED
    BY <2>2, Zenon DEF parseSegments, Read, Opening, Closing
<1> HIDE DEF from
<1> QED
  BY <1>3, <1>4

------------------------------------------------------------------------------
(* A segment that stands in s behind place low, up to place high. *)
SegmentAt(seg, s, low, high) ==
  IF seg.wildcard
    THEN /\ low + 2 < high /\ s[low + 1] = Opening /\ s[high] = Closing
         /\ seg.s = SubSeq(s, low + 2, high - 1)
         /\ \A m \in low + 2 .. high - 1 : s[m] # Closing
    ELSE /\ low < high /\ seg.s = SubSeq(s, low + 1, high)
         /\ \A m \in low + 1 .. high : s[m] # Opening

(* A literal goes on to the next wildcard. *)
Stops(seg, s, high) == seg.wildcard \/ high = Len(s) \/ s[high + 1] = Opening

ReadFirst(seg, rest) == [ok |-> rest.ok, segs |-> <<seg>> \o rest.segs]

LEMMA SegmentIsRead ==
  ASSUME NEW Char, NEW s \in Seq(Char), NEW seg \in SegmentsOf(Char),
         NEW high \in 1 .. Len(s), NEW low \in 0 .. high - 1,
         SegmentAt(seg, s, low, high), Stops(seg, s, high), NEW from
  PROVE  Read(s, low + 1, from) = ReadFirst(seg, from[high + 1])
<1>1. /\ seg = [s |-> seg.s, wildcard |-> seg.wildcard] /\ seg.wildcard \in BOOLEAN
      /\ Len(s) \in Nat
  BY DEF SegmentsOf
<1>2. low + 1 \in 1 .. Len(s) + 1 /\ ~(low + 1 > Len(s)) /\ low \in Nat /\ high \in Nat
  BY <1>1
<1>3. CASE seg.wildcard
  <2>1. /\ low + 2 < high /\ s[low + 1] = Opening /\ s[high] = Closing
        /\ seg.s = SubSeq(s, low + 2, high - 1)
        /\ \A m \in low + 2 .. high - 1 : s[m] # Closing
    BY <1>3 DEF SegmentAt
  <2>2. Find(s, low + 1, Closing) = high
    <3>1. high \in low + 1 .. Len(s) + 1
      BY <1>1, <1>2
    <3>2. \A m \in low + 1 .. high - 1 : s[m] # Closing
      <4> SUFFICES ASSUME NEW m \in low + 1 .. high - 1 PROVE s[m] # Closing
        OBVIOUS
      <4>1. m = low + 1 \/ m \in low + 2 .. high - 1
        BY <1>2
      <4> QED
        BY <2>1, <4>1, BracesDiffer
    <3> QED
      BY <1>1, <1>2, <2>1, <3>1, <3>2, FoundIs
  <2>3. Read(s, low + 1, from) = ReadFirst(Wildcard(SubSeq(s, (low + 1) + 1, high - 1)), from[high + 1])
    <3>1. ~(high > Len(s)) /\ ~(high = (low + 1) + 1)
      BY <1>1, <1>2, <2>1
    <3> QED
      BY <1>2, <2>1, <2>2, <3>1 DEF Read, ReadFirst
  <2>4. (low + 1) + 1 = low + 2
    BY <1>2
  <2> QED
    BY <1>1, <1>3, <2>1, <2>3, <2>4 DEF Wildcard
<1>4. CASE ~seg.wildcard
  <2>1. /\ seg.s = SubSeq(s, low + 1, high)
        /\ \A m \in low + 1 .. high : s[m] # Opening
        /\ high = Len(s) \/ s[high + 1] = Opening
    BY <1>4 DEF SegmentAt, Stops
  <2>2. Find(s, low + 1, Opening) = high + 1
    <3>1. high + 1 \in low + 1 .. Len(s) + 1 /\ (high + 1) - 1 = high
      BY <1>1, <1>2
    <3>2. high + 1 <= Len(s) => s[high + 1] = Opening
      BY <1>1, <1>2, <2>1
    <3> QED
      BY <1>1, <1>2, <2>1, <3>1, <3>2, FoundIs
  <2>3. s[low + 1] # Opening
    BY <1>2, <2>1
  <2>4. Read(s, low + 1, from) = ReadFirst(Literal(SubSeq(s, low + 1, (high + 1) - 1)), from[high + 1])
    BY <1>2, <2>2, <2>3 DEF Read, ReadFirst
  <2>5. (high + 1) - 1 = high
    BY <1>2
  <2> QED
    BY <1>1, <1>4, <2>1, <2>4, <2>5 DEF Literal
<1> QED
  BY <1>1, <1>3, <1>4

LEMMA ReadIs ==
  ASSUME NEW Char, NEW s \in Seq(Char), NEW low \in 0 .. Len(s) - 1, NEW from
  PROVE  \/ Read(s, low + 1, from) = [ok |-> FALSE, segs |-> <<>>]
         \/ \E seg \in SegmentsOf(Char), high \in low + 1 .. Len(s) :
              /\ SegmentAt(seg, s, low, high) /\ Stops(seg, s, high)
              /\ Read(s, low + 1, from) = ReadFirst(seg, from[high + 1])
<1> DEFINE i == low + 1
           a == Find(s, i, Closing)
           b == Find(s, i, Opening)
<1>1. Len(s) \in Nat /\ low \in Nat /\ i \in 1 .. Len(s) + 1 /\ i <= Len(s)
  OBVIOUS
<1>2. CASE s[i] = Opening
  <2>1. /\ a \in i .. Len(s) + 1 /\ (a <= Len(s) => s[a] = Closing)
        /\ \A m \in i .. a - 1 : s[m] # Closing
    <3> HIDE DEF i
    <3> QED
      BY <1>1, FindIs
  <2> HIDE DEF a
  <2>2. CASE a > Len(s) \/ a = i + 1
    <3>1. Read(s, i, from) = [ok |-> FALSE, segs |-> <<>>]
      <4> HIDE DEF i
      <4> QED
        BY <1>1, <1>2, <2>2 DEF Read, a
    <3> QED
      BY <3>1
  <2>3. CASE ~(a > Len(s) \/ a = i + 1)
    <3> DEFINE seg == Wildcard(SubSeq(s, i + 1, a - 1))
    <3>1. Read(s, i, from) = ReadFirst(seg, from[a + 1])
      <4> HIDE DEF i
      <4> QED
        BY <1>1, <1>2, <2>3 DEF Read, ReadFirst, a
    <3>2. a \in low + 1 .. Len(s) /\ a # low + 1 /\ a # low + 2 /\ s[a] = Closing
      BY <1>1, <1>2, <2>1, <2>3, BracesDiffer
    <3>3. low + 2 < a /\ i + 1 = low + 2 /\ (i + 1) \in 1 .. Len(s) + 1 /\ a - 1 \in 0 .. Len(s)
      BY <1>1, <3>2
    <3>4. SubSeq(s, i + 1, a - 1) \in Seq(Char)
      BY <1>1, <3>2
    <3>5. seg \in SegmentsOf(Char)
      <4> DEFINE name == SubSeq(s, i + 1, a - 1)
      <4> HIDE DEF name
      <4>1. Wildcard(name) \in SegmentsOf(Char)
        BY <3>4 DEF Wildcard, SegmentsOf, name
      <4> QED
        BY <4>1 DEF name
    <3>6. seg.wildcard = TRUE /\ seg.s = SubSeq(s, low + 2, a - 1)
      BY <3>3 DEF Wildcard
    <3>7. \A m \in low + 2 .. a - 1 : s[m] # Closing
      BY <1>1, <2>1, <3>2
    <3> HIDE DEF seg
    <3>8. SegmentAt(seg, s, low, a) /\ Stops(seg, s, a)
      BY <1>2, <3>2, <3>3, <3>6, <3>7 DEF SegmentAt, Stops
    <3> QED
      BY <3>1, <3>2, <3>5, <3>8
  <2> QED
    BY <2>2, <2>3
<1>3. CASE s[i] # Opening
  <2>1. /\ b \in i .. Len(s) + 1 /\ (b <= Len(s) => s[b] = Opening)
        /\ \A m \in i .. b - 1 : s[m] # Opening
    <3> HIDE DEF i
    <3> QED
      BY <1>1, FindIs
  <2> HIDE DEF b
  <2> DEFINE seg == Literal(SubSeq(s, i, b - 1))  high == b - 1
  <2>2. Read(s, i, from) = ReadFirst(seg, from[b])
    <3> HIDE DEF i
    <3> QED
      BY <1>1, <1>3 DEF Read, ReadFirst, b
  <2>3. b # i
    BY <1>1, <1>3, <2>1
  <2>4. high \in low + 1 .. Len(s) /\ high + 1 = b /\ low < high
    BY <1>1, <2>1, <2>3
  <2>5. SubSeq(s, i, b - 1) \in Seq(Char)
    BY <1>1, <2>1
  <2>6. seg \in SegmentsOf(Char) /\ seg.wildcard = FALSE /\ seg.s = SubSeq(s, low + 1, high)
    <3> DEFINE name == SubSeq(s, i, b - 1)
    <3> HIDE DEF name
    <3>1. Literal(name) \in SegmentsOf(Char) /\ Literal(name).wildcard = FALSE /\ Literal(name).s = name
      BY <2>5 DEF Literal, SegmentsOf, name
    <3> QED
      BY <3>1 DEF name
  <2>7. \A m \in low + 1 .. high : s[m] # Opening
    BY <1>1, <2>1
  <2>8. high = Len(s) \/ s[high + 1] = Opening
    BY <1>1, <2>1, <2>4
  <2> HIDE DEF seg, high
  <2>9. SegmentAt(seg, s, low, high) /\ Stops(seg, s, high)
    BY <2>4, <2>6, <2>7, <2>8 DEF SegmentAt, Stops
  <2> QED
    BY <2>2, <2>4, <2>6, <2>9
<1> QED
  BY <1>2, <1>3

(* Segments that s is cut into behind place low. *)
Cuts(segs, s, low, at) ==
  /\ at \in [0 .. Len(segs) -> low .. Len(s)]
  /\ at[0] = low /\ at[Len(segs)] = Len(s)
  /\ \A k \in 1 .. Len(segs) :
       /\ at[k - 1] < at[k] /\ SegmentAt(segs[k], s, at[k - 1], at[k])
       /\ segs[k].wildcard \/ k = 1 \/ segs[k - 1].wildcard

(* The segments that s may be cut into are read. *)
LEMMA CutsAreRead ==
  ASSUME NEW Char, NEW s \in Seq(Char), NEW segs \in Seq(SegmentsOf(Char)), NEW at,
         Cuts(segs, s, 0, at), NEW from, \A i \in 1 .. Len(s) + 1 : from[i] = Read(s, i, from)
  PROVE  from[1] = [ok |-> TRUE, segs |-> segs]
<1> DEFINE n == Len(segs)
           T == {k \in 0 .. n : from[at[n - k] + 1] = [ok |-> TRUE, segs |-> SubSeq(segs, n - k + 1, n)]}
<1>1. n \in Nat /\ Len(s) \in Nat
  OBVIOUS
<1>2. /\ \A k \in 0 .. n : at[k] \in 0 .. Len(s)
      /\ at[0] = 0 /\ at[n] = Len(s)
      /\ \A k \in 1 .. n : /\ at[k - 1] < at[k] /\ SegmentAt(segs[k], s, at[k - 1], at[k])
                           /\ segs[k].wildcard \/ k = 1 \/ segs[k - 1].wildcard
  BY DEF Cuts
<1>3. 0 \in T
  <2>1. from[Len(s) + 1] = [ok |-> TRUE, segs |-> <<>>]
    <3>1. Len(s) + 1 \in 1 .. Len(s) + 1 /\ Len(s) + 1 > Len(s)
      BY <1>1
    <3>2. Read(s, Len(s) + 1, from) = [ok |-> TRUE, segs |-> <<>>]
      BY <3>1 DEF Read
    <3> QED
      BY <3>1, <3>2
  <2>2. SubSeq(segs, n - 0 + 1, n) = <<>>
    BY <1>1, SubSeqEmpty
  <2>3. n - 0 = n /\ 0 \in 0 .. n
    BY <1>1
  <2> HIDE DEF n
  <2> QED
    BY <1>2, <2>1, <2>2, <2>3
<1>4. ASSUME NEW k \in 1 .. n, k - 1 \in T PROVE k \in T
  <2> DEFINE j == n - k + 1
  <2>1. /\ j \in 1 .. n /\ n - (k - 1) = j /\ n - k = j - 1 /\ k \in 0 .. n
        /\ j - 1 \in 0 .. n /\ j \in 0 .. n
    BY <1>1
  <2>2. from[at[j] + 1] = [ok |-> TRUE, segs |-> SubSeq(segs, j + 1, n)]
    BY <1>4, <2>1
  <2> DEFINE low == at[j - 1]  high == at[j]
  <2>3. high \in 1 .. Len(s) /\ low \in 0 .. high - 1 /\ SegmentAt(segs[j], s, low, high)
    BY <1>1, <1>2, <2>1
  <2>4. Stops(segs[j], s, high)
    <3>1. CASE j = n
      BY <1>2, <3>1 DEF Stops
    <3>2. CASE j # n /\ ~segs[j].wildcard
      <4>1. j + 1 \in 1 .. n /\ (j + 1) - 1 = j /\ j + 1 # 1
        BY <1>1, <2>1, <3>2
      <4>2. segs[j + 1].wildcard /\ SegmentAt(segs[j + 1], s, high, at[j + 1])
        BY <1>2, <3>2, <4>1
      <4> HIDE DEF high
      <4> QED
        BY <4>2 DEF Stops, SegmentAt
    <3> QED
      BY <3>1, <3>2 DEF Stops
  <2>5. segs[j] \in SegmentsOf(Char)
    BY <2>1
  <2> HIDE DEF low, high
  <2>6. Read(s, low + 1, from) = ReadFirst(segs[j], from[high + 1])
    BY <2>3, <2>4, <2>5, SegmentIsRead
  <2>7. from[low + 1] = Read(s, low + 1, from)
    <3>1. low + 1 \in 1 .. Len(s) + 1
      BY <1>1, <2>3
    <3> QED
      BY <3>1
  <2>8. from[low + 1] = [ok |-> TRUE, segs |-> <<segs[j]>> \o SubSeq(segs, j + 1, n)]
    BY <2>2, <2>6, <2>7 DEF ReadFirst, high
  <2>9. <<segs[j]>> \o SubSeq(segs, j + 1, n) = SubSeq(segs, j, n)
    <3> HIDE DEF j
    <3> QED
      BY <2>1, SubSeqRecursiveFirst
  <2> HIDE DEF j
  <2>10. from[at[n - k] + 1] = [ok |-> TRUE, segs |-> SubSeq(segs, n - k + 1, n)]
    <3>1. n - k + 1 = j
      BY DEF j
    <3> QED
      BY <2>1, <2>8, <2>9, <3>1 DEF low
  <2> QED
    BY <2>1, <2>10
<1>5. n \in T
  <2> HIDE DEF T
  <2>1. 0 .. n \subseteq T
    BY <1>1, <1>3, <1>4, Upwards
  <2> QED
    BY <1>1, <2>1
<1>6. n - n = 0 /\ 0 + 1 = 1 /\ SubSeq(segs, 1, n) = segs
  BY <1>1, SubSeqFull
<1> HIDE DEF n
<1> QED
  BY <1>2, <1>5, <1>6

LEMMA CutsInFront ==
  ASSUME NEW Char, NEW s \in Seq(Char), NEW rest \in Seq(SegmentsOf(Char)),
         NEW seg \in SegmentsOf(Char), NEW high \in 1 .. Len(s), NEW low \in 0 .. high - 1,
         SegmentAt(seg, s, low, high), Stops(seg, s, high),
         NEW at, Cuts(rest, s, high, at)
  PROVE  \E cut : Cuts(<<seg>> \o rest, s, low, cut)
<1> DEFINE n == Len(rest)
           segs == <<seg>> \o rest
           cut == [m \in 0 .. n + 1 |-> IF m = 0 THEN low ELSE at[m - 1]]
<1>1. n \in Nat /\ Len(s) \in Nat /\ high \in Nat /\ low \in Nat /\ low < high
  OBVIOUS
<1>2. /\ at \in [0 .. n -> high .. Len(s)] /\ at[0] = high /\ at[n] = Len(s)
      /\ \A k \in 1 .. n : /\ at[k - 1] < at[k] /\ SegmentAt(rest[k], s, at[k - 1], at[k])
                           /\ rest[k].wildcard \/ k = 1 \/ rest[k - 1].wildcard
  BY DEF Cuts
<1>3. /\ Len(segs) = n + 1 /\ segs[1] = seg
      /\ \A k \in 2 .. n + 1 : segs[k] = rest[k - 1]
  <2>1. <<seg>> \in Seq(SegmentsOf(Char)) /\ Len(<<seg>>) = 1 /\ <<seg>>[1] = seg
    OBVIOUS
  <2>2. /\ Len(segs) = Len(<<seg>>) + Len(rest)
        /\ \A i \in 1 .. Len(<<seg>>) + Len(rest) : segs[i] =
             IF i <= Len(<<seg>>) THEN <<seg>>[i] ELSE rest[i - Len(<<seg>>)]
    BY <2>1, ConcatProperties
  <2> HIDE DEF segs
  <2> QED
    BY <1>1, <2>1, <2>2
<1> HIDE DEF segs
<1>4. cut \in [0 .. n + 1 -> low .. Len(s)] /\ cut[0] = low /\ cut[n + 1] = Len(s)
      /\ \A m \in 1 .. n + 1 : cut[m] = at[m - 1]
  <2>1. ASSUME NEW m \in 0 .. n + 1 PROVE cut[m] \in low .. Len(s)
    <3>1. m # 0 => m - 1 \in 0 .. n
      BY <1>1
    <3>2. m # 0 => at[m - 1] \in high .. Len(s)
      BY <1>2, <3>1
    <3>3. high <= Len(s)
      OBVIOUS
    <3> QED
      BY <1>1, <3>2, <3>3
  <2>2. n + 1 # 0 /\ (n + 1) - 1 = n /\ n + 1 \in 0 .. n + 1 /\ 0 \in 0 .. n + 1
    BY <1>1
  <2>3. \A m \in 1 .. n + 1 : m \in 0 .. n + 1 /\ m # 0
    BY <1>1
  <2> HIDE DEF n
  <2> QED
    BY <1>2, <2>1, <2>2, <2>3
<1> HIDE DEF cut
<1>5. ASSUME NEW k \in 1 .. n + 1
      PROVE  /\ cut[k - 1] < cut[k] /\ SegmentAt(segs[k], s, cut[k - 1], cut[k])
             /\ segs[k].wildcard \/ k = 1 \/ segs[k - 1].wildcard
  <2>1. CASE k = 1
    <3>1. cut[k - 1] = low /\ cut[k] = high /\ segs[k] = seg
      BY <1>2, <1>3, <1>4, <2>1
    <3> QED
      BY <1>1, <2>1, <3>1
  <2>2. CASE k = 2
    <3>1. k - 1 = 1 /\ 1 - 1 = 0 /\ 1 \in 1 .. n /\ 1 \in 1 .. n + 1 /\ k \in 2 .. n + 1
      BY <1>1, <2>2
    <3>2. cut[k - 1] = high /\ cut[k] = at[1] /\ segs[k] = rest[1] /\ segs[k - 1] = seg
      BY <1>2, <1>3, <1>4, <3>1
    <3>3. high < at[1] /\ SegmentAt(rest[1], s, high, at[1])
      BY <1>2, <3>1
    <3>4. rest[1].wildcard \/ seg.wildcard
      <4>1. CASE ~seg.wildcard
        <5>1. high # Len(s) /\ at[1] \in high .. Len(s)
          <6> DEFINE next == at[1]
          <6>1. 1 \in 0 .. n
            BY <1>1, <3>1
          <6>2. next \in high .. Len(s) /\ high < next
            BY <1>2, <3>3, <6>1
          <6> HIDE DEF next
          <6>3. high # Len(s)
            BY <1>1, <6>2
          <6> QED
            BY <6>2, <6>3 DEF next
        <5>2. s[high + 1] = Opening
          BY <4>1, <5>1 DEF Stops
        <5>3. high + 1 \in high + 1 .. at[1]
          <6> DEFINE next == at[1]
          <6>1. next \in high .. Len(s) /\ high < next
            BY <3>3, <5>1
          <6> HIDE DEF next
          <6>2. high + 1 \in high + 1 .. next
            BY <1>1, <6>1
          <6> QED
            BY <6>2 DEF next
        <5> QED
          BY <3>3, <5>2, <5>3 DEF SegmentAt
      <4> QED
        BY <4>1
    <3> QED
      BY <3>2, <3>3, <3>4
  <2>3. CASE k # 1 /\ k # 2
    <3>1. /\ k - 1 \in 2 .. n + 1 /\ k - 1 \in 1 .. n /\ k \in 2 .. n + 1 /\ k - 1 # 1
          /\ k - 1 \in 1 .. n + 1
      BY <1>1, <2>3
    <3>2. /\ cut[k - 1] = at[(k - 1) - 1] /\ cut[k] = at[k - 1]
          /\ segs[k] = rest[k - 1] /\ segs[k - 1] = rest[(k - 1) - 1]
      BY <1>3, <1>4, <3>1
    <3> DEFINE l == k - 1
    <3>3. l \in 1 .. n /\ l # 1 /\ cut[k - 1] = at[l - 1] /\ cut[k] = at[l]
          /\ segs[k] = rest[l] /\ segs[k - 1] = rest[l - 1]
      BY <3>1, <3>2
    <3> HIDE DEF l
    <3> QED
      BY <1>2, <3>3
  <2> QED
    BY <2>1, <2>2, <2>3
<1>6. Cuts(segs, s, low, cut)
  BY <1>3, <1>4, <1>5 DEF Cuts
<1> QED
  BY <1>6 DEF segs

(* What is read is well formed, and cuts s if it is no error. *)
Whole(Char, s, low, read) ==
  /\ read \in [ok : BOOLEAN, segs : Seq(SegmentsOf(Char))]
  /\ read.ok => \E at : Cuts(read.segs, s, low, at)

LEMMA ReadIsWhole ==
  ASSUME NEW Char, NEW s \in Seq(Char), NEW from,
         \A i \in 1 .. Len(s) + 1 : from[i] = Read(s, i, from)
  PROVE  Whole(Char, s, 0, from[1])
<1> DEFINE n == Len(s)
           T == {k \in 0 .. n : \A low \in n - k .. n : Whole(Char, s, low, from[low + 1])}
<1>1. n \in Nat
  OBVIOUS
<1>2. <<>> \in Seq(SegmentsOf(Char)) /\ Len(<<>>) = 0
  OBVIOUS
<1>3. 0 \in T
  <2>1. from[n + 1] = [ok |-> TRUE, segs |-> <<>>]
    <3>1. n + 1 \in 1 .. n + 1 /\ n + 1 > n
      BY <1>1
    <3>2. Read(s, n + 1, from) = [ok |-> TRUE, segs |-> <<>>]
      BY <3>1 DEF Read
    <3> QED
      BY <3>1, <3>2
  <2>2. Cuts(<<>>, s, n, [m \in 0 .. 0 |-> n])
    BY <1>1, <1>2 DEF Cuts
  <2>3. Whole(Char, s, n, from[n + 1])
    BY <1>2, <2>1, <2>2 DEF Whole
  <2>4. \A low \in n - 0 .. n : low = n
    BY <1>1
  <2> HIDE DEF n
  <2> QED
    BY <1>1, <2>3, <2>4
<1>4. ASSUME NEW k \in 1 .. n, k - 1 \in T PROVE k \in T
  <2> DEFINE low == n - k
  <2>1. low \in 0 .. Len(s) - 1 /\ low + 1 \in 1 .. Len(s) + 1 /\ k \in 0 .. n
    BY <1>1
  <2>2. \A m \in low + 1 .. n : Whole(Char, s, m, from[m + 1])
    <3>1. n - (k - 1) = low + 1
      BY <1>1
    <3> QED
      BY <1>4, <3>1
  <2>3. from[low + 1] = Read(s, low + 1, from)
    BY <2>1
  <2> HIDE DEF low
  <2>4. Whole(Char, s, low, from[low + 1])
    <3>1. CASE Read(s, low + 1, from) = [ok |-> FALSE, segs |-> <<>>]
      <4> DEFINE read == from[low + 1]
      <4>1. read = [ok |-> FALSE, segs |-> <<>>]
        BY <2>3, <3>1
      <4> HIDE DEF read
      <4>2. read \in [ok : BOOLEAN, segs : Seq(SegmentsOf(Char))] /\ ~read.ok
        BY <1>2, <4>1
      <4> QED
        BY <4>2 DEF Whole, read
    <3>2. ASSUME NEW seg \in SegmentsOf(Char), NEW high \in low + 1 .. Len(s),
                 SegmentAt(seg, s, low, high), Stops(seg, s, high),
                 Read(s, low + 1, from) = ReadFirst(seg, from[high + 1])
          PROVE  Whole(Char, s, low, from[low + 1])
      <4> DEFINE rest == from[high + 1]
      <4>1. Whole(Char, s, high, rest) /\ high \in 1 .. Len(s) /\ low \in 0 .. high - 1
        BY <2>1, <2>2, <3>2
      <4>2. from[low + 1] = ReadFirst(seg, rest)
        BY <2>3, <3>2
      <4> HIDE DEF rest
      <4>3. rest.ok \in BOOLEAN /\ rest.segs \in Seq(SegmentsOf(Char))
            /\ (rest.ok => \E at : Cuts(rest.segs, s, high, at))
        BY <4>1 DEF Whole
      <4>4. <<seg>> \o rest.segs \in Seq(SegmentsOf(Char))
        BY <4>3
      <4>5. ASSUME rest.ok PROVE \E cut : Cuts(<<seg>> \o rest.segs, s, low, cut)
        <5>1. PICK at : Cuts(rest.segs, s, high, at)
          BY <4>3, <4>5
        <5> QED
          BY <3>2, <4>1, <4>3, <5>1, CutsInFront
      <4> DEFINE read == from[low + 1]  segs == <<seg>> \o rest.segs
      <4>6. read = [ok |-> rest.ok, segs |-> segs]
        BY <4>2 DEF ReadFirst
      <4> HIDE DEF read, segs
      <4>7. read \in [ok : BOOLEAN, segs : Seq(SegmentsOf(Char))]
        BY <4>3, <4>4, <4>6 DEF segs
      <4>8. read.ok => \E at : Cuts(read.segs, s, low, at)
        BY <4>5, <4>6 DEF segs
      <4> QED
        BY <4>7, <4>8 DEF Whole, read
    <3> QED
      BY <2>1, <3>1, <3>2, ReadIs
  <2>5. ASSUME NEW m \in low .. n PROVE Whole(Char, s, m, from[m + 1])
    <3>1. m = low \/ m \in low + 1 .. n
      BY <1>1, <2>1
    <3> QED
      BY <2>2, <2>4, <3>1
  <2> HIDE DEF n
  <2> QED
    BY <2>1, <2>5 DEF low
<1>5. n \in T
  <2> HIDE DEF T
  <2>1. 0 .. n \subseteq T
    BY <1>1, <1>3, <1>4, Upwards
  <2> QED
    BY <1>1, <2>1
<1>6. 0 \in n - n .. n /\ 0 + 1 = 1
  BY <1>1
<1> HIDE DEF n
<1> QED
  BY <1>5, <1>6

(* parseSegments reads a string in the one way there is to cut it into      *)
(* segments, and refuses it only when there is none.                       *)
THEOREM ParseIsTheReading ==
  ASSUME NEW Char, NEW s \in Seq(Char), NEW segs \in Seq(SegmentsOf(Char))
  PROVE  /\ parseSegments(s) \in [ok : BOOLEAN, segs : Seq(SegmentsOf(Char))]
         /\ parseSegments(s) = [ok |-> TRUE, segs |-> segs] <=> \E at : Cuts(segs, s, 0, at)
<1>1. PICK from : /\ \A i \in 1 .. Len(s) + 1 : from[i] = Read(s, i, from)
                  /\ parseSegments(s) = from[1]
  BY LenProperties, ParseRuns
<1>2. Whole(Char, s, 0, parseSegments(s))
  BY <1>1, ReadIsWhole
<1>3. parseSegments(s) \in [ok : BOOLEAN, segs : Seq(SegmentsOf(Char))]
  BY <1>2 DEF Whole
<1>4. ASSUME parseSegments(s) = [ok |-> TRUE, segs |-> segs] PROVE \E at : Cuts(segs, s, 0, at)
  BY <1>2, <1>4 DEF Whole
<1>5. ASSUME NEW at, Cuts(segs, s, 0, at) PROVE parseSegments(s) = [ok |-> TRUE, segs |-> segs]
  BY <1>1, <1>5, CutsAreRead
<1> QED
  BY <1>3, <1>4, <1>5

------------------------------------------------------------------------------
(* Pieces that s is cut into up to place end. *)
PieceCut(p, s, end, at) ==
  /\ at \in [0 .. Len(p) -> 0 .. end]
  /\ at[0] = 0 /\ at[Len(p)] = end
  /\ \A k \in 1 .. Len(p) : at[k - 1] < at[k] /\ p[k] = SubSeq(s, at[k - 1] + 1, at[k])

PieceTurn(s, K, i, was) ==
  IF i = 1 \/ i - 1 \in K THEN was \o <<<<s[i]>>>>
  ELSE [was EXCEPT ![Len(was)] = @ \o <<s[i]>>]

LEMMA PiecesRun ==
  ASSUME NEW s, Len(s) \in Nat, NEW K
  PROVE  \E u : /\ u[0] = <<>>
                /\ \A i \in 1 .. Len(s) : u[i] = PieceTurn(s, K, i, u[i - 1])
                /\ Pieces(s, K) = u[Len(s)]
<1> DEFINE n == Len(s)
           turn(i, was) == PieceTurn(s, K, i, was)
           Runs(k, g) == g = [i \in 0 .. k |-> IF i = 0 THEN <<>> ELSE turn(i, g[i - 1])]
           T == {k \in 0 .. n : \E g : Runs(k, g)}
           upTo == CHOOSE g : Runs(n, g)
<1>1. n \in T
  <2> HIDE DEF n, turn
  <2>1. n \in Nat
    BY DEF n
  <2>2. 0 \in T
    <3>1. Runs(0, [i \in 0 .. 0 |-> <<>>])
      OBVIOUS
    <3>2. 0 \in 0 .. n
      BY <2>1
    <3> HIDE DEF Runs
    <3> QED
      BY <3>1, <3>2
  <2>3. ASSUME NEW k \in 1 .. n, k - 1 \in T PROVE k \in T
    <3>1. PICK g : Runs(k - 1, g)
      BY <2>3
    <3> DEFINE h == [i \in 0 .. k |-> IF i = k THEN turn(k, g[k - 1]) ELSE g[i]]
    <3>2. Runs(k, h)
      BY <2>1, <3>1
    <3>3. k \in 0 .. n
      BY <2>1
    <3> HIDE DEF Runs, h
    <3> QED
      BY <3>2, <3>3
  <2> HIDE DEF T
  <2> QED
    BY <2>1, <2>2, <2>3, Upwards
<1>2. Runs(n, upTo)
  <2>1. \E g : Runs(n, g)
    BY <1>1
  <2> HIDE DEF Runs
  <2> QED
    BY <2>1
<1>3. upTo[0] = <<>> /\ \A i \in 1 .. n : upTo[i] = turn(i, upTo[i - 1])
  <2> HIDE DEF turn, upTo
  <2> QED
    BY <1>2
<1>4. Pieces(s, K) = upTo[n]
  BY DEF Pieces, PieceTurn
<1> HIDE DEF upTo
<1> QED
  BY <1>3, <1>4

LEMMA NextPiece ==
  ASSUME NEW Char, NEW s \in Seq(Char), NEW K, NEW i \in 1 .. Len(s),
         NEW was \in Seq(Seq(Char)), NEW at, PieceCut(was, s, i - 1, at)
  PROVE  /\ PieceTurn(s, K, i, was) \in Seq(Seq(Char))
         /\ \E cut : PieceCut(PieceTurn(s, K, i, was), s, i, cut)
<1> DEFINE m == Len(was)
           now == PieceTurn(s, K, i, was)
<1>1. /\ at \in [0 .. m -> 0 .. i - 1] /\ at[0] = 0 /\ at[m] = i - 1
      /\ \A k \in 1 .. m : at[k - 1] < at[k] /\ was[k] = SubSeq(s, at[k - 1] + 1, at[k])
  BY DEF PieceCut
<1>2. m \in Nat /\ i \in Nat /\ i >= 1 /\ s[i] \in Char /\ i <= Len(s) /\ Len(s) \in Nat
  OBVIOUS
<1>3. CASE i = 1 \/ i - 1 \in K
  <2> DEFINE one == <<<<s[i]>>>>
             cut == [k \in 0 .. m + 1 |-> IF k = m + 1 THEN i ELSE at[k]]
  <2>1. one \in Seq(Seq(Char)) /\ Len(one) = 1 /\ one[1] = <<s[i]>>
    BY <1>2
  <2>2. now = was \o one
    BY <1>3 DEF PieceTurn
  <2> HIDE DEF now, one
  <2>3. /\ now \in Seq(Seq(Char)) /\ Len(now) = m + 1 /\ now[m + 1] = <<s[i]>>
        /\ \A k \in 1 .. m : now[k] = was[k]
    <3>1. /\ was \o one \in Seq(Seq(Char)) /\ Len(was \o one) = Len(was) + Len(one)
          /\ \A k \in 1 .. Len(was) + Len(one) :
               (was \o one)[k] = IF k <= Len(was) THEN was[k] ELSE one[k - Len(was)]
      BY <2>1, ConcatProperties
    <3> QED
      BY <1>2, <2>1, <2>2, <3>1
  <2>4. /\ cut[m + 1] = i /\ cut[0] = 0 /\ \A k \in 0 .. m : cut[k] = at[k]
    BY <1>1, <1>2
  <2>5. cut \in [0 .. m + 1 -> 0 .. i]
    <3>1. ASSUME NEW k \in 0 .. m PROVE at[k] \in 0 .. i
      <4> DEFINE place == at[k]
      <4>1. place \in 0 .. i - 1
        BY <1>1
      <4> HIDE DEF place
      <4>2. place \in 0 .. i
        BY <1>2, <4>1
      <4> QED
        BY <4>2 DEF place
    <3>2. \A k \in 0 .. m + 1 : k # m + 1 => k \in 0 .. m
      BY <1>2
    <3>3. i \in 0 .. i
      BY <1>2
    <3> HIDE DEF m
    <3> QED
      BY <3>1, <3>2, <3>3
  <2> HIDE DEF cut
  <2>6. SubSeq(s, (i - 1) + 1, i) = <<s[i]>>
    <3>1. (i - 1) + 1 = i /\ i \in i .. Len(s)
      BY <1>2
    <3>2. SubSeq(s, i, i) = <<s[i]>> \o SubSeq(s, i + 1, i)
      BY <3>1, SubSeqRecursiveFirst
    <3>3. SubSeq(s, i + 1, i) = <<>>
      BY <1>2, SubSeqEmpty
    <3>4. <<s[i]>> \o <<>> = <<s[i]>>
      <4>1. <<s[i]>> \in Seq(Char)
        BY <1>2
      <4> QED
        BY <4>1, ConcatEmptySeq
    <3> QED
      BY Zenon, <3>1, <3>2, <3>3, <3>4
  <2>7. ASSUME NEW k \in 1 .. m + 1
        PROVE  cut[k - 1] < cut[k] /\ now[k] = SubSeq(s, cut[k - 1] + 1, cut[k])
    <3>1. CASE k = m + 1
      <4>1. k - 1 = m /\ m \in 0 .. m
        BY <1>2, <3>1
      <4>2. cut[k - 1] = i - 1 /\ cut[k] = i /\ now[k] = <<s[i]>>
        BY <1>1, <2>3, <2>4, <3>1, <4>1
      <4> QED
        BY <1>2, <2>6, <4>2
    <3>2. CASE k # m + 1
      <4>1. k \in 1 .. m /\ k - 1 \in 0 .. m /\ k \in 0 .. m
        BY <1>2, <3>2
      <4> QED
        BY <1>1, <2>3, <2>4, <4>1
    <3> QED
      BY <3>1, <3>2
  <2>8. PieceCut(now, s, i, cut)
    BY <2>3, <2>4, <2>5, <2>7 DEF PieceCut
  <2> QED
    BY <2>3, <2>8 DEF now
<1>4. CASE ~(i = 1 \/ i - 1 \in K)
  <2> DEFINE cut == [k \in 0 .. m |-> IF k = m THEN i ELSE at[k]]
             last == was[m] \o <<s[i]>>
  <2>1. m \in 1 .. m /\ m - 1 \in 0 .. m /\ m # 0
    <3>1. m # 0
      BY <1>1, <1>2, <1>4
    <3> QED
      BY <1>2, <3>1
  <2>2. now = [was EXCEPT ![m] = @ \o <<s[i]>>]
    BY <1>4 DEF PieceTurn
  <2>3. last \in Seq(Char)
    <3>1. was[m] \in Seq(Char) /\ <<s[i]>> \in Seq(Char)
      BY <1>2, <2>1
    <3> HIDE DEF m
    <3> QED
      BY <3>1
  <2>4. now = [was EXCEPT ![m] = last]
    BY <2>2
  <2> HIDE DEF now, last
  <2>5. /\ now \in Seq(Seq(Char)) /\ Len(now) = m /\ now[m] = last
        /\ \A k \in 1 .. m - 1 : now[k] = was[k]
    BY <2>1, <2>3, <2>4
  <2>6. cut[m] = i /\ cut[0] = 0 /\ \A k \in 0 .. m - 1 : cut[k] = at[k]
    BY <1>1, <1>2, <2>1
  <2>7. cut \in [0 .. m -> 0 .. i]
    <3>1. ASSUME NEW k \in 0 .. m PROVE at[k] \in 0 .. i
      <4> DEFINE place == at[k]
      <4>1. place \in 0 .. i - 1
        BY <1>1
      <4> HIDE DEF place
      <4>2. place \in 0 .. i
        BY <1>2, <4>1
      <4> QED
        BY <4>2 DEF place
    <3>2. i \in 0 .. i
      BY <1>2
    <3> HIDE DEF m
    <3> QED
      BY <3>1, <3>2
  <2> HIDE DEF cut
  <2>8. at[m - 1] \in 0 .. i - 1 /\ at[m - 1] < i - 1
        /\ was[m] = SubSeq(s, at[m - 1] + 1, i - 1)
    BY <1>1, <2>1
  <2>9. last = SubSeq(s, at[m - 1] + 1, i)
    <3> DEFINE before == at[m - 1]  low == before + 1
    <3>1. before \in 0 .. i - 1 /\ before < i - 1
      BY <2>8
    <3> HIDE DEF before
    <3>2. low \in 1 .. Len(s) /\ i \in low .. Len(s)
      BY <1>2, <3>1
    <3> HIDE DEF low
    <3>3. SubSeq(s, low, i) = SubSeq(s, low, i - 1) \o <<s[i]>>
      BY <3>2, SubSeqRecursiveSecond
    <3> QED
      BY <2>8, <3>3 DEF last, low, before
  <2>10. ASSUME NEW k \in 1 .. m
         PROVE  cut[k - 1] < cut[k] /\ now[k] = SubSeq(s, cut[k - 1] + 1, cut[k])
    <3>1. CASE k = m
      <4>1. m - 1 \in 0 .. m - 1
        BY <1>2, <2>1
      <4> DEFINE before == at[m - 1]
      <4>2. cut[k - 1] = before /\ cut[k] = i /\ now[k] = last
        BY <2>5, <2>6, <3>1, <4>1
      <4>3. before \in 0 .. i - 1 /\ last = SubSeq(s, before + 1, i)
        BY <2>8, <2>9
      <4> HIDE DEF before
      <4>4. before < i
        BY <1>2, <4>3
      <4> QED
        BY <4>2, <4>3, <4>4
    <3>2. CASE k # m
      <4>1. k \in 1 .. m - 1 /\ k - 1 \in 0 .. m - 1 /\ k \in 0 .. m - 1
        BY <1>2, <3>2
      <4> QED
        BY <1>1, <2>5, <2>6, <4>1
    <3> QED
      BY <3>1, <3>2
  <2>11. PieceCut(now, s, i, cut)
    BY <2>5, <2>6, <2>7, <2>10 DEF PieceCut
  <2> QED
    BY <2>5, <2>11 DEF now
<1> QED
  BY <1>3, <1>4

LEMMA NoPieces ==
  ASSUME NEW Char, NEW s \in Seq(Char), NEW u, u = <<>>
  PROVE  u \in Seq(Seq(Char)) /\ \E at : PieceCut(u, s, 0, at)
<1> DEFINE at == [k \in 0 .. 0 |-> 0]
<1>1. Len(u) = 0 /\ u \in Seq(Seq(Char))
  OBVIOUS
<1>2. PieceCut(u, s, 0, at)
  BY <1>1 DEF PieceCut
<1> HIDE DEF at
<1> QED
  BY <1>1, <1>2

(* Whatever places a string is cut at, the pieces are its own, in order.   *)
LEMMA PiecesAreCut ==
  ASSUME NEW Char, NEW s \in Seq(Char), NEW K
  PROVE  /\ Pieces(s, K) \in Seq(Seq(Char))
         /\ \E at : PieceCut(Pieces(s, K), s, Len(s), at)
<1> DEFINE n == Len(s)
<1>1. n \in Nat
  OBVIOUS
<1>2. PICK u : /\ u[0] = <<>>
               /\ \A i \in 1 .. n : u[i] = PieceTurn(s, K, i, u[i - 1])
               /\ Pieces(s, K) = u[n]
  BY <1>1, PiecesRun
<1> DEFINE T == {i \in 0 .. n : u[i] \in Seq(Seq(Char)) /\ \E at : PieceCut(u[i], s, i, at)}
<1>3. 0 \in T
  BY <1>1, <1>2, NoPieces
<1>4. ASSUME NEW i \in 1 .. n, i - 1 \in T PROVE i \in T
  <2>1. u[i - 1] \in Seq(Seq(Char))
    BY <1>4
  <2>2. PICK at : PieceCut(u[i - 1], s, i - 1, at)
    BY <1>4
  <2>3. /\ PieceTurn(s, K, i, u[i - 1]) \in Seq(Seq(Char))
        /\ \E cut : PieceCut(PieceTurn(s, K, i, u[i - 1]), s, i, cut)
    BY <2>1, <2>2, NextPiece
  <2>4. i \in 0 .. n /\ u[i] = PieceTurn(s, K, i, u[i - 1])
    BY <1>1, <1>2
  <2> QED
    BY <2>3, <2>4
<1>5. n \in T
  <2> HIDE DEF T
  <2>1. 0 .. n \subseteq T
    BY <1>1, <1>3, <1>4, Upwards
  <2> QED
    BY <1>1, <2>1
<1> QED
  BY <1>2, <1>5

(* The places of a cut rise. *)
LEMMA CutsRise ==
  ASSUME NEW p, Len(p) \in Nat, NEW s, NEW end \in Nat, NEW at, PieceCut(p, s, end, at),
         NEW k \in 0 .. Len(p), NEW j \in 0 .. k
  PROVE  at[j] <= at[k] /\ (j < k => at[j] < at[k])
<1> DEFINE m == Len(p)
           T == {i \in 0 .. m : \A h \in 0 .. i : at[h] <= at[i] /\ (h < i => at[h] < at[i])}
<1>1. at \in [0 .. m -> 0 .. end] /\ \A i \in 1 .. m : at[i - 1] < at[i]
  BY DEF PieceCut
<1> HIDE DEF m
<1>2. m \in Nat
  BY DEF m
<1>3. \A i \in 0 .. m : at[i] \in Nat
  BY <1>1
<1>4. 0 \in T
  BY <1>2, <1>3
<1>5. ASSUME NEW i \in 1 .. m, i - 1 \in T PROVE i \in T
  <2>1. i \in 0 .. m /\ i - 1 \in 0 .. m
    BY <1>2
  <2> DEFINE now == at[i]  before == at[i - 1]
  <2>2. now \in Nat /\ before \in Nat /\ before < now
    BY <1>1, <1>3, <2>1
  <2>3. ASSUME NEW h \in 0 .. i PROVE at[h] <= now /\ (h < i => at[h] < now)
    <3>1. CASE h = i
      BY <2>2, <3>1
    <3>2. CASE h # i
      <4> DEFINE there == at[h]
      <4>1. h \in 0 .. i - 1 /\ h \in 0 .. m
        BY <1>2, <3>2
      <4>2. there \in Nat /\ there <= before
        BY <1>3, <1>5, <4>1
      <4> HIDE DEF now, before, there
      <4>3. there < now
        BY <2>2, <4>2
      <4> QED
        BY <2>2, <4>2, <4>3 DEF there
    <3> QED
      BY <3>1, <3>2
  <2> QED
    BY <2>1, <2>3
<1>6. k \in T
  <2> HIDE DEF T
  <2>1. 0 .. m \subseteq T
    BY <1>2, <1>4, <1>5, Upwards
  <2> QED
    BY <2>1 DEF m
<1> QED
  BY <1>6

LEMMA OneOf ==
  ASSUME NEW S, NEW s \in Seq(S), NEW i \in 1 .. Len(s)
  PROVE  SubSeq(s, i, i) = <<s[i]>>
<1>1. SubSeq(s, i, i) = <<s[i]>> \o SubSeq(s, i + 1, i)
  <2>1. i \in i .. Len(s)
    OBVIOUS
  <2> QED
    BY <2>1, SubSeqRecursiveFirst
<1>2. SubSeq(s, i + 1, i) = <<>>
  BY SubSeqEmpty
<1>3. <<s[i]>> \o <<>> = <<s[i]>>
  <2>1. <<s[i]>> \in Seq(S)
    OBVIOUS
  <2> QED
    BY <2>1, ConcatEmptySeq
<1> QED
  BY Zenon, <1>1, <1>2, <1>3

Behind(q, a) == q \o <<a>>

Grown(was, c) == [was EXCEPT ![Len(was)] = @ \o <<c>>]

LEMMA LastGrows ==
  ASSUME NEW Char, NEW q \in Seq(Seq(Char)), NEW a \in Seq(Char), NEW c \in Char
  PROVE  Grown(Behind(q, a), c) = Behind(q, Behind(a, c))
<1> DEFINE was == q \o <<a>>  one == <<a>>  b == a \o <<c>>  next == <<b>>  m == Len(q) + 1
           now == [was EXCEPT ![m] = b]
<1>1. /\ one \in Seq(Seq(Char)) /\ Len(one) = 1 /\ one[1] = a
      /\ b \in Seq(Char)
  OBVIOUS
<1>2. next \in Seq(Seq(Char)) /\ Len(next) = 1 /\ next[1] = b
  <2> HIDE DEF b
  <2> QED
    BY <1>1
<1>3. Len(q) \in Nat /\ m \in Nat
  OBVIOUS
<1> HIDE DEF was, one, b, next
<1>4. /\ was \in Seq(Seq(Char)) /\ Len(was) = m /\ was[m] = a
      /\ \A i \in 1 .. m - 1 : was[i] = q[i]
  <2>1. was = q \o one
    BY DEF was, one
  <2>3. one \in Seq(Seq(Char)) /\ Len(one) = 1 /\ one[1] = a
    BY <1>1
  <2>2. /\ q \o one \in Seq(Seq(Char)) /\ Len(q \o one) = Len(q) + Len(one)
        /\ \A i \in 1 .. Len(q) + Len(one) :
             (q \o one)[i] = IF i <= Len(q) THEN q[i] ELSE one[i - Len(q)]
    BY <1>1, ConcatProperties
  <2> QED
    BY <1>1, <1>3, <2>1, <2>2
<1>5. Grown(was, c) = now
  BY <1>4 DEF b, Grown
<1>6. now \in Seq(Seq(Char)) /\ Len(now) = m /\ now[m] = b /\ \A i \in 1 .. m - 1 : now[i] = q[i]
  <2> HIDE DEF m
  <2>1. m \in 1 .. Len(was)
    BY <1>3, <1>4 DEF m
  <2>2. was \in Seq(Seq(Char)) /\ b \in Seq(Char)
    BY <1>1, <1>4
  <2>3. now \in Seq(Seq(Char))
    BY <2>1, <2>2
  <2>4. Len(now) = Len(was) /\ \A i \in 1 .. Len(was) : now[i] = IF i = m THEN b ELSE was[i]
    <3>1. DOMAIN was = 1 .. Len(was) /\ Len(was) \in Nat
      BY <2>2
    <3>2. DOMAIN now = 1 .. Len(was)
      BY <3>1
    <3>3. DOMAIN now = 1 .. Len(now) /\ Len(now) \in Nat
      <4> HIDE DEF now
      <4> QED
        BY <2>3
    <3>4. Len(now) = Len(was)
      <4> HIDE DEF now
      <4> QED
        BY <3>1, <3>2, <3>3
    <3>5. \A i \in 1 .. Len(was) : now[i] = IF i = m THEN b ELSE was[i]
      BY <3>1
    <3> QED
      BY <3>4, <3>5
  <2>5. \A i \in 1 .. m - 1 : i # m /\ i \in 1 .. m
    BY <1>3
  <2> HIDE DEF now
  <2> QED
    BY <1>4, <2>1, <2>3, <2>4, <2>5
<1> HIDE DEF now
<1>7. q \o next \in Seq(Seq(Char)) /\ Len(q \o next) = Len(q) + Len(next)
      /\ \A i \in 1 .. Len(q) + Len(next) :
           (q \o next)[i] = IF i <= Len(q) THEN q[i] ELSE next[i - Len(q)]
  BY <1>2, ConcatProperties
<1>8. Len(now) = Len(q \o next) /\ \A i \in 1 .. Len(now) : now[i] = (q \o next)[i]
  BY <1>2, <1>3, <1>6, <1>7
<1>9. now = q \o next
  BY <1>6, <1>7, <1>8, SeqEqual
<1> QED
  BY <1>5, <1>9 DEF was, next, b, Behind

(* A string that is cut into pieces is cut behind some of its places.      *)
LEMMA CutsArePieces ==
  ASSUME NEW Char, NEW s \in Seq(Char), NEW p \in Seq(Seq(Char)),
         NEW at, PieceCut(p, s, Len(s), at)
  PROVE  \E K \in SUBSET (1 .. Len(s) - 1) : Pieces(s, K) = p
<1> DEFINE n == Len(s)  m == Len(p)
           K == {at[k] : k \in 1 .. m - 1}
           part(k, i) == SubSeq(p, 1, k - 1) \o <<SubSeq(s, at[k - 1] + 1, i)>>
<1>1. n \in Nat /\ m \in Nat
  OBVIOUS
<1>2. /\ at \in [0 .. m -> 0 .. n] /\ at[0] = 0 /\ at[m] = n
      /\ \A k \in 1 .. m : at[k - 1] < at[k] /\ p[k] = SubSeq(s, at[k - 1] + 1, at[k])
  BY DEF PieceCut
<1>3. \A k \in 0 .. m : \A j \in 0 .. k : at[j] <= at[k] /\ (j < k => at[j] < at[k])
  BY <1>1, CutsRise
<1>10. ASSUME NEW k \in 0 .. m PROVE at[k] \in 0 .. n /\ at[k] \in Nat
  <2>1. at[k] \in 0 .. n
    BY <1>2
  <2> HIDE DEF n, m
  <2> QED
    BY <1>1, <2>1
<1>4. PICK u : /\ u[0] = <<>>
               /\ \A i \in 1 .. n : u[i] = PieceTurn(s, K, i, u[i - 1])
               /\ Pieces(s, K) = u[n]
  <2> HIDE DEF K
  <2> QED
    BY <1>1, PiecesRun
<1> DEFINE T == {i \in 0 .. n : \A k \in 1 .. m : at[k - 1] < i /\ i <= at[k] => u[i] = part(k, i)}
<1>5. 0 \in T
  <2>1. \A k \in 1 .. m : at[k - 1] \in Nat
    <3>1. \A k \in 1 .. m : k - 1 \in 0 .. m
      BY <1>1
    <3> QED
      BY <1>10, <3>1
  <2> HIDE DEF part
  <2>2. \A k \in 1 .. m : ~(at[k - 1] < 0)
    BY <2>1
  <2>3. 0 \in 0 .. n
    BY <1>1
  <2> QED
    BY <2>2, <2>3
<1>6. ASSUME NEW i \in 1 .. n, i - 1 \in T PROVE i \in T
  <2> SUFFICES ASSUME NEW k \in 1 .. m, at[k - 1] < i, i <= at[k]
               PROVE  u[i] = part(k, i)
    <3>1. i \in 0 .. n
      BY <1>1
    <3> HIDE DEF part
    <3> QED
      BY <3>1
  <2> DEFINE low == at[k - 1]  c == s[i]
  <2>1. /\ i \in Nat /\ k \in Nat /\ i - 1 \in Nat /\ k - 1 \in 0 .. m /\ k \in 0 .. m
        /\ c \in Char /\ i <= n /\ i >= 1
    BY <1>1
  <2>2. low \in 0 .. n /\ low \in Nat /\ low < i
    BY <1>10, <2>1
  <2>3. u[i] = PieceTurn(s, K, i, u[i - 1])
    BY <1>4
  <2>4. CASE low = i - 1
    <3>1. SubSeq(s, low + 1, i) = <<c>>
      <4>1. low + 1 = i
        BY <2>1, <2>4
      <4>2. SubSeq(s, i, i) = <<s[i]>>
        BY OneOf
      <4> HIDE DEF low
      <4> QED
        BY <4>1, <4>2
    <3>2. CASE k = 1
      <4>1. i = 1 /\ u[i - 1] = <<>>
        <5>1. low = 0
          BY <1>2, <3>2
        <5>2. i = 1
          BY <2>1, <2>4, <5>1
        <5> QED
          BY <1>4, <5>2
      <4>2. SubSeq(p, 1, k - 1) = <<>>
        BY <3>2, SubSeqEmpty
      <4>3. u[i] = <<>> \o <<<<c>>>>
        BY <2>3, <4>1 DEF PieceTurn
      <4> HIDE DEF c, low
      <4> QED
        BY <3>1, <4>2, <4>3 DEF low
    <3>3. CASE k # 1
      <4>1. k - 1 \in 1 .. m /\ k - 1 \in 1 .. m - 1 /\ (k - 1) - 1 \in 0 .. m
        BY <1>1, <3>3
      <4>2. i - 1 \in K
        BY <2>4, <4>1
      <4>3. at[(k - 1) - 1] < i - 1 /\ i - 1 <= at[k - 1]
        <5>1. at[(k - 1) - 1] < low
          BY <1>2, <4>1
        <5>2. low <= low
          BY <2>2
        <5> HIDE DEF low
        <5>3. low <= i - 1 /\ at[(k - 1) - 1] < i - 1
          BY <2>4, <5>1, <5>2
        <5> QED
          BY <2>4, <5>2, <5>3 DEF low
      <4>4. u[i - 1] = part(k - 1, i - 1)
        <5> HIDE DEF part
        <5> QED
          BY <1>6, <4>1, <4>3
      <4>5. SubSeq(s, at[(k - 1) - 1] + 1, i - 1) = p[k - 1]
        BY <1>2, <2>4, <4>1
      <4>6. u[i - 1] = SubSeq(p, 1, k - 1)
        <5>1. SubSeq(p, 1, k - 1) = SubSeq(p, 1, (k - 1) - 1) \o <<p[k - 1]>>
          <6>1. k - 1 \in 1 .. Len(p)
            BY <4>1
          <6> QED
            BY <6>1, SubSeqRecursiveSecond
        <5> QED
          BY Zenon, <4>4, <4>5, <5>1
      <4>7. u[i] = u[i - 1] \o <<<<c>>>>
        <5> HIDE DEF K
        <5> QED
          BY <2>3, <4>2 DEF PieceTurn
      <4> QED
        BY Zenon, <3>1, <4>6, <4>7
    <3> QED
      BY <3>2, <3>3
  <2>5. CASE low # i - 1
    <3>1. low < i - 1 /\ i - 1 <= at[k]
      <4> DEFINE high == at[k]
      <4>1. high \in Nat /\ i <= high
        BY <1>10, <2>1
      <4> HIDE DEF low, high
      <4>2. low < i - 1 /\ i - 1 <= high
        BY <2>1, <2>2, <2>5, <4>1
      <4> QED
        BY <4>2 DEF high
    <3>2. u[i - 1] = part(k, i - 1)
      <4> HIDE DEF part
      <4> QED
        BY <1>6, <3>1
    <3>3. i - 1 \notin K
      <4> SUFFICES ASSUME NEW j \in 1 .. m - 1, at[j] = i - 1 PROVE FALSE
        OBVIOUS
      <4>1. j \in 0 .. m /\ j \in Nat
        BY <1>1
      <4>2. CASE j <= k - 1
        <5>1. j \in 0 .. k - 1
          BY <2>1, <4>1, <4>2
        <5>2. i - 1 <= low
          BY <1>3, <2>1, <5>1
        <5> HIDE DEF low
        <5> QED
          BY <2>1, <2>2, <3>1, <5>2
      <4>3. CASE ~(j <= k - 1)
        <5>1. k \in 0 .. j
          BY <2>1, <4>1, <4>3
        <5> DEFINE high == at[k]
        <5>2. high <= i - 1 /\ high \in Nat /\ i <= high
          BY <1>3, <1>10, <2>1, <4>1, <5>1
        <5> HIDE DEF high
        <5> QED
          BY <2>1, <5>2
      <4> QED
        BY <4>2, <4>3
    <3>4. i # 1
      BY <2>1, <2>2, <3>1
    <3> DEFINE q == SubSeq(p, 1, k - 1)  a == SubSeq(s, low + 1, i - 1)
    <3>5. u[i - 1] = q \o <<a>>
      BY Zenon, <3>2
    <3>6. q \in Seq(Seq(Char)) /\ a \in Seq(Char)
      <4>1. \A j \in low + 1 .. i - 1 : j \in 1 .. n
        <5> HIDE DEF low
        <5> QED
          BY <1>1, <2>1, <2>2
      <4>2. a \in Seq(Char)
        <5>1. \A j \in low + 1 .. i - 1 : s[j] \in Char
          BY <4>1
        <5>2. low + 1 \in Nat /\ i - 1 \in Nat
          BY <2>1, <2>2
        <5> QED
          BY <5>1, <5>2, SubSeqProperties
      <4>3. q \in Seq(Seq(Char))
        <5>1. \A j \in 1 .. k - 1 : j \in 1 .. m
          BY <1>1, <2>1
        <5> QED
          BY <2>1, <5>1, SubSeqProperties
      <4> QED
        BY <4>2, <4>3
    <3>7. u[i] = Grown(u[i - 1], c)
      <4> HIDE DEF K
      <4> QED
        BY <2>3, <3>3, <3>4 DEF PieceTurn, Grown
    <3>8. SubSeq(s, low + 1, i) = a \o <<c>>
      <4>1. low + 1 \in 1 .. n /\ i \in low + 1 .. n
        <5> HIDE DEF low
        <5> QED
          BY <2>1, <2>2
      <4> QED
        BY <4>1, SubSeqRecursiveSecond
    <3> HIDE DEF q, a, c, low
    <3>9. u[i] = q \o <<a \o <<c>>>>
      <4>1. c \in Char
        BY <2>1
      <4>2. Grown(q \o <<a>>, c) = q \o <<a \o <<c>>>>
        <5>1. Grown(Behind(q, a), c) = Behind(q, Behind(a, c))
          BY <3>6, <4>1, LastGrows
        <5> QED
          BY Zenon, <5>1 DEF Behind
      <4> QED
        BY Zenon, <3>5, <3>7, <4>2
    <3> QED
      BY Zenon, <3>8, <3>9 DEF q, low
  <2> QED
    BY <2>4, <2>5
<1>7. n \in T
  <2> HIDE DEF T
  <2>1. 0 .. n \subseteq T
    BY <1>1, <1>5, <1>6, Upwards
  <2> QED
    BY <1>1, <2>1
<1>8. u[n] = p
  <2>1. CASE m = 0
    <3>1. n = 0 /\ p = <<>>
      BY <1>2, <2>1
    <3> QED
      BY <1>4, <3>1
  <2>2. CASE m # 0
    <3>1. m \in 1 .. m /\ m - 1 \in 0 .. m
      BY <1>1, <2>2
    <3>2. at[m - 1] < n /\ n <= at[m]
      BY <1>1, <1>2, <3>1
    <3>3. u[n] = part(m, n)
      <4> HIDE DEF part
      <4> QED
        BY <1>7, <3>1, <3>2
    <3>4. SubSeq(s, at[m - 1] + 1, n) = p[m]
      BY <1>2, <3>1
    <3>5. SubSeq(p, 1, m) = SubSeq(p, 1, m - 1) \o <<p[m]>>
      <4>1. 1 \in 1 .. Len(p) /\ m \in 1 .. Len(p)
        BY <1>1, <3>1
      <4> QED
        BY <4>1, SubSeqRecursiveSecond
    <3>6. SubSeq(p, 1, m) = p
      BY SubSeqFull
    <3> QED
      BY Zenon, <3>3, <3>4, <3>5, <3>6
  <2> QED
    BY <2>1, <2>2
<1>9. K \in SUBSET (1 .. n - 1)
  <2> SUFFICES ASSUME NEW k \in 1 .. m - 1 PROVE at[k] \in 1 .. n - 1
    OBVIOUS
  <2>1. k \in 0 .. m /\ m \in 0 .. m /\ 0 \in 0 .. k /\ k \in 0 .. m /\ k < m /\ 0 < k
    BY <1>1
  <2> DEFINE place == at[k]
  <2>2. 0 < place /\ place < n /\ place \in Nat
    BY <1>2, <1>3, <1>10, <2>1
  <2> HIDE DEF place
  <2>3. place \in 1 .. n - 1
    BY <1>1, <2>2
  <2> QED
    BY <2>3 DEF place
<1> HIDE DEF K
<1> QED
  BY <1>4, <1>8, <1>9

------------------------------------------------------------------------------
Wrapped(n) == <<Opening>> \o n \o <<Closing>>

LEMMA WrappedIs ==
  ASSUME NEW S, Opening \in S, Closing \in S, NEW n \in Seq(S)
  PROVE  /\ Wrapped(n) \in Seq(S) /\ Len(Wrapped(n)) = Len(n) + 2
         /\ Wrapped(n)[1] = Opening /\ Wrapped(n)[Len(n) + 2] = Closing
         /\ \A i \in 1 .. Len(n) : Wrapped(n)[i + 1] = n[i]
<1> DEFINE a == <<Opening>>  b == <<Closing>>  front == a \o n
<1>1. /\ a \in Seq(S) /\ Len(a) = 1 /\ a[1] = Opening
      /\ b \in Seq(S) /\ Len(b) = 1 /\ b[1] = Closing /\ Len(n) \in Nat
  OBVIOUS
<1>2. Wrapped(n) = front \o b
  BY Zenon DEF Wrapped
<1> HIDE DEF a, b
<1>3. /\ front \in Seq(S) /\ Len(front) = Len(a) + Len(n)
      /\ \A i \in 1 .. Len(a) + Len(n) : front[i] = IF i <= Len(a) THEN a[i] ELSE n[i - Len(a)]
  BY <1>1, ConcatProperties
<1> HIDE DEF front
<1>4. /\ front \o b \in Seq(S) /\ Len(front \o b) = Len(front) + Len(b)
      /\ \A i \in 1 .. Len(front) + Len(b) :
           (front \o b)[i] = IF i <= Len(front) THEN front[i] ELSE b[i - Len(front)]
  <2>1. front \in Seq(S) /\ b \in Seq(S)
    BY <1>1, <1>3
  <2> QED
    BY <2>1, ConcatProperties
<1> DEFINE w == Wrapped(n)
<1>5. /\ w \in Seq(S) /\ Len(w) = Len(n) + 2
      /\ \A i \in 1 .. Len(n) + 2 :
           w[i] = IF i <= Len(n) + 1 THEN front[i] ELSE b[i - (Len(n) + 1)]
  BY <1>1, <1>2, <1>3, <1>4
<1>6. \A i \in 1 .. Len(n) + 1 : front[i] = IF i <= 1 THEN a[i] ELSE n[i - 1]
  BY <1>1, <1>3
<1> HIDE DEF w
<1>7. w[1] = Opening
  <2>1. 1 \in 1 .. Len(n) + 2 /\ 1 \in 1 .. Len(n) + 1 /\ 1 <= Len(n) + 1
    BY <1>1
  <2> QED
    BY <1>1, <1>5, <1>6, <2>1
<1>8. w[Len(n) + 2] = Closing
  <2>1. /\ Len(n) + 2 \in 1 .. Len(n) + 2 /\ ~(Len(n) + 2 <= Len(n) + 1)
        /\ (Len(n) + 2) - (Len(n) + 1) = 1
    BY <1>1
  <2> QED
    BY <1>1, <1>5, <2>1
<1>9. ASSUME NEW i \in 1 .. Len(n) PROVE w[i + 1] = n[i]
  <2>1. /\ i + 1 \in 1 .. Len(n) + 2 /\ i + 1 \in 1 .. Len(n) + 1 /\ i + 1 <= Len(n) + 1
        /\ ~(i + 1 <= 1) /\ (i + 1) - 1 = i
    BY <1>1
  <2> QED
    BY <1>5, <1>6, <2>1
<1> QED
  BY <1>5, <1>7, <1>8, <1>9 DEF w

(* What a segment may be read from. *)
PieceOf(seg, piece) ==
  IF seg.wildcard THEN piece = Wrapped(seg.s) /\ seg.s # <<>> /\ Free(seg.s, Closing)
  ELSE piece = seg.s /\ Free(seg.s, Opening)

LEMMA SegmentIsPiece ==
  ASSUME NEW Char, NEW s \in Seq(Char), NEW seg \in SegmentsOf(Char),
         NEW high \in 1 .. Len(s), NEW low \in 0 .. high - 1
  PROVE  SegmentAt(seg, s, low, high) <=> PieceOf(seg, SubSeq(s, low + 1, high))
<1> DEFINE piece == SubSeq(s, low + 1, high)  n == seg.s
           S == Char \cup {Opening, Closing}
<1>1. /\ Len(s) \in Nat /\ low \in Nat /\ high \in Nat /\ low < high /\ high <= Len(s)
      /\ n \in Seq(Char) /\ seg.wildcard \in BOOLEAN /\ Len(n) \in Nat
  BY DEF SegmentsOf
<1>2. /\ piece \in Seq(Char) /\ Len(piece) = high - low
      /\ \A i \in 1 .. high - low : piece[i] = s[low + i]
  <2>1. \A i \in low + 1 .. high : s[i] \in Char
    BY <1>1
  <2>2. /\ SubSeq(s, low + 1, high) \in Seq(Char)
        /\ Len(SubSeq(s, low + 1, high)) = IF low + 1 <= high THEN high - (low + 1) + 1 ELSE 0
        /\ \A i \in 1 .. high - (low + 1) + 1 :
             SubSeq(s, low + 1, high)[i] = s[(low + 1) + i - 1]
    BY <1>1, <2>1, SubSeqProperties
  <2>3. high - (low + 1) + 1 = high - low /\ low + 1 <= high
    BY <1>1
  <2>4. \A i \in 1 .. high - low : (low + 1) + i - 1 = low + i
    BY <1>1
  <2> HIDE DEF piece
  <2> QED
    BY <2>2, <2>3, <2>4 DEF piece
<1>3. /\ Wrapped(n) \in Seq(S) /\ Len(Wrapped(n)) = Len(n) + 2
      /\ Wrapped(n)[1] = Opening /\ Wrapped(n)[Len(n) + 2] = Closing
      /\ \A i \in 1 .. Len(n) : Wrapped(n)[i + 1] = n[i]
  <2>1. Opening \in S /\ Closing \in S /\ n \in Seq(S)
    BY <1>1
  <2> HIDE DEF S, n
  <2> QED
    BY <2>1, WrappedIs
<1>4. piece \in Seq(S)
  BY <1>2
<1> HIDE DEF S, piece
<1> DEFINE Inside == SubSeq(s, low + 2, high - 1)
<1>5. low + 2 < high => /\ Inside \in Seq(Char) /\ Len(Inside) = high - low - 2
                        /\ \A i \in 1 .. high - low - 2 : Inside[i] = s[low + 1 + i]
  <2> SUFFICES ASSUME low + 2 < high
               PROVE  /\ Inside \in Seq(Char) /\ Len(Inside) = high - low - 2
                      /\ \A i \in 1 .. high - low - 2 : Inside[i] = s[low + 1 + i]
    OBVIOUS
  <2>1. \A i \in low + 2 .. high - 1 : s[i] \in Char
    BY <1>1
  <2>2. /\ SubSeq(s, low + 2, high - 1) \in Seq(Char)
        /\ Len(SubSeq(s, low + 2, high - 1)) =
             IF low + 2 <= high - 1 THEN (high - 1) - (low + 2) + 1 ELSE 0
        /\ \A i \in 1 .. (high - 1) - (low + 2) + 1 :
             SubSeq(s, low + 2, high - 1)[i] = s[(low + 2) + i - 1]
    BY <1>1, <2>1, SubSeqProperties
  <2>3. (high - 1) - (low + 2) + 1 = high - low - 2 /\ low + 2 <= high - 1
    BY <1>1
  <2>4. \A i \in 1 .. high - low - 2 : (low + 2) + i - 1 = low + 1 + i
    BY <1>1
  <2> HIDE DEF Inside
  <2> QED
    BY <2>2, <2>3, <2>4 DEF Inside
<1> HIDE DEF Inside
<1>6. CASE seg.wildcard
  <2>1. ASSUME SegmentAt(seg, s, low, high) PROVE PieceOf(seg, piece)
    <3>1. /\ low + 2 < high /\ s[low + 1] = Opening /\ s[high] = Closing
          /\ n = Inside /\ \A m \in low + 2 .. high - 1 : s[m] # Closing
      BY <1>6, <2>1 DEF SegmentAt, Inside
    <3> HIDE DEF n
    <3>2. Len(n) = high - low - 2 /\ \A i \in 1 .. high - low - 2 : n[i] = s[low + 1 + i]
      BY <1>5, <3>1
    <3>3. Len(piece) = Len(Wrapped(n))
      BY <1>1, <1>2, <1>3, <3>2
    <3>4. ASSUME NEW i \in 1 .. Len(piece) PROVE piece[i] = Wrapped(n)[i]
      <4>1. i \in 1 .. high - low
        BY <1>2
      <4>2. piece[i] = s[low + i]
        BY <1>2, <4>1
      <4>3. CASE i = 1
        BY <1>3, <3>1, <4>2, <4>3
      <4>4. CASE i = high - low
        <5>1. low + i = high /\ i = Len(n) + 2
          BY <1>1, <3>2, <4>4
        <5> QED
          BY <1>3, <3>1, <4>2, <5>1
      <4>5. CASE i # 1 /\ i # high - low
        <5> DEFINE j == i - 1
        <5>1. j \in 1 .. high - low - 2 /\ i = j + 1 /\ low + i = low + 1 + j
          BY <1>1, <4>1, <4>5
        <5> HIDE DEF j
        <5>2. n[j] = s[low + i] /\ Wrapped(n)[i] = n[j]
          BY <1>3, <3>2, <5>1
        <5> QED
          BY <4>2, <5>2
      <4> QED
        BY <4>3, <4>4, <4>5
    <3>5. piece = Wrapped(n)
      BY <1>3, <1>4, <3>3, <3>4, SeqEqual
    <3>6. n # <<>>
      BY <1>1, <3>1, <3>2
    <3>7. ASSUME NEW i \in DOMAIN n PROVE n[i] # Closing
      <4>1. i \in 1 .. high - low - 2
        BY <1>1, <3>2
      <4>2. low + 1 + i \in low + 2 .. high - 1
        BY <1>1, <4>1
      <4> QED
        BY <3>1, <3>2, <4>1, <4>2
    <3> QED
      BY <1>6, <3>5, <3>6, <3>7 DEF PieceOf, Free, n
  <2>2. ASSUME PieceOf(seg, piece) PROVE SegmentAt(seg, s, low, high)
    <3>1. piece = Wrapped(n) /\ n # <<>> /\ Free(n, Closing)
      BY <1>6, <2>2 DEF PieceOf
    <3> HIDE DEF n
    <3>2. Len(n) > 0
      BY <1>1, <3>1
    <3>3. low + 2 < high /\ Len(n) = high - low - 2
      BY <1>1, <1>2, <1>3, <3>1, <3>2
    <3>4. s[low + 1] = Opening
      <4>1. 1 \in 1 .. high - low
        BY <1>1
      <4> QED
        BY <1>2, <1>3, <3>1, <4>1
    <3>5. s[high] = Closing
      <4> DEFINE i == high - low
      <4>1. i \in 1 .. high - low /\ low + i = high /\ i = Len(n) + 2
        BY <1>1, <3>3
      <4> HIDE DEF i
      <4> QED
        BY <1>2, <1>3, <3>1, <4>1
    <3>6. ASSUME NEW i \in 1 .. high - low - 2 PROVE n[i] = s[low + 1 + i]
      <4> DEFINE j == i + 1
      <4>1. j \in 1 .. high - low /\ low + j = low + 1 + i /\ i \in 1 .. Len(n)
        BY <1>1, <3>3
      <4> HIDE DEF j
      <4>2. piece[j] = s[low + 1 + i]
        BY <1>2, <4>1
      <4> QED
        BY <1>3, <3>1, <4>1, <4>2 DEF j
    <3>7. n = Inside
      <4>1. Len(n) = Len(Inside) /\ \A i \in 1 .. Len(n) : n[i] = Inside[i]
        BY <1>5, <3>3, <3>6
      <4> QED
        BY <1>1, <1>5, <3>3, <4>1, SeqEqual
    <3>8. ASSUME NEW m \in low + 2 .. high - 1 PROVE s[m] # Closing
      <4> DEFINE i == m - low - 1
      <4>1. i \in 1 .. high - low - 2 /\ low + 1 + i = m /\ i \in DOMAIN n
        BY <1>1, <3>3
      <4> HIDE DEF i
      <4> QED
        BY <3>1, <3>6, <4>1 DEF Free
    <3> QED
      BY <1>6, <3>3, <3>4, <3>5, <3>7, <3>8 DEF SegmentAt, Inside, n
  <2> QED
    BY <2>1, <2>2 DEF piece
<1>7. CASE ~seg.wildcard
  <2>1. n = piece => (Free(n, Opening) <=> \A m \in low + 1 .. high : s[m] # Opening)
    <3> SUFFICES ASSUME n = piece
                 PROVE  Free(n, Opening) <=> \A m \in low + 1 .. high : s[m] # Opening
      OBVIOUS
    <3> HIDE DEF n
    <3>1. DOMAIN n = 1 .. high - low
      BY <1>1, <1>2
    <3>2. ASSUME Free(n, Opening), NEW m \in low + 1 .. high PROVE s[m] # Opening
      <4> DEFINE i == m - low
      <4>1. i \in 1 .. high - low /\ low + i = m
        BY <1>1
      <4> HIDE DEF i
      <4> QED
        BY <1>2, <3>1, <3>2, <4>1 DEF Free
    <3>3. ASSUME \A m \in low + 1 .. high : s[m] # Opening PROVE Free(n, Opening)
      <4>1. ASSUME NEW i \in 1 .. high - low PROVE n[i] # Opening
        <5>1. low + i \in low + 1 .. high
          BY <1>1
        <5> QED
          BY <1>2, <3>3, <5>1
      <4> QED
        BY <3>1, <4>1 DEF Free
    <3> QED
      BY <3>2, <3>3
  <2> QED
    BY <1>1, <1>7, <2>1 DEF SegmentAt, PieceOf, piece
<1> QED
  BY <1>1, <1>6, <1>7 DEF piece

------------------------------------------------------------------------------
SegsOf(p) ==
  [i \in DOMAIN p |-> IF p[i][1] = Opening THEN Wildcard(SubSeq(p[i], 2, Len(p[i]) - 1))
                      ELSE Literal(p[i])]

PiecesOf(segs) ==
  [i \in DOMAIN segs |-> IF segs[i].wildcard THEN Wrapped(segs[i].s) ELSE segs[i].s]

LEMMA ReadingIs ==
  ASSUME NEW segs, NEW p
  PROVE  IsReading(segs, p) <=>
           /\ Len(segs) = Len(p)
           /\ \A i \in DOMAIN segs :
                PieceOf(segs[i], p[i]) /\ (segs[i].wildcard \/ i = 1 \/ segs[i - 1].wildcard)
<1>1. IsReading(segs, p) =
        (/\ Len(segs) = Len(p)
         /\ \A i \in DOMAIN segs :
              IF segs[i].wildcard
                THEN p[i] = Wrapped(segs[i].s) /\ segs[i].s # <<>> /\ Free(segs[i].s, Closing)
                ELSE /\ p[i] = segs[i].s /\ Free(segs[i].s, Opening)
                     /\ (i = 1 \/ segs[i - 1].wildcard))
  BY Zenon DEF IsReading, Braced, Wrapped, Opening, Closing
<1> QED
  BY <1>1 DEF PieceOf

(* Segments are cut from a string where they are a reading of its pieces.  *)
LEMMA CutsAreReadings ==
  ASSUME NEW Char, NEW s \in Seq(Char), NEW segs \in Seq(SegmentsOf(Char)),
         NEW p \in Seq(Seq(Char)), Len(p) = Len(segs), NEW at, PieceCut(p, s, Len(s), at)
  PROVE  Cuts(segs, s, 0, at) <=> IsReading(segs, p)
<1> DEFINE m == Len(segs)
           Good(k) == segs[k].wildcard \/ k = 1 \/ segs[k - 1].wildcard
<1>1. /\ at \in [0 .. m -> 0 .. Len(s)] /\ at[0] = 0 /\ at[m] = Len(s)
      /\ \A k \in 1 .. m : at[k - 1] < at[k] /\ p[k] = SubSeq(s, at[k - 1] + 1, at[k])
  BY DEF PieceCut
<1>2. m \in Nat /\ Len(s) \in Nat /\ DOMAIN segs = 1 .. m
  OBVIOUS
<1>3. ASSUME NEW k \in 1 .. m
      PROVE  SegmentAt(segs[k], s, at[k - 1], at[k]) <=> PieceOf(segs[k], p[k])
  <2> DEFINE low == at[k - 1]  high == at[k]
  <2>1. k - 1 \in 0 .. m /\ k \in 0 .. m /\ segs[k] \in SegmentsOf(Char)
    BY <1>2
  <2>2. low \in 0 .. Len(s) /\ high \in 0 .. Len(s) /\ low < high /\ p[k] = SubSeq(s, low + 1, high)
    BY <1>1, <2>1
  <2> HIDE DEF low, high, m
  <2>3. high \in 1 .. Len(s) /\ low \in 0 .. high - 1
    BY <1>2, <2>2
  <2>4. SegmentAt(segs[k], s, low, high) <=> PieceOf(segs[k], SubSeq(s, low + 1, high))
    BY <2>1, <2>3, SegmentIsPiece
  <2> QED
    BY <2>2, <2>4 DEF low, high
<1>4. Cuts(segs, s, 0, at) <=>
        \A k \in 1 .. m : SegmentAt(segs[k], s, at[k - 1], at[k]) /\ Good(k)
  BY <1>1 DEF Cuts
<1>5. IsReading(segs, p) <=> \A k \in 1 .. m : PieceOf(segs[k], p[k]) /\ Good(k)
  BY <1>2, ReadingIs
<1> HIDE DEF m, Good
<1> QED
  BY <1>3, <1>4, <1>5

LEMMA CutsHavePieces ==
  ASSUME NEW Char, NEW s \in Seq(Char), NEW segs, Len(segs) \in Nat, NEW at, Cuts(segs, s, 0, at)
  PROVE  \E p \in Seq(Seq(Char)) : Len(p) = Len(segs) /\ PieceCut(p, s, Len(s), at)
<1> DEFINE m == Len(segs)
           p == [k \in 1 .. m |-> SubSeq(s, at[k - 1] + 1, at[k])]
<1>1. /\ at \in [0 .. m -> 0 .. Len(s)] /\ at[0] = 0 /\ at[m] = Len(s) /\ m \in Nat
      /\ \A k \in 1 .. m : at[k - 1] < at[k]
  BY DEF Cuts
<1>2. ASSUME NEW k \in 1 .. m PROVE SubSeq(s, at[k - 1] + 1, at[k]) \in Seq(Char)
  <2> DEFINE low == at[k - 1]  high == at[k]
  <2>1. k - 1 \in 0 .. m /\ k \in 0 .. m
    BY <1>1
  <2>2. low \in 0 .. Len(s) /\ high \in 0 .. Len(s) /\ Len(s) \in Nat
    BY <1>1, <2>1
  <2> HIDE DEF low, high
  <2>3. \A i \in low + 1 .. high : i \in 1 .. Len(s)
    BY <2>2
  <2>4. \A i \in low + 1 .. high : s[i] \in Char
    BY <2>3
  <2>5. low + 1 \in Int /\ high \in Int
    BY <2>2
  <2>6. SubSeq(s, low + 1, high) \in Seq(Char)
    BY <2>4, <2>5, SubSeqProperties
  <2> QED
    BY <2>6 DEF low, high
<1> HIDE DEF m
<1>3. p \in Seq(Seq(Char)) /\ Len(p) = m /\ \A k \in 1 .. m : p[k] = SubSeq(s, at[k - 1] + 1, at[k])
  <2>1. p \in [1 .. m -> Seq(Char)]
    BY <1>2
  <2>2. p \in Seq(Seq(Char))
    BY <1>1, <2>1
  <2>3. DOMAIN p = 1 .. m
    OBVIOUS
  <2>4. Len(p) = m
    <3> HIDE DEF p
    <3>1. Len(p) \in Nat /\ 1 .. Len(p) = 1 .. m
      BY <2>2, <2>3
    <3> QED
      BY <1>1, <3>1
  <2> QED
    BY <2>2, <2>4
<1> HIDE DEF p
<1>4. PieceCut(p, s, Len(s), at)
  BY <1>1, <1>3 DEF PieceCut
<1> QED
  BY <1>3, <1>4 DEF m

(* A reading is put together from its segments. *)
LEMMA ReadingHasPieces ==
  ASSUME NEW S, NEW T, NEW segs \in Seq(S), NEW p \in Seq(T), IsReading(segs, p)
  PROVE  p = PiecesOf(segs)
<1>1. /\ Len(segs) = Len(p) /\ DOMAIN segs = 1 .. Len(segs) /\ DOMAIN p = 1 .. Len(p)
      /\ \A i \in DOMAIN segs : PieceOf(segs[i], p[i])
  BY ReadingIs
<1>2. \A i \in DOMAIN segs : p[i] = IF segs[i].wildcard THEN Wrapped(segs[i].s) ELSE segs[i].s
  BY <1>1 DEF PieceOf
<1>3. p = [i \in DOMAIN p |-> p[i]]
  OBVIOUS
<1> QED
  BY <1>1, <1>2, <1>3 DEF PiecesOf

(* There is one segment, at most, to read a piece as. *)
LEMMA PieceHasSegment ==
  ASSUME NEW Char, NEW seg \in SegmentsOf(Char), NEW piece \in Seq(Char), piece # <<>>,
         PieceOf(seg, piece)
  PROVE  seg = IF piece[1] = Opening THEN Wildcard(SubSeq(piece, 2, Len(piece) - 1))
               ELSE Literal(piece)
<1> DEFINE n == seg.s  S == Char \cup {Opening, Closing}
<1>1. /\ seg = [s |-> n, wildcard |-> seg.wildcard] /\ n \in Seq(Char) /\ seg.wildcard \in BOOLEAN
      /\ Len(n) \in Nat /\ Len(piece) \in Nat /\ Len(piece) > 0
  BY DEF SegmentsOf
<1>2. CASE seg.wildcard
  <2>1. piece = Wrapped(n)
    BY <1>2 DEF PieceOf
  <2>2. /\ Len(Wrapped(n)) = Len(n) + 2 /\ Wrapped(n)[1] = Opening
        /\ \A i \in 1 .. Len(n) : Wrapped(n)[i + 1] = n[i]
    <3>1. Opening \in S /\ Closing \in S /\ n \in Seq(S)
      BY <1>1
    <3> HIDE DEF S, n
    <3> QED
      BY <3>1, WrappedIs
  <2> DEFINE Inside == SubSeq(piece, 2, Len(piece) - 1)
  <2> HIDE DEF n
  <2>3. /\ Inside \in Seq(Char) /\ Len(Inside) = Len(n)
        /\ \A i \in 1 .. Len(n) : Inside[i] = piece[i + 1]
    <3>1. \A i \in 2 .. Len(piece) - 1 : piece[i] \in Char
      BY <1>1
    <3>2. /\ SubSeq(piece, 2, Len(piece) - 1) \in Seq(Char)
          /\ Len(SubSeq(piece, 2, Len(piece) - 1)) =
               IF 2 <= Len(piece) - 1 THEN Len(piece) - 1 - 2 + 1 ELSE 0
          /\ \A i \in 1 .. Len(piece) - 1 - 2 + 1 :
               SubSeq(piece, 2, Len(piece) - 1)[i] = piece[2 + i - 1]
      BY <1>1, <3>1, SubSeqProperties
    <3>3. /\ Len(n) = Len(piece) - 1 - 2 + 1
          /\ Len(n) = IF 2 <= Len(piece) - 1 THEN Len(piece) - 1 - 2 + 1 ELSE 0
          /\ \A i \in 1 .. Len(n) : 2 + i - 1 = i + 1
      BY <1>1, <2>1, <2>2
    <3> HIDE DEF Inside
    <3> QED
      BY <3>2, <3>3 DEF Inside
  <2> HIDE DEF Inside
  <2>4. Inside = n
    <3>1. Len(Inside) = Len(n) /\ \A i \in 1 .. Len(Inside) : Inside[i] = n[i]
      BY <2>1, <2>2, <2>3
    <3> QED
      BY <1>1, <2>3, <3>1, SeqEqual
  <2> QED
    BY <1>1, <1>2, <2>1, <2>2, <2>4 DEF Wildcard, Inside
<1>3. CASE ~seg.wildcard
  <2>1. piece = n /\ Free(n, Opening)
    BY <1>3 DEF PieceOf
  <2>2. 1 \in DOMAIN piece
    BY <1>1
  <2>3. piece[1] # Opening
    BY <2>1, <2>2 DEF Free
  <2> QED
    BY <1>1, <1>3, <2>1, <2>3 DEF Literal
<1> QED
  BY <1>1, <1>2, <1>3

LEMMA ReadingHasSegments ==
  ASSUME NEW Char, NEW segs \in Seq(SegmentsOf(Char)), NEW p \in Seq(Seq(Char)),
         \A i \in 1 .. Len(p) : p[i] # <<>>, IsReading(segs, p)
  PROVE  SegsOf(p) = segs
<1>1. /\ Len(segs) = Len(p) /\ DOMAIN segs = 1 .. Len(segs) /\ DOMAIN p = 1 .. Len(p)
      /\ \A i \in DOMAIN segs : PieceOf(segs[i], p[i])
  BY ReadingIs
<1>2. ASSUME NEW i \in DOMAIN segs
      PROVE  segs[i] = IF p[i][1] = Opening THEN Wildcard(SubSeq(p[i], 2, Len(p[i]) - 1))
                       ELSE Literal(p[i])
  <2>1. segs[i] \in SegmentsOf(Char) /\ p[i] \in Seq(Char) /\ p[i] # <<>> /\ PieceOf(segs[i], p[i])
    BY <1>1
  <2> QED
    BY <2>1, PieceHasSegment
<1>3. segs = [i \in DOMAIN segs |-> segs[i]]
  OBVIOUS
<1> QED
  BY <1>1, <1>2, <1>3 DEF SegsOf

LEMMA CutPieces ==
  ASSUME NEW Char, NEW s \in Seq(Char), NEW p \in Seq(Seq(Char)),
         NEW at, PieceCut(p, s, Len(s), at)
  PROVE  /\ \A i \in 1 .. Len(p) : p[i] # <<>>
         /\ SegsOf(p) \in Seq(SegmentsOf(Char)) /\ Len(SegsOf(p)) = Len(p)
<1> DEFINE m == Len(p)
<1>1. /\ at \in [0 .. m -> 0 .. Len(s)] /\ m \in Nat /\ DOMAIN p = 1 .. m /\ Len(s) \in Nat
      /\ \A k \in 1 .. m : at[k - 1] < at[k] /\ p[k] = SubSeq(s, at[k - 1] + 1, at[k])
  BY DEF PieceCut
<1>2. ASSUME NEW k \in 1 .. m PROVE p[k] # <<>>
  <2> DEFINE low == at[k - 1]  high == at[k]
  <2>1. k - 1 \in 0 .. m /\ k \in 0 .. m
    BY <1>1
  <2>2. low \in 0 .. Len(s) /\ high \in 0 .. Len(s) /\ low < high /\ p[k] = SubSeq(s, low + 1, high)
    BY <1>1, <2>1
  <2> HIDE DEF low, high, m
  <2>3. \A i \in low + 1 .. high : i \in 1 .. Len(s)
    BY <1>1, <2>2
  <2>4. \A i \in low + 1 .. high : s[i] \in Char
    BY <2>3
  <2>5. low + 1 \in Int /\ high \in Int /\ low + 1 <= high
    BY <1>1, <2>2
  <2>6. Len(SubSeq(s, low + 1, high)) = high - (low + 1) + 1
    BY <2>4, <2>5, SubSeqProperties
  <2>7. Len(p[k]) > 0
    BY <1>1, <2>2, <2>6
  <2> QED
    BY <2>7
<1>3. ASSUME NEW k \in 1 .. m
      PROVE  IF p[k][1] = Opening THEN Wildcard(SubSeq(p[k], 2, Len(p[k]) - 1)) \in SegmentsOf(Char)
             ELSE Literal(p[k]) \in SegmentsOf(Char)
  <2>1. p[k] \in Seq(Char)
    OBVIOUS
  <2>2. SubSeq(p[k], 2, Len(p[k]) - 1) \in Seq(Char)
    <3>1. ASSUME NEW t \in Seq(Char) PROVE SubSeq(t, 2, Len(t) - 1) \in Seq(Char)
      <4>1. \A i \in 2 .. Len(t) - 1 : t[i] \in Char
        OBVIOUS
      <4>2. Len(t) - 1 \in Int
        OBVIOUS
      <4> QED
        BY <4>1, <4>2, SubSeqProperties
    <3> QED
      BY <2>1, <3>1
  <2> QED
    BY <2>1, <2>2 DEF Wildcard, Literal, SegmentsOf
<1> DEFINE q == SegsOf(p)
<1>4. q \in [1 .. m -> SegmentsOf(Char)]
  <2> HIDE DEF m
  <2> QED
    BY <1>1, <1>3 DEF SegsOf
<1>5. q \in Seq(SegmentsOf(Char)) /\ Len(q) = m
  <2> HIDE DEF q, m
  <2>1. q \in Seq(SegmentsOf(Char)) /\ DOMAIN q = 1 .. m
    BY <1>1, <1>4
  <2>2. Len(q) \in Nat /\ 1 .. Len(q) = 1 .. m
    BY <2>1
  <2> QED
    BY <1>1, <2>1, <2>2
<1> HIDE DEF q
<1> QED
  BY <1>2, <1>5 DEF q

------------------------------------------------------------------------------
(* A string is read as one of the ways to cut it into pieces, if any.      *)
Readings(s) == {p \in {Pieces(s, K) : K \in SUBSET (1 .. Len(s) - 1)} : IsReading(SegsOf(p), p)}

LEMMA ReadingIsRead ==
  ASSUME NEW Char, NEW s \in Seq(Char), NEW p \in Readings(s)
  PROVE  parseSegments(s).ok /\ p = PiecesOf(parseSegments(s).segs)
<1> DEFINE segs == SegsOf(p)
<1>1. p \in Seq(Seq(Char)) /\ \E at : PieceCut(p, s, Len(s), at)
  <2>1. PICK K \in SUBSET (1 .. Len(s) - 1) : p = Pieces(s, K)
    BY DEF Readings
  <2> QED
    BY <2>1, PiecesAreCut
<1>2. IsReading(segs, p)
  BY DEF Readings
<1>3. PICK at : PieceCut(p, s, Len(s), at)
  BY <1>1
<1>4. segs \in Seq(SegmentsOf(Char)) /\ Len(segs) = Len(p)
  BY <1>1, <1>3, CutPieces
<1> HIDE DEF segs
<1>5. Cuts(segs, s, 0, at)
  BY <1>1, <1>2, <1>3, <1>4, CutsAreReadings
<1>6. parseSegments(s) = [ok |-> TRUE, segs |-> segs]
  BY <1>4, <1>5, ParseIsTheReading
<1>7. p = PiecesOf(segs)
  BY <1>1, <1>2, <1>4, ReadingHasPieces
<1> QED
  BY <1>6, <1>7

LEMMA ReadIsReading ==
  ASSUME NEW Char, NEW s \in Seq(Char), parseSegments(s).ok
  PROVE  PiecesOf(parseSegments(s).segs) \in Readings(s)
<1> DEFINE read == parseSegments(s)  segs == read.segs
<1>1. read \in [ok : BOOLEAN, segs : Seq(SegmentsOf(Char))]
  <2>1. <<>> \in Seq(SegmentsOf(Char))
    OBVIOUS
  <2> QED
    BY <2>1, ParseIsTheReading
<1>2. segs \in Seq(SegmentsOf(Char)) /\ read = [ok |-> TRUE, segs |-> segs]
  <2> HIDE DEF read
  <2> QED
    BY <1>1 DEF read
<1>3. PICK at : Cuts(segs, s, 0, at)
  <2> HIDE DEF segs
  <2> QED
    BY <1>2, ParseIsTheReading
<1> HIDE DEF segs
<1>4. PICK p \in Seq(Seq(Char)) : Len(p) = Len(segs) /\ PieceCut(p, s, Len(s), at)
  <2>1. Len(segs) \in Nat
    BY <1>2
  <2> QED
    BY <1>3, <2>1, CutsHavePieces
<1>5. IsReading(segs, p)
  BY <1>2, <1>3, <1>4, CutsAreReadings
<1>6. \A i \in 1 .. Len(p) : p[i] # <<>>
  BY <1>4, CutPieces
<1>7. SegsOf(p) = segs
  BY <1>2, <1>5, <1>6, ReadingHasSegments
<1>8. \E K \in SUBSET (1 .. Len(s) - 1) : Pieces(s, K) = p
  BY <1>4, CutsArePieces
<1>9. p \in Readings(s)
  BY <1>5, <1>7, <1>8 DEF Readings
<1>10. p = PiecesOf(segs)
  BY <1>2, <1>5, ReadingHasPieces
<1> QED
  BY <1>9, <1>10 DEF segs

OneReading(s, read) ==
  /\ Cardinality(Readings(s)) <= 1
  /\ read.ok <=> Readings(s) # {}
  /\ read.ok => PiecesOf(read.segs) \in Readings(s)

(* A string of any characters has one reading at most, the one that        *)
(* parseSegments returns; it refuses a string only if there is none.       *)
THEOREM ParsesTheReading ==
  ASSUME NEW Char, NEW s \in Seq(Char) PROVE OneReading(s, parseSegments(s))
<1> DEFINE read == parseSegments(s)  R == Readings(s)
<1>1. \A p \in R : read.ok /\ p = PiecesOf(read.segs)
  BY ReadingIsRead
<1>2. read.ok => PiecesOf(read.segs) \in R
  BY ReadIsReading
<1>3. read.ok \in BOOLEAN
  <2>1. <<>> \in Seq(SegmentsOf(Char))
    OBVIOUS
  <2>2. read \in [ok : BOOLEAN, segs : Seq(SegmentsOf(Char))]
    BY <2>1, ParseIsTheReading
  <2> HIDE DEF read
  <2> QED
    BY <2>2
<1> HIDE DEF read, R
<1>4. R = {} \/ R = {PiecesOf(read.segs)}
  BY <1>1
<1>5. Cardinality(R) <= 1
  <2> DEFINE one == PiecesOf(read.segs)
  <2>1. Cardinality({}) = 0
    BY FS_EmptySet
  <2>2. Cardinality({one}) = 1
    BY FS_Singleton
  <2>3. Cardinality(R) = 0 \/ Cardinality(R) = 1
    BY Zenon, <1>4, <2>1, <2>2
  <2> QED
    BY <2>3
<1> QED
  BY <1>1, <1>2, <1>3, <1>5 DEF OneReading, read, R

(* Characters are looked for by their names. *)
Colon == ":"

TextOf(match) == IF \E i \in DOMAIN match : match[i] = Colon THEN match ELSE match \o Latest

LEMMA ParseText ==
  ASSUME NEW match PROVE parsePattern(match) = parseSegments(TextOf(match))
BY Zenon DEF parsePattern, TextOf, Colon

LEMMA ParsesIs ==
  ParsesTheOneReading <=>
    (call = "parse" /\ output # <<>> => OneReading(TextOf(input), output[1]))
<1> DEFINE s == IF Free(input, ":") THEN input \o Latest ELSE input
<1>1. s = TextOf(input)
  BY Zenon DEF TextOf, Free, Colon
<1>2. ParsesTheOneReading <=>
        (call = "parse" /\ output # <<>> => OneReading(s, output[1]))
  BY Zenon DEF ParsesTheOneReading, OneReading, Readings, SegsOf, PiecesOf, Wrapped, Braced,
               Opening, Closing
<1> QED
  BY Zenon, <1>1, <1>2

Signs == {"{", "}", ":", "a"}

Parsed ==
  call = "parse" => /\ input \in MatchStrings
                    /\ output # <<>> => output[1] = parsePattern(input)

LEMMA ParsedInvariant == Spec => []Parsed
<1>1. Init => Parsed
  BY DEF Init, Parsed
<1>2. Parsed /\ [Next]_vars => Parsed'
  BY DEF Parsed, Next, Parse, Match, Order, vars
<1> QED
  BY <1>1, <1>2, PTL DEF Spec

THEOREM ParsesInOneWay == Spec => []ParsesTheOneReading
<1> DEFINE Char == Signs \cup {Latest[i] : i \in DOMAIN Latest}
<1>1. ASSUME NEW m \in MatchStrings PROVE TextOf(m) \in Seq(Char)
  <2>1. m \in Strings(Signs, 0, MaxText)
    BY Zenon DEF MatchStrings, Signs
  <2>2. m \in Seq(Signs)
    BY <2>1 DEF Strings
  <2>3. m \in Seq(Char)
    BY <2>2
  <2>4. Latest \in Seq(Char)
    BY LatestAssumption
  <2> HIDE DEF Char
  <2> QED
    BY <2>3, <2>4 DEF TextOf
<1>2. Parsed => ParsesTheOneReading
  <2> SUFFICES ASSUME Parsed, call = "parse", output # <<>>
               PROVE  OneReading(TextOf(input), output[1])
    BY ParsesIs
  <2>1. input \in MatchStrings /\ output[1] = parseSegments(TextOf(input))
    BY ParseText DEF Parsed
  <2> HIDE DEF Char
  <2> QED
    BY <1>1, <2>1, ParsesTheReading
<1> QED
  BY <1>2, ParsedInvariant, PTL
==============================================================================
