------------------------------ MODULE Rule_proofs ------------------------------
(***************************************************************************)
(* What a rule does with a reference, for any characters and any length:   *)
(* what a match is, which references are matched, that the values found    *)
(* put the reference together again, and that a template is filled with    *)
(* them in one way. The recursive functions of Pattern and Action are      *)
(* reasoned about as in Pattern_proofs.                                    *)
(***************************************************************************)
EXTENDS Action, Pattern_proofs

(* Where a value ends. *)
LEMMA ValueEndIs ==
  ASSUME NEW s, Len(s) \in Nat, NEW off \in 0 .. Len(s), NEW next
  PROVE  /\ ValueEnd(s, off, next) \in off .. Len(s)
         /\ \A e \in off .. Len(s) : HasPrefix(s, e, next.s) =>
              /\ ValueEnd(s, off, next) <= e
              /\ HasPrefix(s, ValueEnd(s, off, next), next.s)
<1> DEFINE Ends == {e \in off .. Len(s) : HasPrefix(s, e, next.s)} \cup {Len(s)}
           end == ValueEnd(s, off, next)
<1>1. Ends \in SUBSET Nat /\ Ends # {} /\ end = Least(Ends)
  BY DEF ValueEnd
<1>2. end \in Ends /\ \A m \in Ends : end <= m
  <2> HIDE DEF Ends, end
  <2> QED
    BY <1>1, LeastIs
<1> QED
  BY <1>2
------------------------------------------------------------------------------
(* One turn of the loop of matchSegments. *)
Turn(segs, s, i, was) ==
  LET seg == segs[i]
      end == IF i = Len(segs) THEN Len(s) ELSE ValueEnd(s, was.off, segs[i + 1]) IN
  IF ~was.ok THEN was
  ELSE IF seg.wildcard
    THEN [was EXCEPT !.off = end, !.params = Put(@, seg.s, SubSeq(s, was.off + 1, end))]
    ELSE [was EXCEPT !.ok = HasPrefix(s, was.off, seg.s), !.off = @ + Len(seg.s)]

(* What is known behind each segment. *)
IsRun(a, segs, s) ==
  /\ a[0] = [ok |-> TRUE, off |-> 0, params |-> <<>>]
  /\ \A i \in 1 .. Len(segs) : a[i] = Turn(segs, s, i, a[i - 1])

LEMMA MatchRuns ==
  ASSUME NEW segs, Len(segs) \in Nat, NEW s
  PROVE  \E a : /\ IsRun(a, segs, s)
                /\ matchSegments(segs, s) =
                     [a[Len(segs)] EXCEPT !.ok = @ /\ a[Len(segs)].off = Len(s)]
<1> DEFINE n == Len(segs)
           first == [ok |-> TRUE, off |-> 0, params |-> <<>>]
           turn(i, was) == Turn(segs, s, i, was)
           Runs(k, g) == g = [i \in 0 .. k |-> IF i = 0 THEN first ELSE turn(i, g[i - 1])]
           T == {k \in 0 .. n : \E g : Runs(k, g)}
           after == CHOOSE g : Runs(n, g)
<1>1. n \in T
  <2> HIDE DEF n, first, turn
  <2>1. n \in Nat
    BY DEF n
  <2>2. 0 \in T
    <3>1. Runs(0, [i \in 0 .. 0 |-> first])
      OBVIOUS
    <3>2. 0 \in 0 .. n
      BY <2>1
    <3> HIDE DEF Runs
    <3> QED
      BY <3>1, <3>2
  <2>3. ASSUME NEW k \in 1 .. n, k - 1 \in T PROVE k \in T
    <3>1. PICK g : Runs(k - 1, g)
      BY <2>3
    <3> DEFINE h == [i \in 0 .. k |-> IF i = k THEN turn(k, g[k - 1]) ELSE g[i]]
    <3>2. Runs(k, h)
      BY <2>1, <3>1
    <3>3. k \in 0 .. n
      BY <2>1
    <3> HIDE DEF Runs, h
    <3> QED
      BY <3>2, <3>3
  <2> HIDE DEF T
  <2> QED
    BY <2>1, <2>2, <2>3, Upwards
<1>2. Runs(n, after)
  BY <1>1
<1>3. IsRun(after, segs, s)
  <2>1. /\ after[0] = first
        /\ \A i \in 1 .. n : after[i] = turn(i, after[i - 1])
    <3> HIDE DEF first, turn, after
    <3> QED
      BY <1>2
  <2> QED
    BY <2>1 DEF IsRun
<1>4. matchSegments(segs, s) = [after[n] EXCEPT !.ok = @ /\ after[n].off = Len(s)]
  BY DEF matchSegments, Turn
<1> QED
  BY <1>3, <1>4

(* Values by name, and what the loop keeps. *)
ValuesOf(Char) == UNION {[D -> Seq(Char)] : D \in SUBSET Seq(Char)}

StatesOf(Char) == [ok : BOOLEAN, off : Nat, params : ValuesOf(Char)]

LEMMA PutIs ==
  ASSUME NEW Char, NEW params \in ValuesOf(Char), NEW name \in Seq(Char),
         NEW value \in Seq(Char)
  PROVE  /\ Put(params, name, value) \in ValuesOf(Char)
         /\ DOMAIN Put(params, name, value) = DOMAIN params \cup {name}
         /\ Put(params, name, value)[name] = value
         /\ \A n \in DOMAIN params : n # name => Put(params, name, value)[n] = params[n]
<1>1. PICK D \in SUBSET Seq(Char) : params \in [D -> Seq(Char)]
  BY DEF ValuesOf
<1>2. Put(params, name, value) \in [D \cup {name} -> Seq(Char)]
  BY <1>1 DEF Put
<1>3. D \cup {name} \in SUBSET Seq(Char)
  OBVIOUS
<1> QED
  BY <1>2, <1>3 DEF Put, ValuesOf

(* A turn from a state within s: the next is within s, too, if it is a     *)
(* match so far, with the literal or the value between the two.            *)
LEMMA TurnIs ==
  ASSUME NEW Char, NEW segs \in Seq(SegmentsOf(Char)), NEW s \in Seq(Char),
         NEW i \in 1 .. Len(segs), NEW was \in StatesOf(Char),
         was.ok => was.off <= Len(s), NEW now, now = Turn(segs, s, i, was)
  PROVE  /\ now \in StatesOf(Char)
         /\ now.ok => now.off <= Len(s)
         /\ ~was.ok => ~now.ok
         /\ was.ok /\ segs[i].wildcard =>
              /\ now.ok
              /\ now.off = IF i = Len(segs) THEN Len(s) ELSE ValueEnd(s, was.off, segs[i + 1])
              /\ now.params = Put(was.params, segs[i].s, SubSeq(s, was.off + 1, now.off))
         /\ was.ok /\ ~segs[i].wildcard =>
              /\ now.ok = HasPrefix(s, was.off, segs[i].s)
              /\ now.off = was.off + Len(segs[i].s)
              /\ now.params = was.params
         /\ now.ok => was.off <= now.off
<1> DEFINE end == IF i = Len(segs) THEN Len(s) ELSE ValueEnd(s, was.off, segs[i + 1])
<1>1. /\ was.ok \in BOOLEAN /\ was.off \in Nat /\ was.params \in ValuesOf(Char)
      /\ was = [ok |-> was.ok, off |-> was.off, params |-> was.params]
  BY DEF StatesOf
<1>2. Len(s) \in Nat /\ Len(segs) \in Nat /\ segs[i].wildcard \in BOOLEAN
      /\ segs[i].s \in Seq(Char) /\ Len(segs[i].s) \in Nat
  BY SegmentIs
<1>3. CASE ~was.ok
  <2>1. now = was
    BY <1>3 DEF Turn
  <2> QED
    BY <1>1, <1>3, <2>1
<1>4. CASE was.ok /\ segs[i].wildcard
  <2>1. now = [was EXCEPT !.off = end,
                          !.params = Put(@, segs[i].s, SubSeq(s, was.off + 1, end))]
    BY <1>4 DEF Turn
  <2>2. end \in was.off .. Len(s)
    <3>1. was.off \in 0 .. Len(s)
      BY <1>1, <1>2, <1>4
    <3>2. ValueEnd(s, was.off, segs[i + 1]) \in was.off .. Len(s)
      BY <1>2, <3>1, ValueEndIs
    <3> QED
      BY <1>1, <1>2, <3>1, <3>2
  <2> HIDE DEF end
  <2>3. now = [ok |-> TRUE, off |-> end,
               params |-> Put(was.params, segs[i].s, SubSeq(s, was.off + 1, end))]
    BY <1>1, <1>4, <2>1
  <2>4. SubSeq(s, was.off + 1, end) \in Seq(Char)
    BY <1>1, <1>2, <2>2
  <2>5. Put(was.params, segs[i].s, SubSeq(s, was.off + 1, end)) \in ValuesOf(Char)
    BY <1>1, <1>2, <2>4, PutIs
  <2>6. now \in StatesOf(Char) /\ now.off = end
    BY <1>1, <1>2, <2>2, <2>3, <2>5 DEF StatesOf
  <2> QED
    BY <1>1, <1>2, <1>4, <2>2, <2>3, <2>6 DEF end
<1>5. CASE was.ok /\ ~segs[i].wildcard
  <2>1. now = [was EXCEPT !.ok = HasPrefix(s, was.off, segs[i].s), !.off = @ + Len(segs[i].s)]
    BY <1>5 DEF Turn
  <2>2. now = [ok |-> HasPrefix(s, was.off, segs[i].s), off |-> was.off + Len(segs[i].s),
               params |-> was.params]
    BY <1>1, <2>1
  <2>3. /\ HasPrefix(s, was.off, segs[i].s) \in BOOLEAN
        /\ HasPrefix(s, was.off, segs[i].s) => was.off + Len(segs[i].s) <= Len(s)
    BY DEF HasPrefix
  <2>4. now \in StatesOf(Char)
    BY <1>1, <1>2, <2>2, <2>3 DEF StatesOf
  <2> QED
    BY <1>1, <1>2, <1>5, <2>2, <2>3, <2>4
<1> QED
  BY <1>1, <1>2, <1>3, <1>4, <1>5

LEMMA RunIs ==
  ASSUME NEW Char, NEW segs \in Seq(SegmentsOf(Char)), NEW s \in Seq(Char), NEW a,
         IsRun(a, segs, s)
  PROVE  \A i \in 0 .. Len(segs) : a[i] \in StatesOf(Char) /\ (a[i].ok => a[i].off <= Len(s))
<1> DEFINE T == {i \in 0 .. Len(segs) :
                   a[i] \in StatesOf(Char) /\ (a[i].ok => a[i].off <= Len(s))}
<1>1. Len(segs) \in Nat /\ Len(s) \in Nat
  OBVIOUS
<1>2. 0 \in T
  <2>1. <<>> \in [{} -> Seq(Char)]
    OBVIOUS
  <2>2. <<>> \in ValuesOf(Char)
    BY <2>1 DEF ValuesOf
  <2>3. a[0] = [ok |-> TRUE, off |-> 0, params |-> <<>>]
    BY DEF IsRun
  <2>4. a[0] \in StatesOf(Char)
    BY <2>2, <2>3 DEF StatesOf
  <2> QED
    BY <1>1, <2>3, <2>4
<1>3. ASSUME NEW i \in 1 .. Len(segs), i - 1 \in T PROVE i \in T
  <2>1. a[i] = Turn(segs, s, i, a[i - 1])
    BY DEF IsRun
  <2> DEFINE was == a[i - 1]
  <2>2. was \in StatesOf(Char) /\ (was.ok => was.off <= Len(s)) /\ a[i] = Turn(segs, s, i, was)
    BY <1>3, <2>1
  <2> HIDE DEF was
  <2>3. a[i] \in StatesOf(Char) /\ (a[i].ok => a[i].off <= Len(s))
    BY <2>2, TurnIs
  <2> QED
    BY <1>1, <2>3
<1>4. 0 .. Len(segs) \subseteq T
  <2> HIDE DEF T
  <2> QED
    BY <1>1, <1>2, <1>3, Upwards
<1> QED
  BY <1>4

(* A turn of a run, by its number. *)
LEMMA RunTurns ==
  ASSUME NEW Char, NEW segs \in Seq(SegmentsOf(Char)), NEW s \in Seq(Char), NEW a,
         IsRun(a, segs, s), NEW i \in 1 .. Len(segs)
  PROVE  /\ ~a[i - 1].ok => ~a[i].ok
         /\ a[i - 1].ok /\ segs[i].wildcard =>
              /\ a[i].ok
              /\ a[i].off = IF i = Len(segs) THEN Len(s)
                            ELSE ValueEnd(s, a[i - 1].off, segs[i + 1])
              /\ a[i].params = Put(a[i - 1].params, segs[i].s,
                                   SubSeq(s, a[i - 1].off + 1, a[i].off))
         /\ a[i - 1].ok /\ ~segs[i].wildcard =>
              /\ a[i].ok = HasPrefix(s, a[i - 1].off, segs[i].s)
              /\ a[i].off = a[i - 1].off + Len(segs[i].s)
              /\ a[i].params = a[i - 1].params
         /\ a[i].ok => a[i - 1].off <= a[i].off
<1> DEFINE was == a[i - 1]  now == a[i]
<1>1. i - 1 \in 0 .. Len(segs)
  BY SegmentIs
<1>2. was \in StatesOf(Char) /\ (was.ok => was.off <= Len(s))
  BY <1>1, RunIs
<1>3. now = Turn(segs, s, i, was)
  BY DEF IsRun
<1> HIDE DEF was, now
<1>4. /\ ~was.ok => ~now.ok
      /\ was.ok /\ segs[i].wildcard =>
           /\ now.ok
           /\ now.off = IF i = Len(segs) THEN Len(s) ELSE ValueEnd(s, was.off, segs[i + 1])
           /\ now.params = Put(was.params, segs[i].s, SubSeq(s, was.off + 1, now.off))
      /\ was.ok /\ ~segs[i].wildcard =>
           /\ now.ok = HasPrefix(s, was.off, segs[i].s)
           /\ now.off = was.off + Len(segs[i].s)
           /\ now.params = was.params
      /\ now.ok => was.off <= now.off
  BY <1>2, <1>3, TurnIs
<1> QED
  BY <1>4 DEF was, now

LEMMA WildcardTurn ==
  ASSUME NEW Char, NEW segs \in Seq(SegmentsOf(Char)), NEW s \in Seq(Char), NEW a,
         IsRun(a, segs, s), NEW i \in 1 .. Len(segs), a[i - 1].ok, segs[i].wildcard
  PROVE  /\ a[i].ok
         /\ a[i].off = IF i = Len(segs) THEN Len(s)
                       ELSE ValueEnd(s, a[i - 1].off, segs[i + 1])
         /\ a[i].params = Put(a[i - 1].params, segs[i].s,
                              SubSeq(s, a[i - 1].off + 1, a[i].off))
BY RunTurns

LEMMA LiteralTurn ==
  ASSUME NEW Char, NEW segs \in Seq(SegmentsOf(Char)), NEW s \in Seq(Char), NEW a,
         IsRun(a, segs, s), NEW i \in 1 .. Len(segs), a[i - 1].ok, ~segs[i].wildcard
  PROVE  /\ a[i].ok = HasPrefix(s, a[i - 1].off, segs[i].s)
         /\ a[i].off = a[i - 1].off + Len(segs[i].s)
         /\ a[i].params = a[i - 1].params
BY RunTurns

LEMMA GoodTurn ==
  ASSUME NEW Char, NEW segs \in Seq(SegmentsOf(Char)), NEW s \in Seq(Char), NEW a,
         IsRun(a, segs, s), NEW i \in 1 .. Len(segs), a[i].ok
  PROVE  a[i - 1].ok /\ a[i - 1].off <= a[i].off
BY RunTurns

(* A run that ends well has cut s as it should. *)
LEMMA RunStays ==
  ASSUME NEW Char, NEW segs \in Seq(SegmentsOf(Char)), NEW s \in Seq(Char), NEW a,
         IsRun(a, segs, s), a[Len(segs)].ok
  PROVE  \A i \in 0 .. Len(segs) :
           a[i].ok /\ a[i].off \in 0 .. Len(s) /\ a[i].params \in ValuesOf(Char)
<1> DEFINE n == Len(segs)
           T == {k \in 0 .. n : a[n - k].ok}
<1>1. n \in Nat /\ Len(s) \in Nat
  OBVIOUS
<1>2. \A i \in 0 .. n : /\ a[i].ok \in BOOLEAN /\ a[i].off \in Nat
                        /\ a[i].params \in ValuesOf(Char) /\ (a[i].ok => a[i].off <= Len(s))
  <2>1. \A i \in 0 .. n : a[i] \in StatesOf(Char) /\ (a[i].ok => a[i].off <= Len(s))
    BY RunIs
  <2> QED
    BY <2>1 DEF StatesOf
<1>3. 0 .. n \subseteq T
  <2>1. 0 \in T
    BY <1>1
  <2>2. ASSUME NEW k \in 1 .. n, k - 1 \in T PROVE k \in T
    <3>1. n - (k - 1) \in 1 .. n /\ (n - (k - 1)) - 1 = n - k /\ k \in 0 .. n
      BY <1>1
    <3>2. a[n - (k - 1)].ok
      BY <2>2
    <3>3. a[(n - (k - 1)) - 1].ok
      BY <3>1, <3>2, GoodTurn
    <3> QED
      BY <3>1, <3>3
  <2> HIDE DEF T
  <2> QED
    BY <1>1, <2>1, <2>2, Upwards
<1>4. \A i \in 0 .. n : a[i].ok
  <2> SUFFICES ASSUME NEW i \in 0 .. n PROVE a[i].ok
    OBVIOUS
  <2>1. n - i \in 0 .. n /\ n - (n - i) = i
    BY <1>1
  <2>2. n - i \in T
    BY <1>3, <2>1
  <2> QED
    BY <2>1, <2>2
<1> QED
  BY <1>1, <1>2, <1>4

LEMMA RunCuts ==
  ASSUME NEW Char, NEW segs \in Seq(SegmentsOf(Char)), NEW s \in Seq(Char), NEW a,
         IsRun(a, segs, s), a[Len(segs)].ok, NEW i \in 1 .. Len(segs)
  PROVE  /\ a[i - 1].off <= a[i].off
         /\ ~segs[i].wildcard => SubSeq(s, a[i - 1].off + 1, a[i].off) = segs[i].s
<1>1. i - 1 \in 0 .. Len(segs) /\ i \in 0 .. Len(segs)
  BY SegmentIs
<1>2. a[i - 1].ok /\ a[i].ok
  BY <1>1, RunStays
<1>3. /\ a[i - 1].off <= a[i].off
      /\ ~segs[i].wildcard =>
           /\ HasPrefix(s, a[i - 1].off, segs[i].s)
           /\ a[i].off = a[i - 1].off + Len(segs[i].s)
  BY <1>2, GoodTurn, LiteralTurn
<1> QED
  BY <1>3 DEF HasPrefix

(* Soundness: what matches is an instance of the pattern. *)
THEOREM MatchesAreInstances ==
  ASSUME NEW Char, NEW segs \in Seq(SegmentsOf(Char)), NEW s \in Seq(Char),
         matchSegments(segs, s).ok
  PROVE  IsInstance(segs, s)
<1>1. PICK a : /\ IsRun(a, segs, s)
               /\ matchSegments(segs, s) =
                    [a[Len(segs)] EXCEPT !.ok = @ /\ a[Len(segs)].off = Len(s)]
  BY SegmentIs, MatchRuns
<1>2. a[Len(segs)] \in StatesOf(Char)
  BY <1>1, SegmentIs, RunIs
<1>3. a[Len(segs)].ok /\ a[Len(segs)].off = Len(s)
  BY <1>1, <1>2 DEF StatesOf
<1> DEFINE cut == [i \in 0 .. Len(segs) |-> a[i].off]
<1>4. Len(segs) \in Nat /\ DOMAIN segs = 1 .. Len(segs)
  OBVIOUS
<1>5. cut \in [0 .. Len(segs) -> 0 .. Len(s)]
  BY <1>1, <1>3, RunStays
<1>6. cut[0] = 0 /\ cut[Len(segs)] = Len(s)
  BY <1>1, <1>3, <1>4 DEF IsRun
<1>7. ASSUME NEW i \in DOMAIN segs
      PROVE  /\ cut[i - 1] <= cut[i]
             /\ ~segs[i].wildcard => SubSeq(s, cut[i - 1] + 1, cut[i]) = segs[i].s
  <2>1. i \in 1 .. Len(segs) /\ i - 1 \in 0 .. Len(segs) /\ i \in 0 .. Len(segs)
    BY <1>4
  <2>2. cut[i - 1] = a[i - 1].off /\ cut[i] = a[i].off
    BY <2>1
  <2> HIDE DEF cut
  <2>3. /\ a[i - 1].off <= a[i].off
        /\ ~segs[i].wildcard => SubSeq(s, a[i - 1].off + 1, a[i].off) = segs[i].s
    <3>1. IsRun(a, segs, s) /\ a[Len(segs)].ok
      BY <1>1, <1>3
    <3> QED
      BY <2>1, <3>1, RunCuts
  <2> QED
    BY <2>2, <2>3
<1> HIDE DEF cut
<1> QED
  BY <1>5, <1>6, <1>7 DEF IsInstance

(* Behind segment i, every value found so far is there by its name, where  *)
(* names are distinct.                                                     *)
LEMMA RunKeeps ==
  ASSUME NEW Char, NEW segs \in Seq(SegmentsOf(Char)), NEW s \in Seq(Char), NEW a,
         IsRun(a, segs, s), a[Len(segs)].ok, Distinct(segs)
  PROVE  \A j \in 1 .. Len(segs) : segs[j].wildcard =>
           a[Len(segs)].params[segs[j].s] = SubSeq(s, a[j - 1].off + 1, a[j].off)
<1> DEFINE n == Len(segs)
           value(j) == SubSeq(s, a[j - 1].off + 1, a[j].off)
           Kept(i, j) == /\ segs[j].s \in DOMAIN a[i].params
                         /\ a[i].params[segs[j].s] = value(j)
           T == {i \in 0 .. n : \A j \in 1 .. i : segs[j].wildcard => Kept(i, j)}
<1>1. n \in Nat /\ 0 \in T
  OBVIOUS
<1>2. ASSUME NEW i \in 1 .. n, i - 1 \in T PROVE i \in T
  <2>1. i - 1 \in 0 .. n /\ i \in 0 .. n
    BY <1>1
  <2>2. /\ a[i - 1].ok /\ a[i - 1].off \in 0 .. Len(s) /\ a[i].off \in 0 .. Len(s)
        /\ a[i - 1].params \in ValuesOf(Char)
    BY <2>1, RunStays
  <2>3. value(i) \in Seq(Char) /\ segs[i].s \in Seq(Char) /\ segs[i].wildcard \in BOOLEAN
    <3>1. value(i) \in Seq(Char)
      <4> DEFINE low == a[i - 1].off  high == a[i].off
      <4>1. low \in 0 .. Len(s) /\ high \in 0 .. Len(s)
        BY <2>2
      <4> HIDE DEF low, high
      <4>2. SubSeq(s, low + 1, high) \in Seq(Char)
        BY <4>1
      <4> QED
        BY <4>2 DEF low, high
    <3>2. segs[i].s \in Seq(Char) /\ segs[i].wildcard \in BOOLEAN
      BY SegmentIs
    <3> QED
      BY <3>1, <3>2
  <2>4. \A j \in 1 .. i - 1 : segs[j].wildcard => Kept(i - 1, j)
    BY <1>2
  <2>5. CASE segs[i].wildcard
    <3>1. a[i].params = Put(a[i - 1].params, segs[i].s, value(i))
      BY <2>2, <2>5, WildcardTurn
    <3>2. \A j \in 1 .. i - 1 : segs[j].wildcard => segs[j].s # segs[i].s
      <4> SUFFICES ASSUME NEW j \in 1 .. i - 1, segs[j].wildcard, segs[j].s = segs[i].s
                   PROVE  FALSE
        OBVIOUS
      <4>1. j \in DOMAIN segs /\ i \in DOMAIN segs /\ j # i
        BY <1>1
      <4> QED
        BY <2>5, <4>1 DEF Distinct
    <3> HIDE DEF value
    <3> DEFINE old == a[i - 1].params
    <3> HIDE DEF old
    <3>3. /\ DOMAIN a[i].params = DOMAIN a[i - 1].params \cup {segs[i].s}
          /\ a[i].params[segs[i].s] = value(i)
          /\ \A k \in DOMAIN a[i - 1].params :
               k # segs[i].s => a[i].params[k] = a[i - 1].params[k]
      <4>1. old \in ValuesOf(Char) /\ a[i].params = Put(old, segs[i].s, value(i))
        BY <2>2, <3>1 DEF old
      <4>2. /\ DOMAIN a[i].params = DOMAIN old \cup {segs[i].s}
            /\ a[i].params[segs[i].s] = value(i)
            /\ \A k \in DOMAIN old : k # segs[i].s => a[i].params[k] = old[k]
        BY <4>1 DEF Put
      <4> QED
        BY <4>2 DEF old
    <3>4. ASSUME NEW j \in 1 .. i, segs[j].wildcard PROVE Kept(i, j)
      <4>1. CASE j = i
        BY <3>3, <4>1
      <4>2. CASE j # i
        <5>1. j \in 1 .. i - 1
          BY <2>1, <4>2
        <5> QED
          BY <2>4, <3>2, <3>3, <3>4, <5>1
      <4> QED
        BY <4>1, <4>2
    <3> QED
      BY <2>1, <3>4
  <2>6. CASE ~segs[i].wildcard
    <3>1. a[i].params = a[i - 1].params
      BY <2>2, <2>6, LiteralTurn
    <3>2. ASSUME NEW j \in 1 .. i, segs[j].wildcard PROVE Kept(i, j)
      <4>1. j \in 1 .. i - 1
        BY <2>1, <2>6, <3>2
      <4> HIDE DEF value
      <4> QED
        BY <2>4, <3>1, <3>2, <4>1
    <3> QED
      BY <2>1, <3>2
  <2> QED
    BY <2>3, <2>5, <2>6
<1>3. 0 .. n \subseteq T
  <2> HIDE DEF T
  <2> QED
    BY <1>1, <1>2, Upwards
<1>4. n \in T
  BY <1>1, <1>3
<1> QED
  BY <1>4

LEMMA ExpandRuns ==
  ASSUME NEW segs, Len(segs) \in Nat, NEW params
  PROVE  \E u : /\ u[0] = <<>>
                /\ \A i \in 1 .. Len(segs) :
                     u[i] = u[i - 1] \o IF segs[i].wildcard THEN params[segs[i].s]
                                                            ELSE segs[i].s
                /\ Expand(segs, params) = u[Len(segs)]
<1> DEFINE n == Len(segs)
           turn(i, was) == was \o IF segs[i].wildcard THEN params[segs[i].s] ELSE segs[i].s
           Runs(k, g) == g = [i \in 0 .. k |-> IF i = 0 THEN <<>> ELSE turn(i, g[i - 1])]
           T == {k \in 0 .. n : \E g : Runs(k, g)}
           upTo == CHOOSE g : Runs(n, g)
<1>1. n \in T
  <2> HIDE DEF n, turn
  <2>1. n \in Nat
    BY DEF n
  <2>2. 0 \in T
    <3>1. Runs(0, [i \in 0 .. 0 |-> <<>>])
      OBVIOUS
    <3>2. 0 \in 0 .. n
      BY <2>1
    <3> HIDE DEF Runs
    <3> QED
      BY <3>1, <3>2
  <2>3. ASSUME NEW k \in 1 .. n, k - 1 \in T PROVE k \in T
    <3>1. PICK g : Runs(k - 1, g)
      BY <2>3
    <3> DEFINE h == [i \in 0 .. k |-> IF i = k THEN turn(k, g[k - 1]) ELSE g[i]]
    <3>2. Runs(k, h)
      BY <2>1, <3>1
    <3>3. k \in 0 .. n
      BY <2>1
    <3> HIDE DEF Runs, h
    <3> QED
      BY <3>2, <3>3
  <2> HIDE DEF T
  <2> QED
    BY <2>1, <2>2, <2>3, Upwards
<1>2. Runs(n, upTo)
  <2>1. \E g : Runs(n, g)
    BY <1>1
  <2> HIDE DEF Runs
  <2> QED
    BY <2>1
<1>3. upTo[0] = <<>> /\ \A i \in 1 .. n : upTo[i] = turn(i, upTo[i - 1])
  <2> HIDE DEF turn, upTo
  <2> QED
    BY <1>2
<1>4. Expand(segs, params) = upTo[n]
  BY DEF Expand
<1> HIDE DEF upTo
<1> QED
  BY <1>3, <1>4

(* The values that a match finds put the reference together again.         *)
THEOREM ValuesPutTogether ==
  ASSUME NEW Char, NEW segs \in Seq(SegmentsOf(Char)), NEW s \in Seq(Char),
         matchSegments(segs, s).ok, Distinct(segs)
  PROVE  Expand(segs, matchSegments(segs, s).params) = s
<1>1. PICK a : /\ IsRun(a, segs, s)
               /\ matchSegments(segs, s) =
                    [a[Len(segs)] EXCEPT !.ok = @ /\ a[Len(segs)].off = Len(s)]
  BY SegmentIs, MatchRuns
<1>2. a[Len(segs)] \in StatesOf(Char)
  BY <1>1, SegmentIs, RunIs
<1>3. /\ a[Len(segs)].ok /\ a[Len(segs)].off = Len(s)
      /\ matchSegments(segs, s).params = a[Len(segs)].params
  BY <1>1, <1>2 DEF StatesOf
<1> DEFINE params == a[Len(segs)].params
<1> HIDE DEF params
<1>4. PICK u : /\ u[0] = <<>>
               /\ \A i \in 1 .. Len(segs) :
                    u[i] = u[i - 1] \o IF segs[i].wildcard THEN params[segs[i].s]
                                                           ELSE segs[i].s
               /\ Expand(segs, params) = u[Len(segs)]
  BY SegmentIs, ExpandRuns
<1>5. \A i \in 1 .. Len(segs) : segs[i].wildcard =>
        params[segs[i].s] = SubSeq(s, a[i - 1].off + 1, a[i].off)
  BY <1>1, <1>3, RunKeeps DEF params
<1> DEFINE T == {i \in 0 .. Len(segs) : u[i] = SubSeq(s, 1, a[i].off)}
<1>6. Len(segs) \in Nat /\ Len(s) \in Nat
  OBVIOUS
<1>7. 0 \in T
  <2>1. a[0].off = 0
    BY <1>1 DEF IsRun
  <2>2. SubSeq(s, 1, 0) = <<>>
    BY SubSeqEmpty
  <2>3. u[0] = SubSeq(s, 1, a[0].off)
    BY <1>4, <2>1, <2>2
  <2> QED
    BY <1>6, <2>3
<1>8. ASSUME NEW i \in 1 .. Len(segs), i - 1 \in T PROVE i \in T
  <2> DEFINE low == a[i - 1].off  high == a[i].off
  <2>1. i - 1 \in 0 .. Len(segs) /\ i \in 0 .. Len(segs)
    BY <1>6
  <2>2. low \in 0 .. Len(s) /\ high \in 0 .. Len(s)
    BY <1>1, <1>3, <2>1, RunStays
  <2>3. low <= high /\ (~segs[i].wildcard => SubSeq(s, low + 1, high) = segs[i].s)
    BY <1>1, <1>3, RunCuts
  <2>4. u[i] = u[i - 1] \o SubSeq(s, low + 1, high)
    BY <1>4, <1>5, <2>3
  <2>5. u[i - 1] = SubSeq(s, 1, low)
    BY <1>8
  <2> HIDE DEF low, high
  <2>6. SubSeq(s, 1, low) \o SubSeq(s, low + 1, high) = SubSeq(s, 1, high)
    <3>1. 1 \in 1 .. Len(s) + 1 /\ low \in 1 - 1 .. Len(s) /\ high \in low .. Len(s)
      BY <1>6, <2>2, <2>3
    <3> QED
      BY <3>1, ConcatAdjacentSubSeq
  <2> QED
    BY <2>1, <2>4, <2>5, <2>6 DEF high
<1>9. 0 .. Len(segs) \subseteq T
  <2> HIDE DEF T
  <2> QED
    BY <1>6, <1>7, <1>8, Upwards
<1>10. u[Len(segs)] = SubSeq(s, 1, Len(s))
  BY <1>3, <1>6, <1>9
<1>11. SubSeq(s, 1, Len(s)) = s
  BY SubSeqFull
<1> QED
  BY <1>3, <1>4, <1>10, <1>11 DEF params

(* Completeness, where a wildcard is last and wildcards are apart: if s can *)
(* be cut at all, the shortest values do it, since what they leave over is *)
(* never less than another cut leaves.                                     *)
THEOREM OpenEndedMatches ==
  ASSUME NEW Char, NEW segs \in Seq(SegmentsOf(Char)), NEW s \in Seq(Char),
         Len(segs) > 0, Apart(segs), segs[Len(segs)].wildcard, IsInstance(segs, s)
  PROVE  matchSegments(segs, s).ok
<1> DEFINE n == Len(segs)
<1>1. n \in Nat \ {0} /\ Len(s) \in Nat /\ DOMAIN segs = 1 .. n
  OBVIOUS
<1>2. PICK a : /\ IsRun(a, segs, s)
               /\ matchSegments(segs, s) = [a[n] EXCEPT !.ok = @ /\ a[n].off = Len(s)]
  BY <1>1, MatchRuns
<1>run. IsRun(a, segs, s)
  BY <1>2
<1>3. PICK cut \in [0 .. n -> 0 .. Len(s)] :
        /\ cut[0] = 0 /\ cut[n] = Len(s)
        /\ \A i \in DOMAIN segs :
             /\ cut[i - 1] <= cut[i]
             /\ ~segs[i].wildcard => SubSeq(s, cut[i - 1] + 1, cut[i]) = segs[i].s
  BY DEF IsInstance
<1>4. \A i \in 0 .. n : a[i].ok => a[i].off \in 0 .. Len(s)
  <2>1. \A i \in 0 .. n : a[i] \in StatesOf(Char) /\ (a[i].ok => a[i].off <= Len(s))
    BY <1>run, RunIs
  <2> QED
    BY <1>1, <2>1 DEF StatesOf
<1>5. \A i \in 1 .. n : segs[i].wildcard \in BOOLEAN /\ Len(segs[i].s) \in Nat
  BY SegmentIs
(* A literal is at its place in the other cut. *)
<1>6. ASSUME NEW i \in 1 .. n, ~segs[i].wildcard
      PROVE  HasPrefix(s, cut[i - 1], segs[i].s) /\ cut[i] = cut[i - 1] + Len(segs[i].s)
  <2> DEFINE low == cut[i - 1]  high == cut[i]
  <2>0. i \in DOMAIN segs /\ i - 1 \in 0 .. n /\ i \in 0 .. n
    BY <1>1
  <2>1. low \in 0 .. Len(s) /\ high \in 0 .. Len(s) /\ low <= high
    <3>1. low \in 0 .. Len(s) /\ high \in 0 .. Len(s)
      BY <2>0
    <3>2. low <= high
      BY <1>3, <2>0
    <3> QED
      BY <3>1, <3>2
  <2>2. SubSeq(s, low + 1, high) = segs[i].s
    BY <1>3, <1>6, <2>0
  <2> HIDE DEF low, high
  <2>3. Len(SubSeq(s, low + 1, high)) = high - low
    BY <1>1, <2>1
  <2>4. high = low + Len(segs[i].s)
    <3>1. Len(segs[i].s) = high - low
      BY <2>2, <2>3
    <3>2. low \in Int /\ high \in Int
      BY <1>1, <2>1
    <3> QED
      BY <3>1, <3>2
  <2>5. HasPrefix(s, low, segs[i].s)
    BY <1>1, <2>1, <2>2, <2>4 DEF HasPrefix
  <2> QED
    BY <2>4, <2>5 DEF low, high
<1>7. ASSUME NEW i \in 1 .. n - 1 PROVE segs[i].wildcard <=> ~segs[i + 1].wildcard
  <2>1. segs[i].wildcard # segs[i + 1].wildcard
    BY DEF Apart
  <2>2. i \in 1 .. n /\ i + 1 \in 1 .. n
    BY <1>1
  <2>3. segs[i].wildcard \in BOOLEAN /\ segs[i + 1].wildcard \in BOOLEAN
    BY <1>5, <2>2
  <2> QED
    BY <2>1, <2>3
<1> DEFINE Goes(i) == /\ a[i].ok /\ a[i].off <= cut[i]
                      /\ i < n => segs[i + 1].wildcard \/ HasPrefix(s, a[i].off, segs[i + 1].s)
           T == {i \in 0 .. n : Goes(i)}
<1>8. 0 \in T
  <2>1. a[0].ok /\ a[0].off = 0
    BY <1>2 DEF IsRun
  <2>2. segs[1].wildcard \/ HasPrefix(s, 0, segs[1].s)
    <3>1. 1 \in 1 .. n /\ 1 - 1 = 0
      BY <1>1
    <3> QED
      BY <1>3, <1>6, <3>1
  <2> QED
    BY <1>1, <1>3, <2>1, <2>2
<1>9. ASSUME NEW i \in 1 .. n, i - 1 \in T PROVE i \in T
  <2>1. i - 1 \in 0 .. n /\ i \in 0 .. n /\ (i - 1) + 1 = i /\ i - 1 < n
    BY <1>1
  <2>2. a[i - 1].ok /\ a[i - 1].off <= cut[i - 1]
        /\ (segs[i].wildcard \/ HasPrefix(s, a[i - 1].off, segs[i].s))
    BY <1>9, <2>1
  <2>3. /\ a[i - 1].off \in 0 .. Len(s) /\ cut[i - 1] \in 0 .. Len(s)
        /\ cut[i] \in 0 .. Len(s) /\ cut[i - 1] <= cut[i]
    BY <1>1, <1>3, <1>4, <2>1, <2>2
  <2>4. CASE segs[i].wildcard /\ i < n
    <3> DEFINE off == a[i - 1].off
    <3>1. a[i].ok /\ a[i].off = ValueEnd(s, off, segs[i + 1])
      BY <1>1, <1>run, <2>2, <2>4, WildcardTurn
    <3>2. i \in 1 .. n - 1 /\ i + 1 \in 1 .. n /\ (i + 1) - 1 = i
      BY <1>1, <2>4
    <3>3. ~segs[i + 1].wildcard
      BY <1>7, <2>4, <3>2
    <3>4. HasPrefix(s, cut[i], segs[i + 1].s)
      <4>1. HasPrefix(s, cut[(i + 1) - 1], segs[i + 1].s)
        BY <1>6, <3>2, <3>3
      <4> QED
        BY <3>2, <4>1
    <3> HIDE DEF off
    <3>5. off \in 0 .. Len(s) /\ cut[i] \in off .. Len(s)
      BY <1>1, <2>2, <2>3 DEF off
    <3>6. /\ ValueEnd(s, off, segs[i + 1]) <= cut[i]
          /\ HasPrefix(s, ValueEnd(s, off, segs[i + 1]), segs[i + 1].s)
      BY <1>1, <3>4, <3>5, ValueEndIs
    <3> QED
      BY <2>1, <3>1, <3>6
  <2>5. CASE segs[i].wildcard /\ i = n
    <3>1. a[i].ok /\ a[i].off = Len(s)
      <4>1. /\ a[i].ok
            /\ a[i].off = IF i = Len(segs) THEN Len(s)
                          ELSE ValueEnd(s, a[i - 1].off, segs[i + 1])
        BY <1>run, <2>2, <2>5, WildcardTurn
      <4> QED
        BY <2>5, <4>1
    <3>2. Len(s) <= cut[n]
      BY <1>1, <1>3
    <3> QED
      BY <2>1, <2>5, <3>1, <3>2
  <2>6. CASE ~segs[i].wildcard
    <3>1. a[i].ok /\ a[i].off = a[i - 1].off + Len(segs[i].s)
      BY <1>run, <2>2, <2>6, LiteralTurn
    <3>2. cut[i] = cut[i - 1] + Len(segs[i].s) /\ Len(segs[i].s) \in Nat
      BY <1>5, <1>6, <2>6
    <3>3. i < n => segs[i + 1].wildcard
      BY <1>1, <1>7, <2>6
    <3>4. a[i].off <= cut[i]
      <4> DEFINE off == a[i - 1].off  low == cut[i - 1]  size == Len(segs[i].s)
      <4>1. off \in Nat /\ low \in Nat /\ size \in Nat /\ off <= low
        BY <1>1, <2>2, <2>3, <3>2
      <4> HIDE DEF off, low, size
      <4>2. off + size <= low + size
        BY <4>1
      <4> QED
        BY <3>1, <3>2, <4>2 DEF off, low, size
    <3>5. Goes(i)
      BY <3>1, <3>3, <3>4
    <3> QED
      BY <2>1, <3>5
  <2>7. i < n \/ i = n
    <3> HIDE DEF n
    <3> QED
      BY <1>1
  <2> HIDE DEF T
  <2> QED
    BY <2>4, <2>5, <2>6, <2>7
<1>10. 0 .. n \subseteq T
  <2> HIDE DEF T
  <2> QED
    BY <1>1, <1>8, <1>9, Upwards
<1>11. a[n].ok /\ a[n].off = Len(s)
  <2>1. n \in 1 .. n /\ n - 1 \in 0 .. n
    BY <1>1
  <2>2. a[n - 1].ok
    BY <1>10, <2>1
  <2> QED
    BY <1>run, <2>1, <2>2, WildcardTurn
<1>12. a[n] \in StatesOf(Char)
  BY <1>1, <1>run, RunIs
<1> QED
  BY <1>2, <1>11, <1>12 DEF StatesOf

------------------------------------------------------------------------------
(* What the calls of matchSegments that are checked return. *)
Matched ==
  call = "match" =>
    /\ input \in Matches
    /\ output \in {<<>>, <<matchSegments(input.segs, input.s)>>}

LEMMA MatchesAre ==
  ASSUME NEW m \in Matches
  PROVE  /\ m.segs \in Seq(SegmentsOf({"a", "b", "c"})) /\ Len(m.segs) > 0
         /\ m.s \in Seq({"a", "b", "c"})
<1> DEFINE Char == {"a", "b", "c"}
           Few == {Literal(l) : l \in Strings({"a", "b"}, 1, 2)} \cup
                  {Wildcard(<<"a">>), Wildcard(<<"c">>)}
<1>1. m.segs \in Patterns(Few) /\ m.s \in Strings({"a", "b"}, 0, MaxRef)
  BY DEF Matches
<1>2. ASSUME NEW low \in Nat, NEW high, NEW x \in Strings({"a", "b"}, low, high)
      PROVE  x \in Seq(Char)
  <2>1. PICK n \in low .. high : x \in [1 .. n -> {"a", "b"}]
    BY DEF Strings
  <2> QED
    BY <2>1
<1>3. Few \subseteq SegmentsOf(Char)
  <2>1. ASSUME NEW l \in Strings({"a", "b"}, 1, 2) PROVE Literal(l) \in SegmentsOf(Char)
    <3>1. l \in Seq(Char)
      BY <1>2
    <3> HIDE DEF Char
    <3> QED
      BY <3>1 DEF Literal, SegmentsOf
  <2>2. <<"a">> \in Seq(Char) /\ <<"c">> \in Seq(Char)
    OBVIOUS
  <2>3. Wildcard(<<"a">>) \in SegmentsOf(Char) /\ Wildcard(<<"c">>) \in SegmentsOf(Char)
    <3> HIDE DEF Char
    <3> QED
      BY <2>2 DEF Wildcard, SegmentsOf
  <2> QED
    BY <2>1, <2>3
<1> HIDE DEF Few, Char
<1>4. PICK n \in 1 .. MaxSegments : m.segs \in [1 .. n -> Few]
  BY <1>1 DEF Patterns, Strings
<1>5. m.segs \in Seq(SegmentsOf(Char)) /\ Len(m.segs) > 0
  BY <1>3, <1>4
<1>6. m.s \in Seq(Char)
  BY <1>1, <1>2
<1> QED
  BY <1>5, <1>6 DEF Char

LEMMA MatchedInvariant == Spec => []Matched
<1>1. Init => Matched
  BY DEF Init, Matched
<1>2. Matched /\ [Next]_vars => Matched'
  BY DEF Matched, Next, Parse, Match, Order, vars
<1> QED
  BY <1>1, <1>2, PTL DEF Spec

(* The matches that are checked, for patterns and references of any length. *)
THEOREM MatchesRebuild == Spec => []ValuesRebuild
<1>1. Matched => ValuesRebuild
  <2> SUFFICES ASSUME Matched, call = "match", output # <<>>, output[1].ok
               PROVE  /\ IsInstance(input.segs, input.s)
                      /\ Distinct(input.segs) =>
                           Expand(input.segs, output[1].params) = input.s
    BY DEF ValuesRebuild
  <2>1. input \in Matches /\ output[1] = matchSegments(input.segs, input.s)
    BY DEF Matched
  <2> QED
    BY <2>1, MatchesAre, MatchesAreInstances, ValuesPutTogether
<1> QED
  BY <1>1, MatchedInvariant, PTL

THEOREM OpenEndedAreMatched == Spec => []OpenEndedComplete
<1>1. Matched => OpenEndedComplete
  <2> SUFFICES ASSUME Matched, call = "match", output # <<>>,
                      Apart(input.segs), input.segs[Len(input.segs)].wildcard
               PROVE  output[1].ok <=> IsInstance(input.segs, input.s)
    BY DEF OpenEndedComplete
  <2>1. input \in Matches /\ output[1] = matchSegments(input.segs, input.s)
    BY DEF Matched
  <2> QED
    BY <2>1, MatchesAre, MatchesAreInstances, OpenEndedMatches
<1> QED
  BY <1>1, MatchedInvariant, PTL

------------------------------------------------------------------------------
(* A sequence of sequences is flattened from left to right.                *)
IsFlat(flat, S, seqs) ==
  /\ flat \in [0 .. Len(seqs) -> Seq(S)]
  /\ flat[0] = <<>>
  /\ \A i \in 1 .. Len(seqs) : flat[i] = flat[i - 1] \o seqs[i]

LEMMA FlattenRuns ==
  ASSUME NEW S, NEW seqs \in Seq(Seq(S))
  PROVE  \E flat : IsFlat(flat, S, seqs) /\ FlattenSeq(seqs) = flat[Len(seqs)]
<1> DEFINE n == Len(seqs)
           Runs(k, g) == g = [i \in 1 .. k |-> IF i = 1 THEN seqs[i] ELSE g[i - 1] \o seqs[i]]
           T == {k \in 0 .. n : \E g : Runs(k, g)}
           flatten == CHOOSE g : Runs(n, g)
<1>1. n \in Nat /\ \A i \in 1 .. n : seqs[i] \in Seq(S)
  OBVIOUS
<1>2. n \in T
  <2> HIDE DEF n
  <2>1. 0 \in T
    <3>1. Runs(0, [i \in 1 .. 0 |-> seqs[i]])
      OBVIOUS
    <3>2. 0 \in 0 .. n
      BY <1>1
    <3> HIDE DEF Runs
    <3> QED
      BY <3>1, <3>2
  <2>2. ASSUME NEW k \in 1 .. n, k - 1 \in T PROVE k \in T
    <3>1. PICK g : Runs(k - 1, g)
      BY <2>2
    <3> DEFINE h == [i \in 1 .. k |-> IF i = k THEN IF i = 1 THEN seqs[i] ELSE g[i - 1] \o seqs[i]
                                      ELSE g[i]]
    <3> DEFINE turn(i, f) == IF i = 1 THEN seqs[i] ELSE f[i - 1] \o seqs[i]
    <3>2. Runs(k, h)
      <4>1. g = [i \in 1 .. k - 1 |-> turn(i, g)]
        BY <3>1
      <4>2. h = [i \in 1 .. k |-> IF i = k THEN turn(i, g) ELSE g[i]]
        OBVIOUS
      <4> HIDE DEF h
      <4>3. ASSUME NEW i \in 1 .. k PROVE h[i] = turn(i, h)
        <5>1. i # 1 => i - 1 \in 1 .. k - 1 /\ i - 1 # k /\ i - 1 \in 1 .. k
          BY <1>1
        <5>2. turn(i, h) = turn(i, g)
          BY <4>2, <5>1
        <5> HIDE DEF turn
        <5>3. i # k => i \in 1 .. k - 1
          BY <1>1
        <5> QED
          BY <4>1, <4>2, <5>2, <5>3
      <4> QED
        BY <4>2, <4>3
    <3>3. k \in 0 .. n
      BY <1>1
    <3> HIDE DEF Runs, h
    <3> QED
      BY <3>2, <3>3
  <2> HIDE DEF T
  <2>3. 0 .. n \subseteq T
    BY <1>1, <2>1, <2>2, Upwards
  <2> QED
    BY <1>1, <2>3
<1>3. Runs(n, flatten)
  <2>1. \E g : Runs(n, g)
    BY <1>2
  <2> HIDE DEF Runs
  <2> QED
    BY <2>1
<1>4. \A i \in 1 .. n : flatten[i] = IF i = 1 THEN seqs[i] ELSE flatten[i - 1] \o seqs[i]
  <2> HIDE DEF flatten
  <2> QED
    BY <1>3
<1>5. FlattenSeq(seqs) = IF n = 0 THEN seqs ELSE flatten[n]
  BY DEF FlattenSeq
<1> HIDE DEF flatten
<1> DEFINE U == {k \in 0 .. n : k > 0 => flatten[k] \in Seq(S)}
<1>6. 0 \in U
  BY <1>1
<1>7. ASSUME NEW k \in 1 .. n, k - 1 \in U PROVE k \in U
  <2>1. k \in 0 .. n /\ (k = 1 \/ k - 1 > 0)
    BY <1>1
  <2>2. k # 1 => flatten[k - 1] \in Seq(S)
    BY <1>7, <2>1
  <2> DEFINE was == flatten[k - 1]  piece == seqs[k]
  <2>3. (k # 1 => was \in Seq(S)) /\ piece \in Seq(S)
    BY <1>1, <2>2
  <2>4. flatten[k] = IF k = 1 THEN piece ELSE was \o piece
    BY <1>4
  <2> HIDE DEF was, piece
  <2>5. flatten[k] \in Seq(S)
    BY <2>3, <2>4
  <2> QED
    BY <2>1, <2>5
<1>8. 0 .. n \subseteq U
  <2> HIDE DEF U, n
  <2> QED
    BY <1>1, <1>6, <1>7, Upwards
<1> DEFINE flat == [k \in 0 .. n |-> IF k = 0 THEN <<>> ELSE flatten[k]]
<1>9. flat \in [0 .. n -> Seq(S)]
  <2>1. ASSUME NEW k \in 0 .. n PROVE (IF k = 0 THEN <<>> ELSE flatten[k]) \in Seq(S)
    <3>1. k \in U /\ <<>> \in Seq(S)
      <4>1. k \in U
        <5> HIDE DEF U, n
        <5> QED
          BY <1>8
      <4> QED
        BY <4>1
    <3>2. k > 0 => flatten[k] \in Seq(S)
      BY <3>1
    <3>3. k = 0 \/ k > 0
      BY <1>1
    <3> QED
      BY <3>1, <3>2, <3>3
  <2> QED
    BY <2>1
<1>10. flat[0] = <<>>
  BY <1>1
<1>11. ASSUME NEW i \in 1 .. n PROVE flat[i] = flat[i - 1] \o seqs[i]
  <2> HIDE DEF n
  <2>1. i \in 0 .. n /\ i # 0 /\ i - 1 \in 0 .. n /\ (i # 1 => i - 1 # 0) /\ (i = 1 => i - 1 = 0)
    BY <1>1
  <2>2. flat[i] = flatten[i] /\ (i # 1 => flat[i - 1] = flatten[i - 1])
    BY <2>1
  <2>3. i = 1 => flat[i - 1] = <<>>
    BY <1>10, <2>1
  <2> HIDE DEF flat
  <2>4. <<>> \o seqs[i] = seqs[i]
    BY <1>1
  <2> QED
    BY <1>4, <2>2, <2>3, <2>4
<1>12. FlattenSeq(seqs) = flat[n]
  <2>1. n = 0 => seqs = <<>>
    OBVIOUS
  <2>2. n \in 0 .. n /\ flat[n] = IF n = 0 THEN <<>> ELSE flatten[n]
    BY <1>1
  <2> HIDE DEF flat, n
  <2> QED
    BY <1>5, <2>1, <2>2
<1>13. IsFlat(flat, S, seqs)
  <2> HIDE DEF flat
  <2> QED
    BY <1>9, <1>10, <1>11 DEF IsFlat
<1> HIDE DEF flat
<1> QED
  BY <1>12, <1>13

LEMMA FlattenIs ==
  ASSUME NEW S, NEW seqs \in Seq(Seq(S)) PROVE FlattenSeq(seqs) \in Seq(S)
<1>1. PICK flat : IsFlat(flat, S, seqs) /\ FlattenSeq(seqs) = flat[Len(seqs)]
  BY FlattenRuns
<1>2. Len(seqs) \in 0 .. Len(seqs)
  OBVIOUS
<1> QED
  BY <1>1, <1>2 DEF IsFlat

LEMMA TextIs ==
  ASSUME NEW Char, Opening \in Char, Closing \in Char, NEW p \in Seq(SegmentsOf(Char))
  PROVE  Text(p) \in Seq(Char)
<1> DEFINE braced(n) == <<Opening>> \o n \o <<Closing>>
           parts == [i \in DOMAIN p |->
                       IF ~p[i].wildcard THEN p[i].s
                       ELSE IF p[i].s \in DOMAIN <<>> THEN <<>>[p[i].s]
                       ELSE Braced(p[i].s)]
<1>1. Text(p) = FlattenSeq(parts)
  BY DEF Text, Filled
<1>2. DOMAIN p = 1 .. Len(p) /\ Len(p) \in Nat /\ \A i \in 1 .. Len(p) : p[i].s \in Seq(Char)
  BY SegmentIs
<1>3. ASSUME NEW n \in Seq(Char) PROVE Braced(n) \in Seq(Char)
  <2>1. Braced(n) = braced(n)
    BY Zenon DEF Braced, Opening, Closing
  <2>2. braced(n) \in Seq(Char)
    OBVIOUS
  <2> QED
    BY <2>1, <2>2
<1>4. ASSUME NEW i \in 1 .. Len(p) PROVE parts[i] \in Seq(Char)
  <2>1. p[i].s \in Seq(Char) /\ Braced(p[i].s) \in Seq(Char) /\ i \in DOMAIN p
    BY <1>2, <1>3
  <2>2. ~(p[i].s \in DOMAIN <<>>)
    OBVIOUS
  <2>3. parts[i] = IF ~p[i].wildcard THEN p[i].s ELSE Braced(p[i].s)
    BY <2>1, <2>2
  <2> HIDE DEF parts
  <2> QED
    BY <2>1, <2>3
<1>5. parts = [i \in 1 .. Len(p) |-> parts[i]]
  BY <1>2
<1> HIDE DEF parts
<1>6. parts \in Seq(Seq(Char))
  BY <1>2, <1>4, <1>5
<1> QED
  BY <1>1, <1>6, FlattenIs

------------------------------------------------------------------------------
LEMMA MaxIs ==
  ASSUME NEW n \in Nat, NEW S \in SUBSET (1 .. n), S # {}
  PROVE  Max(S) \in S /\ \A m \in S : m <= Max(S)
<1> DEFINE Below == {n - m : m \in S}
<1>1. Below \in SUBSET Nat /\ Below # {}
  <2>1. \A m \in S : n - m \in Nat
    OBVIOUS
  <2> QED
    BY <2>1
<1>2. PICK k \in Below : \A j \in Below : k <= j
  <2> HIDE DEF Below
  <2> QED
    BY <1>1, Smallest
<1>3. PICK x \in S : k = n - x
  OBVIOUS
<1>4. ASSUME NEW m \in S PROVE x >= m
  <2>1. n - m \in Below /\ m \in 1 .. n /\ x \in 1 .. n
    OBVIOUS
  <2>2. n - x <= n - m
    <3> HIDE DEF Below
    <3> QED
      BY <1>2, <1>3, <2>1
  <2> HIDE DEF Below
  <2> QED
    BY <2>1, <2>2
<1> DEFINE max == Max(S)
<1>5. max \in S /\ \A m \in S : max >= m
  BY <1>4 DEF Max
<1> HIDE DEF max
<1>6. \A m \in S : m <= max
  <2>1. \A m \in S : m \in Nat
    OBVIOUS
  <2>2. max \in Nat
    BY <1>5, <2>1
  <2> QED
    BY <1>5, <2>1, <2>2
<1> QED
  BY <1>5, <1>6 DEF max

(* A fold from the left takes the largest place last: the function that    *)
(* the community modules fold with exists for every number of steps.       *)
IsFold(F, n, X, base, step) ==
  /\ F \in [SUBSET (1 .. n) -> X]
  /\ \A S \in SUBSET (1 .. n) :
       F[S] = IF S = {} THEN base ELSE step[Max(S)][F[S \ {Max(S)}]]

LEMMA FoldExists ==
  ASSUME NEW n \in Nat, NEW X, NEW base \in X, NEW step \in [1 .. n -> [X -> X]]
  PROVE  \E F : IsFold(F, n, X, base, step)
<1> DEFINE Folds(k, F) ==
             /\ F \in [SUBSET (1 .. k) -> X]
             /\ \A S \in SUBSET (1 .. k) :
                  F[S] = IF S = {} THEN base ELSE step[Max(S)][F[S \ {Max(S)}]]
           T == {k \in 0 .. n : \E F : Folds(k, F)}
<1>1. 0 \in T
  <2> DEFINE F == [S \in SUBSET (1 .. 0) |-> base]
  <2>1. \A S \in SUBSET (1 .. 0) : S = {}
    OBVIOUS
  <2>2. Folds(0, F)
    BY <2>1
  <2>3. 0 \in 0 .. n
    OBVIOUS
  <2> HIDE DEF Folds, F
  <2> QED
    BY <2>2, <2>3
<1>2. ASSUME NEW k \in 1 .. n, k - 1 \in T PROVE k \in T
  <2>1. PICK F : Folds(k - 1, F)
    BY <1>2
  <2> DEFINE G == [S \in SUBSET (1 .. k) |-> IF k \in S THEN step[k][F[S \ {k}]] ELSE F[S]]
  <2>2. \A S \in SUBSET (1 .. k) : S \ {k} \in SUBSET (1 .. k - 1)
    OBVIOUS
  <2>3. \A S \in SUBSET (1 .. k) : k \notin S => S \in SUBSET (1 .. k - 1)
    OBVIOUS
  <2>4. F \in [SUBSET (1 .. k - 1) -> X] /\ \A S \in SUBSET (1 .. k - 1) :
          F[S] = IF S = {} THEN base ELSE step[Max(S)][F[S \ {Max(S)}]]
    BY <2>1
  <2>5. G \in [SUBSET (1 .. k) -> X]
    <3>1. ASSUME NEW S \in SUBSET (1 .. k)
          PROVE  (IF k \in S THEN step[k][F[S \ {k}]] ELSE F[S]) \in X
      <4>1. F[S \ {k}] \in X
        BY <2>2, <2>4
      <4>2. k \notin S => F[S] \in X
        BY <2>3, <2>4
      <4>3. step[k] \in [X -> X]
        OBVIOUS
      <4> QED
        BY <4>1, <4>2, <4>3
    <3> QED
      BY <3>1
  <2>6. ASSUME NEW S \in SUBSET (1 .. k)
        PROVE  G[S] = IF S = {} THEN base ELSE step[Max(S)][G[S \ {Max(S)}]]
    <3>1. \A R \in SUBSET (1 .. k) : k \notin R => G[R] = F[R]
      OBVIOUS
    <3>2. k \in S => G[S] = step[k][F[S \ {k}]]
      OBVIOUS
    <3> HIDE DEF G
    <3>3. CASE S = {}
      <4>1. S \in SUBSET (1 .. k - 1)
        BY <3>3
      <4> QED
        BY <2>4, <3>1, <3>3, <4>1
    <3>4. CASE S # {} /\ k \in S
      <4>1. Max(S) = k
        <5> DEFINE max == Max(S)
        <5>0. k \in Nat
          OBVIOUS
        <5>1. max \in S /\ \A m \in S : m <= max
          BY <3>4, <5>0, MaxIs
        <5> HIDE DEF max
        <5>2. max = k
          BY <3>4, <5>1
        <5> QED
          BY <5>2 DEF max
      <4>2. S \ {k} \in SUBSET (1 .. k) /\ k \notin S \ {k}
        OBVIOUS
      <4> QED
        BY <3>1, <3>2, <3>4, <4>1, <4>2
    <3>5. CASE S # {} /\ k \notin S
      <4> DEFINE R == S \ {Max(S)}
      <4>1. R \in SUBSET (1 .. k) /\ k \notin R
        BY <3>5
      <4>2. G[S] = F[S] /\ G[R] = F[R] /\ S \in SUBSET (1 .. k - 1)
        BY <2>3, <3>1, <3>5, <4>1
      <4>3. F[S] = step[Max(S)][F[R]]
        BY <2>4, <3>5, <4>2
      <4> QED
        BY <3>5, <4>2, <4>3
    <3> QED
      BY <3>3, <3>4, <3>5
  <2>7. k \in 0 .. n
    OBVIOUS
  <2>8. Folds(k, G)
    <3> HIDE DEF G
    <3> QED
      BY <2>5, <2>6
  <2> HIDE DEF Folds, G
  <2> QED
    BY <2>7, <2>8
<1>3. n \in T
  <2> HIDE DEF T
  <2>1. 0 .. n \subseteq T
    BY <1>1, <1>2, Upwards
  <2> QED
    BY <2>1
<1> QED
  BY <1>3 DEF IsFold

------------------------------------------------------------------------------
LEMMA PrefixIs ==
  ASSUME NEW S, NEW s \in Seq(S), NEW p \in Seq(S), NEW off \in Nat
  PROVE  HasPrefix(s, off, p) <=>
           off + Len(p) <= Len(s) /\ \A i \in 1 .. Len(p) : s[off + i] = p[i]
<1> DEFINE n == Len(p)  part == SubSeq(s, off + 1, off + n)
<1>1. n \in Nat /\ Len(s) \in Nat
  OBVIOUS
<1> SUFFICES ASSUME off + n <= Len(s)
             PROVE  part = p <=> \A i \in 1 .. n : s[off + i] = p[i]
  BY DEF HasPrefix
<1>2. part \in Seq(S) /\ Len(part) = n /\ \A i \in 1 .. n : part[i] = s[off + i]
  <2> HIDE DEF n
  <2>1. \A i \in off + 1 .. off + n : s[i] \in S
    BY <1>1
  <2>2. off + 1 \in Int /\ off + n \in Int
    BY <1>1
  <2>3. /\ SubSeq(s, off + 1, off + n) \in Seq(S)
        /\ Len(SubSeq(s, off + 1, off + n)) =
             IF off + 1 <= off + n THEN (off + n) - (off + 1) + 1 ELSE 0
        /\ \A i \in 1 .. (off + n) - (off + 1) + 1 :
             SubSeq(s, off + 1, off + n)[i] = s[(off + 1) + i - 1]
    BY <2>1, <2>2, SubSeqProperties
  <2>4. /\ (off + n) - (off + 1) + 1 = n /\ ~(off + 1 <= off + n) => n = 0
        /\ \A i \in 1 .. n : (off + 1) + i - 1 = off + i
    BY <1>1
  <2>5. (off + n) - (off + 1) + 1 = n
    BY <1>1
  <2> HIDE DEF part
  <2>6. Len(part) = n
    BY <2>3, <2>4, <2>5 DEF part
  <2>7. \A i \in 1 .. n : part[i] = s[off + i]
    BY <2>3, <2>4, <2>5 DEF part
  <2> QED
    BY <2>3, <2>6, <2>7 DEF part
<1> HIDE DEF part
<1>3. ASSUME \A i \in 1 .. n : s[off + i] = p[i] PROVE part = p
  <2>1. Len(part) = Len(p) /\ \A i \in 1 .. Len(part) : part[i] = p[i]
    BY <1>2, <1>3
  <2> QED
    BY <1>2, <2>1, SeqEqual
<1> QED
  BY <1>2, <1>3

------------------------------------------------------------------------------
(* What is put for the rest of s from place i on, before what is put for a *)
(* later place.                                                            *)
Rewrite(s, old, new, i, from) ==
  IF i > Len(s) THEN <<>>
  ELSE IF HasPrefix(s, i - 1, old) THEN new \o from[i + Len(old)]
  ELSE <<s[i]>> \o from[i + 1]

Rewrites(from, s, old, new) ==
  \A i \in 1 .. Len(s) + 1 : from[i] = Rewrite(s, old, new, i, from)

(* p is in s behind place low. *)
Stands(p, s, low) ==
  low + Len(p) <= Len(s) /\ \A i \in 1 .. Len(p) : s[low + i] = p[i]

(* There old begins nowhere. *)
Silent(old, p, s, low) ==
  \A i \in 1 .. Len(p) : ~HasPrefix(s, low + i - 1, old)

LEMMA RewritesOn ==
  ASSUME NEW s, Len(s) \in Nat, NEW old, Len(old) \in Nat \ {0}, NEW new,
         NEW i \in 1 .. Len(s) + 1, NEW f, NEW g,
         \A m \in i + 1 .. Len(s) + 1 : f[m] = g[m]
  PROVE  Rewrite(s, old, new, i, f) = Rewrite(s, old, new, i, g)
<1>1. HasPrefix(s, i - 1, old) => i + Len(old) \in i + 1 .. Len(s) + 1
  BY DEF HasPrefix
<1>2. i <= Len(s) => i + 1 \in i + 1 .. Len(s) + 1
  OBVIOUS
<1> QED
  BY <1>1, <1>2 DEF Rewrite

LEMMA ReplaceRuns ==
  ASSUME NEW s, Len(s) \in Nat, NEW old, Len(old) \in Nat \ {0}, NEW new
  PROVE  \E from : Rewrites(from, s, old, new) /\ ReplaceEvery(s, old, new) = from[1]
<1> DEFINE n == Len(s)
           Here(i, g) == Rewrite(s, old, new, i, g)
           Runs(k, g) == g = [i \in n + 1 - k .. n + 1 |-> Here(i, g)]
           T == {k \in 0 .. n : \E g : Runs(k, g)}
           from == CHOOSE g : Runs(n, g)
<1>0. ASSUME NEW i \in 1 .. Len(s) + 1, NEW f, NEW g,
             \A m \in i + 1 .. Len(s) + 1 : f[m] = g[m]
      PROVE  Here(i, f) = Here(i, g)
  BY <1>0, RewritesOn
<1>1. n \in T
  <2>1. n \in Nat /\ n = Len(s)
    OBVIOUS
  <2>2. 0 \in T
    <3> DEFINE g == [i \in n + 1 - 0 .. n + 1 |-> <<>>]
    <3>1. \A i \in n + 1 - 0 .. n + 1 : Here(i, g) = <<>>
      BY <2>1 DEF Rewrite
    <3> HIDE DEF Here, g
    <3>2. g = [i \in n + 1 - 0 .. n + 1 |-> Here(i, g)]
      BY <3>1 DEF g
    <3>3. 0 \in 0 .. n
      BY <2>1
    <3>4. Runs(0, g)
      BY <3>2
    <3> HIDE DEF Runs
    <3> QED
      BY <3>3, <3>4
  <2> HIDE DEF n, Here
  <2>3. ASSUME NEW k \in 1 .. n, k - 1 \in T PROVE k \in T
    <3>1. PICK g : Runs(k - 1, g)
      BY <2>3
    <3> DEFINE h == [i \in n + 1 - k .. n + 1 |-> IF i = n + 1 - k THEN Here(i, g) ELSE g[i]]
    <3>2. \A i \in n + 1 - (k - 1) .. n + 1 : g[i] = Here(i, g)
      BY <3>1
    <3>3. \A i \in n + 1 - (k - 1) .. n + 1 : h[i] = g[i]
      BY <2>1
    <3>4. ASSUME NEW i \in n + 1 - k .. n + 1 PROVE h[i] = Here(i, h)
      <4>1. \A m \in i + 1 .. n + 1 : h[m] = g[m]
        BY <2>1, <3>3
      <4>2. h[i] = Here(i, g)
        <5>1. i = n + 1 - k \/ i \in n + 1 - (k - 1) .. n + 1
          BY <2>1
        <5>2. i = n + 1 - k => h[i] = Here(i, g)
          BY <2>1
        <5> HIDE DEF h
        <5> QED
          BY <3>2, <3>3, <5>1, <5>2
      <4> HIDE DEF h
      <4>3. i \in 1 .. Len(s) + 1
        BY <2>1
      <4>4. Here(i, h) = Here(i, g)
        BY <1>0, <2>1, <4>1, <4>3
      <4> QED
        BY <4>2, <4>4
    <3>5. h = [i \in n + 1 - k .. n + 1 |-> h[i]]
      OBVIOUS
    <3> HIDE DEF h
    <3>6. Runs(k, h)
      BY <3>4, <3>5
    <3>7. k \in 0 .. n
      BY <2>1
    <3> HIDE DEF Runs
    <3> QED
      BY <3>6, <3>7
  <2> HIDE DEF T
  <2>4. 0 .. n \subseteq T
    BY <2>1, <2>2, <2>3, Upwards
  <2> QED
    BY <2>1, <2>4
<1>2. Runs(n, from)
  <2>1. \E g : Runs(n, g)
    BY <1>1
  <2> HIDE DEF Runs
  <2> QED
    BY <2>1
<1>3. \A i \in 1 .. n + 1 : from[i] = Here(i, from)
  <2>1. n + 1 - n = 1 /\ n \in Nat
    OBVIOUS
  <2> HIDE DEF from, n, Here
  <2>2. from = [i \in 1 .. n + 1 |-> Here(i, from)]
    BY <1>2, <2>1
  <2> QED
    BY <2>2
<1>4. ReplaceEvery(s, old, new) = from[1]
  <2>1. n + 1 - n = 1
    OBVIOUS
  <2>2. from = CHOOSE g : g = [i \in 1 .. n + 1 |-> Here(i, g)]
    BY <2>1
  <2> HIDE DEF from
  <2> QED
    BY <2>2, Zenon DEF ReplaceEvery, Rewrite
<1> HIDE DEF from
<1>5. Rewrites(from, s, old, new)
  BY <1>3 DEF Rewrites
<1> QED
  BY <1>4, <1>5

(* Three strings in a row, by names that the provers can match.            *)
LeftFirst(a, b, c) == (a \o b) \o c

RightFirst(a, b, c) == a \o (b \o c)

LEMMA JoinsAssociate ==
  ASSUME NEW S, NEW a \in Seq(S), NEW b \in Seq(S), NEW c \in Seq(S)
  PROVE  LeftFirst(a, b, c) = RightFirst(a, b, c)
BY ConcatAssociative DEF LeftFirst, RightFirst

LEMMA RewriteIs ==
  ASSUME NEW Char, NEW s \in Seq(Char), NEW old, Len(old) \in Nat \ {0},
         NEW new \in Seq(Char), NEW from, Rewrites(from, s, old, new)
  PROVE  \A i \in 1 .. Len(s) + 1 : from[i] \in Seq(Char)
<1> DEFINE n == Len(s)
           T == {k \in 0 .. n : \A i \in n + 1 - k .. n + 1 : from[i] \in Seq(Char)}
<1>1. n \in Nat /\ \A i \in 1 .. n : s[i] \in Char
  OBVIOUS
<1>2. 0 \in T
  <2>1. from[n + 1] = <<>>
    <3>1. n + 1 \in 1 .. Len(s) + 1 /\ n + 1 > Len(s)
      BY <1>1
    <3>2. from[n + 1] = Rewrite(s, old, new, n + 1, from)
      BY <3>1 DEF Rewrites
    <3> HIDE DEF n
    <3> QED
      BY <3>1, <3>2 DEF Rewrite
  <2>2. <<>> \in Seq(Char) /\ 0 \in 0 .. n /\ \A i \in n + 1 - 0 .. n + 1 : i = n + 1
    BY <1>1
  <2> QED
    BY <2>1, <2>2
<1>3. ASSUME NEW k \in 1 .. n, k - 1 \in T PROVE k \in T
  <2> DEFINE i == n + 1 - k
  <2>1. i \in 1 .. n /\ ~(i > Len(s)) /\ i + 1 \in i + 1 .. n + 1
    BY <1>1
  <2>2. \A m \in i + 1 .. n + 1 : from[m] \in Seq(Char)
    BY <1>1, <1>3
  <2> HIDE DEF i
  <2>3. from[i] = IF HasPrefix(s, i - 1, old) THEN new \o from[i + Len(old)]
                  ELSE <<s[i]>> \o from[i + 1]
    <3>1. i \in 1 .. Len(s) + 1
      BY <2>1
    <3>2. from[i] = Rewrite(s, old, new, i, from)
      BY <3>1 DEF Rewrites
    <3> QED
      BY <2>1, <3>2 DEF Rewrite
  <2>4. HasPrefix(s, i - 1, old) => i + Len(old) \in i + 1 .. n + 1
    BY <2>1 DEF HasPrefix
  <2> DEFINE behind == from[i + Len(old)]  next == from[i + 1]  one == <<s[i]>>
  <2>5. /\ HasPrefix(s, i - 1, old) => behind \in Seq(Char)
        /\ next \in Seq(Char) /\ one \in Seq(Char)
    BY <1>1, <2>1, <2>2, <2>4
  <2> HIDE DEF behind, next, one
  <2>6. from[i] \in Seq(Char)
    BY <2>3, <2>5 DEF behind, next, one
  <2>7. ASSUME NEW m \in n + 1 - k .. n + 1 PROVE from[m] \in Seq(Char)
    <3>1. m = n + 1 - k \/ m \in (n + 1 - k) + 1 .. n + 1
      <4> HIDE DEF n
      <4> QED
        BY <1>1
    <3> QED
      BY <2>2, <2>6, <3>1 DEF i
  <2>8. k \in 0 .. n
    BY <1>1
  <2> QED
    BY <2>7, <2>8
<1>4. n \in T
  <2> HIDE DEF T, n
  <2>1. 0 .. n \subseteq T
    BY <1>1, <1>2, <1>3, Upwards
  <2> QED
    BY <1>1, <2>1
<1> QED
  BY <1>1, <1>4

(* Where old does not begin, s stays.                                      *)
LEMMA RewriteSkips ==
  ASSUME NEW Char, NEW s \in Seq(Char), NEW old, Len(old) \in Nat \ {0},
         NEW new \in Seq(Char), NEW from, Rewrites(from, s, old, new),
         NEW low \in 0 .. Len(s), NEW p \in Seq(Char), Stands(p, s, low),
         Silent(old, p, s, low)
  PROVE  from[low + 1] = p \o from[low + Len(p) + 1]
<1> DEFINE n == Len(p)
           rest(k) == from[low + (n - k) + 1]
           left(k) == SubSeq(p, (n - k) + 1, n)
           T == {k \in 0 .. n : rest(k) = left(k) \o rest(0)}
<1>0. /\ \A i \in 1 .. Len(s) + 1 : from[i] = Rewrite(s, old, new, i, from)
      /\ \A i \in 1 .. Len(s) + 1 : from[i] \in Seq(Char)
      /\ low + n <= Len(s)
      /\ \A i \in 1 .. n : s[low + i] = p[i] /\ ~HasPrefix(s, low + i - 1, old)
  BY RewriteIs DEF Rewrites, Stands, Silent
<1>1. n \in Nat /\ n - 0 = n /\ Len(s) \in Nat
  OBVIOUS
<1>2. rest(0) \in Seq(Char) /\ \A k \in 0 .. n : rest(k) \in Seq(Char)
  BY <1>0
<1>3. 0 \in T
  <2>1. left(0) = <<>>
    BY <1>1
  <2> HIDE DEF left, rest
  <2>2. <<>> \o rest(0) = rest(0)
    BY <1>2
  <2>3. 0 \in 0 .. n
    BY <1>1
  <2> QED
    BY <2>1, <2>2, <2>3
<1>4. ASSUME NEW k \in 1 .. n, k - 1 \in T PROVE k \in T
  <2> DEFINE i == n - k + 1
  <2>1. i \in 1 .. n /\ low + i \in 1 .. Len(s) /\ (low + i) - 1 = low + i - 1
    BY <1>0, <1>1
  <2>2. from[low + i] = <<s[low + i]>> \o from[low + i + 1]
    <3> HIDE DEF i
    <3>1. low + i \in 1 .. Len(s) + 1 /\ ~(low + i > Len(s))
      BY <1>1, <2>1
    <3>2. ~HasPrefix(s, (low + i) - 1, old)
      BY <1>0, <2>1
    <3> QED
      BY <1>0, <3>1, <3>2 DEF Rewrite
  <2>3. low + i = low + (n - k) + 1 /\ low + i + 1 = low + (n - (k - 1)) + 1
    BY <1>1
  <2>4. rest(k) = <<p[i]>> \o rest(k - 1)
    <3>1. s[low + i] = p[i]
      BY <1>0, <2>1
    <3> QED
      BY <2>2, <2>3, <3>1
  <2>5. rest(k - 1) = left(k - 1) \o rest(0)
    BY <1>4
  <2>6. left(k) = <<p[i]>> \o left(k - 1)
    <3>1. left(k) = SubSeq(p, i, n) /\ left(k - 1) = SubSeq(p, i + 1, n)
      <4>1. (n - k) + 1 = i /\ (n - (k - 1)) + 1 = i + 1
        BY <1>1
      <4> QED
        BY <4>1
    <3>2. n \in i .. Len(p)
      BY <2>1
    <3> HIDE DEF left, i
    <3> QED
      BY <2>1, <3>1, <3>2, SubSeqRecursiveFirst
  <2>7. left(k - 1) \in Seq(Char) /\ <<p[i]>> \in Seq(Char)
    <3>1. \A j \in 1 .. n : p[j] \in Char
      OBVIOUS
    <3>2. p[i] \in Char
      <4> HIDE DEF i
      <4> QED
        BY <2>1, <3>1
    <3>3. (n - (k - 1)) + 1 \in 1 .. n + 1
      BY <1>1
    <3>4. \A j \in (n - (k - 1)) + 1 .. n : p[j] \in Char
      BY <1>1, <3>1
    <3>5. (n - (k - 1)) + 1 \in Int /\ n \in Int
      BY <1>1
    <3>6. left(k - 1) \in Seq(Char)
      <4> HIDE DEF n
      <4> QED
        BY <3>4, <3>5, SubSeqProperties
    <3> HIDE DEF left, i
    <3> QED
      BY <3>2, <3>6
  <2> DEFINE one == <<p[i]>>  was == left(k - 1)  end == rest(0)
  <2>8. one \in Seq(Char) /\ was \in Seq(Char) /\ end \in Seq(Char)
    BY <1>2, <2>7
  <2> HIDE DEF one, was, end, left, rest
  <2>9. one \o (was \o end) = (one \o was) \o end
    <3>1. LeftFirst(one, was, end) = RightFirst(one, was, end)
      BY <2>8, JoinsAssociate
    <3> QED
      BY <3>1 DEF LeftFirst, RightFirst
  <2>10. rest(k) = left(k) \o rest(0)
    <3> HIDE DEF left, rest, i
    <3> QED
      BY <2>4, <2>5, <2>6, <2>9 DEF one, was, end
  <2>11. k \in 0 .. n
    BY <1>1
  <2> HIDE DEF left, rest
  <2> QED
    BY <2>10, <2>11
<1>5. n \in T
  <2> HIDE DEF T, n
  <2>1. 0 .. n \subseteq T
    BY <1>1, <1>3, <1>4, Upwards
  <2> QED
    BY <1>1, <2>1
<1>6. left(n) = p /\ low + (n - n) + 1 = low + 1 /\ low + (n - 0) + 1 = low + n + 1
  BY <1>1, SubSeqFull
<1> HIDE DEF left
<1> QED
  BY <1>5, <1>6

------------------------------------------------------------------------------
(* Strings of characters that are no braces, and of any characters. *)
Braces == {Opening, Closing}

(* A piece of a template: text, or the name of a wildcard in braces. *)
IsPart(p, Char) == p \in Seq(Char) \/ \E n \in Seq(Char) : p = Wrapped(n)

LEMMA PartIs ==
  ASSUME NEW Char, NEW p, IsPart(p, Char) PROVE p \in Seq(Char \cup Braces)
<1>1. Opening \in Char \cup Braces /\ Closing \in Char \cup Braces
  BY DEF Braces
<1>2. Seq(Char) \subseteq Seq(Char \cup Braces)
  OBVIOUS
<1>3. ASSUME NEW n \in Seq(Char) PROVE Wrapped(n) \in Seq(Char \cup Braces)
  BY <1>1, <1>2, WrappedIs
<1> QED
  BY <1>2, <1>3 DEF IsPart

(* Two names in braces at one place are one.                               *)
LEMMA WrappedOnce ==
  ASSUME NEW Char, Closing \notin Char, NEW k \in Seq(Char), NEW n \in Seq(Char),
         Len(k) <= Len(n), \A i \in 1 .. Len(k) + 2 : Wrapped(k)[i] = Wrapped(n)[i]
  PROVE  k = n
<1>1. /\ Wrapped(k)[Len(k) + 2] = Closing
      /\ \A i \in 1 .. Len(k) : Wrapped(k)[i + 1] = k[i]
      /\ \A i \in 1 .. Len(n) : Wrapped(n)[i + 1] = n[i]
  <2> DEFINE S == Char \cup Braces
  <2>1. Opening \in S /\ Closing \in S /\ k \in Seq(S) /\ n \in Seq(S)
    BY DEF Braces
  <2> HIDE DEF S
  <2> QED
    BY <2>1, WrappedIs
<1>2. Len(k) \in Nat /\ Len(n) \in Nat /\ \A i \in 1 .. Len(n) : n[i] \in Char
  OBVIOUS
<1>3. ~(Len(k) < Len(n))
  <2> SUFFICES ASSUME Len(k) < Len(n) PROVE FALSE
    OBVIOUS
  <2>1. Len(k) + 1 \in 1 .. Len(n) /\ (Len(k) + 1) + 1 = Len(k) + 2
        /\ Len(k) + 2 \in 1 .. Len(k) + 2
    BY <1>2
  <2>2. n[Len(k) + 1] = Closing
    BY <1>1, <2>1
  <2> QED
    BY <1>2, <2>1, <2>2
<1>4. Len(k) = Len(n)
  BY <1>2, <1>3
<1>5. ASSUME NEW i \in 1 .. Len(k) PROVE k[i] = n[i]
  <2>1. i + 1 \in 1 .. Len(k) + 2 /\ i \in 1 .. Len(n)
    BY <1>2, <1>4
  <2> QED
    BY <1>1, <2>1
<1> QED
  BY <1>4, <1>5, SeqEqual

(* No other part has the beginning of a name in braces.                    *)
LEMMA OthersDoNotBegin ==
  ASSUME NEW Char, Opening \notin Char, Closing \notin Char,
         NEW k \in Seq(Char), NEW p, IsPart(p, Char), p # Wrapped(k),
         NEW s \in Seq(Char \cup Braces), NEW low \in 0 .. Len(s), Stands(p, s, low)
  PROVE  Silent(Wrapped(k), p, s, low)
<1> SUFFICES ASSUME NEW i \in 1 .. Len(p) PROVE ~HasPrefix(s, low + i - 1, Wrapped(k))
  BY DEF Silent
<1> DEFINE S == Char \cup Braces
           old == Wrapped(k)
<1>0. Opening \in S /\ Closing \in S /\ \A q \in Seq(Char) : q \in Seq(S)
  BY DEF Braces
<1>1. /\ old \in Seq(S) /\ Len(old) = Len(k) + 2 /\ old[1] = Opening
      /\ old[Len(k) + 2] = Closing /\ \A j \in 1 .. Len(k) : old[j + 1] = k[j]
  <2> HIDE DEF S
  <2> QED
    BY <1>0, WrappedIs
<1>2. p \in Seq(S)
  BY PartIs
<1>3. Len(k) \in Nat /\ Len(p) \in Nat /\ Len(s) \in Nat /\ low + i - 1 \in Nat
  BY <1>2
<1> HIDE DEF S, old
<1> SUFFICES ASSUME HasPrefix(s, low + i - 1, old) PROVE FALSE
  BY DEF old
<1> DEFINE off == low + i - 1
<1>4. off + Len(old) <= Len(s) /\ \A j \in 1 .. Len(old) : s[off + j] = old[j]
  <2> HIDE DEF off
  <2>1. s \in Seq(S) /\ off \in Nat /\ HasPrefix(s, off, old)
    BY <1>3 DEF off, S
  <2>2. old \in Seq(S)
    BY <1>1
  <2> HIDE DEF old
  <2> QED
    BY <2>1, <2>2, PrefixIs
<1>5. p[i] = Opening
  <2>1. 1 \in 1 .. Len(old) /\ off + 1 = low + i
    BY <1>1, <1>3
  <2>2. s[low + i] = p[i]
    BY DEF Stands
  <2> HIDE DEF off
  <2> QED
    BY <1>1, <1>4, <2>1, <2>2
<1>6. CASE p \in Seq(Char)
  BY <1>5, <1>6
<1>7. ASSUME NEW n \in Seq(Char), p = Wrapped(n) PROVE FALSE
  <2>1. /\ Len(p) = Len(n) + 2 /\ p[1] = Opening
        /\ p[Len(n) + 2] = Closing /\ \A j \in 1 .. Len(n) : p[j + 1] = n[j]
    BY <1>0, <1>7, WrappedIs
  <2>2. Len(n) \in Nat /\ \A j \in 1 .. Len(n) : n[j] \in Char
    OBVIOUS
  <2>3. i = 1
    <3>1. i # Len(n) + 2
      BY <1>5, <2>1, BracesDiffer
    <3>2. ASSUME i # 1 PROVE FALSE
      <4>1. i - 1 \in 1 .. Len(n) /\ (i - 1) + 1 = i
        BY <2>1, <2>2, <3>1, <3>2
      <4>2. n[i - 1] = Opening
        BY <1>5, <2>1, <4>1
      <4> QED
        BY <2>2, <4>1, <4>2
    <3> QED
      BY <3>2
  <2>4. \A j \in 1 .. Len(old) : j <= Len(p) => old[j] = p[j]
    <3>1. off = low
      BY <1>3, <2>3
    <3> HIDE DEF off
    <3>2. \A j \in 1 .. Len(old) : j <= Len(p) => j \in 1 .. Len(p)
      BY <1>3
    <3>3. \A j \in 1 .. Len(p) : s[low + j] = p[j]
      BY DEF Stands
    <3> QED
      BY <1>4, <3>1, <3>2, <3>3
  <2>5. CASE Len(k) <= Len(n)
    <3>1. \A j \in 1 .. Len(k) + 2 : j \in 1 .. Len(old) /\ j <= Len(p)
      BY <1>1, <1>3, <2>1, <2>2, <2>5
    <3>2. \A j \in 1 .. Len(k) + 2 : Wrapped(k)[j] = Wrapped(n)[j]
      BY <1>7, <2>4, <3>1 DEF old
    <3>3. k = n
      BY <2>5, <3>2, WrappedOnce
    <3> QED
      BY <1>7, <3>3
  <2>6. CASE Len(n) <= Len(k)
    <3>1. \A j \in 1 .. Len(n) + 2 : j \in 1 .. Len(old) /\ j <= Len(p)
      BY <1>1, <1>3, <2>1, <2>2, <2>6
    <3>2. \A j \in 1 .. Len(n) + 2 : Wrapped(n)[j] = Wrapped(k)[j]
      BY <1>7, <2>4, <3>1 DEF old
    <3>3. n = k
      BY <2>6, <3>2, WrappedOnce
    <3> QED
      BY <1>7, <3>3
  <2> QED
    BY <1>3, <2>2, <2>5, <2>6
<1> QED
  BY <1>6, <1>7 DEF IsPart

(* What a part becomes. *)
Instead(p, k, v) == IF p = Wrapped(k) THEN v ELSE p

(* What comes of s behind place low is what comes of p, then the rest.     *)
Continues(from, low, p, k, v) ==
  from[low + 1] = Instead(p, k, v) \o from[low + Len(p) + 1]

LEMMA PartIsReplaced ==
  ASSUME NEW Char, Opening \notin Char, Closing \notin Char,
         NEW k \in Seq(Char), NEW v \in Seq(Char), NEW p, IsPart(p, Char),
         NEW s \in Seq(Char \cup Braces), NEW low \in 0 .. Len(s), Stands(p, s, low),
         NEW from, Rewrites(from, s, Wrapped(k), v)
  PROVE  Continues(from, low, p, k, v)
<1> DEFINE S == Char \cup Braces
           old == Wrapped(k)
<1>0. Opening \in S /\ Closing \in S /\ \A q \in Seq(Char) : q \in Seq(S)
  BY DEF Braces
<1>1. old \in Seq(S) /\ Len(old) = Len(k) + 2 /\ Len(k) \in Nat
  <2> HIDE DEF S
  <2> QED
    BY <1>0, WrappedIs
<1>2. p \in Seq(S) /\ Len(p) \in Nat /\ Len(s) \in Nat
  <2>1. p \in Seq(S)
    BY PartIs
  <2> QED
    BY <2>1
<1>3. s \in Seq(S) /\ v \in Seq(S) /\ Len(old) \in Nat \ {0} /\ Rewrites(from, s, old, v)
  BY <1>0, <1>1
<1>4. CASE p = old
  <2>1. low + Len(old) <= Len(s) /\ \A i \in 1 .. Len(old) : s[low + i] = old[i]
    BY <1>4 DEF Stands
  <2>2. Len(old) = Len(p)
    BY <1>4
  <2> HIDE DEF S, old
  <2>3. HasPrefix(s, low, old)
    <3>1. low \in Nat
      BY <1>2
    <3> QED
      BY <1>1, <1>3, <2>1, <3>1, PrefixIs
  <2>4. /\ low + 1 \in 1 .. Len(s) + 1 /\ ~(low + 1 > Len(s)) /\ (low + 1) - 1 = low
        /\ low + 1 + Len(old) = low + Len(p) + 1
    <3>1. low \in Nat /\ Len(s) \in Nat
      BY <1>2
    <3>2. low + Len(k) + 2 <= Len(s)
      BY <1>1, <2>1, <3>1
    <3>3. Len(k) \in Nat /\ Len(p) \in Nat
      BY <1>1, <1>2
    <3>4. low + 1 \in 1 .. Len(s) + 1 /\ ~(low + 1 > Len(s)) /\ (low + 1) - 1 = low
      BY <3>1, <3>2, <3>3
    <3>5. low + 1 + Len(p) = low + Len(p) + 1
      BY <3>1, <3>3
    <3> QED
      BY <2>2, <3>4, <3>5
  <2>5. from[low + 1] = Rewrite(s, old, v, low + 1, from)
    BY <1>3, <2>4 DEF Rewrites
  <2>6. from[low + 1] = v \o from[low + 1 + Len(old)]
    BY <2>3, <2>4, <2>5 DEF Rewrite
  <2> QED
    BY <1>4, <2>4, <2>6 DEF Instead, old, Continues
<1>5. CASE p # old
  <2>1. Silent(old, p, s, low)
    BY <1>5, OthersDoNotBegin
  <2> HIDE DEF old, S
  <2>2. from[low + 1] = p \o from[low + Len(p) + 1]
    BY <1>2, <1>3, <2>1, RewriteSkips
  <2> QED
    BY <1>5, <2>2 DEF Instead, old, Continues
<1> QED
  BY <1>4, <1>5

LEMMA PrefixesOfFlat ==
  ASSUME NEW S, NEW seqs \in Seq(Seq(S)), NEW flat, IsFlat(flat, S, seqs),
         NEW i \in 0 .. Len(seqs)
  PROVE  /\ Len(flat[i]) <= Len(flat[Len(seqs)])
         /\ \A j \in 1 .. Len(flat[i]) : flat[Len(seqs)][j] = flat[i][j]
<1> DEFINE n == Len(seqs)  s == flat[n]
           Leads(t) == Len(t) <= Len(s) /\ \A j \in 1 .. Len(t) : s[j] = t[j]
           T == {k \in 0 .. n : Leads(flat[n - k])}
<1>1. n \in Nat /\ n - 0 = n /\ n \in 0 .. n
  OBVIOUS
<1>2. \A k \in 0 .. n : flat[k] \in Seq(S) /\ Len(flat[k]) \in Nat
  <2>1. \A k \in 0 .. n : flat[k] \in Seq(S)
    BY DEF IsFlat
  <2>2. \A q \in Seq(S) : Len(q) \in Nat
    OBVIOUS
  <2> HIDE DEF n
  <2> QED
    BY <2>1, <2>2
<1>3. 0 \in T
  <2>1. 0 \in 0 .. n
    BY <1>1
  <2> HIDE DEF n
  <2> QED
    BY <1>1, <1>2, <2>1
<1>4. ASSUME NEW k \in 1 .. n, k - 1 \in T PROVE k \in T
  <2> DEFINE m == n - k + 1  piece == seqs[m]  was == flat[m - 1]  is == flat[m]
  <2>1. m \in 1 .. n /\ m - 1 = n - k /\ m = n - (k - 1) /\ m - 1 \in 0 .. n /\ m \in 0 .. n
    BY <1>1
  <2>2. is = was \o piece /\ piece \in Seq(S) /\ was \in Seq(S) /\ is \in Seq(S)
    <3>1. \A j \in 1 .. n : flat[j] = flat[j - 1] \o seqs[j] /\ seqs[j] \in Seq(S)
      <4>1. \A j \in 1 .. n : flat[j] = flat[j - 1] \o seqs[j]
        BY DEF IsFlat
      <4>2. \A j \in 1 .. n : seqs[j] \in Seq(S)
        OBVIOUS
      <4> QED
        BY <4>1, <4>2
    <3> HIDE DEF n, m
    <3> QED
      BY <1>2, <2>1, <3>1
  <2>3. Leads(is)
    BY <1>4, <2>1
  <2>4. Len(s) \in Nat
    BY <1>1, <1>2
  <2> HIDE DEF m, piece, was, is, s, n
  <2>5. Len(is) = Len(was) + Len(piece) /\ \A j \in 1 .. Len(was) : is[j] = was[j]
    <3>1. \A j \in 1 .. Len(was) + Len(piece) :
            (was \o piece)[j] = IF j <= Len(was) THEN was[j] ELSE piece[j - Len(was)]
      BY <2>2, ConcatProperties
    <3>2. Len(was \o piece) = Len(was) + Len(piece)
      BY <2>2, ConcatProperties
    <3>3. Len(was) \in Nat /\ Len(piece) \in Nat
      BY <2>2
    <3>4. \A j \in 1 .. Len(was) : j \in 1 .. Len(was) + Len(piece) /\ j <= Len(was)
      BY <3>3
    <3> QED
      BY <2>2, <3>1, <3>2, <3>4
  <2>6. Len(was) \in Nat /\ Len(piece) \in Nat
    BY <2>2
  <2>7. Leads(was)
    <3>1. Len(was) <= Len(s)
      BY <2>3, <2>4, <2>5, <2>6
    <3>2. ASSUME NEW j \in 1 .. Len(was) PROVE s[j] = was[j]
      <4>1. j \in 1 .. Len(is)
        BY <2>5, <2>6
      <4> QED
        BY <2>3, <2>5, <4>1
    <3> QED
      BY <3>1, <3>2
  <2>8. k \in 0 .. n
    BY <1>1
  <2> HIDE DEF Leads
  <2> QED
    BY <2>1, <2>7, <2>8 DEF was
<1>5. 0 .. n \subseteq T
  <2> HIDE DEF T, n
  <2> QED
    BY <1>1, <1>3, <1>4, Upwards
<1>6. n - i \in 0 .. n /\ n - (n - i) = i
  BY <1>1
<1>7. n - i \in T
  <2> HIDE DEF T, n
  <2> QED
    BY <1>5, <1>6
<1>8. Leads(flat[i])
  <2> HIDE DEF Leads, n
  <2> QED
    BY <1>6, <1>7
<1> QED
  BY <1>8

LEMMA InsteadIs ==
  ASSUME NEW Char, NEW k \in Seq(Char), NEW v \in Seq(Char), NEW p, IsPart(p, Char)
  PROVE  Instead(p, k, v) \in Seq(Char \cup Braces) /\ p \in Seq(Char \cup Braces)
<1>1. p \in Seq(Char \cup Braces)
  BY PartIs
<1>2. v \in Seq(Char \cup Braces)
  OBVIOUS
<1> QED
  BY <1>1, <1>2 DEF Instead

(* A text of parts, with a value in place of a name in braces.             *)
TextOfParts(n, parts, k, v) ==
  ReplaceEvery(FlattenSeq(parts), Wrapped(k), v) =
    FlattenSeq([i \in 1 .. n |-> Instead(parts[i], k, v)])

LEMMA PartsAreReplaced ==
  ASSUME NEW Char, Opening \notin Char, Closing \notin Char,
         NEW k \in Seq(Char), NEW v \in Seq(Char),
         NEW n \in Nat, NEW parts, parts = [i \in 1 .. n |-> parts[i]],
         \A i \in 1 .. n : IsPart(parts[i], Char)
  PROVE  TextOfParts(n, parts, k, v)
<1> DEFINE S == Char \cup Braces
           new == [i \in 1 .. n |-> Instead(parts[i], k, v)]
           s == FlattenSeq(parts)
<1>1. \A i \in 1 .. n : parts[i] \in Seq(S) /\ new[i] \in Seq(S)
  BY InsteadIs
<1>2. parts \in Seq(Seq(S)) /\ Len(parts) = n /\ new \in Seq(Seq(S)) /\ Len(new) = n
  <2>1. ASSUME NEW f, f = [i \in 1 .. n |-> f[i]], \A i \in 1 .. n : f[i] \in Seq(S)
        PROVE  f \in Seq(Seq(S)) /\ Len(f) = n
    <3> HIDE DEF S
    <3>1. f \in [1 .. n -> Seq(S)]
      BY <2>1
    <3>2. ASSUME NEW Q, NEW g \in [1 .. n -> Q] PROVE g \in Seq(Q) /\ Len(g) = n
      OBVIOUS
    <3> QED
      BY <3>1, <3>2, Zenon
  <2>2. new = [i \in 1 .. n |-> new[i]]
    OBVIOUS
  <2> HIDE DEF S, new
  <2> QED
    BY <1>1, <2>1, <2>2
<1>3. \A i \in 1 .. n : new[i] = Instead(parts[i], k, v)
  OBVIOUS
<1>4. Len(Wrapped(k)) \in Nat \ {0} /\ Seq(Char) \subseteq Seq(S)
  <2>1. Opening \in S /\ Closing \in S /\ k \in Seq(S) /\ Len(k) \in Nat
    BY DEF Braces
  <2> HIDE DEF S
  <2>2. Len(Wrapped(k)) = Len(k) + 2
    BY <2>1, WrappedIs
  <2>3. Len(Wrapped(k)) \in Nat \ {0}
    BY <2>1, <2>2
  <2> QED
    BY <2>3 DEF S
<1>5. v \in Seq(S)
  BY <1>4
<1> HIDE DEF S, new
<1>6. PICK flat : IsFlat(flat, S, parts) /\ s = flat[n]
  BY <1>2, FlattenRuns
<1>7. PICK out : IsFlat(out, S, new) /\ FlattenSeq(new) = out[n]
  BY <1>2, FlattenRuns
<1> HIDE DEF s
<1>8. s \in Seq(S) /\ Len(s) \in Nat
  <2>1. n \in 0 .. n
    OBVIOUS
  <2>2. s \in Seq(S)
    BY <1>2, <1>6, <2>1 DEF IsFlat
  <2> QED
    BY <2>2
<1>9. PICK from : Rewrites(from, s, Wrapped(k), v) /\ ReplaceEvery(s, Wrapped(k), v) = from[1]
  <2> DEFINE old == Wrapped(k)
  <2>1. Len(old) \in Nat \ {0}
    BY <1>4
  <2>2. Len(s) \in Nat
    BY <1>8
  <2> HIDE DEF old
  <2>3. \E from : Rewrites(from, s, old, v) /\ ReplaceEvery(s, old, v) = from[1]
    BY <2>1, <2>2, ReplaceRuns
  <2> QED
    BY <2>3 DEF old
<1>10. \A i \in 1 .. Len(s) + 1 : from[i] \in Seq(S)
  BY <1>4, <1>5, <1>8, <1>9, RewriteIs
<1>11. ASSUME NEW p, IsPart(p, Char), NEW at \in 0 .. Len(s), Stands(p, s, at)
       PROVE  Continues(from, at, p, k, v)
  <2>1. s \in Seq(Char \cup Braces)
    BY <1>8 DEF S
  <2> QED
    BY <1>9, <1>11, <2>1, PartIsReplaced
<1> DEFINE low(i) == Len(flat[i])
           T == {i \in 0 .. n : out[i] \o from[low(i) + 1] = from[1]}
<1>12. \A i \in 0 .. n : /\ flat[i] \in Seq(S) /\ out[i] \in Seq(S)
                         /\ low(i) \in 0 .. Len(s)
                         /\ \A j \in 1 .. low(i) : s[j] = flat[i][j]
  <2>1. \A i \in 0 .. n : flat[i] \in Seq(S) /\ out[i] \in Seq(S)
    BY <1>2, <1>6, <1>7 DEF IsFlat
  <2>2. ASSUME NEW i \in 0 .. n
        PROVE  Len(flat[i]) <= Len(s) /\ \A j \in 1 .. Len(flat[i]) : s[j] = flat[i][j]
    BY <1>2, <1>6, PrefixesOfFlat
  <2>3. \A q \in Seq(S) : Len(q) \in Nat
    OBVIOUS
  <2>4. \A i \in 0 .. n : Len(flat[i]) \in Nat
    BY <2>1, <2>3
  <2> QED
    BY <1>8, <2>1, <2>2, <2>4
<1>13. 0 \in T
  <2>1. flat[0] = <<>> /\ out[0] = <<>> /\ 0 \in 0 .. n
    BY <1>6, <1>7 DEF IsFlat
  <2>2. low(0) + 1 = 1
    BY <2>1
  <2>3. from[1] \in Seq(S)
    <3>1. 1 \in 1 .. Len(s) + 1
      BY <1>8
    <3> QED
      BY <1>10, <3>1
  <2>4. <<>> \o from[1] = from[1]
    BY <2>3
  <2> QED
    BY <2>1, <2>2, <2>4
<1>14. ASSUME NEW i \in 1 .. n, i - 1 \in T PROVE i \in T
  <2> DEFINE p == parts[i]  at == low(i - 1)  is == flat[i]  was == flat[i - 1]
             old == out[i - 1]  put == Instead(p, k, v)  end == from[at + Len(p) + 1]
  <2>1. i - 1 \in 0 .. n /\ i \in 0 .. n
    OBVIOUS
  <2>2. is = was \o p /\ out[i] = old \o put
    BY <1>2, <1>3, <1>6, <1>7 DEF IsFlat
  <2>3. /\ was \in Seq(S) /\ is \in Seq(S) /\ old \in Seq(S) /\ p \in Seq(S) /\ put \in Seq(S)
        /\ at = Len(was) /\ at \in 0 .. Len(s)
    <3>1. put = new[i]
      BY <1>3
    <3> QED
      BY <1>1, <1>12, <2>1, <3>1
  <2>4. Len(is) <= Len(s) /\ \A j \in 1 .. Len(is) : s[j] = is[j]
    <3>1. low(i) \in 0 .. Len(s)
      BY <1>12, <2>1
    <3> QED
      BY <1>8, <1>12, <2>1, <3>1
  <2>5. old \o from[at + 1] = from[1]
    BY <1>14
  <2>6. low(i) = Len(is)
    OBVIOUS
  <2> HIDE DEF is, was, old, at, low, put
  <2>7. Len(is) = at + Len(p) /\ \A j \in 1 .. Len(p) : is[at + j] = p[j]
    <3>1. Len(was \o p) = Len(was) + Len(p)
      BY <2>3, ConcatProperties
    <3>2. \A j \in 1 .. Len(was) + Len(p) :
            (was \o p)[j] = IF j <= Len(was) THEN was[j] ELSE p[j - Len(was)]
      BY <2>3, ConcatProperties
    <3>3. Len(was) \in Nat /\ Len(p) \in Nat
      BY <2>3
    <3>4. ASSUME NEW j \in 1 .. Len(p) PROVE (was \o p)[Len(was) + j] = p[j]
      <4>1. /\ Len(was) + j \in 1 .. Len(was) + Len(p) /\ ~(Len(was) + j <= Len(was))
            /\ (Len(was) + j) - Len(was) = j
        BY <3>3
      <4> QED
        BY <3>2, <4>1
    <3> QED
      BY <2>2, <2>3, <3>1, <3>4
  <2>8. Stands(p, s, at) /\ IsPart(p, Char) /\ Len(p) \in Nat
    <3>1. Len(p) \in Nat /\ at \in Nat
      BY <2>3
    <3>2. ASSUME NEW j \in 1 .. Len(p) PROVE s[at + j] = p[j]
      <4>1. at + j \in 1 .. Len(is)
        BY <2>7, <3>1
      <4> QED
        BY <2>4, <2>7, <4>1
    <3>3. at + Len(p) <= Len(s)
      BY <2>4, <2>7
    <3> QED
      BY <3>1, <3>2, <3>3 DEF Stands
  <2>9. from[at + 1] = put \o end
    <3> HIDE DEF p
    <3> QED
      BY <1>11, <2>3, <2>8 DEF put, Continues
  <2>10. end \in Seq(S)
    <3>1. at + Len(p) + 1 \in 1 .. Len(s) + 1
      <4>1. at \in Nat /\ Len(p) \in Nat /\ at + Len(p) <= Len(s)
        BY <2>3, <2>8 DEF Stands
      <4> QED
        BY <1>8, <4>1
    <3> QED
      BY <1>10, <3>1
  <2>11. out[i] \o from[low(i) + 1] = from[1]
    <3>1. low(i) + 1 = at + Len(p) + 1
      BY <2>6, <2>7
    <3> HIDE DEF end, p
    <3>2. LeftFirst(old, put, end) = RightFirst(old, put, end)
      BY <2>3, <2>10, JoinsAssociate
    <3> QED
      BY <2>2, <2>5, <2>9, <3>1, <3>2 DEF LeftFirst, RightFirst, end
  <2> QED
    BY <2>1, <2>11
<1>15. n \in T
  <2> HIDE DEF T
  <2>1. 0 .. n \subseteq T
    BY <1>13, <1>14, Upwards
  <2> QED
    BY <2>1
<1>16. out[n] \o from[Len(s) + 1] = from[1]
  BY <1>6, <1>15
<1>17. from[Len(s) + 1] = <<>>
  <2>1. Len(s) + 1 \in 1 .. Len(s) + 1 /\ Len(s) + 1 > Len(s)
    BY <1>8
  <2>2. from[Len(s) + 1] = Rewrite(s, Wrapped(k), v, Len(s) + 1, from)
    BY <1>9, <2>1 DEF Rewrites
  <2> QED
    BY <2>1, <2>2 DEF Rewrite
<1>18. out[n] \o <<>> = out[n]
  <2>1. out[n] \in Seq(S)
    BY <1>12
  <2> QED
    BY <2>1, ConcatEmptySeq
<1>19. FlattenSeq(new) = from[1]
  BY <1>7, <1>16, <1>17, <1>18
<1> QED
  BY <1>9, <1>19 DEF s, new, TextOfParts

------------------------------------------------------------------------------
(* What a segment of a template becomes. *)
Part(seg, params) ==
  IF ~seg.wildcard THEN seg.s
  ELSE IF seg.s \in DOMAIN params THEN params[seg.s]
  ELSE Wrapped(seg.s)

LEMMA FilledIs ==
  ASSUME NEW Char, NEW segs \in Seq(SegmentsOf(Char)), NEW params
  PROVE  Filled(segs, params) = FlattenSeq([i \in 1 .. Len(segs) |-> Part(segs[i], params)])
<1>1. DOMAIN segs = 1 .. Len(segs)
  OBVIOUS
<1> QED
  BY <1>1, Zenon DEF Filled, Part, Braced, Wrapped, Opening, Closing

LEMMA ValuesAre ==
  ASSUME NEW Char, NEW params \in ValuesOf(Char)
  PROVE  /\ DOMAIN params \in SUBSET Seq(Char)
         /\ \A n \in DOMAIN params : params[n] \in Seq(Char)
         /\ params = [n \in DOMAIN params |-> params[n]]
BY DEF ValuesOf

LEMMA PartOfSegment ==
  ASSUME NEW Char, Opening \notin Char, Closing \notin Char,
         NEW seg \in SegmentsOf(Char), NEW params \in ValuesOf(Char),
         NEW k \in Seq(Char), k \notin DOMAIN params, NEW v \in Seq(Char)
  PROVE  /\ IsPart(Part(seg, params), Char)
         /\ Instead(Part(seg, params), k, v) = Part(seg, Put(params, k, v))
<1> DEFINE S == Char \cup Braces
<1>1. seg.s \in Seq(Char) /\ seg.wildcard \in BOOLEAN
  BY DEF SegmentsOf
<1>2. \A n \in DOMAIN params : params[n] \in Seq(Char)
  BY ValuesAre
<1>3. IsPart(Part(seg, params), Char)
  BY <1>1, <1>2 DEF IsPart, Part
<1> DEFINE put == Put(params, k, v)
<1>4. /\ DOMAIN put = DOMAIN params \cup {k} /\ put[k] = v
      /\ \A n \in DOMAIN params : n # k => put[n] = params[n]
  BY DEF Put
<1>5. ASSUME NEW q \in Seq(Char) PROVE q # Wrapped(k)
  <2>1. Opening \in S /\ Closing \in S /\ k \in Seq(S) /\ Len(k) \in Nat
    BY DEF Braces
  <2>2. Wrapped(k)[1] = Opening /\ Len(Wrapped(k)) = Len(k) + 2
    <3> HIDE DEF S
    <3> QED
      BY <2>1, WrappedIs
  <2>3. \A i \in 1 .. Len(q) : q[i] \in Char
    OBVIOUS
  <2>4. 1 \in 1 .. Len(k) + 2
    BY <2>1
  <2> QED
    BY <2>2, <2>3, <2>4
<1>6. ASSUME NEW n \in Seq(Char), Wrapped(n) = Wrapped(k) PROVE n = k
  <2>1. Len(n) <= Len(k) \/ Len(k) <= Len(n)
    OBVIOUS
  <2> QED
    BY <1>6, <2>1, WrappedOnce
<1> DEFINE name == seg.s
<1> HIDE DEF put
<1>7. CASE ~seg.wildcard
  <2>1. Part(seg, params) = name /\ Part(seg, put) = name
    BY <1>7 DEF Part
  <2> QED
    BY <1>1, <1>3, <1>5, <2>1 DEF Instead, put
<1>8. CASE seg.wildcard /\ name \in DOMAIN params
  <2>1. Part(seg, params) = params[name] /\ Part(seg, put) = put[name]
    BY <1>4, <1>8 DEF Part
  <2>2. put[name] = params[name]
    BY <1>4, <1>8
  <2>3. params[name] # Wrapped(k)
    BY <1>2, <1>5, <1>8
  <2> QED
    BY <1>3, <2>1, <2>2, <2>3 DEF Instead, put
<1>9. CASE seg.wildcard /\ name \notin DOMAIN params
  <2>1. CASE name = k
    <3>1. Part(seg, params) = Wrapped(k) /\ Part(seg, put) = put[k]
      BY <1>4, <1>9, <2>1 DEF Part
    <3> QED
      BY <1>3, <1>4, <3>1 DEF Instead, put
  <2>2. CASE name # k
    <3>1. Part(seg, params) = Wrapped(name) /\ Part(seg, put) = Wrapped(name)
      BY <1>4, <1>9, <2>2 DEF Part
    <3>2. Wrapped(name) # Wrapped(k)
      BY <1>1, <1>6, <2>2
    <3> QED
      BY <1>3, <3>1, <3>2 DEF Instead, put
  <2> QED
    BY <2>1, <2>2
<1> QED
  BY <1>1, <1>7, <1>8, <1>9

(* A name put into a template that is filled so far is one more name that  *)
(* it is filled with.                                                      *)
LEMMA FilledOnce ==
  ASSUME NEW Char, Opening \notin Char, Closing \notin Char,
         NEW segs \in Seq(SegmentsOf(Char)), NEW params \in ValuesOf(Char),
         NEW k \in Seq(Char), k \notin DOMAIN params, NEW v \in Seq(Char)
  PROVE  ReplaceEvery(Filled(segs, params), Braced(k), v) = Filled(segs, Put(params, k, v))
<1> DEFINE n == Len(segs)
           parts == [i \in 1 .. n |-> Part(segs[i], params)]
           now == [i \in 1 .. n |-> Part(segs[i], Put(params, k, v))]
<1>1. n \in Nat /\ \A i \in 1 .. n : segs[i] \in SegmentsOf(Char)
  OBVIOUS
<1>2. /\ Filled(segs, params) = FlattenSeq(parts)
      /\ Filled(segs, Put(params, k, v)) = FlattenSeq(now)
  BY FilledIs
<1>3. Braced(k) = Wrapped(k)
  BY Zenon DEF Braced, Wrapped, Opening, Closing
<1>4. \A i \in 1 .. n : IsPart(Part(segs[i], params), Char)
                        /\ Instead(Part(segs[i], params), k, v) = Part(segs[i], Put(params, k, v))
  BY <1>1, PartOfSegment
<1> HIDE DEF n
<1>5. /\ parts = [i \in 1 .. n |-> parts[i]]
      /\ \A i \in 1 .. n : IsPart(parts[i], Char)
      /\ now = [i \in 1 .. n |-> Instead(parts[i], k, v)]
  BY <1>4
<1> HIDE DEF parts, now
<1>6. TextOfParts(n, parts, k, v)
  BY <1>1, <1>5, PartsAreReplaced
<1> QED
  BY <1>2, <1>3, <1>5, <1>6 DEF TextOfParts

(* The values of some of the names. *)
Only(params, D) == [n \in D |-> params[n]]

LEMMA OnlyGrows ==
  ASSUME NEW Char, NEW params \in ValuesOf(Char), NEW D \in SUBSET DOMAIN params,
         NEW k \in DOMAIN params
  PROVE  /\ Only(params, D) \in ValuesOf(Char) /\ DOMAIN Only(params, D) = D
         /\ Put(Only(params, D), k, params[k]) = Only(params, D \cup {k})
<1>1. DOMAIN Only(params, D) = D
  BY DEF Only
<1>2. Only(params, D) \in [D -> Seq(Char)] /\ D \in SUBSET Seq(Char)
  BY ValuesAre DEF Only
<1>3. Put(Only(params, D), k, params[k]) = Only(params, D \cup {k})
  BY <1>1 DEF Put, Only
<1> QED
  BY <1>1, <1>2, <1>3 DEF ValuesOf

LEMMA ReplaceIs ==
  ASSUME NEW Char, NEW s \in Seq(Char \cup Braces), NEW k \in Seq(Char), NEW v \in Seq(Char)
  PROVE  ReplaceEvery(s, Braced(k), v) \in Seq(Char \cup Braces)
<1> DEFINE S == Char \cup Braces
           old == Wrapped(k)
<1>1. Braced(k) = old
  BY Zenon DEF Braced, Wrapped, Opening, Closing
<1>2. Opening \in S /\ Closing \in S /\ k \in Seq(S) /\ v \in Seq(S) /\ s \in Seq(S)
      /\ Len(k) \in Nat /\ Len(s) \in Nat
  BY DEF Braces
<1> HIDE DEF S
<1>3. Len(old) = Len(k) + 2
  BY <1>2, WrappedIs
<1> HIDE DEF old
<1>4. Len(old) \in Nat \ {0}
  BY <1>2, <1>3
<1>5. PICK from : Rewrites(from, s, old, v) /\ ReplaceEvery(s, old, v) = from[1]
  BY <1>2, <1>4, ReplaceRuns
<1>6. \A i \in 1 .. Len(s) + 1 : from[i] \in Seq(S)
  BY <1>2, <1>4, <1>5, RewriteIs
<1>7. from[1] \in Seq(S)
  BY <1>2, <1>6
<1> QED
  BY <1>1, <1>5, <1>7 DEF S

------------------------------------------------------------------------------
(* The values put in place of the names in the order given. *)
FoldsTo(iter, s, params, order) ==
  iter = [S \in SUBSET DOMAIN order |->
            IF S = {} THEN s
            ELSE ReplaceEvery(iter[S \ {Max(S)}], Braced(order[Max(S)]), params[order[Max(S)]])]

InOrder(s, params, order) ==
  LET iter == CHOOSE f : FoldsTo(f, s, params, order) IN iter[DOMAIN order]

LEMMA ReplacesInOrder ==
  ASSUME NEW s, NEW params
  PROVE  replaceWithParams(s, params) = {InOrder(s, params, order) : order \in SetToSeqs(DOMAIN params)}
BY Zenon DEF replaceWithParams, InOrder, FoldsTo, FoldLeft, MapThenFoldSet

LEMMA OrderFolds ==
  ASSUME NEW Char, NEW s \in Seq(Char \cup Braces), NEW params \in ValuesOf(Char),
         NEW n \in Nat, NEW order \in [1 .. n -> DOMAIN params]
  PROVE  \E iter : FoldsTo(iter, s, params, order) /\ InOrder(s, params, order) = iter[1 .. n]
<1> DEFINE X == Seq(Char \cup Braces)
           Turned(i, t) == ReplaceEvery(t, Braced(order[i]), params[order[i]])
           step == [i \in 1 .. n |-> [t \in X |-> Turned(i, t)]]
           iter == CHOOSE f : FoldsTo(f, s, params, order)
<1>1. \A i \in 1 .. n : order[i] \in Seq(Char) /\ params[order[i]] \in Seq(Char)
  BY ValuesAre
<1>2. ASSUME NEW i \in 1 .. n, NEW t \in X PROVE Turned(i, t) \in X
  BY <1>1, ReplaceIs
<1> HIDE DEF Turned, X
<1>3. step \in [1 .. n -> [X -> X]]
  BY <1>2
<1>4. \A i \in 1 .. n : \A t \in X : step[i][t] = Turned(i, t)
  OBVIOUS
<1> HIDE DEF step
<1>5. s \in X
  BY DEF X
<1>6. PICK F : IsFold(F, n, X, s, step)
  BY <1>3, <1>5, FoldExists
<1>7. ASSUME NEW S \in SUBSET (1 .. n)
      PROVE  F[S] = IF S = {} THEN s ELSE Turned(Max(S), F[S \ {Max(S)}])
  <2>1. S # {} => Max(S) \in 1 .. n
    <3>1. S # {} => Max(S) \in S
      BY MaxIs
    <3> QED
      BY <3>1
  <2>2. F[S \ {Max(S)}] \in X
    <3>1. S \ {Max(S)} \in SUBSET (1 .. n)
      OBVIOUS
    <3> QED
      BY <1>6, <3>1 DEF IsFold
  <2>3. S # {} => step[Max(S)][F[S \ {Max(S)}]] = Turned(Max(S), F[S \ {Max(S)}])
    BY <1>4, <2>1, <2>2
  <2> QED
    BY <1>6, <2>3 DEF IsFold
<1>8. DOMAIN order = 1 .. n
  OBVIOUS
<1>9. FoldsTo(F, s, params, order)
  <2>1. F = [S \in SUBSET (1 .. n) |-> IF S = {} THEN s ELSE Turned(Max(S), F[S \ {Max(S)}])]
    BY <1>6, <1>7 DEF IsFold
  <2> QED
    BY <1>8, <2>1 DEF FoldsTo, Turned
<1>10. FoldsTo(iter, s, params, order)
  BY <1>9
<1>11. InOrder(s, params, order) = iter[1 .. n]
  BY <1>8 DEF InOrder
<1> HIDE DEF iter
<1> QED
  BY <1>10, <1>11

LEMMA InOrderIs ==
  ASSUME NEW Char, Opening \notin Char, Closing \notin Char,
         NEW segs \in Seq(SegmentsOf(Char)), NEW params \in ValuesOf(Char),
         NEW n \in Nat, NEW order \in [1 .. n -> DOMAIN params],
         \A i, j \in 1 .. n : i # j => order[i] # order[j]
  PROVE  InOrder(Text(segs), params, order) = Filled(segs, Only(params, {order[i] : i \in 1 .. n}))
<1> DEFINE Names(i) == {order[j] : j \in 1 .. i}
           s == Text(segs)
<1>1. s \in Seq(Char \cup Braces)
  <2> DEFINE S == Char \cup Braces
  <2>1. Opening \in S /\ Closing \in S
    BY DEF Braces
  <2>2. segs \in Seq(SegmentsOf(S))
    <3>1. SegmentsOf(Char) \subseteq SegmentsOf(S)
      <4>1. Seq(Char) \subseteq Seq(S)
        OBVIOUS
      <4> HIDE DEF S
      <4> QED
        BY <4>1 DEF SegmentsOf
    <3> HIDE DEF S
    <3> QED
      BY <3>1
  <2> HIDE DEF S
  <2>3. Text(segs) \in Seq(S)
    BY <2>1, <2>2, TextIs
  <2> QED
    BY <2>3 DEF S
<1> HIDE DEF s
<1>2. PICK iter : FoldsTo(iter, s, params, order) /\ InOrder(s, params, order) = iter[1 .. n]
  BY <1>1, OrderFolds
<1>3. ASSUME NEW S \in SUBSET (1 .. n)
      PROVE  iter[S] = IF S = {} THEN s
                       ELSE ReplaceEvery(iter[S \ {Max(S)}], Braced(order[Max(S)]), params[order[Max(S)]])
  <2>1. DOMAIN order = 1 .. n
    OBVIOUS
  <2> QED
    BY <1>2, <2>1, Zenon DEF FoldsTo
<1> DEFINE T == {i \in 0 .. n : iter[1 .. i] = Filled(segs, Only(params, Names(i)))}
<1>4. 0 \in T
  <2>1. 1 .. 0 = {} /\ Names(0) = {} /\ 0 \in 0 .. n
    OBVIOUS
  <2>2. iter[{}] = s
    BY <1>3
  <2>3. s = Filled(segs, Only(params, {}))
    <3>1. \A seg : Part(seg, <<>>) = Part(seg, Only(params, {}))
      BY DEF Part, Only
    <3>2. [i \in 1 .. Len(segs) |-> Part(segs[i], <<>>)] =
            [i \in 1 .. Len(segs) |-> Part(segs[i], Only(params, {}))]
      BY <3>1
    <3> QED
      BY <3>2, FilledIs DEF s, Text
  <2> HIDE DEF Names
  <2> QED
    BY <2>1, <2>2, <2>3
<1>5. ASSUME NEW i \in 1 .. n, i - 1 \in T PROVE i \in T
  <2> DEFINE k == order[i]
  <2>1. (1 .. i) \in SUBSET (1 .. n) /\ 1 .. i # {} /\ (1 .. i) \ {i} = 1 .. i - 1 /\ i \in 0 .. n
    <3>1. 1 \in 1 .. i /\ i \in 0 .. n
      OBVIOUS
    <3>2. \A m \in 1 .. i : m \in 1 .. n
      OBVIOUS
    <3>3. \A m : m \in (1 .. i) \ {i} <=> m \in 1 .. i - 1
      OBVIOUS
    <3> QED
      BY <3>1, <3>2, <3>3
  <2>2. Max(1 .. i) = i
    <3> DEFINE max == Max(1 .. i)
    <3>1. max \in 1 .. i /\ \A m \in 1 .. i : m <= max
      BY <2>1, MaxIs
    <3> HIDE DEF max
    <3>2. max = i
      BY <3>1
    <3> QED
      BY <3>2 DEF max
  <2>3. iter[1 .. i] = ReplaceEvery(iter[1 .. i - 1], Braced(k), params[k])
    BY <1>3, <2>1, <2>2
  <2>4. iter[1 .. i - 1] = Filled(segs, Only(params, Names(i - 1)))
    BY <1>5
  <2>5. k \in DOMAIN params /\ Names(i - 1) \in SUBSET DOMAIN params /\ k \notin Names(i - 1)
    OBVIOUS
  <2>6. Names(i - 1) \cup {k} = Names(i)
    <3>1. 1 .. i = 1 .. i - 1 \cup {i}
      OBVIOUS
    <3> QED
      BY <3>1
  <2> HIDE DEF Names, k
  <2> DEFINE some == Only(params, Names(i - 1))
  <2>7. /\ some \in ValuesOf(Char) /\ DOMAIN some = Names(i - 1)
        /\ Put(some, k, params[k]) = Only(params, Names(i))
    BY <2>5, <2>6, OnlyGrows
  <2>8. k \in Seq(Char) /\ params[k] \in Seq(Char)
    BY <2>5, ValuesAre
  <2> HIDE DEF some
  <2>9. ReplaceEvery(Filled(segs, some), Braced(k), params[k]) = Filled(segs, Put(some, k, params[k]))
    BY <2>5, <2>7, <2>8, FilledOnce
  <2> QED
    BY <2>1, <2>3, <2>4, <2>7, <2>9 DEF some
<1>6. n \in T
  <2> HIDE DEF T
  <2>1. 0 .. n \subseteq T
    BY <1>4, <1>5, Upwards
  <2> QED
    BY <2>1
<1> QED
  BY <1>2, <1>6 DEF s

(* The names of a map can be put in an order, and every order of them has  *)
(* them all.                                                               *)
LEMMA OrdersAre ==
  ASSUME NEW D, IsFiniteSet(D)
  PROVE  /\ SetToSeqs(D) # {}
         /\ \A order \in SetToSeqs(D) :
              /\ order \in [1 .. Cardinality(D) -> D]
              /\ \A i, j \in 1 .. Cardinality(D) : i # j => order[i] # order[j]
              /\ {order[i] : i \in 1 .. Cardinality(D)} = D
<1> DEFINE n == Cardinality(D)
<1>1. n \in Nat /\ ExistsBijection(1 .. n, D)
  BY FS_CardinalityType
<1>2. IsFiniteSet(1 .. n) /\ Cardinality(1 .. n) = n
  <2>1. IsFiniteSet(1 .. n) /\ Cardinality(1 .. n) = IF 1 > n THEN 0 ELSE n - 1 + 1
    BY <1>1, FS_Interval
  <2> HIDE DEF n
  <2> QED
    BY <1>1, <2>1
<1>3. SetToSeqs(D) = {f \in [1 .. n -> D] : \A i, j \in 1 .. n : i # j => f[i] # f[j]}
  BY Zenon DEF SetToSeqs
<1>4. SetToSeqs(D) # {}
  <2>1. PICK f : f \in Bijection(1 .. n, D)
    BY <1>1 DEF ExistsBijection
  <2>2. f \in Injection(1 .. n, D)
    BY <2>1 DEF Bijection
  <2>3. f \in SetToSeqs(D)
    BY <1>3, <2>2 DEF Injection, IsInjective
  <2> QED
    BY <2>3
<1>5. ASSUME NEW order \in SetToSeqs(D)
      PROVE  /\ order \in [1 .. n -> D]
             /\ \A i, j \in 1 .. n : i # j => order[i] # order[j]
             /\ {order[i] : i \in 1 .. n} = D
  <2>1. order \in [1 .. n -> D] /\ \A i, j \in 1 .. n : i # j => order[i] # order[j]
    BY <1>3
  <2> HIDE DEF n
  <2>2. order \in Injection(1 .. n, D)
    BY <2>1 DEF Injection, IsInjective
  <2>3. Cardinality(1 .. n) = Cardinality(D)
    BY <1>2 DEF n
  <2>4. order \in Surjection(1 .. n, D)
    BY <2>2, <2>3, FS_Injection
  <2>5. \A d \in D : \E i \in 1 .. n : order[i] = d
    BY <2>4 DEF Surjection
  <2> QED
    BY <2>1, <2>5
<1> QED
  BY <1>4, <1>5

(* Whatever the order of a map, a template is filled with its values.      *)
THEOREM OrderDoesNotMatter ==
  ASSUME NEW Char, Opening \notin Char, Closing \notin Char,
         NEW segs \in Seq(SegmentsOf(Char)), NEW params \in ValuesOf(Char),
         IsFiniteSet(DOMAIN params)
  PROVE  replaceWithParams(Text(segs), params) = {Filled(segs, params)}
<1> DEFINE D == DOMAIN params  n == Cardinality(D)  s == Text(segs)
<1>1. n \in Nat
  BY FS_CardinalityType
<1>2. Only(params, D) = params
  BY ValuesAre DEF Only
<1>3. ASSUME NEW order \in SetToSeqs(D)
      PROVE  InOrder(s, params, order) = Filled(segs, params)
  <2>1. /\ order \in [1 .. n -> D]
        /\ \A i, j \in 1 .. n : i # j => order[i] # order[j]
        /\ {order[i] : i \in 1 .. n} = D
    BY OrdersAre
  <2> HIDE DEF n
  <2>2. InOrder(Text(segs), params, order) = Filled(segs, Only(params, {order[i] : i \in 1 .. n}))
    BY <1>1, <2>1, InOrderIs
  <2> QED
    BY <1>2, <2>1, <2>2
<1>4. SetToSeqs(D) # {}
  BY OrdersAre
<1>5. replaceWithParams(s, params) = {InOrder(s, params, order) : order \in SetToSeqs(D)}
  BY ReplacesInOrder
<1> HIDE DEF s, D
<1> QED
  BY <1>3, <1>4, <1>5 DEF s

------------------------------------------------------------------------------
LEMMA PutKeeps ==
  ASSUME NEW Char, NEW params \in ValuesOf(Char), NEW name \in Seq(Char), NEW value \in Seq(Char)
  PROVE  Put(params, name, value) \in ValuesOf(Char)
BY PutIs

(* What calls[i] is, before its mutates. *)
GivenTo(params, p) == Put(Put(params, GOOS, p.OS), GOARCH, p.Architecture)

LEMMA GivenAgain ==
  ASSUME NEW params, NEW p, NEW q
  PROVE  GivenTo(GivenTo(params, p), q) = GivenTo(params, q)
<1> DEFINE a == GivenTo(params, p)  b == GivenTo(a, q)  c == GivenTo(params, q)
           D == DOMAIN params
<1>1. /\ a = [n \in D \cup {GOOS} \cup {GOARCH} |->
                IF n = GOARCH THEN p.Architecture ELSE IF n = GOOS THEN p.OS ELSE params[n]]
      /\ c = [n \in D \cup {GOOS} \cup {GOARCH} |->
                IF n = GOARCH THEN q.Architecture ELSE IF n = GOOS THEN q.OS ELSE params[n]]
  BY DEF GivenTo, Put
<1> HIDE DEF a, c
<1>2. b = [n \in DOMAIN a \cup {GOOS} \cup {GOARCH} |->
             IF n = GOARCH THEN q.Architecture ELSE IF n = GOOS THEN q.OS ELSE a[n]]
  BY DEF GivenTo, Put
<1> HIDE DEF b
<1>3. DOMAIN a \cup {GOOS} \cup {GOARCH} = D \cup {GOOS} \cup {GOARCH}
  BY <1>1
<1>4. ASSUME NEW n \in D \cup {GOOS} \cup {GOARCH} PROVE b[n] = c[n]
  BY <1>1, <1>2, <1>3
<1>5. b = c
  BY <1>1, <1>2, <1>3, <1>4
<1> QED
  BY <1>5 DEF a, b, c

(* calls[i] is what the action keeps and returns for the i-th platform. *)
IsCalls(calls, params, mutates, platforms) ==
  /\ calls[0] = [params |-> params, mutates |-> <<>>]
  /\ \A i \in 1 .. Len(platforms) :
       calls[i] = GetMutates(calls[i - 1].params, PlatformOf(platforms[i]), mutates)

Built(calls, params, baseImage, platforms) ==
  [base |-> replaceWithParams(baseImage, params),
   mutates |-> [i \in 1 .. Len(platforms) |-> calls[i].mutates]]

LEMMA BuildRuns ==
  ASSUME NEW params, NEW baseImage, NEW mutates, NEW platforms, Len(platforms) \in Nat,
         DOMAIN platforms = 1 .. Len(platforms)
  PROVE  \E calls :
           /\ IsCalls(calls, params, mutates, platforms)
           /\ BuildWith(params, baseImage, mutates, platforms) =
                Built(calls, params, baseImage, platforms)
<1> DEFINE n == Len(platforms)
           first == [params |-> params, mutates |-> <<>>]
           next(i, was) == GetMutates(was.params, PlatformOf(platforms[i]), mutates)
           Runs(k, g) == g = [i \in 0 .. k |-> IF i = 0 THEN first ELSE next(i, g[i - 1])]
           T == {k \in 0 .. n : \E g : Runs(k, g)}
           calls == CHOOSE g : Runs(n, g)
<1>1. n \in T
  <2> HIDE DEF n, first, next
  <2>1. n \in Nat
    BY DEF n
  <2>2. 0 \in T
    <3>1. Runs(0, [i \in 0 .. 0 |-> first])
      OBVIOUS
    <3>2. 0 \in 0 .. n
      BY <2>1
    <3> HIDE DEF Runs
    <3> QED
      BY <3>1, <3>2
  <2>3. ASSUME NEW k \in 1 .. n, k - 1 \in T PROVE k \in T
    <3>1. PICK g : Runs(k - 1, g)
      BY <2>3
    <3> DEFINE h == [i \in 0 .. k |-> IF i = k THEN next(k, g[k - 1]) ELSE g[i]]
    <3>2. Runs(k, h)
      BY <2>1, <3>1
    <3>3. k \in 0 .. n
      BY <2>1
    <3> HIDE DEF Runs, h
    <3> QED
      BY <3>2, <3>3
  <2> HIDE DEF T
  <2>4. 0 .. n \subseteq T
    BY <2>1, <2>2, <2>3, Upwards
  <2> QED
    BY <2>1, <2>4
<1>2. Runs(n, calls)
  BY <1>1
<1>3. /\ calls[0] = first
      /\ \A i \in 1 .. n : calls[i] = next(i, calls[i - 1])
  <2> HIDE DEF first, next, calls
  <2> QED
    BY <1>2
<1>4. BuildWith(params, baseImage, mutates, platforms) =
        [base |-> replaceWithParams(baseImage, params),
         mutates |-> [i \in 1 .. n |-> calls[i].mutates]]
  BY Zenon DEF BuildWith
<1> HIDE DEF calls
<1> QED
  BY <1>3, <1>4 DEF IsCalls, Built

PlatformsOf(Char) == [OS : Seq(Char), Architecture : Seq(Char)]

(* What is built is filled: the base image with the reference's values, a  *)
(* mutate with those of its platform, too.                                 *)
IsFilled(built, segs, params, platforms) ==
  /\ built.base = {Filled(segs, params)}
  /\ \A i \in 1 .. Len(platforms) :
       built.mutates[i] = <<{Filled(segs, GivenTo(params, PlatformOf(platforms[i])))}>>

(* A template that is used for the base image and for a mutate means the   *)
(* same each time it is looked at, and for every platform.                 *)
THEOREM TemplatesAreFilled ==
  ASSUME NEW Char, Opening \notin Char, Closing \notin Char,
         "linux" \in Char, "amd64" \in Char, "GOOS" \in Char, "GOARCH" \in Char,
         NEW segs \in Seq(SegmentsOf(Char)), NEW params \in ValuesOf(Char),
         IsFiniteSet(DOMAIN params), NEW platforms \in Seq(PlatformsOf(Char))
  PROVE  IsFilled(BuildWith(params, Text(segs), <<Text(segs)>>, platforms),
                  segs, params, platforms)
<1> DEFINE n == Len(platforms)  text == Text(segs)
           built == BuildWith(params, text, <<text>>, platforms)
           at(i) == PlatformOf(platforms[i])
<1>1. n \in Nat /\ DOMAIN platforms = 1 .. n
  OBVIOUS
<1>2. PICK calls :
        /\ calls[0] = [params |-> params, mutates |-> <<>>]
        /\ \A i \in 1 .. n : calls[i] = GetMutates(calls[i - 1].params, at(i), <<text>>)
        /\ built = [base |-> replaceWithParams(text, params),
                    mutates |-> [i \in 1 .. n |-> calls[i].mutates]]
  <2> DEFINE mutates == <<text>>
  <2> HIDE DEF text, mutates
  <2>1. PICK calls : IsCalls(calls, params, mutates, platforms)
                     /\ BuildWith(params, text, mutates, platforms) =
                          Built(calls, params, text, platforms)
    BY <1>1, BuildRuns
  <2> QED
    BY <2>1 DEF IsCalls, Built, mutates
<1>3. built.base = {Filled(segs, params)}
  <2>1. built.base = replaceWithParams(text, params)
    <3> HIDE DEF built, text
    <3> QED
      BY <1>2
  <2> HIDE DEF built
  <2> QED
    BY <2>1, OrderDoesNotMatter
<1>4. ASSUME NEW i \in 1 .. n PROVE at(i) \in PlatformsOf(Char)
  <2>1. platforms[i] \in PlatformsOf(Char)
    OBVIOUS
  <2>2. [OS |-> <<"linux">>, Architecture |-> <<"amd64">>] \in PlatformsOf(Char)
    BY DEF PlatformsOf
  <2> QED
    BY <2>1, <2>2 DEF PlatformOf
<1>5. ASSUME NEW p \in PlatformsOf(Char)
      PROVE  GivenTo(params, p) \in ValuesOf(Char) /\ IsFiniteSet(DOMAIN GivenTo(params, p))
  <2>1. GOOS \in Seq(Char) /\ GOARCH \in Seq(Char) /\ p.OS \in Seq(Char) /\ p.Architecture \in Seq(Char)
    BY DEF GOOS, GOARCH, PlatformsOf
  <2> DEFINE one == Put(params, GOOS, p.OS)  two == Put(one, GOARCH, p.Architecture)
  <2>2. one \in ValuesOf(Char) /\ DOMAIN one = DOMAIN params \cup {GOOS}
    BY <2>1, PutKeeps DEF Put
  <2> HIDE DEF one
  <2>3. two \in ValuesOf(Char) /\ DOMAIN two = DOMAIN one \cup {GOARCH}
    BY <2>1, <2>2, PutKeeps DEF Put
  <2>4. IsFiniteSet(DOMAIN one)
    BY <2>2, FS_AddElement
  <2>5. IsFiniteSet(DOMAIN two)
    <3> HIDE DEF two
    <3> QED
      BY <2>3, <2>4, FS_AddElement
  <2> QED
    BY <2>3, <2>5 DEF one, GivenTo
<1> DEFINE T == {i \in 0 .. n : i > 0 => calls[i].params = GivenTo(params, at(i))}
<1> HIDE DEF text, at, built, n
<1>6. ASSUME NEW i \in 1 .. n
      PROVE  /\ calls[i].params = GivenTo(calls[i - 1].params, at(i))
             /\ calls[i].mutates = <<replaceWithParams(text, GivenTo(calls[i - 1].params, at(i)))>>
  <2> DEFINE was == calls[i - 1].params
  <2>1. calls[i] = GetMutates(was, at(i), <<text>>)
    BY <1>2
  <2> HIDE DEF was
  <2>2. GetMutates(was, at(i), <<text>>).params = GivenTo(was, at(i))
    BY DEF GetMutates, GivenTo
  <2>3. GetMutates(was, at(i), <<text>>).mutates =
          [j \in DOMAIN <<text>> |-> replaceWithParams(<<text>>[j], GivenTo(was, at(i)))]
    BY DEF GetMutates, GivenTo
  <2>4. [j \in DOMAIN <<text>> |-> replaceWithParams(<<text>>[j], GivenTo(was, at(i)))] =
          <<replaceWithParams(text, GivenTo(was, at(i)))>>
    OBVIOUS
  <2> QED
    BY <2>1, <2>2, <2>3, <2>4 DEF was
<1>7. 0 \in T
  BY <1>1 DEF n
<1>8. ASSUME NEW i \in 1 .. n, i - 1 \in T PROVE i \in T
  <2>1. n \in Nat
    BY <1>1 DEF n
  <2>2. calls[i].params = GivenTo(calls[i - 1].params, at(i))
    BY <1>6
  <2>3. CASE i = 1
    <3>1. calls[i - 1].params = params
      BY <1>2, <2>3
    <3> QED
      BY <2>1, <2>2, <2>3, <3>1
  <2>4. CASE i # 1
    <3>1. i - 1 > 0
      BY <2>1, <2>4
    <3>2. calls[i - 1].params = GivenTo(params, at(i - 1))
      BY <1>8, <3>1
    <3>3. calls[i].params = GivenTo(params, at(i))
      BY <2>2, <3>2, GivenAgain
    <3> QED
      BY <2>1, <3>3
  <2> QED
    BY <2>3, <2>4
<1>9. 0 .. n \subseteq T
  <2>1. n \in Nat
    BY <1>1 DEF n
  <2> HIDE DEF T
  <2> QED
    BY <1>7, <1>8, <2>1, Upwards
<1>10. ASSUME NEW i \in 1 .. n
       PROVE  built.mutates[i] = <<{Filled(segs, GivenTo(params, at(i)))}>>
  <2>1. n \in Nat
    BY <1>1 DEF n
  <2>2. calls[i].params = GivenTo(params, at(i))
    <3>1. i \in 0 .. n /\ i > 0
      BY <2>1
    <3> QED
      BY <1>9, <3>1
  <2>3. GivenTo(calls[i - 1].params, at(i)) = GivenTo(params, at(i))
    BY <1>6, <2>2
  <2>4. replaceWithParams(text, GivenTo(params, at(i))) = {Filled(segs, GivenTo(params, at(i)))}
    <3> DEFINE given == GivenTo(params, at(i))
    <3>1. at(i) \in PlatformsOf(Char)
      BY <1>4 DEF n
    <3>2. given \in ValuesOf(Char) /\ IsFiniteSet(DOMAIN given)
      BY <1>5, <3>1
    <3> HIDE DEF given
    <3>3. replaceWithParams(text, given) = {Filled(segs, given)}
      BY <3>2, OrderDoesNotMatter DEF text
    <3> QED
      BY <3>3 DEF given
  <2>5. built.mutates[i] = calls[i].mutates
    BY <1>2
  <2> QED
    BY <1>6, <2>3, <2>4, <2>5
<1> QED
  BY <1>3, <1>10 DEF text, built, n, at, IsFilled
================================================================================
