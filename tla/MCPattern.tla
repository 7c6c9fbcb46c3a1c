------------------------------- MODULE MCPattern -------------------------------
(***************************************************************************)
(* Package pattern over bounded inputs: every match string, every pattern  *)
(* with every reference, every three patterns.                             *)
(***************************************************************************)
EXTENDS Pattern

CONSTANTS
  MaxText,     \* bound: characters of a match string
  MaxRef,      \* bound: characters of a reference
  MaxSegments  \* bound: segments of a pattern

VARIABLES
  call,    \* the function called
  input,   \* what it is called with
  output   \* <<what it returned>>, <<>> before the call

vars == <<call, input, output>>

LatestTag == <<":", "l">>

Strings(chars, low, high) == UNION {[1 .. n -> chars] : n \in low .. high}

(* Patterns as parseSegments makes them, over few characters. *)
Patterns(segs) ==
  {p \in Strings(segs, 1, MaxSegments) :
     \A i \in 1 .. Len(p) - 1 : p[i].wildcard \/ p[i + 1].wildcard}

MatchStrings == Strings({"{", "}", ":", "a"}, 0, MaxText)

(* Names share characters with the references, since matchSegments looks   *)
(* for names too.                                                          *)
Matches ==
  [segs : Patterns({Literal(l) : l \in Strings({"a", "b"}, 1, 2)} \cup
                   {Wildcard(<<"a">>), Wildcard(<<"c">>)}),
   s : Strings({"a", "b"}, 0, MaxRef)]

(* Only lengths of literals count. *)
Triples ==
  [1 .. 3 -> {p \in Patterns({Literal(<<"a">>), Literal(<<"a", "a">>),
                              Wildcard(<<"n">>)}) : Apart(p)}]

Init ==
  /\ \/ call = "parse" /\ input \in MatchStrings
     \/ call = "match" /\ input \in Matches
     \/ call = "order" /\ input \in Triples
  /\ output = <<>>

Parse ==
  /\ call = "parse" /\ output = <<>>
  /\ output' = <<parsePattern(input)>>
  /\ UNCHANGED <<call, input>>

Match ==
  /\ call = "match" /\ output = <<>>
  /\ output' = <<matchSegments(input.segs, input.s)>>
  /\ UNCHANGED <<call, input>>

(* Each of three patterns is compared with each. *)
Order ==
  /\ call = "order" /\ output = <<>>
  /\ output' = <<{p \in (1 .. 3) \X (1 .. 3) : patternLess(input[p[1]], input[p[2]])}>>
  /\ UNCHANGED <<call, input>>

Next == Parse \/ Match \/ Order

Spec == Init /\ [][Next]_vars
------------------------------------------------------------------------------
(* parsePattern reads a match string, with the tag it may lack, in the one *)
(* way there is to read it, and refuses it only when there is none.        *)
ParsesTheOneReading ==
  call = "parse" /\ output # <<>> =>
    LET s == IF Free(input, ":") THEN input \o Latest ELSE input
        readings == {Pieces(s, K) : K \in SUBSET (1 .. Len(s) - 1)}
        pieces(segs) == [i \in DOMAIN segs |->
                           IF segs[i].wildcard THEN Braced(segs[i].s) ELSE segs[i].s]
        segs(p) == [i \in DOMAIN p |->
                      IF p[i][1] = "{" THEN Wildcard(SubSeq(p[i], 2, Len(p[i]) - 1))
                                       ELSE Literal(p[i])]
        valid == {p \in readings : IsReading(segs(p), p)} IN
    /\ Cardinality(valid) <= 1
    /\ output[1].ok <=> valid # {}
    /\ output[1].ok => pieces(output[1].segs) \in valid

(* A match is one: the values found put the reference together again, so   *)
(* {tag} in a base image or a path stands for what was asked for.          *)
ValuesRebuild ==
  call = "match" /\ output # <<>> /\ output[1].ok =>
    /\ IsInstance(input.segs, input.s)
    /\ Distinct(input.segs) => Expand(input.segs, output[1].params) = input.s

(* A pattern that ends in a wildcard, its wildcards apart, matches every   *)
(* reference it should: the shortest value is always a good choice. (One   *)
(* that ends in a literal does not: {a}-x leaves b-x-x unmatched.)         *)
OpenEndedComplete ==
  call = "match" /\ output # <<>> =>
    LET openEnded == Apart(input.segs) /\ input.segs[Len(input.segs)].wildcard IN
    openEnded => (output[1].ok <=> IsInstance(input.segs, input.s))

(* sort.Slice needs a strict weak order. patternLess is one as long as     *)
(* wildcards are apart; else the order rules are tried in would depend on  *)
(* the order the informer's store lists them in.                           *)
StrictWeakOrder ==
  call = "order" /\ output # <<>> =>
    LET less(i, j) == <<i, j>> \in output[1]
        tied(i, j) == ~less(i, j) /\ ~less(j, i) IN
    /\ ~less(1, 1)
    /\ less(1, 2) /\ less(2, 3) => less(1, 3)
    /\ tied(1, 2) /\ tied(2, 3) => tied(1, 3)
================================================================================
