-------------------------------- MODULE Pattern --------------------------------
(***************************************************************************)
(* Package pattern as functions: a rule's match string is parsed into      *)
(* literal segments and wildcards, a reference is matched against them     *)
(* from left to right, and patternLess puts the rules in the order they    *)
(* are tried. Strings are sequences of characters.                         *)
(***************************************************************************)
EXTENDS Naturals, Sequences, FiniteSets, TLC

CONSTANT Latest  \* the tag put behind a match string that has none

(* It is a string. *)
ASSUME LatestAssumption == Latest \in Seq({Latest[i] : i \in DOMAIN Latest})

Literal(s) == [s |-> s, wildcard |-> FALSE]

Wildcard(n) == [s |-> n, wildcard |-> TRUE]

Least(S) == CHOOSE n \in S : \A m \in S : n <= m

(* The first place of c in s, from place i on; behind s if there is none. *)
Find(s, i, c) == Least({j \in i .. Len(s) : s[j] = c} \cup {Len(s) + 1})

(* Mutant: "{}" is a wildcard without a name. *)
parseEmptyNames(s) ==
  LET ahead(seg, rest) == [ok |-> rest.ok, segs |-> <<seg>> \o rest.segs]
      from[i \in 1 .. Len(s) + 1] ==
        IF i > Len(s) THEN [ok |-> TRUE, segs |-> <<>>]
        ELSE LET opens == s[i] = "{"
                 j == Find(s, i, IF opens THEN "}" ELSE "{") IN
             IF ~opens THEN ahead(Literal(SubSeq(s, i, j - 1)), from[j])
             ELSE IF j > Len(s) THEN [ok |-> FALSE, segs |-> <<>>]
             ELSE ahead(Wildcard(SubSeq(s, i + 1, j - 1)), from[j + 1])
  IN from[1]

(* What is before a "{" is a literal, what is between it and the next "}"  *)
(* a wildcard's name. A name that is empty or never ends is an error.      *)
parseSegments(s) ==
  LET ahead(seg, rest) == [ok |-> rest.ok, segs |-> <<seg>> \o rest.segs]
      from[i \in 1 .. Len(s) + 1] ==
        IF i > Len(s) THEN [ok |-> TRUE, segs |-> <<>>]
        ELSE LET opens == s[i] = "{"
                 j == Find(s, i, IF opens THEN "}" ELSE "{") IN
             IF ~opens THEN ahead(Literal(SubSeq(s, i, j - 1)), from[j])
             ELSE IF j > Len(s) \/ j = i + 1 THEN [ok |-> FALSE, segs |-> <<>>]
             ELSE ahead(Wildcard(SubSeq(s, i + 1, j - 1)), from[j + 1])
  IN from[1]

parsePattern(s) ==
  parseSegments(IF \E i \in DOMAIN s : s[i] = ":" THEN s ELSE s \o Latest)

------------------------------------------------------------------------------
(* params[name] = value *)
Put(params, name, value) ==
  [n \in DOMAIN params \cup {name} |-> IF n = name THEN value ELSE params[n]]

(* strings.HasPrefix(s[off:], p) *)
HasPrefix(s, off, p) ==
  off + Len(p) <= Len(s) /\ SubSeq(s, off + 1, off + Len(p)) = p

(* Mutant: a value has at least one character. *)
LaterEnd(s, off, next) ==
  Least({e \in off + 1 .. Len(s) : HasPrefix(s, e, next.s)} \cup {Len(s)})

(* Where a wildcard's value ends: where the string of the next segment,    *)
(* literal or the name of a wildcard, is found first, else with s.         *)
ValueEnd(s, off, next) ==
  Least({e \in off .. Len(s) : HasPrefix(s, e, next.s)} \cup {Len(s)})

(* Mutant: what is left of the reference behind the last segment is let be. *)
matchPrefix(segs, s) ==
  LET after[i \in 0 .. Len(segs)] ==
        IF i = 0 THEN [ok |-> TRUE, off |-> 0, params |-> <<>>]
        ELSE LET was == after[i - 1]
                 seg == segs[i]
                 end == IF i = Len(segs) THEN Len(s)
                        ELSE ValueEnd(s, was.off, segs[i + 1]) IN
             IF ~was.ok THEN was
             ELSE IF seg.wildcard
               THEN [was EXCEPT !.off = end,
                                !.params = Put(@, seg.s, SubSeq(s, was.off + 1, end))]
               ELSE [was EXCEPT !.ok = HasPrefix(s, was.off, seg.s),
                                !.off = @ + Len(seg.s)]
  IN after[Len(segs)]

(* after[i] is what the loop knows behind its i-th segment. A later value  *)
(* replaces an earlier one of the same name.                               *)
matchSegments(segs, s) ==
  LET after[i \in 0 .. Len(segs)] ==
        IF i = 0 THEN [ok |-> TRUE, off |-> 0, params |-> <<>>]
        ELSE LET was == after[i - 1]
                 seg == segs[i]
                 end == IF i = Len(segs) THEN Len(s)
                        ELSE ValueEnd(s, was.off, segs[i + 1]) IN
             IF ~was.ok THEN was
             ELSE IF seg.wildcard
               THEN [was EXCEPT !.off = end,
                                !.params = Put(@, seg.s, SubSeq(s, was.off + 1, end))]
               ELSE [was EXCEPT !.ok = HasPrefix(s, was.off, seg.s),
                                !.off = @ + Len(seg.s)]
      last == after[Len(segs)]
  IN [last EXCEPT !.ok = @ /\ last.off = Len(s)]

------------------------------------------------------------------------------
(* The places where both have a literal, of different lengths. *)
Differ(p1, p2) ==
  {i \in DOMAIN p1 \cap DOMAIN p2 :
     ~p1[i].wildcard /\ ~p2[i].wildcard /\ Len(p1[i].s) # Len(p2[i].s)}

(* Mutant: only a rule that is one literal is put before the others. *)
patternLessOneSided(p1, p2) ==
  IF Len(p1) # Len(p2) /\ Len(p1) = 1 THEN TRUE
  ELSE IF p1[1].wildcard # p2[1].wildcard THEN ~p1[1].wildcard
  ELSE IF Differ(p1, p2) # {}
    THEN LET i == Least(Differ(p1, p2)) IN Len(p1[i].s) > Len(p2[i].s)
  ELSE Len(p1) > Len(p2)

(* A rule of one segment is first, then one that begins with a literal,    *)
(* then one with a longer literal at the first place where they differ,    *)
(* then the one of more segments.                                          *)
patternLess(p1, p2) ==
  IF Len(p1) # Len(p2) /\ 1 \in {Len(p1), Len(p2)} THEN Len(p1) = 1
  ELSE IF p1[1].wildcard # p2[1].wildcard THEN ~p1[1].wildcard
  ELSE IF Differ(p1, p2) # {}
    THEN LET i == Least(Differ(p1, p2)) IN Len(p1[i].s) > Len(p2[i].s)
  ELSE Len(p1) > Len(p2)

------------------------------------------------------------------------------
(* What the properties compare with. *)

Braced(n) == <<"{">> \o n \o <<"}">>

Free(s, c) == \A i \in DOMAIN s : s[i] # c

(* The pieces of s if it is cut behind the places K. *)
Pieces(s, K) ==
  LET upTo[i \in 0 .. Len(s)] ==
        IF i = 0 THEN <<>>
        ELSE LET was == upTo[i - 1] IN
             IF i = 1 \/ i - 1 \in K THEN was \o <<<<s[i]>>>>
             ELSE [was EXCEPT ![Len(was)] = @ \o <<s[i]>>]
  IN upTo[Len(s)]

(* Segments a match string may be read as: literals without "{", wildcards *)
(* with a name that has no "}", no two literals side by side.              *)
IsReading(segs, pieces) ==
  /\ Len(segs) = Len(pieces)
  /\ \A i \in DOMAIN segs :
       IF segs[i].wildcard
         THEN /\ pieces[i] = Braced(segs[i].s)
              /\ segs[i].s # <<>> /\ Free(segs[i].s, "}")
         ELSE /\ pieces[i] = segs[i].s /\ Free(segs[i].s, "{")
              /\ (i = 1 \/ segs[i - 1].wildcard)

(* A reference is an instance of a pattern if it can be cut into values    *)
(* and the literals between them.                                          *)
IsInstance(segs, s) ==
  \E cut \in [0 .. Len(segs) -> 0 .. Len(s)] :
    /\ cut[0] = 0 /\ cut[Len(segs)] = Len(s)
    /\ \A i \in DOMAIN segs :
         /\ cut[i - 1] <= cut[i]
         /\ ~segs[i].wildcard => SubSeq(s, cut[i - 1] + 1, cut[i]) = segs[i].s

(* The pattern with values in place of its wildcards. *)
Expand(segs, params) ==
  LET upTo[i \in 0 .. Len(segs)] ==
        IF i = 0 THEN <<>>
        ELSE upTo[i - 1] \o IF segs[i].wildcard THEN params[segs[i].s] ELSE segs[i].s
  IN upTo[Len(segs)]

Distinct(segs) ==
  \A i, j \in DOMAIN segs :
    segs[i].wildcard /\ segs[j].wildcard /\ segs[i].s = segs[j].s => i = j

(* Wildcards have a literal between them. *)
Apart(segs) ==
  \A i \in 1 .. Len(segs) - 1 : segs[i].wildcard # segs[i + 1].wildcard
================================================================================
