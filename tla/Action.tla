-------------------------------- MODULE Action --------------------------------
(***************************************************************************)
(* Package pattern, what a rule does with a reference: which rule it meets *)
(* first, and what becomes of the templates of that rule, the base image   *)
(* and the fields of its mutates. A reference's values are a function from *)
(* names to values; Go ranges over them in an order of its own each time,  *)
(* so substitution has a set of results.                                   *)
(***************************************************************************)
EXTENDS Pattern, SequencesExt

GOOS == <<"GOOS">>

GOARCH == <<"GOARCH">>

(* newRule and Rule.Match: the action for a reference, if there is one. *)
MatchRule(match, ref) ==
  LET parsed == parsePattern(match)
      m == matchSegments(parsed.segs, ref) IN
  [ok |-> parsed.ok /\ m.ok, params |-> m.params]

(* The rules a reference may be given to, rules being those match strings  *)
(* that parse: sorted by patternLess, however the sort leaves those that   *)
(* tie, the first that matches is taken.                                   *)
RuleTaken(rules, ref) ==
  LET segs(r) == parsePattern(r).segs
      matching == {r \in rules : MatchRule(r, ref).ok} IN
  {r \in matching : \A q \in matching : ~patternLess(segs(q), segs(r))}

(* strings.ReplaceAll, from left to right. (ReplaceAllSubSeqs looks at all *)
(* the ways to cut s.)                                                     *)
ReplaceEvery(s, old, new) ==
  LET from[i \in 1 .. Len(s) + 1] ==
        IF i > Len(s) THEN <<>>
        ELSE IF HasPrefix(s, i - 1, old) THEN new \o from[i + Len(old)]
        ELSE <<s[i]>> \o from[i + 1]
  IN from[1]

(* Every order of the names, one after the other, in what the one before   *)
(* has left.                                                               *)
replaceWithParams(s, params) ==
  LET step(t, k) == ReplaceEvery(t, Braced(k), params[k]) IN
  {FoldLeft(step, s, order) : order \in SetToSeqs(DOMAIN params)}

(* Mutant: a platform that is there already stays. *)
GetMutatesOnce(params, platform, mutates) ==
  LET now == params @@ (GOOS :> platform.OS) @@ (GOARCH :> platform.Architecture) IN
  [params |-> now,
   mutates |-> [i \in DOMAIN mutates |-> replaceWithParams(mutates[i], now)]]

(* The platform is written into the values that all calls of the action    *)
(* share, over a wildcard of that name, too.                               *)
GetMutates(params, platform, mutates) ==
  LET now == Put(Put(params, GOOS, platform.OS), GOARCH, platform.Architecture) IN
  [params |-> now,
   mutates |-> [i \in DOMAIN mutates |-> replaceWithParams(mutates[i], now)]]

(* A single image has no platform. *)
NoPlatform == [OS |-> <<>>, Architecture |-> <<>>]

PlatformOf(p) ==
  IF p = NoPlatform THEN [OS |-> <<"linux">>, Architecture |-> <<"amd64">>] ELSE p

(* buildAndSave with an action: the base image first, then the mutates for *)
(* one platform after the other.                                           *)
BuildWith(params, baseImage, mutates, platforms) ==
  LET calls[i \in 0 .. Len(platforms)] ==
        IF i = 0 THEN [params |-> params, mutates |-> <<>>]
        ELSE GetMutates(calls[i - 1].params, PlatformOf(platforms[i]), mutates)
  IN [base |-> replaceWithParams(baseImage, params),
      mutates |-> [i \in DOMAIN platforms |-> calls[i].mutates]]

------------------------------------------------------------------------------
(* What the properties compare with. *)

(* Text with wildcards for which there is nothing to put stays as it is. *)
Filled(segs, params) ==
  FlattenSeq([i \in DOMAIN segs |->
    IF ~segs[i].wildcard THEN segs[i].s
    ELSE IF segs[i].s \in DOMAIN params THEN params[segs[i].s]
    ELSE Braced(segs[i].s)])

Text(segs) == Filled(segs, <<>>)
================================================================================
