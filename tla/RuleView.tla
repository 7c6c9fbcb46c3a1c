------------------------------- MODULE RuleView -------------------------------
(***************************************************************************)
(* What the rule cache promises the handlers that look rules up: one view  *)
(* of the rules at a time, for everybody. The view only moves on, and a    *)
(* lookup returns the view of one moment between its call and its return,  *)
(* unless it is cut off without a result.                                  *)
(***************************************************************************)
EXTENDS Naturals

CONSTANTS
  Lookups,  \* handler goroutines, each looking rules up again and again
  NoRules   \* no result

VARIABLES
  view,   \* version of the rules in force, 0 for those of the config files
  stage,  \* stage[l]: "idle", or the lookup is "asked" or "returning"
  result  \* result[l]: the version l returns, or returned last

vars == <<view, stage, result>>

Init ==
  /\ view = 0
  /\ stage = [l \in Lookups |-> "idle"]
  /\ result = [l \in Lookups |-> NoRules]

(* The view moves on by itself, past any number of versions. *)
Advance ==
  /\ view' \in Nat /\ view' > view
  /\ UNCHANGED <<stage, result>>

Ask(l) ==
  /\ stage[l] = "idle"
  /\ stage' = [stage EXCEPT ![l] = "asked"]
  /\ result' = [result EXCEPT ![l] = NoRules]
  /\ UNCHANGED view

Read(l) ==
  /\ stage[l] = "asked"
  /\ stage' = [stage EXCEPT ![l] = "returning"]
  /\ result' = [result EXCEPT ![l] = view]
  /\ UNCHANGED view

CutOff(l) ==
  /\ stage[l] = "asked"
  /\ stage' = [stage EXCEPT ![l] = "returning"]
  /\ UNCHANGED <<view, result>>

Return(l) ==
  /\ stage[l] = "returning"
  /\ stage' = [stage EXCEPT ![l] = "idle"]
  /\ UNCHANGED <<view, result>>

Next == Advance \/ \E l \in Lookups : Ask(l) \/ Read(l) \/ CutOff(l) \/ Return(l)

Spec == Init /\ [][Next]_vars
==============================================================================
