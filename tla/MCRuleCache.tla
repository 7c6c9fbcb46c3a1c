------------------------------ MODULE MCRuleCache ------------------------------
(***************************************************************************)
(* A cluster of two objects that come and go. The spec they may have is a  *)
(* rule: one that does not parse would count like no object at all.        *)
(***************************************************************************)
EXTENDS RuleCache
================================================================================
