------------------------------ MODULE MCLocalStore -----------------------------
(***************************************************************************)
(* Small caches: the image "single" and the index "multi" mutated from one *)
(* base layer, a model they share, and a directory of two files that are   *)
(* packed at one path.                                                     *)
(***************************************************************************)
EXTENDS LocalStore, TLC

CONSTANTS base, model, file, twin, single, multi

(* The two files of the directory share the link file of the first. *)
OneDirectory == [s \in Sources |-> IF s = twin THEN file ELSE s]

(* The model's link file is shared by both images, and base by everything. *)
PerPlatform ==
  [i \in {single, multi} |->
     IF i = single THEN <<<<base, model>>>>
                   ELSE <<<<base, model>>, <<file, twin>>>>]

(* The link file of the directory is shared by both images. *)
SharedDirectory ==
  [i \in {single, multi} |->
     IF i = single THEN <<<<file, twin>>>> ELSE <<<<base, model>>, <<file, twin>>>>]

Symmetric == Permutations(Builds) \cup Permutations(Contents)
==============================================================================
