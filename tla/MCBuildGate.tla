----------------------------- MODULE MCBuildGate -----------------------------
(***************************************************************************)
(* Small instances of BuildGate. The names are real references: two        *)
(* spellings of one image, as name.ParseReference reads them, beside one   *)
(* that is already the path it is filed under.                             *)
(***************************************************************************)
EXTENDS BuildGate

PlainNames == {"library/alpine:3", "k8s/alpine/kubectl:1"}

(* A repository with a path and no registry host is filed as it stands. *)
FiledAsAsked == [n \in PlainNames |-> n]

AliasNames == {"library/alpine:3", "alpine:3"}

(* Docker Hub's default: one component is filed under library/. *)
FiledInLibrary == [n \in AliasNames |-> "library/alpine:3"]
==============================================================================
