------------------------------ MODULE MCForward ------------------------------
(***************************************************************************)
(* A small instance of Forward: a name whose base is an index, and one     *)
(* whose base is a single image; registries that ask for credentials, and  *)
(* a config file that corrects an object of another.                       *)
(***************************************************************************)
EXTENDS Forward

IndexName == "k8s/alpine/kubectl:1"

ForwardNames == {IndexName, "llama-cpp/llama-2:7b"}

UnderItself == [n \in ForwardNames |-> n]

Wanted == [n \in ForwardNames |-> IF n = IndexName THEN 2 ELSE 0]

Objects ==
  <<[name |-> "index.docker.io", auth |-> "docker.io"],
    [name |-> "storage.local", auth |-> NoOne],
    [name |-> "storage.local", auth |-> "storage.local"]>>
==============================================================================
