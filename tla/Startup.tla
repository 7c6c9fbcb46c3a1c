-------------------------------- MODULE Startup --------------------------------
(***************************************************************************)
(* Command jitdi before it serves: the config files are read, a client for *)
(* the cluster is made, and NewHandler keeps the rules that parse. A file  *)
(* is [opens, docs], a document [kind, name, spec] of kind "image",        *)
(* "registry", "empty", "malformed" or "foreign" (another version or       *)
(* kind); an image whose match string does not parse has the spec          *)
(* "garbled".                                                              *)
(***************************************************************************)
EXTENDS Naturals, Sequences, FiniteSets, SequencesExt

Refused == [ok |-> FALSE, images |-> <<>>, registries |-> <<>>]

Nothing == [ok |-> TRUE, images |-> <<>>, registries |-> <<>>]

(* One turn of the loop of loadConfig. An empty document is skipped; one   *)
(* that is not an Image or a Registry of this version is an error.         *)
Decode(read, doc) ==
  IF ~read.ok \/ doc.kind \in {"malformed", "foreign"} THEN Refused
  ELSE [ok |-> TRUE,
        images |-> read.images \o (IF doc.kind = "image" THEN <<doc>> ELSE <<>>),
        registries |-> read.registries \o (IF doc.kind = "registry" THEN <<doc>> ELSE <<>>)]

(* Mutant: a document that is empty ends the file. *)
loadConfigToEmpty(docs) ==
  LET before == {i \in DOMAIN docs : \A j \in 1 .. i : docs[j].kind # "empty"} IN
  FoldLeft(Decode, Nothing, SubSeq(docs, 1, Cardinality(before)))

loadConfig(docs) == FoldLeft(Decode, Nothing, docs)

(* One turn of the loop of loadConfigFile: the first error is returned. *)
LoadFile(read, file) ==
  LET one == IF file.opens THEN loadConfig(file.docs) ELSE Refused IN
  IF ~read.ok \/ ~one.ok THEN Refused
  ELSE [ok |-> TRUE, images |-> read.images \o one.images,
        registries |-> read.registries \o one.registries]

loadConfigFile(files) == FoldLeft(LoadFile, Nothing, files)

(* The rules of the images whose match string parses. (They are sorted,    *)
(* see patternLess: their order is not that of the files.)                 *)
WithImageConfig(images) == {c.spec : c \in Range(images)} \ {"garbled"}

(* A map from names, into which one object after the other is written. *)
WithRegistryConfig(registries) ==
  LET called(name) == {i \in DOMAIN registries : registries[i].name = name} IN
  [name \in {c.name : c \in Range(registries)} |-> registries[Max(called(name))].spec]

(* kubeconfig is "" or whether a client can be made of it; outside of it,  *)
(* being no part of a cluster is no error.                                 *)
main(files, kubeconfig, inCluster) ==
  LET conf == loadConfigFile(files) IN
  IF ~conf.ok \/ kubeconfig = "bad" THEN [serves |-> FALSE]
  ELSE [serves |-> TRUE,
        imageRules |-> WithImageConfig(conf.images),
        registryRules |-> WithRegistryConfig(conf.registries),
        watches |-> kubeconfig = "good" \/ (kubeconfig = "" /\ inCluster)]
================================================================================
