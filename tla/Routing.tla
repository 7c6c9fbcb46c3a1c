-------------------------------- MODULE Routing --------------------------------
(***************************************************************************)
(* ServeHTTP and the handlers behind it, up to where the work begins. A    *)
(* path is the sequence of its components behind the first "/", the last   *)
(* empty if it ends in "/"; a component is a sequence of characters, where *)
(* the words that count are one character each.                            *)
(***************************************************************************)
EXTENDS Action

To(handler, image, last, rules) ==
  [to |-> handler, image |-> image, last |-> last, rules |-> rules]

Error(code) == To(code, <<>>, <<>>, {})

(* image + ":" + tag *)
RefOf(image, tag) ==
  FlattenSeq([i \in DOMAIN image |-> IF i = 1 THEN image[i] ELSE <<"/">> \o image[i]])
  \o <<":">> \o tag

(* A digest is looked up, a tag goes to its rule; rules are match strings. *)
manifests(image, tag, forwards, rules) ==
  LET taken == RuleTaken(rules, RefOf(image, tag)) IN
  IF HasPrefix(tag, 0, <<"sha256:">>)
    THEN To(IF forwards THEN "forwardManifestBlob" ELSE "serveManifest", image, tag, {})
  ELSE IF taken = {} THEN Error("NAME_UNKNOWN")
  ELSE To(IF forwards THEN "forwardManifest" ELSE "localManifests", image, tag, taken)

(* A local blob is looked for by its digest alone. *)
blobs(image, hash, forwards, stored) ==
  IF forwards THEN To("forwardBlob", image, hash, {})
  ELSE IF stored THEN To("serveBlob", image, hash, {})
  ELSE Error("BLOB_UNKNOWN")

(* Mutant: the kind of request is looked for from the left. *)
ServeHTTPFromLeft(method, path, forwards, rules, stored) ==
  LET kinds == {i \in 2 .. Len(path) - 1 : path[i] \in {<<"blobs">>, <<"manifests">>}}
      at == Least(kinds)
      image == SubSeq(path, 2, at - 1)
      last == path[Len(path)] IN
  IF Len(path) < 2 \/ path[1] # <<"v2">> THEN Error("NAME_UNKNOWN")
  ELSE IF method \notin {"GET", "HEAD"} THEN Error("UNSUPPORTED")
  ELSE IF path = <<<<"v2">>, <<>>>> THEN To("version", <<>>, <<>>, {})
  ELSE IF kinds = {} THEN Error("NAME_UNKNOWN")
  ELSE IF path[at] = <<"blobs">> THEN blobs(image, last, forwards, stored)
  ELSE manifests(image, last, forwards, rules)

(* The kind of request is the last component but one, what is before it    *)
(* the image, whatever its components are called.                          *)
ServeHTTP(method, path, forwards, rules, stored) ==
  LET n == Len(path)
      image == SubSeq(path, 2, n - 2) IN
  IF n < 2 \/ path[1] # <<"v2">> THEN Error("NAME_UNKNOWN")
  ELSE IF method \notin {"GET", "HEAD"} THEN Error("UNSUPPORTED")
  ELSE IF path = <<<<"v2">>, <<>>>> THEN To("version", <<>>, <<>>, {})
  ELSE IF n < 3 THEN Error("NAME_UNKNOWN")
  ELSE CASE path[n - 1] = <<"blobs">> -> blobs(image, path[n], forwards, stored)
         [] path[n - 1] = <<"manifests">> -> manifests(image, path[n], forwards, rules)
         [] OTHER -> Error("NAME_UNKNOWN")
================================================================================
