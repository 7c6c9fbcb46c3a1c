------------------------------ MODULE MCFunctions ------------------------------
(***************************************************************************)
(* What the server computes without state, over bounded inputs: package    *)
(* pattern (MCPattern and what rules do), the files that sources become,   *)
(* the config files, the paths of requests.                                *)
(***************************************************************************)
EXTENDS MCPattern, Action, Sources, Startup, Routing

CONSTANTS
  MaxTemplate,  \* bound: segments of a template
  MaxDepth,     \* bound: names of a path in a directory
  MaxLeaves,    \* bound: what a directory holds, not counting directories
  MaxDocuments  \* bound: documents of a config file

Subsets(S, low, high) ==
  {T \in SUBSET S : IsFiniteSet(T) /\ Cardinality(T) \in low .. high}

(* Templates name wildcards of the rule, the platform, or neither; a rule  *)
(* may have a wildcard GOOS, too. An index is built for its platforms, a   *)
(* single image for none.                                                  *)
Templates ==
  {p \in Strings({Literal(<<"a">>), Literal(<<"b">>), Wildcard(<<"a">>),
                  Wildcard(<<"c">>), Wildcard(GOOS), Wildcard(GOARCH)}, 1, MaxTemplate) :
     \A i \in 1 .. Len(p) - 1 : p[i].wildcard \/ p[i + 1].wildcard}

Values == UNION {[D -> {<<>>, <<"b", "a">>}] : D \in SUBSET {<<"a">>, GOOS}}

IndexOf ==
  Strings({[OS |-> <<"linux">>, Architecture |-> <<a>>] : a \in {"amd64", "arm64"}}, 1, 2)

Substitutions ==
  [template : Templates, params : Values, platforms : IndexOf \cup {<<NoPlatform>>}]

(* Directories of files and directories that cannot be read, none inside   *)
(* another; and what else a source can be.                                 *)
Leaves ==
  {L \in Subsets(Strings({1, 2}, 1, MaxDepth), 0, MaxLeaves) :
     \A p, q \in L : ~IsStrictPrefix(p, q)}

Directory(files, locked) ==
  [kind |-> "directory", base |-> <<1>>, found |-> TRUE, files |-> files, locked |-> locked]

Unreadable == Directory({<<1>>}, {<<>>})

Directories == (UNION {{Directory(L \ K, K) : K \in SUBSET L} : L \in Leaves}) \cup {Unreadable}

FileSources ==
  Directories \cup
  [kind : {"url", "file", "symlink", "absent"}, base : {<<>>, <<1>>}, found : BOOLEAN,
   files : {{}}, locked : {{}}]

Destination == <<9>>

(* Models as their registry has them at the time of a build; a blob of one *)
(* may be in another.                                                      *)
ModelVersions ==
  {[manifest |-> "m1", config |-> "c1", layers |-> <<"l1">>],
   [manifest |-> "m2", config |-> "c2", layers |-> <<"l1", "l2">>]}

Models ==
  [Model : {<<"h", ":", "5000", "x", ":", "t">>, <<"x", ":", "t">>},
   WorkDir : {<<"v">>, <<"w">>},
   ModelName : {<<>>, <<"y">>, <<"x", "t">>}]

(* Images and registries, two of one name with different specs. *)
Documents ==
  [kind : {"image"}, name : {"n"}, spec : {"s", "t", "garbled"}] \cup
  [kind : {"registry"}, name : {"n"}, spec : {"s", "t"}] \cup
  [kind : {"registry"}, name : {"m"}, spec : {"s"}] \cup
  [kind : {"empty", "malformed", "foreign"}, name : {"n"}, spec : {"s"}]

ConfigFiles ==
  [opens : {TRUE}, docs : Strings(Documents, 0, MaxDocuments)] \cup
  [opens : {FALSE}, docs : {<<>>}]

Startups ==
  [files : Strings(ConfigFiles, 0, 2), kubeconfig : {"", "good", "bad"}, inCluster : BOOLEAN]

RuleTexts ==
  {Text(p) : p \in {q \in Strings({Literal(<<"a">>), Literal(<<":">>),
                                   Literal(<<"a">> \o Latest), Wildcard(<<"n">>)}, 1, 3) : Apart(q)}}

(* What clients ask for, whatever the components of an image are called,   *)
(* with rules of which one may be named like the reference.                *)
ClientRequests ==
  [method : {"GET", "PUT"}, kind : {"blobs", "manifests", "tags"},
   image : Strings({<<"a">>, <<"v2">>, <<"blobs">>, <<"manifests">>}, 1, 2),
   last : {<<"l">>, <<"blobs">>, <<"manifests">>, <<"sha256:", "d">>},
   forwards : BOOLEAN, named : BOOLEAN, others : {{}} \cup {{t} : t \in RuleTexts}]
  \cup
  [method : {"HEAD"}, kind : {"manifests"}, image : {<<<<"a">>>>}, last : {<<"l">>},
   forwards : BOOLEAN, named : {TRUE}, others : {{t, u} : t, u \in RuleTexts}]

AllInit ==
  \/ Init
  \/ /\ \/ call = "substitute" /\ input \in Substitutions
        \/ call = "pack" /\ input \in [source : FileSources, slash : BOOLEAN]
        \/ call = "model" /\ input \in [before : Models, was : ModelVersions,
                                        now : Models, is : ModelVersions]
        \/ call = "start" /\ input \in Startups
        \/ call = "route" /\ input \in ClientRequests
     /\ output = <<>>

Called(c) ==
  /\ call = c /\ output = <<>>
  /\ UNCHANGED <<call, input>>

(* One template for the base image and for a field of a mutate. *)
Substitute ==
  /\ Called("substitute")
  /\ LET text == Text(input.template) IN
     output' = <<BuildWith(input.params, text, <<text>>, input.platforms)>>

Pack ==
  /\ Called("pack")
  /\ output' = <<tarAny(input.source, Destination, input.slash)>>

(* Two builds with one cache: a link file of the first answers for a layer *)
(* of the second, as for a layer that the second has had before.           *)
PackModel ==
  /\ Called("model")
  /\ LET first == tarModel(input.was, input.before)
         second == tarModel(input.is, input.now)
         keyed(files, o) ==
           [i \in DOMAIN files |-> [files[i] EXCEPT !.Path = sumOllamaLayerInfo(@, o)]]
         all == keyed(first, input.before) \o keyed(second, input.now) IN
     output' = <<[p \in {second[i].Path : i \in DOMAIN second} |->
                    InImage(all, sumOllamaLayerInfo(p, input.now))]>>

Start ==
  /\ Called("start")
  /\ output' = <<main(input.files, input.kubeconfig, input.inCluster)>>

Route ==
  /\ Called("route")
  /\ LET path == <<<<"v2">>>> \o input.image \o <<<<input.kind>>, input.last>>
         own == IF input.named THEN {RefOf(input.image, input.last)} ELSE {}
         stored == input.last[1] = "sha256:" IN
     output' = <<ServeHTTP(input.method, path, input.forwards, own \cup input.others, stored)>>

AllNext == Next \/ Substitute \/ Pack \/ PackModel \/ Start \/ Route

AllSpec == AllInit /\ [][AllNext]_vars
------------------------------------------------------------------------------
(* A template has one meaning: every wildcard of the match is replaced by  *)
(* its value and nothing else is, whatever order the map is ranged over in *)
(* and whatever platforms the action was asked for before. (Names and      *)
(* values have no braces here: a value with one comes of a reference that  *)
(* name.ParseReference refuses before a mutate is looked at.)              *)
TemplatesExpand ==
  call = "substitute" /\ output # <<>> =>
    /\ output[1].base = {Filled(input.template, input.params)}
    /\ \A i \in DOMAIN input.platforms :
         LET p == PlatformOf(input.platforms[i])
             values == Put(Put(input.params, GOOS, p.OS), GOARCH, p.Architecture) IN
         output[1].mutates[i] = <<{Filled(input.template, values)}>>

(* What is packed is whole: unless it is an error, every file of a source  *)
(* is among the files that become layers, under its own name. But for a    *)
(* directory that cannot be read or is a link: it becomes no layer at all. *)
(* (What link files then make of these layers is OwnContent's subject.)    *)
PacksEveryFile ==
  call = "pack" /\ output # <<>> =>
    LET source == input.source
        made == {output[1].files[i] : i \in DOMAIN output[1].files}
        named == Destination \o source.base
        silent == source.kind = "symlink" \/ <<>> \in source.locked IN
    IF source.kind = "directory"
      THEN /\ ~output[1].ok <=> source.locked # {} /\ ~silent
           /\ output[1].ok /\ ~silent =>
                \A f \in source.files : File(Destination \o f, f) \in made
    ELSE output[1].ok /\ ~silent =>
           made = {File(IF input.slash THEN named ELSE Destination, <<>>)}

(* README.md: the server will pull the model and build the corresponding   *)
(* image, so a file of a directory is what it was at its place there. It   *)
(* is not: a file deeper down is packed under the directory, too, before   *)
(* the file of that name that belongs there, and its link file is taken.   *)
OwnContent ==
  call = "pack" /\ output # <<>> /\ output[1].ok /\ input.source.kind = "directory"
    /\ input.source.locked = {} =>
      \A f \in input.source.files : InImage(output[1].files, Destination \o f) = f

(* Two models with one cache never mix: every file of the second is its    *)
(* own content at its own path, also where both have the path, unless they *)
(* are one model that its registry has changed: the path of its manifest   *)
(* is the same, and the old one is remembered for it.                      *)
ModelIsWhole ==
  call = "model" /\ output # <<>> =>
    LET place(image, o) ==
          sumOllamaLayerInfo(tarManifest(image, o.Model, o.WorkDir, o.ModelName).Path, o)
        files == tarModel(input.is, input.now)
        changed == /\ input.was # input.is
                   /\ place(input.was, input.before) = place(input.is, input.now) IN
    \A i \in DOMAIN files :
      output[1][files[i].Path] = files[i].from \/ (changed /\ i = 1)

(* How documents are spread over files and what stands between them makes  *)
(* no difference; all of them count, or the server does not start: every   *)
(* image whose match string parses is a rule, and of the registries of one *)
(* name the last in the order of the files is the one in effect.           *)
DocumentsAddUp ==
  call = "start" /\ output # <<>> =>
    LET files == input.files
        at == UNION {{i} \X DOMAIN files[i].docs : i \in DOMAIN files}
        doc(p) == files[p[1]].docs[p[2]]
        after(q, p) == q[1] > p[1] \/ (q[1] = p[1] /\ q[2] > p[2])
        bad == \/ \E i \in DOMAIN files : ~files[i].opens
               \/ \E p \in at : doc(p).kind \in {"malformed", "foreign"}
        images == {p \in at : doc(p).kind = "image"}
        registries == {p \in at : doc(p).kind = "registry"} IN
    /\ output[1].serves <=> ~bad /\ input.kubeconfig # "bad"
    /\ output[1].serves =>
         /\ output[1].imageRules = {doc(p).spec : p \in images} \ {"garbled"}
         /\ DOMAIN output[1].registryRules = {doc(p).name : p \in registries}
         /\ \A p \in registries :
              (\E q \in registries : after(q, p) /\ doc(q).name = doc(p).name)
              \/ output[1].registryRules[doc(p).name] = doc(p).spec

(* What a client asks for is what a handler is given, even of an image    *)
(* with components called blobs or manifests; and a rule that names a      *)
(* reference, with or without the tag latest, is the one it is given to,   *)
(* whatever else matches and wherever the informer lists it.               *)
RequestMeetsItsRule ==
  call = "route" /\ output # <<>> =>
    LET digest == input.last[1] = "sha256:"
        ref == RefOf(input.image, input.last)
        byTag == input.kind = "manifests" /\ ~digest
        handler ==
          CASE byTag -> <<"localManifests", "forwardManifest">>
            [] input.kind = "blobs" -> <<"serveBlob", "forwardBlob">>
            [] OTHER -> <<"serveManifest", "forwardManifestBlob">>
        refused == output[1].to \in {"NAME_UNKNOWN", "BLOB_UNKNOWN", "UNSUPPORTED"} IN
    /\ input.method # "PUT" /\ input.kind # "tags" /\ (digest \/ (byTag /\ input.named)) =>
         ~refused
    /\ ~refused =>
         /\ output[1].image = input.image /\ output[1].last = input.last
         /\ output[1].to = handler[IF input.forwards THEN 2 ELSE 1]
         /\ byTag /\ input.named =>
              \A r \in output[1].rules : r = ref \/ r \o Latest = ref
================================================================================
