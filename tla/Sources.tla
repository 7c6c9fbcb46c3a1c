-------------------------------- MODULE Sources --------------------------------
(***************************************************************************)
(* Packages files and ollama: the files that a source becomes in an image, *)
(* each a layer of its own, and the link key under which the local cache   *)
(* remembers that layer. A path is a sequence of names; names are numbers, *)
(* in the order a directory lists them.                                    *)
(*                                                                         *)
(* A file source is a record: kind "url", "file", "directory", "symlink"   *)
(* (to a directory) or "absent"; base, the last name of its path (<<>> for *)
(* a URL without one); found, whether HEAD is answered with 200; for a     *)
(* directory the paths of its files and of the directories that cannot be  *)
(* read (<<>> is itself).                                                  *)
(***************************************************************************)
EXTENDS Naturals, Sequences, FiniteSets, SequencesExt

File(at, from) == [Path |-> at, from |-> from]

None == [ok |-> FALSE, files |-> <<>>]

Some(files) == [ok |-> TRUE, files |-> files]

(* The entries of a tree below its root: what leads to a file or to a      *)
(* directory that cannot be read.                                          *)
EntriesOf(source) ==
  (UNION {Prefixes(p) : p \in source.files \cup source.locked}) \ {<<>>}

(* The order of filepath.Walk. *)
Before(p, q) ==
  \/ IsStrictPrefix(p, q)
  \/ \E i \in 1 .. Len(p) : /\ i <= Len(q) /\ p[i] < q[i]
                            /\ SubSeq(p, 1, i - 1) = SubSeq(q, 1, i - 1)

(* (SetToSortSeq looks at all orders of S.) *)
Walk(S) ==
  [n \in 1 .. Cardinality(S) |->
     CHOOSE e \in S : Cardinality({d \in S : Before(d, e)}) = n - 1]

(* Mutant: files directly in a directory only. *)
tarDirFlat(source, hostPath, newPath) ==
  LET children == {e \in source.files : Len(e) = Len(hostPath) + 1
                                        /\ IsStrictPrefix(hostPath, e)}
      entry(e) == File(newPath \o <<Last(e)>>, e) IN
  [i \in 1 .. Cardinality(children) |-> entry(Walk(children)[i])]

(* Every entry that Walk comes by, at any depth, is put right under        *)
(* newPath: a file as it is, a directory by walking it once more.          *)
tarDirToDir(source, hostPath, newPath) ==
  LET below(d) == Walk({e \in EntriesOf(source) : IsStrictPrefix(d, e)})
      under[d \in EntriesOf(source) \cup {<<>>}] ==
        LET part(e) == IF e \in source.files THEN <<File(<<Last(e)>>, e)>>
                       ELSE LET sub == under[e] IN
                            [i \in DOMAIN sub |-> File(<<Last(e)>> \o sub[i].Path, sub[i].from)]
        IN FlattenSeq([i \in DOMAIN below(d) |-> part(below(d)[i])])
      all == under[hostPath]
  IN [i \in DOMAIN all |-> File(newPath \o all[i].Path, all[i].from)]

(* A directory that cannot be read stops the walk, but the one the walk    *)
(* begins at is skipped, and so is a link, which Walk does not follow.     *)
tarLocal(source, newPath, slash) ==
  LET inDir == newPath \o source.base IN
  CASE source.kind = "absent" -> None
    [] source.kind = "file" -> Some(<<File(IF slash THEN inDir ELSE newPath, <<>>)>>)
    [] source.kind = "symlink" -> Some(<<>>)
    [] source.kind = "directory" ->
         IF <<>> \in source.locked THEN Some(<<>>)
         ELSE IF source.locked # {} THEN None
         ELSE Some(tarDirToDir(source, <<>>, newPath))

(* path.Join drops the name that a URL does not have. *)
tarRemote(source, newPath, slash) ==
  IF ~source.found THEN None
  ELSE Some(<<File(IF slash THEN newPath \o source.base ELSE newPath, <<>>)>>)

tarAny(source, newPath, slash) ==
  IF source.kind = "url" THEN tarRemote(source, newPath, slash)
  ELSE tarLocal(source, newPath, slash)

(* The bytes at a path of the image, all layers being new to the cache:    *)
(* the link file of a path is written for the first layer there, and what  *)
(* it says is taken for the later ones, which have the same key.           *)
InImage(files, at) ==
  files[Min({i \in DOMAIN files : files[i].Path = at})].from

------------------------------------------------------------------------------
(* Models. A model's manifest, config and layers are digests of content; a *)
(* name may have a ":" among its names.                                    *)

(* strings.Replace(modelName, ":", "/", 1), between names: the first ":"   *)
(* parts two names as "/" does.                                            *)
tarManifest(image, modelPath, workDir, modelName) ==
  LET called == IF modelName = <<>> THEN modelPath ELSE modelName IN
  File(workDir \o <<"manifests">> \o RemoveFirst(called, ":"), image.manifest)

(* Mutant: every model's config has one path. *)
tarConfigFixed(image, workDir) ==
  File(workDir \o <<"blobs", "config">>, image.config)

tarConfig(image, workDir) ==
  File(workDir \o <<"blobs", image.config>>, image.config)

tarLayer(layer, workDir) == File(workDir \o <<"blobs", layer>>, layer)

tarModel(image, o) ==
  <<tarManifest(image, o.Model, o.WorkDir, o.ModelName), tarConfig(image, o.WorkDir)>>
  \o [i \in DOMAIN image.layers |-> tarLayer(image.layers[i], o.WorkDir)]

(* The link key leaves out the name and what the registry has for Model. *)
sumOllamaLayerInfo(mount, o) == <<mount, o.Model, o.WorkDir>>
================================================================================
