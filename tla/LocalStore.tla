------------------------------ MODULE LocalStore ------------------------------
(***************************************************************************)
(* Builds writing to the cache directory: the local pusher, the layers     *)
(* that remember their digest in link files, and the atomic package that   *)
(* both write small files with. Each read or write of the disk is a step,  *)
(* so builds interleave on it, the server can die between any two, and a   *)
(* write can fail in the ways its code lets it.                            *)
(*                                                                         *)
(* A content stands for everything computed from it: its digest, its       *)
(* diffID and its size. Whether two of them belong together is equality.   *)
(***************************************************************************)
EXTENDS Naturals, Sequences, FiniteSets

CONSTANTS
  Builds,      \* calls of buildAndSave, each made once
  Images,      \* image:tag names, each filed under itself
  Sources,     \* what a layer is made of: a base layer or one mutated file
  BaseLayers,  \* the sources that are layers of a base image
  FirstOf,     \* FirstOf[s]: the first source walked that has the link file of s
  Contents,    \* contents of a source
  Recipe,      \* Recipe[i]: for each platform of i, the sources of its layers
  Indexes,     \* the images whose base image is an index
  MaxChanges,  \* bound: how often a source may change while the cache lives
  MaxFaults,   \* bound: at how many steps the disk may fail
  MaxCrashes,  \* bound: how often the server may die and restart
  None,        \* no value, no file
  Junk,        \* a link file that does not decode
  Cut          \* a file cut short, or a size decoded from one

ASSUME StoreAssumption ==
  /\ BaseLayers \subseteq Sources
  /\ FirstOf \in [Sources -> Sources]
  /\ \A s \in Sources : FirstOf[FirstOf[s]] = FirstOf[s]
  /\ \A s \in BaseLayers, t \in Sources : FirstOf[t] = s <=> t = s
  /\ Recipe \in [Images -> Seq(Seq(Sources))]
  (* The files of a mutate are walked in one order, whatever the image. *)
  /\ \A i \in Images : \A p \in DOMAIN Recipe[i] : \A k \in DOMAIN Recipe[i][p] :
       \E j \in 1 .. k : Recipe[i][p][j] = FirstOf[Recipe[i][p][k]]
  /\ Indexes \subseteq Images
  /\ \A i \in Images \ Indexes : Len(Recipe[i]) = 1
  /\ MaxChanges \in Nat /\ MaxFaults \in Nat /\ MaxCrashes \in Nat
  /\ {None, Junk, Cut} \cap Contents = {}
  /\ None \notin {Junk, Cut} /\ Junk # Cut
  /\ {None, Junk} \cap
       [digest : Contents, diff : Contents, size : Contents \cup {Cut}] = {}

VARIABLES
  content,  \* content[s]: what source s holds now
  layers,   \* contents whose layer blob is in the cache
  docs,     \* configs, manifests and indexes whose blob is whole
  torn,     \* those whose blob is cut short
  link,     \* link[s]: the link file of s, the first of those that have it
  tag,      \* tag[i]: the manifest.json of image i
  pc,       \* pc[b]: where build b is
  image,    \* image[b]: what b builds
  at,       \* at[b]: the platform and the layer b is at
  mem,      \* mem[b]: b's cacheFileLayer objects for that platform
  want,     \* want[b]: digest the layer claims before it is read
  made,     \* made[b]: manifests b has made, one per platform
  spent     \* changes, faults and crashes so far

disk == <<layers, docs, torn, link, tag>>
vars == <<content, disk, pc, image, at, mem, want, made, spent>>

Config(diffs) == [kind |-> "config", diffs |-> diffs]
Manifest(diffs, descs) == [kind |-> "manifest", config |-> Config(diffs), layers |-> descs]
Index(ms) == [kind |-> "index", parts |-> ms]

(* Mutant: the link file is given the size of the layer before compression. *)
LinkToUncompressed(c, size) == [digest |-> c, diff |-> c, size |-> Cut]

LinkTo(c, size) == [digest |-> c, diff |-> c, size |-> size]

Decodes(l) == l \notin {None, Junk}

(* Mutant: the path digests where the file goes but not where it is from. *)
LinkOfDestination(s) == CHOOSE f \in Sources \ BaseLayers : TRUE

(* The file that records what a source's layer was. Its path is where the  *)
(* file is packed, under a digest of the mutate's source, destination and  *)
(* mode. Files of one directory that are packed at one path share it.      *)
LinkOf(s) == FirstOf[s]

Unread == [own |-> None, diff |-> None, size |-> None]

SourceOf(b, k) == Recipe[image[b]][at[b].part][k]

Source(b) == SourceOf(b, at[b].layer)

Layer(b) == mem[b][at[b].layer]

Live == {"queued", "link", "stat", "copy", "sum", "encode", "rename",
         "compute", "config", "blob", "index", "tag"}

Init ==
  /\ content \in [Sources -> Contents]
  /\ layers = {} /\ docs = {} /\ torn = {}
  /\ link = [s \in Sources |-> None]
  /\ tag = [i \in Images |-> None]
  /\ pc = [b \in Builds |-> "idle"]
  /\ image = [b \in Builds |-> None]
  /\ at = [b \in Builds |-> [part |-> 0, layer |-> 0]]
  /\ mem = [b \in Builds |-> <<>>]
  /\ want = [b \in Builds |-> None]
  /\ made = [b \in Builds |-> <<>>]
  /\ spent = [changes |-> 0, faults |-> 0, crashes |-> 0]

Goto(b, to) == pc' = [pc EXCEPT ![b] = to]

(* What may come of a step's write: "ok", or a fault within the bound.     *)
Comes(outcome) ==
  /\ outcome # "ok" => spent.faults < MaxFaults
  /\ spent' = [spent EXCEPT !.faults = IF outcome = "ok" THEN @ ELSE @ + 1]

(* atomic.WriteFile writes a temporary file and renames it. "none": no     *)
(* temporary file, an error. "cut": the copy fails, and the deferred Close *)
(* renames what there is over the target before the error returns.         *)
(* "lost": the rename fails and its error is dropped, nil returns.         *)
WriteFile == {"ok", "none", "cut", "lost"}
Failed(outcome) == outcome \in {"none", "cut"}

PutDoc(d, outcome) ==
  \/ outcome = "ok"  /\ docs' = docs \cup {d} /\ torn' = torn \ {d}
  \/ outcome = "cut" /\ docs' = docs \ {d}    /\ torn' = torn \cup {d}
  \/ outcome \in {"none", "lost"} /\ UNCHANGED <<docs, torn>>

------------------------------------------------------------------------------
(* A request finds no manifest and goes to the gate for image i. *)
Request(b) ==
  /\ pc[b] = "idle"
  /\ Goto(b, "queued")
  /\ \E i \in Images :
       /\ tag[i] = None
       /\ image' = [image EXCEPT ![b] = i]
  /\ UNCHANGED <<content, disk, at, mem, want, made, spent>>

(* Where a build goes to push its platform p, or when none is left. *)
Push(b, p) ==
  IF p > Len(Recipe[image[b]])
    THEN /\ pc' = [pc EXCEPT ![b] = "index"]
         /\ UNCHANGED <<at, mem>>
    ELSE /\ pc' = [pc EXCEPT ![b] =
              IF Recipe[image[b]][p] = <<>> THEN "compute" ELSE "link"]
         /\ at' = [at EXCEPT ![b] = [part |-> p, layer |-> 1]]
         /\ mem' = [mem EXCEPT ![b] = [k \in DOMAIN Recipe[image[b]][p] |-> Unread]]

(* The gate lets it lead: no other build of the image is running. *)
Start(b) ==
  /\ pc[b] = "queued"
  /\ \A o \in Builds :
       image[o] = image[b] /\ pc[o] \in Live => pc[o] = "queued"
  /\ Push(b, 1)
  /\ UNCHANGED <<content, disk, image, want, made, spent>>

(* On to the next layer of the platform, or past the last one. *)
NextLayer(b) ==
  IF at[b].layer < Len(mem[b])
    THEN /\ Goto(b, "link")
         /\ at' = [at EXCEPT ![b].layer = @ + 1]
    ELSE /\ Goto(b, "compute")
         /\ UNCHANGED at

(* saveLayer asks for the digest. A base layer knows it. A layer not yet   *)
(* read has what its link file says, and keeps its diffID and size.        *)
Link(b) ==
  LET s == Source(b)  l == link[LinkOf(s)]  k == at[b].layer IN
  /\ pc[b] = "link"
  /\ \/ /\ s \in BaseLayers
        /\ Goto(b, "stat")
        /\ mem' = [mem EXCEPT ![b][k].own = content[s]]
        /\ want' = [want EXCEPT ![b] = content[s]]
     \/ /\ s \notin BaseLayers /\ Decodes(l)
        /\ Goto(b, "stat")
        /\ mem' = [mem EXCEPT ![b][k] = [own |-> @.own, diff |-> l.diff, size |-> l.size]]
        /\ want' = [want EXCEPT ![b] = l.digest]
     \/ /\ s \notin BaseLayers /\ ~Decodes(l)
        /\ Goto(b, "copy")
        /\ UNCHANGED <<mem, want>>
  /\ UNCHANGED <<content, disk, image, at, made, spent>>

(* Mutant: what a link file remembers is taken to be in the cache. *)
StatTrusting(b) ==
  /\ pc[b] = "stat"
  /\ NextLayer(b)
  /\ UNCHANGED <<content, disk, image, mem, want, made, spent>>

(* The cached blob is used if its size is the one the layer claims. *)
Stat(b) ==
  LET claimed == IF Layer(b).size = None THEN Layer(b).own ELSE Layer(b).size
      hit == want[b] \in layers /\ claimed = want[b] IN
  /\ pc[b] = "stat"
  /\ \/ hit /\ NextLayer(b)
     \/ ~hit /\ Goto(b, "copy") /\ UNCHANGED at
  /\ UNCHANGED <<content, disk, image, mem, want, made, spent>>

(* Mutant: the digest is not computed while the layer is read. *)
CopyUnsummed(b) ==
  /\ pc[b] = "copy"
  /\ Goto(b, "sum")
  /\ UNCHANGED <<content, disk, image, at, mem, want, made, spent>>

(* The source is read into a temporary blob; on a fault the build ends. *)
Copy(b) ==
  /\ pc[b] = "copy"
  /\ \E o \in {"ok", "none"} :
       /\ Comes(o)
       /\ Goto(b, IF Failed(o) THEN "failed" ELSE "sum")
       /\ mem' = IF Failed(o) THEN mem
                 ELSE [mem EXCEPT ![b][at[b].layer].own = content[Source(b)]]
  /\ UNCHANGED <<content, disk, image, at, want, made>>

(* A file layer that has been read but has no link file yet. An old link   *)
(* file, right or wrong, is left alone.                                    *)
Unlinked(b, k) ==
  /\ SourceOf(b, k) \notin BaseLayers
  /\ mem[b][k].own # None
  /\ link[LinkOf(SourceOf(b, k))] = None

(* The digest is asked for again, now that it has been computed. *)
Sum(b) ==
  /\ pc[b] = "sum"
  /\ Goto(b, IF Unlinked(b, at[b].layer) THEN "encode" ELSE "rename")
  /\ UNCHANGED <<content, disk, image, at, mem, want, made, spent>>

(* encodeLinkInfo for layers of b, to the outcome o[k] for layer k. The    *)
(* first to leave a file at a path is the last to try: the others find it. *)
(* An error is only logged.                                                *)
WriteLinks(b, o) ==
  LET left(f) == {k \in DOMAIN o : /\ LinkOf(SourceOf(b, k)) = f
                                   /\ o[k] \notin {"none", "lost"}}
      first(f, k) == k \in left(f) /\ \A j \in left(f) : k <= j
      text(k) == CASE o[k] = "ok"   -> LinkTo(mem[b][k].own, mem[b][k].own)
                   [] o[k] = "cut"  -> LinkTo(mem[b][k].own, Cut)
                   [] o[k] = "junk" -> Junk IN
  link' = [f \in DOMAIN link |->
             IF \E k \in DOMAIN o : first(f, k)
               THEN text(CHOOSE k \in DOMAIN o : first(f, k)) ELSE link[f]]

WriteLink == WriteFile \cup {"junk"}

(* Mutant: the link file is truncated and written in place. *)
EncodeInPlace(b) ==
  /\ pc[b] = "encode"
  /\ IF link[LinkOf(Source(b))] # Junk
       THEN WriteLinks(b, [k \in {at[b].layer} |-> "junk"]) /\ UNCHANGED pc
       ELSE WriteLinks(b, [k \in {at[b].layer} |-> "ok"]) /\ Goto(b, "rename")
  /\ UNCHANGED <<content, layers, docs, torn, tag, image, at, mem, want, made,
                 spent>>

Encode(b) ==
  /\ pc[b] = "encode"
  /\ Goto(b, "rename")
  /\ \E o \in WriteLink :
       Comes(o) /\ WriteLinks(b, [k \in {at[b].layer} |-> o])
  /\ UNCHANGED <<content, layers, docs, torn, tag, image, at, mem, want, made>>

(* Mutant: an error of the rename is dropped. *)
RenameUnchecked(b) ==
  /\ pc[b] = "rename"
  /\ \E o \in {"ok", "none"} :
       /\ Comes(o)
       /\ layers' = IF Failed(o) THEN layers ELSE layers \cup {Layer(b).own}
  /\ NextLayer(b)
  /\ UNCHANGED <<content, docs, torn, link, tag, image, mem, want, made>>

(* The temporary blob takes its place under the digest of what was read. *)
Rename(b) ==
  /\ pc[b] = "rename"
  /\ \/ /\ Comes("ok")
        /\ layers' = layers \cup {Layer(b).own}
        /\ NextLayer(b)
        /\ UNCHANGED <<content, docs, torn, link, tag, image, mem, want, made>>
     \/ /\ Comes("none")
        /\ Goto(b, "failed")
        /\ UNCHANGED <<content, disk, image, at, mem, want, made>>

(* mutate computes the config and the manifest: the diffID and the size a  *)
(* layer has from the link file it read before its blob, else its own; its *)
(* own digest, else what the link file says by now. Digest() of a layer    *)
(* read but not linked writes the link file once more.                     *)
Compute(b) ==
  LET missing == {k \in DOMAIN mem[b] : Unlinked(b, k)}
      l(k) == link[LinkOf(SourceOf(b, k))]
      lost == \E k \in DOMAIN mem[b] : mem[b][k].own = None /\ ~Decodes(l(k))
      diff(k) == IF mem[b][k].diff = None THEN mem[b][k].own ELSE mem[b][k].diff
      size(k) == IF mem[b][k].size = None THEN mem[b][k].own ELSE mem[b][k].size
      digest(k) == IF mem[b][k].own = None THEN l(k).digest ELSE mem[b][k].own
      diffs == [k \in DOMAIN mem[b] |-> diff(k)]
      descs == [k \in DOMAIN mem[b] |-> [digest |-> digest(k), size |-> size(k)]] IN
  /\ pc[b] = "compute"
  /\ \/ /\ lost
        /\ Goto(b, "failed")
        /\ UNCHANGED <<made, link, spent>>
     \/ /\ ~lost
        /\ Goto(b, "config")
        /\ made' = [made EXCEPT ![b] = Append(@, Manifest(diffs, descs))]
        /\ \E o \in [missing -> WriteLink] :
             /\ Comes(IF \A k \in missing : o[k] = "ok" THEN "ok" ELSE "fault")
             /\ WriteLinks(b, o)
  /\ UNCHANGED <<content, layers, docs, torn, tag, image, at, mem, want>>

PutConfig(b) ==
  /\ pc[b] = "config"
  /\ \E o \in WriteFile :
       /\ Comes(o)
       /\ PutDoc(made[b][at[b].part].config, o)
       /\ Goto(b, IF Failed(o) THEN "failed" ELSE "blob")
  /\ UNCHANGED <<content, layers, link, tag, image, at, mem, want, made>>

(* The manifest's blob. Of an index it is one part, and the next platform  *)
(* follows; else it is the image, and its tag is still to be written.      *)
PutBlob(b) ==
  /\ pc[b] = "blob"
  /\ \E o \in WriteFile :
       /\ Comes(o)
       /\ PutDoc(made[b][at[b].part], o)
       /\ IF Failed(o) \/ image[b] \notin Indexes
            THEN /\ Goto(b, IF Failed(o) THEN "failed" ELSE "tag")
                 /\ UNCHANGED <<at, mem>>
            ELSE Push(b, at[b].part + 1)
  /\ UNCHANGED <<content, layers, link, tag, image, want, made>>

PutIndex(b) ==
  /\ pc[b] = "index"
  /\ \E o \in WriteFile :
       /\ Comes(o)
       /\ PutDoc(Index(made[b]), o)
       /\ Goto(b, IF Failed(o) THEN "failed" ELSE "tag")
  /\ UNCHANGED <<content, layers, link, tag, image, at, mem, want, made>>

(* manifest.json, which makes the image known. *)
PutTag(b) ==
  LET doc == IF image[b] \in Indexes THEN Index(made[b]) ELSE made[b][1] IN
  /\ pc[b] = "tag"
  /\ \E o \in WriteFile :
       /\ Comes(o)
       /\ Goto(b, IF Failed(o) THEN "failed" ELSE "done")
       /\ \/ o = "ok"  /\ tag' = [tag EXCEPT ![image[b]] = doc]
          \/ o = "cut" /\ tag' = [tag EXCEPT ![image[b]] = Cut]
          \/ o \in {"none", "lost"} /\ UNCHANGED tag
  /\ UNCHANGED <<content, layers, docs, torn, link, image, at, mem, want, made>>

(* Somebody overwrites a source. A base image is resolved at each build; *)
(* with one that has moved, what is built is another image here.         *)
Change(s) ==
  /\ s \notin BaseLayers
  /\ spent.changes < MaxChanges
  /\ \E c \in Contents \ {content[s]} : content' = [content EXCEPT ![s] = c]
  /\ spent' = [spent EXCEPT !.changes = @ + 1]
  /\ UNCHANGED <<disk, pc, image, at, mem, want, made>>

(* The server dies and is started again. Only the disk remains, and the    *)
(* temporary files on it, which nobody looks for.                          *)
Crash ==
  /\ spent.crashes < MaxCrashes
  /\ \E b \in Builds : pc[b] \in Live
  /\ pc' = [b \in Builds |-> IF pc[b] \in Live THEN "dead" ELSE pc[b]]
  /\ spent' = [spent EXCEPT !.crashes = @ + 1]
  /\ UNCHANGED <<content, disk, image, at, mem, want, made>>

(* Nothing is running, and nothing is left to ask for. *)
Quiet ==
  /\ \A b \in Builds :
       \/ pc[b] \in {"done", "failed", "dead"}
       \/ pc[b] = "idle" /\ \A i \in Images : tag[i] # None
  /\ UNCHANGED vars

Write(b) ==
  \/ Start(b) \/ Link(b) \/ Stat(b) \/ Copy(b) \/ Sum(b) \/ Encode(b)
  \/ Rename(b) \/ Compute(b) \/ PutConfig(b) \/ PutBlob(b) \/ PutIndex(b)
  \/ PutTag(b)

Next ==
  \/ \E b \in Builds : Request(b) \/ Write(b)
  \/ \E s \in Sources : Change(s)
  \/ Crash
  \/ Quiet

Spec == Init /\ [][Next]_vars
------------------------------------------------------------------------------
Configs == [kind : {"config"}, diffs : Seq(Contents)]
Descs == [digest : Contents, size : Contents \cup {Cut}]
Manifests == [kind : {"manifest"}, config : Configs, layers : Seq(Descs)]
Indices == [kind : {"index"}, parts : Seq(Manifests)]
Objects == [own  : Contents \cup {None}, diff : Contents \cup {None},
            size : Contents \cup {None, Cut}]

TypeOK ==
  /\ content \in [Sources -> Contents]
  /\ layers \subseteq Contents
  /\ docs \subseteq Configs \cup Manifests \cup Indices
  /\ torn \subseteq Configs \cup Manifests \cup Indices
  /\ link \in [Sources -> {None, Junk} \cup
        [digest : Contents, diff : Contents, size : Contents \cup {Cut}]]
  /\ tag \in [Images -> {None, Cut} \cup Manifests \cup Indices]
  /\ pc \in [Builds -> Live \cup {"idle", "done", "failed", "dead"}]
  /\ image \in [Builds -> Images \cup {None}]
  /\ at \in [Builds -> [part : Nat, layer : Nat]]
  /\ mem \in [Builds -> Seq(Objects)]
  /\ want \in [Builds -> Contents \cup {None}]
  /\ made \in [Builds -> Seq(Manifests)]
  /\ spent \in [changes : Nat, faults : Nat, crashes : Nat]

Known(i) == tag[i] \notin {None, Cut}

(* The manifests behind the tag of i, one per platform. *)
Parts(i) == IF i \in Indexes THEN tag[i].parts ELSE <<tag[i]>>

(* The sources that have one link file. *)
Sharers(s) == {t \in Sources : FirstOf[t] = FirstOf[s]}

Alone(s) == Sharers(s) = {s}

(* While sources keep their content, a build makes a manifest after every  *)
(* layer that it names is there, by whatever mixture of copying, finding   *)
(* and remembering it came by them, and whatever failed on the way. After  *)
(* a fault a link file may turn from one sharer's layer to another's       *)
(* behind a build: then only of sources with a link file of their own.     *)
LayersPresent ==
  spent.changes = 0 =>
    \A b \in Builds : \A p \in DOMAIN made[b] : \A k \in DOMAIN made[b][p].layers :
      spent.faults = 0 \/ Alone(Recipe[image[b]][p][k]) =>
        made[b][p].layers[k].digest \in layers

(* What an image's tag leads to can be pulled to the last blob. manifest.  *)
(* json is written last, so no crash leaves a tag that leads nowhere.      *)
Pullable ==
  \A i \in Images : Known(i) =>
    /\ tag[i] \in docs
    /\ \A p \in DOMAIN Parts(i) :
         LET m == Parts(i)[p] IN
         /\ m \in docs /\ m.config \in docs
         /\ \A k \in DOMAIN m.layers : m.layers[k].digest \in layers

(* Digest, size and diffID of a layer are those of one content, wherever   *)
(* each was taken from: the stream, the link file before or after it.      *)
Coherent ==
  \A m \in docs : m.kind = "manifest" =>
    \A k \in DOMAIN m.layers :
      /\ m.layers[k].size = m.layers[k].digest
      /\ m.config.diffs[k] = m.layers[k].digest

(* While sources keep their content, an image has a platform for each of   *)
(* its recipe's, and for each source in its order a layer of the content   *)
(* of one that has its link file: its own, unless it shares. Without a     *)
(* fault that is the first of them, at every build.                        *)
RightContent ==
  \A i \in Images : Known(i) /\ spent.changes = 0 =>
    /\ Len(Parts(i)) = Len(Recipe[i])
    /\ \A p \in DOMAIN Recipe[i] :
         LET got == Parts(i)[p].layers  of == Recipe[i][p] IN
         /\ DOMAIN got = DOMAIN of
         /\ \A k \in DOMAIN of :
              /\ \E s \in Sharers(of[k]) : got[k].digest = content[s]
              /\ spent.faults = 0 => got[k].digest = content[FirstOf[of[k]]]

(* A build that the disk lets through succeeds: neither what a crash left  *)
(* nor what other builds are writing makes it fail.                        *)
FaultlessSucceeds ==
  \A b \in Builds : pc[b] = "failed" => spent.faults > 0

(* "Fixed time, keep the result consistent": a second build of an image,   *)
(* after a stale look at its manifest, writes the same manifest again.     *)
StableResult ==
  [][\A i \in Images : Known(i) => tag'[i] = tag[i]]_vars
==============================================================================
