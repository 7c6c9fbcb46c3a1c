--------------------------- MODULE LocalStore_proofs ---------------------------
(***************************************************************************)
(* The cache directory, for any builds, images, sources and recipes, for   *)
(* any sharing of link files, and for any bounds of changes, faults and    *)
(* crashes. One invariant after the other:                                 *)
(*   Types      what every variable holds, and what a build has by then;   *)
(*   Sound      while sources keep their content, whatever else happens:   *)
(*              the layer of a source is the content of one of those that  *)
(*              have its link file, its own if it shares it with none, and *)
(*              then it is in the cache once a build has passed it;        *)
(*   Lasting    while no disk operation fails, whatever else happens: what *)
(*              a build took from a link file can be taken from it again;  *)
(*   Complete   while neither happens: of the sources that share a link    *)
(*              file only the first is ever read, the others find its      *)
(*              layer. So an image has one manifest that it can have, and  *)
(*              its blobs are put before what names them.                  *)
(***************************************************************************)
EXTENDS LocalStore, SequenceTheorems, TLAPS

Layering == {"link", "stat", "copy", "sum", "encode", "rename"}

Working == Layering \cup {"compute"}

(* What the layer k of b will be described by is known. *)
Got(b, k) ==
  mem[b][k].own # None \/ (mem[b][k].diff # None /\ mem[b][k].size # None)

(* Behind b in its list of layers. *)
Passed(b, k) == k < at[b].layer \/ pc[b] = "compute"

(* Where a build is in its image, and what it has by then. *)
Shape(b) ==
  /\ pc[b] # "idle" => image[b] \in Images
  /\ pc[b] \in {"idle", "queued"} => made[b] = <<>>
  /\ pc[b] \in Working \cup {"config", "blob"} =>
       /\ at[b].part \in DOMAIN Recipe[image[b]]
       /\ DOMAIN mem[b] = DOMAIN Recipe[image[b]][at[b].part]
       /\ Len(made[b]) = IF pc[b] \in Working THEN at[b].part - 1 ELSE at[b].part
  /\ pc[b] \in Layering => at[b].layer \in DOMAIN mem[b]
  /\ pc[b] = "index" => image[b] \in Indexes
  /\ pc[b] \in {"index", "tag"} => Len(made[b]) = Len(Recipe[image[b]])
  /\ pc[b] \in Working => \A k \in DOMAIN mem[b] : Passed(b, k) => Got(b, k)
  /\ pc[b] = "stat" => want[b] \in Contents /\ Got(b, at[b].layer)
  /\ pc[b] \in {"sum", "encode", "rename"} => Layer(b).own # None

Bounded == spent.changes <= MaxChanges /\ spent.faults <= MaxFaults

Types == TypeOK /\ Bounded /\ \A b \in Builds : Shape(b)

------------------------------------------------------------------------------
LEMMA RecipeIs ==
  ASSUME NEW i \in Images
  PROVE  /\ Recipe[i] \in Seq(Seq(Sources))
         /\ \A p \in DOMAIN Recipe[i] :
              Recipe[i][p] \in Seq(Sources)
BY StoreAssumption

(* The first of those that share a link file is one of them. *)
LEMMA Sharing ==
  ASSUME NEW s \in Sources
  PROVE  /\ LinkOf(s) \in Sources /\ LinkOf(LinkOf(s)) = LinkOf(s)
         /\ s \in Sharers(s) /\ s \in Sharers(LinkOf(s))
         /\ Sharers(LinkOf(s)) = Sharers(s)
         /\ LinkOf(s) \in Sharers(s)
         /\ s \in BaseLayers => LinkOf(s) = s
         /\ Alone(s) => Sharers(s) = {s}
BY StoreAssumption DEF LinkOf, Sharers, Alone

(* Another build than the one that makes the step. *)
Same(q) ==
  /\ pc'[q] = pc[q] /\ image'[q] = image[q] /\ at'[q] = at[q]
  /\ mem'[q] = mem[q] /\ want'[q] = want[q] /\ made'[q] = made[q]

(* What a step of b leaves alone. *)
LEMMA OnlyOwn ==
  ASSUME TypeOK, NEW b \in Builds, Request(b) \/ Write(b)
  PROVE  /\ \A q \in Builds \ {b} : Same(q)
         /\ UNCHANGED content /\ layers \subseteq layers'
<1> USE DEF TypeOK, Same, Goto, disk
<1>1. CASE Request(b)
  BY <1>1 DEF Request
<1>2. CASE Start(b)
  BY <1>2 DEF Start, Push
<1>3. CASE Link(b)
  BY <1>3 DEF Link
<1>4. CASE Stat(b)
  BY <1>4 DEF Stat, NextLayer
<1>5. CASE Copy(b)
  BY <1>5 DEF Copy
<1>6. CASE Sum(b)
  BY <1>6 DEF Sum
<1>7. CASE Encode(b)
  BY <1>7 DEF Encode
<1>8. CASE Rename(b)
  BY <1>8 DEF Rename, NextLayer
<1>9. CASE Compute(b)
  BY <1>9 DEF Compute
<1>10. CASE PutConfig(b)
  BY <1>10 DEF PutConfig
<1>11. CASE PutBlob(b)
  BY <1>11 DEF PutBlob, Push
<1>12. CASE PutIndex(b)
  BY <1>12 DEF PutIndex
<1>13. CASE PutTag(b)
  BY <1>13 DEF PutTag
<1> QED
  BY <1>1, <1>2, <1>3, <1>4, <1>5, <1>6, <1>7, <1>8, <1>9, <1>10, <1>11, <1>12, <1>13
     DEF Write

LEMMA SameShape == ASSUME NEW q \in Builds, Shape(q), Same(q) PROVE Shape(q)'
BY DEF Shape, Same, Got, Passed, Layer

(* The shape of a step: types, and the shape of the one build that moves.  *)
LEMMA TypesFrom ==
  ASSUME Types, NEW b \in Builds, Request(b) \/ Write(b), TypeOK', Bounded', Shape(b)'
  PROVE  Types'
BY OnlyOwn, SameShape DEF Types

LEMMA BoundedKept ==
  ASSUME Types, NEW o, Comes(o)
  PROVE  /\ Bounded' /\ spent' \in [changes : Nat, faults : Nat, crashes : Nat]
         /\ spent'.changes = spent.changes
         /\ spent'.faults = 0 => spent.faults = 0 /\ o = "ok"
<1>1. spent \in [changes : Nat, faults : Nat, crashes : Nat]
  BY DEF Types, TypeOK
<1> DEFINE f == IF o = "ok" THEN spent.faults ELSE spent.faults + 1
<1>3. f \in Nat /\ f <= MaxFaults
  BY <1>1, StoreAssumption DEF Types, Bounded, Comes
<1>4. spent' = [spent EXCEPT !.faults = f]
  BY DEF Comes
<1>5. f = 0 => spent.faults = 0 /\ o = "ok"
  BY <1>1
<1> HIDE DEF f
<1>6. /\ spent' \in [changes : Nat, faults : Nat, crashes : Nat]
      /\ spent'.changes = spent.changes /\ spent'.faults = f
  BY <1>1, <1>3, <1>4
<1> QED
  BY <1>3, <1>5, <1>6 DEF Types, Bounded

(* What the updates of records come to. *)
LEMMA OwnSet ==
  ASSUME TypeOK, NEW b \in Builds, NEW k \in DOMAIN mem[b], NEW v \in Contents,
         mem' = [mem EXCEPT ![b][k].own = v]
  PROVE  /\ mem' \in [Builds -> Seq(Objects)] /\ DOMAIN mem'[b] = DOMAIN mem[b]
         /\ \A j \in DOMAIN mem[b] : j # k => mem'[b][j] = mem[b][j]
         /\ mem'[b][k] = [own |-> v, diff |-> mem[b][k].diff, size |-> mem[b][k].size]
<1>1. mem[b] \in Seq(Objects) /\ mem[b][k] \in Objects
  BY DEF TypeOK
<1> DEFINE o == [own |-> v, diff |-> mem[b][k].diff, size |-> mem[b][k].size]
<1>2. o \in Objects /\ [mem[b][k] EXCEPT !.own = v] = o
  BY <1>1 DEF Objects
<1>3. mem' = [mem EXCEPT ![b] = [mem[b] EXCEPT ![k] = o]]
  BY <1>2
<1> HIDE DEF o
<1>4. [mem[b] EXCEPT ![k] = o] \in Seq(Objects)
  BY <1>1, <1>2
<1> QED
  BY <1>1, <1>2, <1>3, <1>4 DEF TypeOK, o

LEMMA LinkSet ==
  ASSUME TypeOK, NEW b \in Builds, NEW k \in DOMAIN mem[b], NEW o \in Objects,
         mem' = [mem EXCEPT ![b][k] = o]
  PROVE  /\ mem' \in [Builds -> Seq(Objects)] /\ DOMAIN mem'[b] = DOMAIN mem[b]
         /\ \A j \in DOMAIN mem[b] : j # k => mem'[b][j] = mem[b][j]
         /\ mem'[b][k] = o
<1>1. mem[b] \in Seq(Objects)
  BY DEF TypeOK
<1>2. [mem[b] EXCEPT ![k] = o] \in Seq(Objects)
  BY <1>1
<1> QED
  BY <1>1, <1>2 DEF TypeOK

LEMMA Onward ==
  ASSUME TypeOK, NEW b \in Builds, NextLayer(b)
  PROVE  /\ pc' \in [Builds -> Live \cup {"idle", "done", "failed", "dead"}]
         /\ at' \in [Builds -> [part : Nat, layer : Nat]]
         /\ at'[b].part = at[b].part
         /\ \/ /\ at[b].layer < Len(mem[b])
               /\ pc'[b] = "link" /\ at'[b].layer = at[b].layer + 1
            \/ ~(at[b].layer < Len(mem[b])) /\ pc'[b] = "compute"
<1>1. CASE at[b].layer < Len(mem[b])
  <2>1. at[b] \in [part : Nat, layer : Nat]
    BY DEF TypeOK
  <2> DEFINE a == [part |-> at[b].part, layer |-> at[b].layer + 1]
  <2>2. a \in [part : Nat, layer : Nat] /\ [at[b] EXCEPT !.layer = at[b].layer + 1] = a
    BY <2>1
  <2>3. at' = [at EXCEPT ![b] = a]
    BY <1>1, <2>2 DEF NextLayer
  <2> QED
    BY <1>1, <2>2, <2>3 DEF TypeOK, NextLayer, Goto, Live
<1>2. CASE ~(at[b].layer < Len(mem[b]))
  BY <1>2 DEF TypeOK, NextLayer, Goto, Live
<1> QED
  BY <1>1, <1>2

LEMMA PushedTo ==
  ASSUME TypeOK, NEW b \in Builds, NEW p \in Nat \ {0}, image[b] \in Images, Push(b, p),
         p <= Len(Recipe[image[b]])
  PROVE  /\ pc' \in [Builds -> Live \cup {"idle", "done", "failed", "dead"}]
         /\ at' \in [Builds -> [part : Nat, layer : Nat]]
         /\ mem' \in [Builds -> Seq(Objects)]
         /\ pc'[b] = IF Recipe[image[b]][p] = <<>> THEN "compute" ELSE "link"
         /\ at'[b] = [part |-> p, layer |-> 1]
         /\ p \in DOMAIN Recipe[image[b]]
         /\ mem'[b] = [k \in DOMAIN Recipe[image[b]][p] |-> Unread]
<1>1. /\ Recipe[image[b]] \in Seq(Seq(Sources)) /\ p \in DOMAIN Recipe[image[b]]
      /\ Recipe[image[b]][p] \in Seq(Sources)
  BY RecipeIs
<1> DEFINE f == [k \in DOMAIN Recipe[image[b]][p] |-> Unread]
<1>2. f \in Seq(Objects)
  <2>1. Unread \in Objects
    BY DEF Unread, Objects
  <2>2. PICK n \in Nat : DOMAIN Recipe[image[b]][p] = 1 .. n
    BY <1>1
  <2> QED
    BY <2>1, <2>2
<1>3. ~(p > Len(Recipe[image[b]]))
  BY <1>1
<1>4. /\ pc' = [pc EXCEPT ![b] = IF Recipe[image[b]][p] = <<>> THEN "compute" ELSE "link"]
      /\ at' = [at EXCEPT ![b] = [part |-> p, layer |-> 1]]
      /\ mem' = [mem EXCEPT ![b] = f]
  BY <1>3 DEF Push
<1> HIDE DEF f
<1>5. mem' \in [Builds -> Seq(Objects)] /\ mem'[b] = f
  BY <1>2, <1>4 DEF TypeOK
<1>6. /\ pc' \in [Builds -> Live \cup {"idle", "done", "failed", "dead"}]
      /\ at' \in [Builds -> [part : Nat, layer : Nat]]
  BY <1>4 DEF TypeOK, Live
<1> QED
  BY <1>1, <1>4, <1>5, <1>6 DEF TypeOK, f

LEMMA PushKeeps ==
  ASSUME TypeOK, NEW b \in Builds, NEW p \in Nat \ {0}, image[b] \in Images, Push(b, p),
         Len(made[b]) = p - 1, p - 1 <= Len(Recipe[image[b]]),
         p > Len(Recipe[image[b]]) => image[b] \in Indexes,
         UNCHANGED <<image, made>>
  PROVE  /\ pc' \in [Builds -> Live \cup {"idle", "done", "failed", "dead"}]
         /\ at' \in [Builds -> [part : Nat, layer : Nat]]
         /\ mem' \in [Builds -> Seq(Objects)]
         /\ Shape(b)'
<1>0. Recipe[image[b]] \in Seq(Seq(Sources))
  BY RecipeIs
<1>1. CASE p > Len(Recipe[image[b]])
  <2>1. pc' = [pc EXCEPT ![b] = "index"] /\ UNCHANGED <<at, mem>>
    BY <1>1 DEF Push
  <2>2. pc'[b] = "index" /\ pc' \in [Builds -> Live \cup {"idle", "done", "failed", "dead"}]
    BY <2>1 DEF TypeOK, Live
  <2>3. Len(made[b]) = Len(Recipe[image[b]])
    BY <1>0, <1>1
  <2>4. Shape(b)'
    BY <2>2, <2>3, <1>1 DEF Shape, Layering, Working
  <2> QED
    BY <2>1, <2>2, <2>4 DEF TypeOK
<1>2. CASE p <= Len(Recipe[image[b]])
  <2>1. Recipe[image[b]][p] \in Seq(Sources)
    BY <1>0, <1>2
  <2>2. CASE Recipe[image[b]][p] = <<>>
    <3>0. at'[b] = [part |-> p, layer |-> 1]
      BY <1>2, PushedTo
    <3>1. /\ pc'[b] = "compute" /\ mem'[b] = [k \in DOMAIN Recipe[image[b]][p] |-> Unread]
          /\ at'[b].part = p /\ p \in DOMAIN Recipe[image[b]]
      <4>1. pc'[b] = IF Recipe[image[b]][p] = <<>> THEN "compute" ELSE "link"
        BY <1>2, PushedTo
      <4>2. mem'[b] = [k \in DOMAIN Recipe[image[b]][p] |-> Unread]
        BY <1>2, PushedTo
      <4>3. p \in DOMAIN Recipe[image[b]]
        BY <1>2, PushedTo
      <4> QED
        BY <2>2, <3>0, <4>1, <4>2, <4>3
    <3>2. DOMAIN mem'[b] = {}
      BY <2>2, <3>1
    <3>3. Shape(b)'
      BY <3>1, <3>2, <2>2 DEF Shape, Layering, Working
    <3> QED
      BY <1>2, <3>3, PushedTo
  <2>3. CASE Recipe[image[b]][p] # <<>>
    <3>0. at'[b] = [part |-> p, layer |-> 1]
      BY <1>2, PushedTo
    <3>1. /\ pc'[b] = "link" /\ DOMAIN mem'[b] = DOMAIN Recipe[image[b]][p]
          /\ at'[b].part = p /\ at'[b].layer = 1 /\ p \in DOMAIN Recipe[image[b]]
      <4>1. pc'[b] = IF Recipe[image[b]][p] = <<>> THEN "compute" ELSE "link"
        BY <1>2, PushedTo
      <4>2. mem'[b] = [k \in DOMAIN Recipe[image[b]][p] |-> Unread]
        BY <1>2, PushedTo
      <4>3. p \in DOMAIN Recipe[image[b]]
        BY <1>2, PushedTo
      <4> QED
        BY <2>3, <3>0, <4>1, <4>2, <4>3
    <3>2. 1 \in DOMAIN mem'[b] /\ \A k \in DOMAIN mem'[b] : ~(k < 1)
      BY <2>1, <2>3, <3>1
    <3>3. Shape(b)'
      BY <3>1, <3>2 DEF Shape, Layering, Working, Passed
    <3> QED
      BY <1>2, <3>3, PushedTo
  <2> QED
    BY <2>2, <2>3
<1> QED
  BY <1>0, <1>1, <1>2

------------------------------------------------------------------------------
(* Where a build at work is. *)
LEMMA Here ==
  ASSUME Types, NEW b \in Builds, pc[b] \in Working \cup {"config", "blob"}
  PROVE  /\ image[b] \in Images /\ mem[b] \in Seq(Objects)
         /\ at[b] \in [part : Nat, layer : Nat]
         /\ DOMAIN mem[b] = 1 .. Len(mem[b]) /\ Len(mem[b]) \in Nat
         /\ Recipe[image[b]][at[b].part] \in Seq(Sources)
         /\ \A k \in DOMAIN mem[b] : mem[b][k] \in Objects /\ SourceOf(b, k) \in Sources
         /\ pc[b] \in Layering => at[b].layer \in DOMAIN mem[b]
<1>1. /\ image[b] \in Images /\ mem[b] \in Seq(Objects)
      /\ at[b] \in [part : Nat, layer : Nat]
      /\ at[b].part \in DOMAIN Recipe[image[b]]
      /\ DOMAIN mem[b] = DOMAIN Recipe[image[b]][at[b].part]
      /\ pc[b] \in Layering => at[b].layer \in DOMAIN mem[b]
  BY DEF Types, TypeOK, Shape, Working, Layering
<1>2. Recipe[image[b]][at[b].part] \in Seq(Sources)
  BY <1>1, RecipeIs
<1>3. \A k \in DOMAIN mem[b] : mem[b][k] \in Objects
  BY <1>1
<1>4. \A k \in DOMAIN mem[b] : SourceOf(b, k) \in Sources
  BY <1>1, <1>2 DEF SourceOf
<1> QED
  BY <1>1, <1>2, <1>3, <1>4

LEMMA RequestTypes == ASSUME Types, NEW b \in Builds, Request(b) PROVE Types'
<1>1. TypeOK'
  BY DEF Types, TypeOK, Request, Goto, disk, Live
<1>2. Shape(b)'
  BY DEF Types, TypeOK, Shape, Request, Goto, Layering, Working
<1>3. Bounded'
  BY DEF Types, Bounded, Request
<1> QED
  BY <1>1, <1>2, <1>3, TypesFrom

LEMMA StartTypes == ASSUME Types, NEW b \in Builds, Start(b) PROVE Types'
<1>1. /\ image[b] \in Images /\ made[b] = <<>> /\ Recipe[image[b]] \in Seq(Seq(Sources))
      /\ Push(b, 1) /\ UNCHANGED <<image, made>>
  BY RecipeIs DEF Types, Shape, Start
<1>2. 1 > Len(Recipe[image[b]]) => image[b] \in Indexes
  <2>1. image[b] \notin Indexes => Len(Recipe[image[b]]) = 1
    BY <1>1, StoreAssumption
  <2> QED
    BY <2>1
<1>3. Len(made[b]) = 1 - 1 /\ 1 - 1 <= Len(Recipe[image[b]]) /\ 1 \in Nat \ {0}
  BY <1>1
<1>4. /\ pc' \in [Builds -> Live \cup {"idle", "done", "failed", "dead"}]
      /\ at' \in [Builds -> [part : Nat, layer : Nat]]
      /\ mem' \in [Builds -> Seq(Objects)] /\ Shape(b)'
  BY <1>1, <1>2, <1>3, PushKeeps DEF Types
<1>5. TypeOK' /\ Bounded'
  BY <1>4 DEF Types, TypeOK, Bounded, Start, disk
<1> QED
  BY <1>4, <1>5, TypesFrom DEF Write

LEMMA LinkTypes == ASSUME Types, NEW b \in Builds, Link(b) PROVE Types'
<1> DEFINE s == Source(b)  l == link[LinkOf(s)]  k == at[b].layer
<1>1. pc[b] = "link" /\ k \in DOMAIN mem[b] /\ s \in Sources /\ mem[b][k] \in Objects
  BY Here DEF Link, Layering, Working, Source
<1>2. UNCHANGED <<content, disk, image, at, made, spent>>
  BY DEF Link
<1>3. CASE s \in BaseLayers
  <2>1. /\ pc' = [pc EXCEPT ![b] = "stat"] /\ mem' = [mem EXCEPT ![b][k].own = content[s]]
        /\ want' = [want EXCEPT ![b] = content[s]] /\ content[s] \in Contents
    BY <1>1, <1>3 DEF Link, Goto, Types, TypeOK
  <2>2. /\ mem' \in [Builds -> Seq(Objects)] /\ DOMAIN mem'[b] = DOMAIN mem[b]
        /\ \A j \in DOMAIN mem[b] : j # k => mem'[b][j] = mem[b][j]
        /\ mem'[b][k].own = content[s]
    <3> DEFINE v == content[s]
    <3>1. v \in Contents /\ mem' = [mem EXCEPT ![b][k].own = v] /\ TypeOK
      BY <2>1 DEF Types
    <3> HIDE DEF v, k
    <3>2. /\ mem' \in [Builds -> Seq(Objects)] /\ DOMAIN mem'[b] = DOMAIN mem[b]
          /\ \A j \in DOMAIN mem[b] : j # k => mem'[b][j] = mem[b][j]
          /\ mem'[b][k] = [own |-> v, diff |-> mem[b][k].diff, size |-> mem[b][k].size]
      BY <1>1, <3>1, OwnSet, ZenonT(60)
    <3> QED
      BY <3>2 DEF v
  <2>3. TypeOK'
    BY <1>2, <2>1, <2>2 DEF Types, TypeOK, disk, Live
  <2>4. Shape(b)'
    BY <1>1, <1>2, <2>1, <2>2, StoreAssumption
       DEF Types, TypeOK, Shape, Layering, Working, Passed, Got
  <2> QED
    BY <1>2, <2>3, <2>4, TypesFrom DEF Write, Types, Bounded
<1>4. CASE s \notin BaseLayers /\ Decodes(l)
  <2> DEFINE o == [own |-> mem[b][k].own, diff |-> l.diff, size |-> l.size]
  <2>1. /\ pc' = [pc EXCEPT ![b] = "stat"] /\ mem' = [mem EXCEPT ![b][k] = o]
        /\ want' = [want EXCEPT ![b] = l.digest]
    BY <1>1, <1>4 DEF Link, Goto
  <2>2. l.digest \in Contents /\ l.diff \in Contents /\ l.size \in Contents \cup {Cut}
    BY <1>1, <1>4, Sharing DEF Types, TypeOK, Decodes
  <2>3. /\ mem' \in [Builds -> Seq(Objects)] /\ DOMAIN mem'[b] = DOMAIN mem[b]
        /\ \A j \in DOMAIN mem[b] : j # k => mem'[b][j] = mem[b][j]
        /\ mem'[b][k].diff = l.diff /\ mem'[b][k].size = l.size
    <3>1. o \in Objects /\ TypeOK
      BY <1>1, <2>2 DEF Types, Objects
    <3>2. o.diff = l.diff /\ o.size = l.size
      OBVIOUS
    <3> HIDE DEF o, k
    <3> QED
      BY <1>1, <2>1, <3>1, <3>2, LinkSet
  <2>4. TypeOK'
    BY <1>2, <2>1, <2>2, <2>3 DEF Types, TypeOK, disk, Live
  <2>5. /\ pc'[b] = "stat" /\ want'[b] \in Contents
        /\ mem'[b][k].diff # None /\ mem'[b][k].size # None
    BY <2>1, <2>2, <2>3, StoreAssumption DEF Types, TypeOK
  <2>6. \A j \in DOMAIN mem[b] : j # k => mem'[b][j] = mem[b][j]
    BY <2>3
  <2>7. Shape(b)'
    <3> HIDE DEF o, l
    <3> QED
      BY <1>1, <1>2, <2>3, <2>5, <2>6 DEF Types, Shape, Layering, Working, Passed, Got
  <2> QED
    BY <1>2, <2>4, <2>7, TypesFrom DEF Write, Types, Bounded
<1>5. CASE s \notin BaseLayers /\ ~Decodes(l)
  <2>1. pc' = [pc EXCEPT ![b] = "copy"] /\ UNCHANGED <<mem, want>>
    BY <1>1, <1>5 DEF Link, Goto
  <2>2. TypeOK'
    BY <1>2, <2>1 DEF Types, TypeOK, disk, Live
  <2>3. Shape(b)'
    BY <1>1, <1>2, <2>1 DEF Types, TypeOK, Shape, Layering, Working, Passed, Got
  <2> QED
    BY <1>2, <2>2, <2>3, TypesFrom DEF Write, Types, Bounded
<1> QED
  BY <1>3, <1>4, <1>5

LEMMA StatTypes == ASSUME Types, NEW b \in Builds, Stat(b) PROVE Types'
<1>1. /\ pc[b] = "stat" /\ UNCHANGED <<content, disk, image, mem, want, made, spent>>
      /\ NextLayer(b) \/ (pc' = [pc EXCEPT ![b] = "copy"] /\ UNCHANGED at)
  BY DEF Stat, Goto
<1>2. /\ DOMAIN mem[b] = 1 .. Len(mem[b]) /\ at[b].layer \in DOMAIN mem[b]
      /\ at[b].layer \in Nat /\ Len(mem[b]) \in Nat
  BY <1>1, Here DEF Layering, Working
<1>3. CASE NextLayer(b)
  <2>1. TypeOK'
    BY <1>1, <1>3, Onward DEF Types, TypeOK, disk
  <2>2. Shape(b)'
    BY SMTT(60), <1>1, <1>2, <1>3, Onward DEF Types, Shape, Layering, Working, Passed, Got
  <2> QED
    BY <1>1, <2>1, <2>2, TypesFrom DEF Write, Types, Bounded
<1>4. CASE pc' = [pc EXCEPT ![b] = "copy"] /\ UNCHANGED at
  <2>1. TypeOK'
    BY <1>1, <1>4 DEF Types, TypeOK, disk, Live
  <2>2. Shape(b)'
    BY <1>1, <1>2, <1>4 DEF Types, TypeOK, Shape, Layering, Working, Passed, Got
  <2> QED
    BY <1>1, <2>1, <2>2, TypesFrom DEF Write, Types, Bounded
<1> QED
  BY <1>1, <1>3, <1>4

LEMMA CopyTypes == ASSUME Types, NEW b \in Builds, Copy(b) PROVE Types'
<1> DEFINE k == at[b].layer  v == content[Source(b)]
<1>1. /\ pc[b] = "copy" /\ k \in DOMAIN mem[b] /\ v \in Contents
      /\ UNCHANGED <<content, disk, image, at, want, made>>
  BY Here DEF Copy, Layering, Working, Source, Types, TypeOK
<1>2. PICK o \in {"ok", "none"} :
        /\ Comes(o)
        /\ Goto(b, IF Failed(o) THEN "failed" ELSE "sum")
        /\ mem' = IF Failed(o) THEN mem ELSE [mem EXCEPT ![b][k].own = v]
  BY DEF Copy
<1>3. Bounded' /\ spent' \in [changes : Nat, faults : Nat, crashes : Nat]
  BY <1>2, BoundedKept
<1>4. CASE Failed(o)
  <2>1. TypeOK'
    BY <1>1, <1>2, <1>3, <1>4 DEF Types, TypeOK, disk, Live, Goto
  <2>2. Shape(b)'
    BY <1>1, <1>2, <1>4 DEF Types, TypeOK, Shape, Layering, Working, Goto
  <2> QED
    BY <1>3, <2>1, <2>2, TypesFrom DEF Write
<1>5. CASE ~Failed(o)
  <2>1. pc' = [pc EXCEPT ![b] = "sum"] /\ mem' = [mem EXCEPT ![b][k].own = v] /\ TypeOK
    BY <1>2, <1>5 DEF Goto, Types
  <2>2. /\ mem' \in [Builds -> Seq(Objects)] /\ DOMAIN mem'[b] = DOMAIN mem[b]
        /\ \A j \in DOMAIN mem[b] : j # k => mem'[b][j] = mem[b][j]
        /\ mem'[b][k].own = v
    <3> HIDE DEF v, k
    <3>1. /\ mem' \in [Builds -> Seq(Objects)] /\ DOMAIN mem'[b] = DOMAIN mem[b]
          /\ \A j \in DOMAIN mem[b] : j # k => mem'[b][j] = mem[b][j]
          /\ mem'[b][k] = [own |-> v, diff |-> mem[b][k].diff, size |-> mem[b][k].size]
      BY <1>1, <2>1, OwnSet, ZenonT(60)
    <3> QED
      BY <3>1
  <2>3. TypeOK'
    BY <1>1, <1>3, <2>1, <2>2 DEF Types, TypeOK, disk, Live
  <2>4. Shape(b)'
    BY SMTT(60), <1>1, <2>1, <2>2, StoreAssumption
       DEF Types, TypeOK, Shape, Layering, Working, Passed, Got, Layer
  <2> QED
    BY <1>3, <2>3, <2>4, TypesFrom DEF Write
<1> QED
  BY <1>4, <1>5

LEMMA SumTypes == ASSUME Types, NEW b \in Builds, Sum(b) PROVE Types'
<1>1. \E t \in {"encode", "rename"} : pc' = [pc EXCEPT ![b] = t]
  BY DEF Sum, Goto
<1>2. pc[b] = "sum" /\ UNCHANGED <<content, disk, image, at, mem, want, made, spent>>
  BY DEF Sum
<1>3. TypeOK'
  BY <1>1, <1>2 DEF Types, TypeOK, disk, Live
<1>4. Shape(b)'
  BY <1>1, <1>2 DEF Types, TypeOK, Shape, Layering, Working, Passed, Got, Layer
<1> QED
  BY <1>2, <1>3, <1>4, TypesFrom DEF Write, Types, Bounded

(* What a write of layer k, to the outcome o, leaves in a link file. *)
Leaves(b, k, o, l) ==
  \/ o = "ok" /\ l = LinkTo(mem[b][k].own, mem[b][k].own)
  \/ o = "cut" /\ l = LinkTo(mem[b][k].own, Cut)
  \/ o = "junk" /\ l = Junk

(* A link file is left alone or made of one layer's own content. *)
LEMMA LinksWritten ==
  ASSUME Types, NEW b \in Builds, NEW K, K \subseteq DOMAIN mem[b],
         \A k \in K : mem[b][k].own \in Contents,
         NEW o \in [K -> WriteLink], WriteLinks(b, o)
  PROVE  /\ link' \in [Sources -> {None, Junk} \cup
               [digest : Contents, diff : Contents, size : Contents \cup {Cut}]]
         /\ \A f \in Sources :
              \/ link'[f] = link[f]
              \/ \E k \in K : LinkOf(SourceOf(b, k)) = f /\ Leaves(b, k, o[k], link'[f])
<1> DEFINE left(f) == {k \in DOMAIN o : /\ LinkOf(SourceOf(b, k)) = f
                                        /\ o[k] \notin {"none", "lost"}}
           first(f, k) == k \in left(f) /\ \A j \in left(f) : k <= j
           text(k) == CASE o[k] = "ok"   -> LinkTo(mem[b][k].own, mem[b][k].own)
                        [] o[k] = "cut"  -> LinkTo(mem[b][k].own, Cut)
                        [] o[k] = "junk" -> Junk
           new(f) == IF \E k \in DOMAIN o : first(f, k)
                       THEN text(CHOOSE k \in DOMAIN o : first(f, k)) ELSE link[f]
           Texts == {None, Junk} \cup
                      [digest : Contents, diff : Contents, size : Contents \cup {Cut}]
<1>1. link \in [Sources -> Texts]
  BY DEF Types, TypeOK
<1>2. link' = [f \in DOMAIN link |-> new(f)]
  BY Zenon DEF WriteLinks
<1>3. ASSUME NEW k \in K, o[k] \notin {"none", "lost"}
      PROVE  Leaves(b, k, o[k], text(k)) /\ text(k) \in Texts
  <2>1. o[k] \in {"ok", "cut", "junk"}
    BY <1>3 DEF WriteLink, WriteFile
  <2> QED
    BY <1>3, <2>1 DEF Leaves, LinkTo
<1>4. ASSUME NEW f \in Sources
      PROVE  \/ new(f) = link[f]
             \/ \E k \in K : /\ LinkOf(SourceOf(b, k)) = f /\ o[k] \notin {"none", "lost"}
                             /\ new(f) = text(k)
  <2> HIDE DEF text
  <2>1. CASE \E k \in DOMAIN o : first(f, k)
    <3> DEFINE w == CHOOSE k \in DOMAIN o : first(f, k)
    <3>1. w \in DOMAIN o /\ first(f, w)
      BY <2>1
    <3>2. new(f) = text(w)
      BY <2>1
    <3> HIDE DEF w, new
    <3> QED
      BY <3>1, <3>2
  <2>2. CASE ~ \E k \in DOMAIN o : first(f, k)
    <3> HIDE DEF first
    <3> QED
      BY <2>2
  <2> QED
    BY <2>1, <2>2
<1> HIDE DEF new, text, Texts
<1>5. \A f \in Sources : link'[f] = new(f)
  BY <1>1, <1>2
<1>6. \A f \in Sources :
        \/ link'[f] = link[f]
        \/ \E k \in K : /\ LinkOf(SourceOf(b, k)) = f /\ Leaves(b, k, o[k], link'[f])
                        /\ link'[f] \in Texts
  BY <1>3, <1>4, <1>5
<1>7. link' \in [Sources -> Texts]
  BY <1>1, <1>2, <1>6
<1> QED
  BY <1>6, <1>7 DEF Texts

LEMMA EncodeTypes == ASSUME Types, NEW b \in Builds, Encode(b) PROVE Types'
<1> DEFINE k == at[b].layer
<1>1. /\ pc[b] = "encode" /\ k \in DOMAIN mem[b] /\ SourceOf(b, k) \in Sources
      /\ mem[b][k] \in Objects /\ mem[b][k].own # None
      /\ pc' = [pc EXCEPT ![b] = "rename"]
      /\ UNCHANGED <<content, layers, docs, torn, tag, image, at, mem, want, made>>
  BY Here DEF Encode, Goto, Layering, Working, Types, Shape, Layer
<1>2. PICK o \in WriteLink : Comes(o) /\ WriteLinks(b, [j \in {k} |-> o])
  BY DEF Encode
<1>3. \A j \in {k} : mem[b][j].own \in Contents
  BY <1>1 DEF Objects
<1>4. link' \in [Sources -> {None, Junk} \cup
        [digest : Contents, diff : Contents, size : Contents \cup {Cut}]]
  <2>1. [j \in {k} |-> o] \in [{k} -> WriteLink] /\ {k} \subseteq DOMAIN mem[b]
    BY <1>1
  <2> HIDE DEF k
  <2> QED
    BY <1>2, <1>3, <2>1, LinksWritten
<1>5. Bounded' /\ spent' \in [changes : Nat, faults : Nat, crashes : Nat]
  BY <1>2, BoundedKept
<1>6. TypeOK'
  BY <1>1, <1>4, <1>5 DEF Types, TypeOK, Live
<1>7. Shape(b)'
  BY <1>1 DEF Types, TypeOK, Shape, Layering, Working, Passed, Got, Layer
<1> QED
  BY <1>5, <1>6, <1>7, TypesFrom DEF Write

LEMMA RenameTypes == ASSUME Types, NEW b \in Builds, Rename(b) PROVE Types'
<1>1. /\ pc[b] = "rename" /\ at[b].layer \in DOMAIN mem[b] /\ at[b].layer \in Nat
      /\ DOMAIN mem[b] = 1 .. Len(mem[b]) /\ Len(mem[b]) \in Nat
      /\ Layer(b) \in Objects /\ Layer(b).own # None
      /\ UNCHANGED <<content, docs, torn, link, tag, image, mem, want, made>>
  BY Here DEF Rename, Layering, Working, Types, Shape, Layer, disk
<1>2. Bounded' /\ spent' \in [changes : Nat, faults : Nat, crashes : Nat]
  BY BoundedKept DEF Rename
<1>3. CASE NextLayer(b) /\ layers' = layers \cup {Layer(b).own}
  <2>1. Layer(b).own \in Contents
    BY <1>1 DEF Objects
  <2>2. TypeOK'
    BY <1>1, <1>2, <1>3, <2>1, Onward DEF Types, TypeOK
  <2>3. Shape(b)'
    BY SMTT(60), <1>1, <1>3, Onward DEF Types, Shape, Layering, Working, Passed, Got, Layer
  <2> QED
    BY <1>2, <2>2, <2>3, TypesFrom DEF Write
<1>4. CASE pc' = [pc EXCEPT ![b] = "failed"] /\ UNCHANGED <<at, layers>>
  <2>1. TypeOK'
    BY <1>1, <1>2, <1>4 DEF Types, TypeOK, Live
  <2>2. Shape(b)'
    BY <1>1, <1>4 DEF Types, TypeOK, Shape, Layering, Working
  <2> QED
    BY <1>2, <2>1, <2>2, TypesFrom DEF Write
<1> QED
  BY <1>3, <1>4 DEF Rename, Goto, disk

(* The manifest that mutate computes, taken apart. *)
DiffOf(b, k) == IF mem[b][k].diff = None THEN mem[b][k].own ELSE mem[b][k].diff

SizeOf(b, k) == IF mem[b][k].size = None THEN mem[b][k].own ELSE mem[b][k].size

DigestOf(b, k) ==
  IF mem[b][k].own = None THEN link[LinkOf(SourceOf(b, k))].digest ELSE mem[b][k].own

DescOf(b, k) == [digest |-> DigestOf(b, k), size |-> SizeOf(b, k)]

Computed(b) ==
  Manifest([k \in DOMAIN mem[b] |-> DiffOf(b, k)], [k \in DOMAIN mem[b] |-> DescOf(b, k)])

(* What b has not read is remembered by a link file. *)
AllKnown(b) ==
  \A k \in DOMAIN mem[b] : mem[b][k].own = None => Decodes(link[LinkOf(SourceOf(b, k))])

Missing(b) == {k \in DOMAIN mem[b] : Unlinked(b, k)}

Outcome(b, o) == IF \A k \in Missing(b) : o[k] = "ok" THEN "ok" ELSE "fault"

LEMMA ComputeIs ==
  ASSUME NEW b \in Builds, Compute(b)
  PROVE  \/ /\ pc' = [pc EXCEPT ![b] = "failed"] /\ UNCHANGED <<made, link, spent>>
            /\ ~AllKnown(b)
         \/ /\ pc' = [pc EXCEPT ![b] = "config"]
            /\ made' = [made EXCEPT ![b] = Append(made[b], Computed(b))]
            /\ AllKnown(b)
            /\ \E o \in [Missing(b) -> WriteLink] : Comes(Outcome(b, o)) /\ WriteLinks(b, o)
BY Zenon DEF Compute, Computed, DiffOf, DescOf, SizeOf, DigestOf, Goto, AllKnown, Missing, Outcome

LEMMA ComputedIs ==
  ASSUME Types, NEW b \in Builds, pc[b] = "compute",
         AllKnown(b)
  PROVE  Computed(b) \in Manifests
<1>1. /\ DOMAIN mem[b] = 1 .. Len(mem[b]) /\ Len(mem[b]) \in Nat
      /\ \A k \in DOMAIN mem[b] : mem[b][k] \in Objects /\ SourceOf(b, k) \in Sources
      /\ \A k \in DOMAIN mem[b] : Got(b, k)
  BY Here DEF Types, Shape, Working, Passed
<1>2. ASSUME NEW k \in DOMAIN mem[b]
      PROVE  DiffOf(b, k) \in Contents /\ DescOf(b, k) \in Descs
  <2>1. mem[b][k].own = None => link[LinkOf(SourceOf(b, k))].digest \in Contents
    BY <1>1, Sharing DEF AllKnown, Decodes, Types, TypeOK
  <2>2. DigestOf(b, k) \in Contents
    BY <1>1, <2>1 DEF DigestOf, Objects
  <2>3. DiffOf(b, k) \in Contents /\ SizeOf(b, k) \in Contents \cup {Cut}
    BY <1>1, StoreAssumption DEF DiffOf, SizeOf, Got, Objects
  <2> QED
    BY <2>2, <2>3 DEF DescOf, Descs
<1>3. [k \in DOMAIN mem[b] |-> DiffOf(b, k)] \in Seq(Contents)
  BY <1>1, <1>2
<1>4. [k \in DOMAIN mem[b] |-> DescOf(b, k)] \in Seq(Descs)
  BY <1>1, <1>2
<1> QED
  BY <1>3, <1>4 DEF Computed, Manifest, Config, Manifests, Configs

LEMMA ComputeTypes == ASSUME Types, NEW b \in Builds, Compute(b) PROVE Types'
<1>1. /\ pc[b] = "compute"
      /\ UNCHANGED <<content, layers, docs, torn, tag, image, at, mem, want>>
  BY DEF Compute
<1>2. made[b] \in Seq(Manifests)
  BY DEF Types, TypeOK
<1>3. CASE pc' = [pc EXCEPT ![b] = "failed"] /\ UNCHANGED <<made, link, spent>>
  <2>1. TypeOK'
    BY <1>1, <1>3 DEF Types, TypeOK, Live
  <2>2. Shape(b)'
    BY <1>1, <1>3 DEF Types, TypeOK, Shape, Layering, Working
  <2> QED
    BY <1>3, <2>1, <2>2, TypesFrom DEF Write, Types, Bounded
<1>4. ASSUME pc' = [pc EXCEPT ![b] = "config"],
             made' = [made EXCEPT ![b] = Append(made[b], Computed(b))],
             AllKnown(b),
             NEW o \in [Missing(b) -> WriteLink], Comes(Outcome(b, o)), WriteLinks(b, o)
      PROVE  Types'
  <2>1. Computed(b) \in Manifests
    BY <1>1, <1>4, ComputedIs
  <2>2. Append(made[b], Computed(b)) \in Seq(Manifests)
        /\ Len(Append(made[b], Computed(b))) = Len(made[b]) + 1
    BY <1>2, <2>1
  <2>3. made' \in [Builds -> Seq(Manifests)] /\ Len(made'[b]) = Len(made[b]) + 1
    BY <1>4, <2>2 DEF Types, TypeOK
  <2>4. Missing(b) \subseteq DOMAIN mem[b] /\ \A k \in Missing(b) : mem[b][k].own \in Contents
    BY <1>1, Here DEF Missing, Unlinked, Objects, Working
  <2>5. link' \in [Sources -> {None, Junk} \cup
          [digest : Contents, diff : Contents, size : Contents \cup {Cut}]]
    BY <1>4, <2>4, LinksWritten
  <2>6. Bounded' /\ spent' \in [changes : Nat, faults : Nat, crashes : Nat]
    BY <1>4, BoundedKept
  <2>7. TypeOK'
    BY <1>1, <1>4, <2>3, <2>5, <2>6 DEF Types, TypeOK, Live
  <2>8. at[b].part \in Nat
    BY <1>1, Here DEF Working
  <2>9. Shape(b)'
    BY <1>1, <1>4, <2>3, <2>8 DEF Types, TypeOK, Shape, Layering, Working
  <2> QED
    BY <2>6, <2>7, <2>9, TypesFrom DEF Write
<1> QED
  BY <1>3, <1>4, ComputeIs

(* A build that writes the documents of a platform has made them. *)
LEMMA Written ==
  ASSUME Types, NEW b \in Builds, pc[b] \in {"config", "blob"}
  PROVE  /\ made[b] \in Seq(Manifests) /\ Len(made[b]) = at[b].part
         /\ at[b].part \in 1 .. Len(Recipe[image[b]]) /\ Len(Recipe[image[b]]) \in Nat
         /\ made[b][at[b].part] \in Manifests
         /\ image[b] \notin Indexes => at[b].part = Len(Recipe[image[b]])
<1>1. image[b] \in Images /\ at[b] \in [part : Nat, layer : Nat]
  BY Here DEF Working
<1>2. Recipe[image[b]] \in Seq(Seq(Sources))
  BY <1>1, RecipeIs
<1>3. DOMAIN Recipe[image[b]] = 1 .. Len(Recipe[image[b]]) /\ Len(Recipe[image[b]]) \in Nat
  BY <1>2
<1>4. at[b].part \in DOMAIN Recipe[image[b]] /\ Len(made[b]) = at[b].part
  BY DEF Types, Shape, Working, Layering
<1>5. made[b] \in Seq(Manifests)
  BY DEF Types, TypeOK
<1>6. image[b] \notin Indexes => Len(Recipe[image[b]]) = 1
  BY <1>1, StoreAssumption
<1>7. at[b].part \in 1 .. Len(Recipe[image[b]])
  BY <1>3, <1>4
<1>8. made[b][at[b].part] \in Manifests
  BY <1>4, <1>5, <1>7, <1>3
<1>9. image[b] \notin Indexes => at[b].part = Len(Recipe[image[b]])
  <2> DEFINE n == Len(Recipe[image[b]])
  <2>1. n \in Nat /\ at[b].part \in 1 .. n /\ (image[b] \notin Indexes => n = 1)
    BY <1>3, <1>6, <1>7
  <2> HIDE DEF n
  <2>2. image[b] \notin Indexes => at[b].part = n
    BY <2>1
  <2> QED
    BY <2>2 DEF n
<1> QED
  BY <1>3, <1>4, <1>5, <1>7, <1>8, <1>9

(* A document is put whole, cut or not at all. *)
LEMMA DocPut ==
  ASSUME TypeOK, NEW d \in Configs \cup Manifests \cup Indices, NEW o, PutDoc(d, o)
  PROVE  /\ docs' \subseteq Configs \cup Manifests \cup Indices
         /\ torn' \subseteq Configs \cup Manifests \cup Indices
         /\ docs' \subseteq docs \cup {d}
         /\ o = "ok" => docs' = docs \cup {d}
BY DEF PutDoc, TypeOK

LEMMA PutConfigTypes == ASSUME Types, NEW b \in Builds, PutConfig(b) PROVE Types'
<1>1. /\ pc[b] = "config" /\ at[b].part \in Nat
      /\ UNCHANGED <<content, layers, link, tag, image, at, mem, want, made>>
  BY Here DEF PutConfig, Working
<1>2. made[b][at[b].part] \in Manifests
  BY <1>1, Written
<1>3. made[b][at[b].part].config \in Configs
  BY <1>2 DEF Manifests
<1>4. PICK o \in WriteFile :
        /\ Comes(o) /\ PutDoc(made[b][at[b].part].config, o)
        /\ pc' = [pc EXCEPT ![b] = IF Failed(o) THEN "failed" ELSE "blob"]
  BY DEF PutConfig, Goto
<1>5. Bounded' /\ spent' \in [changes : Nat, faults : Nat, crashes : Nat]
  BY <1>4, BoundedKept
<1>6. TypeOK'
  BY <1>1, <1>3, <1>4, <1>5, DocPut DEF Types, TypeOK, Live
<1>7. Shape(b)'
  BY <1>1, <1>4 DEF Types, TypeOK, Shape, Layering, Working
<1> QED
  BY <1>5, <1>6, <1>7, TypesFrom DEF Write

LEMMA PutBlobTypes == ASSUME Types, NEW b \in Builds, PutBlob(b) PROVE Types'
<1>1. /\ pc[b] = "blob" /\ at[b].part \in Nat /\ image[b] \in Images
      /\ UNCHANGED <<content, layers, link, tag, image, want, made>>
  BY Here DEF PutBlob, Working
<1>2. /\ made[b] \in Seq(Manifests) /\ Len(made[b]) = at[b].part
      /\ at[b].part \in 1 .. Len(Recipe[image[b]]) /\ Len(Recipe[image[b]]) \in Nat
      /\ image[b] \notin Indexes => at[b].part = Len(Recipe[image[b]])
  BY <1>1, Written
<1>3. made[b][at[b].part] \in Manifests
  BY <1>1, Written
<1>4. PICK o \in WriteFile :
        /\ Comes(o) /\ PutDoc(made[b][at[b].part], o)
        /\ IF Failed(o) \/ image[b] \notin Indexes
             THEN /\ pc' = [pc EXCEPT ![b] = IF Failed(o) THEN "failed" ELSE "tag"]
                  /\ UNCHANGED <<at, mem>>
             ELSE Push(b, at[b].part + 1)
  BY DEF PutBlob, Goto
<1>5. Bounded' /\ spent' \in [changes : Nat, faults : Nat, crashes : Nat]
  BY <1>4, BoundedKept
<1>6. /\ docs' \subseteq Configs \cup Manifests \cup Indices
      /\ torn' \subseteq Configs \cup Manifests \cup Indices
  BY <1>3, <1>4, DocPut DEF Types
<1>7. CASE Failed(o) \/ image[b] \notin Indexes
  <2>1. TypeOK'
    BY <1>1, <1>4, <1>5, <1>6, <1>7 DEF Types, TypeOK, Live
  <2>2. image[b] \notin Indexes => Len(made[b]) = Len(Recipe[image[b]])
    BY <1>2
  <2>3. Shape(b)'
    BY <1>1, <1>4, <1>7, <2>2 DEF Types, TypeOK, Shape, Layering, Working
  <2> QED
    BY <1>5, <2>1, <2>3, TypesFrom DEF Write
<1>8. CASE ~(Failed(o) \/ image[b] \notin Indexes)
  <2> DEFINE p == at[b].part + 1
  <2>1. /\ p \in Nat \ {0} /\ Push(b, p) /\ Len(made[b]) = p - 1
        /\ p - 1 <= Len(Recipe[image[b]]) /\ image[b] \in Indexes
    BY <1>1, <1>2, <1>4, <1>8
  <2> HIDE DEF p
  <2>2. /\ pc' \in [Builds -> Live \cup {"idle", "done", "failed", "dead"}]
        /\ at' \in [Builds -> [part : Nat, layer : Nat]]
        /\ mem' \in [Builds -> Seq(Objects)] /\ Shape(b)'
    BY <1>1, <2>1, PushKeeps DEF Types
  <2>3. TypeOK'
    BY <1>1, <1>5, <1>6, <2>2 DEF Types, TypeOK
  <2> QED
    BY <1>5, <2>2, <2>3, TypesFrom DEF Write
<1> QED
  BY <1>7, <1>8

LEMMA PutIndexTypes == ASSUME Types, NEW b \in Builds, PutIndex(b) PROVE Types'
<1>1. /\ pc[b] = "index" /\ made[b] \in Seq(Manifests)
      /\ UNCHANGED <<content, layers, link, tag, image, at, mem, want, made>>
  BY DEF PutIndex, Types, TypeOK
<1>2. Index(made[b]) \in Indices
  BY <1>1 DEF Index, Indices
<1>3. PICK o \in WriteFile :
        /\ Comes(o) /\ PutDoc(Index(made[b]), o)
        /\ pc' = [pc EXCEPT ![b] = IF Failed(o) THEN "failed" ELSE "tag"]
  BY DEF PutIndex, Goto
<1>4. Bounded' /\ spent' \in [changes : Nat, faults : Nat, crashes : Nat]
  BY <1>3, BoundedKept
<1>5. TypeOK'
  BY <1>1, <1>2, <1>3, <1>4, DocPut DEF Types, TypeOK, Live
<1>6. Shape(b)'
  BY <1>1, <1>3 DEF Types, TypeOK, Shape, Layering, Working
<1> QED
  BY <1>4, <1>5, <1>6, TypesFrom DEF Write

(* What PutTag writes. *)
TagDoc(b) == IF image[b] \in Indexes THEN Index(made[b]) ELSE made[b][1]

LEMMA TagDocIs ==
  ASSUME Types, NEW b \in Builds, pc[b] = "tag"
  PROVE  image[b] \in Images /\ TagDoc(b) \in Manifests \cup Indices
<1>1. /\ image[b] \in Images /\ made[b] \in Seq(Manifests)
      /\ Len(made[b]) = Len(Recipe[image[b]])
  BY DEF Types, TypeOK, Shape
<1>2. image[b] \notin Indexes => Len(made[b]) = 1
  BY <1>1, StoreAssumption
<1> QED
  BY <1>1, <1>2 DEF TagDoc, Index, Indices

LEMMA PutTagTypes == ASSUME Types, NEW b \in Builds, PutTag(b) PROVE Types'
<1>1. /\ pc[b] = "tag"
      /\ UNCHANGED <<content, layers, docs, torn, link, image, at, mem, want, made>>
  BY DEF PutTag
<1>2. image[b] \in Images /\ TagDoc(b) \in Manifests \cup Indices
  BY <1>1, TagDocIs
<1>3. PICK o \in WriteFile :
        /\ Comes(o)
        /\ pc' = [pc EXCEPT ![b] = IF Failed(o) THEN "failed" ELSE "done"]
        /\ \/ tag' = [tag EXCEPT ![image[b]] = TagDoc(b)]
           \/ tag' = [tag EXCEPT ![image[b]] = Cut]
           \/ UNCHANGED tag
  BY DEF PutTag, Goto, TagDoc
<1>4. Bounded' /\ spent' \in [changes : Nat, faults : Nat, crashes : Nat]
  BY <1>3, BoundedKept
<1>5. tag' \in [Images -> {None, Cut} \cup Manifests \cup Indices]
  BY <1>2, <1>3 DEF Types, TypeOK
<1>6. pc' \in [Builds -> Live \cup {"idle", "done", "failed", "dead"}]
  BY <1>3 DEF Types, TypeOK
<1>7. TypeOK'
  BY <1>1, <1>4, <1>5, <1>6 DEF Types, TypeOK
<1>8. Shape(b)'
  BY <1>1, <1>3 DEF Types, TypeOK, Shape, Layering, Working
<1> QED
  BY <1>4, <1>7, <1>8, TypesFrom DEF Write

(* The other counters, like the one that BoundedKept is about. *)
LEMMA ChangeSpent ==
  ASSUME Types, spent.changes < MaxChanges, spent' = [spent EXCEPT !.changes = @ + 1]
  PROVE  /\ Bounded' /\ spent' \in [changes : Nat, faults : Nat, crashes : Nat]
         /\ spent'.changes > 0 /\ spent'.faults = spent.faults
<1>1. spent \in [changes : Nat, faults : Nat, crashes : Nat]
  BY DEF Types, TypeOK
<1> DEFINE c == spent.changes + 1
<1>2. c \in Nat /\ c <= MaxChanges /\ c > 0
  BY <1>1, StoreAssumption
<1>3. spent' = [spent EXCEPT !.changes = c]
  OBVIOUS
<1> HIDE DEF c
<1>4. /\ spent' \in [changes : Nat, faults : Nat, crashes : Nat]
      /\ spent'.changes = c /\ spent'.faults = spent.faults
  BY <1>1, <1>2, <1>3
<1> QED
  BY <1>2, <1>4 DEF Types, Bounded

LEMMA CrashSpent ==
  ASSUME Types, spent' = [spent EXCEPT !.crashes = @ + 1]
  PROVE  /\ Bounded' /\ spent' \in [changes : Nat, faults : Nat, crashes : Nat]
         /\ spent'.changes = spent.changes /\ spent'.faults = spent.faults
<1>1. spent \in [changes : Nat, faults : Nat, crashes : Nat]
  BY DEF Types, TypeOK
<1> DEFINE c == spent.crashes + 1
<1>2. c \in Nat
  BY <1>1
<1>3. spent' = [spent EXCEPT !.crashes = c]
  OBVIOUS
<1> HIDE DEF c
<1>4. /\ spent' \in [changes : Nat, faults : Nat, crashes : Nat]
      /\ spent'.changes = spent.changes /\ spent'.faults = spent.faults
  BY <1>1, <1>2, <1>3
<1> QED
  BY <1>4 DEF Types, Bounded

LEMMA ChangeTypes == ASSUME Types, NEW s \in Sources, Change(s) PROVE Types'
<1>1. UNCHANGED <<disk, pc, image, at, mem, want, made>>
  BY DEF Change
<1>2. content' \in [Sources -> Contents]
  BY DEF Change, Types, TypeOK
<1>3. Bounded' /\ spent' \in [changes : Nat, faults : Nat, crashes : Nat]
  BY ChangeSpent DEF Change
<1>4. TypeOK'
  BY <1>1, <1>2, <1>3 DEF Types, TypeOK, disk
<1>5. \A q \in Builds : Same(q)
  BY <1>1 DEF Same
<1> QED
  BY <1>3, <1>4, <1>5, SameShape DEF Types

LEMMA CrashTypes == ASSUME Types, Crash PROVE Types'
<1>1. /\ UNCHANGED <<content, disk, image, at, mem, want, made>>
      /\ pc' = [b \in Builds |-> IF pc[b] \in Live THEN "dead" ELSE pc[b]]
  BY DEF Crash
<1>2. Bounded' /\ spent' \in [changes : Nat, faults : Nat, crashes : Nat]
  BY CrashSpent DEF Crash
<1>3. TypeOK'
  BY <1>1, <1>2 DEF Types, TypeOK, disk
<1>4. ASSUME NEW q \in Builds PROVE Shape(q)'
  <2>1. CASE pc[q] \in Live
    BY <1>1, <2>1 DEF Types, Shape, Layering, Working, Live
  <2>2. CASE pc[q] \notin Live
    <3>1. Same(q)
      BY <1>1, <2>2 DEF Same
    <3> QED
      BY <3>1, SameShape DEF Types
  <2> QED
    BY <2>1, <2>2
<1> QED
  BY <1>2, <1>3, <1>4 DEF Types

LEMMA StutterTypes == ASSUME Types, UNCHANGED vars PROVE Types'
<1>1. TypeOK' /\ Bounded'
  BY DEF Types, TypeOK, Bounded, vars, disk
<1>2. \A q \in Builds : Same(q)
  BY DEF Same, vars
<1> QED
  BY <1>1, <1>2, SameShape DEF Types

LEMMA InitTypes == Init => Types
<1> SUFFICES ASSUME Init PROVE Types
  OBVIOUS
<1>1. TypeOK
  BY DEF Init, TypeOK
<1>2. Bounded
  BY StoreAssumption DEF Init, Bounded
<1>3. \A b \in Builds : Shape(b)
  BY DEF Init, Shape, Layering, Working
<1> QED
  BY <1>1, <1>2, <1>3 DEF Types

LEMMA NextTypes == ASSUME Types, [Next]_vars PROVE Types'
<1>1. ASSUME NEW b \in Builds, Write(b) PROVE Types'
  BY <1>1, StartTypes, LinkTypes, StatTypes, CopyTypes, SumTypes, EncodeTypes, RenameTypes,
     ComputeTypes, PutConfigTypes, PutBlobTypes, PutIndexTypes, PutTagTypes DEF Write
<1>2. Quiet => UNCHANGED vars
  BY DEF Quiet
<1> QED
  BY <1>1, <1>2, RequestTypes, ChangeTypes, CrashTypes, StutterTypes DEF Next

(* The invariant Types, on which all else rests, whatever happens.         *)
THEOREM Typing == Spec => []Types
BY InitTypes, NextTypes, PTL DEF Spec

(* Files, tags and builds only ever hold what the code puts there.         *)
THEOREM TypeCorrect == Spec => []TypeOK
BY Typing, PTL DEF Types
------------------------------------------------------------------------------
(* While sources keep their content. What the layer of a source can be.    *)
Fits(s, c) == \E t \in Sharers(s) : c = content[t]

(* A manifest of platform p of image i. *)
RightManifest(m, i, p) ==
  /\ DOMAIN m.layers = DOMAIN Recipe[i][p]
  /\ \A k \in DOMAIN m.layers :
       /\ Fits(Recipe[i][p][k], m.layers[k].digest)
       /\ Alone(Recipe[i][p][k]) => m.layers[k].digest \in layers

RightMade(b) == \A p \in DOMAIN made[b] : RightManifest(made[b][p], image[b], p)

(* What b holds fits the sources it is building, and is in the cache for   *)
(* the layers behind it whose source has a link file of its own.           *)
Right(b) ==
  /\ pc[b] \in Working => \A k \in DOMAIN mem[b] :
       /\ mem[b][k].own \in {None, content[SourceOf(b, k)]}
       /\ Passed(b, k) /\ Alone(SourceOf(b, k)) => content[SourceOf(b, k)] \in layers
  /\ pc[b] = "stat" => Fits(Source(b), want[b])
  /\ RightMade(b)

RightLinks == \A f \in Sources : Decodes(link[f]) => Fits(f, link[f].digest)

RightTags ==
  \A i \in Images : Known(i) =>
    /\ Len(Parts(i)) = Len(Recipe[i])
    /\ \A p \in DOMAIN Recipe[i] : RightManifest(Parts(i)[p], i, p)

Sound == RightLinks /\ RightTags /\ \A b \in Builds : Right(b)

LEMMA FitsSame ==
  ASSUME UNCHANGED content, NEW s, NEW c PROVE Fits(s, c)' = Fits(s, c)
BY DEF Fits

(* A link file fits all the sources that have it, and a lone one has only  *)
(* its own content.                                                        *)
LEMMA FitsAll ==
  ASSUME NEW s \in Sources, NEW c
  PROVE  /\ Fits(LinkOf(s), c) <=> Fits(s, c)
         /\ Fits(s, content[s]) /\ (Fits(s, c) /\ Alone(s) => c = content[s])
         /\ s \in BaseLayers => Alone(s)
<1>1. s \in BaseLayers => Alone(s)
  BY StoreAssumption DEF Alone, Sharers
<1> QED
  BY <1>1, Sharing DEF Fits

LEMMA MadeKept ==
  ASSUME NEW b \in Builds, Right(b), UNCHANGED content, layers \subseteq layers',
         image'[b] = image[b], made'[b] = made[b]
  PROVE  RightMade(b)'
BY FitsSame DEF Right, RightMade, RightManifest

LEMMA SameRight ==
  ASSUME NEW q \in Builds, Right(q), Same(q), UNCHANGED content, layers \subseteq layers'
  PROVE  Right(q)'
<1>1. RightMade(q)'
  BY MadeKept DEF Same
<1> QED
  BY <1>1, FitsSame DEF Right, Same, Passed, Source, SourceOf

LEMMA LinksKept ==
  ASSUME RightLinks, UNCHANGED <<content, link>> PROVE RightLinks'
BY FitsSame DEF RightLinks

LEMMA TagsKept ==
  ASSUME RightTags, UNCHANGED <<content, tag>>, layers \subseteq layers' PROVE RightTags'
BY FitsSame DEF RightTags, Known, Parts, RightManifest

LEMMA SoundFrom ==
  ASSUME Types, Sound, NEW b \in Builds, Request(b) \/ Write(b),
         \/ RightLinks' \/ UNCHANGED link,
         \/ RightTags' \/ UNCHANGED tag,
         Right(b)'
  PROVE  Sound'
<1>1. /\ \A q \in Builds \ {b} : Same(q)
      /\ UNCHANGED content /\ layers \subseteq layers'
  BY OnlyOwn DEF Types
<1>2. RightLinks' /\ RightTags'
  BY <1>1, LinksKept, TagsKept DEF Sound
<1>3. \A q \in Builds : Right(q)'
  BY <1>1, SameRight DEF Sound
<1> QED
  BY <1>2, <1>3 DEF Sound

LEMMA PushRight ==
  ASSUME Types, NEW b \in Builds, Right(b), NEW p \in Nat \ {0}, image[b] \in Images,
         Push(b, p), UNCHANGED <<content, image, made>>, layers \subseteq layers'
  PROVE  Right(b)'
<1>1. RightMade(b)'
  BY MadeKept
<1>2. Recipe[image[b]] \in Seq(Seq(Sources))
  BY RecipeIs
<1>3. CASE p > Len(Recipe[image[b]])
  <2>1. pc'[b] = "index"
    BY <1>3 DEF Push, Types, TypeOK
  <2> QED
    BY <1>1, <2>1 DEF Right, Working, Layering
<1>4. CASE p <= Len(Recipe[image[b]])
  <2>1. /\ pc'[b] = IF Recipe[image[b]][p] = <<>> THEN "compute" ELSE "link"
        /\ at'[b] = [part |-> p, layer |-> 1]
        /\ mem'[b] = [k \in DOMAIN Recipe[image[b]][p] |-> Unread]
        /\ p \in DOMAIN Recipe[image[b]]
    BY <1>4, PushedTo DEF Types
  <2>2. Recipe[image[b]][p] \in Seq(Sources)
    BY <1>2, <2>1
  <2>3. \A k \in DOMAIN mem'[b] : mem'[b][k].own = None /\ ~(k < 1)
    BY <2>1, <2>2 DEF Unread
  <2>4. pc'[b] = "compute" => DOMAIN mem'[b] = {}
    BY <2>1
  <2>5. \A k \in DOMAIN mem'[b] : ~Passed(b, k)'
    BY <2>1, <2>3, <2>4 DEF Passed
  <2>6. pc'[b] # "stat"
    BY <2>1
  <2> QED
    BY <1>1, <2>3, <2>5, <2>6 DEF Right
<1> QED
  BY <1>2, <1>3, <1>4

LEMMA RequestSound == ASSUME Types, Sound, NEW b \in Builds, Request(b) PROVE Sound'
<1>1. pc'[b] = "queued" /\ made'[b] = <<>> /\ UNCHANGED disk
  BY DEF Request, Goto, Types, TypeOK, Shape
<1>2. Right(b)'
  BY <1>1 DEF Right, RightMade, Working, Layering
<1> QED
  BY <1>1, <1>2, SoundFrom DEF disk

LEMMA StartSound == ASSUME Types, Sound, NEW b \in Builds, Start(b) PROVE Sound'
<1>1. image[b] \in Images /\ Push(b, 1) /\ UNCHANGED <<content, disk, image, made>>
  BY DEF Start, Types, Shape
<1>2. Right(b)'
  BY <1>1, PushRight DEF Sound, disk
<1> QED
  BY <1>1, <1>2, SoundFrom DEF disk, Write

(* A step of b within its platform. *)
LEMMA RightOn ==
  ASSUME NEW b \in Builds, UNCHANGED <<content, image>>, layers \subseteq layers',
         at'[b].part = at[b].part, RightMade(b)', DOMAIN mem'[b] = DOMAIN mem[b],
         \A j \in DOMAIN mem[b] :
           /\ mem'[b][j].own \in {None, content[SourceOf(b, j)]}
           /\ Passed(b, j)' /\ Alone(SourceOf(b, j)) => content[SourceOf(b, j)] \in layers',
         pc'[b] = "stat" => at'[b] = at[b] /\ Fits(Source(b), want'[b])
  PROVE  Right(b)'
<1>1. \A j \in DOMAIN mem[b] : SourceOf(b, j)' = SourceOf(b, j)
  BY DEF SourceOf
<1>2. ASSUME at'[b] = at[b] PROVE Source(b)' = Source(b)
  BY <1>2 DEF Source, SourceOf
<1>3. pc'[b] = "stat" => Fits(Source(b), want[b])'
  BY <1>2, FitsSame DEF Fits
<1> QED
  BY <1>1, <1>3 DEF Right

LEMMA LinkSound == ASSUME Types, Sound, NEW b \in Builds, Link(b) PROVE Sound'
<1> DEFINE s == Source(b)  l == link[LinkOf(s)]  k == at[b].layer
<1>1. pc[b] = "link" /\ k \in DOMAIN mem[b] /\ s \in Sources /\ mem[b][k] \in Objects
  BY Here DEF Link, Layering, Working, Source
<1>2. UNCHANGED <<content, disk, image, at, made, spent>>
  BY DEF Link
<1>3. \A j \in DOMAIN mem[b] :
        /\ mem[b][j].own \in {None, content[SourceOf(b, j)]}
        /\ Passed(b, j) /\ Alone(SourceOf(b, j)) => content[SourceOf(b, j)] \in layers
  BY <1>1 DEF Sound, Right, Working, Layering
<1>4. RightMade(b)'
  BY <1>2, MadeKept DEF Sound, disk
<1>5. \/ /\ pc'[b] = "stat" /\ Fits(s, want'[b])
         /\ DOMAIN mem'[b] = DOMAIN mem[b]
         /\ \A j \in DOMAIN mem[b] : j # k => mem'[b][j] = mem[b][j]
         /\ mem'[b][k].own \in {mem[b][k].own, content[s]}
      \/ pc'[b] = "copy" /\ mem'[b] = mem[b]
  <2>1. CASE s \in BaseLayers
    <3>1. /\ pc'[b] = "stat" /\ mem' = [mem EXCEPT ![b][k].own = content[s]]
          /\ want'[b] = content[s] /\ content[s] \in Contents
      BY <1>1, <2>1 DEF Link, Goto, Types, TypeOK
    <3>0. Fits(s, content[s])
      BY <1>1, FitsAll
    <3> DEFINE v == content[s]
    <3>2. v \in Contents /\ mem' = [mem EXCEPT ![b][k].own = v] /\ TypeOK
      BY <3>1 DEF Types
    <3> HIDE DEF v, k
    <3>3. /\ DOMAIN mem'[b] = DOMAIN mem[b]
          /\ \A j \in DOMAIN mem[b] : j # k => mem'[b][j] = mem[b][j]
          /\ mem'[b][k] = [own |-> v, diff |-> mem[b][k].diff, size |-> mem[b][k].size]
      BY <1>1, <3>2, OwnSet, ZenonT(60)
    <3> QED
      BY <3>0, <3>1, <3>3 DEF v
  <2>2. CASE s \notin BaseLayers /\ Decodes(l)
    <3> DEFINE o == [own |-> mem[b][k].own, diff |-> l.diff, size |-> l.size]
    <3>1. /\ pc'[b] = "stat" /\ mem' = [mem EXCEPT ![b][k] = o] /\ want'[b] = l.digest
      BY <1>1, <2>2 DEF Link, Goto, Types, TypeOK
    <3>2. Fits(s, l.digest)
      BY <1>1, <2>2, Sharing, FitsAll DEF Sound, RightLinks
    <3>3. o \in Objects /\ o.own = mem[b][k].own
      BY <1>1, <2>2, Sharing DEF Types, TypeOK, Decodes, Objects
    <3> HIDE DEF o, k
    <3>4. /\ DOMAIN mem'[b] = DOMAIN mem[b]
          /\ \A j \in DOMAIN mem[b] : j # k => mem'[b][j] = mem[b][j]
          /\ mem'[b][k] = o
      BY <1>1, <3>1, <3>3, LinkSet DEF Types
    <3> QED
      BY <3>1, <3>2, <3>3, <3>4
  <2>3. CASE s \notin BaseLayers /\ ~Decodes(l)
    BY <1>1, <2>3 DEF Link, Goto, Types, TypeOK
  <2> QED
    BY <2>1, <2>2, <2>3
<1>6. DOMAIN mem'[b] = DOMAIN mem[b] /\ pc'[b] # "compute"
  BY <1>5
<1>7. \A j \in DOMAIN mem[b] : mem'[b][j].own \in {None, content[SourceOf(b, j)]}
  BY <1>3, <1>5 DEF Source
<1>8. \A j \in DOMAIN mem[b] : Passed(b, j)' => Passed(b, j)
  BY <1>2, <1>6 DEF Passed
<1>9. Right(b)'
  <2>1. /\ UNCHANGED <<content, image, layers>> /\ at'[b] = at[b]
        /\ pc'[b] = "stat" => Fits(Source(b), want'[b])
    BY <1>2, <1>5 DEF disk
  <2> HIDE DEF s, l, k
  <2> QED
    BY <1>3, <1>4, <1>6, <1>7, <1>8, <2>1, RightOn
<1> QED
  BY <1>2, <1>9, SoundFrom DEF disk, Write

LEMMA StatSound == ASSUME Types, Sound, NEW b \in Builds, Stat(b) PROVE Sound'
<1>1. /\ pc[b] = "stat" /\ UNCHANGED <<content, disk, image, mem, want, made, spent>>
      /\ \/ want[b] \in layers /\ NextLayer(b)
         \/ pc' = [pc EXCEPT ![b] = "copy"] /\ UNCHANGED at
  BY DEF Stat, Goto
<1>2. /\ DOMAIN mem[b] = 1 .. Len(mem[b]) /\ at[b].layer \in DOMAIN mem[b]
      /\ at[b].layer \in Nat /\ Len(mem[b]) \in Nat
  BY <1>1, Here DEF Layering, Working
<1>3. /\ Alone(Source(b)) => want[b] = content[Source(b)]
      /\ \A j \in DOMAIN mem[b] :
           /\ mem[b][j].own \in {None, content[SourceOf(b, j)]}
           /\ Passed(b, j) /\ Alone(SourceOf(b, j)) => content[SourceOf(b, j)] \in layers
  BY <1>1, Here, FitsAll DEF Sound, Right, Working, Layering, Source
<1>4. RightMade(b)'
  BY <1>1, MadeKept DEF Sound, disk
<1>5. CASE want[b] \in layers /\ NextLayer(b)
  <2>1. at'[b].part = at[b].part /\ pc'[b] # "stat"
    BY <1>5, Onward DEF Types
  <2>2. \A j \in DOMAIN mem[b] : Passed(b, j)' => Passed(b, j) \/ j = at[b].layer
    BY <1>2, <1>5, Onward DEF Types, Passed
  <2>3. Right(b)'
    BY <1>1, <1>3, <1>4, <1>5, <2>1, <2>2, RightOn DEF Source, disk
  <2> QED
    BY <1>1, <2>3, SoundFrom DEF disk, Write
<1>6. CASE pc' = [pc EXCEPT ![b] = "copy"] /\ UNCHANGED at
  <2>1. pc'[b] = "copy"
    BY <1>6 DEF Types, TypeOK
  <2>2. \A j \in DOMAIN mem[b] : Passed(b, j)' => Passed(b, j)
    BY <1>6, <2>1 DEF Passed
  <2>3. Right(b)'
    BY <1>1, <1>3, <1>4, <1>6, <2>1, <2>2, RightOn DEF Source, disk
  <2> QED
    BY <1>1, <2>3, SoundFrom DEF disk, Write
<1> QED
  BY <1>1, <1>5, <1>6
LEMMA CopySound == ASSUME Types, Sound, NEW b \in Builds, Copy(b) PROVE Sound'
<1> DEFINE k == at[b].layer  v == content[Source(b)]
<1>1. /\ pc[b] = "copy" /\ k \in DOMAIN mem[b] /\ v \in Contents
      /\ UNCHANGED <<content, disk, image, at, want, made>>
  BY Here DEF Copy, Layering, Working, Source, Types, TypeOK
<1>2. RightMade(b)'
  BY <1>1, MadeKept DEF Sound, disk
<1>3. CASE pc'[b] = "failed"
  <2>1. Right(b)'
    BY <1>2, <1>3 DEF Right, Working, Layering
  <2> QED
    BY <1>1, <2>1, SoundFrom DEF disk, Write
<1>4. CASE pc'[b] = "sum" /\ mem' = [mem EXCEPT ![b][k].own = v]
  <2>1. /\ DOMAIN mem'[b] = DOMAIN mem[b]
        /\ \A j \in DOMAIN mem[b] : j # k => mem'[b][j] = mem[b][j]
        /\ mem'[b][k].own = v
    <3>1. TypeOK /\ mem' = [mem EXCEPT ![b][k].own = v]
      BY <1>4 DEF Types
    <3> HIDE DEF v, k
    <3>2. /\ DOMAIN mem'[b] = DOMAIN mem[b]
          /\ \A j \in DOMAIN mem[b] : j # k => mem'[b][j] = mem[b][j]
          /\ mem'[b][k] = [own |-> v, diff |-> mem[b][k].diff, size |-> mem[b][k].size]
      BY <1>1, <3>1, OwnSet, ZenonT(60)
    <3> QED
      BY <3>2
  <2>2. \A j \in DOMAIN mem[b] :
          /\ mem[b][j].own \in {None, content[SourceOf(b, j)]}
          /\ Passed(b, j) /\ Alone(SourceOf(b, j)) => content[SourceOf(b, j)] \in layers
    BY <1>1 DEF Sound, Right, Working, Layering
  <2>3. \A j \in DOMAIN mem[b] : mem'[b][j].own \in {None, content[SourceOf(b, j)]}
    BY <2>1, <2>2 DEF Source
  <2>4. \A j \in DOMAIN mem[b] : Passed(b, j)' => Passed(b, j)
    BY <1>1, <1>4 DEF Passed
  <2>5. Right(b)'
    BY <1>1, <1>2, <1>4, <2>1, <2>2, <2>3, <2>4, RightOn DEF disk
  <2> QED
    BY <1>1, <2>5, SoundFrom DEF disk, Write
<1> QED
  BY <1>1, <1>3, <1>4 DEF Copy, Goto, Types, TypeOK

LEMMA SumSound == ASSUME Types, Sound, NEW b \in Builds, Sum(b) PROVE Sound'
<1>1. /\ pc[b] = "sum" /\ pc'[b] \in {"encode", "rename"}
      /\ UNCHANGED <<content, disk, image, at, mem, want, made, spent>>
  BY DEF Sum, Goto, Types, TypeOK
<1>2. RightMade(b)' /\ Right(b)
  BY <1>1, MadeKept DEF Sound, disk
<1>3. Right(b)'
  BY <1>1, <1>2 DEF Right, Working, Layering, Passed, SourceOf, disk
<1> QED
  BY <1>1, <1>3, SoundFrom DEF disk, Write

(* What link files are made of. *)
LEMMA LinksRight ==
  ASSUME Types, RightLinks, NEW b \in Builds, Right(b), pc[b] \in Working, UNCHANGED content,
         NEW K, K \subseteq DOMAIN mem[b], \A k \in K : mem[b][k].own # None,
         NEW o \in [K -> WriteLink], WriteLinks(b, o)
  PROVE  RightLinks'
<1>1. \A k \in DOMAIN mem[b] : mem[b][k] \in Objects /\ SourceOf(b, k) \in Sources
  BY Here
<1>2. \A k \in K : mem[b][k].own \in Contents
  BY <1>1 DEF Objects
<1>3. \A k \in K : mem[b][k].own = content[SourceOf(b, k)]
  BY DEF Right
<1>4. \A f \in Sources :
        \/ link'[f] = link[f]
        \/ \E k \in K : LinkOf(SourceOf(b, k)) = f /\ Leaves(b, k, o[k], link'[f])
  BY <1>2, LinksWritten
<1>5. ASSUME NEW f \in Sources, Decodes(link'[f]) PROVE Fits(f, link'[f].digest)
  <2>1. CASE link'[f] = link[f]
    BY <1>5, <2>1 DEF RightLinks
  <2>2. ASSUME NEW k \in K, LinkOf(SourceOf(b, k)) = f, Leaves(b, k, o[k], link'[f])
        PROVE  Fits(f, link'[f].digest)
    <3>1. link'[f].digest = content[SourceOf(b, k)]
      BY <1>3, <1>5, <2>2 DEF Leaves, LinkTo, Decodes
    <3> QED
      BY <1>1, <2>2, <3>1, FitsAll
  <2> QED
    BY <1>4, <2>1, <2>2
<1> QED
  BY <1>5, FitsSame DEF RightLinks, Decodes

LEMMA EncodeSound == ASSUME Types, Sound, NEW b \in Builds, Encode(b) PROVE Sound'
<1> DEFINE k == at[b].layer
<1>1. /\ pc[b] = "encode" /\ k \in DOMAIN mem[b] /\ mem[b][k].own # None
      /\ pc'[b] = "rename" /\ pc[b] \in Working
      /\ UNCHANGED <<content, layers, docs, torn, tag, image, at, mem, want, made>>
  BY Here DEF Encode, Goto, Layering, Working, Types, TypeOK, Shape, Layer
<1>2. PICK o \in WriteLink : WriteLinks(b, [j \in {k} |-> o])
  BY DEF Encode
<1>3. RightLinks'
  <2>1. /\ [j \in {k} |-> o] \in [{k} -> WriteLink] /\ {k} \subseteq DOMAIN mem[b]
        /\ \A j \in {k} : mem[b][j].own # None
    BY <1>1
  <2> HIDE DEF k
  <2> QED
    BY <1>1, <1>2, <2>1, LinksRight DEF Sound
<1>4. RightMade(b)' /\ Right(b)
  BY <1>1, MadeKept DEF Sound
<1>5. Right(b)'
  BY <1>1, <1>4 DEF Right, Working, Layering, Passed, SourceOf
<1> QED
  BY <1>1, <1>3, <1>5, SoundFrom DEF Write

LEMMA RenameSound == ASSUME Types, Sound, NEW b \in Builds, Rename(b) PROVE Sound'
<1>1. /\ pc[b] = "rename" /\ at[b].layer \in DOMAIN mem[b] /\ at[b].layer \in Nat
      /\ DOMAIN mem[b] = 1 .. Len(mem[b]) /\ Len(mem[b]) \in Nat
      /\ Layer(b).own # None
      /\ UNCHANGED <<content, docs, torn, link, tag, image, mem, want, made>>
      /\ layers \subseteq layers'
  BY Here DEF Rename, Layering, Working, Types, Shape, Layer, disk
<1>2. /\ Layer(b).own = content[Source(b)]
      /\ \A j \in DOMAIN mem[b] :
           /\ mem[b][j].own \in {None, content[SourceOf(b, j)]}
           /\ Passed(b, j) /\ Alone(SourceOf(b, j)) => content[SourceOf(b, j)] \in layers
  BY <1>1 DEF Sound, Right, Working, Layering, Layer, Source
<1>3. RightMade(b)'
  BY <1>1, MadeKept DEF Sound
<1>4. CASE NextLayer(b) /\ layers' = layers \cup {Layer(b).own}
  <2>1. at'[b].part = at[b].part /\ pc'[b] # "stat"
    BY <1>4, Onward DEF Types
  <2>2. \A j \in DOMAIN mem[b] : Passed(b, j)' => Passed(b, j) \/ j = at[b].layer
    BY <1>1, <1>4, Onward DEF Types, Passed
  <2>3. Right(b)'
    BY <1>1, <1>2, <1>3, <1>4, <2>1, <2>2, RightOn DEF Source
  <2> QED
    BY <1>1, <2>3, SoundFrom DEF Write
<1>5. CASE pc'[b] = "failed"
  <2>1. Right(b)'
    BY <1>3, <1>5 DEF Right, Working, Layering
  <2> QED
    BY <1>1, <2>1, SoundFrom DEF Write
<1> QED
  BY <1>4, <1>5 DEF Rename, Goto, Types, TypeOK

LEMMA ComputeSound == ASSUME Types, Sound, NEW b \in Builds, Compute(b) PROVE Sound'
<1>1. /\ pc[b] = "compute" /\ pc[b] \in Working
      /\ UNCHANGED <<content, layers, docs, torn, tag, image, at, mem, want>>
  BY DEF Compute, Working
<1>2. CASE pc' = [pc EXCEPT ![b] = "failed"] /\ UNCHANGED <<made, link, spent>>
  <2>1. pc'[b] = "failed"
    BY <1>2 DEF Types, TypeOK
  <2>2. RightMade(b)'
    BY <1>1, <1>2, MadeKept DEF Sound
  <2>3. Right(b)'
    BY <2>1, <2>2 DEF Right, Working, Layering
  <2> QED
    BY <1>1, <1>2, <2>3, SoundFrom DEF Write
<1>3. ASSUME pc' = [pc EXCEPT ![b] = "config"],
             made' = [made EXCEPT ![b] = Append(made[b], Computed(b))],
             AllKnown(b), NEW o \in [Missing(b) -> WriteLink], WriteLinks(b, o)
      PROVE  Sound'
  <2>1. pc'[b] = "config" /\ made'[b] = Append(made[b], Computed(b))
    BY <1>3 DEF Types, TypeOK
  <2>2. /\ made[b] \in Seq(Manifests) /\ at[b].part \in Nat /\ Len(made[b]) = at[b].part - 1
        /\ DOMAIN mem[b] = DOMAIN Recipe[image[b]][at[b].part]
        /\ \A k \in DOMAIN mem[b] : SourceOf(b, k) \in Sources
    BY <1>1, Here DEF Types, TypeOK, Shape
  <2>3. \A k \in DOMAIN mem[b] :
          /\ mem[b][k].own \in {None, content[SourceOf(b, k)]}
          /\ Alone(SourceOf(b, k)) => content[SourceOf(b, k)] \in layers
    BY <1>1 DEF Sound, Right, Passed
  <2>4. ASSUME NEW k \in DOMAIN mem[b] PROVE Fits(SourceOf(b, k), DigestOf(b, k))
    <3>1. CASE mem[b][k].own = None
      <4>1. Fits(LinkOf(SourceOf(b, k)), link[LinkOf(SourceOf(b, k))].digest)
        BY <1>3, <2>2, <3>1, Sharing DEF AllKnown, Sound, RightLinks
      <4> QED
        BY <2>2, <3>1, <4>1, FitsAll DEF DigestOf
    <3>2. CASE mem[b][k].own # None
      BY <2>2, <2>3, <3>2, FitsAll DEF DigestOf
    <3> QED
      BY <3>1, <3>2
  <2>5. RightManifest(Computed(b), image[b], at[b].part)
    <3>1. /\ DOMAIN Computed(b).layers = DOMAIN mem[b]
          /\ \A k \in DOMAIN mem[b] : Computed(b).layers[k].digest = DigestOf(b, k)
      BY DEF Computed, Manifest, DescOf
    <3>2. ASSUME NEW k \in DOMAIN mem[b]
          PROVE  /\ Fits(SourceOf(b, k), Computed(b).layers[k].digest)
                 /\ Alone(SourceOf(b, k)) => Computed(b).layers[k].digest \in layers
      BY <2>2, <2>3, <2>4, <3>1, FitsAll
    <3>3. \A k \in DOMAIN mem[b] : SourceOf(b, k) = Recipe[image[b]][at[b].part][k]
      BY DEF SourceOf
    <3> HIDE DEF Computed, SourceOf
    <3> QED
      BY <2>2, <2>3, <3>1, <3>2, <3>3 DEF RightManifest
  <2>6. ASSUME NEW p \in DOMAIN made'[b] PROVE RightManifest(made'[b][p], image[b], p)
    <3>1. CASE p = at[b].part
      <4>1. made'[b][p] = Computed(b)
        BY <2>1, <2>2, <3>1
      <4> QED
        BY <2>5, <3>1, <4>1
    <3>2. CASE p # at[b].part
      <4>1. p \in DOMAIN made[b] /\ made'[b][p] = made[b][p]
        BY <2>1, <2>2, <2>6, <3>2
      <4> QED
        BY <4>1 DEF Sound, Right, RightMade
    <3> QED
      BY <3>1, <3>2
  <2>7. Right(b)'
    BY <1>1, <2>1, <2>6, FitsSame DEF Right, RightMade, RightManifest, Working, Layering
  <2>8. RightLinks'
    <3>1. Missing(b) \subseteq DOMAIN mem[b] /\ \A k \in Missing(b) : mem[b][k].own # None
      BY DEF Missing, Unlinked
    <3> QED
      BY <1>1, <1>3, <3>1, LinksRight DEF Sound
  <2> QED
    BY <1>1, <2>7, <2>8, SoundFrom DEF Write
<1> QED
  BY <1>2, <1>3, ComputeIs

LEMMA PutConfigSound == ASSUME Types, Sound, NEW b \in Builds, PutConfig(b) PROVE Sound'
<1>1. /\ pc[b] = "config" /\ pc'[b] \in {"failed", "blob"}
      /\ UNCHANGED <<content, layers, link, tag, image, at, mem, want, made>>
  BY DEF PutConfig, Goto, Types, TypeOK
<1>2. Right(b)'
  BY <1>1, MadeKept DEF Sound, Right, Working, Layering
<1> QED
  BY <1>1, <1>2, SoundFrom DEF Write

LEMMA PutBlobSound == ASSUME Types, Sound, NEW b \in Builds, PutBlob(b) PROVE Sound'
<1>1. /\ pc[b] = "blob" /\ image[b] \in Images /\ at[b].part \in Nat
      /\ UNCHANGED <<content, layers, link, tag, image, want, made>>
  BY Here DEF PutBlob, Working
<1>2. CASE pc'[b] \in {"failed", "tag"}
  <2>1. Right(b)'
    BY <1>1, <1>2, MadeKept DEF Sound, Right, Working, Layering
  <2> QED
    BY <1>1, <2>1, SoundFrom DEF Write
<1>3. CASE Push(b, at[b].part + 1)
  <2>1. at[b].part + 1 \in Nat \ {0}
    BY <1>1
  <2>2. Right(b)'
    BY <1>1, <1>3, <2>1, PushRight DEF Sound
  <2> QED
    BY <1>1, <2>2, SoundFrom DEF Write
<1> QED
  BY <1>2, <1>3 DEF PutBlob, Goto, Types, TypeOK

LEMMA PutIndexSound == ASSUME Types, Sound, NEW b \in Builds, PutIndex(b) PROVE Sound'
<1>1. /\ pc[b] = "index" /\ pc'[b] \in {"failed", "tag"}
      /\ UNCHANGED <<content, layers, link, tag, image, at, mem, want, made>>
  BY DEF PutIndex, Goto, Types, TypeOK
<1>2. Right(b)'
  BY <1>1, MadeKept DEF Sound, Right, Working, Layering
<1> QED
  BY <1>1, <1>2, SoundFrom DEF Write

LEMMA PutTagSound == ASSUME Types, Sound, NEW b \in Builds, PutTag(b) PROVE Sound'
<1>1. /\ pc[b] = "tag" /\ pc'[b] \in {"failed", "done"}
      /\ UNCHANGED <<content, layers, docs, torn, link, image, at, mem, want, made>>
  BY DEF PutTag, Goto, Types, TypeOK
<1>2. Right(b)'
  BY <1>1, MadeKept DEF Sound, Right, Working, Layering
<1>3. /\ image[b] \in Images /\ made[b] \in Seq(Manifests)
      /\ Len(made[b]) = Len(Recipe[image[b]]) /\ Recipe[image[b]] \in Seq(Seq(Sources))
      /\ image[b] \notin Indexes => Len(Recipe[image[b]]) = 1
      /\ TypeOK /\ RightMade(b) /\ RightTags
  BY <1>1, RecipeIs, StoreAssumption DEF Types, TypeOK, Shape, Sound, Right
<1>4. \/ tag' = [tag EXCEPT ![image[b]] = TagDoc(b)]
      \/ tag' = [tag EXCEPT ![image[b]] = Cut]
      \/ UNCHANGED tag
  BY DEF PutTag, TagDoc
<1>5. DOMAIN Recipe[image[b]] = DOMAIN made[b]
  BY <1>3
<1>6. ASSUME NEW i \in Images, Known(i)'
      PROVE  /\ Len(Parts(i)') = Len(Recipe[i])
             /\ \A p \in DOMAIN Recipe[i] : RightManifest(Parts(i)'[p], i, p)
  <2>1. CASE tag'[i] = tag[i]
    BY <1>3, <1>6, <2>1 DEF RightTags, Known, Parts
  <2>2. CASE tag'[i] # tag[i]
    <3>1. i = image[b] /\ tag'[i] = TagDoc(b)
      BY <1>3, <1>4, <1>6, <2>2 DEF Known, TypeOK
    <3>2. CASE i \in Indexes
      <4>1. Parts(i)' = made[b]
        BY <3>1, <3>2 DEF Parts, TagDoc, Index
      <4> QED
        BY <1>3, <1>5, <3>1, <4>1 DEF RightMade
    <3>3. CASE i \notin Indexes
      <4>1. Parts(i)' = <<made[b][1]>>
        BY <3>1, <3>3 DEF Parts, TagDoc
      <4>2. Len(Recipe[i]) = 1 /\ DOMAIN Recipe[i] = 1 .. 1
        BY <1>3, <3>1, <3>3
      <4> QED
        BY <1>3, <1>5, <3>1, <4>1, <4>2 DEF RightMade
    <3> QED
      BY <3>2, <3>3
  <2> QED
    BY <2>1, <2>2
<1>7. RightTags'
  BY <1>1, <1>6, FitsSame DEF RightTags, RightManifest
<1> QED
  BY <1>1, <1>2, <1>7, SoundFrom DEF Write

LEMMA CrashSound == ASSUME Types, Sound, Crash PROVE Sound'
<1>1. /\ UNCHANGED <<content, disk, image, at, mem, want, made>>
      /\ pc' = [b \in Builds |-> IF pc[b] \in Live THEN "dead" ELSE pc[b]]
  BY DEF Crash
<1>2. RightLinks' /\ RightTags'
  BY <1>1, LinksKept, TagsKept DEF Sound, disk
<1>3. ASSUME NEW q \in Builds PROVE Right(q)'
  BY <1>1, MadeKept DEF Sound, Right, Working, Layering, Live, disk
<1> QED
  BY <1>2, <1>3 DEF Sound

LEMMA StutterSound == ASSUME Types, Sound, UNCHANGED vars PROVE Sound'
<1>1. RightLinks' /\ RightTags'
  BY LinksKept, TagsKept DEF Sound, vars, disk
<1>2. \A q \in Builds : Right(q)'
  BY SameRight DEF Same, Sound, vars, disk
<1> QED
  BY <1>1, <1>2 DEF Sound

LEMMA InitSound == Init => Sound
<1> SUFFICES ASSUME Init PROVE Sound
  OBVIOUS
<1>1. RightLinks /\ RightTags
  BY DEF Init, RightLinks, RightTags, Decodes, Known
<1>2. \A b \in Builds : Right(b)
  BY DEF Init, Right, RightMade, Working, Layering
<1> QED
  BY <1>1, <1>2 DEF Sound

(* No step of a build changes a source. *)
LEMMA ChangesKept ==
  ASSUME Types, NEW b \in Builds, Request(b) \/ Write(b)
  PROVE  spent'.changes = spent.changes
<1>1. (\E o : Comes(o)) => spent'.changes = spent.changes
  BY BoundedKept
<1> QED
  BY <1>1 DEF Request, Write, Start, Link, Stat, Copy, Sum, Encode, Rename, Compute,
              PutConfig, PutBlob, PutIndex, PutTag

Steady == spent.changes = 0 => Sound

LEMMA NextSteady == ASSUME Types, Steady, [Next]_vars PROVE Steady'
<1>1. ASSUME NEW b \in Builds, Request(b) \/ Write(b) PROVE Steady'
  <2>1. ASSUME Sound PROVE Sound'
    BY <1>1, <2>1, RequestSound, StartSound, LinkSound, StatSound, CopySound, SumSound,
       EncodeSound, RenameSound, ComputeSound, PutConfigSound, PutBlobSound, PutIndexSound,
       PutTagSound DEF Write
  <2> QED
    BY <1>1, <2>1, ChangesKept DEF Steady
<1>2. ASSUME NEW s \in Sources, Change(s) PROVE Steady'
  BY <1>2, ChangeSpent DEF Change, Steady
<1>3. CASE Crash
  BY <1>3, CrashSound, CrashSpent DEF Crash, Steady
<1>4. CASE UNCHANGED vars
  BY <1>4, StutterSound DEF Steady, vars
<1>5. Quiet => UNCHANGED vars
  BY DEF Quiet
<1> QED
  BY <1>1, <1>2, <1>3, <1>4, <1>5 DEF Next

(* While sources keep their content, whatever fails: a layer that was hit, *)
(* copied or remembered is of its source or of one that shares its link    *)
(* file, and in the cache if its source has a link file of its own.        *)
THEOREM Steadiness == Spec => []Steady
<1>1. Init => Steady
  BY InitSound DEF Steady
<1> QED
  BY <1>1, Typing, NextSteady, PTL DEF Spec
------------------------------------------------------------------------------
(* While no disk operation fails. A layer that b holds without having read *)
(* it is remembered by a link file, which stays.                           *)
Remembered(b) ==
  /\ pc[b] # "failed"
  /\ pc[b] \in Working => \A k \in DOMAIN mem[b] :
       mem[b][k].own = None /\ mem[b][k].diff # None => Decodes(link[LinkOf(SourceOf(b, k))])

Lasting == /\ \A s \in Sources : link[s] # Junk
           /\ \A b \in Builds : Remembered(b)

LEMMA SourcesIn ==
  ASSUME Types, NEW b \in Builds, pc[b] \in Working, NEW k \in DOMAIN mem[b]
  PROVE  SourceOf(b, k) \in Sources /\ LinkOf(SourceOf(b, k)) \in Sources
BY Here, Sharing

LEMMA SameRemembered ==
  ASSUME Types, NEW q \in Builds, Remembered(q), Same(q),
         \A s \in Sources : Decodes(link[s]) => Decodes(link'[s])
  PROVE  Remembered(q)'
<1>1. pc[q] \in Working => \A k \in DOMAIN mem[q] : LinkOf(SourceOf(q, k)) \in Sources
  BY SourcesIn
<1> QED
  BY <1>1 DEF Remembered, Same, SourceOf, Decodes

LEMMA LastingFrom ==
  ASSUME Types, Lasting, NEW b \in Builds, Request(b) \/ Write(b),
         \/ UNCHANGED link
         \/ \A s \in Sources : link'[s] # Junk /\ (Decodes(link[s]) => Decodes(link'[s])),
         Remembered(b)'
  PROVE  Lasting'
<1>1. /\ \A q \in Builds \ {b} : Same(q)
      /\ \A s \in Sources : link'[s] # Junk /\ (Decodes(link[s]) => Decodes(link'[s]))
  <2>1. \A q \in Builds \ {b} : Same(q)
    BY OnlyOwn DEF Types
  <2>2. CASE UNCHANGED link
    BY <2>1, <2>2 DEF Lasting, Decodes
  <2>3. CASE \A s \in Sources : link'[s] # Junk /\ (Decodes(link[s]) => Decodes(link'[s]))
    BY <2>1, <2>3 DEF Decodes
  <2> QED
    BY <2>2, <2>3
<1>2. \A q \in Builds : Remembered(q)'
  BY <1>1, SameRemembered DEF Lasting
<1> QED
  BY <1>1, <1>2 DEF Lasting

(* A step that leaves alone what b remembers. *)
LEMMA LastingKept ==
  ASSUME Types, Lasting, NEW b \in Builds, Request(b) \/ Write(b), UNCHANGED link,
         pc'[b] # "failed",
         \/ pc'[b] \notin Working
         \/ /\ pc[b] \in Working /\ image'[b] = image[b]
            /\ at'[b].part = at[b].part /\ mem'[b] = mem[b]
  PROVE  Lasting'
<1>1. Remembered(b)'
  BY DEF Lasting, Remembered, SourceOf
<1> QED
  BY <1>1, LastingFrom

LEMMA PushRemembered ==
  ASSUME Types, NEW b \in Builds, NEW p \in Nat \ {0}, image[b] \in Images, Push(b, p)
  PROVE  Remembered(b)'
<1>1. Recipe[image[b]] \in Seq(Seq(Sources))
  BY RecipeIs
<1>2. CASE p > Len(Recipe[image[b]])
  <2>1. pc'[b] = "index"
    BY <1>2 DEF Push, Types, TypeOK
  <2> QED
    BY <2>1 DEF Remembered, Working, Layering
<1>3. CASE p <= Len(Recipe[image[b]])
  <2>1. /\ pc'[b] = IF Recipe[image[b]][p] = <<>> THEN "compute" ELSE "link"
        /\ mem'[b] = [k \in DOMAIN Recipe[image[b]][p] |-> Unread]
    BY <1>3, PushedTo DEF Types
  <2>2. \A k \in DOMAIN mem'[b] : mem'[b][k].diff = None
    BY <2>1 DEF Unread
  <2>3. pc'[b] # "failed"
    BY <2>1
  <2> QED
    BY <2>2, <2>3 DEF Remembered
<1> QED
  BY <1>1, <1>2, <1>3

LEMMA LinkLasting == ASSUME Types, Lasting, NEW b \in Builds, Link(b) PROVE Lasting'
<1> DEFINE s == Source(b)  l == link[LinkOf(s)]  k == at[b].layer
<1>1. /\ pc[b] = "link" /\ k \in DOMAIN mem[b] /\ s \in Sources /\ mem[b][k] \in Objects
      /\ pc[b] \in Working
  BY Here DEF Link, Layering, Working, Source
<1>2. UNCHANGED <<content, disk, image, at, made, spent>>
  BY DEF Link
<1>3. \A j \in DOMAIN mem[b] :
        mem[b][j].own = None /\ mem[b][j].diff # None => Decodes(link[LinkOf(SourceOf(b, j))])
  BY <1>1 DEF Lasting, Remembered
<1>4. CASE s \in BaseLayers
  <2>1. /\ pc'[b] = "stat" /\ mem' = [mem EXCEPT ![b][k].own = content[s]]
        /\ content[s] \in Contents
    BY <1>1, <1>4 DEF Link, Goto, Types, TypeOK
  <2> DEFINE v == content[s]
  <2>2. v \in Contents /\ mem' = [mem EXCEPT ![b][k].own = v] /\ TypeOK /\ v # None
    BY <2>1, StoreAssumption DEF Types
  <2> HIDE DEF v, k
  <2>3. /\ DOMAIN mem'[b] = DOMAIN mem[b]
        /\ \A j \in DOMAIN mem[b] : j # k => mem'[b][j] = mem[b][j]
        /\ mem'[b][k] = [own |-> v, diff |-> mem[b][k].diff, size |-> mem[b][k].size]
    BY <1>1, <2>2, OwnSet, ZenonT(60)
  <2>4. mem'[b][k].own = v
    BY <2>3
  <2>5. Remembered(b)'
    BY <1>2, <1>3, <2>1, <2>2, <2>3, <2>4 DEF Remembered, SourceOf, disk
  <2> QED
    BY <1>2, <2>5, LastingFrom DEF Write, disk
<1>5. CASE s \notin BaseLayers /\ Decodes(l)
  <2> DEFINE o == [own |-> mem[b][k].own, diff |-> l.diff, size |-> l.size]
  <2>1. /\ pc'[b] = "stat" /\ mem' = [mem EXCEPT ![b][k] = o]
        /\ Decodes(link[LinkOf(SourceOf(b, k))])
    BY <1>1, <1>5 DEF Link, Goto, Types, TypeOK, Source
  <2>2. o \in Objects
    BY <1>1, <1>5, Sharing DEF Types, TypeOK, Decodes, Objects
  <2> HIDE DEF o, k
  <2>3. /\ DOMAIN mem'[b] = DOMAIN mem[b]
        /\ \A j \in DOMAIN mem[b] : j # k => mem'[b][j] = mem[b][j]
    BY <1>1, <2>1, <2>2, LinkSet DEF Types
  <2>4. Remembered(b)'
    BY <1>2, <1>3, <2>1, <2>3 DEF Remembered, SourceOf, disk
  <2> QED
    BY <1>2, <2>4, LastingFrom DEF Write, disk
<1>6. CASE s \notin BaseLayers /\ ~Decodes(l)
  <2>1. pc'[b] = "copy" /\ mem'[b] = mem[b]
    BY <1>1, <1>6 DEF Link, Goto, Types, TypeOK
  <2> QED
    BY <1>1, <1>2, <2>1, LastingKept DEF Write, disk
<1> QED
  BY <1>4, <1>5, <1>6

LEMMA StatLasting == ASSUME Types, Lasting, NEW b \in Builds, Stat(b) PROVE Lasting'
<1>1. /\ pc[b] = "stat" /\ UNCHANGED <<content, disk, image, mem, want, made, spent>>
      /\ NextLayer(b) \/ (pc'[b] = "copy" /\ UNCHANGED at)
  BY DEF Stat, Goto, Types, TypeOK
<1>2. pc'[b] # "failed" /\ at'[b].part = at[b].part
  BY <1>1, Onward DEF Types
<1> QED
  BY <1>1, <1>2, LastingKept DEF Working, Layering, Write, disk

LEMMA CopyLasting ==
  ASSUME Types, Lasting, NEW b \in Builds, Copy(b), spent'.faults = 0 PROVE Lasting'
<1> DEFINE k == at[b].layer  v == content[Source(b)]
<1>1. /\ pc[b] = "copy" /\ pc[b] \in Working /\ k \in DOMAIN mem[b] /\ v \in Contents
      /\ UNCHANGED <<content, disk, image, at, want, made>>
  BY Here DEF Copy, Layering, Working, Source, Types, TypeOK
<1>2. pc'[b] = "sum" /\ mem' = [mem EXCEPT ![b][k].own = v]
  BY BoundedKept DEF Copy, Goto, Failed, Types, TypeOK
<1>3. v # None /\ TypeOK
  BY <1>1, StoreAssumption DEF Types
<1> HIDE DEF v, k
<1>4. /\ DOMAIN mem'[b] = DOMAIN mem[b]
      /\ \A j \in DOMAIN mem[b] : j # k => mem'[b][j] = mem[b][j]
      /\ mem'[b][k] = [own |-> v, diff |-> mem[b][k].diff, size |-> mem[b][k].size]
  BY <1>1, <1>2, <1>3, OwnSet, ZenonT(60)
<1>5. mem'[b][k].own = v
  BY <1>4
<1>6. Remembered(b)'
  BY <1>1, <1>2, <1>3, <1>4, <1>5 DEF Lasting, Remembered, SourceOf, disk
<1> QED
  BY <1>1, <1>6, LastingFrom DEF Write, disk

(* Without a fault a link file is only ever replaced by one that decodes.  *)
LEMMA LinksLast ==
  ASSUME Types, Lasting, NEW b \in Builds, pc[b] \in Working,
         NEW K, K \subseteq DOMAIN mem[b], \A k \in K : mem[b][k].own # None,
         NEW o \in [K -> WriteLink], \A k \in K : o[k] = "ok", WriteLinks(b, o)
  PROVE  \A f \in Sources : link'[f] # Junk /\ (Decodes(link[f]) => Decodes(link'[f]))
<1>1. \A k \in K : mem[b][k].own \in Contents
  BY Here DEF Objects
<1>2. \A f \in Sources : \/ link'[f] = link[f]
                       \/ \E k \in K : Leaves(b, k, o[k], link'[f])
  BY <1>1, LinksWritten
<1>3. ASSUME NEW c \in Contents PROVE LinkTo(c, c) \notin {None, Junk}
  <2>1. LinkTo(c, c) \in [digest : Contents, diff : Contents, size : Contents \cup {Cut}]
    BY DEF LinkTo
  <2> QED
    BY <2>1, StoreAssumption
<1>4. \A f \in Sources, k \in K : Leaves(b, k, o[k], link'[f]) => link'[f] \notin {None, Junk}
  BY <1>1, <1>3 DEF Leaves
<1> QED
  BY <1>2, <1>4 DEF Lasting, Decodes

LEMMA EncodeLasting ==
  ASSUME Types, Lasting, NEW b \in Builds, Encode(b), spent'.faults = 0 PROVE Lasting'
<1> DEFINE k == at[b].layer
<1>1. /\ pc[b] = "encode" /\ pc[b] \in Working /\ k \in DOMAIN mem[b]
      /\ mem[b][k].own # None /\ pc'[b] = "rename"
      /\ UNCHANGED <<content, layers, docs, torn, tag, image, at, mem, want, made>>
  BY Here DEF Encode, Goto, Layering, Working, Types, TypeOK, Shape, Layer
<1>2. WriteLinks(b, [j \in {k} |-> "ok"])
  BY BoundedKept DEF Encode
<1>3. \A s \in Sources : link'[s] # Junk /\ (Decodes(link[s]) => Decodes(link'[s]))
  <2> DEFINE o == [j \in {k} |-> "ok"]
  <2>1. /\ o \in [{k} -> WriteLink] /\ {k} \subseteq DOMAIN mem[b]
        /\ \A j \in {k} : mem[b][j].own # None /\ o[j] = "ok"
    BY <1>1 DEF WriteLink, WriteFile
  <2>2. WriteLinks(b, o)
    BY <1>2
  <2> HIDE DEF k, o
  <2> QED
    BY <1>1, <2>1, <2>2, LinksLast
<1>4. \A j \in DOMAIN mem[b] : LinkOf(SourceOf(b, j)) \in Sources
  BY <1>1, SourcesIn
<1>5. Remembered(b)'
  BY <1>1, <1>3, <1>4 DEF Lasting, Remembered, SourceOf, Decodes
<1> QED
  BY <1>3, <1>5, LastingFrom DEF Write

LEMMA RenameLasting ==
  ASSUME Types, Lasting, NEW b \in Builds, Rename(b), spent'.faults = 0 PROVE Lasting'
<1>1. /\ pc[b] = "rename" /\ NextLayer(b)
      /\ UNCHANGED <<content, docs, torn, link, tag, image, mem, want, made>>
  BY BoundedKept DEF Rename
<1>2. pc'[b] # "failed" /\ at'[b].part = at[b].part
  BY <1>1, Onward DEF Types
<1> QED
  BY <1>1, <1>2, LastingKept DEF Working, Layering, Write

(* The step of a build that computes a manifest, without a fault. *)
LEMMA ComputesOn ==
  ASSUME Types, Lasting, NEW b \in Builds, Compute(b), spent'.faults = 0
  PROVE  /\ pc'[b] = "config" /\ made'[b] = Append(made[b], Computed(b)) /\ AllKnown(b)
         /\ \E o \in [Missing(b) -> WriteLink] :
              (\A k \in Missing(b) : o[k] = "ok") /\ WriteLinks(b, o)
<1>1. AllKnown(b)
  BY DEF Compute, Working, Types, Shape, Passed, Got, Lasting, Remembered, AllKnown
<1>2. /\ pc' = [pc EXCEPT ![b] = "config"]
      /\ made' = [made EXCEPT ![b] = Append(made[b], Computed(b))]
      /\ \E o \in [Missing(b) -> WriteLink] : Comes(Outcome(b, o)) /\ WriteLinks(b, o)
  BY <1>1, ComputeIs
<1>3. PICK o \in [Missing(b) -> WriteLink] : Comes(Outcome(b, o)) /\ WriteLinks(b, o)
  BY <1>2
<1>4. Outcome(b, o) = "ok"
  BY <1>3, BoundedKept
<1>5. \A k \in Missing(b) : o[k] = "ok"
  BY <1>4 DEF Outcome
<1>6. pc'[b] = "config" /\ made'[b] = Append(made[b], Computed(b))
  BY <1>2 DEF Types, TypeOK
<1> QED
  BY <1>1, <1>3, <1>5, <1>6

LEMMA ComputeLasting ==
  ASSUME Types, Lasting, NEW b \in Builds, Compute(b), spent'.faults = 0 PROVE Lasting'
<1>1. pc[b] \in Working
  BY DEF Compute, Working
<1>2. PICK o \in [Missing(b) -> WriteLink] :
        (\A k \in Missing(b) : o[k] = "ok") /\ WriteLinks(b, o)
  BY ComputesOn
<1>3. Missing(b) \subseteq DOMAIN mem[b] /\ \A k \in Missing(b) : mem[b][k].own # None
  BY DEF Missing, Unlinked
<1>4. \A s \in Sources : link'[s] # Junk /\ (Decodes(link[s]) => Decodes(link'[s]))
  BY <1>1, <1>2, <1>3, LinksLast
<1>5. Remembered(b)'
  BY ComputesOn DEF Remembered, Working, Layering
<1> QED
  BY <1>4, <1>5, LastingFrom DEF Write

(* The steps that write documents, and the first two. *)
LEMMA OthersLasting ==
  ASSUME Types, Lasting, NEW b \in Builds, spent'.faults = 0,
         \/ Request(b) \/ Start(b) \/ Sum(b)
         \/ PutConfig(b) \/ PutBlob(b) \/ PutIndex(b) \/ PutTag(b)
  PROVE  Lasting'
<1> USE DEF Goto, Types, TypeOK
<1>1. CASE Request(b)
  <2>1. pc'[b] = "queued" /\ UNCHANGED link
    BY <1>1 DEF Request, disk
  <2> QED
    BY <1>1, <2>1, LastingKept DEF Working, Layering
<1>2. CASE Start(b)
  <2>1. image[b] \in Images /\ Push(b, 1) /\ UNCHANGED link /\ 1 \in Nat \ {0}
    BY <1>2 DEF Start, disk, Shape
  <2>2. Remembered(b)'
    BY <2>1, PushRemembered
  <2> QED
    BY <1>2, <2>1, <2>2, LastingFrom DEF Write
<1>3. CASE Sum(b)
  <2>1. /\ pc[b] = "sum" /\ pc'[b] \in {"encode", "rename"}
        /\ UNCHANGED <<link, image, at, mem>>
    BY <1>3 DEF Sum, disk
  <2> QED
    BY <1>3, <2>1, LastingKept DEF Write, Working, Layering
<1>4. CASE PutConfig(b)
  <2>1. pc'[b] = "blob" /\ UNCHANGED link
    BY <1>4, BoundedKept DEF PutConfig, Failed
  <2> QED
    BY <1>4, <2>1, LastingKept DEF Write, Working, Layering
<1>5. CASE PutBlob(b)
  <2>1. /\ image[b] \in Images /\ at[b].part \in Nat /\ UNCHANGED link
        /\ pc'[b] = "tag" \/ Push(b, at[b].part + 1)
    BY <1>5, Here, BoundedKept DEF PutBlob, Failed, Working
  <2>2. CASE pc'[b] = "tag"
    BY <1>5, <2>1, <2>2, LastingKept DEF Write, Working, Layering
  <2>3. CASE Push(b, at[b].part + 1)
    <3>1. at[b].part + 1 \in Nat \ {0}
      BY <2>1
    <3>2. Remembered(b)'
      BY <2>1, <2>3, <3>1, PushRemembered
    <3> QED
      BY <1>5, <2>1, <3>2, LastingFrom DEF Write
  <2> QED
    BY <2>1, <2>2, <2>3
<1>6. CASE PutIndex(b)
  <2>1. pc'[b] = "tag" /\ UNCHANGED link
    BY <1>6, BoundedKept DEF PutIndex, Failed
  <2> QED
    BY <1>6, <2>1, LastingKept DEF Write, Working, Layering
<1>7. CASE PutTag(b)
  <2>1. pc'[b] = "done" /\ UNCHANGED link
    BY <1>7, BoundedKept DEF PutTag, Failed
  <2> QED
    BY <1>7, <2>1, LastingKept DEF Write, Working, Layering
<1> QED
  BY <1>1, <1>2, <1>3, <1>4, <1>5, <1>6, <1>7

(* Faults are not taken back. *)
LEMMA FaultsKept ==
  ASSUME Types, NEW b \in Builds, Request(b) \/ Write(b), spent'.faults = 0
  PROVE  spent.faults = 0
<1>1. (\E o : Comes(o)) => spent.faults = 0
  BY BoundedKept
<1> QED
  BY <1>1 DEF Request, Write, Start, Link, Stat, Copy, Sum, Encode, Rename, Compute,
              PutConfig, PutBlob, PutIndex, PutTag

Faultless == spent.faults = 0 => Lasting

LEMMA NextFaultless == ASSUME Types, Faultless, [Next]_vars PROVE Faultless'
<1>1. ASSUME NEW b \in Builds, Request(b) \/ Write(b) PROVE Faultless'
  <2>1. ASSUME Lasting, spent'.faults = 0 PROVE Lasting'
    BY <1>1, <2>1, LinkLasting, StatLasting, CopyLasting, EncodeLasting, RenameLasting,
       ComputeLasting, OthersLasting DEF Write
  <2> QED
    BY <1>1, <2>1, FaultsKept DEF Faultless
<1>2. ASSUME NEW s \in Sources, Change(s) PROVE Faultless'
  <2>1. UNCHANGED <<link, pc, image, at, mem>> /\ spent'.faults = spent.faults
    BY <1>2, ChangeSpent DEF Change, disk
  <2> QED
    BY <2>1 DEF Faultless, Lasting, Remembered, SourceOf
<1>3. CASE Crash
  <2>1. /\ UNCHANGED <<link, image, at, mem>> /\ spent'.faults = spent.faults
        /\ pc' = [b \in Builds |-> IF pc[b] \in Live THEN "dead" ELSE pc[b]]
    BY <1>3, CrashSpent DEF Crash, disk
  <2> QED
    BY <2>1 DEF Faultless, Lasting, Remembered, SourceOf, Working, Layering, Live
<1>4. CASE UNCHANGED vars
  BY <1>4 DEF Faultless, Lasting, Remembered, SourceOf, vars, disk
<1>5. Quiet => UNCHANGED vars
  BY DEF Quiet
<1> QED
  BY <1>1, <1>2, <1>3, <1>4, <1>5 DEF Next

LEMMA InitFaultless == Init => Faultless
BY StoreAssumption DEF Init, Faultless, Lasting, Remembered, Working, Layering

(* A build fails only where the disk did.                                  *)
THEOREM FaultlessSucceed == Spec => []FaultlessSucceeds
<1>1. Types /\ Faultless => FaultlessSucceeds
  <2>1. Types => spent.faults \in Nat
    BY DEF Types, TypeOK
  <2> QED
    BY <2>1 DEF Faultless, Lasting, Remembered, FaultlessSucceeds
<1> QED
  BY <1>1, Typing, InitFaultless, NextFaultless, PTL DEF Spec
------------------------------------------------------------------------------
(* While neither happens. The source whose content layer k of b has: the   *)
(* first of those that share a link file.                                  *)
First(b, k) == LinkOf(SourceOf(b, k))

Linked(b, k) == SourceOf(b, k) \in BaseLayers \/ Decodes(link[First(b, k)])

(* Only the first is read. The others come after it, and find its link     *)
(* file and its layer.                                                     *)
Held(b) ==
  pc[b] \in Working =>
    /\ \A k \in DOMAIN mem[b] :
         /\ mem[b][k].own \in {None, content[First(b, k)]}
         /\ mem[b][k].diff \in {None, content[First(b, k)]}
         /\ mem[b][k].size \in {None, content[First(b, k)]}
         /\ Passed(b, k) => content[First(b, k)] \in layers /\ Linked(b, k)
    /\ pc[b] = "stat" => want[b] = content[First(b, at[b].layer)]
    /\ pc[b] \in {"stat", "rename"} => Linked(b, at[b].layer)
    /\ pc[b] \in {"copy", "sum", "encode", "rename"} =>
         First(b, at[b].layer) = SourceOf(b, at[b].layer)

(* The manifest that platform p of i has then, and what its tag holds.     *)
Ideal(i, p) ==
  LET c(k) == content[LinkOf(Recipe[i][p][k])] IN
  Manifest([k \in DOMAIN Recipe[i][p] |-> c(k)],
           [k \in DOMAIN Recipe[i][p] |-> [digest |-> c(k), size |-> c(k)]])

IdealTag(i) ==
  IF i \in Indexes THEN Index([p \in DOMAIN Recipe[i] |-> Ideal(i, p)]) ELSE Ideal(i, 1)

Stored(m) == \A k \in DOMAIN m.layers : m.layers[k].digest \in layers

IdealMade(b) ==
  \A p \in DOMAIN made[b] : made[b][p] = Ideal(image[b], p) /\ Stored(made[b][p])

(* What b has made and is past putting is in the cache. *)
Put(b) ==
  /\ pc[b] \in Live => \A p \in DOMAIN made[b] :
       p < at[b].part \/ pc[b] \in {"index", "tag"} =>
         made[b][p] \in docs /\ made[b][p].config \in docs
  /\ pc[b] = "blob" => made[b][at[b].part].config \in docs
  /\ pc[b] = "tag" /\ image[b] \in Indexes => Index(made[b]) \in docs

Whole(b) == Held(b) /\ IdealMade(b) /\ Put(b)

IdealLinks ==
  \A f \in Sources : Decodes(link[f]) => link[f] = LinkTo(content[f], content[f])

IdealDocs ==
  \A m \in docs : m.kind = "manifest" =>
    Stored(m) /\ \E i \in Images : \E p \in DOMAIN Recipe[i] : m = Ideal(i, p)

IdealTags ==
  \A i \in Images : tag[i] # None =>
    /\ tag[i] = IdealTag(i) /\ tag[i] \in docs
    /\ \A p \in DOMAIN Recipe[i] : Ideal(i, p) \in docs /\ Ideal(i, p).config \in docs

Complete == IdealLinks /\ IdealDocs /\ IdealTags /\ \A b \in Builds : Whole(b)

LEMMA IdealSame ==
  ASSUME UNCHANGED content, NEW i, NEW p
  PROVE  Ideal(i, p)' = Ideal(i, p) /\ IdealTag(i)' = IdealTag(i)
BY DEF Ideal, IdealTag

LEMMA IdealMadeKept ==
  ASSUME NEW b \in Builds, IdealMade(b), UNCHANGED content, layers \subseteq layers',
         image'[b] = image[b], made'[b] = made[b]
  PROVE  IdealMade(b)'
BY IdealSame DEF IdealMade, Stored

LEMMA SamePlace ==
  ASSUME NEW b \in Builds, image'[b] = image[b], at'[b].part = at[b].part, NEW j
  PROVE  SourceOf(b, j)' = SourceOf(b, j) /\ First(b, j)' = First(b, j)
<1>1. SourceOf(b, j)' = SourceOf(b, j)
  BY DEF SourceOf
<1> QED
  BY <1>1 DEF First, LinkOf

(* A step of b within its platform, or of another build.                   *)
LEMMA HeldOn ==
  ASSUME NEW b \in Builds, UNCHANGED content, layers \subseteq layers',
         image'[b] = image[b], at'[b].part = at[b].part, DOMAIN mem'[b] = DOMAIN mem[b],
         \A k \in DOMAIN mem[b] : First(b, k) \in Sources,
         \A f \in Sources : Decodes(link[f]) => Decodes(link'[f]),
         \A k \in DOMAIN mem[b] :
           /\ mem'[b][k].own \in {None, content[First(b, k)]}
           /\ mem'[b][k].diff \in {None, content[First(b, k)]}
           /\ mem'[b][k].size \in {None, content[First(b, k)]}
           /\ Passed(b, k)' => content[First(b, k)] \in layers' /\ Linked(b, k),
         NEW k \in DOMAIN mem[b], pc'[b] \in Layering => k = at'[b].layer,
         pc'[b] = "stat" => want'[b] = content[First(b, k)],
         pc'[b] \in {"stat", "rename"} =>
           SourceOf(b, k) \in BaseLayers \/ Decodes(link'[First(b, k)]),
         pc'[b] \in {"copy", "sum", "encode", "rename"} => First(b, k) = SourceOf(b, k)
  PROVE  Held(b)'
<1>1. \A j \in DOMAIN mem[b] : /\ SourceOf(b, j)' = SourceOf(b, j)
                              /\ First(b, j)' = First(b, j)
  BY SamePlace
<1>2. \A j \in DOMAIN mem[b] : Linked(b, j) => Linked(b, j)'
  BY <1>1 DEF Linked
<1>3. pc'[b] \in {"stat", "rename"} => Linked(b, k)'
  BY <1>1 DEF Linked
<1>4. \A j \in DOMAIN mem[b] :
        /\ mem'[b][j].own \in {None, content'[First(b, j)']}
        /\ mem'[b][j].diff \in {None, content'[First(b, j)']}
        /\ mem'[b][j].size \in {None, content'[First(b, j)']}
        /\ Passed(b, j)' => content'[First(b, j)'] \in layers' /\ Linked(b, j)'
  BY <1>1, <1>2
<1>5. pc'[b] \in {"stat", "copy", "sum", "encode", "rename"} => k = at'[b].layer
  BY DEF Layering
<1> QED
  BY <1>1, <1>3, <1>4, <1>5 DEF Held

LEMMA SameHeld ==
  ASSUME Types, NEW q \in Builds, Held(q), Same(q), UNCHANGED content, layers \subseteq layers',
         \A f \in Sources : Decodes(link[f]) => Decodes(link'[f])
  PROVE  Held(q)'
<1>1. CASE pc[q] \notin Working
  BY <1>1 DEF Held, Same
<1>2. CASE pc[q] \in Working
  <2>1. \A k \in DOMAIN mem[q] : First(q, k) \in Sources
    BY <1>2, SourcesIn DEF First
  <2>2. \A k \in DOMAIN mem[q] : /\ SourceOf(q, k)' = SourceOf(q, k)
                                /\ First(q, k)' = First(q, k) /\ (Passed(q, k)' <=> Passed(q, k))
    BY DEF First, SourceOf, Same, Passed
  <2>3. \A k \in DOMAIN mem[q] : Linked(q, k) => Linked(q, k)'
    BY <2>1, <2>2 DEF Linked
  <2>4. pc[q] \in {"stat", "copy", "sum", "encode", "rename"} => at[q].layer \in DOMAIN mem[q]
    BY DEF Types, Shape, Layering
  <2> QED
    BY <1>2, <2>2, <2>3, <2>4 DEF Held, Same
<1> QED
  BY <1>1, <1>2

LEMMA SameWhole ==
  ASSUME Types, NEW q \in Builds, Whole(q), Same(q), UNCHANGED content,
         layers \subseteq layers', docs \subseteq docs',
         \A f \in Sources : Decodes(link[f]) => Decodes(link'[f])
  PROVE  Whole(q)'
<1>1. IdealMade(q)'
  BY IdealMadeKept DEF Whole, Same
<1>2. Put(q)'
  BY DEF Whole, Put, Same
<1>3. Held(q)'
  BY SameHeld DEF Whole
<1> QED
  BY <1>1, <1>2, <1>3 DEF Whole

LEMMA LinksIdeal == ASSUME IdealLinks, UNCHANGED <<content, link>> PROVE IdealLinks'
BY DEF IdealLinks

LEMMA DocsIdeal ==
  ASSUME IdealDocs, UNCHANGED content, layers \subseteq layers',
         NEW d, docs' \subseteq docs \cup {d},
         \/ d.kind # "manifest"
         \/ Stored(d) /\ \E i \in Images : \E p \in DOMAIN Recipe[i] : d = Ideal(i, p)
  PROVE  IdealDocs'
BY IdealSame DEF IdealDocs, Stored

LEMMA DocsStay ==
  ASSUME IdealDocs, UNCHANGED <<content, docs>>, layers \subseteq layers' PROVE IdealDocs'
BY IdealSame DEF IdealDocs, Stored

LEMMA TagsStay ==
  ASSUME IdealTags, UNCHANGED <<content, tag>>, docs \subseteq docs' PROVE IdealTags'
BY IdealSame DEF IdealTags

LEMMA CompleteFrom ==
  ASSUME Types, Complete, NEW b \in Builds, Request(b) \/ Write(b), docs \subseteq docs',
         \/ UNCHANGED link
         \/ IdealLinks' /\ \A f \in Sources : Decodes(link[f]) => Decodes(link'[f]),
         IdealDocs' \/ UNCHANGED docs,
         IdealTags' \/ UNCHANGED tag,
         Whole(b)'
  PROVE  Complete'
<1>1. /\ \A q \in Builds \ {b} : Same(q)
      /\ UNCHANGED content /\ layers \subseteq layers'
  BY OnlyOwn DEF Types
<1>2. IdealLinks' /\ IdealDocs' /\ IdealTags'
  BY <1>1, LinksIdeal, DocsStay, TagsStay DEF Complete
<1>3. \A f \in Sources : Decodes(link[f]) => Decodes(link'[f])
  OBVIOUS
<1>4. \A q \in Builds : Whole(q)'
  BY <1>1, <1>3, SameWhole DEF Complete
<1> QED
  BY <1>2, <1>4 DEF Complete

(* A step of b that only moves it on, among the layers or out of the way.  *)
LEMMA CompleteKept ==
  ASSUME Types, Complete, NEW b \in Builds, Write(b), UNCHANGED <<docs, tag>>,
         \/ UNCHANGED link
         \/ IdealLinks' /\ \A f \in Sources : Decodes(link[f]) => Decodes(link'[f]),
         image'[b] = image[b], made'[b] = made[b], at'[b].part = at[b].part,
         pc'[b] = "failed" \/ (pc[b] \in Working /\ pc'[b] \in Working /\ Held(b)')
  PROVE  Complete'
<1>1. UNCHANGED content /\ layers \subseteq layers'
  BY OnlyOwn DEF Types
<1>2. IdealMade(b)'
  BY <1>1, IdealMadeKept DEF Complete, Whole
<1>3. Put(b)'
  BY DEF Complete, Whole, Put, Working, Layering, Live
<1>4. Held(b)'
  BY DEF Held, Working, Layering
<1>5. Whole(b)'
  BY <1>2, <1>3, <1>4 DEF Whole
<1> QED
  BY <1>5, CompleteFrom

LEMMA PushWhole ==
  ASSUME Types, NEW b \in Builds, NEW p \in Nat \ {0}, image[b] \in Images, Push(b, p),
         UNCHANGED <<content, layers, image, made>>, IdealMade(b), Len(made[b]) = p - 1,
         \A q \in DOMAIN made[b] : made[b][q] \in docs' /\ made[b][q].config \in docs'
  PROVE  Whole(b)'
<1>1. IdealMade(b)'
  BY IdealMadeKept
<1>2. Recipe[image[b]] \in Seq(Seq(Sources)) /\ made[b] \in Seq(Manifests)
  BY RecipeIs DEF Types, TypeOK
<1>3. CASE p > Len(Recipe[image[b]])
  <2>1. pc'[b] = "index"
    BY <1>3 DEF Push, Types, TypeOK
  <2>2. Put(b)'
    BY <2>1 DEF Put
  <2> QED
    BY <1>1, <2>1, <2>2 DEF Whole, Held, Working, Layering
<1>4. CASE p <= Len(Recipe[image[b]])
  <2>1. /\ pc'[b] = IF Recipe[image[b]][p] = <<>> THEN "compute" ELSE "link"
        /\ at'[b] = [part |-> p, layer |-> 1]
        /\ mem'[b] = [k \in DOMAIN Recipe[image[b]][p] |-> Unread]
        /\ p \in DOMAIN Recipe[image[b]]
    BY <1>4, PushedTo DEF Types
  <2>2. Recipe[image[b]][p] \in Seq(Sources)
    BY <1>2, <2>1
  <2>3. pc'[b] \in {"compute", "link"}
    BY <2>1
  <2>4. Put(b)'
    BY <2>3 DEF Put
  <2>5. \A k \in DOMAIN mem'[b] :
          /\ mem'[b][k].own = None /\ mem'[b][k].diff = None /\ mem'[b][k].size = None
          /\ ~(k < 1)
    BY <2>1, <2>2 DEF Unread
  <2>6. pc'[b] = "compute" => DOMAIN mem'[b] = {}
    BY <2>1
  <2>7. \A k \in DOMAIN mem'[b] : ~Passed(b, k)'
    BY <2>1, <2>5, <2>6 DEF Passed
  <2>8. Held(b)'
    BY <2>3, <2>5, <2>7 DEF Held
  <2> QED
    BY <1>1, <2>4, <2>8 DEF Whole
<1> QED
  BY <1>2, <1>3, <1>4

LEMMA RequestComplete == ASSUME Types, Complete, NEW b \in Builds, Request(b) PROVE Complete'
<1>1. pc'[b] = "queued" /\ made'[b] = <<>> /\ UNCHANGED disk
  BY DEF Request, Goto, Types, TypeOK, Shape
<1>2. IdealMade(b)' /\ Put(b)'
  BY <1>1 DEF IdealMade, Put
<1>3. Whole(b)'
  BY <1>1, <1>2 DEF Whole, Held, Working, Layering
<1> QED
  BY <1>1, <1>3, CompleteFrom DEF disk

LEMMA StartComplete == ASSUME Types, Complete, NEW b \in Builds, Start(b) PROVE Complete'
<1>1. /\ image[b] \in Images /\ Push(b, 1) /\ made[b] = <<>> /\ 1 \in Nat \ {0}
      /\ UNCHANGED <<content, disk, image, made>>
  BY DEF Start, Types, Shape
<1>2. Len(made[b]) = 1 - 1 /\ DOMAIN made[b] = {}
  BY <1>1
<1>3. Whole(b)'
  BY <1>1, <1>2, PushWhole DEF Complete, Whole, disk
<1> QED
  BY <1>1, <1>3, CompleteFrom DEF disk, Write

(* Where b is among the layers of its platform, and what it has there.     *)
LEMMA Holding ==
  ASSUME Types, Complete, NEW b \in Builds, pc[b] \in Working
  PROVE  /\ Held(b)
         /\ DOMAIN mem[b] = 1 .. Len(mem[b]) /\ Len(mem[b]) \in Nat
         /\ \A k \in DOMAIN mem[b] : /\ mem[b][k] \in Objects /\ SourceOf(b, k) \in Sources
                                     /\ First(b, k) \in Sources
         /\ pc[b] \in Layering => at[b].layer \in DOMAIN mem[b]
<1>1. Held(b)
  BY DEF Complete, Whole
<1> QED
  BY <1>1, Here, SourcesIn DEF First

(* Of the sources that share a link file the first is behind the others.   *)
LEMMA FirstBehind ==
  ASSUME Types, Complete, NEW b \in Builds, pc[b] \in Layering,
         First(b, at[b].layer) # SourceOf(b, at[b].layer)
  PROVE  /\ Decodes(link[First(b, at[b].layer)])
         /\ content[First(b, at[b].layer)] \in layers
<1> DEFINE k == at[b].layer  of == Recipe[image[b]][at[b].part]
<1>1. pc[b] \in Working /\ Held(b) /\ k \in DOMAIN mem[b] /\ SourceOf(b, k) \in Sources
  BY Holding DEF Working
<1>2. image[b] \in Images /\ at[b].part \in DOMAIN Recipe[image[b]] /\ DOMAIN mem[b] = DOMAIN of
  BY <1>1 DEF Types, Shape, Working, Layering
<1>3. PICK j \in 1 .. k : of[j] = FirstOf[of[k]]
  <2>1. \A i \in Images : \A p \in DOMAIN Recipe[i] : \A n \in DOMAIN Recipe[i][p] :
          \E j \in 1 .. n : Recipe[i][p][j] = FirstOf[Recipe[i][p][n]]
    BY StoreAssumption
  <2>2. k \in DOMAIN of
    BY <1>1, <1>2
  <2> QED
    BY <1>2, <2>1, <2>2
<1>4. DOMAIN mem[b] = 1 .. Len(mem[b]) /\ Len(mem[b]) \in Nat
  BY <1>1, Holding
<1>5. j \in DOMAIN mem[b] /\ j <= k
  BY <1>1, <1>3, <1>4
<1>6. SourceOf(b, j) = First(b, k)
  BY <1>3 DEF SourceOf, First, LinkOf
<1>7. j # k
  BY <1>6
<1>8. Passed(b, j)
  BY <1>1, <1>4, <1>5, <1>7 DEF Passed
<1>9. First(b, j) = First(b, k)
  BY <1>1, <1>6, Sharing DEF First
<1>10. SourceOf(b, j) \notin BaseLayers
  BY <1>1, <1>6, StoreAssumption DEF First, LinkOf
<1> HIDE DEF k
<1>11. content[First(b, j)] \in layers /\ Linked(b, j)
  BY <1>1, <1>5, <1>8 DEF Held
<1>12. content[First(b, k)] \in layers /\ Decodes(link[First(b, k)])
  BY <1>9, <1>10, <1>11 DEF Linked
<1> QED
  BY <1>12 DEF k

LEMMA LinkComplete == ASSUME Types, Complete, NEW b \in Builds, Link(b) PROVE Complete'
<1> DEFINE s == Source(b)  l == link[LinkOf(s)]  k == at[b].layer  c == content[First(b, k)]
<1>1. /\ pc[b] = "link" /\ pc[b] \in Working /\ pc[b] \in Layering
      /\ k \in DOMAIN mem[b] /\ s \in Sources /\ mem[b][k] \in Objects
      /\ s = SourceOf(b, k) /\ First(b, k) = LinkOf(s) /\ Held(b) /\ First(b, k) \in Sources
      /\ \A j \in DOMAIN mem[b] : First(b, j) \in Sources
  BY Holding DEF Link, Layering, Working, Source, First
<1>2. UNCHANGED <<content, disk, image, at, made, spent>>
  BY DEF Link
<1>3. \A j \in DOMAIN mem[b] :
        /\ mem[b][j].own \in {None, content[First(b, j)]}
        /\ mem[b][j].diff \in {None, content[First(b, j)]}
        /\ mem[b][j].size \in {None, content[First(b, j)]}
        /\ Passed(b, j) => content[First(b, j)] \in layers /\ Linked(b, j)
  BY <1>1 DEF Held
<1>4. /\ DOMAIN mem'[b] = DOMAIN mem[b]
      /\ \A j \in DOMAIN mem[b] : j # k => mem'[b][j] = mem[b][j]
      /\ mem'[b][k].own \in {mem[b][k].own, c}
      /\ mem'[b][k].diff \in {mem[b][k].diff, c}
      /\ mem'[b][k].size \in {mem[b][k].size, c}
      /\ \/ pc'[b] = "stat" /\ want'[b] = c /\ Linked(b, k)
         \/ pc'[b] = "copy" /\ First(b, k) = s
  <2>1. CASE s \in BaseLayers
    <3>0. LinkOf(s) = s
      BY <1>1, <2>1, Sharing
    <3>1. /\ pc'[b] = "stat" /\ mem' = [mem EXCEPT ![b][k].own = c]
          /\ want'[b] = c /\ c \in Contents /\ Linked(b, k)
      BY <1>1, <2>1, <3>0 DEF Link, Goto, Types, TypeOK, Linked
    <3>2. mem' = [mem EXCEPT ![b][k].own = c] /\ TypeOK
      BY <3>1 DEF Types
    <3> HIDE DEF c, k
    <3>3. /\ DOMAIN mem'[b] = DOMAIN mem[b]
          /\ \A j \in DOMAIN mem[b] : j # k => mem'[b][j] = mem[b][j]
          /\ mem'[b][k] = [own |-> c, diff |-> mem[b][k].diff, size |-> mem[b][k].size]
      BY <1>1, <3>1, <3>2, OwnSet, ZenonT(60)
    <3> QED
      BY <3>1, <3>3
  <2>2. CASE s \notin BaseLayers /\ Decodes(l)
    <3> DEFINE o == [own |-> mem[b][k].own, diff |-> l.diff, size |-> l.size]
    <3>1. pc'[b] = "stat" /\ mem' = [mem EXCEPT ![b][k] = o] /\ want'[b] = l.digest
      BY <1>1, <2>2 DEF Link, Goto, Types, TypeOK
    <3>2. l = LinkTo(c, c)
      BY <1>1, <2>2 DEF Complete, IdealLinks
    <3>3. want'[b] = c /\ o.diff = c /\ o.size = c /\ o.own = mem[b][k].own
      BY <3>1, <3>2 DEF LinkTo
    <3>4. o \in Objects
      BY <1>1, <2>2 DEF Types, TypeOK, Decodes, Objects
    <3>5. Linked(b, k)
      BY <1>1, <2>2 DEF Linked
    <3> HIDE DEF o, k, c
    <3>6. /\ DOMAIN mem'[b] = DOMAIN mem[b]
          /\ \A j \in DOMAIN mem[b] : j # k => mem'[b][j] = mem[b][j]
          /\ mem'[b][k] = o
      BY <1>1, <3>1, <3>4, LinkSet DEF Types
    <3> QED
      BY <3>1, <3>3, <3>5, <3>6
  <2>3. CASE s \notin BaseLayers /\ ~Decodes(l)
    <3>1. pc'[b] = "copy" /\ mem'[b] = mem[b]
      BY <1>1, <2>3 DEF Link, Goto, Types, TypeOK
    <3>2. First(b, k) = s
      BY <1>1, <2>3, FirstBehind
    <3> QED
      BY <3>1, <3>2
  <2> QED
    BY <2>1, <2>2, <2>3
<1> HIDE DEF k, c, s, l
<1>5. at'[b].layer = k /\ at'[b].part = at[b].part /\ UNCHANGED <<content, layers, link, image>>
  BY <1>2 DEF k, disk
<1>6. \A j \in DOMAIN mem[b] : Passed(b, j)' => Passed(b, j)
  BY <1>2, <1>4 DEF Passed
<1>7. \A j \in DOMAIN mem[b] :
        /\ mem'[b][j].own \in {None, content[First(b, j)]}
        /\ mem'[b][j].diff \in {None, content[First(b, j)]}
        /\ mem'[b][j].size \in {None, content[First(b, j)]}
        /\ Passed(b, j)' => content[First(b, j)] \in layers' /\ Linked(b, j)
  BY <1>3, <1>4, <1>5, <1>6 DEF c
<1>8. Held(b)'
  BY <1>1, <1>4, <1>5, <1>7, HeldOn DEF c, Linked
<1> QED
  BY <1>1, <1>2, <1>4, <1>8, CompleteKept DEF Write, disk, Working, Layering

LEMMA StatComplete == ASSUME Types, Complete, NEW b \in Builds, Stat(b) PROVE Complete'
<1> DEFINE k == at[b].layer  c == content[First(b, k)]
           claimed == IF Layer(b).size = None THEN Layer(b).own ELSE Layer(b).size
<1>1. /\ pc[b] = "stat" /\ pc[b] \in Working /\ pc[b] \in Layering
      /\ k \in DOMAIN mem[b] /\ Held(b)
      /\ DOMAIN mem[b] = 1 .. Len(mem[b]) /\ Len(mem[b]) \in Nat
      /\ \A j \in DOMAIN mem[b] : First(b, j) \in Sources
      /\ UNCHANGED <<content, disk, image, mem, want, made, spent>>
  BY Holding DEF Stat, Layering, Working
<1>2. want[b] = c /\ Linked(b, k) /\ claimed = c
  <2>1. Got(b, k)
    BY <1>1 DEF Types, Shape
  <2>2. /\ mem[b][k].own \in {None, c} /\ mem[b][k].size \in {None, c}
        /\ want[b] = c /\ Linked(b, k)
    BY <1>1 DEF Held
  <2> QED
    BY <2>1, <2>2 DEF Got, Layer
<1>3. \A j \in DOMAIN mem[b] :
        /\ mem[b][j].own \in {None, content[First(b, j)]}
        /\ mem[b][j].diff \in {None, content[First(b, j)]}
        /\ mem[b][j].size \in {None, content[First(b, j)]}
        /\ Passed(b, j) => content[First(b, j)] \in layers /\ Linked(b, j)
  BY <1>1 DEF Held
<1>4. \/ c \in layers /\ NextLayer(b)
      \/ c \notin layers /\ pc' = [pc EXCEPT ![b] = "copy"] /\ UNCHANGED at
  BY <1>2 DEF Stat, Goto
<1>5. \A f \in Sources : Decodes(link[f]) => Decodes(link'[f])
  BY <1>1 DEF disk
<1>6. CASE c \in layers /\ NextLayer(b)
  <2>1. /\ at'[b].part = at[b].part
        /\ \/ pc'[b] = "link" /\ at'[b].layer = k + 1 /\ k + 1 \in DOMAIN mem[b]
           \/ pc'[b] = "compute" /\ at'[b].layer = k /\ \A j \in DOMAIN mem[b] : j <= k
    BY <1>1, <1>6, Onward DEF Types, NextLayer
  <2>2. \A j \in DOMAIN mem[b] : Passed(b, j)' => Passed(b, j) \/ j = k
    BY <1>1, <2>1 DEF Passed
  <2>3. \A j \in DOMAIN mem[b] :
        /\ mem'[b][j].own \in {None, content[First(b, j)]}
        /\ mem'[b][j].diff \in {None, content[First(b, j)]}
        /\ mem'[b][j].size \in {None, content[First(b, j)]}
        /\ Passed(b, j)' => content[First(b, j)] \in layers' /\ Linked(b, j)
    BY <1>1, <1>2, <1>3, <1>6, <2>2 DEF disk
  <2>4. pc'[b] \in {"link", "compute"} /\ at'[b].layer \in DOMAIN mem[b]
    BY <1>1, <2>1
  <2>5. Held(b)'
    <3> DEFINE n == at'[b].layer
    <3>1. n \in DOMAIN mem[b] /\ (pc'[b] \in Layering => n = at'[b].layer)
      BY <2>4
    <3> HIDE DEF n
    <3> QED
      BY <1>1, <1>5, <2>1, <2>3, <2>4, <3>1, HeldOn DEF disk
  <2> QED
    BY <1>1, <2>1, <2>4, <2>5, CompleteKept DEF Write, disk, Working, Layering
<1>7. CASE c \notin layers /\ pc' = [pc EXCEPT ![b] = "copy"] /\ UNCHANGED at
  <2>1. pc'[b] = "copy" /\ First(b, k) = SourceOf(b, k)
    BY <1>1, <1>7, FirstBehind DEF Types, TypeOK
  <2>2. \A j \in DOMAIN mem[b] : Passed(b, j)' => Passed(b, j)
    BY <1>7, <2>1 DEF Passed
  <2>3. \A j \in DOMAIN mem[b] :
        /\ mem'[b][j].own \in {None, content[First(b, j)]}
        /\ mem'[b][j].diff \in {None, content[First(b, j)]}
        /\ mem'[b][j].size \in {None, content[First(b, j)]}
        /\ Passed(b, j)' => content[First(b, j)] \in layers' /\ Linked(b, j)
    BY <1>1, <1>3, <2>2 DEF disk
  <2>4. at'[b].layer = k /\ at'[b].part = at[b].part
    BY <1>7
  <2> HIDE DEF k, c, claimed
  <2>5. Held(b)'
    BY <1>1, <1>5, <2>1, <2>3, <2>4, HeldOn DEF disk
  <2> QED
    BY <1>1, <2>1, <2>4, <2>5, CompleteKept DEF Write, disk, Working, Layering
<1> QED
  BY <1>4, <1>6, <1>7

LEMMA CopyComplete == ASSUME Types, Complete, NEW b \in Builds, Copy(b) PROVE Complete'
<1> DEFINE k == at[b].layer  v == content[Source(b)]
<1>1. /\ pc[b] = "copy" /\ pc[b] \in Working /\ k \in DOMAIN mem[b] /\ v \in Contents
      /\ Held(b) /\ \A j \in DOMAIN mem[b] : First(b, j) \in Sources
      /\ UNCHANGED <<content, disk, image, at, want, made>>
  BY Holding DEF Copy, Layering, Working, Source, Types, TypeOK
<1>2. CASE pc'[b] = "failed"
  BY <1>1, <1>2, CompleteKept DEF Write, disk
<1>3. CASE pc'[b] = "sum" /\ mem' = [mem EXCEPT ![b][k].own = v]
  <2>0. First(b, k) = SourceOf(b, k) /\ v = content[First(b, k)]
    BY <1>1 DEF Held, Source
  <2>1. TypeOK /\ mem' = [mem EXCEPT ![b][k].own = v]
    BY <1>3 DEF Types
  <2>2. /\ at'[b].layer = k /\ at'[b].part = at[b].part
        /\ UNCHANGED <<content, layers, link, image>>
    BY <1>1 DEF disk
  <2> HIDE DEF v, k
  <2>3. /\ DOMAIN mem'[b] = DOMAIN mem[b]
        /\ \A j \in DOMAIN mem[b] : j # k => mem'[b][j] = mem[b][j]
        /\ mem'[b][k] = [own |-> v, diff |-> mem[b][k].diff, size |-> mem[b][k].size]
    BY <1>1, <2>1, OwnSet, ZenonT(60)
  <2>4. /\ mem'[b][k].own = v /\ mem'[b][k].diff = mem[b][k].diff
        /\ mem'[b][k].size = mem[b][k].size
    BY <2>3
  <2>5. \A j \in DOMAIN mem[b] : Passed(b, j)' => Passed(b, j)
    BY <1>1, <1>3 DEF Passed
  <2>6. \A j \in DOMAIN mem[b] :
        /\ mem[b][j].own \in {None, content[First(b, j)]}
        /\ mem[b][j].diff \in {None, content[First(b, j)]}
        /\ mem[b][j].size \in {None, content[First(b, j)]}
        /\ Passed(b, j) => content[First(b, j)] \in layers /\ Linked(b, j)
    BY <1>1 DEF Held
  <2>7. \A j \in DOMAIN mem[b] :
        /\ mem'[b][j].own \in {None, content[First(b, j)]}
        /\ mem'[b][j].diff \in {None, content[First(b, j)]}
        /\ mem'[b][j].size \in {None, content[First(b, j)]}
        /\ Passed(b, j)' => content[First(b, j)] \in layers' /\ Linked(b, j)
    BY <2>0, <2>2, <2>3, <2>4, <2>5, <2>6
  <2>8. Held(b)'
    BY <1>1, <1>3, <2>0, <2>2, <2>3, <2>7, HeldOn
  <2> QED
    BY <1>1, <1>3, <2>2, <2>8, CompleteKept DEF Write, disk, Working, Layering
<1> QED
  BY <1>1, <1>2, <1>3 DEF Copy, Goto, Types, TypeOK

LEMMA SumComplete ==
  ASSUME Types, Lasting, Complete, NEW b \in Builds, Sum(b) PROVE Complete'
<1> DEFINE k == at[b].layer
<1>1. /\ pc[b] = "sum" /\ pc[b] \in Working /\ k \in DOMAIN mem[b] /\ Held(b)
      /\ \A j \in DOMAIN mem[b] : First(b, j) \in Sources
      /\ UNCHANGED <<content, disk, image, at, mem, want, made, spent>>
  BY Holding DEF Sum, Layering, Working
<1>2. pc'[b] = IF Unlinked(b, k) THEN "encode" ELSE "rename"
  BY DEF Sum, Goto, Types, TypeOK
<1>3. ~Unlinked(b, k) => Linked(b, k)
  <2>1. mem[b][k].own # None /\ First(b, k) \in Sources
    BY <1>1 DEF Types, Shape, Layer
  <2> QED
    BY <2>1 DEF Unlinked, Linked, First, Lasting, Decodes
<1>4. \A j \in DOMAIN mem[b] : Passed(b, j)' => Passed(b, j)
  BY <1>1, <1>2 DEF Passed
<1>5. /\ First(b, k) = SourceOf(b, k)
      /\ \A j \in DOMAIN mem[b] :
           /\ mem[b][j].own \in {None, content[First(b, j)]}
           /\ mem[b][j].diff \in {None, content[First(b, j)]}
           /\ mem[b][j].size \in {None, content[First(b, j)]}
           /\ Passed(b, j) => content[First(b, j)] \in layers /\ Linked(b, j)
  BY <1>1 DEF Held
<1>6. \A j \in DOMAIN mem[b] :
        /\ mem'[b][j].own \in {None, content[First(b, j)]}
        /\ mem'[b][j].diff \in {None, content[First(b, j)]}
        /\ mem'[b][j].size \in {None, content[First(b, j)]}
        /\ Passed(b, j)' => content[First(b, j)] \in layers' /\ Linked(b, j)
  BY <1>1, <1>4, <1>5 DEF disk
<1>7. at'[b].layer = k /\ at'[b].part = at[b].part /\ UNCHANGED <<content, layers, link, image>>
  BY <1>1 DEF disk
<1> HIDE DEF k
<1>8. Held(b)'
  BY <1>1, <1>2, <1>3, <1>5, <1>6, <1>7, HeldOn DEF Linked
<1> QED
  BY <1>1, <1>2, <1>7, <1>8, CompleteKept DEF Write, disk, Working, Layering

LEMMA RenameComplete == ASSUME Types, Complete, NEW b \in Builds, Rename(b) PROVE Complete'
<1> DEFINE k == at[b].layer
<1>1. /\ pc[b] = "rename" /\ pc[b] \in Working /\ k \in DOMAIN mem[b] /\ Held(b)
      /\ DOMAIN mem[b] = 1 .. Len(mem[b]) /\ Len(mem[b]) \in Nat
      /\ \A j \in DOMAIN mem[b] : First(b, j) \in Sources
      /\ UNCHANGED <<content, docs, torn, link, tag, image, mem, want, made>>
      /\ layers \subseteq layers'
  BY Holding DEF Rename, Layering, Working, disk
<1>2. CASE pc'[b] = "failed" /\ UNCHANGED at
  BY <1>1, <1>2, CompleteKept DEF Write
<1>3. CASE NextLayer(b) /\ layers' = layers \cup {Layer(b).own}
  <2>1. /\ Linked(b, k) /\ Layer(b).own = content[First(b, k)]
        /\ \A j \in DOMAIN mem[b] :
             /\ mem[b][j].own \in {None, content[First(b, j)]}
             /\ mem[b][j].diff \in {None, content[First(b, j)]}
             /\ mem[b][j].size \in {None, content[First(b, j)]}
             /\ Passed(b, j) => content[First(b, j)] \in layers /\ Linked(b, j)
    BY <1>1 DEF Held, Types, Shape, Layer
  <2>2. /\ at'[b].part = at[b].part
        /\ \/ pc'[b] = "link" /\ at'[b].layer = k + 1 /\ k + 1 \in DOMAIN mem[b]
           \/ pc'[b] = "compute" /\ at'[b].layer = k /\ \A j \in DOMAIN mem[b] : j <= k
    BY <1>1, <1>3, Onward DEF Types, NextLayer
  <2>3. \A j \in DOMAIN mem[b] : Passed(b, j)' => Passed(b, j) \/ j = k
    BY <1>1, <2>2 DEF Passed
  <2>4. \A j \in DOMAIN mem[b] :
        /\ mem'[b][j].own \in {None, content[First(b, j)]}
        /\ mem'[b][j].diff \in {None, content[First(b, j)]}
        /\ mem'[b][j].size \in {None, content[First(b, j)]}
        /\ Passed(b, j)' => content[First(b, j)] \in layers' /\ Linked(b, j)
    BY <1>1, <1>3, <2>1, <2>3
  <2>5. pc'[b] \in {"link", "compute"} /\ at'[b].layer \in DOMAIN mem[b]
    BY <1>1, <2>2
  <2>6. \A f \in Sources : Decodes(link[f]) => Decodes(link'[f])
    BY <1>1
  <2>7. UNCHANGED <<content, link, image>>
    BY <1>1
  <2>8. Held(b)'
    <3> DEFINE n == at'[b].layer
    <3>1. n \in DOMAIN mem[b] /\ (pc'[b] \in Layering => n = at'[b].layer)
      BY <2>5
    <3> HIDE DEF n
    <3> QED
      BY <1>1, <2>2, <2>4, <2>5, <2>6, <2>7, <3>1, HeldOn
  <2> QED
    BY <1>1, <2>2, <2>5, <2>8, CompleteKept DEF Write, Working, Layering
<1> QED
  BY <1>1, <1>2, <1>3 DEF Rename, Goto, Types, TypeOK

(* The link file of the layer that is encoded is written. *)
LEMMA LinkEncoded ==
  ASSUME Types, NEW b \in Builds, NEW k \in Nat, First(b, k) \in Sources,
         WriteLinks(b, [j \in {k} |-> "ok"])
  PROVE  /\ link'[First(b, k)] = LinkTo(mem[b][k].own, mem[b][k].own)
         /\ \A f \in Sources : f # First(b, k) => link'[f] = link[f]
<1> DEFINE o == [j \in {k} |-> "ok"]
           left(f) == {j \in DOMAIN o : /\ LinkOf(SourceOf(b, j)) = f
                                        /\ o[j] \notin {"none", "lost"}}
           first(f, j) == j \in left(f) /\ \A i \in left(f) : j <= i
           text(j) == CASE o[j] = "ok"   -> LinkTo(mem[b][j].own, mem[b][j].own)
                        [] o[j] = "cut"  -> LinkTo(mem[b][j].own, Cut)
                        [] o[j] = "junk" -> Junk
           new(f) == IF \E j \in DOMAIN o : first(f, j)
                       THEN text(CHOOSE j \in DOMAIN o : first(f, j)) ELSE link[f]
<1>1. DOMAIN link = Sources
  BY DEF Types, TypeOK
<1>2. link' = [f \in DOMAIN link |-> new(f)]
  BY Zenon DEF WriteLinks
<1>3. \A f \in Sources : link'[f] = new(f)
  <2> HIDE DEF new
  <2> QED
    BY <1>1, <1>2
<1>4. \A f \in Sources : left(f) = IF f = First(b, k) THEN {k} ELSE {}
  BY DEF First
<1>5. text(k) = LinkTo(mem[b][k].own, mem[b][k].own)
  OBVIOUS
<1>6. \A f \in Sources : \A j : first(f, j) <=> f = First(b, k) /\ j = k
  <2> HIDE DEF left
  <2> QED
    BY <1>4
<1>7. DOMAIN o = {k}
  OBVIOUS
<1> HIDE DEF first, left, text, o
<1>8. (CHOOSE j \in DOMAIN o : first(First(b, k), j)) = k
  BY <1>6, <1>7
<1>9. new(First(b, k)) = text(k) /\ \A f \in Sources : f # First(b, k) => new(f) = link[f]
  BY <1>6, <1>7, <1>8
<1> QED
  BY <1>3, <1>5, <1>9

LEMMA EncodeComplete ==
  ASSUME Types, Lasting, Complete, NEW b \in Builds, Encode(b), spent'.faults = 0
  PROVE  Complete'
<1> DEFINE k == at[b].layer  f == First(b, k)
<1>1. /\ pc[b] = "encode" /\ pc[b] \in Working /\ k \in DOMAIN mem[b] /\ k \in Nat
      /\ Held(b) /\ f \in Sources /\ mem[b][k].own # None /\ pc'[b] = "rename"
      /\ \A j \in DOMAIN mem[b] : First(b, j) \in Sources
      /\ UNCHANGED <<content, layers, docs, torn, tag, image, at, mem, want, made>>
  BY Holding DEF Encode, Goto, Layering, Working, Types, TypeOK, Shape, Layer
<1>2. WriteLinks(b, [j \in {k} |-> "ok"])
  BY BoundedKept DEF Encode
<1>3. /\ First(b, k) = SourceOf(b, k) /\ mem[b][k].own = content[f]
      /\ \A j \in DOMAIN mem[b] :
           /\ mem[b][j].own \in {None, content[First(b, j)]}
           /\ mem[b][j].diff \in {None, content[First(b, j)]}
           /\ mem[b][j].size \in {None, content[First(b, j)]}
           /\ Passed(b, j) => content[First(b, j)] \in layers /\ Linked(b, j)
  BY <1>1 DEF Held
<1>4. link'[f] = LinkTo(content[f], content[f]) /\ \A g \in Sources : g # f => link'[g] = link[g]
  <2> HIDE DEF k
  <2> QED
    BY <1>1, <1>2, <1>3, LinkEncoded
<1>5. Decodes(link'[f])
  <2>1. content[f] \in Contents
    BY <1>1 DEF Types, TypeOK
  <2>2. link'[f] \in [digest : Contents, diff : Contents, size : Contents \cup {Cut}]
    BY <1>4, <2>1 DEF LinkTo
  <2> QED
    BY <2>2, StoreAssumption DEF Decodes
<1>6. \A g \in Sources : Decodes(link[g]) => Decodes(link'[g])
  BY <1>4, <1>5 DEF Decodes
<1>7. IdealLinks'
  <2>1. \A g \in Sources : Decodes(link'[g]) => link'[g] = LinkTo(content[g], content[g])
    BY <1>4 DEF Complete, IdealLinks, Decodes
  <2> QED
    BY <1>1, <2>1 DEF IdealLinks, Decodes, LinkTo
<1>8. \A j \in DOMAIN mem[b] : Passed(b, j)' => Passed(b, j)
  BY <1>1 DEF Passed
<1>9. \A j \in DOMAIN mem[b] :
        /\ mem'[b][j].own \in {None, content[First(b, j)]}
        /\ mem'[b][j].diff \in {None, content[First(b, j)]}
        /\ mem'[b][j].size \in {None, content[First(b, j)]}
        /\ Passed(b, j)' => content[First(b, j)] \in layers' /\ Linked(b, j)
  BY <1>1, <1>3, <1>8
<1>10. at'[b].layer = k /\ at'[b].part = at[b].part /\ image'[b] = image[b]
  BY <1>1
<1> HIDE DEF k
<1>11. Held(b)'
  BY <1>1, <1>3, <1>5, <1>6, <1>9, <1>10, HeldOn
<1> QED
  BY <1>1, <1>6, <1>7, <1>10, <1>11, CompleteKept DEF Write, Working, Layering

LEMMA ComputeComplete ==
  ASSUME Types, Lasting, Complete, NEW b \in Builds, Compute(b), spent'.faults = 0
  PROVE  Complete'
<1> DEFINE c(k) == content[First(b, k)]
<1>1. /\ pc[b] = "compute" /\ pc[b] \in Working /\ Held(b)
      /\ \A k \in DOMAIN mem[b] : First(b, k) \in Sources
      /\ UNCHANGED <<content, layers, docs, torn, tag, image, at, mem, want>>
  BY Holding DEF Compute, Working
<1>2. \A k \in DOMAIN mem[b] : Got(b, k) /\ Passed(b, k)
  BY <1>1 DEF Types, Shape, Passed
<1>3. \A k \in DOMAIN mem[b] :
        /\ mem[b][k].own \in {None, c(k)} /\ mem[b][k].diff \in {None, c(k)}
        /\ mem[b][k].size \in {None, c(k)} /\ c(k) \in layers /\ Linked(b, k)
  BY <1>1, <1>2 DEF Held
<1>4. /\ pc'[b] = "config" /\ made'[b] = Append(made[b], Computed(b)) /\ AllKnown(b)
      /\ \E o \in [Missing(b) -> WriteLink] : WriteLinks(b, o)
  BY ComputesOn
<1>5. UNCHANGED link
  <2>1. Missing(b) = {}
    BY <1>3 DEF Missing, Unlinked, Linked, First, Decodes
  <2>2. PICK o \in [{} -> WriteLink] : WriteLinks(b, o)
    BY <1>4, <2>1
  <2>3. /\ link' \in [Sources -> {None, Junk} \cup
               [digest : Contents, diff : Contents, size : Contents \cup {Cut}]]
        /\ \A f \in Sources : link'[f] = link[f]
    BY <2>2, LinksWritten
  <2> QED
    BY <2>3 DEF Types, TypeOK
<1>6. /\ made[b] \in Seq(Manifests) /\ at[b].part \in Nat /\ Len(made[b]) = at[b].part - 1
      /\ DOMAIN mem[b] = DOMAIN Recipe[image[b]][at[b].part]
  BY <1>1, Here DEF Types, TypeOK, Shape
<1>7. Computed(b) = Ideal(image[b], at[b].part) /\ Stored(Computed(b))
  <2>1. \A k \in DOMAIN mem[b] : DiffOf(b, k) = c(k) /\ SizeOf(b, k) = c(k)
    BY <1>2, <1>3 DEF DiffOf, SizeOf, Got
  <2>2. ASSUME NEW k \in DOMAIN mem[b] PROVE DigestOf(b, k) = c(k)
    <3>1. CASE mem[b][k].own = None
      <4>1. Decodes(link[First(b, k)])
        BY <1>4, <3>1 DEF AllKnown, First
      <4>2. link[First(b, k)] = LinkTo(content[First(b, k)], content[First(b, k)])
        BY <1>1, <4>1 DEF Complete, IdealLinks
      <4> QED
        BY <3>1, <4>2 DEF DigestOf, First, LinkTo
    <3>2. CASE mem[b][k].own # None
      BY <1>3, <3>2 DEF DigestOf
    <3> QED
      BY <3>1, <3>2
  <2>3. \A k \in DOMAIN mem[b] : DescOf(b, k) = [digest |-> c(k), size |-> c(k)]
    BY <2>1, <2>2 DEF DescOf
  <2>4. \A k \in DOMAIN mem[b] : c(k) = content[LinkOf(Recipe[image[b]][at[b].part][k])]
    BY DEF First, SourceOf
  <2> DEFINE d(k) == content[LinkOf(Recipe[image[b]][at[b].part][k])]
  <2>5. [k \in DOMAIN mem[b] |-> DiffOf(b, k)]
          = [k \in DOMAIN Recipe[image[b]][at[b].part] |-> d(k)]
    BY <1>6, <2>1, <2>4
  <2>6. [k \in DOMAIN mem[b] |-> DescOf(b, k)]
          = [k \in DOMAIN Recipe[image[b]][at[b].part] |-> [digest |-> d(k), size |-> d(k)]]
    BY <1>6, <2>3, <2>4
  <2>7. Computed(b) = Ideal(image[b], at[b].part)
    BY <2>5, <2>6, Zenon DEF Computed, Ideal
  <2>8. Stored(Computed(b))
    <3>1. /\ DOMAIN Computed(b).layers = DOMAIN mem[b]
          /\ \A k \in DOMAIN mem[b] : Computed(b).layers[k].digest = DigestOf(b, k)
      BY DEF Computed, Manifest, DescOf
    <3> HIDE DEF Computed
    <3> QED
      BY <1>3, <2>2, <3>1 DEF Stored
  <2> QED
    BY <2>7, <2>8
<1>8. IdealMade(b)'
  <2>1. ASSUME NEW p \in DOMAIN made'[b]
        PROVE  made'[b][p] = Ideal(image[b], p) /\ Stored(made'[b][p])
    <3>1. CASE p = at[b].part
      <4>1. made'[b][p] = Computed(b)
        BY <1>4, <1>6, <3>1
      <4> QED
        BY <1>7, <3>1, <4>1
    <3>2. CASE p # at[b].part
      <4>1. p \in DOMAIN made[b] /\ made'[b][p] = made[b][p]
        BY <1>4, <1>6, <2>1, <3>2
      <4> QED
        BY <4>1 DEF Complete, Whole, IdealMade
    <3> QED
      BY <3>1, <3>2
  <2> QED
    BY <1>1, <2>1, IdealSame DEF IdealMade, Stored
<1>9. Put(b)'
  <2>1. ASSUME NEW p \in DOMAIN made'[b], p < at[b].part
        PROVE  made'[b][p] \in docs /\ made'[b][p].config \in docs
    <3>1. p \in DOMAIN made[b] /\ made'[b][p] = made[b][p]
      BY <1>4, <1>6, <2>1
    <3> QED
      BY <1>1, <2>1, <3>1 DEF Complete, Whole, Put, Live
  <2> QED
    BY <1>1, <1>4, <2>1 DEF Put
<1>10. Whole(b)'
  BY <1>4, <1>8, <1>9 DEF Whole, Held, Working, Layering
<1> QED
  BY <1>1, <1>5, <1>10, CompleteFrom DEF Write

LEMMA PutConfigComplete ==
  ASSUME Types, Complete, NEW b \in Builds, PutConfig(b), spent'.faults = 0 PROVE Complete'
<1> DEFINE d == made[b][at[b].part].config
<1>1. /\ pc[b] = "config" /\ pc'[b] = "blob" /\ PutDoc(d, "ok")
      /\ UNCHANGED <<content, layers, link, tag, image, at, mem, want, made>>
  BY BoundedKept DEF PutConfig, Goto, Failed, Types, TypeOK
<1>2. d \in Configs /\ d.kind # "manifest"
  BY <1>1, Written DEF Manifests, Configs
<1>3. docs' = docs \cup {d}
  BY <1>1, <1>2, DocPut DEF Types
<1>4. IdealDocs'
  BY <1>1, <1>2, <1>3, DocsIdeal DEF Complete
<1>5. IdealMade(b)'
  BY <1>1, IdealMadeKept DEF Complete, Whole
<1>6. Put(b)'
  BY <1>1, <1>3 DEF Complete, Whole, Put, Live
<1>7. Whole(b)'
  BY <1>1, <1>5, <1>6 DEF Whole, Held, Working, Layering
<1> QED
  BY <1>1, <1>3, <1>4, <1>7, CompleteFrom DEF Write

LEMMA PutBlobComplete ==
  ASSUME Types, Complete, NEW b \in Builds, PutBlob(b), spent'.faults = 0 PROVE Complete'
<1> DEFINE d == made[b][at[b].part]
<1>1. /\ pc[b] = "blob" /\ image[b] \in Images /\ at[b].part \in Nat
      /\ UNCHANGED <<content, layers, link, tag, image, want, made>>
  BY Here DEF PutBlob, Working
<1>2. /\ PutDoc(d, "ok")
      /\ \/ /\ image[b] \notin Indexes /\ pc' = [pc EXCEPT ![b] = "tag"]
            /\ UNCHANGED <<at, mem>>
         \/ Push(b, at[b].part + 1)
  BY BoundedKept DEF PutBlob, Goto, Failed
<1>3. /\ made[b] \in Seq(Manifests) /\ Len(made[b]) = at[b].part /\ d \in Manifests
      /\ at[b].part \in DOMAIN made[b] /\ at[b].part \in DOMAIN Recipe[image[b]]
  BY <1>1, Written DEF Types, Shape, Working
<1>4. docs' = docs \cup {d}
  BY <1>2, <1>3, DocPut DEF Types
<1>5. d = Ideal(image[b], at[b].part) /\ Stored(d)
  BY <1>3 DEF Complete, Whole, IdealMade
<1>6. IdealDocs'
  BY <1>1, <1>3, <1>4, <1>5, DocsIdeal DEF Complete
<1>7. \A q \in DOMAIN made[b] : made[b][q] \in docs' /\ made[b][q].config \in docs'
  <2>1. \A q \in DOMAIN made[b] : q < at[b].part \/ q = at[b].part
    BY <1>3
  <2> QED
    BY <1>1, <1>4, <2>1 DEF Complete, Whole, Put, Live
<1>8. CASE /\ image[b] \notin Indexes /\ pc' = [pc EXCEPT ![b] = "tag"]
           /\ UNCHANGED <<at, mem>>
  <2>1. pc'[b] = "tag"
    BY <1>8 DEF Types, TypeOK
  <2>2. IdealMade(b)'
    BY <1>1, IdealMadeKept DEF Complete, Whole
  <2>3. Put(b)'
    BY <1>1, <1>7, <1>8, <2>1 DEF Put
  <2>4. Whole(b)'
    BY <2>1, <2>2, <2>3 DEF Whole, Held, Working, Layering
  <2> QED
    BY <1>1, <1>4, <1>6, <2>4, CompleteFrom DEF Write
<1>9. CASE Push(b, at[b].part + 1)
  <2> DEFINE p == at[b].part + 1
  <2>1. p \in Nat \ {0} /\ Len(made[b]) = p - 1 /\ Push(b, p) /\ IdealMade(b)
    BY <1>1, <1>3, <1>9 DEF Complete, Whole
  <2> HIDE DEF p
  <2>2. Whole(b)'
    BY <1>1, <1>7, <2>1, PushWhole
  <2> QED
    BY <1>1, <1>4, <1>6, <2>2, CompleteFrom DEF Write
<1> QED
  BY <1>2, <1>8, <1>9

LEMMA PutIndexComplete ==
  ASSUME Types, Complete, NEW b \in Builds, PutIndex(b), spent'.faults = 0 PROVE Complete'
<1> DEFINE d == Index(made[b])
<1>1. /\ pc[b] = "index" /\ pc'[b] = "tag" /\ PutDoc(d, "ok") /\ made[b] \in Seq(Manifests)
      /\ UNCHANGED <<content, layers, link, tag, image, at, mem, want, made>>
  BY BoundedKept DEF PutIndex, Goto, Failed, Types, TypeOK
<1>2. d \in Indices /\ d.kind # "manifest"
  BY <1>1 DEF Index, Indices
<1>3. docs' = docs \cup {d}
  BY <1>1, <1>2, DocPut DEF Types
<1>4. IdealDocs'
  BY <1>1, <1>2, <1>3, DocsIdeal DEF Complete
<1>5. IdealMade(b)'
  BY <1>1, IdealMadeKept DEF Complete, Whole
<1>6. Put(b)'
  <2>1. \A p \in DOMAIN made[b] : made[b][p] \in docs /\ made[b][p].config \in docs
    BY <1>1 DEF Complete, Whole, Put, Live
  <2>2. Index(made[b])' = d
    BY <1>1 DEF Index
  <2> HIDE DEF d
  <2> QED
    BY <1>1, <1>3, <2>1, <2>2 DEF Put
<1>7. Whole(b)'
  BY <1>1, <1>5, <1>6 DEF Whole, Held, Working, Layering
<1> QED
  BY <1>1, <1>3, <1>4, <1>7, CompleteFrom DEF Write

(* The tag that is put is the ideal one, and all it leads to is there.     *)
LEMMA TagIs ==
  ASSUME Types, Complete, NEW b \in Builds, pc[b] = "tag"
  PROVE  /\ image[b] \in Images /\ TagDoc(b) = IdealTag(image[b]) /\ TagDoc(b) \in docs
         /\ \A p \in DOMAIN Recipe[image[b]] :
              Ideal(image[b], p) \in docs /\ Ideal(image[b], p).config \in docs
<1> DEFINE i == image[b]
<1>1. /\ i \in Images /\ made[b] \in Seq(Manifests) /\ Len(made[b]) = Len(Recipe[i])
  BY DEF Types, TypeOK, Shape
<1>2. Recipe[i] \in Seq(Seq(Sources)) /\ (i \notin Indexes => Len(Recipe[i]) = 1)
  BY <1>1, RecipeIs, StoreAssumption
<1>3. DOMAIN made[b] = DOMAIN Recipe[i] /\ (i \notin Indexes => 1 \in DOMAIN made[b])
  BY <1>1, <1>2
<1>4. \A p \in DOMAIN made[b] :
        made[b][p] = Ideal(i, p) /\ made[b][p] \in docs /\ made[b][p].config \in docs
  BY DEF Complete, Whole, IdealMade, Put, Live
<1>5. i \in Indexes => Index(made[b]) \in docs
  BY DEF Complete, Whole, Put
<1>6. made[b] = [p \in DOMAIN Recipe[i] |-> Ideal(i, p)]
  <2>1. made[b] = [p \in DOMAIN made[b] |-> made[b][p]]
    BY <1>1
  <2> QED
    BY <1>3, <1>4, <2>1
<1>7. TagDoc(b) = IdealTag(i) /\ TagDoc(b) \in docs
  BY <1>3, <1>4, <1>5, <1>6 DEF TagDoc, IdealTag
<1> QED
  BY <1>1, <1>3, <1>4, <1>7

LEMMA PutTagComplete ==
  ASSUME Types, Complete, NEW b \in Builds, PutTag(b), spent'.faults = 0
  PROVE  Complete' /\ \A i \in Images : tag[i] # None => tag'[i] = tag[i]
<1>1. /\ pc[b] = "tag" /\ pc'[b] = "done"
      /\ tag \in [Images -> {None, Cut} \cup Manifests \cup Indices]
      /\ UNCHANGED <<content, layers, docs, torn, link, image, at, mem, want, made>>
      /\ tag' = [tag EXCEPT ![image[b]] = TagDoc(b)] \/ UNCHANGED tag
  BY BoundedKept DEF PutTag, Goto, Failed, TagDoc, Types, TypeOK
<1>2. /\ image[b] \in Images /\ TagDoc(b) = IdealTag(image[b]) /\ TagDoc(b) \in docs
      /\ \A p \in DOMAIN Recipe[image[b]] :
           Ideal(image[b], p) \in docs /\ Ideal(image[b], p).config \in docs
  BY <1>1, TagIs
<1>3. \A i \in Images : tag'[i] = tag[i] \/ (i = image[b] /\ tag'[i] = TagDoc(b))
  BY <1>1
<1>4. \A i \in Images : tag[i] # None => tag'[i] = tag[i]
  BY <1>2, <1>3 DEF Complete, IdealTags
<1>5. IdealTags'
  BY <1>1, <1>2, <1>3, IdealSame DEF Complete, IdealTags
<1>6. IdealMade(b)'
  BY <1>1, IdealMadeKept DEF Complete, Whole
<1>7. Whole(b)'
  BY <1>1, <1>6 DEF Whole, Held, Put, Working, Layering, Live
<1> QED
  BY <1>1, <1>4, <1>5, <1>7, CompleteFrom DEF Write

LEMMA CrashComplete == ASSUME Complete, Crash PROVE Complete'
<1>1. /\ UNCHANGED <<content, layers, docs, link, tag, image, at, mem, made>>
      /\ pc' = [b \in Builds |-> IF pc[b] \in Live THEN "dead" ELSE pc[b]]
  BY DEF Crash, disk
<1>2. IdealLinks' /\ IdealDocs' /\ IdealTags'
  BY <1>1, LinksIdeal, DocsStay, TagsStay DEF Complete
<1>3. ASSUME NEW q \in Builds PROVE Whole(q)'
  <2>1. IdealMade(q)'
    BY <1>1, IdealMadeKept DEF Complete, Whole
  <2> QED
    BY <1>1, <2>1 DEF Complete, Whole, Held, Put, Working, Layering, Live
<1> QED
  BY <1>2, <1>3 DEF Complete

LEMMA StutterComplete == ASSUME Types, Complete, UNCHANGED vars PROVE Complete'
<1>1. IdealLinks' /\ IdealDocs' /\ IdealTags'
  BY LinksIdeal, DocsStay, TagsStay DEF Complete, vars, disk
<1>2. \A q \in Builds : Whole(q)'
  BY SameWhole DEF Same, Complete, vars, disk
<1> QED
  BY <1>1, <1>2 DEF Complete

LEMMA InitComplete == Init => Complete
<1> SUFFICES ASSUME Init PROVE Complete
  OBVIOUS
<1>1. IdealLinks /\ IdealDocs /\ IdealTags
  BY DEF Init, IdealLinks, IdealDocs, IdealTags, Decodes
<1>2. \A b \in Builds : Whole(b)
  BY DEF Init, Whole, Held, IdealMade, Put, Working, Layering, Live
<1> QED
  BY <1>1, <1>2 DEF Complete

Settled == spent.changes = 0 /\ spent.faults = 0 => Complete

LEMMA NextSettled ==
  ASSUME Types, Faultless, Settled, [Next]_vars
  PROVE  /\ Settled'
         /\ spent'.changes = 0 /\ spent'.faults = 0 =>
              \A i \in Images : tag[i] # None => tag'[i] = tag[i]
<1> DEFINE TagsSame == \A i \in Images : tag[i] # None => tag'[i] = tag[i]
<1>1. ASSUME NEW b \in Builds, Request(b) \/ Write(b),
             spent'.changes = 0, spent'.faults = 0
      PROVE  Complete' /\ TagsSame
  <2>1. Lasting /\ Complete
    BY <1>1, ChangesKept, FaultsKept DEF Faultless, Settled
  <2>2. CASE PutTag(b)
    BY <1>1, <2>1, <2>2, PutTagComplete
  <2>3. CASE ~PutTag(b)
    <3>1. Complete'
      BY <1>1, <2>1, <2>3, RequestComplete, StartComplete, LinkComplete, StatComplete,
         CopyComplete, SumComplete, EncodeComplete, RenameComplete, ComputeComplete,
         PutConfigComplete, PutBlobComplete, PutIndexComplete DEF Write
    <3>2. UNCHANGED tag
      BY <1>1, <2>3 DEF Request, Write, Start, Link, Stat, Copy, Sum, Encode, Rename,
                        Compute, PutConfig, PutBlob, PutIndex, disk
    <3> QED
      BY <3>1, <3>2
  <2> QED
    BY <2>2, <2>3
<1>2. ASSUME NEW s \in Sources, Change(s) PROVE spent'.changes # 0
  BY <1>2, ChangeSpent DEF Change
<1>3. CASE Crash
  <2>1. /\ spent'.changes = spent.changes /\ spent'.faults = spent.faults /\ UNCHANGED tag
    BY <1>3, CrashSpent DEF Crash, disk
  <2> QED
    BY <1>3, <2>1, CrashComplete DEF Settled
<1>4. CASE UNCHANGED vars
  BY <1>4, StutterComplete DEF Settled, vars, disk
<1>5. Quiet => UNCHANGED vars
  BY DEF Quiet
<1> QED
  BY <1>1, <1>2, <1>3, <1>4, <1>5 DEF Next, Settled

(* While sources keep their content and no disk operation fails, all that  *)
(* is made of an image is the one thing that can be, of the first source   *)
(* of each link file, put in order.                                        *)
THEOREM Settling == Spec => []Settled
<1>1. Init => Settled
  BY InitComplete DEF Settled
<1> QED
  BY <1>1, Typing, NextSettled, InitFaultless, NextFaultless, PTL DEF Spec

(* The platforms behind an ideal tag. *)
LEMMA IdealParts ==
  ASSUME NEW i \in Images, tag[i] = IdealTag(i)
  PROVE  /\ Len(Parts(i)) = Len(Recipe[i]) /\ DOMAIN Parts(i) = DOMAIN Recipe[i]
         /\ \A p \in DOMAIN Parts(i) : p \in DOMAIN Recipe[i] /\ Parts(i)[p] = Ideal(i, p)
<1>1. Recipe[i] \in Seq(Seq(Sources))
  BY RecipeIs
<1>2. CASE i \in Indexes
  <2>1. Parts(i) = [p \in DOMAIN Recipe[i] |-> Ideal(i, p)]
    BY <1>2 DEF Parts, IdealTag, Index
  <2>2. DOMAIN Recipe[i] = 1 .. Len(Recipe[i]) /\ Len(Recipe[i]) \in Nat
    BY <1>1
  <2> QED
    BY <2>1, <2>2
<1>3. CASE i \notin Indexes
  <2>1. Parts(i) = <<Ideal(i, 1)>>
    BY <1>3 DEF Parts, IdealTag
  <2>2. Len(Recipe[i]) = 1 /\ DOMAIN Recipe[i] = 1 .. 1
    BY <1>1, <1>3, StoreAssumption
  <2> HIDE DEF Ideal
  <2> QED
    BY <2>1, <2>2
<1> QED
  BY <1>2, <1>3

LEMMA IdealLayer ==
  ASSUME NEW i, NEW p, NEW k \in DOMAIN Recipe[i][p]
  PROVE  Ideal(i, p).layers[k].digest = content[FirstOf[Recipe[i][p][k]]]
<1> DEFINE d(n) == content[LinkOf(Recipe[i][p][n])]
           descs == [n \in DOMAIN Recipe[i][p] |-> [digest |-> d(n), size |-> d(n)]]
<1>1. Ideal(i, p).layers = descs
  BY DEF Ideal, Manifest
<1>2. descs[k].digest = d(k)
  OBVIOUS
<1>3. d(k) = content[FirstOf[Recipe[i][p][k]]]
  BY DEF LinkOf
<1> HIDE DEF d, descs
<1> QED
  BY <1>1, <1>2, <1>3

(* While sources keep their content: a manifest is made after the layers   *)
(* it names are in the cache. A disk operation that fails lets a layer out *)
(* of this only if its source shares its link file with another.           *)
THEOREM LayersArePresent == Spec => []LayersPresent
<1>1. ASSUME Types, Steady, Settled, spent.changes = 0,
             NEW b \in Builds, NEW p \in DOMAIN made[b], NEW k \in DOMAIN made[b][p].layers,
             spent.faults = 0 \/ Alone(Recipe[image[b]][p][k])
      PROVE  made[b][p].layers[k].digest \in layers
  <2>1. CASE spent.faults = 0
    BY <1>1, <2>1 DEF Settled, Complete, Whole, IdealMade, Stored
  <2>2. CASE Alone(Recipe[image[b]][p][k])
    BY <1>1, <2>2 DEF Steady, Sound, Right, RightMade, RightManifest
  <2> QED
    BY <1>1, <2>1, <2>2
<1>2. Types /\ Steady /\ Settled => LayersPresent
  BY <1>1 DEF LayersPresent
<1> QED
  BY <1>2, Typing, Steadiness, Settling, PTL

(* While sources keep their content: an image is made of the content of    *)
(* the sources of its recipe, in their order, but that of sources which    *)
(* share a link file is the content of one of them, and while the disk     *)
(* does not fail of the first.                                             *)
THEOREM ContentIsRight == Spec => []RightContent
<1>1. ASSUME Steady, Settled, spent.changes = 0, NEW i \in Images, Known(i)
      PROVE  /\ Len(Parts(i)) = Len(Recipe[i])
             /\ \A p \in DOMAIN Recipe[i] :
                  /\ DOMAIN Parts(i)[p].layers = DOMAIN Recipe[i][p]
                  /\ \A k \in DOMAIN Recipe[i][p] :
                       /\ Fits(Recipe[i][p][k], Parts(i)[p].layers[k].digest)
                       /\ spent.faults = 0 =>
                            Parts(i)[p].layers[k].digest = content[FirstOf[Recipe[i][p][k]]]
  <2>1. /\ Len(Parts(i)) = Len(Recipe[i])
        /\ \A p \in DOMAIN Recipe[i] : RightManifest(Parts(i)[p], i, p)
    BY <1>1 DEF Steady, Sound, RightTags
  <2>2. ASSUME spent.faults = 0, NEW p \in DOMAIN Recipe[i], NEW k \in DOMAIN Recipe[i][p]
        PROVE  Parts(i)[p].layers[k].digest = content[FirstOf[Recipe[i][p][k]]]
    <3>1. tag[i] = IdealTag(i)
      BY <1>1, <2>2 DEF Settled, Complete, IdealTags, Known
    <3>2. Parts(i)[p] = Ideal(i, p)
      BY <3>1, IdealParts
    <3> QED
      BY <3>2, IdealLayer
  <2> QED
    BY <2>1, <2>2 DEF RightManifest
<1>2. Steady /\ Settled => RightContent
  BY <1>1 DEF RightContent, Fits
<1> QED
  BY <1>2, Steadiness, Settling, PTL

(* Until a source changes or a disk operation fails, whatever crashes:     *)
(* digest, size and diffID of every layer are those of one content.        *)
THEOREM LayersCohere ==
  Spec => [](spent.changes = 0 /\ spent.faults = 0 => Coherent)
<1>1. ASSUME IdealDocs PROVE Coherent
  <2>1. ASSUME NEW m \in docs, m.kind = "manifest", NEW k \in DOMAIN m.layers
        PROVE  m.layers[k].size = m.layers[k].digest /\ m.config.diffs[k] = m.layers[k].digest
    <3>1. PICK i \in Images : \E p \in DOMAIN Recipe[i] : m = Ideal(i, p)
      BY <1>1, <2>1 DEF IdealDocs
    <3>2. PICK p \in DOMAIN Recipe[i] : m = Ideal(i, p)
      BY <3>1
    <3> QED
      BY <2>1, <3>2 DEF Ideal, Manifest, Config
  <2> QED
    BY <2>1 DEF Coherent
<1>2. Settled => (spent.changes = 0 /\ spent.faults = 0 => Coherent)
  BY <1>1 DEF Settled, Complete
<1> QED
  BY <1>2, Settling, PTL

(* Until a source changes or a disk operation fails, whatever crashes:     *)
(* what a tag leads to is in the cache to the last blob.                   *)
THEOREM TagsArePullable ==
  Spec => [](spent.changes = 0 /\ spent.faults = 0 => Pullable)
<1>1. ASSUME Complete PROVE Pullable
  <2>1. ASSUME NEW i \in Images, Known(i)
        PROVE  /\ tag[i] \in docs
               /\ \A p \in DOMAIN Parts(i) :
                    LET m == Parts(i)[p] IN
                    /\ m \in docs /\ m.config \in docs
                    /\ \A k \in DOMAIN m.layers : m.layers[k].digest \in layers
    <3>1. /\ tag[i] = IdealTag(i) /\ tag[i] \in docs
          /\ \A p \in DOMAIN Recipe[i] : Ideal(i, p) \in docs /\ Ideal(i, p).config \in docs
      BY <1>1, <2>1 DEF Known, Complete, IdealTags
    <3>2. \A p \in DOMAIN Parts(i) : p \in DOMAIN Recipe[i] /\ Parts(i)[p] = Ideal(i, p)
      BY <3>1, IdealParts
    <3>3. ASSUME NEW p \in DOMAIN Recipe[i], NEW k \in DOMAIN Ideal(i, p).layers
          PROVE  Ideal(i, p).layers[k].digest \in layers
      <4>1. Ideal(i, p).kind = "manifest"
        BY DEF Ideal, Manifest
      <4> QED
        BY <1>1, <3>1, <3>3, <4>1 DEF Complete, IdealDocs, Stored
    <3> QED
      BY <3>1, <3>2, <3>3
  <2> QED
    BY <2>1 DEF Pullable
<1>2. Settled => (spent.changes = 0 /\ spent.faults = 0 => Pullable)
  BY <1>1 DEF Settled
<1> QED
  BY <1>2, Settling, PTL

(* Where sources do not change and the disk does not fail, whatever        *)
(* crashes: a second build of an image writes the manifest that is there.  *)
THEOREM ResultIsStable ==
  ASSUME MaxChanges = 0, MaxFaults = 0 PROVE Spec => StableResult
<1>1. ASSUME Types, Types', Faultless, Settled, [Next]_vars
      PROVE  [\A i \in Images : Known(i) => tag'[i] = tag[i]]_vars
  <2>1. spent'.changes = 0 /\ spent'.faults = 0
    <3>1. spent'.changes \in Nat /\ spent'.faults \in Nat
      BY <1>1 DEF Types, TypeOK
    <3> QED
      BY <1>1, <3>1 DEF Types, Bounded
  <2> QED
    BY <1>1, <2>1, NextSettled DEF Known
<1>2. Spec => []Faultless
  BY Typing, InitFaultless, NextFaultless, PTL DEF Spec
<1> QED
  BY <1>1, <1>2, Typing, Settling, PTL DEF Spec, StableResult
================================================================================
