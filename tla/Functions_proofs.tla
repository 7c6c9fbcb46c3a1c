---------------------------- MODULE Functions_proofs ----------------------------
(***************************************************************************)
(* What the server computes without state, for any input: models with one  *)
(* cache, the rule a reference is given to, the handler a request reaches, *)
(* the templates of the run, what is in effect of the config files, and    *)
(* what a directory puts into a layer.                                     *)
(***************************************************************************)
EXTENDS MCFunctions, Rule_proofs

(* The first place of a sequence at which something is. *)
LEMMA MinIs ==
  ASSUME NEW S \in SUBSET Nat, S # {}
  PROVE  Min(S) \in S /\ \A m \in S : Min(S) <= m
<1>1. \E n \in S : \A m \in S : n <= m
  BY Smallest
<1> QED
  BY <1>1 DEF Min

------------------------------------------------------------------------------
(* Models: names of a path, digests among them. *)

OptionsOf(Name) == [Model : Seq(Name), WorkDir : Seq(Name), ModelName : Seq(Name)]

ImagesOf(Name) == [manifest : Name, config : Name, layers : Seq(Name)]

FilesOf(Name) == [Path : Seq(Name), from : Name]

LEMMA RemoveFirstIs ==
  ASSUME NEW S, NEW s \in Seq(S), NEW e PROVE RemoveFirst(s, e) \in Seq(S)
<1> DEFINE I == {i \in 1 .. Len(s) : s[i] = e}
           Cut(i) == RemoveAt(s, i)
<1>1. CASE I # {}
  <2>1. RemoveFirst(s, e) = Cut(Min(I))
    BY <1>1 DEF RemoveFirst, SelectInSeq
  <2>2. Min(I) \in 1 .. Len(s)
    <3>1. I \in SUBSET Nat
      OBVIOUS
    <3>2. Min(I) \in I
      <4> HIDE DEF I
      <4> QED
        BY <1>1, <3>1, MinIs
    <3> QED
      BY <3>2
  <2> HIDE DEF I
  <2> DEFINE m == Min(I)
  <2> HIDE DEF m
  <2>3. m \in 1 .. Len(s)
    BY <2>2 DEF m
  <2>4. SubSeq(s, 1, m - 1) \in Seq(S) /\ SubSeq(s, m + 1, Len(s)) \in Seq(S)
    BY <2>3
  <2>5. Cut(m) \in Seq(S)
    BY <2>4 DEF RemoveAt
  <2> QED
    BY <2>1, <2>5 DEF m
<1>2. CASE I = {}
  BY <1>2 DEF RemoveFirst
<1> QED
  BY <1>1, <1>2

(* Paths in the directory of a model. *)
LEMMA PathsAre ==
  ASSUME NEW Name, "manifests" \in Name, "blobs" \in Name,
         NEW w \in Seq(Name), NEW x \in Seq(Name), NEW d \in Name, NEW e \in Name
  PROVE  /\ w \o <<"manifests">> \o x \in Seq(Name)
         /\ w \o <<"blobs", d>> \in Seq(Name)
         /\ w \o <<"manifests">> \o x # w \o <<"blobs", d>>
         /\ w \o <<"blobs", d>> = w \o <<"blobs", e>> => d = e
<1> DEFINE m == <<"manifests">>
           b(y) == <<"blobs", y>>
           n == Len(w)
<1>1. n \in Nat /\ m \in Seq(Name) /\ Len(m) = 1 /\ m[1] = "manifests"
  OBVIOUS
<1>2. \A y \in Name : b(y) \in Seq(Name) /\ Len(b(y)) = 2 /\ b(y)[1] = "blobs" /\ b(y)[2] = y
  OBVIOUS
<1> HIDE DEF m, b
<1>3. /\ w \o m \in Seq(Name) /\ Len(w \o m) = n + 1 /\ (w \o m)[n + 1] = "manifests"
      /\ (w \o m) \o x \in Seq(Name)
  <2>1. w \o m \in Seq(Name) /\ Len(w \o m) = n + 1
    BY <1>1, ConcatProperties
  <2>2. (w \o m)[n + 1] = "manifests"
    <3>1. n + 1 \in 1 .. n + Len(m) /\ ~(n + 1 <= n) /\ (n + 1) - n = 1
      BY <1>1
    <3>2. (w \o m)[n + 1] = m[(n + 1) - n]
      BY <1>1, <3>1, ConcatProperties
    <3> QED
      BY <1>1, <3>1, <3>2
  <2>3. (w \o m) \o x \in Seq(Name)
    BY <2>1, ConcatProperties
  <2> QED
    BY <2>1, <2>2, <2>3
<1>4. ((w \o m) \o x)[n + 1] = "manifests"
  BY <1>1, <1>3
<1>5. \A y \in Name : /\ w \o b(y) \in Seq(Name)
                      /\ (w \o b(y))[n + 1] = "blobs" /\ (w \o b(y))[n + 2] = y
  BY <1>1, <1>2
<1>6. (w \o m) \o x # w \o b(d)
  BY <1>4, <1>5
<1>7. w \o b(d) = w \o b(e) => d = e
  BY <1>5
<1> QED
  BY <1>3, <1>5, <1>6, <1>7 DEF m, b

(* The files of a model: its manifest, and blobs that are called by their  *)
(* digest.                                                                 *)
InDirectory(f, w, Name) ==
  /\ \E x \in Seq(Name) : f[1].Path = w \o <<"manifests">> \o x
  /\ \A i \in 2 .. Len(f) : f[i].Path = w \o <<"blobs", f[i].from>>

Place(image, o) == tarManifest(image, o.Model, o.WorkDir, o.ModelName).Path

LEMMA ModelIs ==
  ASSUME NEW Name, "manifests" \in Name, "blobs" \in Name,
         NEW image \in ImagesOf(Name), NEW o \in OptionsOf(Name), NEW f,
         f = tarModel(image, o)
  PROVE  /\ f \in Seq(FilesOf(Name)) /\ Len(f) >= 2
         /\ f[1].Path = Place(image, o) /\ f[1].from = image.manifest
         /\ InDirectory(f, o.WorkDir, Name)
<1> DEFINE m == tarManifest(image, o.Model, o.WorkDir, o.ModelName)
           c == tarConfig(image, o.WorkDir)
           n == Len(image.layers)
           rest == [i \in DOMAIN image.layers |-> tarLayer(image.layers[i], o.WorkDir)]
           w == o.WorkDir
           x == RemoveFirst(IF o.ModelName = <<>> THEN o.Model ELSE o.ModelName, ":")
<1>1. /\ image.manifest \in Name /\ image.config \in Name /\ image.layers \in Seq(Name)
      /\ o.Model \in Seq(Name) /\ w \in Seq(Name) /\ o.ModelName \in Seq(Name)
  BY DEF ImagesOf, OptionsOf
<1>2. x \in Seq(Name)
  BY <1>1, RemoveFirstIs
<1>3. m = [Path |-> w \o <<"manifests">> \o x, from |-> image.manifest]
  BY DEF tarManifest, File
<1> HIDE DEF x, w
<1>4. \A d \in Name : File(w \o <<"blobs", d>>, d) \in FilesOf(Name)
  BY <1>1, PathsAre DEF File, FilesOf
<1>5. m \in FilesOf(Name)
  <2>1. w \o <<"manifests">> \o x \in Seq(Name)
    BY <1>1, <1>2, PathsAre
  <2> QED
    BY <1>1, <1>3, <2>1 DEF FilesOf
<1>6. c = File(w \o <<"blobs", image.config>>, image.config) /\ c \in FilesOf(Name)
  BY <1>1, <1>4 DEF tarConfig, w
<1>7. n \in Nat /\ DOMAIN image.layers = 1 .. n /\ \A i \in 1 .. n : image.layers[i] \in Name
  BY <1>1
<1>8. \A i \in 1 .. n :
        /\ rest[i] = File(w \o <<"blobs", image.layers[i]>>, image.layers[i])
        /\ rest[i] \in FilesOf(Name)
  BY <1>4, <1>7 DEF tarLayer, w
<1>9. rest \in Seq(FilesOf(Name)) /\ Len(rest) = n
  <2>1. rest \in [1 .. n -> FilesOf(Name)]
    BY <1>7, <1>8
  <2> HIDE DEF rest
  <2> QED
    BY <1>7, <2>1
<1>10. f = <<m, c>> \o rest
  BY DEF tarModel
<1> HIDE DEF m, c, rest, n
<1>11. <<m, c>> \in Seq(FilesOf(Name)) /\ Len(<<m, c>>) = 2
  BY <1>5, <1>6
<1>12. /\ f \in Seq(FilesOf(Name)) /\ Len(f) = 2 + n
       /\ \A i \in 1 .. 2 + n : f[i] = IF i <= 2 THEN <<m, c>>[i] ELSE rest[i - 2]
  BY <1>7, <1>9, <1>10, <1>11, ConcatProperties
<1>13. f[1] = m /\ f[2] = c
  BY <1>7, <1>12
<1>14. \A i \in 3 .. Len(f) : i - 2 \in 1 .. n /\ f[i] = rest[i - 2]
  BY <1>7, <1>12
<1>15. ASSUME NEW i \in 2 .. Len(f) PROVE f[i].Path = w \o <<"blobs", f[i].from>>
  <2>1. \A d \in Name : File(w \o <<"blobs", d>>, d).from = d
                        /\ File(w \o <<"blobs", d>>, d).Path = w \o <<"blobs", d>>
    BY DEF File
  <2>2. \E d \in Name : f[i] = File(w \o <<"blobs", d>>, d)
    <3>1. CASE i = 2
      BY <1>1, <1>6, <1>13, <3>1
    <3>2. CASE i # 2
      <4>1. i \in 3 .. Len(f)
        BY <1>7, <1>12, <3>2
      <4> QED
        BY <1>7, <1>8, <1>14, <4>1
    <3> QED
      BY <3>1, <3>2
  <2>3. PICK d \in Name : f[i] = File(w \o <<"blobs", d>>, d)
    BY <2>2
  <2>4. f[i].from = d /\ f[i].Path = w \o <<"blobs", d>>
    BY <2>1, <2>3
  <2> QED
    BY <2>4
<1>16. m.from = image.manifest /\ m.Path = w \o <<"manifests">> \o x
  BY <1>3
<1>17. f \in Seq(FilesOf(Name)) /\ Len(f) >= 2
  BY <1>7, <1>12
<1>18. InDirectory(f, w, Name)
  BY <1>2, <1>13, <1>15, <1>16 DEF InDirectory
<1>19. f[1].Path = Place(image, o) /\ f[1].from = image.manifest
  BY <1>13, <1>16 DEF Place, m
<1> QED
  BY <1>17, <1>18, <1>19 DEF w

(* The files of a model under the keys of their links. *)
Keyed(files, o) == [i \in DOMAIN files |-> [files[i] EXCEPT !.Path = sumOllamaLayerInfo(@, o)]]

LEMMA KeyedIs ==
  ASSUME NEW Name, NEW o \in OptionsOf(Name), NEW f \in Seq(FilesOf(Name))
  PROVE  LET Keys == Seq(Name) \X Seq(Name) \X Seq(Name) IN
         /\ Keyed(f, o) \in Seq([Path : Keys, from : Name]) /\ Len(Keyed(f, o)) = Len(f)
         /\ \A i \in 1 .. Len(f) : /\ Keyed(f, o)[i].from = f[i].from
                                   /\ Keyed(f, o)[i].Path = <<f[i].Path, o.Model, o.WorkDir>>
<1> DEFINE Keys == Seq(Name) \X Seq(Name) \X Seq(Name)
           K == [Path : Keys, from : Name]
           n == Len(f)
           k == Keyed(f, o)
<1>1. n \in Nat /\ DOMAIN f = 1 .. n
  OBVIOUS
<1>2. \A i \in 1 .. n : f[i] \in FilesOf(Name)
  OBVIOUS
<1>3. \A i \in 1 .. n : k[i] = [f[i] EXCEPT !.Path = <<@, o.Model, o.WorkDir>>]
  BY <1>1 DEF Keyed, sumOllamaLayerInfo
<1>4. o.Model \in Seq(Name) /\ o.WorkDir \in Seq(Name)
  BY DEF OptionsOf
<1>5. ASSUME NEW i \in 1 .. n
      PROVE  /\ k[i] \in K /\ k[i].from = f[i].from
             /\ k[i].Path = <<f[i].Path, o.Model, o.WorkDir>>
  <2>1. f[i].Path \in Seq(Name) /\ f[i].from \in Name
        /\ f[i] = [Path |-> f[i].Path, from |-> f[i].from]
    BY <1>2 DEF FilesOf
  <2>2. k[i] = [Path |-> <<f[i].Path, o.Model, o.WorkDir>>, from |-> f[i].from]
    BY <1>3, <2>1
  <2>3. <<f[i].Path, o.Model, o.WorkDir>> \in Keys
    BY <1>4, <2>1
  <2> HIDE DEF Keys, k
  <2> QED
    BY <2>1, <2>2, <2>3
<1>6. k \in [1 .. n -> K]
  <2>1. k = [i \in 1 .. n |-> k[i]]
    BY <1>1 DEF Keyed
  <2> HIDE DEF K, k
  <2> QED
    BY <1>5, <2>1
<1> HIDE DEF K, k, n
<1>7. k \in Seq(K) /\ Len(k) = n
  BY <1>1, <1>6
<1> QED
  BY <1>5, <1>7 DEF K, k, n

(* A file at one path of two models in one directory has one content, or   *)
(* is the manifest.                                                        *)
LEMMA SamePath ==
  ASSUME NEW Name, "manifests" \in Name, "blobs" \in Name, NEW w \in Seq(Name),
         NEW f \in Seq(FilesOf(Name)), InDirectory(f, w, Name),
         NEW g \in Seq(FilesOf(Name)), InDirectory(g, w, Name),
         NEW i \in 1 .. Len(f), NEW k \in 1 .. Len(g), f[i].Path = g[k].Path
  PROVE  (i = 1 /\ k = 1) \/ f[i].from = g[k].from
<1>1. f[i].from \in Name /\ g[k].from \in Name
  <2>1. f[i] \in FilesOf(Name) /\ g[k] \in FilesOf(Name)
    OBVIOUS
  <2> QED
    BY <2>1 DEF FilesOf
<1>2. /\ i = 1 \/ f[i].Path = w \o <<"blobs", f[i].from>>
      /\ k = 1 \/ g[k].Path = w \o <<"blobs", g[k].from>>
  <2>1. (i = 1 \/ i \in 2 .. Len(f)) /\ (k = 1 \/ k \in 2 .. Len(g))
    BY LenProperties
  <2> QED
    BY <2>1 DEF InDirectory
<1>3. /\ i = 1 => \E x \in Seq(Name) : f[i].Path = w \o <<"manifests">> \o x
      /\ k = 1 => \E x \in Seq(Name) : g[k].Path = w \o <<"manifests">> \o x
  BY DEF InDirectory
<1>4. ASSUME NEW x \in Seq(Name), NEW d \in Name, NEW e \in Name
      PROVE  /\ w \o <<"manifests">> \o x # w \o <<"blobs", d>>
             /\ w \o <<"blobs", d>> = w \o <<"blobs", e>> => d = e
  BY PathsAre
<1> QED
  BY <1>1, <1>2, <1>3, <1>4

(* Two builds with one cache, of any models and directories: what a link   *)
(* file of the first says of a file of the second is true, but for the     *)
(* manifest of a model that its registry has changed in between.           *)
THEOREM ModelsDoNotMix ==
  ASSUME NEW Name, "manifests" \in Name, "blobs" \in Name,
         NEW was \in ImagesOf(Name), NEW before \in OptionsOf(Name),
         NEW is \in ImagesOf(Name), NEW now \in OptionsOf(Name),
         NEW i \in 1 .. Len(tarModel(is, now))
  PROVE  LET first == tarModel(was, before)
             second == tarModel(is, now)
             all == Keyed(first, before) \o Keyed(second, now) IN
         \/ InImage(all, sumOllamaLayerInfo(second[i].Path, now)) = second[i].from
         \/ /\ i = 1 /\ was # is
            /\ sumOllamaLayerInfo(Place(was, before), before)
                 = sumOllamaLayerInfo(Place(is, now), now)
<1> DEFINE first == tarModel(was, before)
           second == tarModel(is, now)
           one == Keyed(first, before)
           two == Keyed(second, now)
           all == one \o two
           key == <<second[i].Path, now.Model, now.WorkDir>>
           Here == {j \in DOMAIN all : all[j].Path = key}
           Keys == Seq(Name) \X Seq(Name) \X Seq(Name)
           K == [Path : Keys, from : Name]
           wb == before.WorkDir
           wn == now.WorkDir
<1>1. /\ first \in Seq(FilesOf(Name)) /\ Len(first) >= 2
      /\ first[1].Path = Place(was, before) /\ first[1].from = was.manifest
      /\ InDirectory(first, wb, Name)
  BY ModelIs
<1>2. /\ second \in Seq(FilesOf(Name)) /\ Len(second) >= 2
      /\ second[1].Path = Place(is, now) /\ second[1].from = is.manifest
      /\ InDirectory(second, wn, Name)
  BY ModelIs
<1> DEFINE n == Len(first)  m == Len(second)
<1> HIDE DEF first, second
<1>3. n \in Nat /\ m \in Nat /\ wb \in Seq(Name) /\ wn \in Seq(Name)
  <2>1. n \in Nat /\ m \in Nat
    BY <1>1, <1>2, LenProperties
  <2>2. wb \in Seq(Name) /\ wn \in Seq(Name)
    BY DEF OptionsOf
  <2> QED
    BY <2>1, <2>2
<1>4. /\ one \in Seq(K) /\ Len(one) = n
      /\ \A j \in 1 .. n : /\ one[j].from = first[j].from
                           /\ one[j].Path = <<first[j].Path, before.Model, wb>>
  BY <1>1, KeyedIs
<1>5. /\ two \in Seq(K) /\ Len(two) = m
      /\ \A j \in 1 .. m : /\ two[j].from = second[j].from
                           /\ two[j].Path = <<second[j].Path, now.Model, wn>>
  BY <1>2, KeyedIs
<1> HIDE DEF one, two, K
<1>6. /\ all \in Seq(K) /\ Len(all) = n + m /\ DOMAIN all = 1 .. n + m
      /\ \A j \in 1 .. n + m : all[j] = IF j <= n THEN one[j] ELSE two[j - n]
  <2>1. /\ all \in Seq(K) /\ Len(all) = n + m
        /\ \A j \in 1 .. n + m : all[j] = IF j <= n THEN one[j] ELSE two[j - n]
    <3>1. /\ one \o two \in Seq(K) /\ Len(one \o two) = Len(one) + Len(two)
          /\ \A j \in 1 .. Len(one) + Len(two) :
               (one \o two)[j] = IF j <= Len(one) THEN one[j] ELSE two[j - Len(one)]
      <4>1. one \in Seq(K) /\ two \in Seq(K)
        BY <1>4, <1>5
      <4> QED
        BY <4>1, ConcatProperties
    <3> QED
      BY <1>4, <1>5, <3>1
  <2> HIDE DEF all, n, m
  <2> QED
    BY <2>1, LenProperties
<1> HIDE DEF all
<1>7. i \in 1 .. m /\ n + i \in 1 .. n + m /\ ~(n + i <= n) /\ (n + i) - n = i
  BY <1>3 DEF second
<1>8. n + i \in Here
  BY <1>5, <1>6, <1>7
<1>9. Min(Here) \in Here
  <2>1. Here \in SUBSET Nat
    BY <1>6
  <2> HIDE DEF Here
  <2> QED
    BY <1>8, <2>1, MinIs
<1> DEFINE j == Min(Here)
<1>10. InImage(all, sumOllamaLayerInfo(second[i].Path, now)) = all[j].from
  BY DEF InImage, sumOllamaLayerInfo
<1>11. j \in 1 .. n + m /\ all[j].Path = key
  <2>1. \A x \in Here : x \in 1 .. n + m /\ all[x].Path = key
    BY <1>6
  <2>2. j \in Here
    BY <1>9
  <2> HIDE DEF j, Here
  <2> QED
    BY <2>1, <2>2
<1> HIDE DEF j, Here
<1>12. CASE j <= n
  <2>1. j \in 1 .. n /\ all[j] = one[j]
    <3>1. j \in 1 .. n + m
      BY <1>11
    <3>2. j \in 1 .. n
      BY <1>3, <1>12, <3>1
    <3> QED
      BY <1>6, <1>12, <3>1, <3>2
  <2>2. /\ all[j].from = first[j].from /\ first[j].Path = second[i].Path
        /\ wb = wn /\ before.Model = now.Model
    BY <1>4, <1>11, <2>1
  <2>3. (j = 1 /\ i = 1) \/ first[j].from = second[i].from
    BY <1>1, <1>2, <1>3, <1>7, <2>1, <2>2, SamePath
  <2>4. CASE j = 1 /\ i = 1
    <3>1. Place(was, before) = Place(is, now)
      BY <1>1, <1>2, <2>2, <2>4
    <3>2. was = is => all[j].from = second[i].from
      BY <1>1, <1>2, <2>2, <2>4
    <3>3. sumOllamaLayerInfo(Place(was, before), before) = sumOllamaLayerInfo(Place(is, now), now)
      BY <2>2, <3>1 DEF sumOllamaLayerInfo
    <3> QED
      BY <1>10, <2>4, <3>2, <3>3 DEF all, one, two, first, second
  <2>5. CASE first[j].from = second[i].from
    BY <1>10, <2>2, <2>5 DEF all, one, two, first, second
  <2> QED
    BY <2>3, <2>4, <2>5
<1>13. CASE ~(j <= n)
  <2>1. j - n \in 1 .. m /\ all[j] = two[j - n]
    <3>1. j \in 1 .. n + m
      BY <1>11
    <3>2. j - n \in 1 .. m
      BY <1>3, <1>13, <3>1
    <3> QED
      BY <1>6, <1>13, <3>1, <3>2
  <2>2. all[j].from = second[j - n].from /\ second[j - n].Path = second[i].Path
    BY <1>5, <1>11, <2>1
  <2>3. (j - n = 1 /\ i = 1) \/ second[j - n].from = second[i].from
    BY <1>2, <1>3, <1>7, <2>1, <2>2, SamePath
  <2>4. all[j].from = second[i].from
    BY <2>2, <2>3
  <2> QED
    BY <1>10, <2>4 DEF all, one, two, first, second
<1> QED
  BY <1>12, <1>13

------------------------------------------------------------------------------
(* What the calls that are checked return. *)

Recalled(i) ==
  LET second == tarModel(i.is, i.now)
      all == Keyed(tarModel(i.was, i.before), i.before) \o Keyed(second, i.now) IN
  [p \in {second[k].Path : k \in DOMAIN second} |-> InImage(all, sumOllamaLayerInfo(p, i.now))]

Packed ==
  call = "model" =>
    /\ input \in [before : Models, was : ModelVersions, now : Models, is : ModelVersions]
    /\ output \in {<<>>, <<Recalled(input)>>}

PartsOfNames ==
  {"h", ":", "5000", "x", "t", "v", "w", "y", "manifests", "blobs",
   "m1", "m2", "c1", "c2", "l1", "l2"}

(* The second model is the first, changed, and its manifest is where it was. *)
Changed(i) ==
  /\ i.was # i.is
  /\ sumOllamaLayerInfo(Place(i.was, i.before), i.before)
       = sumOllamaLayerInfo(Place(i.is, i.now), i.now)

LEMMA ModelsAre ==
  /\ Models \subseteq OptionsOf(PartsOfNames)
  /\ ModelVersions \subseteq ImagesOf(PartsOfNames)
<1> DEFINE Name == PartsOfNames
<1>1. {"h", ":", "5000", "x", "t", "v", "w", "y", "m1", "m2", "c1", "c2", "l1", "l2"}
      \subseteq Name
  BY DEF PartsOfNames
<1> HIDE DEF Name
<1>2. /\ <<"h", ":", "5000", "x", ":", "t">> \in Seq(Name) /\ <<"x", ":", "t">> \in Seq(Name)
      /\ <<"v">> \in Seq(Name) /\ <<"w">> \in Seq(Name)
      /\ <<>> \in Seq(Name) /\ <<"y">> \in Seq(Name) /\ <<"x", "t">> \in Seq(Name)
      /\ <<"l1">> \in Seq(Name) /\ <<"l1", "l2">> \in Seq(Name)
  BY <1>1
<1>3. Models \subseteq OptionsOf(Name)
  BY <1>2 DEF Models, OptionsOf
<1>4. ModelVersions \subseteq ImagesOf(Name)
  BY <1>1, <1>2 DEF ModelVersions, ImagesOf
<1> QED
  BY <1>3, <1>4 DEF Name

(* The pairs of models that are checked, whatever the bounds of the run. *)
THEOREM ModelsAreWhole == AllSpec => []ModelIsWhole
<1>1. AllInit => Packed
  BY DEF AllInit, Init, Packed
<1>2. Packed /\ [AllNext]_vars => Packed'
  <2> SUFFICES ASSUME Packed, [AllNext]_vars PROVE Packed'
    OBVIOUS
  <2>1. CASE PackModel
    <3>1. call = "model" /\ UNCHANGED <<call, input>>
      BY <2>1 DEF PackModel, Called
    <3>2. output' = <<Recalled(input)>>
      BY <2>1 DEF PackModel, Recalled, Keyed
    <3> QED
      BY <3>1, <3>2 DEF Packed
  <2>2. CASE Next \/ Substitute \/ Pack \/ Start \/ Route
    BY <2>2 DEF Packed, Next, Parse, Match, Order, Substitute, Pack, Start, Route, Called
  <2>3. CASE UNCHANGED vars
    BY <2>3 DEF Packed, vars
  <2> QED
    BY <2>1, <2>2, <2>3 DEF AllNext
<1>3. Packed => ModelIsWhole
  <2> SUFFICES ASSUME Packed, call = "model", output # <<>> PROVE ModelIsWhole
    BY DEF ModelIsWhole
  <2> DEFINE second == tarModel(input.is, input.now)
  <2>1. /\ input.was \in ImagesOf(PartsOfNames) /\ input.is \in ImagesOf(PartsOfNames)
        /\ input.before \in OptionsOf(PartsOfNames) /\ input.now \in OptionsOf(PartsOfNames)
        /\ output[1] = Recalled(input)
    BY ModelsAre DEF Packed
  <2>2. "manifests" \in PartsOfNames /\ "blobs" \in PartsOfNames
    BY DEF PartsOfNames
  <2>3. DOMAIN second = 1 .. Len(second)
    <3>1. second \in Seq(FilesOf(PartsOfNames))
      BY <2>1, <2>2, ModelIs
    <3> HIDE DEF second
    <3> QED
      BY <3>1, LenProperties
  <2>4. ASSUME NEW i \in 1 .. Len(second)
        PROVE  \/ output[1][second[i].Path] = second[i].from
               \/ i = 1 /\ Changed(input)
    <3> DEFINE all == Keyed(tarModel(input.was, input.before), input.before)
                      \o Keyed(second, input.now)
    <3>1. output[1][second[i].Path] = InImage(all, sumOllamaLayerInfo(second[i].Path, input.now))
      BY <2>1, <2>3 DEF Recalled
    <3>2. \/ InImage(all, sumOllamaLayerInfo(second[i].Path, input.now)) = second[i].from
          \/ i = 1 /\ Changed(input)
      BY <2>1, <2>2, ModelsDoNotMix DEF Changed
    <3> HIDE DEF all, second
    <3> QED
      BY <3>1, <3>2
  <2>5. \A i \in DOMAIN second : output[1][second[i].Path] = second[i].from \/ (Changed(input) /\ i = 1)
    <3> HIDE DEF second
    <3> QED
      BY <2>3, <2>4
  <2> QED
    BY <2>5 DEF ModelIsWhole, Changed, Place
<1> QED
  BY <1>1, <1>2, <1>3, PTL DEF AllSpec

------------------------------------------------------------------------------
(* A string without "{" is one literal, and matches itself only.           *)
LEMMA OneLiteral ==
  ASSUME NEW Char, NEW s \in Seq(Char), Len(s) > 0, Free(s, Opening)
  PROVE  parseSegments(s) = [ok |-> TRUE, segs |-> <<Literal(s)>>]
<1> DEFINE at == [k \in 0 .. 1 |-> IF k = 0 THEN 0 ELSE Len(s)]
           segs == <<Literal(s)>>
<1>1. Len(s) \in Nat \ {0} /\ DOMAIN s = 1 .. Len(s) /\ SubSeq(s, 1, Len(s)) = s
  BY SubSeqFull
<1>2. /\ Literal(s) \in SegmentsOf(Char) /\ ~Literal(s).wildcard /\ Literal(s).s = s
  BY DEF Literal, SegmentsOf
<1>3. segs \in Seq(SegmentsOf(Char)) /\ Len(segs) = 1 /\ segs[1] = Literal(s)
  BY <1>2
<1>4. at \in [0 .. 1 -> 0 .. Len(s)] /\ at[0] = 0 /\ at[1] = Len(s) /\ 1 - 1 = 0
  BY <1>1
<1>5. SegmentAt(Literal(s), s, 0, Len(s))
  <2>1. \A m \in 0 + 1 .. Len(s) : s[m] # Opening
    BY <1>1 DEF Free
  <2> QED
    BY <1>1, <1>2, <2>1 DEF SegmentAt
<1> HIDE DEF at, segs
<1>6. Cuts(segs, s, 0, at)
  BY <1>1, <1>3, <1>4, <1>5 DEF Cuts
<1>7. parseSegments(s) = [ok |-> TRUE, segs |-> segs]
  BY <1>3, <1>6, ParseIsTheReading
<1> QED
  BY <1>7 DEF segs

LEMMA LiteralIsRead ==
  ASSUME NEW Char, NEW s \in Seq(Char), parseSegments(s).ok,
         Len(parseSegments(s).segs) = 1, ~parseSegments(s).segs[1].wildcard
  PROVE  parseSegments(s).segs[1].s = s
<1> DEFINE segs == parseSegments(s).segs
<1>1. parseSegments(s) \in [ok : BOOLEAN, segs : Seq(SegmentsOf(Char))]
  <2>1. <<>> \in Seq(SegmentsOf(Char))
    OBVIOUS
  <2> QED
    BY <2>1, ParseIsTheReading
<1>2. segs \in Seq(SegmentsOf(Char)) /\ parseSegments(s) = [ok |-> TRUE, segs |-> segs]
  BY <1>1
<1> HIDE DEF segs
<1>3. PICK at : Cuts(segs, s, 0, at)
  BY <1>2, ParseIsTheReading
<1>4. Len(segs) = 1 /\ ~segs[1].wildcard
  BY DEF segs
<1>5. SegmentAt(segs[1], s, 0, Len(s))
  <2>1. 1 \in 1 .. Len(segs) /\ 1 - 1 = 0
    BY <1>4
  <2> QED
    BY <1>3, <1>4, <2>1 DEF Cuts
<1>6. segs[1].s = SubSeq(s, 0 + 1, Len(s))
  BY <1>4, <1>5 DEF SegmentAt
<1>7. 0 + 1 = 1 /\ SubSeq(s, 1, Len(s)) = s
  BY SubSeqFull
<1> QED
  BY <1>6, <1>7 DEF segs

LEMMA LiteralMatchesItself ==
  ASSUME NEW Char, NEW s \in Seq(Char) PROVE matchSegments(<<Literal(s)>>, s).ok
<1> DEFINE segs == <<Literal(s)>>
<1>1. Len(s) \in Nat /\ SubSeq(s, 1, Len(s)) = s
  BY SubSeqFull
<1>2. Literal(s) \in SegmentsOf(Char) /\ ~Literal(s).wildcard /\ Literal(s).s = s
  BY DEF Literal, SegmentsOf
<1>3. segs \in Seq(SegmentsOf(Char)) /\ Len(segs) = 1 /\ segs[1] = Literal(s)
  BY <1>2
<1> HIDE DEF segs
<1>4. PICK a : /\ IsRun(a, segs, s)
               /\ matchSegments(segs, s) =
                    [a[Len(segs)] EXCEPT !.ok = @ /\ a[Len(segs)].off = Len(s)]
  <2>1. Len(segs) \in Nat
    BY <1>3
  <2> QED
    BY <2>1, MatchRuns
<1>5. a[0].ok /\ a[0].off = 0
  BY <1>4 DEF IsRun
<1>6. 1 \in 1 .. Len(segs) /\ 1 - 1 = 0 /\ 1 \in 0 .. Len(segs) /\ ~segs[1].wildcard /\ segs[1].s = s
  BY <1>2, <1>3
<1>7. a[1].ok = HasPrefix(s, 0, s) /\ a[1].off = 0 + Len(s)
  <2>1. a[1 - 1].ok
    BY <1>5, <1>6
  <2>2. /\ a[1].ok = HasPrefix(s, a[1 - 1].off, segs[1].s)
        /\ a[1].off = a[1 - 1].off + Len(segs[1].s)
    BY <1>3, <1>4, <1>6, <2>1, LiteralTurn
  <2> QED
    BY <1>5, <1>6, <2>2
<1>8. HasPrefix(s, 0, s)
  BY <1>1 DEF HasPrefix
<1>9. a[1] \in StatesOf(Char)
  BY <1>3, <1>4, <1>6, RunIs
<1>10. matchSegments(segs, s).ok
  BY <1>1, <1>3, <1>4, <1>7, <1>8, <1>9 DEF StatesOf
<1> QED
  BY <1>10 DEF segs

LEMMA LiteralMatches ==
  ASSUME NEW Char, NEW segs \in Seq(SegmentsOf(Char)), NEW s \in Seq(Char),
         Len(segs) = 1, ~segs[1].wildcard, matchSegments(segs, s).ok
  PROVE  segs[1].s = s
<1>0. IsInstance(segs, s)
  BY MatchesAreInstances
<1>1. PICK cut \in [0 .. Len(segs) -> 0 .. Len(s)] :
        /\ cut[0] = 0 /\ cut[Len(segs)] = Len(s)
        /\ \A i \in DOMAIN segs :
             /\ cut[i - 1] <= cut[i]
             /\ ~segs[i].wildcard => SubSeq(s, cut[i - 1] + 1, cut[i]) = segs[i].s
  BY <1>0 DEF IsInstance
<1>2. 1 \in DOMAIN segs /\ 1 - 1 = 0 /\ 0 + 1 = 1
  OBVIOUS
<1>3. SubSeq(s, 0 + 1, Len(s)) = segs[1].s
  BY <1>1, <1>2
<1> QED
  BY <1>2, <1>3, SubSeqFull

(* The rule that is one literal is before all that are not. *)
LEMMA LiteralFirst ==
  ASSUME NEW Char, NEW s \in Seq(Char), NEW p \in Seq(SegmentsOf(Char))
  PROVE  /\ (Len(p) = 1 /\ ~p[1].wildcard => p[1].s = s) => ~patternLess(p, <<Literal(s)>>)
         /\ Len(p) # 1 \/ p[1].wildcard => patternLess(<<Literal(s)>>, p)
<1> DEFINE q == <<Literal(s)>>
<1>1. Len(q) = 1 /\ q[1].wildcard = FALSE /\ q[1].s = s /\ DOMAIN q = 1 .. 1
  BY DEF Literal
<1>2. /\ Len(p) \in Nat /\ DOMAIN p = 1 .. Len(p)
      /\ Len(p) = 1 => p[1].wildcard \in BOOLEAN
  BY SegmentIs
<1> HIDE DEF q
<1>3. CASE Len(p) # 1
  <2>1. ~patternLess(p, q) /\ patternLess(q, p)
    BY <1>1, <1>3 DEF patternLess
  <2> QED
    BY <2>1 DEF q
<1>4. CASE Len(p) = 1 /\ p[1].wildcard
  <2>1. p[1].wildcard # q[1].wildcard
    BY <1>1, <1>4
  <2>2. ~patternLess(p, q) /\ patternLess(q, p)
    BY <1>1, <1>4, <2>1 DEF patternLess
  <2> QED
    BY <2>2 DEF q
<1>5. CASE Len(p) = 1 /\ ~p[1].wildcard
  <2> SUFFICES ASSUME p[1].s = s PROVE ~patternLess(p, q)
    BY <1>5 DEF q
  <2>1. p[1].wildcard = q[1].wildcard
    BY <1>1, <1>2, <1>5
  <2>2. Differ(p, q) = {}
    BY <1>1, <1>2, <1>5 DEF Differ
  <2>3. ~(Len(p) > Len(q)) /\ Len(p) = Len(q)
    BY <1>1, <1>5
  <2> QED
    BY <2>1, <2>2, <2>3 DEF patternLess
<1> QED
  BY <1>2, <1>3, <1>4, <1>5

(* A rule that names a reference, with or without the tag latest, is the   *)
(* one it is given to: none is before it, whatever else matches.           *)
THEOREM NamedRuleIsTaken ==
  ASSUME NEW Char, Latest \in Seq(Char), NEW rules \in SUBSET Seq(Char),
         NEW ref \in Seq(Char), Len(ref) > 0, Free(ref, Opening),
         NEW own \in rules, TextOf(own) = ref
  PROVE  /\ own \in RuleTaken(rules, ref)
         /\ \A r \in RuleTaken(rules, ref) : TextOf(r) = ref
<1> DEFINE segs(r) == parsePattern(r).segs
           matching == {r \in rules : MatchRule(r, ref).ok}
<1>1. ASSUME NEW r \in rules PROVE TextOf(r) \in Seq(Char)
  BY DEF TextOf
<1>2. RuleTaken(rules, ref) =
        {r \in matching : \A q \in matching : ~patternLess(segs(q), segs(r))}
  BY DEF RuleTaken
<1>3. ASSUME NEW r \in matching
      PROVE  /\ segs(r) \in Seq(SegmentsOf(Char))
             /\ Len(segs(r)) = 1 /\ ~segs(r)[1].wildcard =>
                  segs(r)[1].s = ref /\ TextOf(r) = ref
  <2> DEFINE read == parsePattern(r)  text == TextOf(r)
  <2>1. read.ok /\ matchSegments(read.segs, ref).ok
    BY DEF MatchRule
  <2>2. text \in Seq(Char) /\ read = parseSegments(text)
    BY <1>1, ParseText
  <2> HIDE DEF read, text
  <2>3. read.segs \in Seq(SegmentsOf(Char))
    <3>1. <<>> \in Seq(SegmentsOf(Char))
      OBVIOUS
    <3>2. read \in [ok : BOOLEAN, segs : Seq(SegmentsOf(Char))]
      BY <2>2, <3>1, ParseIsTheReading
    <3> QED
      BY <3>2
  <2>4. ASSUME Len(read.segs) = 1, ~read.segs[1].wildcard
        PROVE  read.segs[1].s = ref /\ text = ref
    <3>1. read.segs[1].s = text
      BY <2>1, <2>2, <2>4, LiteralIsRead
    <3>2. read.segs[1].s = ref
      BY <2>1, <2>3, <2>4, LiteralMatches
    <3> QED
      BY <3>1, <3>2
  <2> QED
    BY <2>3, <2>4 DEF read, text
<1>4. own \in matching /\ segs(own) = <<Literal(ref)>>
  <2>1. parsePattern(own) = [ok |-> TRUE, segs |-> <<Literal(ref)>>]
    BY ParseText, OneLiteral
  <2>2. matchSegments(<<Literal(ref)>>, ref).ok
    BY LiteralMatchesItself
  <2> DEFINE read == parsePattern(own)  literal == <<Literal(ref)>>
  <2>3. read = [ok |-> TRUE, segs |-> literal] /\ matchSegments(literal, ref).ok
    BY <2>1, <2>2
  <2>4. MatchRule(own, ref).ok = (read.ok /\ matchSegments(read.segs, ref).ok)
    BY DEF MatchRule
  <2> HIDE DEF read, literal
  <2>5. MatchRule(own, ref).ok /\ read.segs = literal
    BY <2>3, <2>4
  <2> QED
    BY <2>5 DEF read, literal
<1> HIDE DEF matching, segs
<1>5. own \in RuleTaken(rules, ref)
  <2>1. ASSUME NEW q \in matching PROVE ~patternLess(segs(q), segs(own))
    BY <1>3, <1>4, LiteralFirst
  <2> QED
    BY <1>2, <1>4, <2>1
<1>6. ASSUME NEW r \in RuleTaken(rules, ref) PROVE TextOf(r) = ref
  <2>1. r \in matching /\ ~patternLess(segs(own), segs(r))
    BY <1>2, <1>4
  <2>2. Len(segs(r)) = 1 /\ ~segs(r)[1].wildcard
    BY <1>3, <1>4, <2>1, LiteralFirst
  <2> QED
    BY <1>3, <2>1, <2>2
<1> QED
  BY <1>5, <1>6

------------------------------------------------------------------------------
(* A path of any image: its components between the version and the last    *)
(* two are the image, whatever they are called.                            *)
THEOREM RequestIsRouted ==
  ASSUME NEW Component, NEW image \in Seq(Component), image # <<>>,
         NEW method, NEW kind, NEW last \in Component,
         <<"v2">> \in Component, <<kind>> \in Component,
         NEW forwards, NEW rules, NEW stored
  PROVE  ServeHTTP(method, <<<<"v2">>>> \o image \o <<<<kind>>, last>>, forwards, rules, stored) =
           IF method \notin {"GET", "HEAD"} THEN Error("UNSUPPORTED")
           ELSE CASE kind = "blobs" -> blobs(image, last, forwards, stored)
                  [] kind = "manifests" -> manifests(image, last, forwards, rules)
                  [] OTHER -> Error("NAME_UNKNOWN")
<1> DEFINE a == <<<<"v2">>>>
           b == <<<<kind>>, last>>
           front == a \o image
           path == front \o b
           n == Len(path)
<1>1. /\ a \in Seq(Component) /\ Len(a) = 1 /\ a[1] = <<"v2">>
      /\ b \in Seq(Component) /\ Len(b) = 2 /\ b[1] = <<kind>> /\ b[2] = last
  OBVIOUS
<1> HIDE DEF a, b
<1>2. Len(image) \in Nat \ {0}
  OBVIOUS
<1>3. /\ front \in Seq(Component) /\ Len(front) = 1 + Len(image) /\ front[1] = <<"v2">>
  <2>1. /\ a \o image \in Seq(Component) /\ Len(a \o image) = Len(a) + Len(image)
        /\ \A i \in 1 .. Len(a) + Len(image) :
             (a \o image)[i] = IF i <= Len(a) THEN a[i] ELSE image[i - Len(a)]
    BY <1>1, ConcatProperties
  <2> QED
    BY <1>1, <1>2, <2>1
<1>4. SubSeq(front, 2, Len(front)) = image
  <2> DEFINE m == Len(front)
  <2>1. m \in Len(a) + 1 .. Len(a) + Len(image) /\ 2 \in Len(a) + 1 .. Len(a) + Len(image)
    BY <1>1, <1>2, <1>3
  <2>2. 2 - Len(a) = 1 /\ m - Len(a) = Len(image)
    BY <1>1, <1>2, <1>3
  <2> HIDE DEF m
  <2>3. SubSeq(a \o image, 2, m) = SubSeq(image, 2 - Len(a), m - Len(a))
    BY <1>1, <2>1, SubSeqOfConcat2
  <2> QED
    BY <2>2, <2>3, SubSeqFull DEF m
<1> HIDE DEF front
<1>5. /\ n = Len(image) + 3 /\ path[1] = <<"v2">>
      /\ path[n - 1] = <<kind>> /\ path[n] = last
  <2>1. /\ Len(front \o b) = Len(front) + Len(b)
        /\ \A i \in 1 .. Len(front) + Len(b) :
             (front \o b)[i] = IF i <= Len(front) THEN front[i] ELSE b[i - Len(front)]
    BY <1>1, <1>3, ConcatProperties
  <2> QED
    BY <1>1, <1>2, <1>3, <2>1
<1>6. SubSeq(path, 2, n - 2) = image
  <2>1. SubSeq(front \o b, 2, Len(front)) = SubSeq(front, 2, Len(front))
    <3>1. 2 \in 1 .. Len(front) + 1 /\ Len(front) \in 2 - 1 .. Len(front)
      BY <1>2, <1>3
    <3> QED
      BY <1>1, <1>3, <3>1, SubSeqOfConcat1
  <2>2. n - 2 = Len(front)
    BY <1>2, <1>3, <1>5
  <2> QED
    BY <1>4, <2>1, <2>2
<1>7. path # <<<<"v2">>, <<>>>>
  <2>1. n # 2
    BY <1>2, <1>5
  <2> HIDE DEF path
  <2> QED
    BY <2>1
<1> HIDE DEF path, n
<1>8. ServeHTTP(method, path, forwards, rules, stored) =
        IF method \notin {"GET", "HEAD"} THEN Error("UNSUPPORTED")
        ELSE CASE path[n - 1] = <<"blobs">> -> blobs(image, last, forwards, stored)
               [] path[n - 1] = <<"manifests">> -> manifests(image, last, forwards, rules)
               [] OTHER -> Error("NAME_UNKNOWN")
  <2>1. ~(n < 2) /\ ~(n < 3)
    BY <1>2, <1>5
  <2>2. ServeHTTP(method, path, forwards, rules, stored) =
          IF n < 2 \/ path[1] # <<"v2">> THEN Error("NAME_UNKNOWN")
          ELSE IF method \notin {"GET", "HEAD"} THEN Error("UNSUPPORTED")
          ELSE IF path = <<<<"v2">>, <<>>>> THEN To("version", <<>>, <<>>, {})
          ELSE IF n < 3 THEN Error("NAME_UNKNOWN")
          ELSE CASE path[n - 1] = <<"blobs">> -> blobs(SubSeq(path, 2, n - 2), path[n], forwards, stored)
                 [] path[n - 1] = <<"manifests">> -> manifests(SubSeq(path, 2, n - 2), path[n], forwards, rules)
                 [] OTHER -> Error("NAME_UNKNOWN")
    BY Zenon DEF ServeHTTP, n
  <2> QED
    BY <1>5, <1>6, <1>7, <2>1, <2>2
<1>9. /\ path[n - 1] = <<"blobs">> <=> kind = "blobs"
      /\ path[n - 1] = <<"manifests">> <=> kind = "manifests"
  BY <1>5
<1>10. ServeHTTP(method, path, forwards, rules, stored) =
        IF method \notin {"GET", "HEAD"} THEN Error("UNSUPPORTED")
        ELSE CASE kind = "blobs" -> blobs(image, last, forwards, stored)
               [] kind = "manifests" -> manifests(image, last, forwards, rules)
               [] OTHER -> Error("NAME_UNKNOWN")
  BY <1>8, <1>9
<1> QED
  BY <1>10 DEF path, front, a, b

------------------------------------------------------------------------------
(* What the requests that are checked are made of. *)
LEMMA RefIs ==
  ASSUME NEW Char, NEW image \in Seq(Seq(Char)), NEW tag \in Seq(Char),
         "/" \in Char, Colon \in Char
  PROVE  /\ RefOf(image, tag) \in Seq(Char) /\ Len(RefOf(image, tag)) > 0
         /\ TextOf(RefOf(image, tag)) = RefOf(image, tag)
<1> DEFINE parts == [i \in DOMAIN image |-> IF i = 1 THEN image[i] ELSE <<"/">> \o image[i]]
           name == FlattenSeq(parts)
           ref == name \o <<Colon>> \o tag
<1>1. parts \in Seq(Seq(Char))
  <2>1. DOMAIN image = 1 .. Len(image) /\ Len(image) \in Nat
    OBVIOUS
  <2>2. ASSUME NEW i \in 1 .. Len(image) PROVE parts[i] \in Seq(Char)
    <3>1. image[i] \in Seq(Char) /\ <<"/">> \in Seq(Char)
      OBVIOUS
    <3>2. <<"/">> \o image[i] \in Seq(Char)
      BY <3>1
    <3> QED
      BY <2>1, <3>1, <3>2
  <2>3. parts = [i \in 1 .. Len(image) |-> parts[i]]
    BY <2>1
  <2> HIDE DEF parts
  <2> QED
    BY <2>1, <2>2, <2>3
<1> HIDE DEF parts
<1>2. name \in Seq(Char)
  BY <1>1, FlattenIs
<1>3. RefOf(image, tag) = ref
  BY Zenon DEF RefOf, Colon, parts
<1> HIDE DEF name
<1>4. /\ ref \in Seq(Char) /\ Len(ref) = Len(name) + 1 + Len(tag)
      /\ ref[Len(name) + 1] = Colon
  <2> DEFINE one == <<Colon>>  front == name \o one
  <2>1. one \in Seq(Char) /\ Len(one) = 1 /\ one[1] = Colon
    OBVIOUS
  <2> HIDE DEF one
  <2>2. front \in Seq(Char) /\ Len(front) = Len(name) + 1 /\ front[Len(name) + 1] = Colon
    <3>1. /\ name \o one \in Seq(Char) /\ Len(name \o one) = Len(name) + Len(one)
          /\ \A i \in 1 .. Len(name) + Len(one) :
               (name \o one)[i] = IF i <= Len(name) THEN name[i] ELSE one[i - Len(name)]
      BY <1>2, <2>1, ConcatProperties
    <3>2. Len(name) \in Nat
      BY <1>2
    <3> QED
      BY <2>1, <3>1, <3>2
  <2> HIDE DEF front
  <2>3. /\ front \o tag \in Seq(Char) /\ Len(front \o tag) = Len(front) + Len(tag)
        /\ \A i \in 1 .. Len(front) + Len(tag) :
             (front \o tag)[i] = IF i <= Len(front) THEN front[i] ELSE tag[i - Len(front)]
    BY <2>2, ConcatProperties
  <2>4. Len(name) \in Nat /\ Len(tag) \in Nat
    BY <1>2
  <2>5. ref = front \o tag
    BY DEF front, one
  <2> HIDE DEF ref
  <2> QED
    BY <2>2, <2>3, <2>4, <2>5
<1> HIDE DEF ref
<1>5. Len(name) \in Nat /\ Len(tag) \in Nat
  BY <1>2
<1>6. Len(ref) > 0 /\ Len(name) + 1 \in DOMAIN ref
  BY <1>4, <1>5
<1>7. TextOf(ref) = ref
  BY <1>4, <1>6 DEF TextOf
<1> QED
  BY <1>3, <1>4, <1>6, <1>7

(* The requests that are checked. *)
Plain == {"a", "v2", "blobs", "manifests", "l", "sha256:", "d", "/", Colon}

Letters == Plain \cup {"n", Opening, Closing} \cup {Latest[i] : i \in DOMAIN Latest}

LEMMA PlainIsFree == ASSUME NEW s \in Seq(Plain) PROVE Free(s, Opening)
<1>1. Opening \notin Plain
  BY Zenon DEF Opening, Plain, Colon
<1>2. \A i \in DOMAIN s : s[i] \in Plain
  OBVIOUS
<1> QED
  BY <1>1, <1>2 DEF Free

LEMMA RuleTextsAre == RuleTexts \subseteq Seq(Letters)
<1> DEFINE Few == {Literal(<<"a">>), Literal(<<":">>), Literal(<<"a">> \o Latest), Wildcard(<<"n">>)}
<1>1. /\ "a" \in Letters /\ "n" \in Letters /\ Opening \in Letters /\ Closing \in Letters
      /\ Colon \in Letters
  BY DEF Letters, Plain
<1>2. Latest \in Seq(Letters)
  <2> DEFINE L == {Latest[i] : i \in DOMAIN Latest}
  <2>1. Latest \in Seq(L) /\ L \subseteq Letters
    BY LatestAssumption DEF Letters
  <2> HIDE DEF L
  <2> QED
    BY <2>1
<1>3. Literal(<<":">>) = Literal(<<Colon>>)
  BY Zenon DEF Colon
<1>4. ASSUME NEW n \in Seq(Letters)
      PROVE  Literal(n) \in SegmentsOf(Letters) /\ Wildcard(n) \in SegmentsOf(Letters)
  BY DEF Literal, Wildcard, SegmentsOf
<1>5. /\ <<"a">> \in Seq(Letters) /\ <<Colon>> \in Seq(Letters)
      /\ <<"n">> \in Seq(Letters) /\ <<"a">> \o Latest \in Seq(Letters)
  BY <1>1, <1>2
<1>6. Few \subseteq SegmentsOf(Letters)
  BY <1>3, <1>4, <1>5
<1> HIDE DEF Few
<1>7. ASSUME NEW p \in Strings(Few, 1, 3) PROVE Text(p) \in Seq(Letters)
  <2>1. PICK n \in 1 .. 3 : p \in [1 .. n -> Few]
    BY DEF Strings
  <2>2. p \in Seq(SegmentsOf(Letters))
    BY <1>6, <2>1
  <2> QED
    BY <1>1, <2>2, TextIs
<1> QED
  BY <1>7 DEF RuleTexts, Few

LEMMA RequestIs ==
  ASSUME NEW i \in ClientRequests
  PROVE  /\ i.image \in Seq(Seq(Plain)) /\ i.image # <<>>
         /\ i.last \in Seq(Plain) /\ Len(i.last) > 0
         /\ i.others \in SUBSET Seq(Letters)
         /\ i.kind \in {"blobs", "manifests", "tags"} /\ i.method \in {"GET", "PUT", "HEAD"}
         /\ i.forwards \in BOOLEAN /\ i.named \in BOOLEAN
<1> DEFINE Names == {<<"a">>, <<"v2">>, <<"blobs">>, <<"manifests">>}
           Lasts == {<<"l">>, <<"blobs">>, <<"manifests">>, <<"sha256:", "d">>}
           Ones == {{}} \cup {{t} : t \in RuleTexts}
           Pairs == {{t, u} : t, u \in RuleTexts}
           One == [method : {"GET", "PUT"}, kind : {"blobs", "manifests", "tags"},
                   image : Strings(Names, 1, 2), last : Lasts,
                   forwards : BOOLEAN, named : BOOLEAN, others : Ones]
           Two == [method : {"HEAD"}, kind : {"manifests"}, image : {<<<<"a">>>>}, last : {<<"l">>},
                   forwards : BOOLEAN, named : {TRUE}, others : Pairs]
<1>1. {"a", "v2", "blobs", "manifests", "l", "sha256:", "d"} \subseteq Plain
  BY DEF Plain
<1>2. /\ Names \subseteq Seq(Plain)
      /\ \A l \in Lasts : l \in Seq(Plain) /\ Len(l) > 0
  BY <1>1
<1>3. <<<<"a">>>> \in Seq(Seq(Plain)) /\ <<<<"a">>>> # <<>>
  BY <1>2
<1>4. ASSUME NEW image \in Strings(Names, 1, 2) PROVE image \in Seq(Seq(Plain)) /\ image # <<>>
  <2> HIDE DEF Names
  <2>1. PICK n \in 1 .. 2 : image \in [1 .. n -> Names]
    BY DEF Strings
  <2>2. image \in [1 .. n -> Seq(Plain)] /\ Len(image) = n /\ n \in Nat /\ n # 0
    BY <1>2, <2>1
  <2> QED
    BY <2>2
<1>5. Ones \subseteq SUBSET Seq(Letters) /\ Pairs \subseteq SUBSET Seq(Letters)
  BY RuleTextsAre
<1>6. <<"l">> \in Lasts
  OBVIOUS
<1>7. i \in One \/ i \in Two
  <2>1. ClientRequests = One \cup Two
    BY DEF ClientRequests
  <2> HIDE DEF One, Two
  <2> QED
    BY <2>1
<1> HIDE DEF Names, Lasts, Ones, Pairs
<1>8. CASE i \in One
  <2>1. /\ i.image \in Strings(Names, 1, 2) /\ i.last \in Lasts /\ i.others \in Ones
        /\ i.kind \in {"blobs", "manifests", "tags"} /\ i.method \in {"GET", "PUT", "HEAD"}
        /\ i.forwards \in BOOLEAN /\ i.named \in BOOLEAN
    BY <1>8
  <2> QED
    BY <1>2, <1>4, <1>5, <2>1
<1>9. CASE i \in Two
  <2>1. /\ i.image = <<<<"a">>>> /\ i.last = <<"l">> /\ i.others \in Pairs
        /\ i.kind \in {"blobs", "manifests", "tags"} /\ i.method \in {"GET", "PUT", "HEAD"}
        /\ i.forwards \in BOOLEAN /\ i.named \in BOOLEAN
    BY <1>9
  <2> QED
    BY <1>2, <1>3, <1>5, <1>6, <2>1
<1> QED
  BY <1>7, <1>8, <1>9

Routed(i) ==
  LET path == <<<<"v2">>>> \o i.image \o <<<<i.kind>>, i.last>>
      own == IF i.named THEN {RefOf(i.image, i.last)} ELSE {}
      stored == i.last[1] = "sha256:" IN
  ServeHTTP(i.method, path, i.forwards, own \cup i.others, stored)

RoutedIs ==
  call = "route" => input \in ClientRequests /\ output \in {<<>>, <<Routed(input)>>}

(* What a request of a tag is given. *)
LEMMA TagIsGiven ==
  ASSUME NEW i \in ClientRequests, NEW rules,
         rules = (IF i.named THEN {RefOf(i.image, i.last)} ELSE {}) \cup i.others
  PROVE  LET ref == RefOf(i.image, i.last)
             taken == RuleTaken(rules, ref) IN
         i.named => taken # {} /\ \A r \in taken : r = ref \/ r \o Latest = ref
<1> DEFINE ref == RefOf(i.image, i.last)
<1> SUFFICES ASSUME i.named
             PROVE  /\ RuleTaken(rules, ref) # {}
                    /\ \A r \in RuleTaken(rules, ref) : r = ref \/ r \o Latest = ref
  OBVIOUS
<1>1. /\ i.image \in Seq(Seq(Plain)) /\ i.last \in Seq(Plain) /\ i.others \in SUBSET Seq(Letters)
  BY RequestIs
<1>2. "/" \in Plain /\ Colon \in Plain /\ Plain \subseteq Letters
  BY DEF Plain, Letters
<1>3. ref \in Seq(Plain) /\ Len(ref) > 0 /\ TextOf(ref) = ref
  BY <1>1, <1>2, RefIs
<1> HIDE DEF ref
<1>4. ref \in Seq(Letters) /\ Free(ref, Opening)
  BY <1>2, <1>3, PlainIsFree
<1>5. rules \in SUBSET Seq(Letters) /\ ref \in rules
  BY <1>1, <1>4 DEF ref
<1>6. Latest \in Seq(Letters)
  <2> DEFINE L == {Latest[k] : k \in DOMAIN Latest}
  <2>1. Latest \in Seq(L) /\ L \subseteq Letters
    BY LatestAssumption DEF Letters
  <2> HIDE DEF L
  <2> QED
    BY <2>1
<1>7. /\ ref \in RuleTaken(rules, ref)
      /\ \A r \in RuleTaken(rules, ref) : TextOf(r) = ref
  <2>1. ASSUME NEW R \in SUBSET Seq(Letters), NEW w \in R, w \in Seq(Letters), Len(w) > 0,
               Free(w, Opening), TextOf(w) = w
        PROVE  w \in RuleTaken(R, w) /\ \A r \in RuleTaken(R, w) : TextOf(r) = w
    BY <1>6, <2>1, NamedRuleIsTaken
  <2> QED
    BY <1>3, <1>4, <1>5, <2>1
<1> QED
  BY <1>7 DEF TextOf

LEMMA RoutedRight ==
  ASSUME NEW i \in ClientRequests, NEW out, out = Routed(i)
  PROVE  LET digest == i.last[1] = "sha256:"
             ref == RefOf(i.image, i.last)
             byTag == i.kind = "manifests" /\ ~digest
             handler ==
               CASE byTag -> <<"localManifests", "forwardManifest">>
                 [] i.kind = "blobs" -> <<"serveBlob", "forwardBlob">>
                 [] OTHER -> <<"serveManifest", "forwardManifestBlob">>
             refused == out.to \in {"NAME_UNKNOWN", "BLOB_UNKNOWN", "UNSUPPORTED"} IN
         /\ i.method # "PUT" /\ i.kind # "tags" /\ (digest \/ (byTag /\ i.named)) => ~refused
         /\ ~refused =>
              /\ out.image = i.image /\ out.last = i.last
              /\ out.to = handler[IF i.forwards THEN 2 ELSE 1]
              /\ byTag /\ i.named =>
                   \A r \in out.rules : r = ref \/ r \o Latest = ref
<1> DEFINE digest == i.last[1] = "sha256:"
           ref == RefOf(i.image, i.last)
           rules == (IF i.named THEN {ref} ELSE {}) \cup i.others
           taken == RuleTaken(rules, ref)
<1>1. /\ i.image \in Seq(Seq(Plain)) /\ i.image # <<>>
      /\ i.last \in Seq(Plain) /\ Len(i.last) > 0
      /\ i.kind \in {"blobs", "manifests", "tags"} /\ i.method \in {"GET", "PUT", "HEAD"}
      /\ i.forwards \in BOOLEAN
  BY RequestIs
<1>2. i.named => taken # {} /\ \A r \in taken : r = ref \/ r \o Latest = ref
  BY TagIsGiven
<1>3. HasPrefix(i.last, 0, <<"sha256:">>) <=> digest
  <2> DEFINE last == i.last  p == <<"sha256:">>
  <2>1. SubSeq(last, 1, 1) = <<last[1]>> /\ Len(last) \in Nat /\ Len(last) >= 1
    <3>1. last \in Seq(Plain) /\ Len(last) \in Nat /\ 1 \in 1 .. Len(last)
      BY <1>1
    <3> HIDE DEF last
    <3>2. SubSeq(last, 1, 1) = <<last[1]>> \o SubSeq(last, 2, 1)
      BY <3>1, SubSeqRecursiveFirst
    <3>3. SubSeq(last, 2, 1) = <<>> /\ last[1] \in Plain
      BY <3>1, SubSeqEmpty
    <3>4. <<last[1]>> \o <<>> = <<last[1]>>
      <4>1. <<last[1]>> \in Seq(Plain)
        BY <3>3
      <4> QED
        BY <4>1, ConcatEmptySeq
    <3>5. SubSeq(last, 1, 1) = <<last[1]>>
      BY Zenon, <3>2, <3>3, <3>4
    <3>6. Len(last) >= 1
      BY <3>1
    <3> QED
      BY <3>1, <3>5, <3>6
  <2>2. Len(p) = 1 /\ 0 + Len(p) = 1 /\ 0 + 1 = 1
    OBVIOUS
  <2> HIDE DEF last
  <2>3. HasPrefix(last, 0, p) <=> SubSeq(last, 1, 1) = p
    BY <2>1, <2>2 DEF HasPrefix
  <2> QED
    BY <2>1, <2>3 DEF last
<1>4. out = IF i.method \notin {"GET", "HEAD"} THEN Error("UNSUPPORTED")
            ELSE CASE i.kind = "blobs" -> blobs(i.image, i.last, i.forwards, digest)
                   [] i.kind = "manifests" -> manifests(i.image, i.last, i.forwards, rules)
                   [] OTHER -> Error("NAME_UNKNOWN")
  <2> DEFINE C == Seq(Plain) \cup {<<"v2">>, <<i.kind>>}
  <2>1. i.image \in Seq(C) /\ i.last \in C /\ <<"v2">> \in C /\ <<i.kind>> \in C
    BY <1>1
  <2>2. out = ServeHTTP(i.method, <<<<"v2">>>> \o i.image \o <<<<i.kind>>, i.last>>,
                        i.forwards, rules, digest)
    BY DEF Routed
  <2> HIDE DEF C, rules, digest
  <2> QED
    BY <1>1, <2>1, <2>2, RequestIsRouted
<1> HIDE DEF taken, rules, digest, ref
<1>5. CASE i.method \notin {"GET", "HEAD"} \/ i.kind = "tags"
  <2>1. out.to \in {"NAME_UNKNOWN", "BLOB_UNKNOWN", "UNSUPPORTED"}
    BY <1>4, <1>5 DEF Error, To
  <2> QED
    BY <1>1, <1>5, <2>1
<1>6. CASE i.method \in {"GET", "HEAD"} /\ i.kind = "blobs"
  <2>1. out = blobs(i.image, i.last, i.forwards, digest)
    BY <1>4, <1>6
  <2>2. CASE i.forwards
    <3>1. out = To("forwardBlob", i.image, i.last, {})
      BY <2>1, <2>2 DEF blobs
    <3> QED
      BY <1>6, <2>2, <3>1 DEF To, digest, ref
  <2>3. CASE ~i.forwards /\ digest
    <3>1. out = To("serveBlob", i.image, i.last, {})
      BY <2>1, <2>3 DEF blobs
    <3> QED
      BY <1>6, <2>3, <3>1 DEF To, digest, ref
  <2>4. CASE ~i.forwards /\ ~digest
    <3>1. out = Error("BLOB_UNKNOWN")
      BY <2>1, <2>4 DEF blobs
    <3> QED
      BY <1>6, <2>4, <3>1 DEF To, Error, digest, ref
  <2> QED
    BY <1>1, <2>2, <2>3, <2>4
<1>7. CASE i.method \in {"GET", "HEAD"} /\ i.kind = "manifests"
  <2>1. out = manifests(i.image, i.last, i.forwards, rules)
    BY <1>4, <1>7
  <2>2. CASE digest
    <3>1. out = To(IF i.forwards THEN "forwardManifestBlob" ELSE "serveManifest", i.image, i.last, {})
      BY <1>3, <2>1, <2>2 DEF manifests
    <3> QED
      BY <1>7, <2>2, <3>1 DEF To, digest, ref
  <2>3. CASE ~digest /\ taken = {}
    <3>1. out = Error("NAME_UNKNOWN")
      BY <1>3, <2>1, <2>3 DEF manifests, taken, ref
    <3> QED
      BY <1>2, <1>7, <2>3, <3>1 DEF To, Error, digest, ref
  <2>4. CASE ~digest /\ taken # {}
    <3>1. out = To(IF i.forwards THEN "forwardManifest" ELSE "localManifests", i.image, i.last, taken)
      BY <1>3, <2>1, <2>4 DEF manifests, taken, ref
    <3> QED
      BY <1>2, <1>7, <2>4, <3>1 DEF To, digest, ref
  <2> QED
    BY <2>2, <2>3, <2>4
<1> QED
  BY <1>1, <1>5, <1>6, <1>7

(* The requests that are checked, whatever Latest is. *)
THEOREM RequestsMeetTheirRules == AllSpec => []RequestMeetsItsRule
<1>1. AllInit => RoutedIs
  BY DEF AllInit, Init, RoutedIs
<1>2. RoutedIs /\ [AllNext]_vars => RoutedIs'
  <2> SUFFICES ASSUME RoutedIs, [AllNext]_vars PROVE RoutedIs'
    OBVIOUS
  <2>1. CASE Route
    BY <2>1 DEF Route, Called, RoutedIs, Routed
  <2>2. CASE Next \/ Substitute \/ Pack \/ PackModel \/ Start
    BY <2>2 DEF RoutedIs, Next, Parse, Match, Order, Substitute, Pack, PackModel, Start, Called
  <2>3. CASE UNCHANGED vars
    BY <2>3 DEF RoutedIs, vars
  <2> QED
    BY <2>1, <2>2, <2>3 DEF AllNext
<1>3. RoutedIs => RequestMeetsItsRule
  <2> SUFFICES ASSUME RoutedIs, call = "route", output # <<>> PROVE RequestMeetsItsRule
    BY DEF RequestMeetsItsRule
  <2>1. input \in ClientRequests /\ output[1] = Routed(input)
    BY DEF RoutedIs
  <2> QED
    BY <2>1, RoutedRight DEF RequestMeetsItsRule
<1> QED
  BY <1>1, <1>2, <1>3, PTL DEF AllSpec

------------------------------------------------------------------------------
(* The templates that are checked. *)
TemplateChars == {"a", "b", "c", "GOOS", "GOARCH", "linux", "amd64", "arm64"}

LEMMA SubstitutionIs ==
  ASSUME NEW i \in Substitutions
  PROVE  /\ i.template \in Seq(SegmentsOf(TemplateChars))
         /\ i.params \in ValuesOf(TemplateChars) /\ IsFiniteSet(DOMAIN i.params)
         /\ i.platforms \in Seq(PlatformsOf(TemplateChars))
<1> DEFINE C == TemplateChars
           Few == {Literal(<<"a">>), Literal(<<"b">>), Wildcard(<<"a">>), Wildcard(<<"c">>),
                   Wildcard(GOOS), Wildcard(GOARCH)}
<1>1. /\ <<>> \in Seq(C) /\ <<"a">> \in Seq(C) /\ <<"b">> \in Seq(C) /\ <<"c">> \in Seq(C)
      /\ <<"b", "a">> \in Seq(C) /\ GOOS \in Seq(C) /\ GOARCH \in Seq(C)
      /\ <<"linux">> \in Seq(C) /\ <<"amd64">> \in Seq(C) /\ <<"arm64">> \in Seq(C)
  BY DEF TemplateChars, GOOS, GOARCH
<1> HIDE DEF C
<1>2. /\ i.template \in Templates /\ i.params \in Values
      /\ i.platforms \in IndexOf \cup {<<NoPlatform>>}
  BY DEF Substitutions
<1>3. i.template \in Seq(SegmentsOf(C))
  <2>1. \A n \in Seq(C) : Literal(n) \in SegmentsOf(C) /\ Wildcard(n) \in SegmentsOf(C)
    BY DEF Literal, Wildcard, SegmentsOf
  <2>2. Few \subseteq SegmentsOf(C)
    BY <1>1, <2>1
  <2>3. i.template \in Strings(Few, 1, MaxTemplate)
    BY <1>2 DEF Templates
  <2> HIDE DEF Few
  <2>4. PICK n \in 1 .. MaxTemplate : i.template \in [1 .. n -> Few]
    BY <2>3 DEF Strings
  <2>5. n \in Nat /\ i.template \in [1 .. n -> SegmentsOf(C)]
    BY <2>2, <2>4
  <2> QED
    BY <2>5
<1>4. i.params \in ValuesOf(C) /\ IsFiniteSet(DOMAIN i.params)
  <2>1. PICK D \in SUBSET {<<"a">>, GOOS} : i.params \in [D -> {<<>>, <<"b", "a">>}]
    BY <1>2 DEF Values
  <2>2. D \in SUBSET Seq(C) /\ {<<>>, <<"b", "a">>} \subseteq Seq(C)
    BY <1>1
  <2>3. i.params \in [D -> Seq(C)]
    BY <2>1, <2>2
  <2>4. IsFiniteSet(D)
    <3>1. IsFiniteSet({<<"a">>}) /\ {<<"a">>} \cup {GOOS} = {<<"a">>, GOOS}
      BY FS_Singleton
    <3>2. IsFiniteSet({<<"a">>} \cup {GOOS})
      BY <3>1, FS_AddElement
    <3>3. IsFiniteSet({<<"a">>, GOOS})
      BY <3>1, <3>2
    <3> QED
      BY <3>3, FS_Subset
  <2> QED
    BY <2>1, <2>2, <2>3, <2>4 DEF ValuesOf
<1>5. i.platforms \in Seq(PlatformsOf(C))
  <2>1. CASE i.platforms = <<NoPlatform>>
    <3>1. NoPlatform \in PlatformsOf(C)
      BY <1>1 DEF NoPlatform, PlatformsOf
    <3> QED
      BY <2>1, <3>1
  <2>2. CASE i.platforms \in IndexOf
    <3> DEFINE Two == {[OS |-> <<"linux">>, Architecture |-> <<a>>] : a \in {"amd64", "arm64"}}
    <3>1. Two \subseteq PlatformsOf(C)
      <4>1. ASSUME NEW a \in {"amd64", "arm64"}
            PROVE  [OS |-> <<"linux">>, Architecture |-> <<a>>] \in PlatformsOf(C)
        <5>1. a = "amd64" \/ a = "arm64"
          OBVIOUS
        <5>2. <<a>> \in Seq(C)
          BY <1>1, <5>1
        <5> QED
          BY <1>1, <5>2 DEF PlatformsOf
      <4> QED
        BY <4>1
    <3>2. i.platforms \in Strings(Two, 1, 2)
      BY <2>2 DEF IndexOf
    <3> HIDE DEF Two
    <3>3. PICK n \in 1 .. 2 : i.platforms \in [1 .. n -> Two]
      BY <3>2 DEF Strings
    <3>4. n \in Nat /\ i.platforms \in [1 .. n -> PlatformsOf(C)]
      BY <3>1, <3>3
    <3> QED
      BY <3>4
  <2> QED
    BY <1>2, <2>1, <2>2
<1> QED
  BY <1>3, <1>4, <1>5 DEF C

Substituted ==
  call = "substitute" =>
    /\ input \in Substitutions
    /\ output # <<>> =>
         output = <<BuildWith(input.params, Text(input.template), <<Text(input.template)>>,
                              input.platforms)>>

(* The templates that are checked, of any number of segments: the base     *)
(* image and every mutate are the template with the values in place.       *)
THEOREM TemplatesMeanOneThing == AllSpec => []TemplatesExpand
<1>1. AllInit => Substituted
  BY DEF AllInit, Init, Substituted
<1>2. Substituted /\ [AllNext]_vars => Substituted'
  <2> SUFFICES ASSUME Substituted, [AllNext]_vars PROVE Substituted'
    OBVIOUS
  <2>1. CASE Substitute
    BY <2>1 DEF Substitute, Called, Substituted
  <2>2. CASE Next \/ PackModel \/ Pack \/ Start \/ Route
    BY <2>2 DEF Substituted, Next, Parse, Match, Order, PackModel, Pack, Start, Route, Called
  <2>3. CASE UNCHANGED vars
    BY <2>3 DEF Substituted, vars
  <2> QED
    BY <2>1, <2>2, <2>3 DEF AllNext
<1>3. Substituted => TemplatesExpand
  <2> SUFFICES ASSUME Substituted, call = "substitute", output # <<>> PROVE TemplatesExpand
    BY DEF TemplatesExpand
  <2> DEFINE text == Text(input.template)  mutates == <<text>>
             built == BuildWith(input.params, text, mutates, input.platforms)
  <2>1. input \in Substitutions /\ output = <<built>>
    BY DEF Substituted
  <2>2. output[1] = built
    <3> HIDE DEF built
    <3> QED
      BY <2>1
  <2>3. /\ input.template \in Seq(SegmentsOf(TemplateChars))
        /\ input.params \in ValuesOf(TemplateChars) /\ IsFiniteSet(DOMAIN input.params)
        /\ input.platforms \in Seq(PlatformsOf(TemplateChars))
    BY <2>1, SubstitutionIs
  <2>4. Opening \notin TemplateChars /\ Closing \notin TemplateChars
    BY Zenon DEF TemplateChars, Opening, Closing
  <2>5. /\ "linux" \in TemplateChars /\ "amd64" \in TemplateChars /\ "GOOS" \in TemplateChars
        /\ "GOARCH" \in TemplateChars
    BY DEF TemplateChars
  <2>6. IsFilled(built, input.template, input.params, input.platforms)
    BY <2>3, <2>4, <2>5, TemplatesAreFilled
  <2>7. DOMAIN input.platforms = 1 .. Len(input.platforms)
    BY <2>3
  <2> HIDE DEF built
  <2> QED
    BY <2>2, <2>6, <2>7 DEF TemplatesExpand, IsFilled, GivenTo
<1> QED
  BY <1>1, <1>2, <1>3, PTL DEF AllSpec

------------------------------------------------------------------------------
(* Config files. What is read of documents Doc. *)
ReadsOf(Doc) == [ok : BOOLEAN, images : Seq(Doc), registries : Seq(Doc)]

LEMMA Concatenated ==
  ASSUME NEW S, NEW s \in Seq(S), NEW t \in Seq(S)
  PROVE  s \o t \in Seq(S)
OBVIOUS

LEMMA DecodeIs ==
  ASSUME NEW Doc, NEW read \in ReadsOf(Doc), NEW doc \in Doc
  PROVE  Decode(read, doc) \in ReadsOf(Doc)
<1> DEFINE One(kind) == IF doc.kind = kind THEN <<doc>> ELSE <<>>
<1>1. \A kind : One(kind) \in Seq(Doc)
  OBVIOUS
<1>2. read.images \in Seq(Doc) /\ read.registries \in Seq(Doc)
  BY DEF ReadsOf
<1> HIDE DEF One
<1>3. read.images \o One("image") \in Seq(Doc) /\ read.registries \o One("registry") \in Seq(Doc)
  BY <1>1, <1>2, Concatenated
<1>4. Refused \in ReadsOf(Doc)
  BY DEF Refused, ReadsOf
<1> QED
  BY <1>3, <1>4, Zenon DEF Decode, ReadsOf, One

LEMMA LoadFileIs ==
  ASSUME NEW Doc, NEW read \in ReadsOf(Doc), NEW file, loadConfig(file.docs) \in ReadsOf(Doc)
  PROVE  LoadFile(read, file) \in ReadsOf(Doc)
<1> DEFINE one == IF file.opens THEN loadConfig(file.docs) ELSE Refused
<1>1. Refused \in ReadsOf(Doc)
  BY DEF Refused, ReadsOf
<1>2. one \in ReadsOf(Doc)
  BY <1>1
<1> HIDE DEF one
<1>3. /\ read.images \in Seq(Doc) /\ read.registries \in Seq(Doc)
      /\ one.images \in Seq(Doc) /\ one.registries \in Seq(Doc)
  BY <1>2 DEF ReadsOf
<1>4. read.images \o one.images \in Seq(Doc) /\ read.registries \o one.registries \in Seq(Doc)
  BY <1>3, Concatenated
<1>5. [ok |-> TRUE, images |-> read.images \o one.images,
       registries |-> read.registries \o one.registries] \in ReadsOf(Doc)
  BY <1>4 DEF ReadsOf
<1> QED
  BY <1>1, <1>5 DEF LoadFile, one

(* The largest of the first numbers, and what is left without it. *)
LEMMA LargestOf ==
  ASSUME NEW n \in Nat, NEW i \in 1 .. n
  PROVE  /\ (1 .. i) \in SUBSET (1 .. n) /\ 1 .. i # {} /\ (1 .. i) \ {i} = 1 .. i - 1
         /\ Max(1 .. i) = i
<1>1. (1 .. i) \in SUBSET (1 .. n) /\ 1 .. i # {} /\ (1 .. i) \ {i} = 1 .. i - 1
  <2>1. 1 \in 1 .. i
    OBVIOUS
  <2>2. \A m \in 1 .. i : m \in 1 .. n
    OBVIOUS
  <2>3. \A m : m \in (1 .. i) \ {i} <=> m \in 1 .. i - 1
    OBVIOUS
  <2> QED
    BY <2>1, <2>2, <2>3
<1>2. Max(1 .. i) = i
  <2> DEFINE max == Max(1 .. i)
  <2>1. max \in 1 .. i /\ \A m \in 1 .. i : m <= max
    BY <1>1, MaxIs
  <2> HIDE DEF max
  <2>2. max = i
    BY <2>1
  <2> QED
    BY <2>2 DEF max
<1> QED
  BY <1>1, <1>2

(* What loadConfig folds with. *)
DecodesTo(iter, docs) ==
  iter = [S \in SUBSET DOMAIN docs |->
            IF S = {} THEN Nothing ELSE Decode(iter[S \ {Max(S)}], docs[Max(S)])]

LEMMA LoadConfigFolds ==
  ASSUME NEW docs
  PROVE  loadConfig(docs) = LET iter == CHOOSE f : DecodesTo(f, docs) IN iter[DOMAIN docs]
BY Zenon DEF loadConfig, FoldLeft, MapThenFoldSet, DecodesTo

(* The same for loadConfigFile. *)
LoadsTo(iter, files) ==
  iter = [S \in SUBSET DOMAIN files |->
            IF S = {} THEN Nothing ELSE LoadFile(iter[S \ {Max(S)}], files[Max(S)])]

LEMMA LoadConfigFileFolds ==
  ASSUME NEW files
  PROVE  loadConfigFile(files) = LET iter == CHOOSE f : LoadsTo(f, files) IN iter[DOMAIN files]
BY Zenon DEF loadConfigFile, FoldLeft, MapThenFoldSet, LoadsTo

LEMMA DecodeSteps ==
  ASSUME NEW Doc, NEW docs \in Seq(Doc)
  PROVE  \E r : /\ r[0] = Nothing
                /\ \A i \in 0 .. Len(docs) : r[i] \in ReadsOf(Doc)
                /\ \A i \in 1 .. Len(docs) : r[i] = Decode(r[i - 1], docs[i])
                /\ loadConfig(docs) = r[Len(docs)]
<1> DEFINE n == Len(docs)
           X == ReadsOf(Doc)
           step == [i \in 1 .. n |-> [read \in X |-> Decode(read, docs[i])]]
           iter == CHOOSE f : DecodesTo(f, docs)
<1>1. n \in Nat /\ DOMAIN docs = 1 .. n /\ \A i \in 1 .. n : docs[i] \in Doc
  OBVIOUS
<1> HIDE DEF n, X
<1>2. \A i \in 1 .. n : \A read \in X : Decode(read, docs[i]) \in X
  BY <1>1, DecodeIs DEF X
<1>3. step \in [1 .. n -> [X -> X]]
  BY <1>2
<1>4. \A i \in 1 .. n : \A read \in X : step[i][read] = Decode(read, docs[i])
  OBVIOUS
<1> HIDE DEF step
<1>5. Nothing \in X
  BY DEF X, Nothing, ReadsOf
<1>6. PICK F : IsFold(F, n, X, Nothing, step)
  BY <1>1, <1>3, <1>5, FoldExists
<1>7. ASSUME NEW S \in SUBSET (1 .. n)
      PROVE  F[S] = IF S = {} THEN Nothing ELSE Decode(F[S \ {Max(S)}], docs[Max(S)])
  <2>1. S # {} => Max(S) \in 1 .. n
    <3>1. S # {} => Max(S) \in S
      BY <1>1, MaxIs
    <3> QED
      BY <3>1
  <2>2. F[S \ {Max(S)}] \in X
    <3>1. S \ {Max(S)} \in SUBSET (1 .. n)
      OBVIOUS
    <3> QED
      BY <1>6, <3>1 DEF IsFold
  <2>3. S # {} => step[Max(S)][F[S \ {Max(S)}]] = Decode(F[S \ {Max(S)}], docs[Max(S)])
    BY <1>4, <2>1, <2>2
  <2> QED
    BY <1>6, <2>3 DEF IsFold
<1>8. DecodesTo(F, docs)
  <2>1. F = [S \in SUBSET (1 .. n) |->
               IF S = {} THEN Nothing ELSE Decode(F[S \ {Max(S)}], docs[Max(S)])]
    BY <1>6, <1>7 DEF IsFold
  <2> QED
    BY <1>1, <2>1, Zenon DEF DecodesTo
<1>9. DecodesTo(iter, docs)
  BY <1>8, Zenon
<1> HIDE DEF iter
<1>10. \A S \in SUBSET (1 .. n) :
         iter[S] = IF S = {} THEN Nothing ELSE Decode(iter[S \ {Max(S)}], docs[Max(S)])
  BY <1>1, <1>9, Zenon DEF DecodesTo
<1> DEFINE r == [i \in 0 .. n |-> iter[1 .. i]]
<1>11. r[0] = Nothing
  <2>1. 1 .. 0 = {} /\ 0 \in 0 .. n
    BY <1>1
  <2> QED
    BY <1>10, <2>1
<1>12. \A i \in 1 .. n : r[i] = Decode(r[i - 1], docs[i])
  <2> TAKE i \in 1 .. n
  <2>1. i \in 0 .. n /\ i - 1 \in 0 .. n
    BY <1>1
  <2>2. /\ (1 .. i) \in SUBSET (1 .. n) /\ 1 .. i # {} /\ (1 .. i) \ {i} = 1 .. i - 1
        /\ Max(1 .. i) = i
    BY <1>1, LargestOf
  <2>3. iter[1 .. i] = Decode(iter[1 .. i - 1], docs[i])
    BY <1>10, <2>2
  <2> QED
    BY <2>1, <2>3
<1>13. loadConfig(docs) = r[n]
  BY <1>1, LoadConfigFolds DEF iter
<1> HIDE DEF r
<1> DEFINE T == {i \in 0 .. n : r[i] \in X}
<1>14. 0 \in T
  BY <1>1, <1>5, <1>11
<1>15. \A i \in 1 .. n : i - 1 \in T => i \in T
  BY <1>1, <1>2, <1>12
<1>16. \A i \in 0 .. n : r[i] \in X
  <2> HIDE DEF T
  <2>1. 0 .. n \subseteq T
    BY <1>1, <1>14, <1>15, Upwards
  <2> QED
    BY <2>1 DEF T
<1> QED
  BY <1>11, <1>12, <1>13, <1>16 DEF n, X

LEMMA LoadSteps ==
  ASSUME NEW Doc, NEW Conf, NEW files \in Seq(Conf),
         \A file \in Conf : loadConfig(file.docs) \in ReadsOf(Doc)
  PROVE  \E r : /\ r[0] = Nothing
                /\ \A i \in 0 .. Len(files) : r[i] \in ReadsOf(Doc)
                /\ \A i \in 1 .. Len(files) : r[i] = LoadFile(r[i - 1], files[i])
                /\ loadConfigFile(files) = r[Len(files)]
<1> DEFINE n == Len(files)
           X == ReadsOf(Doc)
           step == [i \in 1 .. n |-> [read \in X |-> LoadFile(read, files[i])]]
           iter == CHOOSE f : LoadsTo(f, files)
<1>1. n \in Nat /\ DOMAIN files = 1 .. n /\ \A i \in 1 .. n : files[i] \in Conf
  OBVIOUS
<1> HIDE DEF n, X
<1>2. \A i \in 1 .. n : \A read \in X : LoadFile(read, files[i]) \in X
  BY <1>1, LoadFileIs DEF X
<1>3. step \in [1 .. n -> [X -> X]]
  BY <1>2
<1>4. \A i \in 1 .. n : \A read \in X : step[i][read] = LoadFile(read, files[i])
  OBVIOUS
<1> HIDE DEF step
<1>5. Nothing \in X
  BY DEF X, Nothing, ReadsOf
<1>6. PICK F : IsFold(F, n, X, Nothing, step)
  BY <1>1, <1>3, <1>5, FoldExists
<1>7. ASSUME NEW S \in SUBSET (1 .. n)
      PROVE  F[S] = IF S = {} THEN Nothing ELSE LoadFile(F[S \ {Max(S)}], files[Max(S)])
  <2>1. S # {} => Max(S) \in 1 .. n
    <3>1. S # {} => Max(S) \in S
      BY <1>1, MaxIs
    <3> QED
      BY <3>1
  <2>2. F[S \ {Max(S)}] \in X
    <3>1. S \ {Max(S)} \in SUBSET (1 .. n)
      OBVIOUS
    <3> QED
      BY <1>6, <3>1 DEF IsFold
  <2>3. S # {} => step[Max(S)][F[S \ {Max(S)}]] = LoadFile(F[S \ {Max(S)}], files[Max(S)])
    BY <1>4, <2>1, <2>2
  <2> QED
    BY <1>6, <2>3 DEF IsFold
<1>8. LoadsTo(F, files)
  <2>1. F = [S \in SUBSET (1 .. n) |->
               IF S = {} THEN Nothing ELSE LoadFile(F[S \ {Max(S)}], files[Max(S)])]
    BY <1>6, <1>7 DEF IsFold
  <2> QED
    BY <1>1, <2>1, Zenon DEF LoadsTo
<1>9. LoadsTo(iter, files)
  BY <1>8, Zenon
<1> HIDE DEF iter
<1>10. \A S \in SUBSET (1 .. n) :
         iter[S] = IF S = {} THEN Nothing ELSE LoadFile(iter[S \ {Max(S)}], files[Max(S)])
  BY <1>1, <1>9, Zenon DEF LoadsTo
<1> DEFINE r == [i \in 0 .. n |-> iter[1 .. i]]
<1>11. r[0] = Nothing
  <2>1. 1 .. 0 = {} /\ 0 \in 0 .. n
    BY <1>1
  <2> QED
    BY <1>10, <2>1
<1>12. \A i \in 1 .. n : r[i] = LoadFile(r[i - 1], files[i])
  <2> TAKE i \in 1 .. n
  <2>1. i \in 0 .. n /\ i - 1 \in 0 .. n
    BY <1>1
  <2>2. /\ (1 .. i) \in SUBSET (1 .. n) /\ 1 .. i # {} /\ (1 .. i) \ {i} = 1 .. i - 1
        /\ Max(1 .. i) = i
    BY <1>1, LargestOf
  <2>3. iter[1 .. i] = LoadFile(iter[1 .. i - 1], files[i])
    BY <1>10, <2>2
  <2> QED
    BY <2>1, <2>3
<1>13. loadConfigFile(files) = r[n]
  BY <1>1, LoadConfigFileFolds DEF iter
<1> HIDE DEF r
<1> DEFINE T == {i \in 0 .. n : r[i] \in X}
<1>14. 0 \in T
  BY <1>1, <1>5, <1>11
<1>15. \A i \in 1 .. n : i - 1 \in T => i \in T
  BY <1>1, <1>2, <1>12
<1>16. \A i \in 0 .. n : r[i] \in X
  <2> HIDE DEF T
  <2>1. 0 .. n \subseteq T
    BY <1>1, <1>14, <1>15, Upwards
  <2> QED
    BY <2>1 DEF T
<1> QED
  BY <1>11, <1>12, <1>13, <1>16 DEF n, X

(* Everything of a kind among the first documents, in their order. *)
Places(f, list, kind, docs, k) ==
  /\ f \in [1 .. Len(list) -> 1 .. k]
  /\ \A i \in 1 .. Len(list) : list[i] = docs[f[i]] /\ docs[f[i]].kind = kind
  /\ \A i, j \in 1 .. Len(list) : i < j => f[i] < f[j]
  /\ \A p \in 1 .. k : docs[p].kind = kind => \E i \in 1 .. Len(list) : f[i] = p

Listed(list, kind, docs, k) == \E f : Places(f, list, kind, docs, k)

LEMMA ListedNext ==
  ASSUME NEW Doc, NEW docs, NEW list \in Seq(Doc), NEW kind, NEW k \in Nat \ {0},
         Listed(list, kind, docs, k - 1)
  PROVE  Listed(list \o (IF docs[k].kind = kind THEN <<docs[k]>> ELSE <<>>), kind, docs, k)
<1>1. PICK f : Places(f, list, kind, docs, k - 1)
  BY DEF Listed
<1>2. /\ f \in [1 .. Len(list) -> 1 .. k - 1]
      /\ \A i \in 1 .. Len(list) : list[i] = docs[f[i]] /\ docs[f[i]].kind = kind
      /\ \A i, j \in 1 .. Len(list) : i < j => f[i] < f[j]
      /\ \A p \in 1 .. k - 1 : docs[p].kind = kind => \E i \in 1 .. Len(list) : f[i] = p
  BY <1>1 DEF Places
<1>3. Len(list) \in Nat
  OBVIOUS
<1>4. CASE docs[k].kind # kind
  <2>1. list \o <<>> = list
    OBVIOUS
  <2>2. f \in [1 .. Len(list) -> 1 .. k]
    BY <1>2
  <2>3. \A p \in 1 .. k : p \in 1 .. k - 1 \/ p = k
    OBVIOUS
  <2>4. Places(f, list, kind, docs, k)
    BY <1>2, <1>4, <2>2, <2>3 DEF Places
  <2> QED
    BY <1>4, <2>1, <2>4 DEF Listed
<1>5. CASE docs[k].kind = kind
  <2> DEFINE n == Len(list)
             more == list \o <<docs[k]>>
             g == [i \in 1 .. n + 1 |-> IF i = n + 1 THEN k ELSE f[i]]
  <2>1. /\ Len(more) = n + 1 /\ more[n + 1] = docs[k]
        /\ \A i \in 1 .. n : more[i] = list[i]
    <3>1. Len(<<docs[k]>>) = 1 /\ <<docs[k]>>[1] = docs[k]
      OBVIOUS
    <3> QED
      BY <1>3, <3>1
  <2> HIDE DEF more
  <2>2. \A i \in 1 .. n + 1 : i \in 1 .. n \/ i = n + 1
    BY <1>3
  <2>3. /\ g[n + 1] = k
        /\ \A i \in 1 .. n : g[i] = f[i] /\ f[i] \in 1 .. k - 1
    BY <1>2, <1>3
  <2>4. g \in [1 .. n + 1 -> 1 .. k]
    BY <1>2, <1>3
  <2> HIDE DEF g, n
  <2>5. \A i \in 1 .. n + 1 : more[i] = docs[g[i]] /\ docs[g[i]].kind = kind
    BY <1>2, <1>5, <2>1, <2>2, <2>3 DEF n
  <2>6. \A i, j \in 1 .. n + 1 : i < j => g[i] < g[j]
    <3> SUFFICES ASSUME NEW i \in 1 .. n + 1, NEW j \in 1 .. n + 1, i < j PROVE g[i] < g[j]
      OBVIOUS
    <3>1. i \in 1 .. n
      BY <1>3, <2>2 DEF n
    <3>2. CASE j = n + 1
      BY <2>3, <3>1, <3>2
    <3>3. CASE j \in 1 .. n
      <4>1. f[i] < f[j]
        BY <1>2, <3>1, <3>3 DEF n
      <4> QED
        BY <2>3, <3>1, <3>3, <4>1
    <3> QED
      BY <2>2, <3>2, <3>3
  <2>7. \A p \in 1 .. k : docs[p].kind = kind => \E i \in 1 .. n + 1 : g[i] = p
    <3> SUFFICES ASSUME NEW p \in 1 .. k, docs[p].kind = kind PROVE \E i \in 1 .. n + 1 : g[i] = p
      OBVIOUS
    <3>1. n + 1 \in 1 .. n + 1 /\ \A i \in 1 .. n : i \in 1 .. n + 1
      BY <1>3 DEF n
    <3>2. CASE p = k
      BY <2>3, <3>1, <3>2
    <3>3. CASE p \in 1 .. k - 1
      <4>1. PICK i \in 1 .. n : f[i] = p
        BY <1>2, <3>3 DEF n
      <4> QED
        BY <2>3, <3>1, <4>1
    <3> QED
      BY <3>2, <3>3
  <2>8. Places(g, more, kind, docs, k)
    BY <2>1, <2>4, <2>5, <2>6, <2>7 DEF Places
  <2> QED
    BY <1>5, <2>8 DEF Listed, more
<1> QED
  BY <1>4, <1>5

(* A config file is read to the end, or refused for one of its documents. *)
Bad == {"malformed", "foreign"}

ReadOf(read, docs, k) ==
  /\ read.ok <=> \A i \in 1 .. k : docs[i].kind \notin Bad
  /\ read.ok => /\ Listed(read.images, "image", docs, k)
                /\ Listed(read.registries, "registry", docs, k)

LEMMA ConfigIsRead ==
  ASSUME NEW Doc, NEW docs \in Seq(Doc)
  PROVE  loadConfig(docs) \in ReadsOf(Doc) /\ ReadOf(loadConfig(docs), docs, Len(docs))
<1> DEFINE n == Len(docs)
<1>1. n \in Nat
  OBVIOUS
<1>2. PICK r : /\ r[0] = Nothing
               /\ \A i \in 0 .. n : r[i] \in ReadsOf(Doc)
               /\ \A i \in 1 .. n : r[i] = Decode(r[i - 1], docs[i])
               /\ loadConfig(docs) = r[n]
  BY DecodeSteps
<1> DEFINE T == {i \in 0 .. n : ReadOf(r[i], docs, i)}
<1> HIDE DEF n
<1>3. 0 \in T
  <2>1. Places(<<>>, <<>>, "image", docs, 0) /\ Places(<<>>, <<>>, "registry", docs, 0)
    <3>1. Len(<<>>) = 0 /\ 1 .. 0 = {} /\ <<>> \in [1 .. 0 -> 1 .. 0]
      OBVIOUS
    <3> QED
      BY <3>1 DEF Places
  <2>2. Listed(<<>>, "image", docs, 0) /\ Listed(<<>>, "registry", docs, 0)
    BY <2>1 DEF Listed
  <2>3. \A i \in 1 .. 0 : docs[i].kind \notin Bad
    OBVIOUS
  <2>4. ReadOf(Nothing, docs, 0)
    BY <2>2, <2>3 DEF ReadOf, Nothing
  <2> QED
    BY <1>1, <1>2, <2>4
<1>4. ASSUME NEW k \in 1 .. n, k - 1 \in T PROVE k \in T
  <2> DEFINE was == r[k - 1]  doc == docs[k]
             One(kind) == IF docs[k].kind = kind THEN <<docs[k]>> ELSE <<>>
  <2>1. k \in 0 .. n /\ k - 1 \in 0 .. n /\ k \in Nat \ {0}
    BY <1>1
  <2>2. ReadOf(was, docs, k - 1) /\ was \in ReadsOf(Doc)
    BY <1>2, <1>4, <2>1
  <2>3. r[k] = Decode(was, doc)
    BY <1>2
  <2> HIDE DEF was
  <2>4. \A i \in 1 .. k : i \in 1 .. k - 1 \/ i = k
    BY <2>1
  <2>5. \A i \in 1 .. k - 1 : i \in 1 .. k
    BY <2>1
  <2>6. k \in 1 .. k
    BY <2>1
  <2>7. CASE ~was.ok \/ doc.kind \in Bad
    <3>1. Decode(was, doc) = Refused
      BY <2>7 DEF Decode, Bad
    <3>2. ~Refused.ok
      BY DEF Refused
    <3>3. ~ \A i \in 1 .. k : docs[i].kind \notin Bad
      BY <2>2, <2>5, <2>6, <2>7 DEF ReadOf
    <3>4. ReadOf(r[k], docs, k)
      BY <2>3, <3>1, <3>2, <3>3 DEF ReadOf
    <3> QED
      BY <2>1, <3>4
  <2>8. CASE was.ok /\ doc.kind \notin Bad
    <3>1. r[k] = [ok |-> TRUE, images |-> was.images \o One("image"),
                  registries |-> was.registries \o One("registry")]
      BY <2>3, <2>8, Zenon DEF Decode, Bad
    <3>2. was.images \in Seq(Doc) /\ was.registries \in Seq(Doc)
      BY <2>2 DEF ReadsOf
    <3>3. Listed(was.images, "image", docs, k - 1) /\ Listed(was.registries, "registry", docs, k - 1)
      BY <2>2, <2>8 DEF ReadOf
    <3>4. Listed(was.images \o One("image"), "image", docs, k)
      BY <2>1, <3>2, <3>3, ListedNext
    <3>5. Listed(was.registries \o One("registry"), "registry", docs, k)
      BY <2>1, <3>2, <3>3, ListedNext
    <3>6. \A i \in 1 .. k : docs[i].kind \notin Bad
      BY <2>2, <2>4, <2>8 DEF ReadOf
    <3> HIDE DEF One
    <3>7. ReadOf(r[k], docs, k)
      BY <3>1, <3>4, <3>5, <3>6 DEF ReadOf
    <3> QED
      BY <2>1, <3>7
  <2> QED
    BY <2>7, <2>8
<1>5. n \in T
  <2> HIDE DEF T
  <2>1. 0 .. n \subseteq T
    BY <1>1, <1>3, <1>4, Upwards
  <2> QED
    BY <1>1, <2>1
<1>6. ReadOf(r[n], docs, n) /\ r[n] \in ReadsOf(Doc)
  BY <1>1, <1>2, <1>5
<1> QED
  BY <1>2, <1>6 DEF n

(* Everything of a kind in the first files, in the order of files and of   *)
(* what is in them.                                                        *)
Spots(f, g, list, kind, files, k) ==
  /\ f \in [1 .. Len(list) -> 1 .. k]
  /\ \A i \in 1 .. Len(list) :
       /\ g[i] \in DOMAIN files[f[i]].docs
       /\ list[i] = files[f[i]].docs[g[i]]
       /\ files[f[i]].docs[g[i]].kind = kind
  /\ \A i, j \in 1 .. Len(list) : i < j => f[i] < f[j] \/ (f[i] = f[j] /\ g[i] < g[j])
  /\ \A p \in 1 .. k : \A q \in DOMAIN files[p].docs : files[p].docs[q].kind = kind =>
       \E i \in 1 .. Len(list) : f[i] = p /\ g[i] = q

ListedIn(list, kind, files, k) == \E f, g : Spots(f, g, list, kind, files, k)

LEMMA Joined ==
  ASSUME NEW S, NEW s \in Seq(S), NEW t \in Seq(S)
  PROVE  /\ Len(s) \in Nat /\ Len(t) \in Nat /\ Len(s \o t) = Len(s) + Len(t)
         /\ \A i \in 1 .. Len(s) : (s \o t)[i] = s[i]
         /\ \A i \in 1 .. Len(t) : (s \o t)[Len(s) + i] = t[i]
OBVIOUS

LEMMA ListedInNext ==
  ASSUME NEW Doc, NEW files, NEW list \in Seq(Doc), NEW kind, NEW k \in Nat \ {0},
         NEW more \in Seq(Doc), ListedIn(list, kind, files, k - 1),
         files[k].docs \in Seq(Doc), Listed(more, kind, files[k].docs, Len(files[k].docs))
  PROVE  ListedIn(list \o more, kind, files, k)
<1> DEFINE n == Len(list)  m == Len(more)  docs == files[k].docs
           all == list \o more
<1>1. PICK f, g : Spots(f, g, list, kind, files, k - 1)
  BY DEF ListedIn
<1>2. PICK h : Places(h, more, kind, docs, Len(docs))
  BY DEF Listed
<1>3. /\ n \in Nat /\ m \in Nat /\ Len(all) = n + m
      /\ \A i \in 1 .. n : all[i] = list[i]
      /\ \A i \in 1 .. m : all[n + i] = more[i]
  BY Joined
<1>4. /\ f \in [1 .. n -> 1 .. k - 1]
      /\ \A i \in 1 .. n : /\ g[i] \in DOMAIN files[f[i]].docs
                           /\ list[i] = files[f[i]].docs[g[i]]
                           /\ files[f[i]].docs[g[i]].kind = kind
      /\ \A i, j \in 1 .. n : i < j => f[i] < f[j] \/ (f[i] = f[j] /\ g[i] < g[j])
      /\ \A p \in 1 .. k - 1 : \A q \in DOMAIN files[p].docs : files[p].docs[q].kind = kind =>
           \E i \in 1 .. n : f[i] = p /\ g[i] = q
  BY <1>1 DEF Spots
<1>5. /\ h \in [1 .. m -> 1 .. Len(docs)]
      /\ \A i \in 1 .. m : more[i] = docs[h[i]] /\ docs[h[i]].kind = kind
      /\ \A i, j \in 1 .. m : i < j => h[i] < h[j]
      /\ \A p \in 1 .. Len(docs) : docs[p].kind = kind => \E i \in 1 .. m : h[i] = p
  BY <1>2 DEF Places
<1>6. DOMAIN docs = 1 .. Len(docs)
  OBVIOUS
<1> HIDE DEF n, m, all, docs
<1> DEFINE F == [i \in 1 .. n + m |-> IF i <= n THEN f[i] ELSE k]
           G == [i \in 1 .. n + m |-> IF i <= n THEN g[i] ELSE h[i - n]]
<1>7. \A i \in 1 .. n : /\ i \in 1 .. n + m /\ F[i] = f[i] /\ G[i] = g[i]
                        /\ f[i] \in 1 .. k - 1
  BY <1>3, <1>4
<1>8. \A i \in 1 .. m : n + i \in 1 .. n + m /\ F[n + i] = k /\ G[n + i] = h[i]
  <2> TAKE i \in 1 .. m
  <2> DEFINE x == n + i
  <2>1. x \in 1 .. n + m /\ ~(x <= n) /\ x - n = i
    BY <1>3
  <2>2. \A y \in 1 .. n + m : ~(y <= n) => F[y] = k /\ G[y] = h[y - n]
    OBVIOUS
  <2> HIDE DEF F, G, x
  <2>3. x \in 1 .. n + m /\ F[x] = k /\ G[x] = h[i]
    BY <2>1, <2>2
  <2> QED
    BY <2>3 DEF x
<1>9. F \in [1 .. n + m -> 1 .. k]
  BY <1>3, <1>4
<1> HIDE DEF F, G
<1>10. \A i \in 1 .. n + m : i \in 1 .. n \/ \E j \in 1 .. m : i = n + j
  <2> TAKE i \in 1 .. n + m
  <2> DEFINE rest == i - n
  <2>1. i \in 1 .. n \/ (rest \in 1 .. m /\ i = n + rest)
    BY <1>3
  <2> HIDE DEF rest
  <2> QED
    BY <2>1, Zenon
<1>11. ASSUME NEW i \in 1 .. n + m
       PROVE  /\ G[i] \in DOMAIN files[F[i]].docs
              /\ all[i] = files[F[i]].docs[G[i]]
              /\ files[F[i]].docs[G[i]].kind = kind
  <2>1. CASE i \in 1 .. n
    BY <1>3, <1>4, <1>7, <2>1
  <2>2. ASSUME NEW j \in 1 .. m, i = n + j
        PROVE  /\ G[i] \in DOMAIN files[F[i]].docs
               /\ all[i] = files[F[i]].docs[G[i]]
               /\ files[F[i]].docs[G[i]].kind = kind
    <3>1. F[i] = k /\ G[i] = h[j] /\ all[i] = more[j]
      BY <1>3, <1>8, <2>2
    <3>2. h[j] \in DOMAIN docs /\ more[j] = docs[h[j]] /\ docs[h[j]].kind = kind
      BY <1>5, <1>6
    <3> QED
      BY <3>1, <3>2 DEF docs
  <2> QED
    BY <1>10, <2>1, <2>2
<1>12. ASSUME NEW i \in 1 .. n + m, NEW j \in 1 .. n + m, i < j
       PROVE  F[i] < F[j] \/ (F[i] = F[j] /\ G[i] < G[j])
  <2>1. CASE j \in 1 .. n
    <3>1. i \in 1 .. n
      BY <1>3, <1>12, <2>1
    <3>2. f[i] < f[j] \/ (f[i] = f[j] /\ g[i] < g[j])
      BY <1>4, <1>12, <2>1, <3>1
    <3> QED
      BY <1>7, <2>1, <3>1, <3>2
  <2>2. ASSUME NEW b \in 1 .. m, j = n + b, i \in 1 .. n
        PROVE  F[i] < F[j]
    BY <1>7, <1>8, <2>2
  <2>3. ASSUME NEW a \in 1 .. m, NEW b \in 1 .. m, i = n + a, j = n + b
        PROVE  F[i] = F[j] /\ G[i] < G[j]
    <3>1. a < b
      BY <1>3, <1>12, <2>3
    <3>2. h[a] < h[b]
      BY <1>5, <3>1
    <3> QED
      BY <1>8, <2>3, <3>2
  <2> QED
    BY <1>10, <2>1, <2>2, <2>3
<1>13. ASSUME NEW p \in 1 .. k, NEW q \in DOMAIN files[p].docs, files[p].docs[q].kind = kind
       PROVE  \E i \in 1 .. n + m : F[i] = p /\ G[i] = q
  <2>1. CASE p \in 1 .. k - 1
    <3>1. PICK i \in 1 .. n : f[i] = p /\ g[i] = q
      BY <1>4, <1>13, <2>1
    <3> QED
      BY <1>7, <3>1
  <2>2. CASE p = k
    <3>1. q \in 1 .. Len(docs) /\ docs[q].kind = kind
      BY <1>6, <1>13, <2>2 DEF docs
    <3>2. PICK i \in 1 .. m : h[i] = q
      BY <1>5, <3>1
    <3> QED
      BY <1>8, <2>2, <3>2
  <2> QED
    BY <2>1, <2>2
<1>14. Spots(F, G, all, kind, files, k)
  BY <1>3, <1>9, <1>11, <1>12, <1>13 DEF Spots
<1> QED
  BY <1>14 DEF ListedIn, all

(* So are the files, one after the other. *)
FilesOfConfig(Doc) == [opens : BOOLEAN, docs : Seq(Doc)]

ReadIn(read, files, k) ==
  /\ read.ok <=> \A i \in 1 .. k : /\ files[i].opens
                                   /\ \A j \in DOMAIN files[i].docs : files[i].docs[j].kind \notin Bad
  /\ read.ok => /\ ListedIn(read.images, "image", files, k)
                /\ ListedIn(read.registries, "registry", files, k)

LEMMA FilesAreRead ==
  ASSUME NEW Doc, NEW files \in Seq(FilesOfConfig(Doc))
  PROVE  /\ loadConfigFile(files) \in ReadsOf(Doc)
         /\ ReadIn(loadConfigFile(files), files, Len(files))
<1> DEFINE n == Len(files)
<1>1. /\ n \in Nat
      /\ \A i \in 1 .. n : files[i].opens \in BOOLEAN /\ files[i].docs \in Seq(Doc)
  <2>1. n \in Nat /\ \A i \in 1 .. n : files[i] \in FilesOfConfig(Doc)
    OBVIOUS
  <2> QED
    BY <2>1 DEF FilesOfConfig
<1>2. \A file \in FilesOfConfig(Doc) : loadConfig(file.docs) \in ReadsOf(Doc)
  BY ConfigIsRead DEF FilesOfConfig
<1>3. PICK r : /\ r[0] = Nothing
               /\ \A i \in 0 .. n : r[i] \in ReadsOf(Doc)
               /\ \A i \in 1 .. n : r[i] = LoadFile(r[i - 1], files[i])
               /\ loadConfigFile(files) = r[n]
  BY <1>2, LoadSteps
<1> DEFINE T == {i \in 0 .. n : ReadIn(r[i], files, i)}
<1> HIDE DEF n
<1>4. 0 \in T
  <2>1. \A kind : Spots(<<>>, <<>>, <<>>, kind, files, 0)
    <3>1. Len(<<>>) = 0 /\ 1 .. 0 = {} /\ <<>> \in [1 .. 0 -> 1 .. 0]
      OBVIOUS
    <3> QED
      BY <3>1 DEF Spots
  <2>2. ListedIn(<<>>, "image", files, 0) /\ ListedIn(<<>>, "registry", files, 0)
    BY <2>1 DEF ListedIn
  <2>3. 1 .. 0 = {}
    OBVIOUS
  <2>4. ReadIn(Nothing, files, 0)
    BY <2>2, <2>3 DEF ReadIn, Nothing
  <2> QED
    BY <1>1, <1>3, <2>4
<1>5. ASSUME NEW k \in 1 .. n, k - 1 \in T PROVE k \in T
  <2> DEFINE was == r[k - 1]  file == files[k]  read == loadConfig(file.docs)
             Well(i) == /\ files[i].opens
                        /\ \A j \in DOMAIN files[i].docs : files[i].docs[j].kind \notin Bad
  <2>1. k \in 0 .. n /\ k - 1 \in 0 .. n /\ k \in Nat \ {0}
    BY <1>1
  <2>2. ReadIn(was, files, k - 1) /\ was \in ReadsOf(Doc)
    BY <1>3, <1>5, <2>1
  <2>3. r[k] = LoadFile(was, file)
    BY <1>3
  <2>4. file.opens \in BOOLEAN /\ file.docs \in Seq(Doc)
    BY <1>1
  <2>5. read \in ReadsOf(Doc) /\ ReadOf(read, file.docs, Len(file.docs))
    BY <2>4, ConfigIsRead
  <2>6. DOMAIN file.docs = 1 .. Len(file.docs)
    BY <2>4
  <2> HIDE DEF was, read, file
  <2>7. \A i \in 1 .. k : i \in 1 .. k - 1 \/ i = k
    BY <2>1
  <2>8. /\ \A i \in 1 .. k - 1 : i \in 1 .. k
        /\ k \in 1 .. k
    BY <2>1
  <2>9. was.ok <=> \A i \in 1 .. k - 1 : Well(i)
    BY <2>2 DEF ReadIn
  <2>10. file.opens /\ read.ok <=> Well(k)
    BY <2>5, <2>6 DEF ReadOf, file
  <2> HIDE DEF Well
  <2>11. (\A i \in 1 .. k : Well(i)) <=> was.ok /\ file.opens /\ read.ok
    BY <2>7, <2>8, <2>9, <2>10
  <2>12. CASE ~(was.ok /\ file.opens /\ read.ok)
    <3>1. r[k] = Refused
      BY <2>3, <2>12 DEF LoadFile, read, Refused
    <3>2. ~r[k].ok
      BY <3>1 DEF Refused
    <3>3. ReadIn(r[k], files, k)
      BY <2>11, <2>12, <3>2 DEF ReadIn, Well
    <3> QED
      BY <2>1, <3>3
  <2>13. CASE was.ok /\ file.opens /\ read.ok
    <3>1. r[k] = [ok |-> TRUE, images |-> was.images \o read.images,
                  registries |-> was.registries \o read.registries]
      BY <2>3, <2>13 DEF LoadFile, read
    <3>2. /\ was.images \in Seq(Doc) /\ was.registries \in Seq(Doc)
          /\ read.images \in Seq(Doc) /\ read.registries \in Seq(Doc)
      BY <2>2, <2>5 DEF ReadsOf
    <3>3. ListedIn(was.images, "image", files, k - 1) /\ ListedIn(was.registries, "registry", files, k - 1)
      BY <2>2, <2>13 DEF ReadIn
    <3>4. /\ Listed(read.images, "image", file.docs, Len(file.docs))
          /\ Listed(read.registries, "registry", file.docs, Len(file.docs))
      BY <2>5, <2>13 DEF ReadOf
    <3>5. ListedIn(was.images \o read.images, "image", files, k)
      BY <2>1, <2>4, <3>2, <3>3, <3>4, ListedInNext DEF file
    <3>6. ListedIn(was.registries \o read.registries, "registry", files, k)
      BY <2>1, <2>4, <3>2, <3>3, <3>4, ListedInNext DEF file
    <3>7. ReadIn(r[k], files, k)
      BY <2>11, <2>13, <3>1, <3>5, <3>6 DEF ReadIn, Well
    <3> QED
      BY <2>1, <3>7
  <2> QED
    BY <2>12, <2>13
<1>6. n \in T
  <2> HIDE DEF T
  <2>1. 0 .. n \subseteq T
    BY <1>1, <1>4, <1>5, Upwards
  <2> QED
    BY <1>1, <2>1
<1>7. ReadIn(r[n], files, n) /\ r[n] \in ReadsOf(Doc)
  BY <1>1, <1>3, <1>6
<1> QED
  BY <1>3, <1>7 DEF n

(* What is made of config files, read in any number and of any length.     *)
AddsUp(made, files, kubeconfig) ==
  LET at == UNION {{i} \X DOMAIN files[i].docs : i \in DOMAIN files}
      doc(p) == files[p[1]].docs[p[2]]
      after(q, p) == q[1] > p[1] \/ (q[1] = p[1] /\ q[2] > p[2])
      bad == \/ \E i \in DOMAIN files : ~files[i].opens
             \/ \E p \in at : doc(p).kind \in {"malformed", "foreign"}
      images == {p \in at : doc(p).kind = "image"}
      registries == {p \in at : doc(p).kind = "registry"} IN
  /\ made.serves <=> ~bad /\ kubeconfig # "bad"
  /\ made.serves =>
       /\ made.imageRules = {doc(p).spec : p \in images} \ {"garbled"}
       /\ DOMAIN made.registryRules = {doc(p).name : p \in registries}
       /\ \A p \in registries :
            (\E q \in registries : after(q, p) /\ doc(q).name = doc(p).name)
            \/ made.registryRules[doc(p).name] = doc(p).spec

(* Whatever documents there are, in any files: every image that parses is  *)
(* a rule, and of the registries of a name the last is in effect, unless a *)
(* bad document or file keeps the server from starting.                    *)
THEOREM ConfigAddsUp ==
  ASSUME NEW Doc, NEW files \in Seq(FilesOfConfig(Doc)), NEW kubeconfig, NEW inCluster
  PROVE  AddsUp(main(files, kubeconfig, inCluster), files, kubeconfig)
<1> DEFINE conf == loadConfigFile(files)  made == main(files, kubeconfig, inCluster)
           n == Len(files)
           at == UNION {{i} \X DOMAIN files[i].docs : i \in DOMAIN files}
           doc(p) == files[p[1]].docs[p[2]]
           after(q, p) == q[1] > p[1] \/ (q[1] = p[1] /\ q[2] > p[2])
           bad == \/ \E i \in DOMAIN files : ~files[i].opens
                  \/ \E p \in at : doc(p).kind \in {"malformed", "foreign"}
           of(kind) == {p \in at : doc(p).kind = kind}
<1>1. n \in Nat /\ DOMAIN files = 1 .. n /\ \A i \in 1 .. n : files[i].docs \in Seq(Doc)
  <2>1. n \in Nat /\ DOMAIN files = 1 .. n /\ \A i \in 1 .. n : files[i] \in FilesOfConfig(Doc)
    OBVIOUS
  <2> QED
    BY <2>1 DEF FilesOfConfig
<1>2. conf \in ReadsOf(Doc) /\ ReadIn(conf, files, n)
  BY FilesAreRead
<1>3. /\ \A i \in 1 .. n : \A j \in DOMAIN files[i].docs :
           <<i, j>> \in at /\ doc(<<i, j>>) = files[i].docs[j]
      /\ \A p \in at : /\ p[1] \in 1 .. n /\ p[2] \in DOMAIN files[p[1]].docs
                       /\ p = <<p[1], p[2]>>
  BY <1>1
<1> HIDE DEF conf, n, at, doc
<1>4. bad <=> ~conf.ok
  <2>1. conf.ok <=> \A i \in 1 .. n : /\ files[i].opens
                                      /\ \A j \in DOMAIN files[i].docs : files[i].docs[j].kind \notin Bad
    BY <1>2 DEF ReadIn
  <2>2. bad => ~conf.ok
    <3>1. ASSUME NEW p \in at, doc(p).kind \in Bad PROVE ~conf.ok
      <4>1. p[1] \in 1 .. n /\ p[2] \in DOMAIN files[p[1]].docs
        BY <1>3
      <4>2. files[p[1]].docs[p[2]].kind \in Bad
        BY <3>1 DEF doc
      <4> QED
        BY <2>1, <4>1, <4>2
    <3> QED
      BY <1>1, <2>1, <3>1 DEF Bad
  <2>3. ~conf.ok => bad
    <3>1. ASSUME NEW i \in 1 .. n, NEW j \in DOMAIN files[i].docs, files[i].docs[j].kind \in Bad
          PROVE  bad
      <4>1. <<i, j>> \in at /\ doc(<<i, j>>).kind \in Bad
        BY <1>3, <3>1
      <4> QED
        BY <4>1 DEF Bad
    <3> QED
      BY <1>1, <2>1, <3>1
  <2> QED
    BY <2>2, <2>3
<1>5. conf.ok => ListedIn(conf.images, "image", files, n) /\ ListedIn(conf.registries, "registry", files, n)
  BY <1>2 DEF ReadIn
<1>6. conf.images \in Seq(Doc) /\ conf.registries \in Seq(Doc)
  BY <1>2 DEF ReadsOf
<1>7. ASSUME conf.ok
      PROVE  WithImageConfig(conf.images) = {doc(p).spec : p \in of("image")} \ {"garbled"}
  <2> DEFINE list == conf.images
  <2>1. PICK f, g : Spots(f, g, list, "image", files, n)
    BY <1>5, <1>7 DEF ListedIn
  <2>2. /\ \A i \in 1 .. Len(list) : /\ f[i] \in 1 .. n /\ g[i] \in DOMAIN files[f[i]].docs
                                     /\ list[i] = files[f[i]].docs[g[i]]
                                     /\ files[f[i]].docs[g[i]].kind = "image"
        /\ \A p \in 1 .. n : \A q \in DOMAIN files[p].docs : files[p].docs[q].kind = "image" =>
             \E i \in 1 .. Len(list) : f[i] = p /\ g[i] = q
    BY <2>1 DEF Spots
  <2>3. DOMAIN list = 1 .. Len(list)
    BY <1>6
  <2> HIDE DEF list
  <2>4. \A i \in 1 .. Len(list) : <<f[i], g[i]>> \in of("image") /\ list[i] = doc(<<f[i], g[i]>>)
    BY <1>3, <2>2
  <2>5. ASSUME NEW p \in of("image") PROVE \E i \in 1 .. Len(list) : list[i] = doc(p)
    <3>1. /\ p[1] \in 1 .. n /\ p[2] \in DOMAIN files[p[1]].docs
          /\ files[p[1]].docs[p[2]].kind = "image" /\ doc(p) = files[p[1]].docs[p[2]]
      BY <1>3 DEF doc
    <3>2. PICK i \in 1 .. Len(list) : f[i] = p[1] /\ g[i] = p[2]
      BY <2>2, <3>1
    <3> QED
      BY <2>2, <3>1, <3>2
  <2> HIDE DEF of
  <2>6. Range(list) = {doc(p) : p \in of("image")}
    BY <2>3, <2>4, <2>5 DEF Range
  <2>7. {c.spec : c \in Range(list)} = {doc(p).spec : p \in of("image")}
    BY <2>6
  <2> QED
    BY <2>7 DEF WithImageConfig, list
<1>8. ASSUME conf.ok
      PROVE  LET rules == WithRegistryConfig(conf.registries) IN
             /\ DOMAIN rules = {doc(p).name : p \in of("registry")}
             /\ \A p \in of("registry") :
                  (\E q \in of("registry") : after(q, p) /\ doc(q).name = doc(p).name)
                  \/ rules[doc(p).name] = doc(p).spec
  <2> DEFINE list == conf.registries  m == Len(list)
             called(name) == {i \in 1 .. m : list[i].name = name}
             names == {c.name : c \in Range(list)}
             rules == [name \in names |-> list[Max(called(name))].spec]
  <2>1. PICK f, g : Spots(f, g, list, "registry", files, n)
    BY <1>5, <1>8 DEF ListedIn
  <2>2. /\ \A i \in 1 .. m : /\ f[i] \in 1 .. n /\ g[i] \in DOMAIN files[f[i]].docs
                             /\ list[i] = files[f[i]].docs[g[i]]
                             /\ files[f[i]].docs[g[i]].kind = "registry"
        /\ \A i, j \in 1 .. m : i < j => f[i] < f[j] \/ (f[i] = f[j] /\ g[i] < g[j])
        /\ \A p \in 1 .. n : \A q \in DOMAIN files[p].docs : files[p].docs[q].kind = "registry" =>
             \E i \in 1 .. m : f[i] = p /\ g[i] = q
    BY <2>1 DEF Spots
  <2>3. DOMAIN list = 1 .. m /\ m \in Nat
    BY <1>6
  <2>4. WithRegistryConfig(list) = rules
    BY <2>3 DEF WithRegistryConfig
  <2> HIDE DEF list, m
  <2>5. \A i \in 1 .. m : <<f[i], g[i]>> \in of("registry") /\ list[i] = doc(<<f[i], g[i]>>)
    BY <1>3, <2>2
  <2>6. ASSUME NEW p \in of("registry")
        PROVE  \E i \in 1 .. m : f[i] = p[1] /\ g[i] = p[2] /\ list[i] = doc(p)
    <3>1. /\ p[1] \in 1 .. n /\ p[2] \in DOMAIN files[p[1]].docs
          /\ files[p[1]].docs[p[2]].kind = "registry" /\ doc(p) = files[p[1]].docs[p[2]]
      BY <1>3 DEF doc
    <3>2. PICK i \in 1 .. m : f[i] = p[1] /\ g[i] = p[2]
      BY <2>2, <3>1
    <3> QED
      BY <2>2, <3>1, <3>2
  <2> HIDE DEF of
  <2>7. Range(list) = {doc(p) : p \in of("registry")}
    <3>1. \A i \in 1 .. m : \E p \in of("registry") : list[i] = doc(p)
      BY <2>5
    <3>2. \A p \in of("registry") : \E i \in 1 .. m : list[i] = doc(p)
      BY <2>6
    <3> QED
      BY <2>3, <3>1, <3>2 DEF Range
  <2>8. names = {doc(p).name : p \in of("registry")}
    BY <2>7
  <2>9. ASSUME NEW p \in of("registry"),
               ~ \E q \in of("registry") : after(q, p) /\ doc(q).name = doc(p).name
        PROVE  rules[doc(p).name] = doc(p).spec
    <3> DEFINE name == doc(p).name  last == Max(called(name))
    <3>1. PICK i \in 1 .. m : f[i] = p[1] /\ g[i] = p[2] /\ list[i] = doc(p)
      BY <2>6
    <3>2. i \in called(name) /\ called(name) \in SUBSET (1 .. m)
      BY <3>1
    <3>3. last \in called(name) /\ \A j \in called(name) : j <= last
      <4> HIDE DEF called
      <4> QED
        BY <2>3, <3>2, MaxIs
    <3> HIDE DEF last
    <3>4. last \in 1 .. m /\ list[last].name = name /\ i <= last
      BY <3>2, <3>3
    <3>5. ASSUME i < last PROVE FALSE
      <4> DEFINE q == <<f[last], g[last]>>
      <4>1. q \in of("registry") /\ doc(q).name = doc(p).name
        BY <2>5, <3>4
      <4>2. f[i] < f[last] \/ (f[i] = f[last] /\ g[i] < g[last])
        BY <2>2, <3>4, <3>5
      <4>3. q[1] = f[last] /\ q[2] = g[last]
        OBVIOUS
      <4> HIDE DEF q
      <4>4. after(q, p)
        BY <3>1, <4>2, <4>3
      <4> QED
        BY <2>9, <4>1, <4>4
    <3>6. last = i
      BY <3>4, <3>5
    <3>7. name \in names
      BY <2>8
    <3>8. rules[name] = list[last].spec
      BY <3>7 DEF last
    <3> QED
      BY <3>1, <3>6, <3>8
  <2> QED
    BY <2>4, <2>8, <2>9 DEF list
<1>9. CASE ~conf.ok \/ kubeconfig = "bad"
  <2>1. made = [serves |-> FALSE]
    BY <1>9, Zenon DEF main, conf
  <2>2. made.serves = FALSE
    BY <2>1
  <2> HIDE DEF made
  <2> QED
    BY <1>4, <1>9, <2>2 DEF AddsUp, at, doc, made
<1>10. CASE conf.ok /\ kubeconfig # "bad"
  <2>1. /\ made.serves = TRUE
        /\ made.imageRules = WithImageConfig(conf.images)
        /\ made.registryRules = WithRegistryConfig(conf.registries)
    BY <1>10 DEF main, conf
  <2> HIDE DEF made
  <2> QED
    BY <1>4, <1>7, <1>8, <1>10, <2>1, Zenon DEF AddsUp, at, doc, made
<1> QED
  BY <1>9, <1>10

Started ==
  call = "start" =>
    /\ input \in Startups
    /\ output # <<>> => output = <<main(input.files, input.kubeconfig, input.inCluster)>>

(* The config files that are checked, by the theorem for any. *)
THEOREM StartupsAddUp == AllSpec => []DocumentsAddUp
<1>1. AllInit => Started
  BY DEF AllInit, Init, Started
<1>2. Started /\ [AllNext]_vars => Started'
  <2> SUFFICES ASSUME Started, [AllNext]_vars PROVE Started'
    OBVIOUS
  <2>1. CASE Start
    BY <2>1 DEF Start, Called, Started
  <2>2. CASE Next \/ PackModel \/ Pack \/ Substitute \/ Route
    BY <2>2 DEF Started, Next, Parse, Match, Order, PackModel, Pack, Substitute, Route, Called
  <2>3. CASE UNCHANGED vars
    BY <2>3 DEF Started, vars
  <2> QED
    BY <2>1, <2>2, <2>3 DEF AllNext
<1>3. Started => DocumentsAddUp
  <2> SUFFICES ASSUME Started, call = "start", output # <<>> PROVE DocumentsAddUp
    BY Zenon DEF DocumentsAddUp
  <2> DEFINE made == main(input.files, input.kubeconfig, input.inCluster)
  <2>1. input \in Startups /\ output = <<made>>
    BY DEF Started
  <2>2. output[1] = made
    <3> HIDE DEF made
    <3> QED
      BY <2>1
  <2>3. PICK Doc : input.files \in Seq(FilesOfConfig(Doc))
    <3>1. ConfigFiles \subseteq FilesOfConfig(Documents)
      <4>1. <<>> \in Seq(Documents)
        OBVIOUS
      <4>2. ASSUME NEW docs \in Strings(Documents, 0, MaxDocuments) PROVE docs \in Seq(Documents)
        <5>1. PICK k \in 0 .. MaxDocuments : docs \in [1 .. k -> Documents]
          BY DEF Strings
        <5>2. k \in Nat
          OBVIOUS
        <5> QED
          BY <5>1, <5>2
      <4> QED
        BY <4>1, <4>2 DEF ConfigFiles, FilesOfConfig
    <3>2. input.files \in Strings(ConfigFiles, 0, 2)
      <4>1. input \in Startups
        BY <2>1
      <4> QED
        BY <4>1, Zenon DEF Startups
    <3>3. PICK k \in 0 .. 2 : input.files \in [1 .. k -> ConfigFiles]
      BY <3>2 DEF Strings
    <3>4. k \in Nat /\ input.files \in [1 .. k -> FilesOfConfig(Documents)]
      BY <3>1, <3>3
    <3>5. input.files \in Seq(FilesOfConfig(Documents))
      BY <3>4
    <3> QED
      BY <3>5
  <2>4. AddsUp(made, input.files, input.kubeconfig)
    BY <2>3, ConfigAddsUp
  <2> HIDE DEF made
  <2> QED
    BY <2>2, <2>4, Zenon DEF DocumentsAddUp, AddsUp
<1> QED
  BY <1>1, <1>2, <1>3, PTL DEF AllSpec

------------------------------------------------------------------------------
(* Directories: paths of names, which are numbers. *)
Paths == Seq(Nat)

LEMMA FrontIs ==
  ASSUME NEW S, NEW s \in Seq(S), NEW k \in 0 .. Len(s)
  PROVE  /\ SubSeq(s, 1, k) \in Seq(S) /\ Len(SubSeq(s, 1, k)) = k
         /\ \A j \in 1 .. k : SubSeq(s, 1, k)[j] = s[j]
OBVIOUS

LEMMA InFront ==
  ASSUME NEW p \in Paths, NEW q \in Paths
  PROVE  IsStrictPrefix(p, q) <=>
           Len(p) < Len(q) /\ \A j \in 1 .. Len(p) : p[j] = q[j]
<1>1. Len(p) \in Nat /\ Len(q) \in Nat /\ SubSeq(p, 1, Len(p)) = p
  BY DEF Paths
<1>2. ASSUME Len(p) <= Len(q)
      PROVE  (p = SubSeq(q, 1, Len(p))) <=> \A j \in 1 .. Len(p) : p[j] = q[j]
  <2> DEFINE t == SubSeq(q, 1, Len(p))
  <2>1. t \in Paths /\ Len(t) = Len(p) /\ \A j \in 1 .. Len(p) : t[j] = q[j]
    BY <1>1, <1>2 DEF Paths
  <2> HIDE DEF t
  <2>2. (\A j \in 1 .. Len(p) : p[j] = t[j]) => p = t
    BY <2>1, SeqEqual DEF Paths
  <2> QED
    BY <2>1, <2>2 DEF t
<1>3. ASSUME Len(p) = Len(q), \A j \in 1 .. Len(p) : p[j] = q[j] PROVE p = q
  BY <1>3, SeqEqual DEF Paths
<1> QED
  BY <1>1, <1>2, <1>3 DEF IsStrictPrefix, IsPrefix

(* The first place where two paths part. *)
PartsAt(p, q, i) ==
  /\ i \in 1 .. Len(q) /\ i <= Len(p) + 1
  /\ \A j \in 1 .. i - 1 : p[j] = q[j]
  /\ i = Len(p) + 1 \/ p[i] < q[i]

LEMMA BeforeIs ==
  ASSUME NEW p \in Paths, NEW q \in Paths
  PROVE  Before(p, q) <=> \E i \in Nat : PartsAt(p, q, i)
<1>1. Len(p) \in Nat /\ Len(q) \in Nat
  BY DEF Paths
<1>2. ASSUME NEW i \in 1 .. Len(p), i <= Len(q)
      PROVE  SubSeq(p, 1, i - 1) = SubSeq(q, 1, i - 1) <=> \A j \in 1 .. i - 1 : p[j] = q[j]
  <2> DEFINE s == SubSeq(p, 1, i - 1)  t == SubSeq(q, 1, i - 1)
  <2>0. i - 1 \in 0 .. Len(p) /\ i - 1 \in 0 .. Len(q)
    BY <1>1, <1>2
  <2>1. s \in Paths /\ Len(s) = i - 1 /\ \A j \in 1 .. i - 1 : s[j] = p[j]
    BY <2>0, FrontIs DEF Paths
  <2>2. t \in Paths /\ Len(t) = i - 1 /\ \A j \in 1 .. i - 1 : t[j] = q[j]
    BY <2>0, FrontIs DEF Paths
  <2> HIDE DEF s, t
  <2>3. (\A j \in 1 .. i - 1 : s[j] = t[j]) => s = t
    BY <2>1, <2>2, SeqEqual DEF Paths
  <2> QED
    BY <2>1, <2>2, <2>3 DEF s, t
<1>3. IsStrictPrefix(p, q) <=> PartsAt(p, q, Len(p) + 1)
  <2>1. Len(p) + 1 - 1 = Len(p) /\ (Len(p) + 1 \in 1 .. Len(q) <=> Len(p) < Len(q))
    BY <1>1
  <2> QED
    BY <1>1, <2>1, InFront DEF PartsAt
<1>4. ASSUME NEW i \in 1 .. Len(p)
      PROVE  (/\ i <= Len(q) /\ p[i] < q[i]
              /\ SubSeq(p, 1, i - 1) = SubSeq(q, 1, i - 1)) <=> PartsAt(p, q, i)
  <2>1. i # Len(p) + 1 /\ i <= Len(p) + 1 /\ (i \in 1 .. Len(q) <=> i <= Len(q))
    BY <1>1
  <2> QED
    BY <1>2, <2>1 DEF PartsAt
<1>5. \A i : PartsAt(p, q, i) => i \in 1 .. Len(p) \/ i = Len(p) + 1
  BY <1>1 DEF PartsAt
<1>6. Len(p) + 1 \in Nat /\ \A i \in 1 .. Len(p) : i \in Nat
  BY <1>1
<1> QED
  BY <1>3, <1>4, <1>5, <1>6 DEF Before

LEMMA BeforeOrders ==
  /\ \A p \in Paths : ~Before(p, p)
  /\ \A p, q, r \in Paths : Before(p, q) /\ Before(q, r) => Before(p, r)
  /\ \A p, q \in Paths : p # q => Before(p, q) \/ Before(q, p)
<1>0. \A p \in Paths : Len(p) \in Nat /\ \A i \in 1 .. Len(p) : p[i] \in Nat
  BY DEF Paths
<1>1. ASSUME NEW p \in Paths, Before(p, p) PROVE FALSE
  <2>1. PICK i \in Nat : PartsAt(p, p, i)
    BY <1>1, BeforeIs
  <2>2. i \in 1 .. Len(p)
    BY <2>1 DEF PartsAt
  <2>3. p[i] \in Nat /\ Len(p) \in Nat
    BY <1>0, <2>2
  <2> QED
    BY <2>1, <2>2, <2>3 DEF PartsAt
<1>2. ASSUME NEW p \in Paths, NEW q \in Paths, NEW r \in Paths, Before(p, q), Before(q, r)
      PROVE  Before(p, r)
  <2>1. PICK i \in Nat : PartsAt(p, q, i)
    BY <1>2, BeforeIs
  <2>2. PICK j \in Nat : PartsAt(q, r, j)
    BY <1>2, BeforeIs
  <2>3. Len(p) \in Nat /\ Len(q) \in Nat /\ Len(r) \in Nat
    BY <1>0
  <2>4. CASE i < j
    <3>1. i \in 1 .. Len(r) /\ i <= Len(p) + 1
      BY <2>1, <2>2, <2>3, <2>4 DEF PartsAt
    <3>2. \A x \in 1 .. i - 1 : x \in 1 .. j - 1
      BY <2>4
    <3>3. \A x \in 1 .. i - 1 : p[x] = r[x]
      BY <2>1, <2>2, <3>2 DEF PartsAt
    <3>4. i \in 1 .. j - 1
      BY <2>4, <3>1
    <3>5. q[i] = r[i]
      BY <2>2, <3>4 DEF PartsAt
    <3>6. PartsAt(p, r, i)
      BY <2>1, <3>1, <3>3, <3>5 DEF PartsAt
    <3> QED
      BY <3>6, BeforeIs
  <2>5. CASE i = j
    <3>1. i \in 1 .. Len(r) /\ i <= Len(p) + 1 /\ i # Len(q) + 1
      BY <2>1, <2>2, <2>3, <2>5 DEF PartsAt
    <3>2. \A x \in 1 .. i - 1 : p[x] = r[x]
      BY <2>1, <2>2, <2>5 DEF PartsAt
    <3>3. i = Len(p) + 1 \/ (i \in 1 .. Len(p) /\ p[i] < q[i])
      BY <2>1, <2>3, <3>1 DEF PartsAt
    <3>4. q[i] < r[i]
      BY <2>2, <2>5, <3>1 DEF PartsAt
    <3>5. i = Len(p) + 1 \/ p[i] < r[i]
      <4>1. q[i] \in Nat /\ r[i] \in Nat
        <5>1. i \in 1 .. Len(q)
          BY <2>1 DEF PartsAt
        <5> QED
          BY <1>0, <3>1, <5>1
      <4>2. i \in 1 .. Len(p) => p[i] \in Nat
        BY <1>0
      <4> QED
        BY <3>3, <3>4, <4>1, <4>2
    <3>6. PartsAt(p, r, i)
      BY <3>1, <3>2, <3>5 DEF PartsAt
    <3> QED
      BY <3>6, BeforeIs
  <2>6. CASE j < i
    <3>1. j \in 1 .. Len(r) /\ j <= Len(p) + 1 /\ j # Len(q) + 1
      BY <2>1, <2>2, <2>3, <2>6 DEF PartsAt
    <3>2. \A x \in 1 .. j - 1 : x \in 1 .. i - 1
      BY <2>6
    <3>3. \A x \in 1 .. j - 1 : p[x] = r[x]
      BY <2>1, <2>2, <3>2 DEF PartsAt
    <3>4. j \in 1 .. i - 1
      BY <2>6, <3>1
    <3>5. p[j] = q[j]
      BY <2>1, <3>4 DEF PartsAt
    <3>6. q[j] < r[j]
      BY <2>2, <3>1 DEF PartsAt
    <3>7. PartsAt(p, r, j)
      BY <3>1, <3>3, <3>5, <3>6 DEF PartsAt
    <3> QED
      BY <3>7, BeforeIs
  <2> QED
    BY <2>4, <2>5, <2>6
<1>3. ASSUME NEW p \in Paths, NEW q \in Paths, p # q PROVE Before(p, q) \/ Before(q, p)
  <2>1. Len(p) \in Nat /\ Len(q) \in Nat
    BY <1>0
  <2> DEFINE D == {i \in Nat \ {0} : /\ i <= Len(p) + 1 /\ i <= Len(q) + 1
                                     /\ i = Len(p) + 1 \/ i = Len(q) + 1 \/ p[i] # q[i]}
  <2>2. D # {}
    <3>1. CASE Len(p) <= Len(q)
      <4>1. Len(p) + 1 \in D
        BY <2>1, <3>1
      <4> QED
        BY <4>1
    <3>2. CASE Len(q) <= Len(p)
      <4>1. Len(q) + 1 \in D
        BY <2>1, <3>2
      <4> QED
        BY <4>1
    <3> QED
      BY <2>1, <3>1, <3>2
  <2>3. PICK i \in D : \A m \in D : i <= m
    <3>1. D \in SUBSET Nat
      OBVIOUS
    <3> HIDE DEF D
    <3> QED
      BY <2>2, <3>1, Smallest
  <2>4. /\ i \in Nat \ {0} /\ i <= Len(p) + 1 /\ i <= Len(q) + 1
        /\ i = Len(p) + 1 \/ i = Len(q) + 1 \/ p[i] # q[i]
    BY <2>3
  <2>5. \A j \in 1 .. i - 1 : p[j] = q[j]
    <3> SUFFICES ASSUME NEW j \in 1 .. i - 1, p[j] # q[j] PROVE FALSE
      OBVIOUS
    <3>1. j \in D
      BY <2>1, <2>4
    <3> HIDE DEF D
    <3>2. i <= j
      BY <2>3, <3>1
    <3> QED
      BY <2>4, <3>2
  <2> HIDE DEF D
  <2>6. \A j \in 1 .. i - 1 : q[j] = p[j]
    BY <2>5
  <2>7. CASE i = Len(p) + 1 /\ i = Len(q) + 1
    <3>1. Len(p) = Len(q) /\ i - 1 = Len(p)
      BY <2>1, <2>7
    <3>2. p = q
      BY <2>5, <3>1, SeqEqual DEF Paths
    <3> QED
      BY <1>3, <3>2
  <2>8. CASE i = Len(p) + 1 /\ i # Len(q) + 1
    <3>1. PartsAt(p, q, i)
      BY <2>1, <2>4, <2>5, <2>8 DEF PartsAt
    <3> QED
      BY <2>4, <3>1, BeforeIs
  <2>9. CASE i # Len(p) + 1 /\ i = Len(q) + 1
    <3>1. PartsAt(q, p, i)
      BY <2>1, <2>4, <2>6, <2>9 DEF PartsAt
    <3> QED
      BY <2>4, <3>1, BeforeIs
  <2>10. CASE i # Len(p) + 1 /\ i # Len(q) + 1
    <3>1. i \in 1 .. Len(p) /\ i \in 1 .. Len(q) /\ p[i] # q[i]
      BY <2>1, <2>4, <2>10
    <3>2. p[i] \in Nat /\ q[i] \in Nat
      BY <1>0, <3>1
    <3>3. p[i] < q[i] \/ q[i] < p[i]
      BY <3>1, <3>2
    <3>4. PartsAt(p, q, i) \/ PartsAt(q, p, i)
      BY <2>4, <2>5, <2>6, <3>1, <3>3 DEF PartsAt
    <3> QED
      BY <2>4, <3>4, BeforeIs
  <2> QED
    BY <2>7, <2>8, <2>9, <2>10
<1> QED
  BY <1>1, <1>2, <1>3

(* Walk lists a finite set of paths, each of them. *)
LEMMA WalkIs ==
  ASSUME NEW S \in SUBSET Paths, IsFiniteSet(S)
  PROVE  /\ Cardinality(S) \in Nat
         /\ Walk(S) \in [1 .. Cardinality(S) -> S]
         /\ \A e \in S : \E i \in 1 .. Cardinality(S) : Walk(S)[i] = e
<1> DEFINE n == Cardinality(S)
           Ahead(e) == {d \in S : Before(d, e)}
           rank == [e \in S |-> Cardinality(Ahead(e))]
<1>1. n \in Nat
  BY FS_CardinalityType
<1>2. \A e \in S : IsFiniteSet(Ahead(e)) /\ Cardinality(Ahead(e)) \in Nat
  <2> TAKE e \in S
  <2>1. Ahead(e) \in SUBSET S
    OBVIOUS
  <2> HIDE DEF Ahead
  <2>2. IsFiniteSet(Ahead(e))
    BY <2>1, FS_Subset
  <2> QED
    BY <2>2, FS_CardinalityType
<1>3. ASSUME NEW e \in S PROVE rank[e] \in 0 .. n - 1
  <2>1. Ahead(e) \in SUBSET (S \ {e})
    BY BeforeOrders
  <2>2. IsFiniteSet(S \ {e}) /\ Cardinality(S \ {e}) = n - 1
    BY FS_RemoveElement
  <2> HIDE DEF Ahead
  <2>3. Cardinality(Ahead(e)) <= n - 1
    BY <2>1, <2>2, FS_Subset
  <2> HIDE DEF n
  <2> QED
    BY <1>1, <1>2, <2>3
<1>4. ASSUME NEW d \in S, NEW e \in S, Before(d, e) PROVE rank[d] < rank[e]
  <2>1. Ahead(d) \in SUBSET Ahead(e)
    BY <1>4, BeforeOrders
  <2>2. d \in Ahead(e) /\ d \notin Ahead(d)
    BY <1>4, BeforeOrders
  <2> HIDE DEF Ahead
  <2>3. Cardinality(Ahead(d)) <= Cardinality(Ahead(e)) /\ Cardinality(Ahead(d)) # Cardinality(Ahead(e))
    BY <1>2, <2>1, <2>2, FS_Subset
  <2> QED
    BY <1>2, <2>3
<1> HIDE DEF n, rank, Ahead
<1>5. ASSUME NEW d \in S, NEW e \in S, rank[d] = rank[e] PROVE d = e
  <2>1. rank[d] \in Nat /\ rank[e] \in Nat
    BY <1>1, <1>3
  <2>2. ~Before(d, e) /\ ~Before(e, d)
    BY <1>4, <1>5, <2>1
  <2> QED
    BY <2>2, BeforeOrders
<1>6. rank \in [S -> 0 .. n - 1]
  BY <1>3 DEF rank
<1>7. rank \in Injection(S, 0 .. n - 1)
  BY <1>5, <1>6 DEF Injection, IsInjective
<1>8. IsFiniteSet(0 .. n - 1) /\ Cardinality(0 .. n - 1) = n
  <2>1. IsFiniteSet(0 .. n - 1) /\ Cardinality(0 .. n - 1) = IF 0 > n - 1 THEN 0 ELSE n - 1 - 0 + 1
    BY <1>1, FS_Interval
  <2> QED
    BY <1>1, <2>1
<1>9. rank \in Surjection(S, 0 .. n - 1)
  BY <1>7, <1>8, FS_Injection DEF n
<1>10. \A i \in 1 .. n : \E e \in S : rank[e] = i - 1
  <2> TAKE i \in 1 .. n
  <2>1. i - 1 \in 0 .. n - 1
    BY <1>1
  <2> QED
    BY <1>9, <2>1 DEF Surjection
<1> DEFINE Nth(i) == CHOOSE e \in S : rank[e] = i - 1
<1>11. Walk(S) = [i \in 1 .. n |-> Nth(i)]
  <2>1. \A e \in S : rank[e] = Cardinality({d \in S : Before(d, e)})
    BY DEF rank, Ahead
  <2>2. \A i : (CHOOSE e \in S : Cardinality({d \in S : Before(d, e)}) = i - 1) = Nth(i)
    BY <2>1, Zenon
  <2>3. Walk(S) = [i \in 1 .. n |->
                     CHOOSE e \in S : Cardinality({d \in S : Before(d, e)}) = i - 1]
    BY Zenon DEF Walk, n
  <2> HIDE DEF Nth
  <2> QED
    BY <2>2, <2>3, Zenon
<1>12. \A i \in 1 .. n : Nth(i) \in S /\ rank[Nth(i)] = i - 1
  BY <1>10
<1>13. ASSUME NEW e \in S PROVE \E i \in 1 .. n : Nth(i) = e
  <2>1. rank[e] \in 0 .. n - 1
    BY <1>3
  <2> DEFINE i == rank[e] + 1
  <2>3. i \in 1 .. n /\ i - 1 = rank[e]
    BY <1>1, <2>1
  <2> HIDE DEF Nth, i
  <2>4. rank[Nth(i)] = rank[e] /\ Nth(i) \in S
    BY <1>12, <2>3
  <2> QED
    BY <1>5, <2>3, <2>4
<1> HIDE DEF Nth
<1> QED
  BY <1>1, <1>11, <1>12, <1>13 DEF n

(* A directory that can be read: no file is inside another.                *)
IsTree(source) ==
  /\ source.files \in SUBSET (Paths \ {<<>>}) /\ IsFiniteSet(source.files)
  /\ source.locked = {}
  /\ \A p, q \in source.files : ~IsStrictPrefix(p, q)

BelowIn(source, d) == {e \in EntriesOf(source) : IsStrictPrefix(d, e)}

LEMMA EntriesAre ==
  ASSUME NEW source, IsTree(source)
  PROVE  /\ EntriesOf(source) \in SUBSET (Paths \ {<<>>})
         /\ IsFiniteSet(EntriesOf(source))
         /\ \A f \in source.files : \A k \in 1 .. Len(f) : SubSeq(f, 1, k) \in EntriesOf(source)
<1> DEFINE Files == source.files
           Heads == {Prefixes(p) : p \in Files}
<1>1. Files \in SUBSET (Paths \ {<<>>}) /\ IsFiniteSet(Files) /\ source.locked = {}
  BY DEF IsTree
<1>2. EntriesOf(source) = (UNION Heads) \ {<<>>}
  <2>1. Files \cup {} = Files
    OBVIOUS
  <2> QED
    BY <1>1, <2>1, Zenon DEF EntriesOf
<1> HIDE DEF Files
<1>3. ASSUME NEW p \in Files PROVE Prefixes(p) \in SUBSET Paths /\ IsFiniteSet(Prefixes(p))
  <2>1. p \in Seq(Nat) /\ Len(p) \in Nat
    BY <1>1 DEF Paths
  <2>2. \A k \in 0 .. Len(p) : SubSeq(p, 1, k) \in Paths
    BY <2>1, FrontIs DEF Paths
  <2> DEFINE head == [k \in 0 .. Len(p) |-> SubSeq(p, 1, k)]
  <2>3. head \in Surjection(0 .. Len(p), Prefixes(p))
    BY DEF Prefixes, Surjection
  <2>4. IsFiniteSet(0 .. Len(p))
    BY <2>1, FS_Interval
  <2> HIDE DEF head
  <2> QED
    BY <2>2, <2>3, <2>4, FS_Surjection DEF Prefixes
<1>4. IsFiniteSet(Heads)
  <2> DEFINE heads == [p \in Files |-> Prefixes(p)]
  <2>1. heads \in Surjection(Files, Heads)
    BY DEF Surjection
  <2> HIDE DEF heads, Heads
  <2> QED
    BY <1>1, <2>1, FS_Surjection
<1>5. IsFiniteSet(UNION Heads)
  <2>1. \A T \in Heads : IsFiniteSet(T)
    BY <1>3
  <2> HIDE DEF Heads
  <2> QED
    BY <1>4, <2>1, FS_UNION
<1>6. UNION Heads \in SUBSET Paths
  BY <1>3
<1>7. ASSUME NEW f \in Files, NEW k \in 1 .. Len(f) PROVE SubSeq(f, 1, k) \in (UNION Heads) \ {<<>>}
  <2>1. f \in Seq(Nat) /\ k \in 0 .. Len(f)
    BY <1>1 DEF Paths
  <2>2. Len(SubSeq(f, 1, k)) = k
    BY <2>1, FrontIs
  <2>3. SubSeq(f, 1, k) # <<>>
    <3>1. Len(<<>>) = 0
      OBVIOUS
    <3> QED
      BY <2>2, <3>1
  <2>4. SubSeq(f, 1, k) \in Prefixes(f)
    BY <2>1 DEF Prefixes
  <2>5. Prefixes(f) \in Heads
    OBVIOUS
  <2> HIDE DEF Heads
  <2> QED
    BY <2>3, <2>4, <2>5
<1> DEFINE All == UNION Heads
<1>8. IsFiniteSet(All) /\ All \in SUBSET Paths
  BY <1>5, <1>6
<1> HIDE DEF All
<1>9. IsFiniteSet(All \ {<<>>})
  BY <1>8, FS_Difference
<1>10. EntriesOf(source) = All \ {<<>>}
  BY <1>2 DEF All
<1>11. \A f \in Files : \A k \in 1 .. Len(f) : SubSeq(f, 1, k) \in All \ {<<>>}
  BY <1>7 DEF All
<1> QED
  BY <1>8, <1>9, <1>10, <1>11 DEF Files

(* There is less below an entry than below what it is in. *)
LEMMA LessBelow ==
  ASSUME NEW source, IsTree(source), NEW d \in EntriesOf(source) \cup {<<>>}
  PROVE  /\ BelowIn(source, d) \in SUBSET Paths /\ IsFiniteSet(BelowIn(source, d))
         /\ Cardinality(BelowIn(source, d)) \in 0 .. Cardinality(EntriesOf(source))
         /\ \A e \in BelowIn(source, d) :
              Cardinality(BelowIn(source, e)) < Cardinality(BelowIn(source, d))
<1> DEFINE E == EntriesOf(source)  B == BelowIn(source, d)
<1>1. E \in SUBSET (Paths \ {<<>>}) /\ IsFiniteSet(E) /\ Cardinality(E) \in Nat
  BY EntriesAre, FS_CardinalityType
<1>2. \A x : BelowIn(source, x) \in SUBSET E
  BY DEF BelowIn
<1> HIDE DEF E
<1>3. \A x : IsFiniteSet(BelowIn(source, x)) /\ Cardinality(BelowIn(source, x)) \in 0 .. Cardinality(E)
  <2> TAKE x
  <2> DEFINE X == BelowIn(source, x)
  <2>1. X \in SUBSET E
    BY <1>2
  <2> HIDE DEF X
  <2>2. IsFiniteSet(X) /\ Cardinality(X) <= Cardinality(E)
    BY <1>1, <2>1, FS_Subset
  <2>3. Cardinality(X) \in Nat
    BY <2>2, FS_CardinalityType
  <2> QED
    BY <1>1, <2>2, <2>3 DEF X
<1>4. ASSUME NEW e \in B PROVE Cardinality(BelowIn(source, e)) < Cardinality(B)
  <2> DEFINE X == BelowIn(source, e)
  <2>1. e \in E /\ IsStrictPrefix(d, e)
    BY DEF BelowIn, E
  <2>2. d \in Paths /\ e \in Paths
    <3>1. <<>> \in Paths
      BY DEF Paths
    <3>2. d \in E \cup {<<>>}
      BY DEF E
    <3> QED
      BY <1>1, <2>1, <3>1, <3>2
  <2>3. ASSUME NEW x \in X PROVE x \in B
    <3>1. x \in E /\ IsStrictPrefix(e, x) /\ x \in Paths
      BY <1>1 DEF BelowIn, E
    <3>2. Len(d) < Len(e) /\ \A j \in 1 .. Len(d) : d[j] = e[j]
      BY <2>1, <2>2, InFront
    <3>3. Len(e) < Len(x) /\ \A j \in 1 .. Len(e) : e[j] = x[j]
      BY <2>2, <3>1, InFront
    <3>4. Len(d) \in Nat /\ Len(e) \in Nat /\ Len(x) \in Nat
      BY <2>2, <3>1 DEF Paths
    <3>5. Len(d) < Len(x) /\ \A j \in 1 .. Len(d) : d[j] = x[j]
      BY <3>2, <3>3, <3>4
    <3>6. IsStrictPrefix(d, x)
      BY <2>2, <3>1, <3>5, InFront
    <3> QED
      BY <3>1, <3>6 DEF BelowIn, E
  <2>4. e \notin X
    BY DEF BelowIn, IsStrictPrefix
  <2>5. X \in SUBSET B /\ X # B
    BY <2>3, <2>4
  <2>6. IsFiniteSet(B) /\ Cardinality(B) \in Nat /\ Cardinality(X) \in Nat
    BY <1>1, <1>3
  <2> HIDE DEF B, X
  <2>7. Cardinality(X) <= Cardinality(B) /\ Cardinality(X) # Cardinality(B)
    BY <2>5, <2>6, FS_Subset
  <2> QED
    BY <2>6, <2>7 DEF X
<1>5. B \in SUBSET Paths
  BY <1>1, <1>2
<1> QED
  BY <1>3, <1>4, <1>5 DEF E

(* The function that tarDirToDir recurs with. *)
UnderPart(source, g, e) ==
  IF e \in source.files THEN <<File(<<Last(e)>>, e)>>
  ELSE [i \in DOMAIN g[e] |-> File(<<Last(e)>> \o g[e][i].Path, g[e][i].from)]

UnderBody(source, g, d) ==
  FlattenSeq([i \in DOMAIN Walk(BelowIn(source, d)) |->
                UnderPart(source, g, Walk(BelowIn(source, d))[i])])

IsUnder(g, source) ==
  g = [d \in EntriesOf(source) \cup {<<>>} |-> UnderBody(source, g, d)]

LEMMA TreeRecurs ==
  ASSUME NEW source, NEW hostPath, NEW newPath
  PROVE  tarDirToDir(source, hostPath, newPath) =
           LET under == CHOOSE g : IsUnder(g, source)
               all == under[hostPath] IN
           [i \in DOMAIN all |-> File(newPath \o all[i].Path, all[i].from)]
BY Zenon DEF tarDirToDir, IsUnder, UnderBody, UnderPart, BelowIn

LEMMA UnderExists ==
  ASSUME NEW source, IsTree(source)
  PROVE  \E g : IsUnder(g, source)
<1> DEFINE D == EntriesOf(source) \cup {<<>>}
           size(d) == Cardinality(BelowIn(source, d))
           N == Cardinality(EntriesOf(source)) + 1
           First(k) == {d \in D : size(d) < k}
           Runs(k, g) == g = [d \in First(k) |-> UnderBody(source, g, d)]
           T == {k \in 0 .. N : \E g : Runs(k, g)}
<1>1. N \in Nat
  BY EntriesAre, FS_CardinalityType
<1>2. \A d \in D : size(d) \in Nat /\ size(d) < N
  <2> TAKE d \in D
  <2>1. size(d) \in 0 .. Cardinality(EntriesOf(source))
    BY LessBelow
  <2>2. Cardinality(EntriesOf(source)) \in Nat
    BY EntriesAre, FS_CardinalityType
  <2> QED
    BY <2>1, <2>2
<1>3. \A d \in D : \A e \in BelowIn(source, d) : e \in D /\ size(e) < size(d)
  <2>1. \A d \in D : \A e \in BelowIn(source, d) : size(e) < size(d)
    BY LessBelow
  <2> QED
    BY <2>1 DEF BelowIn
<1>4. ASSUME NEW d \in D, NEW g, NEW h, \A e \in BelowIn(source, d) : g[e] = h[e]
      PROVE  UnderBody(source, g, d) = UnderBody(source, h, d)
  <2> DEFINE walk == Walk(BelowIn(source, d))
  <2>1. DOMAIN walk = 1 .. Cardinality(BelowIn(source, d)) /\ \A i \in DOMAIN walk : walk[i] \in BelowIn(source, d)
    <3>1. walk \in [1 .. Cardinality(BelowIn(source, d)) -> BelowIn(source, d)]
      BY LessBelow, WalkIs
    <3> HIDE DEF walk
    <3> QED
      BY <3>1
  <2> HIDE DEF walk
  <2>2. \A i \in DOMAIN walk : UnderPart(source, g, walk[i]) = UnderPart(source, h, walk[i])
    <3> TAKE i \in DOMAIN walk
    <3>1. g[walk[i]] = h[walk[i]]
      BY <1>4, <2>1
    <3> QED
      BY <3>1, Zenon DEF UnderPart
  <2>3. [i \in DOMAIN walk |-> UnderPart(source, g, walk[i])] =
          [i \in DOMAIN walk |-> UnderPart(source, h, walk[i])]
    BY <2>2
  <2> QED
    BY <2>3, Zenon DEF UnderBody, walk
<1> HIDE DEF N, D, size
<1>5. 0 \in T
  <2>1. First(0) = {}
    BY <1>2
  <2>2. \A g : [d \in {} |-> UnderBody(source, g, d)] = <<>>
    OBVIOUS
  <2>3. Runs(0, <<>>)
    BY <2>1, <2>2
  <2> HIDE DEF Runs
  <2> QED
    BY <1>1, <2>3
<1>6. ASSUME NEW k \in 1 .. N, k - 1 \in T PROVE k \in T
  <2>1. PICK g : Runs(k - 1, g)
    BY <1>6
  <2> DEFINE h == [d \in First(k) |-> UnderBody(source, g, d)]
  <2>2. \A d \in First(k - 1) : d \in First(k)
    BY <1>1, <1>2
  <2>3. ASSUME NEW d \in First(k), NEW e \in BelowIn(source, d) PROVE g[e] = h[e]
    <3>1. e \in D /\ size(e) < size(d) /\ size(d) < k
      BY <1>3
    <3>2. size(e) \in Nat /\ size(d) \in Nat
      BY <1>2, <3>1
    <3>3. e \in First(k - 1)
      BY <1>1, <3>1, <3>2
    <3>4. g[e] = UnderBody(source, g, e)
      <4> HIDE DEF First
      <4> QED
        BY <2>1, <3>3
    <3>5. h[e] = UnderBody(source, g, e)
      <4>1. e \in First(k)
        BY <2>2, <3>3
      <4> HIDE DEF First
      <4> QED
        BY <4>1
    <3> QED
      BY <3>4, <3>5
  <2>4. \A d \in First(k) : d \in D
    OBVIOUS
  <2> HIDE DEF First
  <2>5. \A d \in First(k) : UnderBody(source, g, d) = UnderBody(source, h, d)
    <3> HIDE DEF h
    <3> QED
      BY <1>4, <2>3, <2>4
  <2>6. Runs(k, h)
    BY <2>5
  <2>7. k \in 0 .. N
    BY <1>1
  <2> HIDE DEF Runs, h
  <2> QED
    BY <2>6, <2>7
<1>7. N \in T
  <2> HIDE DEF T
  <2>1. 0 .. N \subseteq T
    BY <1>1, <1>5, <1>6, Upwards
  <2> QED
    BY <1>1, <2>1
<1>8. First(N) = D
  BY <1>2
<1>9. PICK g : Runs(N, g)
  BY <1>7
<1> HIDE DEF First
<1>10. IsUnder(g, source)
  BY <1>8, <1>9 DEF IsUnder, D
<1> QED
  BY <1>10

(* What a directory becomes: files, each with where it came from. *)
Archives == Seq([Path : Paths, from : Paths])

LEMMA UnderPartIs ==
  ASSUME NEW source, NEW g, NEW e \in Paths \ {<<>>}, e \notin source.files => g[e] \in Archives
  PROVE  UnderPart(source, g, e) \in Archives
<1> DEFINE Made == [Path : Paths, from : Paths]  s == g[e]  one == <<Last(e)>>
<1>1. one \in Paths
  <2>1. e \in Seq(Nat) /\ e # <<>>
    BY DEF Paths
  <2>2. Last(e) \in Nat
    BY <2>1 DEF Last
  <2> QED
    BY <2>2 DEF Paths
<1> HIDE DEF one
<1>2. CASE e \in source.files
  <2>1. File(one, e) \in Made
    BY <1>1 DEF File
  <2> HIDE DEF Made
  <2>2. <<File(one, e)>> \in Seq(Made)
    BY <2>1
  <2> QED
    BY <1>2, <2>2 DEF UnderPart, Archives, Made, one
<1>3. CASE e \notin source.files
  <2>1. s \in Seq(Made)
    BY <1>3 DEF Archives
  <2> HIDE DEF s, Made
  <2>2. Len(s) \in Nat /\ DOMAIN s = 1 .. Len(s) /\ \A i \in 1 .. Len(s) : s[i] \in Made
    BY <2>1
  <2>3. ASSUME NEW i \in 1 .. Len(s) PROVE File(one \o s[i].Path, s[i].from) \in Made
    <3>1. s[i].Path \in Paths /\ s[i].from \in Paths
      BY <2>2 DEF Made
    <3>2. one \o s[i].Path \in Paths
      BY <1>1, <3>1 DEF Paths
    <3> QED
      BY <3>1, <3>2 DEF File, Made
  <2> DEFINE t == [i \in 1 .. Len(s) |-> File(one \o s[i].Path, s[i].from)]
  <2>4. t \in [1 .. Len(s) -> Made]
    BY <2>3
  <2> HIDE DEF t
  <2>5. t \in Seq(Made)
    BY <2>2, <2>4
  <2>6. UnderPart(source, g, e) = t
    BY <1>3, <2>2, Zenon DEF UnderPart, s, t, one
  <2> QED
    BY <2>5, <2>6 DEF Archives, Made
<1> QED
  BY <1>2, <1>3

(* Whatever is in a part is in what the parts are put together to. *)
LEMMA FlattenHas ==
  ASSUME NEW S, NEW seqs \in Seq(Seq(S)), NEW i \in 1 .. Len(seqs), NEW j \in 1 .. Len(seqs[i])
  PROVE  \E m \in 1 .. Len(FlattenSeq(seqs)) : FlattenSeq(seqs)[m] = seqs[i][j]
<1> DEFINE n == Len(seqs)  x == seqs[i][j]
<1>1. n \in Nat /\ \A k \in 1 .. n : seqs[k] \in Seq(S)
  OBVIOUS
<1>2. PICK flat : IsFlat(flat, S, seqs) /\ FlattenSeq(seqs) = flat[n]
  BY FlattenRuns
<1>3. /\ \A k \in 0 .. n : flat[k] \in Seq(S)
      /\ \A k \in 1 .. n : flat[k] = flat[k - 1] \o seqs[k]
  BY <1>2 DEF IsFlat
<1> DEFINE T == {k \in 0 .. n : k >= i => \E m \in 1 .. Len(flat[k]) : flat[k][m] = x}
<1> HIDE DEF n
<1>4. i \in 1 .. n /\ j \in 1 .. Len(seqs[i])
  BY DEF n
<1>5. 0 \in T
  BY <1>1, <1>4
<1>6. ASSUME NEW k \in 1 .. n, k - 1 \in T PROVE k \in T
  <2>1. k \in 0 .. n /\ k - 1 \in 0 .. n
    BY <1>1
  <2> DEFINE s == flat[k - 1]  t == seqs[k]
  <2>2. s \in Seq(S) /\ t \in Seq(S) /\ flat[k] = s \o t
    BY <1>1, <1>3, <2>1
  <2> HIDE DEF s, t
  <2>3. /\ Len(s) \in Nat /\ Len(t) \in Nat /\ Len(s \o t) = Len(s) + Len(t)
        /\ \A m \in 1 .. Len(s) : (s \o t)[m] = s[m]
        /\ \A m \in 1 .. Len(t) : (s \o t)[Len(s) + m] = t[m]
    BY <2>2, Joined
  <2>4. CASE k < i
    BY <1>1, <1>4, <2>1, <2>4
  <2>5. CASE k = i
    <3> DEFINE m == Len(s) + j
    <3>1. j \in 1 .. Len(t) /\ t[j] = x
      BY <1>4, <2>5 DEF t
    <3>2. m \in 1 .. Len(s \o t) /\ (s \o t)[m] = x
      BY <2>3, <3>1
    <3> HIDE DEF m, x
    <3> QED
      BY <2>1, <2>2, <3>2
  <2>6. CASE k > i
    <3>1. k - 1 >= i
      BY <1>4, <2>6
    <3>2. PICK m \in 1 .. Len(s) : s[m] = x
      BY <1>6, <3>1 DEF s
    <3>3. m \in 1 .. Len(s \o t) /\ (s \o t)[m] = x
      BY <2>3, <3>2
    <3> HIDE DEF x
    <3> QED
      BY <2>1, <2>2, <3>3
  <2> QED
    BY <1>1, <1>4, <2>4, <2>5, <2>6
<1>7. n \in T
  <2> HIDE DEF T
  <2>1. 0 .. n \subseteq T
    BY <1>1, <1>5, <1>6, Upwards
  <2> QED
    BY <1>1, <2>1
<1>8. n >= i
  BY <1>1, <1>4
<1> QED
  BY <1>2, <1>7, <1>8

(* What is made below an entry. *)
LEMMA UnderBodyIs ==
  ASSUME NEW source, IsTree(source), NEW d \in EntriesOf(source) \cup {<<>>}, NEW g,
         \A e \in BelowIn(source, d) : g[e] \in Archives
  PROVE  /\ UnderBody(source, g, d) \in Archives
         /\ \A e \in BelowIn(source, d) : \A j \in DOMAIN UnderPart(source, g, e) :
              \E m \in DOMAIN UnderBody(source, g, d) :
                UnderBody(source, g, d)[m] = UnderPart(source, g, e)[j]
<1> DEFINE B == BelowIn(source, d)  walk == Walk(B)  n == Cardinality(B)
           parts == [i \in DOMAIN walk |-> UnderPart(source, g, walk[i])]
           S == [Path : Paths, from : Paths]
<1>1. /\ n \in Nat /\ walk \in [1 .. n -> B]
      /\ \A e \in B : \E i \in 1 .. n : walk[i] = e
  BY LessBelow, WalkIs
<1>2. B \in SUBSET (Paths \ {<<>>})
  BY EntriesAre DEF BelowIn
<1>3. \A e \in B : UnderPart(source, g, e) \in Seq(S)
  BY <1>2, UnderPartIs DEF Archives
<1>4. UnderBody(source, g, d) = FlattenSeq(parts)
  BY Zenon DEF UnderBody
<1> HIDE DEF B, walk, n, S
<1>5. DOMAIN walk = 1 .. n /\ \A i \in 1 .. n : walk[i] \in B
  BY <1>1
<1>6. parts \in [1 .. n -> Seq(S)]
  BY <1>3, <1>5
<1>7. \A i \in 1 .. n : parts[i] = UnderPart(source, g, walk[i])
  BY <1>5
<1> HIDE DEF parts
<1>8. parts \in Seq(Seq(S)) /\ Len(parts) = n
  BY <1>1, <1>6
<1>9. FlattenSeq(parts) \in Seq(S)
  BY <1>8, FlattenIs
<1>10. DOMAIN FlattenSeq(parts) = 1 .. Len(FlattenSeq(parts))
  BY <1>9
<1>11. ASSUME NEW e \in B, NEW j \in DOMAIN UnderPart(source, g, e)
       PROVE  \E m \in DOMAIN FlattenSeq(parts) : FlattenSeq(parts)[m] = UnderPart(source, g, e)[j]
  <2>1. PICK i \in 1 .. n : walk[i] = e
    BY <1>1
  <2>2. parts[i] = UnderPart(source, g, e)
    BY <1>7, <2>1
  <2>3. j \in 1 .. Len(parts[i])
    <3>1. DOMAIN UnderPart(source, g, e) = 1 .. Len(UnderPart(source, g, e))
      BY <1>3
    <3> QED
      BY <2>2, <3>1
  <2>4. \E m \in 1 .. Len(FlattenSeq(parts)) : FlattenSeq(parts)[m] = parts[i][j]
    BY <1>8, <2>3, FlattenHas
  <2> QED
    BY <1>10, <2>2, <2>4
<1> QED
  BY <1>4, <1>9, <1>11 DEF Archives, B, S

LEMMA UnderIs ==
  ASSUME NEW source, IsTree(source), NEW g, IsUnder(g, source)
  PROVE  \A d \in EntriesOf(source) \cup {<<>>} :
           g[d] = UnderBody(source, g, d) /\ g[d] \in Archives
<1> DEFINE D == EntriesOf(source) \cup {<<>>}
           size(d) == Cardinality(BelowIn(source, d))
           N == Cardinality(EntriesOf(source)) + 1
           T == {k \in 0 .. N : \A d \in D : size(d) < k => g[d] \in Archives}
<1>1. N \in Nat
  BY EntriesAre, FS_CardinalityType
<1>2. \A d \in D : size(d) \in Nat /\ size(d) < N
  <2> TAKE d \in D
  <2>1. size(d) \in 0 .. Cardinality(EntriesOf(source))
    BY LessBelow
  <2>2. Cardinality(EntriesOf(source)) \in Nat
    BY EntriesAre, FS_CardinalityType
  <2> QED
    BY <2>1, <2>2
<1>3. \A d \in D : \A e \in BelowIn(source, d) : e \in D /\ size(e) < size(d)
  <2>1. \A d \in D : \A e \in BelowIn(source, d) : size(e) < size(d)
    BY LessBelow
  <2> QED
    BY <2>1 DEF BelowIn
<1>4. \A d \in D : g[d] = UnderBody(source, g, d)
  BY Zenon DEF IsUnder
<1>5. ASSUME NEW d \in D, \A e \in BelowIn(source, d) : g[e] \in Archives
      PROVE  UnderBody(source, g, d) \in Archives
  BY <1>5, UnderBodyIs
<1> HIDE DEF N, D, size
<1>6. 0 \in T
  BY <1>1, <1>2
<1>7. ASSUME NEW k \in 1 .. N, k - 1 \in T PROVE k \in T
  <2>1. ASSUME NEW d \in D, size(d) < k PROVE g[d] \in Archives
    <3>1. ASSUME NEW e \in BelowIn(source, d) PROVE g[e] \in Archives
      <4>1. e \in D /\ size(e) < size(d) /\ size(e) \in Nat /\ size(d) \in Nat
        BY <1>2, <1>3
      <4>2. size(e) < k - 1
        BY <1>1, <2>1, <4>1
      <4> QED
        BY <1>7, <4>1, <4>2
    <3> QED
      BY <1>4, <1>5, <3>1
  <2> QED
    BY <1>1, <2>1
<1>8. N \in T
  <2> HIDE DEF T
  <2>1. 0 .. N \subseteq T
    BY <1>1, <1>6, <1>7, Upwards
  <2> QED
    BY <1>1, <2>1
<1> QED
  BY <1>2, <1>4, <1>8 DEF D

(* Every file is made at what is left of its path, seen from any directory *)
(* above it.                                                               *)
Rest(f, k) == SubSeq(f, k + 1, Len(f))

LEMMA RestIs ==
  ASSUME NEW S, NEW f \in Seq(S), NEW k \in 0 .. Len(f) - 1
  PROVE  /\ k + 1 \in 1 .. Len(f) /\ <<f[k + 1]>> \o Rest(f, k + 1) = Rest(f, k)
         /\ k + 1 = Len(f) => Rest(f, k) = <<f[k + 1]>>
<1> DEFINE n == Len(f)  one == <<f[k + 1]>>  s == Rest(f, k + 1)  t == Rest(f, k)
<1>1. n \in Nat /\ k + 1 \in 1 .. n /\ \A i \in 1 .. n : f[i] \in S
  OBVIOUS
<1>2. one \in Seq(S) /\ Len(one) = 1 /\ one[1] = f[k + 1]
  BY <1>1
<1>3. /\ s \in Seq(S) /\ Len(s) = n - (k + 1)
      /\ \A i \in 1 .. n - (k + 1) : s[i] = f[k + 1 + i]
  BY <1>1 DEF Rest
<1>4. t \in Seq(S) /\ Len(t) = n - k /\ \A i \in 1 .. n - k : t[i] = f[k + i]
  BY <1>1 DEF Rest
<1> HIDE DEF n, one, s, t
<1>5. k \in Nat
  OBVIOUS
<1>6. one \o s = t
  <2> DEFINE u == one \o s
  <2>0. /\ Len(one) \in Nat /\ Len(s) \in Nat /\ Len(u) = Len(one) + Len(s)
        /\ \A i \in 1 .. Len(one) : u[i] = one[i]
        /\ \A i \in 1 .. Len(s) : u[Len(one) + i] = s[i]
    <3>1. one \in Seq(S) /\ s \in Seq(S)
      BY <1>2, <1>3
    <3> QED
      BY <3>1, Joined
  <2>1. u \in Seq(S) /\ Len(u) = 1 + (n - (k + 1))
    BY <1>2, <1>3, <2>0
  <2> HIDE DEF u
  <2>2. Len(u) = Len(t)
    <3>1. 1 + (n - (k + 1)) = n - k
      BY <1>1, <1>5
    <3> QED
      BY <1>4, <2>1, <3>1
  <2>3. ASSUME NEW i \in 1 .. Len(t) PROVE u[i] = t[i]
    <3>1. CASE i = 1
      <4>1. t[1] = f[k + 1]
        BY <1>4, <3>1
      <4>2. u[1] = one[1]
        BY <1>2, <2>0
      <4> QED
        BY <1>2, <3>1, <4>1, <4>2
    <3>2. CASE i # 1
      <4>0. i \in 1 .. n - k
        BY <1>4, <2>3
      <4>1. i - 1 \in 1 .. n - (k + 1) /\ k + 1 + (i - 1) = k + i
        BY <1>1, <1>5, <3>2, <4>0
      <4>2. u[i] = s[i - 1]
        <5>1. i - 1 \in 1 .. Len(s) /\ 1 + (i - 1) = i
          BY <1>3, <4>1
        <5> QED
          BY <1>2, <2>0, <5>1
      <4> QED
        BY <1>3, <1>4, <4>1, <4>2
    <3> QED
      BY <3>1, <3>2
  <2> QED
    BY <1>4, <2>1, <2>2, <2>3, SeqEqual DEF u
<1>7. ASSUME k + 1 = n PROVE t = one
  <2>1. Len(t) = 1 /\ t[1] = one[1]
    BY <1>1, <1>2, <1>4, <1>5, <1>7
  <2> QED
    BY <1>2, <1>4, <2>1, SeqEqual
<1> QED
  BY <1>1, <1>6, <1>7 DEF n, one, s, t

LEMMA FilesArePlaced ==
  ASSUME NEW source, IsTree(source), NEW g, IsUnder(g, source), NEW f \in source.files
  PROVE  /\ g[<<>>] \in Archives
         /\ \E m \in DOMAIN g[<<>>] : g[<<>>][m] = File(f, f)
<1> DEFINE n == Len(f)  head(k) == SubSeq(f, 1, k)
           Has(k) == \E m \in DOMAIN g[head(k)] : g[head(k)][m] = File(Rest(f, k), f)
           T == {i \in 0 .. n - 1 : Has(n - 1 - i)}
           D == EntriesOf(source) \cup {<<>>}
<1>1. /\ f \in Seq(Nat) /\ n \in Nat \ {0}
  <2>1. f \in Seq(Nat) /\ f # <<>>
    BY DEF IsTree, Paths
  <2> QED
    BY <2>1
<1>2. \A k \in 0 .. n : /\ head(k) \in Paths /\ Len(head(k)) = k
                        /\ \A j \in 1 .. k : head(k)[j] = f[j]
  BY <1>1, FrontIs DEF Paths
<1>3. \A k \in 1 .. n : head(k) \in EntriesOf(source)
  BY EntriesAre
<1>4. head(0) = <<>> /\ head(n) = f
  BY <1>1
<1> HIDE DEF n, head, D
<1>5. \A k \in 0 .. n : head(k) \in D
  <2> TAKE k \in 0 .. n
  <2>1. k = 0 \/ k \in 1 .. n
    BY <1>1
  <2> QED
    BY <1>3, <1>4, <2>1 DEF D
<1>6. \A d \in D : g[d] = UnderBody(source, g, d) /\ g[d] \in Archives
  BY UnderIs DEF D
<1>7. ASSUME NEW k \in 0 .. n - 1
      PROVE  /\ head(k + 1) \in BelowIn(source, head(k))
             /\ k + 1 # n => head(k + 1) \notin source.files
             /\ Last(head(k + 1)) = f[k + 1]
  <2>1. k + 1 \in 1 .. n /\ k \in 0 .. n /\ k + 1 \in 0 .. n /\ k + 1 \in 1 .. k + 1
    BY <1>1
  <2> DEFINE d == head(k)  e == head(k + 1)
  <2>2. /\ d \in Paths /\ Len(d) = k /\ \A j \in 1 .. k : d[j] = f[j]
        /\ e \in Paths /\ Len(e) = k + 1 /\ \A j \in 1 .. k + 1 : e[j] = f[j]
    BY <1>2, <2>1
  <2>3. e \in EntriesOf(source)
    BY <1>3, <2>1
  <2> HIDE DEF d, e
  <2>4. IsStrictPrefix(d, e)
    <3>1. Len(d) < Len(e) /\ \A j \in 1 .. Len(d) : d[j] = e[j]
      BY <2>1, <2>2
    <3> QED
      BY <2>2, <3>1, InFront
  <2>5. ASSUME k + 1 # n PROVE e \notin source.files
    <3>1. Len(e) < Len(f) /\ \A j \in 1 .. Len(e) : e[j] = f[j]
      BY <1>1, <2>1, <2>2, <2>5 DEF n
    <3>2. IsStrictPrefix(e, f)
      BY <1>1, <2>2, <3>1, InFront DEF Paths
    <3> QED
      BY <3>2 DEF IsTree
  <2>6. Last(e) = f[k + 1]
    BY <2>1, <2>2 DEF Last
  <2> QED
    BY <2>3, <2>4, <2>5, <2>6 DEF BelowIn, d, e
<1>8. ASSUME NEW k \in 0 .. n - 1, NEW j \in DOMAIN UnderPart(source, g, head(k + 1)),
             UnderPart(source, g, head(k + 1))[j] = File(Rest(f, k), f)
      PROVE  Has(k)
  <2> DEFINE d == head(k)  e == head(k + 1)
  <2>1. k \in 0 .. n
    BY <1>1
  <2>2. d \in D /\ e \in BelowIn(source, d)
    BY <1>5, <1>7, <2>1
  <2> HIDE DEF d, e
  <2>3. \A x \in BelowIn(source, d) : g[x] \in Archives
    BY <1>6 DEF BelowIn, D
  <2>4. \E m \in DOMAIN UnderBody(source, g, d) :
          UnderBody(source, g, d)[m] = UnderPart(source, g, e)[j]
    <3>1. j \in DOMAIN UnderPart(source, g, e)
      BY <1>8 DEF e
    <3>2. d \in EntriesOf(source) \cup {<<>>}
      BY <2>2 DEF D
    <3> QED
      BY <2>2, <2>3, <3>1, <3>2, UnderBodyIs
  <2>5. g[d] = UnderBody(source, g, d)
    BY <1>6, <2>2
  <2>6. \E m \in DOMAIN g[d] : g[d][m] = File(Rest(f, k), f)
    BY <1>8, <2>4, <2>5 DEF e
  <2> QED
    BY <2>6 DEF d
<1>9. 0 \in T
  <2> DEFINE k == n - 1
  <2>1. k \in 0 .. n - 1 /\ k + 1 = n /\ n - 1 - 0 = k /\ 0 \in 0 .. n - 1
    BY <1>1
  <2> HIDE DEF k
  <2>2. Rest(f, k) = <<f[k + 1]>>
    BY <1>1, <2>1, RestIs DEF n
  <2>3. head(k + 1) = f /\ f \in source.files /\ Last(f) = f[k + 1]
    BY <1>4, <1>7, <2>1
  <2>4. UnderPart(source, g, f) = <<File(Rest(f, k), f)>>
    BY <2>2, <2>3, Zenon DEF UnderPart
  <2>5. 1 \in DOMAIN <<File(Rest(f, k), f)>> /\ <<File(Rest(f, k), f)>>[1] = File(Rest(f, k), f)
    OBVIOUS
  <2> HIDE DEF Has
  <2>6. Has(k)
    BY <1>8, <2>1, <2>3, <2>4, <2>5
  <2> QED
    BY <2>1, <2>6
<1>10. ASSUME NEW i \in 1 .. n - 1, i - 1 \in T PROVE i \in T
  <2> DEFINE k == n - 1 - i  e == head(k + 1)
  <2>1. /\ k \in 0 .. n - 1 /\ k + 1 \in 0 .. n - 1 /\ k + 1 # n
        /\ n - 1 - (i - 1) = k + 1 /\ i \in 0 .. n - 1 /\ k + 1 \in 0 .. n
    BY <1>1
  <2>2. Has(k + 1)
    BY <1>10, <2>1
  <2> HIDE DEF k
  <2>3. PICK m \in DOMAIN g[e] : g[e][m] = File(Rest(f, k + 1), f)
    BY <2>2
  <2>4. e \notin source.files /\ Last(e) = f[k + 1]
    BY <1>7, <2>1
  <2>5. <<f[k + 1]>> \o Rest(f, k + 1) = Rest(f, k)
    BY <1>1, <2>1, RestIs DEF n
  <2> HIDE DEF e
  <2>6. UnderPart(source, g, e) =
          [j \in DOMAIN g[e] |-> File(<<Last(e)>> \o g[e][j].Path, g[e][j].from)]
    BY <2>4, Zenon DEF UnderPart
  <2>7. g[e][m].Path = Rest(f, k + 1) /\ g[e][m].from = f
    BY <2>3 DEF File
  <2>8. m \in DOMAIN UnderPart(source, g, e) /\ UnderPart(source, g, e)[m] = File(Rest(f, k), f)
    BY <2>4, <2>5, <2>6, <2>7
  <2> HIDE DEF Has
  <2>9. Has(k)
    BY <1>8, <2>1, <2>8 DEF e
  <2> QED
    BY <2>1, <2>9 DEF k
<1>11. Has(0)
  <2>1. n - 1 \in Nat /\ n - 1 \in 0 .. n - 1 /\ n - 1 - (n - 1) = 0
    BY <1>1
  <2> HIDE DEF T
  <2>2. 0 .. n - 1 \subseteq T
    BY <1>9, <1>10, <2>1, Upwards
  <2>3. n - 1 \in T
    BY <2>1, <2>2
  <2> HIDE DEF Has
  <2> QED
    BY <2>1, <2>3 DEF T
<1>12. Rest(f, 0) = f
  BY <1>1 DEF Rest, n
<1> QED
  BY <1>4, <1>6, <1>11, <1>12 DEF D

(* A directory of any depth and any names: every file is among the files   *)
(* that become layers, at its own path below the destination.              *)
THEOREM DirectoriesArePacked ==
  ASSUME NEW source, IsTree(source), NEW newPath, NEW f \in source.files
  PROVE  \E i \in DOMAIN tarDirToDir(source, <<>>, newPath) :
           tarDirToDir(source, <<>>, newPath)[i] = File(newPath \o f, f)
<1> DEFINE under == CHOOSE g : IsUnder(g, source)
           all == under[<<>>]
<1>1. IsUnder(under, source)
  BY UnderExists, Zenon
<1> HIDE DEF under
<1>2. PICK m \in DOMAIN all : all[m] = File(f, f)
  BY <1>1, FilesArePlaced
<1>3. tarDirToDir(source, <<>>, newPath) =
        [i \in DOMAIN all |-> File(newPath \o all[i].Path, all[i].from)]
  BY TreeRecurs, Zenon DEF under
<1> HIDE DEF all
<1>4. all[m].Path = f /\ all[m].from = f
  BY <1>2 DEF File
<1> QED
  BY <1>2, <1>3, <1>4

LEMMA SourcesAre ==
  ASSUME NEW s \in FileSources
  PROVE  /\ s.kind \in {"url", "file", "symlink", "absent", "directory"}
         /\ s.kind = "directory" /\ s.locked = {} => IsTree(s)
<1>1. ASSUME s = Unreadable
      PROVE  s.kind = "directory" /\ s.locked # {}
  BY <1>1 DEF Unreadable, Directory
<1>2. ASSUME NEW L \in Leaves, NEW K \in SUBSET L, s = Directory(L \ K, K)
      PROVE  s.kind = "directory" /\ (s.locked = {} => IsTree(s))
  <2>1. s.kind = "directory" /\ s.files = L \ K /\ s.locked = K
    BY <1>2 DEF Directory
  <2>2. /\ L \in SUBSET Strings({1, 2}, 1, MaxDepth) /\ IsFiniteSet(L)
        /\ \A p, q \in L : ~IsStrictPrefix(p, q)
    BY DEF Leaves, Subsets
  <2>3. ASSUME NEW p \in Strings({1, 2}, 1, MaxDepth) PROVE p \in Paths \ {<<>>}
    <3>1. PICK n \in 1 .. MaxDepth : p \in [1 .. n -> {1, 2}]
      BY DEF Strings
    <3>2. n \in Nat /\ p \in [1 .. n -> Nat] /\ 1 \in 1 .. n
      BY <3>1
    <3>3. p # <<>>
      <4>1. DOMAIN p = 1 .. n /\ DOMAIN <<>> = {}
        BY <3>2
      <4> QED
        BY <3>2, <4>1
    <3> QED
      BY <3>2, <3>3 DEF Paths
  <2>4. L \in SUBSET (Paths \ {<<>>})
    BY <2>2, <2>3
  <2>5. K = {} => L \ K = L
    OBVIOUS
  <2> QED
    BY <2>1, <2>2, <2>4, <2>5 DEF IsTree
<1>3. \/ \E L \in Leaves : \E K \in SUBSET L : s = Directory(L \ K, K)
      \/ s = Unreadable
      \/ s.kind \in {"url", "file", "symlink", "absent"}
  <2>1. CASE s \in Directories
    BY <2>1 DEF Directories
  <2>2. CASE s \notin Directories
    BY <2>2 DEF FileSources
  <2> QED
    BY <2>1, <2>2
<1> QED
  BY <1>1, <1>2, <1>3

Stowed ==
  call = "pack" =>
    /\ input \in [source : FileSources, slash : BOOLEAN]
    /\ output # <<>> => output = <<tarAny(input.source, Destination, input.slash)>>

(* The sources that are checked, of any depth.                             *)
THEOREM EveryFileIsPacked == AllSpec => []PacksEveryFile
<1>1. AllInit => Stowed
  BY DEF AllInit, Init, Stowed
<1>2. Stowed /\ [AllNext]_vars => Stowed'
  <2> SUFFICES ASSUME Stowed, [AllNext]_vars PROVE Stowed'
    OBVIOUS
  <2>1. CASE Pack
    BY <2>1 DEF Pack, Called, Stowed
  <2>2. CASE Next \/ PackModel \/ Start \/ Substitute \/ Route
    BY <2>2 DEF Stowed, Next, Parse, Match, Order, PackModel, Start, Substitute, Route, Called
  <2>3. CASE UNCHANGED vars
    BY <2>3 DEF Stowed, vars
  <2> QED
    BY <2>1, <2>2, <2>3 DEF AllNext
<1>3. Stowed => PacksEveryFile
  <2> SUFFICES ASSUME Stowed, call = "pack", output # <<>> PROVE PacksEveryFile
    BY Zenon DEF PacksEveryFile
  <2> DEFINE source == input.source
             made == tarAny(source, Destination, input.slash)
             files == {made.files[i] : i \in DOMAIN made.files}
             named == Destination \o source.base
             silent == source.kind = "symlink" \/ <<>> \in source.locked
  <2>1. source \in FileSources /\ output = <<made>>
    BY DEF Stowed
  <2>2. output[1] = made
    <3> HIDE DEF made
    <3> QED
      BY <2>1
  <2>3. /\ source.kind \in {"url", "file", "symlink", "absent", "directory"}
        /\ source.kind = "directory" /\ source.locked = {} => IsTree(source)
    BY <2>1, SourcesAre
  <2>4. PacksEveryFile <=>
          IF source.kind = "directory"
            THEN /\ ~made.ok <=> source.locked # {} /\ ~silent
                 /\ made.ok /\ ~silent => \A f \in source.files : File(Destination \o f, f) \in files
            ELSE made.ok /\ ~silent =>
                   files = {File(IF input.slash THEN named ELSE Destination, <<>>)}
    <3> HIDE DEF made
    <3> QED
      BY <2>2, Zenon DEF PacksEveryFile
  <2> HIDE DEF source
  <2>5. \A x : Some(x).ok = TRUE /\ Some(x).files = x
    BY DEF Some
  <2>6. ~None.ok
    BY DEF None
  <2>7. \A x : {<<x>>[i] : i \in DOMAIN <<x>>} = {x}
    OBVIOUS
  <2>8. CASE source.kind = "url"
    <3>1. made = tarRemote(source, Destination, input.slash)
      BY <2>8 DEF tarAny
    <3> HIDE DEF made
    <3>2. made.ok => made = Some(<<File(IF input.slash THEN named ELSE Destination, <<>>)>>)
      BY <2>6, <3>1 DEF tarRemote
    <3>3. made.ok => files = {File(IF input.slash THEN named ELSE Destination, <<>>)}
      BY <2>5, <2>7, <3>2
    <3> QED
      BY <2>4, <2>8, <3>3
  <2>9. CASE source.kind = "absent"
    <3>1. made = None
      BY <2>9 DEF tarAny, tarLocal
    <3> HIDE DEF made
    <3> QED
      BY <2>4, <2>6, <2>9, <3>1
  <2>10. CASE source.kind = "symlink"
    BY <2>4, <2>10
  <2>11. CASE source.kind = "file"
    <3>1. made = Some(<<File(IF input.slash THEN named ELSE Destination, <<>>)>>)
      BY <2>11 DEF tarAny, tarLocal
    <3> HIDE DEF made
    <3>2. files = {File(IF input.slash THEN named ELSE Destination, <<>>)}
      BY <2>5, <2>7, <3>1
    <3> QED
      BY <2>4, <2>11, <3>2
  <2>12. CASE source.kind = "directory"
    <3>1. made = IF <<>> \in source.locked THEN Some(<<>>)
                 ELSE IF source.locked # {} THEN None
                 ELSE Some(tarDirToDir(source, <<>>, Destination))
      BY <2>12 DEF tarAny, tarLocal
    <3> HIDE DEF made
    <3>2. ~made.ok <=> source.locked # {} /\ ~silent
      BY <2>5, <2>6, <2>12, <3>1
    <3>3. ASSUME made.ok, ~silent, NEW f \in source.files
          PROVE  File(Destination \o f, f) \in files
      <4>1. source.locked = {}
        BY <3>2, <3>3
      <4>2. made.files = tarDirToDir(source, <<>>, Destination)
        BY <2>5, <3>1, <4>1
      <4>3. PICK i \in DOMAIN tarDirToDir(source, <<>>, Destination) :
              tarDirToDir(source, <<>>, Destination)[i] = File(Destination \o f, f)
        BY <2>3, <2>12, <4>1, DirectoriesArePacked
      <4> QED
        BY <4>2, <4>3
    <3> HIDE DEF files, silent
    <3> QED
      BY <2>4, <2>12, <3>2, <3>3
  <2> QED
    BY <2>3, <2>8, <2>9, <2>10, <2>11, <2>12
<1> QED
  BY <1>1, <1>2, <1>3, PTL DEF AllSpec
================================================================================
