---------------------------- MODULE Forward_proofs ----------------------------
(***************************************************************************)
(* Forward mode, for any requests, names, platforms, moves of the base     *)
(* images, failing calls and crashes: a tag leads to a whole image, and    *)
(* where every name has a tag of its own it never goes back; what a client *)
(* is led to by a manifest it gets whole; and 500 has a cause.             *)
(***************************************************************************)
EXTENDS Forward, TLAPS

AllSteps == Steps \cup {"part", "body", "end"}

(* Names are not mixed up: each is filed under a tag of its own. *)
OwnTags == \A m, n \in Names : SavedAs[m] = SavedAs[n] => m = n

Types ==
  /\ pc \in [Requests -> AllSteps]
  /\ name \in [Requests -> Names \cup {NoOne}]
  /\ buildMutex \in [Names -> Requests \cup {NoOne}]
  /\ manifests \in [Names -> Names \cup {NoOne}]
  /\ base \in Nat
  /\ at \in [Requests -> Nat]
  /\ from \in [Requests -> Nat]
  /\ tagged \in [Names -> Nat]

(* Who is past the first step has a name, who is before a build no part of *)
(* one.                                                                    *)
Begins ==
  \A r \in Requests :
    /\ pc[r] # "idle" => name[r] \in Names
    /\ pc[r] \in {"idle", "stat", "gate", "lock", "lockwait"} => at[r] = 0

(* Who builds has its entry in the map: two do not build one name. *)
Entries == \A r \in Requests : pc[r] \in Leading => buildMutex[name[r]] = r

(* What a build pushed before its next push is in the registry. *)
Sent == \A r \in Requests : \A k \in 1 .. at[r] - 1 : <<name[r], k, from[r]>> \in stored

(* Nothing is newer than the base, *)
Ages == (\A r \in Requests : from[r] <= base) /\ (\A n \in Names : tagged[n] <= base)

(* and no tag is newer than the build that is about to replace it. *)
Behind ==
  OwnTags => \A r \in Requests : pc[r] = "build" /\ at[r] # 0 =>
    tagged[SavedAs[name[r]]] <= from[r]

TagInv == Types /\ Begins /\ Entries /\ Sent /\ TagsAreWhole /\ Ages /\ Behind

------------------------------------------------------------------------------
LEMMA ForwardInitHolds == ForwardInit => TagInv
<1> SUFFICES ASSUME ForwardInit PROVE TagInv
  OBVIOUS
<1> USE GateAssumption DEF ForwardInit, Init
<1>1. Types
  BY DEF Types, AllSteps, Steps
<1>2. Begins /\ Entries /\ Behind
  BY DEF Begins, Entries, Behind, Leading
<1>3. Sent
  <2> SUFFICES ASSUME NEW r \in Requests, NEW k \in 1 .. at[r] - 1
               PROVE  FALSE
    BY DEF Sent
  <2> QED
    OBVIOUS
<1>4. TagsAreWhole /\ Ages
  BY DEF TagsAreWhole, Ages
<1> QED
  BY <1>1, <1>2, <1>3, <1>4 DEF TagInv

(* A step that moves one request, not into a build, and touches neither    *)
(* the map of mutexes nor the registry.                                    *)
LEMMA MoveOn ==
  ASSUME TagInv, NEW r \in Requests, NEW s \in AllSteps,
         pc' = [pc EXCEPT ![r] = s],
         s \in {"idle", "lock", "lockwait", "build"} => FALSE,
         s = "stat" => FALSE,
         s = "gate" => pc[r] = "stat",
         s = "delete" => pc[r] = "build",
         pc[r] # "idle",
         UNCHANGED <<name, buildMutex, manifests, registryVars>>
  PROVE  TagInv'
<1> USE DEF TagInv, registryVars
<1>1. Types'
  BY DEF Types
<1>2. Begins'
  BY DEF Types, Begins
<1>3. Entries'
  BY DEF Types, Entries, Leading
<1>4. Sent' /\ TagsAreWhole' /\ Ages'
  BY DEF Sent, TagsAreWhole, Ages
<1>5. Behind'
  BY DEF Types, Behind
<1> QED
  BY <1>1, <1>2, <1>3, <1>4, <1>5

LEMMA ArriveKeeps ==
  ASSUME TagInv, NEW r \in Requests, Arrive(r), UNCHANGED registryVars PROVE TagInv'
<1> USE DEF TagInv, registryVars, Arrive, Goto, gateVars
<1>1. Types'
  BY DEF Types, AllSteps, Steps
<1>2. Begins'
  BY DEF Types, Begins
<1>3. Entries'
  BY DEF Types, Entries, Leading
<1>4. Sent'
  <2> SUFFICES ASSUME NEW q \in Requests, NEW k \in 1 .. at[q] - 1
               PROVE  <<name'[q], k, from[q]>> \in stored
    BY DEF Sent
  <2>1. CASE q = r
    <3>1. at[r] = 0
      BY DEF Begins
    <3> QED
      BY <2>1, <3>1
  <2>2. CASE q # r
    BY <2>2 DEF Types, Sent
  <2> QED
    BY <2>1, <2>2
<1>5. TagsAreWhole' /\ Ages'
  BY DEF TagsAreWhole, Ages
<1>6. Behind'
  BY DEF Types, Behind
<1> QED
  BY <1>1, <1>2, <1>3, <1>4, <1>5, <1>6

LEMMA LeadKeeps ==
  ASSUME TagInv, NEW r \in Requests, Lead(r), UNCHANGED registryVars PROVE TagInv'
<1> USE GateAssumption DEF TagInv, registryVars, Lead, Goto
<1>0. name[r] \in Names
  BY DEF Begins
<1>1. Types'
  BY <1>0 DEF Types, AllSteps, Steps
<1>2. Begins'
  BY DEF Types, Begins
<1>3. Entries'
  BY <1>0 DEF Types, Entries, Leading
<1>4. Sent' /\ TagsAreWhole' /\ Ages'
  BY DEF Sent, TagsAreWhole, Ages
<1>5. Behind'
  BY DEF Types, Behind
<1> QED
  BY <1>1, <1>2, <1>3, <1>4, <1>5

LEMMA LockKeeps ==
  ASSUME TagInv, NEW r \in Requests, Lock(r) \/ LockGranted(r), UNCHANGED registryVars
  PROVE  TagInv'
<1>0. /\ pc[r] \in {"lock", "lockwait"}
      /\ \E s \in {"lockwait", "build"} : pc' = [pc EXCEPT ![r] = s]
      /\ UNCHANGED <<name, buildMutex, manifests>>
  BY DEF Lock, LockGranted, Goto
<1> USE <1>0 DEF TagInv, registryVars
<1>1. Types'
  BY DEF Types, AllSteps, Steps
<1>2. Begins'
  BY DEF Types, Begins
<1>3. Entries'
  BY DEF Types, Entries, Leading
<1>4. Sent' /\ TagsAreWhole' /\ Ages'
  BY DEF Sent, TagsAreWhole, Ages
<1>5. Behind'
  BY DEF Types, Begins, Behind
<1> QED
  BY <1>1, <1>2, <1>3, <1>4, <1>5

LEMMA DeleteKeeps ==
  ASSUME TagInv, NEW r \in Requests, Delete(r), UNCHANGED registryVars PROVE TagInv'
<1> USE GateAssumption DEF TagInv, registryVars, Delete, Goto
<1>1. Types'
  BY DEF Types, AllSteps, Steps
<1>2. Begins'
  BY DEF Types, Begins
<1>3. Entries'
  BY DEF Types, Entries, Leading, Begins
<1>4. Sent' /\ TagsAreWhole' /\ Ages'
  BY DEF Sent, TagsAreWhole, Ages
<1>5. Behind'
  BY DEF Types, Behind
<1> QED
  BY <1>1, <1>2, <1>3, <1>4, <1>5

LEMMA GateKeeps == ASSUME TagInv, NEW r \in Requests, Gate(r) PROVE TagInv'
<1>1. UNCHANGED registryVars
  BY DEF Gate
<1>2. CASE Lead(r)
  BY <1>1, <1>2, LeadKeeps
<1>3. CASE Lock(r) \/ LockGranted(r)
  BY <1>1, <1>3, LockKeeps
<1>4. CASE Delete(r)
  BY <1>1, <1>4, DeleteKeeps
<1>5. CASE Follow(r) \/ RLock(r) \/ RUnlock(r) \/ Unlock(r)
  <2>1. /\ pc[r] # "idle" /\ UNCHANGED <<name, buildMutex, manifests>>
        /\ \E s \in {"rlock", "runlock", "serve", "done"} : pc' = [pc EXCEPT ![r] = s]
    BY <1>5 DEF Follow, RLock, RUnlock, Unlock, Goto
  <2> PICK s \in {"rlock", "runlock", "serve", "done"} : pc' = [pc EXCEPT ![r] = s]
    BY <2>1
  <2>2. s \in AllSteps
    BY DEF AllSteps, Steps
  <2> QED
    BY <1>1, <2>1, <2>2, MoveOn
<1> QED
  BY <1>2, <1>3, <1>4, <1>5 DEF Gate

(* Looking, answering and asking for parts leave the registry alone. *)
LEMMA AnswerKeeps ==
  ASSUME TagInv, NEW r \in Requests,
         \/ Look(r) \/ LookAgain(r) \/ Ask(r) \/ ManifestBlob(r) \/ Blob(r) \/ BlobBody(r)
  PROVE  TagInv'
<1>1. /\ pc[r] # "idle" /\ UNCHANGED <<name, buildMutex, manifests, registryVars>>
      /\ \E s \in {"gate", "done", "part", "body", "end"} :
           pc' = [pc EXCEPT ![r] = s] /\ (s = "gate" => pc[r] = "stat")
  BY DEF Look, LookAgain, Ask, ManifestBlob, Blob, BlobBody, Goto, gateVars
<1> PICK s \in {"gate", "done", "part", "body", "end"} :
      pc' = [pc EXCEPT ![r] = s] /\ (s = "gate" => pc[r] = "stat")
  BY <1>1
<1>2. s \in AllSteps
  BY DEF AllSteps, Steps
<1> QED
  BY <1>1, <1>2, MoveOn

------------------------------------------------------------------------------
LEMMA BaseKeeps == ASSUME TagInv, NEW r \in Requests, Base(r) PROVE TagInv'
<1>1. CASE pc' # pc
  <2>1. pc' = [pc EXCEPT ![r] = "delete"] /\ pc[r] = "build"
    BY <1>1 DEF Base, BuildEnds, Goto
  <2>2. UNCHANGED <<name, buildMutex, manifests, registryVars>>
    BY <1>1 DEF Base, gateVars, registryVars
  <2>3. "delete" \in AllSteps
    BY DEF AllSteps, Steps
  <2> QED
    BY <2>1, <2>2, <2>3, MoveOn
<1>2. CASE pc' = pc
  <2>0. pc[r] = "build" /\ at[r] = 0
    BY DEF Base
  <2>1. /\ at' = [at EXCEPT ![r] = 1] /\ from' = [from EXCEPT ![r] = base]
        /\ UNCHANGED <<name, buildMutex, manifests, base, stored, tagged>>
    <3>1. ~BuildEnds(r, "failed")
      BY <1>2, <2>0 DEF BuildEnds, Goto, TagInv, Types
    <3> QED
      BY <3>1 DEF Base, gateVars
  <2> USE <1>2, <2>0, <2>1 DEF TagInv
  <2>2. Types'
    BY DEF Types
  <2>3. Begins' /\ Entries'
    BY DEF Types, Begins, Entries, Leading
  <2>4. Sent'
    <3> SUFFICES ASSUME NEW q \in Requests, NEW k \in 1 .. at'[q] - 1
                 PROVE  <<name[q], k, from'[q]>> \in stored
      BY DEF Sent
    <3>1. q # r
      BY DEF Types
    <3> QED
      BY <3>1 DEF Types, Sent
  <2>5. TagsAreWhole' /\ Ages'
    BY DEF Types, TagsAreWhole, Ages
  <2>6. Behind'
    <3> SUFFICES ASSUME OwnTags, NEW q \in Requests, pc[q] = "build", at'[q] # 0
                 PROVE  tagged[SavedAs[name[q]]] <= from'[q]
      BY DEF Behind
    <3>1. CASE q = r
      <4>1. SavedAs[name[r]] \in Names
        BY GateAssumption DEF Begins
      <4> QED
        BY <3>1, <4>1 DEF Types, Ages
    <3>2. CASE q # r
      BY <3>2 DEF Types, Behind
    <3> QED
      BY <3>1, <3>2
  <2> QED
    BY <2>2, <2>3, <2>4, <2>5, <2>6
<1> QED
  BY <1>1, <1>2

(* What a push does, told apart by whether it reaches the registry and     *)
(* whether the build goes on.                                              *)
LEMMA PushIs ==
  ASSUME TagInv, NEW r \in Requests, Push(r)
  PROVE  /\ pc[r] = "build" /\ UNCHANGED <<name, buildMutex, base, from>>
         /\ Lands(r) \/ UNCHANGED <<stored, manifests, tagged>>
         /\ \/ UNCHANGED at /\ pc' = [pc EXCEPT ![r] = "delete"]
            \/ /\ at' = [at EXCEPT ![r] = @ + 1] /\ UNCHANGED pc
               /\ Lands(r) /\ at[r] # TagPush(name[r])
BY DEF Push, BuildEnds, Goto, gateVars

LEMMA PushKeeps ==
  ASSUME TagInv, NEW r \in Requests, Push(r), at[r] # 0 PROVE TagInv'
<1> USE DEF TagInv
<1>0. /\ pc[r] = "build" /\ UNCHANGED <<name, buildMutex, base, from>>
      /\ name[r] \in Names /\ SavedAs[name[r]] \in Names
  BY PushIs, GateAssumption DEF Begins
<1>1. stored \subseteq stored'
  BY PushIs DEF Lands
<1>2. /\ manifests' = manifests /\ tagged' = tagged
      \/ /\ at[r] = TagPush(name[r]) /\ <<name[r], at[r], from[r]>> \in stored'
         /\ manifests' = [manifests EXCEPT ![SavedAs[name[r]]] = name[r]]
         /\ tagged' = [tagged EXCEPT ![SavedAs[name[r]]] = from[r]]
  BY PushIs DEF Lands
<1>3. \/ UNCHANGED at /\ pc' = [pc EXCEPT ![r] = "delete"]
      \/ /\ at' = [at EXCEPT ![r] = @ + 1] /\ UNCHANGED pc
         /\ <<name[r], at[r], from[r]>> \in stored'
  BY PushIs DEF Lands
<1>4. Types'
  BY <1>0, <1>2, <1>3 DEF Types, AllSteps, Steps
<1>5. Begins' /\ Entries'
  BY <1>0, <1>3 DEF Types, Begins, Entries, Leading
<1>6. Sent'
  <2> SUFFICES ASSUME NEW q \in Requests, NEW k \in 1 .. at'[q] - 1
               PROVE  <<name[q], k, from[q]>> \in stored'
    BY <1>0 DEF Sent
  <2>1. CASE k \in 1 .. at[q] - 1
    BY <1>1, <2>1 DEF Sent
  <2>2. CASE k \notin 1 .. at[q] - 1
    <3>1. q = r /\ at'[r] = at[r] + 1 /\ <<name[r], at[r], from[r]>> \in stored'
      BY <1>3, <2>2 DEF Types
    <3>2. k = at[r]
      BY <2>2, <3>1 DEF Types
    <3> QED
      BY <3>1, <3>2
  <2> QED
    BY <2>1, <2>2
<1>7. TagsAreWhole'
  <2>1. CASE manifests' = manifests /\ tagged' = tagged
    BY <1>1, <2>1 DEF TagsAreWhole
  <2>2. CASE manifests' # manifests \/ tagged' # tagged
    <3> SUFFICES ASSUME NEW n \in Names, manifests'[n] # NoOne,
                        NEW k \in 1 .. TagPush(manifests'[n])
                 PROVE  <<manifests'[n], k, tagged'[n]>> \in stored'
      BY DEF TagsAreWhole
    <3>1. CASE n = SavedAs[name[r]]
      <4>1. manifests'[n] = name[r] /\ tagged'[n] = from[r]
        BY <1>2, <2>2, <3>1 DEF Types
      <4>2. k \in 1 .. at[r]
        BY <1>2, <2>2, <4>1
      <4>3. CASE k = at[r]
        BY <1>2, <2>2, <4>1, <4>3
      <4>4. CASE k # at[r]
        <5>1. k \in 1 .. at[r] - 1
          BY <4>2, <4>4 DEF Types
        <5> QED
          BY <1>1, <4>1, <5>1 DEF Sent
      <4> QED
        BY <4>3, <4>4
    <3>2. CASE n # SavedAs[name[r]]
      <4>1. manifests'[n] = manifests[n] /\ tagged'[n] = tagged[n]
        BY <1>2, <3>2 DEF Types
      <4> QED
        BY <1>1, <4>1 DEF TagsAreWhole
    <3> QED
      BY <3>1, <3>2
  <2> QED
    BY <2>1, <2>2
<1>8. Ages'
  BY <1>0, <1>2 DEF Types, Ages
<1>9. Behind'
  <2> SUFFICES ASSUME OwnTags, NEW q \in Requests, pc'[q] = "build", at'[q] # 0
               PROVE  tagged'[SavedAs[name[q]]] <= from[q]
    BY <1>0 DEF Behind
  <2>1. pc[q] = "build" /\ at[q] # 0 /\ name[q] \in Names /\ SavedAs[name[q]] \in Names
    BY <1>3, GateAssumption DEF Types, Begins
  <2>2. tagged[SavedAs[name[q]]] <= from[q]
    BY <2>1 DEF Behind
  <2>3. CASE q = r
    BY <1>0, <1>2, <2>2, <2>3 DEF Types
  <2>4. CASE q # r
    <3>1. name[q] # name[r]
      BY <1>0, <2>1, <2>4 DEF Entries, Leading
    <3>2. SavedAs[name[q]] # SavedAs[name[r]]
      BY <1>0, <2>1, <3>1 DEF OwnTags
    <3> QED
      BY <1>2, <2>1, <2>2, <3>2 DEF Types
  <2> QED
    BY <2>3, <2>4
<1> QED
  BY <1>4, <1>5, <1>6, <1>7, <1>8, <1>9

LEMMA PushesKeep ==
  ASSUME TagInv, NEW r \in Requests, Upload(r) \/ PushByDigest(r) \/ PushTag(r)
  PROVE  TagInv'
<1>1. Push(r) /\ at[r] # 0
  BY ForwardAssumption, GateAssumption
     DEF Upload, PushByDigest, PushTag, TagPush, TagInv, Types, Begins
<1> QED
  BY <1>1, PushKeeps

------------------------------------------------------------------------------
LEMMA MoveKeeps == ASSUME TagInv, Move PROVE TagInv'
<1> USE DEF TagInv, Move, vars
<1>1. Types'
  BY DEF Types
<1>2. Begins' /\ Entries' /\ Sent' /\ TagsAreWhole' /\ Behind'
  BY DEF Begins, Entries, Sent, TagsAreWhole, Behind
<1>3. Ages'
  BY DEF Types, Ages
<1> QED
  BY <1>1, <1>2, <1>3

LEMMA CrashKeeps == ASSUME TagInv, Crash PROVE TagInv'
<1>1. /\ pc' \in [Requests -> AllSteps]
      /\ \A r \in Requests : pc'[r] \in {"idle", "done", "end"}
                             /\ (pc'[r] = "idle" <=> pc[r] = "idle")
  BY DEF Crash, TagInv, Types, AllSteps, Steps
<1>2. /\ buildMutex' \in [Names -> Requests \cup {NoOne}]
      /\ UNCHANGED <<name, manifests, registryVars>>
  BY DEF Crash
<1> USE <1>1, <1>2 DEF TagInv, registryVars
<1>3. Types'
  BY DEF Types
<1>4. Begins' /\ Entries' /\ Behind'
  BY DEF Begins, Entries, Behind, Leading
<1>5. Sent' /\ TagsAreWhole' /\ Ages'
  BY DEF Sent, TagsAreWhole, Ages
<1> QED
  BY <1>3, <1>4, <1>5

LEMMA QuietKeeps == ASSUME TagInv, UNCHANGED forwardVars PROVE TagInv'
BY DEF TagInv, Types, Begins, Entries, Sent, TagsAreWhole, Ages, Behind, forwardVars, vars,
       registryVars

LEMMA ForwardNextKeeps == TagInv /\ [ForwardNext]_forwardVars => TagInv'
<1> SUFFICES ASSUME TagInv, [ForwardNext]_forwardVars PROVE TagInv'
  OBVIOUS
<1>1. ASSUME NEW r \in Requests, Arrive(r), UNCHANGED registryVars PROVE TagInv'
  BY <1>1, ArriveKeeps
<1>2. ASSUME NEW r \in Requests, Serves(r) PROVE TagInv'
  BY <1>2, AnswerKeeps, GateKeeps, BaseKeeps, PushesKeep DEF Serves
<1>3. ASSUME NEW r \in Requests, Ask(r) PROVE TagInv'
  BY <1>3, AnswerKeeps
<1> QED
  BY <1>1, <1>2, <1>3, MoveKeeps, CrashKeeps, QuietKeeps DEF ForwardNext, ForwardQuiet

------------------------------------------------------------------------------
(* The invariant holds in every behaviour. *)
THEOREM TagInvariance == ForwardSpec => []TagInv
BY ForwardInitHolds, ForwardNextKeeps, PTL DEF ForwardSpec

(* Any number of builds, platforms, faults and crashes: what a tag leads   *)
(* to was pushed before it.                                                *)
THEOREM WholeTags == ForwardSpec => []TagsAreWhole
<1>1. TagInv => TagsAreWhole
  BY DEF TagInv
<1> QED
  BY TagInvariance, <1>1, PTL

LEMMA StepForward ==
  ASSUME OwnTags, TagInv, [ForwardNext]_forwardVars, NEW n \in Names PROVE tagged'[n] >= tagged[n]
<1>1. CASE tagged' = tagged
  BY <1>1 DEF TagInv, Types
<1>2. CASE tagged' # tagged
  <2>1. PICK r \in Requests : Push(r) /\ at[r] # 0
    <3>1. \E r \in Requests : Upload(r) \/ PushByDigest(r) \/ PushTag(r)
      BY <1>2 DEF ForwardNext, ForwardQuiet, forwardVars, registryVars, Serves, Look, Gate,
         Base, LookAgain, Ask, ManifestBlob, Blob, BlobBody, Move, Crash
    <3> QED
      BY <3>1, ForwardAssumption, GateAssumption
         DEF Upload, PushByDigest, PushTag, TagPush, TagInv, Types, Begins
  <2>2. /\ pc[r] = "build" /\ SavedAs[name[r]] \in Names
        /\ tagged' = [tagged EXCEPT ![SavedAs[name[r]]] = from[r]]
    BY <1>2, <2>1, PushIs, GateAssumption DEF Lands, TagInv, Begins
  <2>3. tagged[SavedAs[name[r]]] <= from[r]
    BY <2>1, <2>2 DEF TagInv, Behind
  <2> QED
    BY <2>2, <2>3 DEF TagInv, Types
<1> QED
  BY <1>1, <1>2

(* Where every name has its own tag, no tag ever goes back to an older     *)
(* base, whatever is looked up in vain, lost or started again.             *)
THEOREM TagsMoveForward == ASSUME OwnTags PROVE ForwardSpec => TagMovesForward
<1>1. TagInv /\ [ForwardNext]_forwardVars =>
        [\A n \in Names : manifests[n] # NoOne => tagged'[n] >= tagged[n]]_forwardVars
  BY OwnTags, StepForward
<1> QED
  BY <1>1, TagInvariance, PTL DEF ForwardSpec, TagMovesForward
------------------------------------------------------------------------------
(* What a client is told and asks for. *)
Responses ==
  [status : {0, 200, 500}, length : {"none", "known"},
   body : {"none", "whole", "error", "cut"}]

AnswerTypes ==
  /\ mutex \in [Requests -> Requests \cup {NoOne}]
  /\ outcome \in [Requests -> {"none", "ok", "failed"}]
  /\ reply \in [Requests -> {"none", "manifest", "internal"}]
  /\ served \in [Requests -> Names \cup {NoOne}]
  /\ given \in [Requests -> Nat]
  /\ part \in [Requests -> stored \cup {<<>>}]
  /\ resp \in [Requests -> Responses]
  /\ faults \in Nat

(* What the manifest of an answer leads to is there, and stays. *)
Given ==
  \A r \in Requests : reply[r] = "manifest" =>
    /\ getPuller(StorageHost) /\ served[r] \in Names
    /\ \A k \in 1 .. TagPush(served[r]) : <<served[r], k, given[r]>> \in stored

(* Only such content is asked for, and no response ends before it. *)
Part(r) ==
  /\ pc[r] \in {"part", "body"} =>
       getPuller(StorageHost) /\ part[r] \in stored /\ part[r] # <<>>
  /\ pc[r] \notin {"body", "end"} => resp[r] = NoResponse
  /\ pc[r] = "body" => resp[r] = [status |-> 200, length |-> "known", body |-> "none"]
  /\ pc[r] = "end" =>
       /\ resp[r].status = 200 /\ resp[r].body = "cut" => resp[r].length # "none"
       /\ resp[r].status = 200 => resp[r].body \in {"cut", "whole"}
       /\ faults = 0 => resp[r].status = 200 /\ resp[r].body = "whole"

PartInv == AnswerTypes /\ Given /\ \A r \in Requests : Part(r)

(* Who is entered for a name is building it. *)
Owners ==
  \A n \in Names : buildMutex[n] # NoOne =>
    /\ buildMutex[n] \in Requests
    /\ pc[buildMutex[n]] \in Leading /\ name[buildMutex[n]] = n

(* While nothing fails: a leader's build ends with the tag in place, and   *)
(* who is another's follower is not its own.                               *)
Cause(r) ==
  /\ pc[r] \notin {"done", "part", "body", "end"} => reply[r] # "internal"
  /\ pc[r] \in Leading \cup {"unlock", "rlock", "runlock", "serve"} => mutex[r] # NoOne
  /\ pc[r] \in {"rlock", "runlock"} => mutex[r] # r
  /\ pc[r] \in {"delete", "unlock"} => outcome[r] = "ok"
  /\ pc[r] \in {"delete", "unlock"} \/ (pc[r] = "serve" /\ mutex[r] = r) =>
       manifests[SavedAs[name[r]]] # NoOne
  /\ reply[r] = "internal" => mutex[r] \notin {r, NoOne}

CauseInv == Owners /\ (faults = 0 => \A r \in Requests : Cause(r))

(* The credentials of the rules let the handler in where it has to be. *)
Admitted == getPuller(BaseHost) /\ getPusher(StorageHost) /\ getPuller(StorageHost)

Asking == {"part", "body", "end"}

LEMMA AnswerInitHolds == ForwardInit => PartInv /\ CauseInv
<1> SUFFICES ASSUME ForwardInit PROVE PartInv /\ CauseInv
  OBVIOUS
<1> USE GateAssumption DEF ForwardInit, Init, NoResponse
<1>1. AnswerTypes
  BY DEF AnswerTypes, Responses
<1>2. Given /\ \A r \in Requests : Part(r)
  BY DEF Given, Part
<1>3. CauseInv
  BY DEF CauseInv, Owners, Cause, Leading
<1> QED
  BY <1>1, <1>2, <1>3 DEF PartInv

(* A step of a request that asks for nothing yet. *)
LEMMA ServerKeepsPart ==
  ASSUME TagInv, PartInv, NEW r \in Requests, NEW s \in AllSteps \ Asking,
         pc[r] \notin Asking, pc' = [pc EXCEPT ![r] = s],
         stored \subseteq stored', faults' \in {faults, faults + 1},
         mutex' \in [Requests -> Requests \cup {NoOne}],
         outcome' \in [Requests -> {"none", "ok", "failed"}],
         reply' = reply \/ reply' = [reply EXCEPT ![r] = "internal"],
         UNCHANGED <<served, given, part, resp>>
  PROVE  PartInv'
<1> USE DEF PartInv
<1>1. AnswerTypes'
  <2>1. reply' \in [Requests -> {"none", "manifest", "internal"}]
    BY DEF AnswerTypes
  <2>2. part' \in [Requests -> stored' \cup {<<>>}] /\ faults' \in Nat
    BY DEF AnswerTypes
  <2> QED
    BY <2>1, <2>2 DEF AnswerTypes
<1>2. Given'
  BY DEF AnswerTypes, Given
<1>3. ASSUME NEW q \in Requests PROVE Part(q)'
  <2>1. CASE q = r
    BY <2>1 DEF TagInv, Types, AnswerTypes, Part, Asking
  <2>2. CASE q # r
    BY <2>2 DEF TagInv, Types, AnswerTypes, Part
  <2> QED
    BY <2>1, <2>2
<1> QED
  BY <1>1, <1>2, <1>3

LEMMA GateIs ==
  ASSUME TagInv, PartInv, NEW r \in Requests, Gate(r)
  PROVE  /\ \E s \in Steps : pc' = [pc EXCEPT ![r] = s]
         /\ pc[r] \notin Asking /\ mutex' \in [Requests -> Requests \cup {NoOne}]
         /\ reply' = reply \/ reply' = [reply EXCEPT ![r] = "internal"]
         /\ UNCHANGED <<outcome, served, stored, given, part, resp, faults>>
<1> USE DEF Gate, Goto, Asking, Steps, registryVars, clientVars
<1>1. CASE Lead(r) \/ Follow(r)
  <2>1. mutex' \in [Requests -> Requests \cup {NoOne}]
    BY <1>1 DEF Lead, Follow, TagInv, Types, Begins, PartInv, AnswerTypes
  <2> QED
    BY <1>1, <2>1 DEF Lead, Follow
<1>2. CASE RLock(r) \/ RUnlock(r) \/ Lock(r) \/ LockGranted(r) \/ Delete(r) \/ Unlock(r)
  <2>1. UNCHANGED mutex
    BY <1>2 DEF RLock, RUnlock, Lock, LockGranted, Delete, Unlock
  <2> QED
    BY <1>2, <2>1
       DEF RLock, RUnlock, Lock, LockGranted, Delete, Unlock, PartInv, AnswerTypes
<1> QED
  BY <1>1, <1>2

LEMMA GateKeepsPart == ASSUME TagInv, PartInv, NEW r \in Requests, Gate(r) PROVE PartInv'
<1>1. PICK s \in Steps : pc' = [pc EXCEPT ![r] = s]
  BY GateIs
<1>2. s \in AllSteps \ Asking
  BY <1>1 DEF Steps, AllSteps, Asking
<1>3. outcome' \in [Requests -> {"none", "ok", "failed"}] /\ stored \subseteq stored'
  BY GateIs DEF PartInv, AnswerTypes
<1> HIDE DEF PartInv, TagInv
<1> QED
  BY <1>1, <1>2, <1>3, GateIs, ServerKeepsPart

(* Arriving, reading the base, pushing. *)
LEMMA BuildKeepsPart ==
  ASSUME TagInv, PartInv, NEW r \in Requests,
         \/ Arrive(r) /\ UNCHANGED <<registryVars, clientVars, faults>>
         \/ Base(r) \/ Upload(r) \/ PushByDigest(r) \/ PushTag(r)
  PROVE  PartInv'
<1>1. /\ pc[r] \in {"idle", "build"} /\ UNCHANGED <<mutex, reply, served, given, part, resp>>
      /\ stored \subseteq stored' /\ faults' \in {faults, faults + 1}
      /\ outcome' = outcome \/ \E o \in {"ok", "failed"} : outcome' = [outcome EXCEPT ![r] = o]
      /\ \/ pc' = pc \/ pc' = [pc EXCEPT ![r] = "delete"] \/ pc' = [pc EXCEPT ![r] = "stat"]
  BY DEF Arrive, Base, Upload, PushByDigest, PushTag, Push, Lands, BuildEnds, Goto, FailsIf,
         gateVars, registryVars, clientVars
<1>2. outcome' \in [Requests -> {"none", "ok", "failed"}]
      /\ mutex' \in [Requests -> Requests \cup {NoOne}]
  BY <1>1 DEF PartInv, AnswerTypes
<1>3. PICK s \in AllSteps \ Asking : pc' = [pc EXCEPT ![r] = s]
  BY <1>1 DEF TagInv, Types, AllSteps, Steps, Asking
<1> QED
  BY <1>1, <1>2, <1>3, ServerKeepsPart DEF Asking

(* An answer is of a tag, and a tag leads to a whole image. *)
LEMMA LookKeepsPart ==
  ASSUME TagInv, PartInv, NEW r \in Requests, Look(r) \/ LookAgain(r) PROVE PartInv'
<1> DEFINE saved == SavedAs[name[r]]
<1>1. /\ pc[r] \in {"stat", "serve"} /\ saved \in Names
      /\ pc' = [pc EXCEPT ![r] = "done"] \/ pc' = [pc EXCEPT ![r] = "gate"]
      /\ UNCHANGED <<mutex, outcome, stored, part, resp>>
      /\ \/ Found(r)
         \/ /\ reply' = reply \/ reply' = [reply EXCEPT ![r] = "internal"]
            /\ faults' \in {faults, faults + 1} /\ UNCHANGED <<served, given>>
  BY GateAssumption
     DEF Look, LookAgain, Goto, NotFound, FailsIf, gateVars, registryVars, TagInv, Begins
<1>2. PICK s \in {"done", "gate"} : pc' = [pc EXCEPT ![r] = s]
  BY <1>1
<1>3. s \in AllSteps \ Asking
  BY DEF AllSteps, Steps, Asking
<1>4. CASE Found(r)
  <2> USE DEF PartInv
  <2>1. /\ getPuller(StorageHost) /\ manifests[saved] \in Names /\ tagged[saved] \in Nat
        /\ reply' = [reply EXCEPT ![r] = "manifest"]
        /\ served' = [served EXCEPT ![r] = manifests[saved]]
        /\ given' = [given EXCEPT ![r] = tagged[saved]] /\ UNCHANGED faults
        /\ \A k \in 1 .. TagPush(manifests[saved]) :
             <<manifests[saved], k, tagged[saved]>> \in stored
    BY <1>1, <1>4 DEF Found, TagInv, Types, TagsAreWhole
  <2>2. AnswerTypes'
    <3>1. /\ reply' \in [Requests -> {"none", "manifest", "internal"}]
          /\ served' \in [Requests -> Names \cup {NoOne}]
          /\ given' \in [Requests -> Nat]
      BY <2>1 DEF AnswerTypes
    <3> QED
      BY <1>1, <2>1, <3>1 DEF AnswerTypes
  <2>3. Given'
    <3> SUFFICES ASSUME NEW q \in Requests, reply'[q] = "manifest"
                 PROVE  /\ getPuller(StorageHost) /\ served'[q] \in Names
                        /\ \A k \in 1 .. TagPush(served'[q]) :
                             <<served'[q], k, given'[q]>> \in stored'
      BY DEF Given, getPuller
    <3>1. CASE q = r
      <4>1. served'[r] = manifests[saved] /\ given'[r] = tagged[saved]
        BY <2>1 DEF AnswerTypes
      <4> QED
        BY <1>1, <2>1, <3>1, <4>1
    <3>2. CASE q # r
      <4>1. reply[q] = "manifest" /\ served'[q] = served[q] /\ given'[q] = given[q]
        BY <2>1, <3>2 DEF AnswerTypes
      <4> QED
        BY <1>1, <4>1 DEF Given
    <3> QED
      BY <3>1, <3>2
  <2>4. ASSUME NEW q \in Requests PROVE Part(q)'
    BY <1>1, <1>2, <2>1 DEF TagInv, Types, AnswerTypes, Part
  <2> QED
    BY <2>2, <2>3, <2>4
<1>5. CASE ~Found(r)
  <2>1. /\ outcome' \in [Requests -> {"none", "ok", "failed"}]
        /\ mutex' \in [Requests -> Requests \cup {NoOne}]
    BY <1>1 DEF PartInv, AnswerTypes
  <2>2. pc[r] \notin Asking /\ stored \subseteq stored'
    BY <1>1 DEF Asking
  <2> QED
    BY <1>1, <1>2, <1>3, <1>5, <2>1, <2>2, ServerKeepsPart
<1> QED
  BY <1>4, <1>5

(* What else happens leaves the answers alone, and the registry. *)
LEMMA PartInvFrom ==
  ASSUME PartInv, UNCHANGED <<outcome, reply, served, given, stored>>,
         mutex' \in [Requests -> Requests \cup {NoOne}],
         part' \in [Requests -> stored \cup {<<>>}],
         resp' \in [Requests -> Responses], faults' \in Nat,
         \A r \in Requests : Part(r)'
  PROVE  PartInv'
<1>1. AnswerTypes'
  BY DEF PartInv, AnswerTypes
<1>2. Given'
  BY DEF PartInv, Given, getPuller
<1> QED
  BY <1>1, <1>2 DEF PartInv

LEMMA AskKeepsPart == ASSUME TagInv, PartInv, NEW r \in Requests, Ask(r) PROVE PartInv'
<1>1. PICK k \in 1 .. TagPush(served[r]) - 1 :
        part' = [part EXCEPT ![r] = <<served[r], k, given[r]>>]
  BY DEF Ask
<1>2. /\ pc[r] = "done" /\ pc' = [pc EXCEPT ![r] = "part"]
      /\ reply[r] = "manifest"
      /\ UNCHANGED <<mutex, outcome, reply, served, given, stored, resp, faults>>
  BY DEF Ask, Goto, gateVars, registryVars
<1>3. getPuller(StorageHost) /\ <<served[r], k, given[r]>> \in stored
  <2>1. served[r] \in Names
    BY <1>2 DEF PartInv, Given
  <2>2. TagPush(served[r]) \in Nat
    BY <2>1, ForwardAssumption DEF TagPush
  <2> QED
    BY <1>2, <2>2 DEF PartInv, Given
<1>4. <<served[r], k, given[r]>> # <<>>
  OBVIOUS
<1>5. part' \in [Requests -> stored \cup {<<>>}]
  BY <1>1, <1>3 DEF PartInv, AnswerTypes
<1>6. ASSUME NEW q \in Requests PROVE Part(q)'
  <2>1. CASE q = r
    <3>1. part'[r] = <<served[r], k, given[r]>> /\ pc'[r] = "part"
      BY <1>1, <1>2 DEF PartInv, AnswerTypes, TagInv, Types
    <3> QED
      BY <1>2, <1>3, <1>4, <2>1, <3>1 DEF PartInv, Part, getPuller
  <2>2. CASE q # r
    <3>1. part'[q] = part[q] /\ pc'[q] = pc[q]
      BY <1>1, <1>2, <2>2 DEF PartInv, AnswerTypes, TagInv, Types
    <3> QED
      BY <1>2, <3>1 DEF PartInv, Part, getPuller
  <2> QED
    BY <2>1, <2>2
<1> QED
  BY <1>2, <1>5, <1>6, PartInvFrom DEF PartInv, AnswerTypes

(* What a request for a part comes to. *)
LEMMA PartIs ==
  ASSUME TagInv, PartInv, NEW r \in Requests, ManifestBlob(r) \/ Blob(r) \/ BlobBody(r)
  PROVE  /\ pc[r] \in {"part", "body"}
         /\ UNCHANGED <<mutex, outcome, reply, served, given, stored, part>>
         /\ faults' \in {faults, faults + 1}
         /\ \E s \in {"body", "end"}, x \in Responses :
              /\ pc' = [pc EXCEPT ![r] = s] /\ resp' = [resp EXCEPT ![r] = x]
              /\ s = "body" => x = [status |-> 200, length |-> "known", body |-> "none"]
              /\ s = "end" /\ x.status = 200 =>
                   x.body = "whole" \/ (x.body = "cut" /\ x.length = "known")
              /\ s = "end" => faults' = faults + 1 \/ (x.status = 200 /\ x.body = "whole")
<1>0. UNCHANGED <<mutex, outcome, reply, served, given, stored, part>>
  BY DEF ManifestBlob, Blob, BlobBody, gateVars, registryVars
<1>1. CASE ManifestBlob(r) \/ Blob(r)
  <2>1. pc[r] = "part" /\ getPuller(StorageHost) /\ part[r] \in stored
    BY <1>1 DEF ManifestBlob, Blob, Goto, PartInv, Part
  <2>2. Missing(r) => faults' = faults + 1
    BY <2>1 DEF Missing, FailsIf
  <2> DEFINE whole == [status |-> 200, length |-> "known", body |-> "whole"]
             begun == [status |-> 200, length |-> "known", body |-> "none"]
             error == [status |-> 500, length |-> "none", body |-> "error"]
  <2>3. {whole, begun, error} \subseteq Responses
    BY DEF Responses
  <2>4. \/ /\ pc' = [pc EXCEPT ![r] = "end"] /\ resp' = [resp EXCEPT ![r] = whole]
           /\ UNCHANGED faults
        \/ /\ pc' = [pc EXCEPT ![r] = "body"] /\ resp' = [resp EXCEPT ![r] = begun]
           /\ UNCHANGED faults
        \/ /\ pc' = [pc EXCEPT ![r] = "end"] /\ resp' = [resp EXCEPT ![r] = error]
           /\ faults' = faults + 1
    BY <1>1, <2>2 DEF ManifestBlob, Blob, Goto, Respond
  <2> QED
    BY <1>0, <2>1, <2>3, <2>4
<1>2. CASE BlobBody(r)
  <2>1. /\ pc[r] = "body" /\ pc' = [pc EXCEPT ![r] = "end"]
        /\ resp[r] = [status |-> 200, length |-> "known", body |-> "none"]
    BY <1>2 DEF BlobBody, Goto, PartInv, Part
  <2> DEFINE got(body) == [status |-> 200, length |-> "known", body |-> body]
             error == [status |-> 500, length |-> "known", body |-> "error"]
  <2>2. {got("whole"), got("cut"), error} \subseteq Responses
    BY DEF Responses
  <2>3. \A body : [resp[r] EXCEPT !.body = body] = got(body)
    BY <2>1
  <2>4. \/ resp' = [resp EXCEPT ![r] = got("whole")] /\ UNCHANGED faults
        \/ resp' = [resp EXCEPT ![r] = error] /\ faults' = faults + 1
        \/ resp' = [resp EXCEPT ![r] = got("cut")] /\ faults' = faults + 1
    BY <1>2, <2>1, <2>3 DEF BlobBody, Respond, FailsIf
  <2> QED
    BY <1>0, <2>1, <2>2, <2>4
<1> QED
  BY <1>1, <1>2

LEMMA PartKeepsPart ==
  ASSUME TagInv, PartInv, NEW r \in Requests, ManifestBlob(r) \/ Blob(r) \/ BlobBody(r)
  PROVE  PartInv'
<1>1. /\ pc[r] \in {"part", "body"}
      /\ UNCHANGED <<mutex, outcome, reply, served, given, stored, part>>
      /\ faults' \in {faults, faults + 1}
  BY PartIs
<1>2. PICK s \in {"body", "end"}, x \in Responses :
        /\ pc' = [pc EXCEPT ![r] = s] /\ resp' = [resp EXCEPT ![r] = x]
        /\ s = "body" => x = [status |-> 200, length |-> "known", body |-> "none"]
        /\ s = "end" /\ x.status = 200 =>
             x.body = "whole" \/ (x.body = "cut" /\ x.length = "known")
        /\ s = "end" => faults' = faults + 1 \/ (x.status = 200 /\ x.body = "whole")
  BY PartIs
<1>3. /\ pc'[r] = s /\ resp'[r] = x
      /\ \A q \in Requests \ {r} : pc'[q] = pc[q] /\ resp'[q] = resp[q]
      /\ resp' \in [Requests -> Responses] /\ faults \in Nat
  BY <1>2 DEF PartInv, AnswerTypes, TagInv, Types
<1>4. ASSUME NEW q \in Requests PROVE Part(q)'
  <2>1. CASE q = r
    BY <1>1, <1>2, <1>3, <2>1 DEF PartInv, Part, getPuller
  <2>2. CASE q # r
    <3>1. Part(q) /\ pc'[q] = pc[q] /\ resp'[q] = resp[q]
      BY <1>3, <2>2 DEF PartInv
    <3> QED
      BY <1>1, <1>3, <3>1 DEF Part, getPuller
  <2> QED
    BY <2>1, <2>2
<1> QED
  BY <1>1, <1>3, <1>4, PartInvFrom DEF PartInv, AnswerTypes

LEMMA CrashKeepsPart == ASSUME TagInv, PartInv, Crash PROVE PartInv'
<1>1. /\ faults' = faults + 1 /\ faults \in Nat
      /\ UNCHANGED <<mutex, outcome, reply, served, given, stored, part>>
  BY DEF Crash, FailsIf, registryVars, PartInv, AnswerTypes
<1>2. ASSUME NEW q \in Requests PROVE Part(q)' /\ resp'[q] \in Responses
  <2>1. Part(q) /\ resp[q] \in Responses
    BY DEF PartInv, AnswerTypes
  <2>2. CASE pc[q] = "body"
    <3>1. /\ pc'[q] = "end"
          /\ resp'[q] = [status |-> 200, length |-> "known", body |-> "cut"]
      BY <2>1, <2>2 DEF Crash, Part
    <3> QED
      BY <1>1, <3>1 DEF Part, Responses
  <2>3. CASE pc[q] # "body"
    <3>1. resp'[q] = resp[q] /\ pc'[q] \in {"idle", "done", "end"}
          /\ (pc[q] = "end" => pc'[q] = "end")
      BY <2>3 DEF Crash
    <3>2. CASE pc[q] = "end"
      <4>1. pc'[q] = "end" /\ faults' # 0
        BY <1>1, <3>1, <3>2
      <4> QED
        BY <2>1, <3>1, <3>2, <4>1 DEF Part
    <3>3. CASE pc[q] # "end"
      <4>1. resp'[q] = NoResponse /\ faults' # 0
        BY <1>1, <2>1, <2>3, <3>1, <3>3 DEF Part
      <4>2. resp'[q].status = 0
        BY <4>1 DEF NoResponse
      <4> QED
        BY <2>1, <3>1, <4>1, <4>2 DEF Part
    <3> QED
      BY <3>2, <3>3
  <2> QED
    BY <2>2, <2>3
<1>3. resp' \in [Requests -> Responses]
  <2>1. DOMAIN resp' = Requests /\ resp' = [q \in Requests |-> resp'[q]]
    BY DEF Crash
  <2> QED
    BY <1>2, <2>1
<1> QED
  BY <1>1, <1>2, <1>3, PartInvFrom DEF PartInv, AnswerTypes

LEMMA IdleKeepsPart ==
  ASSUME PartInv, Move \/ UNCHANGED forwardVars PROVE PartInv'
<1>1. UNCHANGED <<pc, mutex, outcome, reply, served, given, stored, part, resp, faults>>
  BY DEF Move, forwardVars, vars, registryVars, clientVars
<1> QED
  BY <1>1 DEF PartInv, AnswerTypes, Given, Part, getPuller

LEMMA PartInvNext == ASSUME TagInv, PartInv, [ForwardNext]_forwardVars PROVE PartInv'
BY GateKeepsPart, BuildKeepsPart, LookKeepsPart, AskKeepsPart, PartKeepsPart, CrashKeepsPart,
   IdleKeepsPart DEF ForwardNext, ForwardQuiet, Serves

LEMMA AnswersStay == ForwardSpec => []PartInv
<1>1. TagInv /\ PartInv /\ [ForwardNext]_forwardVars => PartInv'
  BY PartInvNext
<1> QED
  BY <1>1, AnswerInitHolds, TagInvariance, PTL DEF ForwardSpec

(* Everything a client is given by a manifest can be had from the registry *)
(* for good, and what it takes for the whole of it is.                     *)
THEOREM WholeParts == ForwardSpec => []PartsAreWhole
<1>1. PartInv => PartsAreWhole
  BY DEF PartInv, Part, PartsAreWhole
<1> QED
  BY <1>1, AnswersStay, PTL

------------------------------------------------------------------------------
(* A step of r; the others are where they were, tags that were there stay. *)
LEMMA CauseFrom ==
  ASSUME TagInv, PartInv, CauseInv, NEW r \in Requests,
         \A q \in Requests \ {r} :
           /\ pc'[q] = pc[q] /\ name'[q] = name[q] /\ mutex'[q] = mutex[q]
           /\ outcome'[q] = outcome[q] /\ reply'[q] = reply[q],
         \A n \in Names : manifests[n] # NoOne => manifests'[n] # NoOne,
         faults' \in {faults, faults + 1}, Owners', faults' = 0 => Cause(r)'
  PROVE  CauseInv'
<1> SUFFICES ASSUME faults' = 0, NEW q \in Requests, q # r PROVE Cause(q)'
  BY DEF CauseInv
<1>1. Cause(q)
  BY DEF CauseInv, PartInv, AnswerTypes
<1>2. pc[q] # "idle" => SavedAs[name[q]] \in Names
  BY GateAssumption DEF TagInv, Begins
<1> QED
  BY <1>1, <1>2 DEF Cause, Leading

(* The entries are those of the builds under way. *)
LEMMA OwnersStay ==
  ASSUME TagInv, Owners, NEW r \in Requests, NEW s \in AllSteps,
         pc' = [pc EXCEPT ![r] = s], pc[r] \in Leading => s \in Leading,
         UNCHANGED <<name, buildMutex>>
  PROVE  Owners'
BY DEF TagInv, Types, Owners

LEMMA GateKeepsCause ==
  ASSUME TagInv, PartInv, CauseInv, NEW r \in Requests, Gate(r) PROVE CauseInv'
<1>1. /\ UNCHANGED <<name, outcome, manifests, faults>>
      /\ \E s \in AllSteps : pc' = [pc EXCEPT ![r] = s]
      /\ mutex' = mutex \/ \E m : mutex' = [mutex EXCEPT ![r] = m]
      /\ reply' = reply \/ reply' = [reply EXCEPT ![r] = "internal"]
  BY DEF Gate, Lead, Follow, RLock, RUnlock, Lock, LockGranted, Delete, Unlock, Goto, AllSteps,
         Steps
<1>2. \A q \in Requests \ {r} :
        /\ pc'[q] = pc[q] /\ mutex'[q] = mutex[q] /\ reply'[q] = reply[q]
  BY <1>1 DEF TagInv, Types, PartInv, AnswerTypes
<1>3. Owners'
  <2>1. CASE Lead(r)
    BY <2>1, GateAssumption DEF Lead, Goto, TagInv, Types, Begins, CauseInv, Owners, Leading
  <2>2. CASE Delete(r)
    BY <2>2, GateAssumption DEF Delete, Goto, TagInv, Types, Begins, CauseInv, Owners, Leading
  <2>3. CASE Follow(r) \/ RLock(r) \/ RUnlock(r) \/ Lock(r) \/ LockGranted(r) \/ Unlock(r)
    <3>1. UNCHANGED buildMutex /\ \E s \in AllSteps :
            pc' = [pc EXCEPT ![r] = s] /\ (pc[r] \in Leading => s \in Leading)
      BY <2>3 DEF Follow, RLock, RUnlock, Lock, LockGranted, Unlock, Goto, AllSteps, Steps,
                  Leading
    <3> QED
      BY <1>1, <3>1, OwnersStay DEF CauseInv
  <2> QED
    BY <2>1, <2>2, <2>3 DEF Gate
<1>4. ASSUME faults' = 0 PROVE Cause(r)'
  <2>0. Cause(r) /\ name[r] \in Requests \cup Names \cup {NoOne}
    BY <1>1, <1>4 DEF CauseInv, TagInv, Types
  <2>1. CASE Lead(r)
    <3>1. pc[r] = "gate" /\ pc'[r] = "lock" /\ UNCHANGED reply /\ mutex'[r] = r
      BY <2>1 DEF Lead, Goto, TagInv, Types, PartInv, AnswerTypes
    <3> QED
      BY <2>0, <3>1, GateAssumption DEF Cause, Leading
  <2>2. CASE Follow(r)
    <3>1. /\ pc[r] = "gate" /\ pc'[r] = "rlock" /\ UNCHANGED reply
          /\ buildMutex[name[r]] # NoOne /\ mutex'[r] = buildMutex[name[r]]
      BY <2>2 DEF Follow, Goto, TagInv, Types, PartInv, AnswerTypes
    <3>2. buildMutex[name[r]] # r
      BY <3>1 DEF CauseInv, Owners, Leading, TagInv, Begins
    <3> QED
      BY <2>0, <3>1, <3>2 DEF Cause, Leading
  <2>3. CASE RLock(r) \/ RUnlock(r) \/ Lock(r) \/ LockGranted(r) \/ Delete(r) \/ Unlock(r)
    <3>1. /\ UNCHANGED <<mutex, reply>>
          /\ \/ pc[r] = "rlock" /\ pc'[r] = "runlock"
             \/ pc[r] = "runlock" /\ pc'[r] = "serve"
             \/ pc[r] \in {"lock", "lockwait"} /\ pc'[r] \in {"lockwait", "build"}
             \/ pc[r] = "delete" /\ pc'[r] = "unlock"
             \/ pc[r] = "unlock" /\ pc'[r] = "serve"
      BY <2>0, <2>3 DEF RLock, RUnlock, Lock, LockGranted, Delete, Unlock, Failed, Goto,
                        Cause, TagInv, Types
    <3> QED
      BY <1>1, <2>0, <3>1 DEF Cause, Leading
  <2> QED
    BY <2>1, <2>2, <2>3 DEF Gate
<1> QED
  BY <1>1, <1>2, <1>3, <1>4, CauseFrom

LEMMA BuildKeepsCause ==
  ASSUME TagInv, PartInv, CauseInv, Admitted, NEW r \in Requests,
         \/ Arrive(r) /\ UNCHANGED <<registryVars, clientVars, faults>>
         \/ Base(r) \/ Upload(r) \/ PushByDigest(r) \/ PushTag(r)
  PROVE  CauseInv'
<1> USE GateAssumption DEF TagInv, Types
<1>1. CASE Arrive(r) /\ UNCHANGED <<registryVars, clientVars, faults>>
  <2>1. /\ pc[r] = "idle" /\ pc' = [pc EXCEPT ![r] = "stat"]
        /\ \E n \in Names : name' = [name EXCEPT ![r] = n]
        /\ UNCHANGED <<mutex, buildMutex, outcome, reply, manifests, faults>>
    BY <1>1 DEF Arrive, Goto, gateVars
  <2>2. Owners'
    BY <2>1 DEF CauseInv, Owners, Leading
  <2>3. ASSUME faults' = 0 PROVE Cause(r)'
    BY <2>1, <2>3 DEF CauseInv, Cause, Leading
  <2> QED
    BY <2>1, <2>2, <2>3, CauseFrom
<1>2. CASE Base(r) \/ Push(r)
  <2>0. name[r] \in Names /\ SavedAs[name[r]] \in Names /\ pc[r] = "build"
    BY <1>2 DEF Base, Push, Begins
  <2>1. /\ UNCHANGED <<name, mutex, buildMutex, reply>>
        /\ pc' = pc \/ pc' = [pc EXCEPT ![r] = "delete"]
        /\ outcome' = outcome \/ \E o : outcome' = [outcome EXCEPT ![r] = o]
        /\ manifests' = manifests \/ manifests' = [manifests EXCEPT ![SavedAs[name[r]]] = name[r]]
        /\ faults' \in {faults, faults + 1}
    BY <1>2 DEF Base, Push, Lands, BuildEnds, Goto, FailsIf, gateVars
  <2>2. /\ \A q \in Requests \ {r} : pc'[q] = pc[q] /\ outcome'[q] = outcome[q]
        /\ \A n \in Names : manifests[n] # NoOne => manifests'[n] # NoOne
    BY <2>0, <2>1 DEF PartInv, AnswerTypes
  <2>3. PICK s \in {"build", "delete"} : pc' = [pc EXCEPT ![r] = s]
    BY <2>0, <2>1
  <2>4. Owners'
    <3>1. s \in AllSteps /\ s \in Leading
      BY DEF AllSteps, Steps, Leading
    <3> QED
      BY <2>1, <2>3, <3>1, OwnersStay DEF CauseInv
  <2>5. ASSUME faults' = 0 PROVE Cause(r)'
    <3>1. faults = 0 /\ faults' # faults + 1
      BY <2>1, <2>5 DEF PartInv, AnswerTypes
    <3>2. Cause(r)
      BY <3>1 DEF CauseInv
    <3>3. \/ pc'[r] = "build"
          \/ /\ pc'[r] = "delete" /\ outcome'[r] = "ok"
             /\ manifests'[SavedAs[name[r]]] = name[r]
      <4>1. CASE Base(r)
        BY <2>0, <3>1, <4>1 DEF Base, FailsIf, Admitted
      <4>2. CASE Push(r)
        <5>1. Lands(r) /\ (at[r] = TagPush(name[r]) => BuildEnds(r, "ok"))
              /\ (at[r] # TagPush(name[r]) => UNCHANGED pc)
          BY <3>1, <4>2 DEF Push, FailsIf, Admitted
        <5>2. CASE at[r] = TagPush(name[r])
          BY <2>0, <5>1, <5>2 DEF Lands, BuildEnds, Goto, PartInv, AnswerTypes
        <5>3. CASE at[r] # TagPush(name[r])
          BY <2>0, <5>1, <5>3
        <5> QED
          BY <5>2, <5>3
      <4> QED
        BY <1>2, <4>1, <4>2
    <3> QED
      BY <2>0, <2>1, <3>2, <3>3 DEF Cause, Leading
  <2> QED
    BY <2>1, <2>2, <2>4, <2>5, CauseFrom
<1> QED
  BY <1>1, <1>2 DEF Upload, PushByDigest, PushTag

LEMMA LookKeepsCause ==
  ASSUME TagInv, PartInv, CauseInv, Admitted, NEW r \in Requests, Look(r) \/ LookAgain(r)
  PROVE  CauseInv'
<1>1. /\ UNCHANGED <<name, mutex, buildMutex, outcome, manifests>>
      /\ pc[r] \in {"stat", "serve"} /\ faults' \in {faults, faults + 1}
      /\ \E s \in {"done", "gate"} : pc' = [pc EXCEPT ![r] = s]
      /\ reply' = reply \/ \E x : reply' = [reply EXCEPT ![r] = x]
  BY DEF Look, LookAgain, Found, NotFound, FailsIf, Goto, gateVars
<1>2. \A q \in Requests \ {r} : pc'[q] = pc[q] /\ reply'[q] = reply[q]
  BY <1>1 DEF TagInv, Types, PartInv, AnswerTypes
<1>3. Owners'
  BY <1>1, OwnersStay DEF CauseInv, Leading, AllSteps, Steps
<1>4. ASSUME faults' = 0 PROVE Cause(r)'
  <2>1. faults = 0 /\ faults' # faults + 1 /\ Cause(r)
    BY <1>1, <1>4 DEF PartInv, AnswerTypes, CauseInv
  <2>2. \/ pc'[r] = "done" /\ reply'[r] = "manifest"
        \/ pc[r] = "stat" /\ pc'[r] = "gate" /\ reply'[r] = reply[r]
        \/ pc[r] = "serve" /\ pc'[r] = "done" /\ manifests[SavedAs[name[r]]] = NoOne
    <3>1. NotFound(r) => manifests[SavedAs[name[r]]] = NoOne
      BY <2>1 DEF NotFound, FailsIf, Admitted
    <3> QED
      BY <3>1 DEF Look, LookAgain, Found, Goto, TagInv, Types, PartInv, AnswerTypes
  <2> QED
    BY <1>1, <2>1, <2>2 DEF Cause, Leading
<1> QED
  BY <1>1, <1>2, <1>3, <1>4, CauseFrom

LEMMA PartKeepsCause ==
  ASSUME TagInv, PartInv, CauseInv, NEW r \in Requests,
         Ask(r) \/ ManifestBlob(r) \/ Blob(r) \/ BlobBody(r)
  PROVE  CauseInv'
<1>1. /\ UNCHANGED <<name, mutex, buildMutex, outcome, reply, manifests>>
      /\ pc[r] \in {"done", "part", "body"} /\ faults' \in {faults, faults + 1}
      /\ \E s \in Asking : pc' = [pc EXCEPT ![r] = s]
  BY DEF Ask, ManifestBlob, Blob, BlobBody, Missing, FailsIf, Goto, gateVars, Asking
<1>2. /\ pc'[r] \in Asking /\ \A q \in Requests \ {r} : pc'[q] = pc[q]
  BY <1>1 DEF TagInv, Types
<1>3. Owners'
  BY <1>1, OwnersStay DEF CauseInv, Leading, AllSteps, Asking
<1>4. ASSUME faults' = 0 PROVE Cause(r)'
  <2>1. faults = 0 /\ Cause(r)
    BY <1>1, <1>4 DEF PartInv, AnswerTypes, CauseInv
  <2> QED
    BY <1>1, <1>2, <2>1 DEF Cause, Asking, Leading
<1> QED
  BY <1>1, <1>2, <1>3, <1>4, CauseFrom

LEMMA CrashKeepsCause == ASSUME PartInv, Crash PROVE CauseInv'
<1>1. faults' # 0
  BY DEF Crash, FailsIf, PartInv, AnswerTypes
<1>2. \A n \in Names : buildMutex'[n] = NoOne
  BY DEF Crash
<1> QED
  BY <1>1, <1>2 DEF CauseInv, Owners

LEMMA IdleKeepsCause == ASSUME CauseInv, Move \/ UNCHANGED forwardVars PROVE CauseInv'
<1>1. UNCHANGED <<pc, name, mutex, buildMutex, outcome, manifests, reply, faults>>
  BY DEF Move, forwardVars, vars
<1> QED
  BY <1>1 DEF CauseInv, Owners, Cause, Leading

(* Where the credentials let the handler in and no call fails, no leader   *)
(* of a build gets 500, nor anyone who never came to the gate.             *)
THEOREM FailuresHaveCause == ASSUME Admitted PROVE ForwardSpec => []FailsForCause
<1>1. TagInv /\ PartInv /\ CauseInv /\ [ForwardNext]_forwardVars => CauseInv'
  BY Admitted, GateKeepsCause, BuildKeepsCause, LookKeepsCause, PartKeepsCause,
     CrashKeepsCause, IdleKeepsCause DEF ForwardNext, ForwardQuiet, Serves
<1>2. CauseInv => FailsForCause
  BY DEF CauseInv, Cause, FailsForCause
<1> QED
  BY <1>1, <1>2, AnswerInitHolds, AnswersStay, TagInvariance, PTL DEF ForwardSpec
------------------------------------------------------------------------------
(* What the types say beyond the invariants above. *)
Limits ==
  /\ lock \in [Requests -> {"free", "pending", "held"}]
  /\ readers \in [Requests -> SUBSET Requests]
  /\ base \in Versions /\ faults \in 0 .. MaxFaults
  /\ \A r \in Requests : at[r] # 0 => at[r] <= TagPush(name[r])
  /\ from \in [Requests -> Versions]
  /\ tagged \in [Names -> Versions]
  /\ given \in [Requests -> Versions]
  /\ stored \subseteq Contents
  /\ \A r \in Requests : part[r] # <<>> => part[r][2] < TagPush(part[r][1])

LEMMA PushesCounted == \A n \in Names : TagPush(n) \in Nat /\ TagPush(n) >= 2
BY ForwardAssumption DEF TagPush

LEMMA GateKeepsLimits ==
  ASSUME TagInv, PartInv, Limits, NEW r \in Requests, Gate(r) PROVE Limits'
<1>1. UNCHANGED <<name, base, faults, at, from, tagged, given, stored, part>>
  BY DEF Gate, Lead, Follow, RLock, RUnlock, Lock, LockGranted, Delete, Unlock, registryVars,
         clientVars
<1>2. lock' = lock \/ \E l \in {"free", "pending", "held"} : lock' = [lock EXCEPT ![r] = l]
  BY DEF Gate, Lead, Follow, RLock, RUnlock, Lock, LockGranted, Delete, Unlock
<1>3. \/ readers' = readers
      \/ \E q : readers' = [readers EXCEPT ![q] = @ \cup {r}]
      \/ \E q : readers' = [readers EXCEPT ![q] = @ \ {r}]
  BY DEF Gate, Lead, Follow, RLock, RUnlock, Lock, LockGranted, Delete, Unlock
<1>4. readers' \in [Requests -> SUBSET Requests]
  BY <1>3 DEF Limits
<1>5. lock' \in [Requests -> {"free", "pending", "held"}]
  BY <1>2 DEF Limits
<1> QED
  BY <1>1, <1>4, <1>5 DEF Limits, Versions, Contents, TagPush

LEMMA PushKeepsLimits ==
  ASSUME TagInv, PartInv, Limits, NEW r \in Requests, Push(r), at[r] # 0 PROVE Limits'
<1>0. name[r] \in Names /\ SavedAs[name[r]] \in Names /\ pc[r] = "build"
  BY PushIs, GateAssumption DEF TagInv, Begins
<1>1. /\ UNCHANGED <<name, lock, readers, base, from, given, part>>
      /\ faults' = faults \/ (faults < MaxFaults /\ faults' = faults + 1)
      /\ stored' = stored \/ stored' = stored \cup {<<name[r], at[r], from[r]>>}
      /\ tagged' = tagged \/ tagged' = [tagged EXCEPT ![SavedAs[name[r]]] = from[r]]
      /\ at' = at \/ (at' = [at EXCEPT ![r] = @ + 1] /\ at[r] # TagPush(name[r]))
  BY DEF Push, Lands, FailsIf, BuildEnds, gateVars, clientVars
<1>2. <<name[r], at[r], from[r]>> \in Contents
  BY <1>0, PushesCounted DEF Limits, Contents, TagInv, Types
<1>3. \A q \in Requests : at'[q] # 0 => at'[q] <= TagPush(name[q])
  BY <1>0, <1>1, PushesCounted DEF Limits, TagInv, Types
<1>4. tagged' \in [Names -> Versions] /\ stored' \subseteq Contents
  BY <1>1, <1>2 DEF Limits
<1>5. faults' \in 0 .. MaxFaults
  BY <1>1, ForwardAssumption DEF Limits
<1> QED
  BY <1>1, <1>3, <1>4, <1>5 DEF Limits, Versions, Contents, TagPush

LEMMA ServeKeepsLimits ==
  ASSUME TagInv, PartInv, Limits, NEW r \in Requests,
         \/ Arrive(r) /\ UNCHANGED <<registryVars, clientVars, faults>>
         \/ Base(r) \/ Look(r) \/ LookAgain(r)
  PROVE  Limits'
<1>1. /\ UNCHANGED <<lock, readers, base, tagged, stored, part>>
      /\ faults' = faults \/ (faults < MaxFaults /\ faults' = faults + 1)
  BY DEF Arrive, Base, Look, LookAgain, Found, NotFound, FailsIf, gateVars, registryVars,
         clientVars
<1>2. /\ from' = from \/ from' = [from EXCEPT ![r] = base]
      /\ given' = given \/ given' = [given EXCEPT ![r] = tagged[SavedAs[name[r]]]]
  BY DEF Arrive, Base, Look, LookAgain, Found, registryVars, clientVars
<1>3. \/ UNCHANGED <<name, at>>
      \/ UNCHANGED name /\ at' = [at EXCEPT ![r] = 1] /\ name[r] \in Names
      \/ UNCHANGED at /\ at[r] = 0 /\ \A q \in Requests \ {r} : name'[q] = name[q]
  BY DEF Arrive, Base, Look, LookAgain, Goto, registryVars, TagInv, Types, Begins
<1>4. ASSUME NEW q \in Requests, at'[q] # 0 PROVE at'[q] <= TagPush(name'[q])
  <2>1. CASE at'[q] = at[q]
    <3>1. name'[q] = name[q]
      BY <1>3, <1>4, <2>1
    <3> QED
      BY <1>4, <2>1, <3>1 DEF Limits
  <2>2. CASE at'[q] # at[q]
    <3>1. q = r /\ at'[r] = 1 /\ name'[r] = name[r] /\ name[r] \in Names
      BY <1>3, <2>2 DEF TagInv, Types
    <3>2. TagPush(name[r]) \in Nat /\ TagPush(name[r]) >= 2
      BY <3>1, PushesCounted
    <3> QED
      BY <3>1, <3>2
  <2> QED
    BY <2>1, <2>2
<1>5. from' \in [Requests -> Versions] /\ given' \in [Requests -> Versions]
  <2>1. CASE given' = given
    BY <1>2, <2>1 DEF Limits
  <2>2. CASE given' # given
    <3>1. name[r] \in Names
      BY <2>2 DEF Arrive, Base, Look, LookAgain, Goto, clientVars, TagInv, Begins
    <3> QED
      BY <1>2, <3>1, GateAssumption DEF Limits
  <2> QED
    BY <2>1, <2>2
<1>6. faults' \in 0 .. MaxFaults
  BY <1>1, ForwardAssumption DEF Limits
<1> QED
  BY <1>1, <1>4, <1>5, <1>6 DEF Limits, Versions, Contents, TagPush

LEMMA OtherStepsKeepLimits ==
  ASSUME TagInv, PartInv, Limits,
         \/ \E r \in Requests : Ask(r) \/ ManifestBlob(r) \/ Blob(r) \/ BlobBody(r)
         \/ Move \/ Crash \/ UNCHANGED forwardVars
  PROVE  Limits'
<1>1. /\ UNCHANGED <<name, at, from, tagged, given, stored>>
      /\ faults' = faults \/ (faults < MaxFaults /\ faults' = faults + 1)
      /\ base' = base \/ (base < MaxMoves /\ base' = base + 1)
      /\ lock' = lock \/ lock' = [r \in Requests |-> "free"]
      /\ readers' = readers \/ readers' = [r \in Requests |-> {}]
  BY DEF Ask, ManifestBlob, Blob, BlobBody, Missing, FailsIf, Move, Crash, gateVars,
         registryVars, clientVars, forwardVars, vars
<1>2. \A r \in Requests : part'[r] # <<>> => part'[r][2] < TagPush(part'[r][1])
  <2>1. ASSUME NEW r \in Requests, Ask(r)
        PROVE  \A q \in Requests : part'[q] # <<>> => part'[q][2] < TagPush(part'[q][1])
    <3>1. PICK k \in 1 .. TagPush(served[r]) - 1 :
            part' = [part EXCEPT ![r] = <<served[r], k, given[r]>>]
      BY <2>1 DEF Ask
    <3>2. TagPush(served[r]) \in Nat
      BY <2>1, PushesCounted DEF Ask, PartInv, Given
    <3> QED
      BY <3>1, <3>2 DEF Limits, PartInv, AnswerTypes
  <2>2. CASE UNCHANGED part
    BY <2>2 DEF Limits, TagPush
  <2> QED
    BY <2>1, <2>2
       DEF ManifestBlob, Blob, BlobBody, Move, Crash, clientVars, forwardVars
<1>3. base' \in Versions /\ faults' \in 0 .. MaxFaults
  BY <1>1, ForwardAssumption DEF Limits, Versions
<1>4. /\ lock' \in [Requests -> {"free", "pending", "held"}]
      /\ readers' \in [Requests -> SUBSET Requests]
  BY <1>1 DEF Limits
<1> QED
  BY <1>1, <1>2, <1>3, <1>4 DEF Limits, Versions, Contents, TagPush

(* Every variable keeps to its type: builds stop at their tag, and a       *)
(* client only ever asks for what comes before one.                        *)
THEOREM TypeCorrect == ForwardSpec => []ForwardTypeOK
<1>1. ForwardInit => Limits
  BY GateAssumption, ForwardAssumption DEF ForwardInit, Init, Limits, Versions
<1>2. TagInv /\ PartInv /\ Limits /\ [ForwardNext]_forwardVars => Limits'
  <2> SUFFICES ASSUME TagInv, PartInv, Limits, [ForwardNext]_forwardVars PROVE Limits'
    OBVIOUS
  <2>1. ASSUME NEW r \in Requests, Upload(r) \/ PushByDigest(r) \/ PushTag(r)
        PROVE  Push(r) /\ at[r] # 0
    BY <2>1, PushesCounted DEF Upload, PushByDigest, PushTag, TagInv, Types, Begins
  <2> QED
    BY <2>1, GateKeepsLimits, PushKeepsLimits, ServeKeepsLimits, OtherStepsKeepLimits
       DEF ForwardNext, ForwardQuiet, Serves
<1>3. TagInv /\ PartInv /\ Limits => ForwardTypeOK
  BY DEF TagInv, Types, AllSteps, PartInv, AnswerTypes, Responses, Limits, Contents,
         ForwardTypeOK
<1> QED
  BY <1>1, <1>2, <1>3, TagInvariance, AnswersStay, PTL DEF ForwardSpec
================================================================================
