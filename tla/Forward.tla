------------------------------- MODULE Forward -------------------------------
(***************************************************************************)
(* Forward mode: images are kept in another registry instead of the cache. *)
(* A request for a tag looks there, passes the gate of BuildGate if the    *)
(* look fails for whatever reason, and looks again; a build pushes its     *)
(* layers, manifests and tag one by one. Clients then ask for what the     *)
(* manifest names, by digest. Here manifests[n] is the build that the tag  *)
(* of n in the registry is of, and a reply "internal" is any 500.          *)
(*                                                                         *)
(* Content is <<n, k, v>>: what the k-th push of a build of n sends when   *)
(* its base image is at version v. The registry keeps what it was sent.    *)
(***************************************************************************)
EXTENDS BuildGate, Sequences

CONSTANTS
  Platforms,       \* Platforms[n]: images of the base's index that n's rule
                   \* wants; 0 for a base that is a single image
  BaseHost,        \* registry of the base images
  StorageHost,     \* registry given by --storage-registry
  RegistryConfig,  \* the Registry objects of the config files, in order
  Guarded,         \* registries that ask for their credentials, which are
                   \* called by the registry's name
  MaxMoves,        \* bound: how often the base images move on
  MaxFaults        \* bound: failing network calls and crashes

ASSUME ForwardAssumption ==
  /\ Platforms \in [Names -> Nat]
  /\ MaxMoves \in Nat /\ MaxFaults \in Nat

VARIABLES
  base,    \* version of the base images in their registry
  at,      \* at[r]: the next push of r's build, 0 before it has the base
  from,    \* from[r]: the version of the base that r's build has
  stored,  \* content in the storage registry
  tagged,  \* tagged[n]: version of the image under the tag of n
  given,   \* given[r]: version of the image r was answered with
  part,    \* part[r]: content r asks for by digest, <<>> if none
  resp,    \* resp[r]: status, announced length and body of that response
  faults   \* how many there have been

registryVars == <<base, at, from, stored, tagged>>
clientVars == <<given, part, resp>>
forwardVars == <<vars, registryVars, clientVars, faults>>

(* What is pushed last, under the tag: the image, or the index of all. *)
TagPush(n) == IF Platforms[n] = 0 THEN 2 ELSE 2 * Platforms[n] + 1

Versions == 0 .. MaxMoves

Contents ==
  {c \in Names \X Nat \X Versions : c[2] \in 1 .. TagPush(c[1])}

NoResponse == [status |-> 0, length |-> "none", body |-> "none"]

ForwardTypeOK ==
  /\ pc \in [Requests -> Steps \cup {"part", "body", "end"}]
  /\ name \in [Requests -> Names \cup {NoOne}]
  /\ mutex \in [Requests -> Requests \cup {NoOne}]
  /\ buildMutex \in [Names -> Requests \cup {NoOne}]
  /\ lock \in [Requests -> {"free", "pending", "held"}]
  /\ readers \in [Requests -> SUBSET Requests]
  /\ outcome \in [Requests -> {"none", "ok", "failed"}]
  /\ manifests \in [Names -> Names \cup {NoOne}]
  /\ reply \in [Requests -> {"none", "manifest", "internal"}]
  /\ served \in [Requests -> Names \cup {NoOne}]
  /\ base \in Versions /\ faults \in 0 .. MaxFaults
  /\ at \in [Requests -> Nat]
  /\ \A r \in Requests : at[r] # 0 => at[r] <= TagPush(name[r])
  /\ from \in [Requests -> Versions]
  /\ tagged \in [Names -> Versions]
  /\ given \in [Requests -> Versions]
  /\ \A c \in stored : c[1] \in Names /\ c[2] \in 1 .. TagPush(c[1]) /\ c[3] \in Versions
  /\ \A r \in Requests : part[r] # <<>> => part[r][2] < TagPush(part[r][1])
  /\ \A r \in Requests : resp[r].status \in {0, 200, 500}

ForwardInit ==
  /\ Init
  /\ base = 0 /\ faults = 0 /\ stored = {}
  /\ at = [r \in Requests |-> 0]
  /\ from = [r \in Requests |-> 0]
  /\ tagged = [n \in Names |-> 0]
  /\ given = [r \in Requests |-> 0]
  /\ part = [r \in Requests |-> <<>>]
  /\ resp = [r \in Requests |-> NoResponse]

(* A call over the network fails, or its answer is lost; or it cannot      *)
(* succeed anyway.                                                         *)
FailsIf(hopeless) ==
  \/ /\ faults < MaxFaults
     /\ faults' = faults + 1
  \/ hopeless /\ UNCHANGED faults
------------------------------------------------------------------------------
(* Which registries let the handler in. *)

(* name.Registry calls Docker Hub by the name of its server. *)
RegistryStr(host) == IF host = "docker.io" THEN "index.docker.io" ELSE host

(* Mutant: the first object of a name counts. *)
registryRulesFirst ==
  LET first(h) == CHOOSE i \in DOMAIN RegistryConfig :
        /\ RegistryConfig[i].name = h
        /\ \A j \in DOMAIN RegistryConfig : RegistryConfig[j].name = h => i <= j
  IN [h \in {RegistryConfig[i].name : i \in DOMAIN RegistryConfig} |->
        RegistryConfig[first(h)].auth]

(* WithRegistryConfig: the last object of a name counts. *)
registryRules ==
  LET last(h) == CHOOSE i \in DOMAIN RegistryConfig :
        /\ RegistryConfig[i].name = h
        /\ \A j \in DOMAIN RegistryConfig : RegistryConfig[j].name = h => j <= i
  IN [h \in {RegistryConfig[i].name : i \in DOMAIN RegistryConfig} |->
        RegistryConfig[last(h)].auth]

(* Registry objects of a cluster would come in here, but nothing starts    *)
(* the watch that makes their store.                                       *)
getRegistryRules == registryRules

(* No object, or one without authentication: anonymous. *)
getAuthn(host) ==
  IF host \in DOMAIN getRegistryRules THEN getRegistryRules[host] ELSE NoOne

Admits(host, auth) == host \in Guarded => auth = host

getPusher(host) == Admits(host, getAuthn(RegistryStr(host)))

getPuller(host) == Admits(host, getAuthn(RegistryStr(host)))
------------------------------------------------------------------------------
(* The tag of what r asks for is read from the registry and answered with, *)
(* from the descriptor that was read.                                      *)
Found(r) ==
  LET saved == SavedAs[name[r]] IN
  /\ getPuller(StorageHost) /\ manifests[saved] # NoOne
  /\ reply' = [reply EXCEPT ![r] = "manifest"]
  /\ served' = [served EXCEPT ![r] = manifests[saved]]
  /\ given' = [given EXCEPT ![r] = tagged[saved]]
  /\ UNCHANGED faults

NotFound(r) ==
  FailsIf(~getPuller(StorageHost) \/ manifests[SavedAs[name[r]]] = NoOne)

(* forwardManifest, up to the gate: any error of the look, be the tag      *)
(* absent or the registry out of reach, leads to a build.                  *)
Look(r) ==
  /\ \/ Goto(r, "stat", "done") /\ Found(r)
     \/ /\ Goto(r, "stat", "gate") /\ NotFound(r)
        /\ UNCHANGED <<reply, served, given>>
  /\ UNCHANGED <<name, gateVars, outcome, manifests, registryVars, part, resp>>

(* Behind the gate: the second look, 500 if it fails. *)
LookAgain(r) ==
  /\ \/ Goto(r, "serve", "done") /\ Found(r)
     \/ /\ Goto(r, "serve", "done") /\ NotFound(r)
        /\ reply' = [reply EXCEPT ![r] = "internal"]
        /\ UNCHANGED <<served, given>>
  /\ UNCHANGED <<name, gateVars, outcome, manifests, registryVars, part, resp>>

(* LoadOrStore to Unlock, as with local storage; an error of the build is  *)
(* answered with 500, a follower goes on to look again.                    *)
Gate(r) ==
  /\ \/ Lead(r) \/ Follow(r) \/ RLock(r) \/ RUnlock(r)
     \/ Lock(r) \/ LockGranted(r) \/ Delete(r) \/ Unlock(r)
  /\ UNCHANGED <<registryVars, clientVars, faults>>

BuildEnds(r, how) ==
  /\ Goto(r, "build", "delete")
  /\ outcome' = [outcome EXCEPT ![r] = how]

(* Mutant: the base image is read when the request arrives. *)
BaseEarly(r) ==
  /\ pc[r] = "stat" /\ at[r] = 0
  /\ at' = [at EXCEPT ![r] = 1]
  /\ from' = [from EXCEPT ![r] = base]
  /\ UNCHANGED <<vars, base, stored, tagged, clientVars, faults>>

(* The base image is read, under the gate. *)
Base(r) ==
  /\ pc[r] = "build" /\ at[r] = 0
  /\ \/ /\ getPuller(BaseHost)
        /\ at' = [at EXCEPT ![r] = 1]
        /\ from' = [from EXCEPT ![r] = base]
        /\ UNCHANGED <<pc, outcome, faults>>
     \/ /\ FailsIf(~getPuller(BaseHost)) /\ BuildEnds(r, "failed")
        /\ UNCHANGED <<at, from>>
  /\ UNCHANGED <<name, gateVars, manifests, reply, served, base, stored, tagged,
                 clientVars>>

(* The next push of r's build reaches the registry. *)
Lands(r) ==
  LET saved == SavedAs[name[r]] IN
  /\ getPusher(StorageHost)
  /\ stored' = stored \cup {<<name[r], at[r], from[r]>>}
  /\ IF at[r] = TagPush(name[r])
       THEN /\ manifests' = [manifests EXCEPT ![saved] = name[r]]
            /\ tagged' = [tagged EXCEPT ![saved] = from[r]]
       ELSE UNCHANGED <<manifests, tagged>>

(* Mutant: the build does not end with the tag. *)
PushOn(r) ==
  /\ pc[r] = "build" /\ Lands(r)
  /\ at' = [at EXCEPT ![r] = @ + 1]
  /\ UNCHANGED <<pc, name, gateVars, outcome, reply, served, base, from, clientVars,
                 faults>>

(* A push that failed, the content sent or not, ends the build. *)
Push(r) ==
  /\ pc[r] = "build"
  /\ \/ /\ Lands(r) /\ UNCHANGED faults
        /\ IF at[r] = TagPush(name[r])
             THEN BuildEnds(r, "ok") /\ UNCHANGED at
             ELSE /\ at' = [at EXCEPT ![r] = @ + 1]
                  /\ UNCHANGED <<pc, outcome>>
     \/ /\ FailsIf(~getPusher(StorageHost)) /\ BuildEnds(r, "failed")
        /\ Lands(r) \/ UNCHANGED <<stored, manifests, tagged>>
        /\ UNCHANGED at
  /\ UNCHANGED <<name, gateVars, reply, served, base, from, clientVars>>

(* PushImage and PushImageWithIndex upload the layers of an image. *)
Upload(r) ==
  /\ pc[r] = "build" /\ at[r] % 2 = 1 /\ at[r] < TagPush(name[r])
  /\ Push(r)

(* PushImageWithIndex puts the manifest of a platform's image by digest. *)
PushByDigest(r) ==
  /\ pc[r] = "build" /\ at[r] # 0 /\ at[r] % 2 = 0 /\ at[r] < TagPush(name[r])
  /\ Push(r)

(* Mutant: the tag is put before the images it leads to. *)
PushTagEarly(r) ==
  /\ pc[r] = "build" /\ at[r] = 1
  /\ manifests' = [manifests EXCEPT ![SavedAs[name[r]]] = name[r]]
  /\ tagged' = [tagged EXCEPT ![SavedAs[name[r]]] = from[r]]
  /\ UNCHANGED <<pc, name, gateVars, outcome, reply, served, base, at, from, stored,
                 clientVars, faults>>

(* PushImage or PushImageIndex put the tag; with it the build is done. *)
PushTag(r) == pc[r] = "build" /\ at[r] = TagPush(name[r]) /\ Push(r)
------------------------------------------------------------------------------
(* A client that has the manifest asks for something it leads to, by       *)
(* digest: for layers with /blobs/, for an image of an index with          *)
(* /manifests/.                                                            *)
Ask(r) ==
  /\ Goto(r, "done", "part")
  /\ reply[r] = "manifest"
  /\ \E k \in 1 .. TagPush(served[r]) - 1 :
       part' = [part EXCEPT ![r] = <<served[r], k, given[r]>>]
  /\ UNCHANGED <<name, gateVars, outcome, manifests, reply, served, registryVars,
                 given, resp, faults>>

Respond(r, status, length, body) ==
  resp' = [resp EXCEPT ![r] = [status |-> status, length |-> length, body |-> body]]

Missing(r) == FailsIf(~getPuller(StorageHost) \/ part[r] \notin stored)

(* forwardManifestBlob: the manifest, or 500. *)
ManifestBlob(r) ==
  /\ Goto(r, "part", "end") /\ part[r][2] % 2 = 0
  /\ \/ /\ getPuller(StorageHost) /\ part[r] \in stored /\ UNCHANGED faults
        /\ Respond(r, 200, "known", "whole")
     \/ Missing(r) /\ Respond(r, 500, "none", "error")
  /\ UNCHANGED <<name, gateVars, outcome, manifests, reply, served, registryVars,
                 given, part>>

(* Mutant: no length is announced. *)
BlobUnmeasured(r) ==
  /\ Goto(r, "part", "body") /\ part[r][2] % 2 = 1
  /\ getPuller(StorageHost) /\ part[r] \in stored /\ UNCHANGED faults
  /\ Respond(r, 200, "none", "none")
  /\ UNCHANGED <<name, gateVars, outcome, manifests, reply, served, registryVars,
                 given, part>>

(* forwardBlob: the registry is asked for the size, which is announced. *)
Blob(r) ==
  /\ part[r] # <<>> /\ part[r][2] % 2 = 1
  /\ \/ /\ Goto(r, "part", "body")
        /\ getPuller(StorageHost) /\ part[r] \in stored /\ UNCHANGED faults
        /\ Respond(r, 200, "known", "none")
     \/ /\ Goto(r, "part", "end")
        /\ Missing(r) /\ Respond(r, 500, "none", "error")
  /\ UNCHANGED <<name, gateVars, outcome, manifests, reply, served, registryVars,
                 given, part>>

(* The rest of forwardBlob copies the layer. An error before the first     *)
(* byte still sets the status, one after it is only logged.                *)
BlobBody(r) ==
  /\ Goto(r, "body", "end")
  /\ \/ UNCHANGED faults /\ resp' = [resp EXCEPT ![r].body = "whole"]
     \/ FailsIf(FALSE) /\ Respond(r, 500, resp[r].length, "error")
     \/ FailsIf(FALSE) /\ resp' = [resp EXCEPT ![r].body = "cut"]
  /\ UNCHANGED <<name, gateVars, outcome, manifests, reply, served, registryVars,
                 given, part>>
------------------------------------------------------------------------------
(* The base images move on. *)
Move ==
  /\ base < MaxMoves
  /\ base' = base + 1
  /\ UNCHANGED <<vars, at, from, stored, tagged, clientVars, faults>>

(* The server dies and starts again: whoever waits is cut off, the gate    *)
(* has nobody in it, the registry keeps what it has.                       *)
Crash ==
  /\ FailsIf(FALSE)
  /\ pc' = [r \in Requests |-> IF pc[r] \in {"idle", "end"} THEN pc[r]
                               ELSE IF part[r] = <<>> THEN "done" ELSE "end"]
  /\ resp' = [r \in Requests |-> IF pc[r] = "body" THEN [resp[r] EXCEPT !.body = "cut"]
                                 ELSE resp[r]]
  /\ buildMutex' = [n \in Names |-> NoOne]
  /\ lock' = [r \in Requests |-> "free"]
  /\ readers' = [r \in Requests |-> {}]
  /\ UNCHANGED <<name, mutex, outcome, manifests, reply, served, registryVars,
                 given, part>>

Serves(r) ==
  \/ Look(r) \/ Gate(r) \/ Base(r) \/ Upload(r) \/ PushByDigest(r) \/ PushTag(r)
  \/ LookAgain(r) \/ ManifestBlob(r) \/ Blob(r) \/ BlobBody(r)

(* Nobody asks for more. *)
ForwardQuiet ==
  /\ \A r \in Requests : pc[r] \in {"done", "end"}
  /\ UNCHANGED forwardVars

ForwardNext ==
  \/ \E r \in Requests :
       \/ Arrive(r) /\ UNCHANGED <<registryVars, clientVars, faults>>
       \/ Serves(r) \/ Ask(r)
  \/ Move \/ Crash \/ ForwardQuiet

ForwardSpec ==
  /\ ForwardInit /\ [][ForwardNext]_forwardVars
  /\ \A r \in Requests : WF_forwardVars(Serves(r) /\ UNCHANGED faults)
------------------------------------------------------------------------------
(* A tag leads to an image that is all there: every push of the build it   *)
(* is of came before it, whatever failed or died in between.               *)
TagsAreWhole ==
  \A n \in Names : manifests[n] # NoOne =>
    \A k \in 1 .. TagPush(manifests[n]) : <<manifests[n], k, tagged[n]>> \in stored

(* A tag never goes back to an older base image: a build reads the base    *)
(* under the gate, so builds of a name read it in the order they push. A   *)
(* look that failed over the network may well have a present tag built     *)
(* again, but only forward. (With two names for one tag it would not hold.) *)
TagMovesForward ==
  [][\A n \in Names : manifests[n] # NoOne => tagged'[n] >= tagged[n]]_forwardVars

(* Where nothing fails and the credentials are in order, 500 is only for   *)
(* followers (who slipped through the gate and found nothing yet): who led *)
(* a build has it served. Under another name, too, since the look and the  *)
(* push use one reference, unlike local storage.                           *)
FailsForCause ==
  faults = 0 => \A r \in Requests : reply[r] = "internal" => mutex[r] \notin {r, NoOne}

(* What a client takes for the whole content (status 200, as long as       *)
(* announced) is whole; and where nothing fails it gets it, for everything *)
(* the manifest it was given leads to, however often the tag moved since.  *)
PartsAreWhole ==
  \A r \in Requests : pc[r] = "end" =>
    LET taken == /\ resp[r].status = 200
                 /\ resp[r].body = "cut" => resp[r].length = "none" IN
    /\ taken => resp[r].body = "whole"
    /\ faults = 0 => taken
==============================================================================
