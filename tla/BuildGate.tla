------------------------------ MODULE BuildGate ------------------------------
(***************************************************************************)
(* Requests for a manifest by tag, with local storage: each is a goroutine *)
(* that looks for the manifest file, joins or leads a build of it through  *)
(* the per-name RWMutex of Handler.buildMutex, and serves the file.        *)
(*                                                                         *)
(* A build itself is one step here, the moment its last write lands        *)
(* (module LocalStore has the writes); what matters is who may be in it    *)
(* and what those who did not run it see afterwards.                       *)
(***************************************************************************)
EXTENDS Naturals, FiniteSets

CONSTANTS
  Requests,   \* goroutines, each serving one GET or HEAD
  Names,      \* image:tag references that match an image rule
  SavedAs,    \* SavedAs[n]: the repository and tag name.ParseReference makes
              \* of n, under which the local pusher files its manifest
  Outcomes,   \* how a build may end in this environment
  NoOne,      \* no request, no name
  Torn        \* a manifest file cut short by a failed write

ASSUME GateAssumption ==
  /\ SavedAs \in [Names -> Names]
  /\ Outcomes \subseteq {"ok", "failed", "torn", "lost"}
  /\ NoOne \notin Requests \cup Names
  /\ Torn \notin Names \cup {NoOne}

VARIABLES
  pc,          \* pc[r]: where r is in localManifests and buildAndSave
  name,        \* name[r]: the reference r asks for
  mutex,       \* mutex[r]: whose RWMutex r got from LoadOrStore
  buildMutex,  \* buildMutex[n]: who stored the RWMutex registered for n
  lock,        \* lock[r]: write side of the RWMutex r allocated
  readers,     \* readers[r]: requests holding its read side
  outcome,     \* outcome[r]: how the build led by r ended
  manifests,   \* manifests[n]: whose build is filed at the path of n
  reply,       \* reply[r]: status of the response
  served       \* served[r]: whose build the response carried

gateVars == <<mutex, buildMutex, lock, readers>>
vars == <<pc, name, mutex, buildMutex, lock, readers, outcome, manifests,
          reply, served>>

Steps == {"idle", "stat", "gate", "lock", "lockwait", "build", "delete",
          "unlock", "rlock", "runlock", "serve", "done"}

TypeOK ==
  /\ pc \in [Requests -> Steps]
  /\ name \in [Requests -> Names \cup {NoOne}]
  /\ mutex \in [Requests -> Requests \cup {NoOne}]
  /\ buildMutex \in [Names -> Requests \cup {NoOne}]
  /\ lock \in [Requests -> {"free", "pending", "held"}]
  /\ readers \in [Requests -> SUBSET Requests]
  /\ outcome \in [Requests -> {"none", "ok", "failed", "torn", "lost"}]
  /\ manifests \in [Names -> Names \cup {NoOne, Torn}]
  /\ reply \in [Requests -> {"none", "manifest", "unknown", "internal"}]
  /\ served \in [Requests -> Names \cup {NoOne}]

Init ==
  /\ pc = [r \in Requests |-> "idle"]
  /\ name = [r \in Requests |-> NoOne]
  /\ mutex = [r \in Requests |-> NoOne]
  /\ buildMutex = [n \in Names |-> NoOne]
  /\ lock = [r \in Requests |-> "free"]
  /\ readers = [r \in Requests |-> {}]
  /\ outcome = [r \in Requests |-> "none"]
  /\ manifests = [n \in Names |-> NoOne]
  /\ reply = [r \in Requests |-> "none"]
  /\ served = [r \in Requests |-> NoOne]

Goto(r, from, to) ==
  /\ pc[r] = from
  /\ pc' = [pc EXCEPT ![r] = to]

(* A request whose image:tag matched a rule reaches localManifests. *)
Arrive(r) ==
  /\ Goto(r, "idle", "stat")
  /\ \E n \in Names : name' = [name EXCEPT ![r] = n]
  /\ UNCHANGED <<gateVars, outcome, manifests, reply, served>>

(* os.Stat of the manifest path: a file, whole or not, skips the build;    *)
(* any error leads to the gate, be it that there is no file or another.    *)
Stat(r) ==
  /\ \/ /\ Goto(r, "stat", "serve")
        /\ manifests[name[r]] # NoOne
     \/ Goto(r, "stat", "gate")
  /\ UNCHANGED <<name, gateVars, outcome, manifests, reply, served>>

(* Mutant: a Load that finds nothing, then a Store of an own RWMutex. *)
LeadUnchecked(r) ==
  /\ Goto(r, "gate", "lock")
  /\ buildMutex' = [buildMutex EXCEPT ![name[r]] = r]
  /\ mutex' = [mutex EXCEPT ![r] = r]
  /\ UNCHANGED <<name, lock, readers, outcome, manifests, reply, served>>

(* LoadOrStore finds nothing: the request's own RWMutex is registered. *)
Lead(r) ==
  /\ Goto(r, "gate", "lock")
  /\ buildMutex[name[r]] = NoOne
  /\ buildMutex' = [buildMutex EXCEPT ![name[r]] = r]
  /\ mutex' = [mutex EXCEPT ![r] = r]
  /\ UNCHANGED <<name, lock, readers, outcome, manifests, reply, served>>

(* LoadOrStore finds the RWMutex of a build under way. *)
Follow(r) ==
  /\ Goto(r, "gate", "rlock")
  /\ buildMutex[name[r]] # NoOne
  /\ mutex' = [mutex EXCEPT ![r] = buildMutex[name[r]]]
  /\ UNCHANGED <<name, buildMutex, lock, readers, outcome, manifests, reply,
                 served>>

(* Mutant: a follower goes past the write side. *)
RLockAnyway(r) ==
  /\ Goto(r, "rlock", "runlock")
  /\ readers' = [readers EXCEPT ![mutex[r]] = @ \cup {r}]
  /\ UNCHANGED <<name, mutex, buildMutex, lock, outcome, manifests, reply,
                 served>>

(* mut.RLock(): waits while a writer holds the mutex or is waiting for it. *)
RLock(r) ==
  /\ Goto(r, "rlock", "runlock")
  /\ lock[mutex[r]] = "free"
  /\ readers' = [readers EXCEPT ![mutex[r]] = @ \cup {r}]
  /\ UNCHANGED <<name, mutex, buildMutex, lock, outcome, manifests, reply,
                 served>>

(* The deferred RUnlock of a follower, which returns nil whatever the      *)
(* build it waited for came to.                                            *)
RUnlock(r) ==
  /\ Goto(r, "runlock", "serve")
  /\ readers' = [readers EXCEPT ![mutex[r]] = @ \ {r}]
  /\ UNCHANGED <<name, mutex, buildMutex, lock, outcome, manifests, reply,
                 served>>

(* mut.Lock(): new readers are shut out, those inside are waited for. *)
Lock(r) ==
  /\ \/ /\ readers[r] = {}
        /\ Goto(r, "lock", "build")
        /\ lock' = [lock EXCEPT ![r] = "held"]
     \/ /\ readers[r] # {}
        /\ Goto(r, "lock", "lockwait")
        /\ lock' = [lock EXCEPT ![r] = "pending"]
  /\ UNCHANGED <<name, mutex, buildMutex, readers, outcome, manifests, reply,
                 served>>

LockGranted(r) ==
  /\ readers[r] = {}
  /\ Goto(r, "lockwait", "build")
  /\ lock' = [lock EXCEPT ![r] = "held"]
  /\ UNCHANGED <<name, mutex, buildMutex, readers, outcome, manifests, reply,
                 served>>

(* What a build with outcome o leaves at the path of the manifest.         *)
(* "ok": its manifest. "torn": a piece of it, renamed into place though    *)
(* the copy failed. "failed": what was there, for an error came before.    *)
(* "lost": what was there, for the rename failed, which nobody is told.    *)
Filed(saved, o, n) ==
  \/ o = "ok"                 /\ manifests' = [manifests EXCEPT ![saved] = n]
  \/ o = "torn"               /\ manifests' = [manifests EXCEPT ![saved] = Torn]
  \/ o \in {"failed", "lost"} /\ UNCHANGED manifests

(* Mutant: the error of a copy is dropped as well as that of a rename. *)
CopyErrorDropped(r) ==
  /\ Goto(r, "build", "delete")
  /\ \E o \in Outcomes :
       /\ outcome' = [outcome EXCEPT ![r] = IF o = "torn" THEN "lost" ELSE o]
       /\ Filed(SavedAs[name[r]], o, name[r])
  /\ UNCHANGED <<name, gateVars, reply, served>>

(* The body of buildAndSave returns. *)
Build(r) ==
  /\ Goto(r, "build", "delete")
  /\ \E o \in Outcomes :
       /\ outcome' = [outcome EXCEPT ![r] = o]
       /\ Filed(SavedAs[name[r]], o, name[r])
  /\ UNCHANGED <<name, gateVars, reply, served>>

(* buildAndSave returned an error. *)
Failed(r) == outcome[r] \in {"failed", "torn"}

(* Mutant: the entry is deleted only after a build that succeeded. *)
DeleteIfBuilt(r) ==
  /\ Goto(r, "delete", "unlock")
  /\ buildMutex' = IF ~Failed(r)
                     THEN [buildMutex EXCEPT ![name[r]] = NoOne] ELSE buildMutex
  /\ UNCHANGED <<name, mutex, lock, readers, outcome, manifests, reply, served>>

(* The deferred buildMutex.Delete(ref): later requests start a new build. *)
Delete(r) ==
  /\ Goto(r, "delete", "unlock")
  /\ buildMutex' = [buildMutex EXCEPT ![name[r]] = NoOne]
  /\ UNCHANGED <<name, mutex, lock, readers, outcome, manifests, reply, served>>

(* Mutant: an error returns before the mutex is unlocked. *)
UnlockIfBuilt(r) ==
  /\ \/ /\ ~Failed(r)
        /\ Goto(r, "unlock", "serve")
        /\ lock' = [lock EXCEPT ![r] = "free"]
        /\ UNCHANGED reply
     \/ /\ Failed(r)
        /\ Goto(r, "unlock", "done")
        /\ reply' = [reply EXCEPT ![r] = "internal"]
        /\ UNCHANGED lock
  /\ UNCHANGED <<name, mutex, buildMutex, readers, outcome, manifests, served>>

(* Mutant: localManifests serves whatever the build came to. *)
UnlockErrorIgnored(r) ==
  /\ Goto(r, "unlock", "serve")
  /\ lock' = [lock EXCEPT ![r] = "free"]
  /\ UNCHANGED <<name, mutex, buildMutex, readers, outcome, manifests, reply,
                 served>>

(* The deferred mut.Unlock(); localManifests answers 500 on an error. *)
Unlock(r) ==
  /\ lock' = [lock EXCEPT ![r] = "free"]
  /\ \/ /\ ~Failed(r)
        /\ Goto(r, "unlock", "serve")
        /\ UNCHANGED reply
     \/ /\ Failed(r)
        /\ Goto(r, "unlock", "done")
        /\ reply' = [reply EXCEPT ![r] = "internal"]
  /\ UNCHANGED <<name, mutex, buildMutex, readers, outcome, manifests, served>>

(* Mutant: the file is answered with before it has been decoded. *)
ServeUndecoded(r) ==
  LET found == manifests[name[r]] IN
  /\ Goto(r, "serve", "done")
  /\ reply' = [reply EXCEPT ![r] = IF found = NoOne THEN "unknown" ELSE "manifest"]
  /\ served' = [served EXCEPT ![r] = found]
  /\ UNCHANGED <<name, gateVars, outcome, manifests>>

(* serveManifest: 404 when the file is not there, 500 when it does not     *)
(* decode, its content otherwise.                                          *)
Serve(r) ==
  LET found == manifests[name[r]] IN
  /\ Goto(r, "serve", "done")
  /\ \/ /\ found = NoOne
        /\ reply' = [reply EXCEPT ![r] = "unknown"]
        /\ UNCHANGED served
     \/ /\ found = Torn
        /\ reply' = [reply EXCEPT ![r] = "internal"]
        /\ UNCHANGED served
     \/ /\ found \in Names
        /\ reply' = [reply EXCEPT ![r] = "manifest"]
        /\ served' = [served EXCEPT ![r] = found]
  /\ UNCHANGED <<name, gateVars, outcome, manifests>>

Handle(r) ==
  \/ Stat(r) \/ Lead(r) \/ Follow(r) \/ RLock(r) \/ RUnlock(r)
  \/ Lock(r) \/ LockGranted(r) \/ Build(r) \/ Delete(r) \/ Unlock(r)
  \/ Serve(r)

(* Every request has been answered: the server waits for the next one. *)
Quiet ==
  /\ \A r \in Requests : pc[r] = "done"
  /\ UNCHANGED vars

Next == (\E r \in Requests : Arrive(r) \/ Handle(r)) \/ Quiet

Spec == Init /\ [][Next]_vars

(* Goroutines that can run do run, and a build comes to an end. *)
Fairness == \A r \in Requests : WF_vars(Handle(r))

FairSpec == Spec /\ Fairness
------------------------------------------------------------------------------
(* Between LoadOrStore and Delete: r answers for the mutex in the map. *)
Leading == {"lock", "lockwait", "build", "delete"}

(* Two builds of one name never overlap, nor does one begin while the      *)
(* mutex of another is still registered: buildAndSave's LoadOrStore lets   *)
(* one request through until that one deletes its entry.                   *)
OneBuilderPerName ==
  \A q, r \in Requests :
    pc[q] \in Leading /\ pc[r] \in Leading /\ name[q] = name[r] => q = r

(* No entry of buildMutex outlives its build: whoever stored it is still   *)
(* on its way to the deferred Delete. An entry left behind would turn      *)
(* every later request for the name into a follower of nobody.             *)
NoAbandonedEntry ==
  \A n \in Names : buildMutex[n] # NoOne =>
    /\ pc[buildMutex[n]] \in Leading
    /\ name[buildMutex[n]] = n

(* A follower that holds the read side either slipped in before the leader *)
(* took the write side, or the build it joined is over: either its         *)
(* manifest is in place, or it ended with an error, be it one that was     *)
(* returned or the one that atomic drops. It never runs beside the build.  *)
FollowerWaits ==
  \A r \in Requests : pc[r] = "runlock" =>
    LET leader == mutex[r] IN
    \/ pc[leader] \in {"lock", "lockwait"}
    \/ outcome[leader] = "ok" /\ manifests[SavedAs[name[leader]]] # NoOne
    \/ outcome[leader] = "lost" \/ Failed(leader)

(* Where storage files a name under itself, 404 has two causes. A follower *)
(* is not told how the build ended, and a request that led one is not told *)
(* that the rename of its manifest failed. Any other leader has the file   *)
(* or an error to report, and who saw the file still finds it.             *)
UnknownHasCause ==
  \A r \in Requests :
    reply[r] = "unknown" /\ SavedAs[name[r]] = name[r] =>
      /\ mutex[r] # NoOne
      /\ mutex[r] = r => outcome[r] = "lost"

(* Every request is answered, provided builds end: no goroutine is left    *)
(* waiting for a mutex that nobody will release.                           *)
Answered == \A r \in Requests : pc[r] = "stat" ~> pc[r] = "done"

(* The request whose build of n is running, if there is one. *)
Building ==
  [n \in Names |->
     IF \E r \in Requests : pc[r] = "build" /\ name[r] = n
       THEN CHOOSE r \in Requests : pc[r] = "build" /\ name[r] = n
       ELSE NoOne]

Erred == {r \in Requests : Failed(r)}

(* The goroutines, their map of mutexes and the file implement the service *)
(* that builds a name at most once at a time and answers from the file.    *)
Service == INSTANCE ManifestService WITH building <- Building, erred <- Erred

ImplementsService == Service!Spec
------------------------------------------------------------------------------
(* "Unknown name" (regErrNotFound) is for names that are unknown. Every    *)
(* request here matches a rule, so where no build fails none may get it.   *)
NoFalseUnknown == \A r \in Requests : reply[r] # "unknown"

(* A request that built its image successfully is answered with it. *)
BuiltIsServed ==
  \A r \in Requests :
    pc[r] = "done" /\ mutex[r] = r /\ outcome[r] = "ok" => reply[r] = "manifest"
==============================================================================
