-------------------------- MODULE BuildGate_proofs ---------------------------
(***************************************************************************)
(* Proofs about BuildGate, for any number of requests and names and for    *)
(* any way storage maps names to files.                                    *)
(*                                                                         *)
(* None of the properties is inductive alone. The invariant ties the four  *)
(* places a build is visible in: the leader's pc, the map entry, the lock  *)
(* with its readers, and the file with the outcome that vouches for it.    *)
(***************************************************************************)
EXTENDS BuildGate, TLAPS

Joining == {"rlock", "runlock"}
Led == Leading \cup {"unlock"}

(* The map holds exactly the mutexes of the requests that lead. *)
Registered ==
  \A n \in Names, r \in Requests :
    buildMutex[n] = r <=> pc[r] \in Leading /\ name[r] = n

(* What a request knows at each step: its name, and whose mutex it uses. *)
Knows ==
  \A r \in Requests :
    /\ pc[r] = "idle" <=> name[r] = NoOne
    /\ pc[r] \in {"idle", "stat", "gate"} => mutex[r] = NoOne
    /\ pc[r] \in Led => mutex[r] = r
    /\ pc[r] \in Joining => mutex[r] \in Requests \ {r}
    /\ mutex[r] # NoOne => mutex[mutex[r]] = mutex[r]
    /\ reply[r] = "none" <=> pc[r] # "done"

(* The write side follows its owner, and nobody reads beside a writer. *)
Exclusive ==
  \A r \in Requests :
    /\ lock[r] = "held" <=> pc[r] \in {"build", "delete", "unlock"}
    /\ lock[r] = "pending" <=> pc[r] = "lockwait"
    /\ lock[r] = "held" => readers[r] = {}
    /\ \A q \in Requests :
         q \in readers[r] <=> pc[q] = "runlock" /\ mutex[q] = r

(* An outcome belongs to a finished build, and a good one to a file. *)
Vouched ==
  \A r \in Requests :
    /\ outcome[r] # "none" <=>
         mutex[r] = r /\ pc[r] \in {"delete", "unlock", "serve", "done"}
    /\ outcome[r] = "ok" => manifests[SavedAs[name[r]]] # NoOne
    /\ pc[r] = "serve" => outcome[r] \in {"none", "ok", "lost"}
    /\ pc[r] \in {"serve", "done"} /\ mutex[r] = NoOne =>
         manifests[name[r]] # NoOne

IInv ==
  /\ TypeOK
  /\ Registered
  /\ Knows
  /\ Exclusive
  /\ Vouched
  /\ UnknownHasCause
------------------------------------------------------------------------------
(* Nobody has asked for anything yet. *)
LEMMA InitInv == Init => IInv
<1> SUFFICES ASSUME Init PROVE IInv
  OBVIOUS
<1> USE GateAssumption DEF Init
<1>1. TypeOK
  BY DEF TypeOK, Steps
<1>2. Registered
  BY DEF Registered, Leading
<1>3. Knows
  BY DEF Knows, Joining, Led, Leading
<1>4. Exclusive
  BY DEF Exclusive
<1>5. Vouched
  BY DEF Vouched
<1>6. UnknownHasCause
  BY DEF UnknownHasCause
<1> QED
  BY <1>1, <1>2, <1>3, <1>4, <1>5, <1>6 DEF IInv

(* A request learns its name. *)
LEMMA ArriveInv == ASSUME IInv, NEW r \in Requests, Arrive(r) PROVE IInv'
<1> USE GateAssumption DEF IInv, TypeOK, Steps, Arrive, Goto, gateVars
<1>1. TypeOK'
  BY DEF Knows
<1>2. Registered'
  BY DEF Registered, Knows, Joining, Led, Leading
<1>3. Knows'
  BY DEF Registered, Knows, Joining, Led, Leading
<1>4. Exclusive'
  BY DEF Registered, Exclusive, Knows, Joining, Led, Leading
<1>5. Vouched'
  BY DEF Vouched, Knows, Joining, Led, Leading
<1>6. UnknownHasCause'
  BY DEF UnknownHasCause, Vouched, Knows, Joining, Led, Leading
<1> QED
  BY <1>1, <1>2, <1>3, <1>4, <1>5, <1>6 DEF IInv

(* A request that goes past the gate does so for a file there is. *)
LEMMA StatInv == ASSUME IInv, NEW r \in Requests, Stat(r) PROVE IInv'
<1> USE GateAssumption DEF IInv, TypeOK, Steps, Stat, Goto, gateVars
<1>1. TypeOK'
  BY DEF Knows
<1>2. Registered'
  BY DEF Registered, Knows, Joining, Led, Leading
<1>3. Knows'
  BY DEF Registered, Knows, Joining, Led, Leading
<1>4. Exclusive'
  BY DEF Registered, Exclusive, Knows, Joining, Led, Leading
<1>5. Vouched'
  BY DEF Vouched, Knows, Joining, Led, Leading
<1>6. UnknownHasCause'
  BY DEF UnknownHasCause, Vouched, Knows, Joining, Led, Leading
<1> QED
  BY <1>1, <1>2, <1>3, <1>4, <1>5, <1>6 DEF IInv

(* The name had no entry, so r is now the only one that leads for it. *)
LEMMA LeadInv == ASSUME IInv, NEW r \in Requests, Lead(r) PROVE IInv'
<1> USE GateAssumption DEF IInv, TypeOK, Steps, Lead, Goto, gateVars
<1>1. TypeOK'
  BY DEF Knows
<1>2. Registered'
  BY DEF Registered, Knows, Joining, Led, Leading
<1>3. Knows'
  BY DEF Registered, Knows, Joining, Led, Leading
<1>4. Exclusive'
  BY DEF Registered, Exclusive, Knows, Joining, Led, Leading
<1>5. Vouched'
  BY DEF Vouched, Knows, Joining, Led, Leading
<1>6. UnknownHasCause'
  BY DEF UnknownHasCause, Vouched, Knows, Joining, Led, Leading
<1> QED
  BY <1>1, <1>2, <1>3, <1>4, <1>5, <1>6 DEF IInv

(* The entry is that of a leader, which is another request. *)
LEMMA FollowInv == ASSUME IInv, NEW r \in Requests, Follow(r) PROVE IInv'
<1> USE GateAssumption DEF IInv, TypeOK, Steps, Follow, Goto, gateVars
<1>1. TypeOK'
  BY DEF Knows
<1>2. Registered'
  BY DEF Registered, Knows, Joining, Led, Leading
<1>3. Knows'
  BY DEF Registered, Knows, Joining, Led, Leading
<1>4. Exclusive'
  BY DEF Registered, Exclusive, Knows, Joining, Led, Leading
<1>5. Vouched'
  BY DEF Vouched, Knows, Joining, Led, Leading
<1>6. UnknownHasCause'
  BY DEF UnknownHasCause, Vouched, Knows, Joining, Led, Leading
<1> QED
  BY <1>1, <1>2, <1>3, <1>4, <1>5, <1>6 DEF IInv

(* The write side is free: the mutex gets a reader beside no writer. *)
LEMMA RLockInv == ASSUME IInv, NEW r \in Requests, RLock(r) PROVE IInv'
<1> USE GateAssumption DEF IInv, TypeOK, Steps, RLock, Goto, gateVars
<1>1. TypeOK'
  BY DEF Knows, Joining
<1>2. Registered'
  BY DEF Registered, Knows, Joining, Led, Leading
<1>3. Knows'
  BY DEF Registered, Knows, Joining, Led, Leading
<1>4. Exclusive'
  BY DEF Registered, Exclusive, Knows, Joining, Led, Leading
<1>5. Vouched'
  BY DEF Vouched, Knows, Joining, Led, Leading
<1>6. UnknownHasCause'
  BY DEF UnknownHasCause, Vouched, Knows, Joining, Led, Leading
<1> QED
  BY <1>1, <1>2, <1>3, <1>4, <1>5, <1>6 DEF IInv

(* One reader less; what the follower finds is for Serve to see. *)
LEMMA RUnlockInv == ASSUME IInv, NEW r \in Requests, RUnlock(r) PROVE IInv'
<1> USE GateAssumption DEF IInv, TypeOK, Steps, RUnlock, Goto, gateVars
<1>1. TypeOK'
  BY DEF Knows
<1>2. Registered'
  BY DEF Registered, Knows, Joining, Led, Leading
<1>3. Knows'
  BY DEF Registered, Knows, Joining, Led, Leading
<1>4. Exclusive'
  BY DEF Registered, Exclusive, Knows, Joining, Led, Leading
<1>5. Vouched'
  BY DEF Vouched, Knows, Joining, Led, Leading
<1>6. UnknownHasCause'
  BY DEF UnknownHasCause, Vouched, Knows, Joining, Led, Leading
<1> QED
  BY <1>1, <1>2, <1>3, <1>4, <1>5, <1>6 DEF IInv

(* The write side is taken with no reader inside, or claimed. *)
LEMMA LockInv == ASSUME IInv, NEW r \in Requests, Lock(r) PROVE IInv'
<1> USE GateAssumption DEF IInv, TypeOK, Steps, Lock, Goto, gateVars
<1>1. TypeOK'
  BY DEF Knows
<1>2. Registered'
  BY DEF Registered, Knows, Joining, Led, Leading
<1>3. Knows'
  BY DEF Registered, Knows, Joining, Led, Leading
<1>4. Exclusive'
  BY DEF Registered, Exclusive, Knows, Joining, Led, Leading
<1>5. Vouched'
  BY DEF Vouched, Knows, Joining, Led, Leading
<1>6. UnknownHasCause'
  BY DEF UnknownHasCause, Vouched, Knows, Joining, Led, Leading
<1> QED
  BY <1>1, <1>2, <1>3, <1>4, <1>5, <1>6 DEF IInv

(* The last reader has left: the write side is held alone. *)
LEMMA LockGrantedInv == ASSUME IInv, NEW r \in Requests, LockGranted(r) PROVE IInv'
<1> USE GateAssumption DEF IInv, TypeOK, Steps, LockGranted, Goto, gateVars
<1>1. TypeOK'
  BY DEF Knows
<1>2. Registered'
  BY DEF Registered, Knows, Joining, Led, Leading
<1>3. Knows'
  BY DEF Registered, Knows, Joining, Led, Leading
<1>4. Exclusive'
  BY DEF Registered, Exclusive, Knows, Joining, Led, Leading
<1>5. Vouched'
  BY DEF Vouched, Knows, Joining, Led, Leading
<1>6. UnknownHasCause'
  BY DEF UnknownHasCause, Vouched, Knows, Joining, Led, Leading
<1> QED
  BY <1>1, <1>2, <1>3, <1>4, <1>5, <1>6 DEF IInv

(* The outcome is recorded, and a good one comes with its file. *)
LEMMA BuildInv == ASSUME IInv, NEW r \in Requests, Build(r) PROVE IInv'
<1> USE GateAssumption DEF IInv, TypeOK, Steps, Build, Filed, Goto, gateVars
<1>1. TypeOK'
  BY DEF Knows
<1>2. Registered'
  BY DEF Registered, Knows, Joining, Led, Leading
<1>3. Knows'
  BY DEF Registered, Knows, Joining, Led, Leading
<1>4. Exclusive'
  BY DEF Registered, Exclusive, Knows, Joining, Led, Leading
<1>5. Vouched'
  BY DEF Vouched, Knows, Joining, Led, Leading
<1>6. UnknownHasCause'
  BY DEF UnknownHasCause, Vouched, Knows, Joining, Led, Leading
<1> QED
  BY <1>1, <1>2, <1>3, <1>4, <1>5, <1>6 DEF IInv

(* The entry goes: it was r's, and r no longer leads. *)
LEMMA DeleteInv == ASSUME IInv, NEW r \in Requests, Delete(r) PROVE IInv'
<1> USE GateAssumption DEF IInv, TypeOK, Steps, Delete, Goto, gateVars
<1>1. TypeOK'
  BY DEF Knows
<1>2. Registered'
  BY DEF Registered, Knows, Joining, Led, Leading
<1>3. Knows'
  BY DEF Registered, Knows, Joining, Led, Leading
<1>4. Exclusive'
  BY DEF Registered, Exclusive, Knows, Joining, Led, Leading
<1>5. Vouched'
  BY DEF Vouched, Knows, Joining, Led, Leading
<1>6. UnknownHasCause'
  BY DEF UnknownHasCause, Vouched, Knows, Joining, Led, Leading
<1> QED
  BY <1>1, <1>2, <1>3, <1>4, <1>5, <1>6 DEF IInv

(* The write side is free, and an error is answered at once. *)
LEMMA UnlockInv == ASSUME IInv, NEW r \in Requests, Unlock(r) PROVE IInv'
<1> USE GateAssumption DEF IInv, TypeOK, Steps, Unlock, Failed, Goto, gateVars
<1>1. TypeOK'
  BY DEF Knows
<1>2. Registered'
  BY DEF Registered, Knows, Joining, Led, Leading
<1>3. Knows'
  BY DEF Registered, Knows, Joining, Led, Leading
<1>4. Exclusive'
  BY DEF Registered, Exclusive, Knows, Joining, Led, Leading
<1>5. Vouched'
  BY DEF Vouched, Knows, Joining, Led, Leading
<1>6. UnknownHasCause'
  BY DEF UnknownHasCause, Vouched, Knows, Joining, Led, Leading
<1> QED
  BY <1>1, <1>2, <1>3, <1>4, <1>5, <1>6 DEF IInv

(* A leader or one that saw the file finds the file. *)
LEMMA ServeInv == ASSUME IInv, NEW r \in Requests, Serve(r) PROVE IInv'
<1> USE GateAssumption DEF IInv, TypeOK, Steps, Serve, Goto, gateVars
<1>1. TypeOK'
  BY DEF Knows
<1>2. Registered'
  BY DEF Registered, Knows, Joining, Led, Leading
<1>3. Knows'
  BY DEF Registered, Knows, Joining, Led, Leading
<1>4. Exclusive'
  BY DEF Registered, Exclusive, Knows, Joining, Led, Leading
<1>5. Vouched'
  BY DEF Vouched, Knows, Joining, Led, Leading
<1>6. UnknownHasCause'
  BY DEF UnknownHasCause, Vouched, Knows, Joining, Led, Leading
<1> QED
  BY <1>1, <1>2, <1>3, <1>4, <1>5, <1>6 DEF IInv

(* A step that changes nothing keeps the invariant. *)
LEMMA StutterInv == ASSUME IInv, UNCHANGED vars PROVE IInv'
  BY DEF IInv, TypeOK, Registered, Knows, Exclusive, Vouched,
         UnknownHasCause, vars

(* The invariant holds in every reachable state. *)
THEOREM Invariance == Spec => []IInv
<1>1. IInv /\ [Next]_vars => IInv'
  <2> SUFFICES ASSUME IInv, [Next]_vars PROVE IInv'
    OBVIOUS
  <2>1. ASSUME NEW r \in Requests, Arrive(r) PROVE IInv'
    BY <2>1, ArriveInv
  <2>2. ASSUME NEW r \in Requests, Handle(r) PROVE IInv'
    BY <2>2, StatInv, LeadInv, FollowInv, RLockInv, RUnlockInv,
       LockInv, LockGrantedInv, BuildInv, DeleteInv, UnlockInv, ServeInv DEF Handle
  <2>3. CASE UNCHANGED vars
    BY <2>3, StutterInv
  <2> QED
    BY <2>1, <2>2, <2>3 DEF Next, Quiet
<1> QED
  BY <1>1, InitInv, PTL DEF Spec
------------------------------------------------------------------------------
(* Every variable keeps to its type. *)
THEOREM TypeCorrect == Spec => []TypeOK
<1>1. IInv => TypeOK
  BY DEF IInv
<1> QED
  BY <1>1, Invariance, PTL

(* LoadOrStore and Delete make buildAndSave exclusive per name. *)
THEOREM BuildsAreExclusive == Spec => []OneBuilderPerName
<1>1. IInv => OneBuilderPerName
  BY GateAssumption DEF IInv, TypeOK, Registered, Knows, OneBuilderPerName, Leading
<1> QED
  BY <1>1, Invariance, PTL

(* Whatever a build comes to, its map entry goes with it. *)
THEOREM EntriesAreLive == Spec => []NoAbandonedEntry
<1>1. IInv => NoAbandonedEntry
  BY GateAssumption DEF IInv, TypeOK, Registered, NoAbandonedEntry
<1> QED
  BY <1>1, Invariance, PTL

(* A follower inside the mutex came before the build or comes after it. *)
THEOREM FollowersKeepOut == Spec => []FollowerWaits
<1>1. IInv => FollowerWaits
  <2> SUFFICES ASSUME IInv, NEW r \in Requests, pc[r] = "runlock",
                      pc[mutex[r]] \notin {"lock", "lockwait"}
               PROVE  \/ /\ outcome[mutex[r]] = "ok"
                         /\ manifests[SavedAs[name[mutex[r]]]] # NoOne
                      \/ outcome[mutex[r]] \in {"lost", "failed", "torn"}
    BY DEF FollowerWaits, Failed
  <2> DEFINE m == mutex[r]
  <2>1. m \in Requests /\ mutex[m] = m /\ r \in readers[m]
    BY GateAssumption DEF IInv, Knows, Exclusive, Joining
  <2>2. lock[m] # "held"
    BY <2>1 DEF IInv, Exclusive
  <2>3. pc[m] \in {"serve", "done"}
    BY <2>1, <2>2, GateAssumption
       DEF IInv, TypeOK, Steps, Knows, Exclusive, Joining
  <2>4. outcome[m] # "none"
    BY <2>1, <2>3 DEF IInv, Vouched
  <2> QED
    BY <2>1, <2>4 DEF IInv, TypeOK, Vouched
<1> QED
  BY <1>1, Invariance, PTL

(* Only a follower, or a leader whose last rename failed unnoticed, can be *)
(* told that a name is unknown which storage files under itself.           *)
THEOREM UnknownsHaveCause == Spec => []UnknownHasCause
<1>1. IInv => UnknownHasCause
  BY DEF IInv
<1> QED
  BY <1>1, Invariance, PTL
------------------------------------------------------------------------------
(* The refinement: what Building maps the goroutines to. *)
BuildingIs ==
  \A n \in Names :
    /\ Building[n] \in Requests \cup {NoOne}
    /\ \A r \in Requests :
         Building[n] = r <=> pc[r] = "build" /\ name[r] = n

(* Building[n] is the one request in its build of n, if there is one. *)
LEMMA BuildingMap == IInv => BuildingIs
<1> SUFFICES ASSUME IInv, NEW n \in Names
             PROVE  /\ Building[n] \in Requests \cup {NoOne}
                    /\ \A r \in Requests :
                         Building[n] = r <=> pc[r] = "build" /\ name[r] = n
  BY DEF BuildingIs
<1> DEFINE Builds(r) == pc[r] = "build" /\ name[r] = n
<1>1. \A q, r \in Requests : Builds(q) /\ Builds(r) => q = r
  BY GateAssumption DEF IInv, TypeOK, Registered, Leading
<1>2. CASE \E r \in Requests : Builds(r)
  <2>1. PICK b \in Requests : Builds(b)
    BY <1>2
  <2>2. Building[n] = CHOOSE r \in Requests : Builds(r)
    BY <1>2 DEF Building
  <2>3. Building[n] = b
    BY <2>1, <2>2, <1>1
  <2> QED
    BY <2>1, <2>3, <1>1
<1>3. CASE ~ \E r \in Requests : Builds(r)
  <2>1. Building[n] = NoOne
    BY <1>3 DEF Building
  <2> QED
    BY <2>1, <1>3, GateAssumption
<1> QED
  BY <1>2, <1>3

(* A step that neither enters nor leaves a build leaves Building alone. *)
LEMMA SameBuilding ==
  ASSUME BuildingIs, BuildingIs',
         \A n \in Names, r \in Requests :
           (pc[r] = "build" /\ name[r] = n)' <=> pc[r] = "build" /\ name[r] = n
  PROVE  UNCHANGED Building
<1>1. \A n \in Names : Building'[n] = Building[n]
  BY GateAssumption DEF BuildingIs
<1> QED
  BY <1>1 DEF Building

(* Entering the build: the abstract service starts one. *)
LEMMA EnterBuild ==
  ASSUME IInv, BuildingIs, BuildingIs', NEW r \in Requests,
         pc[r] \in {"lock", "lockwait"}, pc' = [pc EXCEPT ![r] = "build"],
         UNCHANGED <<name, manifests, outcome, reply, served>>
  PROVE  Service!Start(r, name[r])
<1> DEFINE n == name[r]
<1>1. n \in Names /\ reply[r] = "none"
  BY GateAssumption DEF IInv, TypeOK, Knows, Registered
<1>2. Building[n] = NoOne
  BY <1>1, GateAssumption DEF IInv, TypeOK, Registered, BuildingIs, Leading
<1>3. \A k \in Names : Building'[k] = IF k = n THEN r ELSE Building[k]
  <2> SUFFICES ASSUME NEW k \in Names
               PROVE  Building'[k] = IF k = n THEN r ELSE Building[k]
    OBVIOUS
  <2>1. \A q \in Requests : q # r => (pc'[q] = "build" <=> pc[q] = "build")
    BY DEF IInv, TypeOK
  <2>2. pc'[r] = "build" /\ pc[r] # "build"
    BY DEF IInv, TypeOK
  <2> QED
    BY <2>1, <2>2, GateAssumption DEF BuildingIs
<1>4. Building' = [Building EXCEPT ![n] = r]
  BY <1>3, <1>1 DEF Building
<1> QED
  BY <1>1, <1>2, <1>4 DEF Service!Start, Erred, Failed

(* Leaving it: the abstract service finishes one. *)
LEMMA LeaveBuild ==
  ASSUME IInv, BuildingIs, BuildingIs', NEW r \in Requests, Build(r)
  PROVE  Service!Finish(r, name[r])
<1> DEFINE n == name[r]
<1>1. pc[r] = "build" /\ n \in Names
  BY GateAssumption DEF IInv, TypeOK, Knows, Build, Goto
<1>2. Building[n] = r
  BY <1>1 DEF BuildingIs
<1>3. \A k \in Names : Building'[k] = IF k = n THEN NoOne ELSE Building[k]
  <2> SUFFICES ASSUME NEW k \in Names
               PROVE  Building'[k] = IF k = n THEN NoOne ELSE Building[k]
    OBVIOUS
  <2>1. \A q \in Requests : q # r => (pc'[q] = "build" <=> pc[q] = "build")
    BY DEF IInv, TypeOK, Build, Goto
  <2>2. pc'[r] # "build" /\ UNCHANGED name
    BY DEF IInv, TypeOK, Build, Goto
  <2> QED
    BY <2>1, <2>2, <1>1, <1>2, GateAssumption DEF BuildingIs
<1>4. Building' = [Building EXCEPT ![n] = NoOne]
  BY <1>3, <1>1 DEF Building
<1>5. \/ /\ \/ manifests' = [manifests EXCEPT ![SavedAs[n]] = n]
            \/ UNCHANGED manifests
         /\ UNCHANGED Erred
      \/ /\ \/ manifests' = [manifests EXCEPT ![SavedAs[n]] = Torn]
            \/ UNCHANGED manifests
         /\ Erred' = Erred \cup {r}
  <2>1. PICK o \in Outcomes :
          outcome' = [outcome EXCEPT ![r] = o] /\ Filed(SavedAs[n], o, n)
    BY DEF Build
  <2>2. outcome[r] = "none"
    BY <1>1 DEF IInv, TypeOK, Vouched
  <2>3. CASE o \in {"ok", "lost"}
    <3>1. UNCHANGED Erred
      BY <2>1, <2>2, <2>3 DEF Erred, Failed, IInv, TypeOK
    <3> QED
      BY <2>1, <2>3, <3>1 DEF Filed
  <2>4. CASE o \in {"torn", "failed"}
    <3>1. Erred' = Erred \cup {r}
      BY <2>1, <2>4 DEF Erred, Failed, IInv, TypeOK
    <3> QED
      BY <2>1, <2>4, <3>1 DEF Filed
  <2> QED
    BY <2>1, <2>3, <2>4, GateAssumption
<1> QED
  BY <1>2, <1>4, <1>5 DEF Service!Finish, Build

(* An answer, from the file or for an error, is the service's answer. *)
LEMMA Answering ==
  ASSUME IInv, BuildingIs, BuildingIs', NEW r \in Requests, Serve(r) \/ Unlock(r)
  PROVE  Service!Answer(r) \/ UNCHANGED Service!vars
<1>1. /\ pc[r] \in {"serve", "unlock"}
      /\ name[r] \in Names
      /\ reply[r] = "none"
      /\ UNCHANGED <<name, manifests, outcome>>
  BY GateAssumption DEF IInv, TypeOK, Knows, Serve, Unlock, Goto, gateVars
<1>2. \A n \in Names : Building[n] # r
  BY <1>1 DEF BuildingIs
<1>3. UNCHANGED Building
  BY <1>1, SameBuilding DEF IInv, TypeOK, Serve, Unlock, Goto
<1>4. UNCHANGED Erred
  BY <1>1 DEF Erred, Failed
<1>5. CASE Serve(r)
  <2>1. r \notin Erred
    BY <1>5 DEF Erred, Failed, IInv, TypeOK, Vouched, Serve, Goto
  <2> QED
    BY <1>1, <1>2, <1>3, <1>4, <1>5, <2>1, GateAssumption
       DEF Service!Answer, Serve
<1>6. CASE Unlock(r) /\ Failed(r)
  <2>1. r \in Erred
    BY <1>6 DEF Erred, Failed, IInv, TypeOK, Vouched, Knows, Led, Leading, Unlock, Goto
  <2> QED
    BY <1>1, <1>2, <1>3, <1>4, <1>6, <2>1, GateAssumption
       DEF Service!Answer, Unlock
<1>7. CASE Unlock(r) /\ ~Failed(r)
  BY <1>1, <1>3, <1>4, <1>7 DEF Unlock, Service!vars
<1> QED
  BY <1>5, <1>6, <1>7

(* Every other step is one the abstract service does not see. *)
LEMMA Unseen ==
  ASSUME IInv, BuildingIs, BuildingIs', NEW r \in Requests,
         Stat(r) \/ Lead(r) \/ Follow(r) \/ RLock(r) \/ RUnlock(r) \/ Delete(r)
  PROVE  UNCHANGED Service!vars
<1>1. UNCHANGED <<name, manifests, outcome, reply, served>>
  BY DEF Stat, Lead, Follow, RLock, RUnlock, Delete, gateVars
<1>2. \A q \in Requests : pc'[q] = "build" <=> pc[q] = "build"
  BY DEF IInv, TypeOK, Stat, Lead, Follow, RLock, RUnlock, Delete, Goto
<1>3. UNCHANGED Building
  BY <1>1, <1>2, SameBuilding
<1> QED
  BY <1>1, <1>3 DEF Service!vars, Erred, Failed

(* The request handlers implement ManifestService, whatever SavedAs is:    *)
(* one build per name at a time, and every answer from the file.           *)
THEOREM ServiceImplemented == Spec => ImplementsService
<1>1. Init => Service!Init
  BY GateAssumption DEF Init, Service!Init, Building, Erred, Failed
<1>2. IInv /\ IInv' /\ BuildingIs /\ BuildingIs' /\ [Next]_vars
        => [Service!Next]_(Service!vars)
  <2> SUFFICES ASSUME IInv, IInv', BuildingIs, BuildingIs', [Next]_vars
               PROVE  [Service!Next]_(Service!vars)
    OBVIOUS
  <2>1. ASSUME NEW r \in Requests, Arrive(r) PROVE Service!Next
    <3>1. name[r] = NoOne
      BY <2>1 DEF IInv, TypeOK, Knows, Arrive, Goto
    <3>2. \A n \in Names, q \in Requests :
            (pc[q] = "build" /\ name[q] = n)' <=> pc[q] = "build" /\ name[q] = n
      BY <2>1 DEF IInv, TypeOK, Arrive, Goto
    <3>3. UNCHANGED Building
      BY <3>2, SameBuilding
    <3>4. Service!Ask(r)
      BY <2>1, <3>1, <3>3 DEF Service!Ask, Arrive, Erred, Failed
    <3> QED
      BY <3>4 DEF Service!Next
  <2>2. ASSUME NEW r \in Requests,
               Stat(r) \/ Lead(r) \/ Follow(r) \/ RLock(r) \/ RUnlock(r) \/ Delete(r)
        PROVE  UNCHANGED Service!vars
    BY <2>2, Unseen
  <2>3. ASSUME NEW r \in Requests, Lock(r) \/ LockGranted(r)
        PROVE  Service!Next \/ UNCHANGED Service!vars
    <3>1. name[r] \in Names /\ UNCHANGED <<name, manifests, outcome, reply, served>>
      BY <2>3, GateAssumption DEF IInv, TypeOK, Knows, Lock, LockGranted, Goto
    <3>2. CASE pc' = [pc EXCEPT ![r] = "build"]
      <4>1. Service!Start(r, name[r])
        BY <2>3, <3>1, <3>2, EnterBuild DEF Lock, LockGranted, Goto
      <4> QED
        BY <3>1, <4>1 DEF Service!Next
    <3>3. CASE pc[r] = "lock" /\ pc' = [pc EXCEPT ![r] = "lockwait"]
      <4>1. \A q \in Requests : pc'[q] = "build" <=> pc[q] = "build"
        BY <3>3 DEF IInv, TypeOK
      <4>2. UNCHANGED Building
        BY <3>1, <4>1, SameBuilding
      <4> QED
        BY <3>1, <4>2 DEF Service!vars, Erred, Failed
    <3> QED
      BY <2>3, <3>2, <3>3 DEF Lock, LockGranted, Goto
  <2>4. ASSUME NEW r \in Requests, Build(r) PROVE Service!Next
    <3>1. name[r] \in Names
      BY <2>4, GateAssumption DEF IInv, TypeOK, Knows, Build, Goto
    <3> QED
      BY <2>4, <3>1, LeaveBuild DEF Service!Next
  <2>5. ASSUME NEW r \in Requests, Serve(r) \/ Unlock(r)
        PROVE  Service!Next \/ UNCHANGED Service!vars
    BY <2>5, Answering DEF Service!Next
  <2>6. CASE UNCHANGED vars
    BY <2>6 DEF vars, Service!vars, Building, Erred, Failed
  <2> QED
    BY <2>1, <2>2, <2>3, <2>4, <2>5, <2>6 DEF Next, Handle, Quiet
<1>3. IInv => BuildingIs
  BY BuildingMap
<1> QED
  BY <1>1, <1>2, <1>3, Invariance, PTL DEF Spec, ImplementsService, Service!Spec
==============================================================================
