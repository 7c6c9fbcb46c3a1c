--------------------------- MODULE ManifestService ---------------------------
(***************************************************************************)
(* What serving manifests by tag promises, without the lock that makes it  *)
(* true: at most one build per name runs at a time, only a build changes   *)
(* what is filed, and every request is answered once, from what is filed   *)
(* under the name it asked for. It does not promise that a build without   *)
(* an error has filed something: storage drops an error.                   *)
(***************************************************************************)
EXTENDS Naturals

CONSTANTS
  Requests,   \* requests for a manifest by tag
  Names,      \* image:tag references
  SavedAs,    \* SavedAs[n]: the reference under which storage files n
  NoOne,      \* no request, no name
  Torn        \* a manifest file that does not decode

VARIABLES
  name,       \* name[r]: what r asked for, NoOne before it arrives
  building,   \* building[n]: the request whose build of n is running, or NoOne
  manifests,  \* manifests[n]: whose build is filed under n, Torn, or NoOne
  erred,      \* requests whose own build failed
  reply,      \* reply[r]: how r was answered
  served      \* served[r]: whose build r was given

vars == <<name, building, manifests, erred, reply, served>>

Init ==
  /\ name = [r \in Requests |-> NoOne]
  /\ building = [n \in Names |-> NoOne]
  /\ manifests = [n \in Names |-> NoOne]
  /\ erred = {}
  /\ reply = [r \in Requests |-> "none"]
  /\ served = [r \in Requests |-> NoOne]

(* A request comes in for some name. *)
Ask(r) ==
  /\ name[r] = NoOne
  /\ \E n \in Names : name' = [name EXCEPT ![r] = n]
  /\ UNCHANGED <<building, manifests, erred, reply, served>>

(* A build of n starts on behalf of a request for n. *)
Start(r, n) ==
  /\ name[r] = n
  /\ reply[r] = "none"
  /\ building[n] = NoOne
  /\ building' = [building EXCEPT ![n] = r]
  /\ UNCHANGED <<name, manifests, erred, reply, served>>

(* A build of n ends. Its manifest is filed; or nothing is, and nobody is  *)
(* told; or it failed, having filed nothing or a broken file.              *)
Finish(r, n) ==
  /\ building[n] = r
  /\ building' = [building EXCEPT ![n] = NoOne]
  /\ \/ /\ \/ manifests' = [manifests EXCEPT ![SavedAs[n]] = n]
           \/ UNCHANGED manifests
        /\ UNCHANGED erred
     \/ /\ \/ manifests' = [manifests EXCEPT ![SavedAs[n]] = Torn]
           \/ UNCHANGED manifests
        /\ erred' = erred \cup {r}
  /\ UNCHANGED <<name, reply, served>>

(* A request is answered with what is filed under the name it asked for,   *)
(* with "unknown" only when nothing is filed, with "internal" only when    *)
(* its own build failed or the file is broken.                             *)
Answer(r) ==
  LET found == manifests[name[r]] IN
  /\ name[r] # NoOne
  /\ reply[r] = "none"
  /\ \A n \in Names : building[n] # r
  /\ \/ /\ r \notin erred /\ found \in Names
        /\ reply' = [reply EXCEPT ![r] = "manifest"]
        /\ served' = [served EXCEPT ![r] = found]
     \/ /\ r \notin erred /\ found = NoOne
        /\ reply' = [reply EXCEPT ![r] = "unknown"]
        /\ UNCHANGED served
     \/ /\ r \in erred \/ found = Torn
        /\ reply' = [reply EXCEPT ![r] = "internal"]
        /\ UNCHANGED served
  /\ UNCHANGED <<name, building, manifests, erred>>

Next ==
  \E r \in Requests :
    \/ Ask(r)
    \/ Answer(r)
    \/ \E n \in Names : Start(r, n) \/ Finish(r, n)

Spec == Init /\ [][Next]_vars

==============================================================================
