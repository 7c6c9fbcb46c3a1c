------------------------------ MODULE RuleCache -------------------------------
(***************************************************************************)
(* The image rules of the handler: those of the config files and those of  *)
(* the Image objects in the cluster. An informer goroutine keeps a store   *)
(* of the objects and drops the handler's sorted list, imageCR, after each *)
(* change of it; handler goroutines compute the list again when they find  *)
(* none. crMut guards imageCR; nothing guards imageStore, which the        *)
(* informer goroutine sets while handlers read it.                         *)
(*                                                                         *)
(* The order of the list is left out: rules are a set. Versions are not in *)
(* the code: they number the states of the store, to tell old from new.    *)
(***************************************************************************)
EXTENDS Naturals, Sequences, FiniteSets

CONSTANTS
  Lookups,     \* handler goroutines, each calling getImageRules repeatedly
  Objects,     \* names of Image objects
  Specs,       \* what an Image object may say
  Parses,      \* the Specs whose match is a pattern that parses
  Static,      \* the rules of the config files
  MaxChanges,  \* bound: changes of the cluster's objects
  MaxBreaks,   \* bound: broken watches
  None,        \* no value
  NoRules      \* no result

Events == [object : Objects, spec : Specs \cup {None}]

Lists == [version : Nat, rules : SUBSET (Specs \cup Static)]

ASSUME CacheAssumption ==
  /\ Parses \subseteq Specs
  /\ IsFiniteSet(Objects)
  /\ MaxChanges \in Nat /\ MaxBreaks \in Nat
  /\ None \notin Specs \cup Lookups \cup Lists \cup {"informer"}
  /\ NoRules \notin Lists \cup Nat
  /\ "informer" \notin Lookups

VARIABLES
  cluster,     \* cluster[o]: the object as the API server has it, or None
  watching,    \* the informer's watch is up
  events,      \* objects on their way from the server into the store
  store,       \* store[o]: the object as the informer's store has it
  version,     \* states the store has been through
  imageStore,  \* the field of that name: "nil", "torn" half written, "set"
  informer,    \* what the informer goroutine is doing
  crMut,       \* who holds the mutex: a lookup, "informer" or None
  imageCR,     \* the list of rules computed last, or None
  pc,          \* pc[l]: where l is in getImageRules
  got,         \* got[l]: the list it returns, or returned last
  spent        \* changes and breaks so far

clusterVars == <<cluster, watching, events, spent>>
storeVars == <<store, version, imageStore, informer>>
vars == <<clusterVars, storeVars, crMut, imageCR, pc, got>>

(* Mutant: an object that is gone or does not parse is a rule like others. *)
RulesOfAll(objects) == Static \cup {objects[o] : o \in Objects}

RulesOf(objects) ==
  Static \cup {objects[o] : o \in {p \in Objects : objects[p] \in Parses}}

Listing == [version |-> version, rules |-> RulesOf(store)]

(* The rules of the config files are those of a store that has nothing. *)
ImageRules == [version |-> 0, rules |-> Static]

Init ==
  /\ cluster \in [Objects -> Specs \cup {None}]
  /\ watching = FALSE
  /\ events = <<>>
  /\ store = [o \in Objects |-> None]
  /\ version = 0
  /\ imageStore = "nil"
  /\ informer = "start"
  /\ crMut = None
  /\ imageCR = None
  /\ pc = [l \in Lookups |-> "idle"]
  /\ got = [l \in Lookups |-> NoRules]
  /\ spent = [changes |-> 0, breaks |-> 0]

------------------------------------------------------------------------------
(* Somebody creates, changes or deletes an Image object. *)
Change(o) ==
  /\ spent.changes < MaxChanges
  /\ \E s \in (Specs \cup {None}) \ {cluster[o]} :
       /\ cluster' = [cluster EXCEPT ![o] = s]
       /\ events' = IF watching
                      THEN Append(events, [object |-> o, spec |-> s]) ELSE events
  /\ spent' = [spent EXCEPT !.changes = @ + 1]
  /\ UNCHANGED <<watching, storeVars, crMut, imageCR, pc, got>>

(* The watch breaks: what has not arrived is lost. *)
Break ==
  /\ watching /\ spent.breaks < MaxBreaks
  /\ watching' = FALSE
  /\ \E n \in 0 .. Len(events) : events' = SubSeq(events, 1, n)
  /\ spent' = [spent EXCEPT !.breaks = @ + 1]
  /\ UNCHANGED <<cluster, storeVars, crMut, imageCR, pc, got>>

(* Mutant: after a break only the objects there are get listed. *)
ListOnlyPresent ==
  LET listed == {o \in Objects : cluster[o] # None} IN
  /\ informer \notin {"start", "assign"} /\ ~watching
  /\ watching' = TRUE
  /\ \E order \in [1 .. Cardinality(listed) -> listed] :
       /\ \A j, k \in DOMAIN order : order[j] = order[k] => j = k
       /\ events' = events \o [k \in DOMAIN order |->
                       [object |-> order[k], spec |-> cluster[order[k]]]]
  /\ UNCHANGED <<cluster, spent, storeVars, crMut, imageCR, pc, got>>

(* The informer lists the objects, to start or after a break, and queues   *)
(* every object there is or was, in no particular order.                   *)
ListAndWatch ==
  LET last(o) == LET of == {k \in DOMAIN events : events[k].object = o} IN
        IF of = {} THEN store[o]
        ELSE events[CHOOSE k \in of : \A j \in of : j <= k].spec
      listed == {o \in Objects : cluster[o] # None \/ last(o) # None} IN
  /\ informer \notin {"start", "assign"} /\ ~watching
  /\ watching' = TRUE
  /\ \E order \in [1 .. Cardinality(listed) -> listed] :
       /\ \A j, k \in DOMAIN order : order[j] = order[k] => j = k
       /\ events' = events \o [k \in DOMAIN order |->
                       [object |-> order[k], spec |-> cluster[order[k]]]]
  /\ UNCHANGED <<cluster, spent, storeVars, crMut, imageCR, pc, got>>

(* h.imageStore = store, two words written without a lock. *)
Assign ==
  /\ \/ informer = "start"  /\ imageStore' = "torn" /\ informer' = "assign"
     \/ informer = "assign" /\ imageStore' = "set"  /\ informer' = "run"
  /\ UNCHANGED <<clusterVars, store, version, crMut, imageCR, pc, got>>

(* The next object goes into the store, and its handler is called. *)
Apply ==
  /\ informer = "run" /\ events # <<>>
  /\ store' = [store EXCEPT ![Head(events).object] = Head(events).spec]
  /\ events' = Tail(events)
  /\ version' = version + 1
  /\ informer' = "reset"
  /\ UNCHANGED <<cluster, watching, spent, imageStore, crMut, imageCR, pc, got>>

(* Mutant: resetImageCR without the mutex. *)
ResetUnguarded ==
  /\ informer = "reset"
  /\ imageCR' = None
  /\ informer' = "run"
  /\ UNCHANGED <<clusterVars, store, version, imageStore, crMut, pc, got>>

(* resetImageCR. *)
ResetLock ==
  /\ informer = "reset" /\ crMut = None
  /\ crMut' = "informer"
  /\ informer' = "locked"
  /\ UNCHANGED <<clusterVars, store, version, imageStore, imageCR, pc, got>>

(* Mutant: resetImageCR keeps the mutex. *)
ResetNoUnlock ==
  /\ informer = "locked"
  /\ imageCR' = None
  /\ informer' = "run"
  /\ UNCHANGED <<clusterVars, store, version, imageStore, crMut, pc, got>>

Reset ==
  /\ informer = "locked"
  /\ imageCR' = None
  /\ crMut' = None
  /\ informer' = "run"
  /\ UNCHANGED <<clusterVars, store, version, imageStore, pc, got>>

Goto(l, from, to) ==
  /\ pc[l] = from
  /\ pc' = [pc EXCEPT ![l] = to]

Ask(l) ==
  /\ Goto(l, "idle", "check")
  /\ got' = [got EXCEPT ![l] = NoRules]
  /\ UNCHANGED <<clusterVars, storeVars, crMut, imageCR>>

(* if h.imageStore == nil: without an informer, or before it has begun,    *)
(* the rules of the config files are returned.                             *)
Check(l) ==
  /\ \/ /\ imageStore \in {"nil", "torn"}
        /\ Goto(l, "check", "return")
        /\ got' = [got EXCEPT ![l] = ImageRules]
     \/ /\ imageStore \in {"torn", "set"}
        /\ Goto(l, "check", "lock")
        /\ UNCHANGED got
  /\ UNCHANGED <<clusterVars, storeVars, crMut, imageCR>>

(* Mutant: getImageRules without the mutex. *)
LockNothing(l) ==
  /\ Goto(l, "lock", "look")
  /\ UNCHANGED <<clusterVars, storeVars, crMut, imageCR, got>>

Lock(l) ==
  /\ Goto(l, "lock", "look")
  /\ crMut = None
  /\ crMut' = l
  /\ UNCHANGED <<clusterVars, storeVars, imageCR, got>>

Look(l) ==
  /\ \/ /\ imageCR # None
        /\ Goto(l, "look", "unlock")
        /\ got' = [got EXCEPT ![l] = imageCR]
     \/ /\ imageCR = None
        /\ Goto(l, "look", "list")
        /\ UNCHANGED got
  /\ UNCHANGED <<clusterVars, storeVars, crMut, imageCR>>

(* Mutant: the mutex is unlocked at the end of the function, not deferred. *)
ListNoDefer(l) ==
  /\ \/ /\ Goto(l, "list", "fill")
        /\ got' = [got EXCEPT ![l] = Listing]
     \/ /\ imageStore = "torn"
        /\ Goto(l, "list", "return")
        /\ UNCHANGED got
  /\ UNCHANGED <<clusterVars, storeVars, crMut, imageCR>>

(* h.imageStore.List(), which locks the store for itself. The second read  *)
(* of the field may find it half written, and then the call panics; the    *)
(* deferred Unlock still runs.                                             *)
List(l) ==
  /\ \/ /\ Goto(l, "list", "fill")
        /\ got' = [got EXCEPT ![l] = Listing]
     \/ /\ imageStore = "torn"
        /\ Goto(l, "list", "unlock")
        /\ UNCHANGED got
  /\ UNCHANGED <<clusterVars, storeVars, crMut, imageCR>>

(* The rules are made and sorted, and kept. *)
Fill(l) ==
  /\ Goto(l, "fill", "unlock")
  /\ imageCR' = got[l]
  /\ UNCHANGED <<clusterVars, storeVars, crMut, got>>

Unlock(l) ==
  /\ Goto(l, "unlock", "return")
  /\ crMut' = None
  /\ UNCHANGED <<clusterVars, storeVars, imageCR, got>>

Return(l) ==
  /\ Goto(l, "return", "idle")
  /\ UNCHANGED <<clusterVars, storeVars, crMut, imageCR, got>>

LookUp(l) ==
  Check(l) \/ Look(l) \/ List(l) \/ Fill(l) \/ Unlock(l) \/ Return(l)

Inform == ListAndWatch \/ Assign \/ Apply \/ Reset

Next ==
  \/ \E o \in Objects : Change(o)
  \/ Break \/ Inform \/ ResetLock
  \/ \E l \in Lookups : Ask(l) \/ Lock(l) \/ LookUp(l)

Spec == Init /\ [][Next]_vars

(* The goroutines run on, and crMut starves none that waits for it (a      *)
(* sync.Mutex is handed to one that has waited for a millisecond).         *)
Fairness ==
  /\ WF_vars(ListAndWatch) /\ WF_vars(Assign \/ Apply \/ Reset)
  /\ SF_vars(ResetLock)
  /\ \A l \in Lookups : WF_vars(LookUp(l)) /\ SF_vars(Lock(l))

FairSpec == Spec /\ Fairness
------------------------------------------------------------------------------
TypeOK ==
  /\ cluster \in [Objects -> Specs \cup {None}]
  /\ watching \in BOOLEAN
  /\ events \in Seq(Events)
  /\ store \in [Objects -> Specs \cup {None}]
  /\ version \in Nat
  /\ imageStore \in {"nil", "torn", "set"}
  /\ informer \in {"start", "assign", "run", "reset", "locked"}
  /\ crMut \in Lookups \cup {"informer", None}
  /\ imageCR \in Lists \cup {None}
  /\ pc \in [Lookups -> {"idle", "check", "lock", "look", "list", "fill",
                         "unlock", "return"}]
  /\ got \in [Lookups -> Lists \cup {NoRules}]
  /\ spent \in [changes : Nat, breaks : Nat]

(* Whoever holds crMut is on its way to giving it back, a lookup that      *)
(* panicked included: no request leaves the rules locked for good.         *)
NoAbandonedLock ==
  /\ crMut \in Lookups => pc[crMut] \in {"look", "list", "fill", "unlock"}
  /\ crMut = "informer" <=> informer = "locked"

(* The cached list is that of the store, unless the informer has yet to    *)
(* drop it for its latest object: a lookup that listed the store before a  *)
(* change cannot bring its list back after resetImageCR has dropped it.    *)
CacheFresh ==
  imageCR # None /\ informer \notin {"reset", "locked"} =>
    imageCR.rules = RulesOf(store)

(* The version everybody sees: the cached one, the one a lookup is about   *)
(* to cache, or the store's.                                               *)
View ==
  IF imageCR # None THEN imageCR.version
  ELSE IF \E l \in Lookups : pc[l] = "fill"
    THEN got[CHOOSE l \in Lookups : pc[l] = "fill"].version
    ELSE version

StageOf(step) ==
  CASE step = "idle" -> "idle"
    [] step \in {"check", "lock", "look", "list"} -> "asked"
    [] step \in {"fill", "unlock", "return"} -> "returning"

Stage == [l \in Lookups |-> StageOf(pc[l])]

Result == [l \in Lookups |-> IF got[l] = NoRules THEN NoRules ELSE got[l].version]

(* The cache implements one view of the rules that only moves on.          *)
Rules == INSTANCE RuleView WITH view <- View, stage <- Stage, result <- Result

ImplementsRuleView == Rules!Spec

(* Once the objects no longer change, every lookup comes to return the     *)
(* rules of the objects there are, through broken watches and full locks.  *)
Converges ==
  <>[][\A l \in Lookups : got'[l] \notin {got[l], NoRules} =>
         got'[l].rules = RulesOf(cluster)]_vars

(* A lookup returns. *)
LookupsReturn == \A l \in Lookups : pc[l] = "check" ~> pc[l] = "return"
==============================================================================
