-------------------------- MODULE RuleCache_proofs ---------------------------
(***************************************************************************)
(* Proofs about RuleCache, for any number of lookups, objects, changes and *)
(* broken watches.                                                         *)
(*                                                                         *)
(* CacheFresh is not inductive alone: a lookup computes the list before it *)
(* caches it. The invariant says the same of the list still in its hands,  *)
(* which only the mutex makes true: resetImageCR waits for it.             *)
(***************************************************************************)
EXTENDS RuleCache, FiniteSetTheorems, SequenceTheorems, TLAPS

Locking == {"look", "list", "fill", "unlock"}

(* crMut is held by exactly the goroutine that is between its Lock and its *)
(* Unlock.                                                                 *)
Held ==
  /\ \A l \in Lookups : pc[l] \in Locking <=> crMut = l
  /\ crMut = "informer" <=> informer = "locked"

(* Before the informer goroutine has set imageStore, nothing is in it. *)
Begun ==
  /\ imageStore = "set" <=> informer \notin {"start", "assign"}
  /\ informer \in {"start", "assign"} => version = 0 /\ RulesOf(store) = Static

(* Whoever may cache a list has a list to cache. *)
Filling ==
  \A l \in Lookups :
    /\ pc[l] \in {"list", "fill"} => imageCR = None
    /\ pc[l] = "fill" => got[l] \in Lists

Pending == informer \in {"reset", "locked"}

(* A list, cached or about to be, is the store's unless a reset is due.    *)
IsFresh(list) ==
  /\ list.version <= version
  /\ ~Pending => list = Listing

Fresh ==
  /\ imageCR # None => IsFresh(imageCR)
  /\ \A l \in Lookups : pc[l] = "fill" => IsFresh(got[l])

IInv ==
  /\ TypeOK
  /\ Held
  /\ Begun
  /\ Filling
  /\ Fresh
------------------------------------------------------------------------------
(* What RulesOf computes is a set of rules, and Listing a list.            *)
LEMMA RulesType ==
  ASSUME NEW objects \in [Objects -> Specs \cup {None}]
  PROVE  RulesOf(objects) \in SUBSET (Specs \cup Static)
BY CacheAssumption DEF RulesOf

LEMMA ListingType == TypeOK => Listing \in Lists
BY RulesType DEF TypeOK, Listing, Lists

(* A function from 1 .. n is a sequence.                                   *)
LEMMA FunctionIsSeq ==
  ASSUME NEW S, NEW n \in Nat, NEW f \in [1 .. n -> S]
  PROVE  f \in Seq(S)
<1> f \in UNION {[1 .. k -> S] : k \in Nat}
  OBVIOUS
<1> QED
  BY SeqDef

(* The store is empty at first, which leaves the rules of the files.       *)
LEMMA InitInv == Init => IInv
<1> SUFFICES ASSUME Init PROVE IInv
  OBVIOUS
<1> USE CacheAssumption DEF Init
<1>1. TypeOK
  <2>1. events \in Seq(Events)
    OBVIOUS
  <2>2. spent \in [changes : Nat, breaks : Nat]
    OBVIOUS
  <2> QED
    BY <2>1, <2>2 DEF TypeOK
<1>2. Held
  BY DEF Held, Locking
<1>3. Begun
  BY DEF Begun, RulesOf
<1>4. Filling
  BY DEF Filling
<1>5. Fresh
  BY DEF Fresh
<1> QED
  BY <1>1, <1>2, <1>3, <1>4, <1>5 DEF IInv

(* Nothing of the cluster but events reaches the cache. *)
LEMMA ChangeInv == ASSUME IInv, NEW o \in Objects, Change(o) PROVE IInv'
<1> USE CacheAssumption DEF IInv, Change, storeVars
<1>1. TypeOK'
  <2>1. PICK s \in (Specs \cup {None}) \ {cluster[o]} :
          /\ cluster' = [cluster EXCEPT ![o] = s]
          /\ events' = IF watching
                         THEN Append(events, [object |-> o, spec |-> s]) ELSE events
    OBVIOUS
  <2>2. events' \in Seq(Events)
    <3>1. [object |-> o, spec |-> s] \in Events /\ events \in Seq(Events)
      BY <2>1 DEF TypeOK, Events
    <3> QED
      BY <2>1, <3>1, AppendProperties
  <2>3. cluster' \in [Objects -> Specs \cup {None}]
    BY <2>1 DEF TypeOK
  <2>4. spent' \in [changes : Nat, breaks : Nat]
    BY DEF TypeOK
  <2> QED
    BY <2>2, <2>3, <2>4 DEF TypeOK
<1>2. Held'
  BY DEF TypeOK, Held, Locking
<1>3. Begun'
  BY DEF TypeOK, Begun
<1>4. Filling'
  BY DEF TypeOK, Held, Locking, Filling
<1>5. Fresh'
  BY DEF TypeOK, Held, Locking, Filling, Fresh, IsFresh, Pending, Listing
<1> QED
  BY <1>1, <1>2, <1>3, <1>4, <1>5 DEF IInv

(* A broken watch shortens events. *)
LEMMA BreakInv == ASSUME IInv, Break PROVE IInv'
<1> USE CacheAssumption DEF IInv, Break, storeVars
<1>1. TypeOK'
  <2>1. PICK n \in 0 .. Len(events) : events' = SubSeq(events, 1, n)
    OBVIOUS
  <2>2. events' \in Seq(Events)
    <3>1. n \in Int /\ \A i \in 1 .. n : events[i] \in Events
      BY DEF TypeOK
    <3> QED
      BY <2>1, <3>1, SubSeqProperties
  <2>3. spent' \in [changes : Nat, breaks : Nat]
    BY DEF TypeOK
  <2> QED
    BY <2>2, <2>3 DEF TypeOK
<1>2. Held'
  BY DEF TypeOK, Held, Locking
<1>3. Begun'
  BY DEF TypeOK, Begun
<1>4. Filling'
  BY DEF TypeOK, Held, Locking, Filling
<1>5. Fresh'
  BY DEF TypeOK, Held, Locking, Filling, Fresh, IsFresh, Pending, Listing
<1> QED
  BY <1>1, <1>2, <1>3, <1>4, <1>5 DEF IInv

(* A list lengthens events. *)
LEMMA ListAndWatchInv == ASSUME IInv, ListAndWatch PROVE IInv'
<1> USE CacheAssumption DEF IInv, ListAndWatch, storeVars
<1>1. TypeOK'
  <2> DEFINE last(o) == LET of == {k \in DOMAIN events : events[k].object = o} IN
                IF of = {} THEN store[o]
                ELSE events[CHOOSE k \in of : \A j \in of : j <= k].spec
             listed == {o \in Objects : cluster[o] # None \/ last(o) # None}
             queued(order) == [k \in DOMAIN order |->
                [object |-> order[k], spec |-> cluster[order[k]]]]
  <2>1. PICK order \in [1 .. Cardinality(listed) -> listed] :
          events' = events \o queued(order)
    BY DEF ListAndWatch
  <2> HIDE DEF last
  <2>2. Cardinality(listed) \in Nat /\ listed \subseteq Objects
    BY FS_Subset, FS_CardinalityType
  <2> HIDE DEF listed
  <2>3. queued(order) \in [1 .. Cardinality(listed) -> Events]
    BY <2>2 DEF TypeOK, Events
  <2>4. queued(order) \in Seq(Events)
    BY <2>2, <2>3, FunctionIsSeq
  <2>5. events' \in Seq(Events)
    BY <2>1, <2>4, ConcatProperties DEF TypeOK
  <2> QED
    BY <2>5 DEF TypeOK
<1>2. Held'
  BY DEF TypeOK, Held, Locking
<1>3. Begun'
  BY DEF TypeOK, Begun
<1>4. Filling'
  BY DEF TypeOK, Held, Locking, Filling
<1>5. Fresh'
  BY DEF TypeOK, Held, Locking, Filling, Fresh, IsFresh, Pending, Listing
<1> QED
  BY <1>1, <1>2, <1>3, <1>4, <1>5 DEF IInv

(* The goroutine goes on from "start" to "run". *)
LEMMA AssignInv == ASSUME IInv, Assign PROVE IInv'
<1> USE CacheAssumption DEF IInv, Assign, clusterVars
<1>1. TypeOK'
  BY DEF TypeOK
<1>2. Held'
  BY DEF TypeOK, Held, Locking
<1>3. Begun'
  BY DEF TypeOK, Begun
<1>4. Filling'
  BY DEF TypeOK, Held, Locking, Filling
<1>5. Fresh'
  BY DEF TypeOK, Held, Locking, Filling, Fresh, IsFresh, Pending, Listing
<1> QED
  BY <1>1, <1>2, <1>3, <1>4, <1>5 DEF IInv

(* From the next object on a reset is due. *)
LEMMA ApplyInv == ASSUME IInv, Apply PROVE IInv'
<1> USE CacheAssumption DEF IInv, Apply
<1>1. TypeOK'
  <2>1. Head(events) \in Events /\ Tail(events) \in Seq(Events)
    BY HeadTailProperties DEF TypeOK
  <2>2. store' \in [Objects -> Specs \cup {None}]
    BY <2>1 DEF TypeOK, Events
  <2> QED
    BY <2>1, <2>2 DEF TypeOK
<1>2. Held'
  BY DEF TypeOK, Held, Locking
<1>3. Begun'
  BY DEF TypeOK, Begun
<1>4. Filling'
  BY DEF TypeOK, Held, Locking, Filling
<1>5. Fresh'
  BY DEF TypeOK, Held, Locking, Filling, Fresh, IsFresh, Pending, Listing
<1> QED
  BY <1>1, <1>2, <1>3, <1>4, <1>5 DEF IInv

(* The informer holds the mutex, so no lookup does. *)
LEMMA ResetLockInv == ASSUME IInv, ResetLock PROVE IInv'
<1> USE CacheAssumption DEF IInv, ResetLock, clusterVars
<1>1. TypeOK'
  BY DEF TypeOK
<1>2. Held'
  BY DEF TypeOK, Held, Locking
<1>3. Begun'
  BY DEF TypeOK, Begun
<1>4. Filling'
  BY DEF TypeOK, Held, Locking, Filling
<1>5. Fresh'
  BY DEF TypeOK, Held, Locking, Filling, Fresh, IsFresh, Pending, Listing
<1> QED
  BY <1>1, <1>2, <1>3, <1>4, <1>5 DEF IInv

(* Nothing is cached, nor about to be. *)
LEMMA ResetInv == ASSUME IInv, Reset PROVE IInv'
<1> USE CacheAssumption DEF IInv, Reset, clusterVars
<1>1. TypeOK'
  BY DEF TypeOK
<1>2. Held'
  BY DEF TypeOK, Held, Locking
<1>3. Begun'
  BY DEF TypeOK, Begun
<1>4. Filling'
  BY DEF TypeOK, Held, Locking, Filling
<1>5. Fresh'
  BY DEF TypeOK, Held, Locking, Filling, Fresh, IsFresh, Pending, Listing
<1> QED
  BY <1>1, <1>2, <1>3, <1>4, <1>5 DEF IInv

(* A lookup begins with nothing. *)
LEMMA AskInv == ASSUME IInv, NEW l \in Lookups, Ask(l) PROVE IInv'
<1> USE CacheAssumption DEF IInv, Ask, Goto, clusterVars, storeVars
<1>1. TypeOK'
  BY DEF TypeOK
<1>2. Held'
  BY DEF TypeOK, Held, Locking
<1>3. Begun'
  BY DEF TypeOK, Begun
<1>4. Filling'
  BY DEF TypeOK, Held, Locking, Filling
<1>5. Fresh'
  BY DEF TypeOK, Held, Locking, Filling, Fresh, IsFresh, Pending, Listing
<1> QED
  BY <1>1, <1>2, <1>3, <1>4, <1>5 DEF IInv

(* Without imageStore the rules of the files are returned. *)
LEMMA CheckInv == ASSUME IInv, NEW l \in Lookups, Check(l) PROVE IInv'
<1> USE CacheAssumption DEF IInv, Check, Goto, clusterVars, storeVars
<1>1. TypeOK'
  BY DEF TypeOK, Lists, ImageRules
<1>2. Held'
  BY DEF TypeOK, Held, Locking
<1>3. Begun'
  BY DEF TypeOK, Begun
<1>4. Filling'
  BY DEF TypeOK, Held, Locking, Filling
<1>5. Fresh'
  <2>1. \A k \in Lookups :
          pc'[k] = "fill" => pc[k] = "fill" /\ got'[k] = got[k]
    BY DEF TypeOK
  <2> QED
    BY <2>1 DEF Fresh, IsFresh, Pending, Listing
<1> QED
  BY <1>1, <1>2, <1>3, <1>4, <1>5 DEF IInv

(* The mutex is the lookup's. *)
LEMMA LockInv == ASSUME IInv, NEW l \in Lookups, Lock(l) PROVE IInv'
<1> USE CacheAssumption DEF IInv, Lock, Goto, clusterVars, storeVars
<1>1. TypeOK'
  BY DEF TypeOK
<1>2. Held'
  BY DEF TypeOK, Held, Locking
<1>3. Begun'
  BY DEF TypeOK, Begun
<1>4. Filling'
  BY DEF TypeOK, Held, Locking, Filling
<1>5. Fresh'
  BY DEF TypeOK, Held, Locking, Filling, Fresh, IsFresh, Pending, Listing
<1> QED
  BY <1>1, <1>2, <1>3, <1>4, <1>5 DEF IInv

(* A cached list is returned as it is. *)
LEMMA LookInv == ASSUME IInv, NEW l \in Lookups, Look(l) PROVE IInv'
<1> USE CacheAssumption DEF IInv, Look, Goto, clusterVars, storeVars
<1>1. TypeOK'
  BY DEF TypeOK
<1>2. Held'
  BY DEF TypeOK, Held, Locking
<1>3. Begun'
  BY DEF TypeOK, Begun
<1>4. Filling'
  BY DEF TypeOK, Held, Locking, Filling
<1>5. Fresh'
  BY DEF TypeOK, Held, Locking, Filling, Fresh, IsFresh, Pending, Listing
<1> QED
  BY <1>1, <1>2, <1>3, <1>4, <1>5 DEF IInv

(* The list is the store's at this moment. *)
LEMMA ListInv == ASSUME IInv, NEW l \in Lookups, List(l) PROVE IInv'
<1> USE CacheAssumption DEF IInv, List, Goto, clusterVars, storeVars
<1>1. TypeOK'
  BY ListingType DEF TypeOK
<1>2. Held'
  BY DEF TypeOK, Held, Locking
<1>3. Begun'
  BY DEF TypeOK, Begun
<1>4. Filling'
  BY ListingType DEF TypeOK, Held, Locking, Filling
<1>5. Fresh'
  BY DEF TypeOK, Held, Locking, Filling, Fresh, IsFresh, Pending, Listing
<1> QED
  BY <1>1, <1>2, <1>3, <1>4, <1>5 DEF IInv

(* The list in hand is cached, as fresh as it was. *)
LEMMA FillInv == ASSUME IInv, NEW l \in Lookups, Fill(l) PROVE IInv'
<1> USE CacheAssumption DEF IInv, Fill, Goto, clusterVars, storeVars
<1>1. TypeOK'
  BY DEF TypeOK, Filling
<1>2. Held'
  BY DEF TypeOK, Held, Locking
<1>3. Begun'
  BY DEF TypeOK, Begun
<1>4. Filling'
  BY DEF TypeOK, Held, Locking, Filling
<1>5. Fresh'
  BY DEF TypeOK, Held, Locking, Filling, Fresh, IsFresh, Pending, Listing
<1> QED
  BY <1>1, <1>2, <1>3, <1>4, <1>5 DEF IInv

(* The mutex is free. *)
LEMMA UnlockInv == ASSUME IInv, NEW l \in Lookups, Unlock(l) PROVE IInv'
<1> USE CacheAssumption DEF IInv, Unlock, Goto, clusterVars, storeVars
<1>1. TypeOK'
  BY DEF TypeOK
<1>2. Held'
  BY DEF TypeOK, Held, Locking
<1>3. Begun'
  BY DEF TypeOK, Begun
<1>4. Filling'
  BY DEF TypeOK, Held, Locking, Filling
<1>5. Fresh'
  BY DEF TypeOK, Held, Locking, Filling, Fresh, IsFresh, Pending, Listing
<1> QED
  BY <1>1, <1>2, <1>3, <1>4, <1>5 DEF IInv

(* The lookup is over. *)
LEMMA ReturnInv == ASSUME IInv, NEW l \in Lookups, Return(l) PROVE IInv'
<1> USE CacheAssumption DEF IInv, Return, Goto, clusterVars, storeVars
<1>1. TypeOK'
  BY DEF TypeOK
<1>2. Held'
  BY DEF TypeOK, Held, Locking
<1>3. Begun'
  BY DEF TypeOK, Begun
<1>4. Filling'
  BY DEF TypeOK, Held, Locking, Filling
<1>5. Fresh'
  BY DEF TypeOK, Held, Locking, Filling, Fresh, IsFresh, Pending, Listing
<1> QED
  BY <1>1, <1>2, <1>3, <1>4, <1>5 DEF IInv

(* Nothing changes. *)
LEMMA StutterInv == ASSUME IInv, UNCHANGED vars PROVE IInv'
<1> USE DEF IInv, vars, clusterVars, storeVars
<1>1. TypeOK'
  BY DEF TypeOK
<1>2. Held'
  BY DEF Held, Locking
<1>3. Begun'
  BY DEF Begun
<1>4. Filling'
  BY DEF Filling
<1>5. Fresh'
  BY DEF Fresh, IsFresh, Pending, Listing
<1> QED
  BY <1>1, <1>2, <1>3, <1>4, <1>5 DEF IInv

(* The invariant holds in every reachable state. *)
THEOREM Invariance == Spec => []IInv
<1>1. IInv /\ [Next]_vars => IInv'
  <2> SUFFICES ASSUME IInv, [Next]_vars PROVE IInv'
    OBVIOUS
  <2>1. ASSUME NEW o \in Objects, Change(o) PROVE IInv'
    BY <2>1, ChangeInv
  <2>2. CASE Break \/ Inform \/ ResetLock
    BY <2>2, BreakInv, ListAndWatchInv, AssignInv, ApplyInv, ResetInv,
       ResetLockInv DEF Inform
  <2>3. ASSUME NEW l \in Lookups, Ask(l) \/ Lock(l) \/ LookUp(l) PROVE IInv'
    BY <2>3, AskInv, LockInv, CheckInv, LookInv, ListInv, FillInv, UnlockInv,
       ReturnInv DEF LookUp
  <2>4. CASE UNCHANGED vars
    BY <2>4, StutterInv
  <2> QED
    BY <2>1, <2>2, <2>3, <2>4 DEF Next
<1> QED
  BY <1>1, InitInv, PTL DEF Spec

(* Every variable has its type. *)
THEOREM TypeCorrect == Spec => []TypeOK
<1>1. IInv => TypeOK
  BY DEF IInv
<1> QED
  BY <1>1, Invariance, PTL

(* crMut is never left to a goroutine that will not unlock it. *)
THEOREM LockIsReleased == Spec => []NoAbandonedLock
<1>1. IInv => NoAbandonedLock
  BY CacheAssumption DEF IInv, Held, Locking, NoAbandonedLock
<1> QED
  BY <1>1, Invariance, PTL

(* No list computed before a change is cached after the reset for it. *)
THEOREM CacheIsFresh == Spec => []CacheFresh
<1>1. IInv => CacheFresh
  BY DEF IInv, Fresh, IsFresh, Pending, Listing, CacheFresh
<1> QED
  BY <1>1, Invariance, PTL
------------------------------------------------------------------------------
(* What View is, with the mutex held: only one lookup can be in "fill". *)
ViewIs ==
  /\ imageCR # None => View = imageCR.version
  /\ \A l \in Lookups : pc[l] = "fill" => View = got[l].version
  /\ imageCR = None /\ (\A l \in Lookups : pc[l] # "fill") => View = version
  /\ View \in Nat
  /\ View <= version

(* CHOOSE has no choice: two lookups in "fill" would both hold crMut.      *)
LEMMA ViewKnown == IInv => ViewIs
<1> SUFFICES ASSUME IInv PROVE ViewIs
  OBVIOUS
<1>1. \A k, l \in Lookups : pc[k] = "fill" /\ pc[l] = "fill" => k = l
  BY DEF IInv, Held, Locking
<1>2. CASE imageCR # None
  <2>1. View = imageCR.version
    BY <1>2 DEF View
  <2>2. imageCR \in Lists /\ imageCR.version <= version
    BY <1>2 DEF IInv, TypeOK, Fresh, IsFresh
  <2> QED
    BY <1>2, <2>1, <2>2 DEF ViewIs, Lists, IInv, Filling
<1>3. ASSUME imageCR = None, NEW l \in Lookups, pc[l] = "fill" PROVE ViewIs
  <2>1. l = CHOOSE k \in Lookups : pc[k] = "fill"
    BY <1>1, <1>3
  <2>2. View = got[l].version
    BY <1>3, <2>1 DEF View
  <2>3. got[l] \in Lists /\ got[l].version <= version
    BY <1>3 DEF IInv, Filling, Fresh, IsFresh
  <2> QED
    BY <1>1, <1>3, <2>2, <2>3 DEF ViewIs, Lists
<1>4. CASE imageCR = None /\ \A l \in Lookups : pc[l] # "fill"
  <2>1. View = version
    BY <1>4 DEF View
  <2> QED
    BY <1>4, <2>1 DEF ViewIs, IInv, TypeOK
<1> QED
  BY <1>2, <1>3, <1>4

(* Stage and Result follow pc and got, one lookup at a time.               *)
LEMMA StageStep ==
  ASSUME IInv, NEW l \in Lookups, NEW s, pc' = [pc EXCEPT ![l] = s]
  PROVE  Stage' = [Stage EXCEPT ![l] = StageOf(s)]
BY DEF IInv, TypeOK, Stage

LEMMA ResultStep ==
  ASSUME IInv, NEW l \in Lookups, NEW list, got' = [got EXCEPT ![l] = list]
  PROVE  Result' = [Result EXCEPT ![l] =
           IF list = NoRules THEN NoRules ELSE list.version]
BY DEF IInv, TypeOK, Result

(* A step of the informer or the cluster leaves the lookups alone, and the *)
(* view where it is or ahead.                                              *)
LEMMA Onward ==
  ASSUME IInv, ViewIs, ViewIs',
         (\E o \in Objects : Change(o)) \/ Break \/ Inform \/ ResetLock
  PROVE  Rules!Advance \/ UNCHANGED Rules!vars
<1>1. UNCHANGED <<pc, got>>
  BY DEF Change, Break, Inform, ListAndWatch, Assign, Apply, Reset, ResetLock
<1>2. UNCHANGED <<Stage, Result>>
  BY <1>1 DEF Stage, Result
<1>3. View' \in Nat /\ View' >= View
  <2>1. CASE UNCHANGED <<imageCR, version>>
    BY <1>1, <2>1 DEF ViewIs
  <2>2. CASE Apply
    <3>1. UNCHANGED imageCR /\ version' = version + 1
      BY <2>2 DEF Apply
    <3> QED
      BY <1>1, <3>1 DEF ViewIs
  <2>3. CASE Reset
    <3>1. imageCR' = None /\ UNCHANGED version
      BY <2>3 DEF Reset
    <3>2. \A l \in Lookups : pc'[l] # "fill"
      BY <1>1, <2>3, CacheAssumption DEF IInv, Held, Locking, Reset
    <3> QED
      BY <3>1, <3>2 DEF ViewIs
  <2> QED
    BY <2>1, <2>2, <2>3 DEF Change, Break, Inform, ListAndWatch, Assign,
       ResetLock, storeVars
<1>4. CASE View' = View
  BY <1>2, <1>4 DEF Rules!vars
<1>5. CASE View' > View
  BY <1>2, <1>3, <1>5 DEF Rules!Advance
<1> QED
  BY <1>3, <1>4, <1>5 DEF ViewIs

(* No step of a lookup moves the view. *)
LEMMA ViewKept ==
  ASSUME IInv, IInv', ViewIs, ViewIs',
         NEW l \in Lookups, Ask(l) \/ Lock(l) \/ LookUp(l)
  PROVE  UNCHANGED View
<1>1. UNCHANGED version
  BY DEF Ask, Lock, LookUp, Check, Look, List, Fill, Unlock, Return, storeVars
<1>2. CASE List(l) /\ pc'[l] = "fill"
  <2>1. imageCR = None /\ \A k \in Lookups : pc[k] # "fill"
    BY <1>2 DEF IInv, Held, Locking, Filling, List, Goto
  <2>2. got'[l].version = version
    BY <1>2 DEF IInv, TypeOK, List, Goto, Listing
  <2> QED
    BY <1>2, <2>1, <2>2 DEF ViewIs
<1>3. CASE Fill(l)
  BY <1>3, CacheAssumption DEF IInv, Filling, Lists, ViewIs, Fill, Goto
<1>4. CASE ~ (List(l) /\ pc'[l] = "fill") /\ ~Fill(l)
  <2>1. UNCHANGED imageCR
    BY <1>4 DEF Ask, Lock, LookUp, Check, Look, List, Unlock, Return
  <2>2. \A k \in Lookups : pc'[k] = "fill" <=> pc[k] = "fill"
    BY <1>4 DEF IInv, TypeOK, Ask, Lock, LookUp, Check, Look, List, Unlock,
                Return, Goto
  <2>3. \A k \in Lookups : pc[k] = "fill" => got'[k] = got[k]
    BY <1>4 DEF IInv, TypeOK, Ask, Lock, LookUp, Check, Look, List, Unlock,
                Return, Goto
  <2> QED
    BY <1>1, <2>1, <2>2, <2>3 DEF ViewIs
<1> QED
  BY <1>2, <1>3, <1>4

(* A lookup reads the view where it takes its list: the cached one, the    *)
(* store's, or that of the config files.                                   *)
LEMMA Reading ==
  ASSUME IInv, IInv', ViewIs, ViewIs', NEW l \in Lookups,
         Ask(l) \/ Lock(l) \/ LookUp(l)
  PROVE  Rules!Next \/ UNCHANGED Rules!vars
<1>1. UNCHANGED View
  BY ViewKept
<1> USE StageStep, ResultStep DEF Goto
<1>2. CASE Ask(l)
  <2>1. Stage[l] = "idle" /\ Stage' = [Stage EXCEPT ![l] = "asked"]
    BY <1>2 DEF Ask, Stage, StageOf
  <2>2. Result' = [Result EXCEPT ![l] = NoRules]
    BY <1>2 DEF Ask
  <2> QED
    BY <1>1, <2>1, <2>2 DEF Rules!Next, Rules!Ask
<1>3. ASSUME NEW list \in Lists, list.version = View, Stage[l] = "asked",
             NEW s \in {"fill", "unlock", "return"},
             pc' = [pc EXCEPT ![l] = s], got' = [got EXCEPT ![l] = list]
      PROVE  Rules!Next
  <2>1. Stage' = [Stage EXCEPT ![l] = "returning"]
    BY <1>3 DEF StageOf
  <2>2. Result' = [Result EXCEPT ![l] = View]
    BY <1>3, CacheAssumption
  <2> QED
    BY <1>1, <1>3, <2>1, <2>2 DEF Rules!Next, Rules!Read
<1>4. ASSUME pc[l] # "idle", pc[l] # "return", UNCHANGED got,
             NEW s \in {"check", "lock", "look", "list"},
             Stage[l] = "asked", pc' = [pc EXCEPT ![l] = s]
      PROVE  UNCHANGED Rules!vars
  <2>1. Stage' = [Stage EXCEPT ![l] = "asked"]
    BY <1>4 DEF StageOf
  <2>2. UNCHANGED Stage
    BY <1>4, <2>1 DEF Stage
  <2>3. UNCHANGED Result
    BY <1>4 DEF Result
  <2> QED
    BY <1>1, <2>2, <2>3 DEF Rules!vars
<1>5. CASE Check(l)
  <2>1. Stage[l] = "asked"
    BY <1>5 DEF Check, Stage, StageOf
  <2>2. CASE imageStore \in {"nil", "torn"} /\ pc' = [pc EXCEPT ![l] = "return"]
             /\ got' = [got EXCEPT ![l] = ImageRules]
    <3>1. View = 0
      BY <2>2 DEF IInv, Begun, TypeOK, ViewIs
    <3>2. ImageRules \in Lists /\ ImageRules.version = 0
      BY DEF ImageRules, Lists
    <3> QED
      BY <1>3, <2>1, <2>2, <3>1, <3>2
  <2> QED
    BY <1>4, <1>5, <2>1, <2>2 DEF Check
<1>6. CASE Lock(l)
  <2>1. Stage[l] = "asked"
    BY <1>6 DEF Lock, Stage, StageOf
  <2> QED
    BY <1>4, <1>6, <2>1 DEF Lock
<1>7. CASE Look(l)
  <2>1. Stage[l] = "asked"
    BY <1>7 DEF Look, Stage, StageOf
  <2>2. CASE imageCR # None
    <3>1. imageCR \in Lists /\ imageCR.version = View
      BY <2>2 DEF IInv, TypeOK, ViewIs
    <3> QED
      BY <1>3, <1>7, <2>1, <2>2, <3>1 DEF Look
  <2> QED
    BY <1>4, <1>7, <2>1, <2>2 DEF Look
<1>8. CASE List(l)
  <2>1. Stage[l] = "asked"
    BY <1>8 DEF List, Stage, StageOf
  <2>2. CASE got' = [got EXCEPT ![l] = Listing] /\ pc' = [pc EXCEPT ![l] = "fill"]
    <3>1. imageCR = None /\ \A k \in Lookups : pc[k] # "fill"
      BY <1>8 DEF IInv, Held, Locking, Filling, List
    <3>2. Listing \in Lists /\ Listing.version = View
      BY <3>1, ListingType DEF IInv, ViewIs, Listing
    <3> QED
      BY <1>3, <2>1, <2>2, <3>2
  <2>3. CASE UNCHANGED got /\ pc' = [pc EXCEPT ![l] = "unlock"]
    <3>1. Stage' = [Stage EXCEPT ![l] = "returning"] /\ UNCHANGED Result
      BY <2>3 DEF Result, StageOf
    <3> QED
      BY <1>1, <2>1, <3>1 DEF Rules!Next, Rules!CutOff
  <2> QED
    BY <1>8, <2>2, <2>3 DEF List
<1>9. CASE Fill(l) \/ Unlock(l)
  <2>1. PICK s \in {"unlock", "return"} : pc' = [pc EXCEPT ![l] = s]
    BY <1>9 DEF Fill, Unlock
  <2>2. Stage' = [Stage EXCEPT ![l] = "returning"] /\ Stage[l] = "returning"
    BY <1>9, <2>1 DEF Fill, Unlock, Stage, StageOf
  <2>3. UNCHANGED Stage
    BY <2>2 DEF Stage
  <2>4. UNCHANGED Result
    BY <1>9 DEF Fill, Unlock, Result
  <2> QED
    BY <1>1, <2>3, <2>4 DEF Rules!vars
<1>10. CASE Return(l)
  <2>1. Stage[l] = "returning" /\ Stage' = [Stage EXCEPT ![l] = "idle"]
    BY <1>10 DEF Return, Stage, StageOf
  <2>2. UNCHANGED Result
    BY <1>10 DEF Return, Result
  <2> QED
    BY <1>1, <2>1, <2>2 DEF Rules!Next, Rules!Return
<1> QED
  BY <1>2, <1>5, <1>6, <1>7, <1>8, <1>9, <1>10 DEF LookUp

(* The cache, its mutex and the informer implement RuleView: one view of   *)
(* the rules for all lookups, which never goes back to an older one.       *)
THEOREM RuleViewImplemented == Spec => ImplementsRuleView
<1>1. Init => Rules!Init
  BY CacheAssumption DEF Init, Rules!Init, View, Stage, StageOf, Result
<1>2. IInv /\ IInv' /\ ViewIs /\ ViewIs' /\ [Next]_vars
        => [Rules!Next]_(Rules!vars)
  <2> SUFFICES ASSUME IInv, IInv', ViewIs, ViewIs', [Next]_vars
               PROVE  [Rules!Next]_(Rules!vars)
    OBVIOUS
  <2>1. CASE (\E o \in Objects : Change(o)) \/ Break \/ Inform \/ ResetLock
    BY <2>1, Onward DEF Rules!Next
  <2>2. ASSUME NEW l \in Lookups, Ask(l) \/ Lock(l) \/ LookUp(l)
        PROVE  Rules!Next \/ UNCHANGED Rules!vars
    BY <2>2, Reading
  <2>3. CASE UNCHANGED vars
    BY <2>3 DEF vars, clusterVars, storeVars, Rules!vars, View, Stage, Result
  <2> QED
    BY <2>1, <2>2, <2>3 DEF Next
<1>3. IInv => ViewIs
  BY ViewKnown
<1> QED
  BY <1>1, <1>2, <1>3, Invariance, PTL DEF Spec, ImplementsRuleView, Rules!Spec
==============================================================================
