---------------------------- MODULE TarPipe_proofs ----------------------------
(***************************************************************************)
(* The safety properties of TarPipe for any number and length of files,    *)
(* any changes and any faults. They follow from one inductive invariant,   *)
(* which says where the goroutine is in the list of files, what it has     *)
(* open, and how the reader's state follows from how the pipe was left.    *)
(***************************************************************************)
EXTENDS TarPipe, TLAPS

(* A file is being tarred. *)
AtFile == pc \in {"open", "header", "copy", "flush", "close"}

(* Its handle is open. *)
HasOpen == pc \in {"header", "copy", "flush", "close"}

(* Up to the file it is at, everything has gone through the pipe, unless   *)
(* there was an error; and an error leads straight out.                    *)
Progress ==
  /\ AtFile => file \in Files
  /\ pc = "unborn" => file = 1
  /\ err => pc \in {"close", "finish", "ended"}
  /\ ~err /\ pc \in {"unborn", "open", "header", "copy", "flush"} => 1 .. file - 1 \subseteq whole
  /\ ~err /\ pc = "close" => 1 .. file \subseteq whole
  /\ ~err /\ pc = "finish" => whole = Files

(* The pipe is left once, and as ended only when all files went through.   *)
PipeState ==
  /\ pipe # "open" <=> pc = "ended"
  /\ pipe = "eof" => whole = Files

(* The reader believes the end of the pipe, and only then keeps the file.  *)
ReaderState ==
  /\ reader = "fresh" => pc = "unborn"
  /\ reader \in {"eof", "closed", "saved"} => pipe = "eof"
  /\ temp = "blob" => reader = "saved"

Handles ==
  /\ handles = leaked \cup (IF HasOpen THEN {file} ELSE {})
  /\ pc \notin {"finish", "ended"} => leaked = {}

(* Whoever opens a file for a closed reader finds out with the header.     *)
Lateness ==
  /\ late \in {0, 1}
  /\ late = 1 => /\ Closed
                 /\ pc = "header" \/ err

IInv == TypeOK /\ Progress /\ PipeState /\ ReaderState /\ Handles /\ Lateness

------------------------------------------------------------------------------
LEMMA InitHolds == Init => IInv
<1> SUFFICES ASSUME Init PROVE IInv
  OBVIOUS
<1> USE DEF Init
<1>1. TypeOK
  <2>1. /\ file \in 1 .. N + 1 /\ size \in 0 .. MaxLength /\ copied \in 0 .. size
        /\ late \in Nat /\ changes \in 0 .. MaxChanges /\ faults \in 0 .. MaxFaults
    BY TarAssumption
  <2> QED
    BY <2>1 DEF TypeOK
<1>2. 1 .. file - 1 = {}
  OBVIOUS
<1>3. Progress
  BY <1>2 DEF Progress, AtFile
<1>4. PipeState /\ ReaderState /\ Handles /\ Lateness
  BY DEF PipeState, ReaderState, Handles, Lateness, HasOpen
<1> QED
  BY <1>1, <1>3, <1>4 DEF IInv

(* One lemma per step that the goroutine takes. *)
LEMMA OpenKeeps == IInv /\ Open => IInv'
<1> SUFFICES ASSUME IInv, Open PROVE IInv'
  OBVIOUS
<1> USE TarAssumption DEF Open, Fault, Errs
<1>0. file \in Files /\ length[file] \in 0 .. MaxLength
  BY DEF IInv, TypeOK, Progress, AtFile
<1>1. TypeOK'
  <2>1. size' \in 0 .. MaxLength /\ copied' \in 0 .. size'
    BY <1>0 DEF IInv, TypeOK
  <2>2. late' \in Nat /\ faults' \in 0 .. MaxFaults
    BY DEF IInv, TypeOK
  <2>3. handles' \subseteq Files /\ leaked' \subseteq handles'
    BY <1>0 DEF IInv, TypeOK
  <2> QED
    BY <2>1, <2>2, <2>3 DEF IInv, TypeOK, readerVars
<1>2. Progress'
  BY DEF IInv, TypeOK, Progress, AtFile, Files
<1>3. PipeState' /\ ReaderState'
  BY DEF IInv, PipeState, ReaderState, readerVars
<1>4. Handles'
  BY DEF IInv, Handles, HasOpen
<1>5. Lateness'
  BY DEF IInv, Lateness, Progress, Closed, readerVars
<1> QED
  BY <1>1, <1>2, <1>3, <1>4, <1>5 DEF IInv

LEMMA HeaderKeeps == IInv /\ Header => IInv'
<1> SUFFICES ASSUME IInv, Header PROVE IInv'
  OBVIOUS
<1> USE TarAssumption DEF Header, Errs, readerVars
<1>1. TypeOK'
  BY DEF IInv, TypeOK, Files
<1>2. Progress'
  BY DEF IInv, TypeOK, Progress, AtFile, Files
<1>3. PipeState' /\ ReaderState' /\ Handles'
  BY DEF IInv, PipeState, ReaderState, Handles, HasOpen
<1>4. Lateness'
  BY DEF IInv, Lateness, Closed, Reads
<1> QED
  BY <1>1, <1>2, <1>3, <1>4 DEF IInv

LEMMA CopyKeeps == IInv /\ Copy => IInv'
<1> SUFFICES ASSUME IInv, Copy PROVE IInv'
  OBVIOUS
<1> USE TarAssumption DEF Copy, Fault, Errs, readerVars
<1>1. TypeOK'
  <2>1. copied' \in 0 .. size' /\ faults' \in 0 .. MaxFaults
    BY DEF IInv, TypeOK
  <2> QED
    BY <2>1 DEF IInv, TypeOK
<1>2. Progress'
  BY DEF IInv, TypeOK, Progress, AtFile, Files
<1>3. PipeState' /\ ReaderState' /\ Handles'
  BY DEF IInv, PipeState, ReaderState, Handles, HasOpen
<1>4. Lateness'
  BY DEF IInv, Lateness, Progress, Closed
<1> QED
  BY <1>1, <1>2, <1>3, <1>4 DEF IInv

LEMMA FlushKeeps == IInv /\ Flush => IInv'
<1> SUFFICES ASSUME IInv, Flush PROVE IInv'
  OBVIOUS
<1> USE TarAssumption DEF Flush, Errs, readerVars
<1>1. TypeOK'
  BY DEF IInv, TypeOK, Progress, AtFile, Files
<1>2. Progress'
  BY DEF IInv, TypeOK, Progress, AtFile, Files
<1>3. PipeState' /\ ReaderState' /\ Handles'
  BY DEF IInv, PipeState, ReaderState, Handles, HasOpen
<1>4. Lateness'
  BY DEF IInv, Lateness, Progress, Closed
<1> QED
  BY <1>1, <1>2, <1>3, <1>4 DEF IInv

LEMMA CloseKeeps == IInv /\ Close => IInv'
<1> SUFFICES ASSUME IInv, Close PROVE IInv'
  OBVIOUS
<1> USE TarAssumption DEF Close, Fault, Errs, readerVars
<1>0. file \in 1 .. N /\ N \in Nat
  BY DEF IInv, Progress, AtFile, Files
<1>1. TypeOK'
  <2>1. file' \in 1 .. N + 1 /\ faults' \in 0 .. MaxFaults
    BY <1>0 DEF IInv, TypeOK
  <2>2. handles' \subseteq Files /\ leaked' \subseteq handles'
    BY DEF IInv, TypeOK, Handles
  <2> QED
    BY <2>1, <2>2 DEF IInv, TypeOK
<1>2. Progress'
  <2>1. CASE err \/ err'
    BY <2>1 DEF IInv, Progress, AtFile
  <2>2. CASE ~err /\ ~err'
    <3>1. 1 .. file \subseteq whole /\ whole \subseteq Files
      BY <2>2 DEF IInv, TypeOK, Progress
    <3>2. file' = file + 1 /\ pc' = IF file = N THEN "finish" ELSE "open"
      BY <2>2
    <3>3. 1 .. file' - 1 \subseteq whole
      BY <1>0, <3>1, <3>2
    <3>4. file = N => whole = Files
      BY <3>1 DEF Files
    <3>5. file # N => file' \in Files
      BY <1>0, <3>2 DEF Files
    <3> QED
      BY <2>2, <3>2, <3>3, <3>4, <3>5 DEF Progress, AtFile
  <2> QED
    BY <2>1, <2>2
<1>3. PipeState' /\ ReaderState'
  BY DEF IInv, PipeState, ReaderState
<1>4. Handles'
  BY DEF IInv, Handles, HasOpen
<1>5. Lateness'
  BY DEF IInv, Lateness, Closed
<1> QED
  BY <1>1, <1>2, <1>3, <1>4, <1>5 DEF IInv

LEMMA FinishKeeps == IInv /\ Finish => IInv'
<1> SUFFICES ASSUME IInv, Finish PROVE IInv'
  OBVIOUS
<1> USE TarAssumption DEF Finish, readerVars
<1>1. TypeOK'
  BY DEF IInv, TypeOK, Files
<1>2. Progress'
  BY DEF IInv, TypeOK, Progress, AtFile, Files
<1>3. PipeState' /\ ReaderState'
  BY DEF IInv, PipeState, ReaderState, Progress
<1>4. Handles' /\ Lateness'
  BY DEF IInv, Handles, HasOpen, Lateness, Closed
<1> QED
  BY <1>1, <1>2, <1>3, <1>4 DEF IInv

(* The reader touches neither the files nor, but for starting it, the      *)
(* goroutine.                                                              *)
LEMMA SaveLayerKeeps == IInv /\ SaveLayer => IInv'
<1> SUFFICES ASSUME IInv, SaveLayer PROVE IInv'
  OBVIOUS
<1> USE TarAssumption DEF Fault, tarVars
<1>1. TypeOK'
  <2>1. faults' \in 0 .. MaxFaults
    BY DEF SaveLayer, NotRead, FirstRead, Ends, CloseReader, Save, IInv, TypeOK
  <2>2. /\ UNCHANGED <<file, err, size, copied, pipe, handles, leaked, whole, late, length>>
        /\ UNCHANGED changes
    BY DEF SaveLayer, NotRead, FirstRead, Ends, CloseReader, Save
  <2>3. /\ pc' \in {pc, "finish", "open"} /\ temp' \in {temp, "removed", "blob"}
        /\ reader' \in {"failed", "reading", "eof", "broken", "closed", "saved"}
    BY DEF SaveLayer, NotRead, FirstRead, Ends, CloseReader, Save
  <2> QED
    BY <2>1, <2>2, <2>3 DEF IInv, TypeOK
<1>2. Progress'
  <2>1. CASE FirstRead
    <3>1. pc = "unborn" /\ file = 1 /\ ~err /\ whole \subseteq Files
      BY <2>1 DEF FirstRead, IInv, TypeOK, Progress, ReaderState
    <3>2. N = 0 => whole = Files
      BY <3>1 DEF Files
    <3>3. N # 0 => file \in Files
      BY <3>1 DEF Files
    <3>4. 1 .. file - 1 \subseteq whole
      BY <3>1
    <3> QED
      BY <2>1, <3>1, <3>2, <3>3, <3>4 DEF FirstRead, Progress, AtFile
  <2>2. CASE UNCHANGED tarVars
    BY <2>2 DEF IInv, Progress, AtFile
  <2> QED
    BY <2>1, <2>2 DEF SaveLayer, NotRead, Ends, CloseReader, Save
<1>3. PipeState'
  BY DEF SaveLayer, NotRead, FirstRead, Ends, CloseReader, Save, IInv, PipeState, ReaderState
<1>4. ReaderState'
  BY DEF SaveLayer, NotRead, FirstRead, Ends, CloseReader, Save, IInv, ReaderState
<1>5. Handles'
  BY DEF SaveLayer, NotRead, FirstRead, Ends, CloseReader, Save, IInv, Handles, HasOpen,
         ReaderState
<1>6. Lateness'
  BY DEF SaveLayer, NotRead, FirstRead, Ends, CloseReader, Save, IInv, Lateness, Closed,
         Progress, ReaderState
<1> QED
  BY <1>1, <1>2, <1>3, <1>4, <1>5, <1>6 DEF IInv

LEMMA ChangeKeeps == IInv /\ Change => IInv'
<1> SUFFICES ASSUME IInv, Change PROVE IInv'
  OBVIOUS
<1>1. TypeOK'
  BY TarAssumption DEF Change, IInv, TypeOK, tarVars, readerVars
<1>2. Progress' /\ PipeState' /\ ReaderState' /\ Handles' /\ Lateness'
  BY DEF Change, IInv, Progress, PipeState, ReaderState, Handles, Lateness, AtFile,
         HasOpen, Closed, tarVars, readerVars
<1> QED
  BY <1>1, <1>2 DEF IInv

LEMMA StutterKeeps == IInv /\ UNCHANGED vars => IInv'
BY DEF IInv, TypeOK, Progress, PipeState, ReaderState, Handles, Lateness, AtFile, HasOpen,
       Closed, vars, tarVars, readerVars

LEMMA NextKeeps == IInv /\ [Next]_vars => IInv'
BY OpenKeeps, HeaderKeeps, CopyKeeps, FlushKeeps, CloseKeeps, FinishKeeps, SaveLayerKeeps,
   ChangeKeeps, StutterKeeps DEF Next, Tar

------------------------------------------------------------------------------
(* The invariant holds in every behaviour. *)
THEOREM Invariance == Spec => []IInv
BY InitHolds, NextKeeps, PTL DEF Spec

(* Every variable keeps to its type. *)
THEOREM TypeCorrect == Spec => []TypeOK
<1>1. IInv => TypeOK
  BY DEF IInv
<1> QED
  BY Invariance, <1>1, PTL

(* Whatever changes or fails, a temporary file that became a blob had the  *)
(* end of the pipe behind it, and every file before that.                  *)
THEOREM BlobsAreWhole == Spec => []SavedIsWhole
<1>1. IInv => SavedIsWhole
  BY DEF IInv, PipeState, ReaderState, SavedIsWhole
<1> QED
  BY Invariance, <1>1, PTL

(* The goroutine leaves nothing open but what failed Stat. *)
THEOREM NothingStaysOpen == Spec => []FilesAreClosed
<1>1. IInv => FilesAreClosed
  BY DEF IInv, Handles, HasOpen, FilesAreClosed
<1> QED
  BY Invariance, <1>1, PTL

(* At most one file is opened for a reader that is gone. *)
THEOREM WorkStops == Spec => []StopsSoon
<1>1. IInv => StopsSoon
  BY DEF IInv, Lateness, StopsSoon
<1> QED
  BY Invariance, <1>1, PTL
================================================================================
