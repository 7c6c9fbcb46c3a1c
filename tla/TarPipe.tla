------------------------------- MODULE TarPipe -------------------------------
(***************************************************************************)
(* Saving a layer made of files: saveLayer copies the layer into a         *)
(* temporary file, and the first read starts a goroutine that tars the     *)
(* files into the other end of an io.Pipe. A write into the pipe and the   *)
(* read that takes it are one step; a write after the reader closed fails. *)
(* Sources are not the server's own and change while they are read.        *)
(*                                                                         *)
(* The compressing stream between the two copies until the end or an       *)
(* error and then closes the tar, so it is part of the reader here.        *)
(***************************************************************************)
EXTENDS Naturals, FiniteSets

CONSTANTS
  N,           \* files of the layer
  MaxLength,   \* bound: blocks of a source
  MaxChanges,  \* bound: how often a source grows or shrinks
  MaxFaults    \* bound: operations that fail

ASSUME TarAssumption ==
  N \in Nat /\ MaxLength \in Nat /\ MaxChanges \in Nat /\ MaxFaults \in Nat

Files == 1 .. N

VARIABLES
  pc,       \* where the goroutine is
  file,     \* the file it is at
  err,      \* whether its err is not nil
  size,     \* the size in the header of that file
  copied,   \* blocks of it copied
  pipe,     \* how the writer left the pipe: "open", "eof" or "error"
  handles,  \* files that are open
  leaked,   \* those that nothing will close
  whole,    \* files of which header and announced bytes have been read
  late,     \* files opened since the reader closed the pipe
  reader,   \* where saveLayer is
  temp,     \* its temporary file: "there", "removed", or "blob": renamed
  length,   \* length[f]: blocks of the source now
  changes, faults

tarVars == <<pc, file, err, size, copied, pipe, handles, leaked, whole, late>>
readerVars == <<reader, temp>>
vars == <<tarVars, readerVars, length, changes, faults>>

TypeOK ==
  /\ pc \in {"unborn", "open", "header", "copy", "flush", "close", "finish", "ended"}
  /\ file \in 1 .. N + 1
  /\ err \in BOOLEAN
  /\ size \in 0 .. MaxLength /\ copied \in 0 .. size
  /\ pipe \in {"open", "eof", "error"}
  /\ handles \subseteq Files /\ leaked \subseteq handles /\ whole \subseteq Files
  /\ late \in Nat
  /\ reader \in {"fresh", "reading", "eof", "broken", "closed", "saved", "failed"}
  /\ temp \in {"there", "removed", "blob"}
  /\ length \in [Files -> 0 .. MaxLength]
  /\ changes \in 0 .. MaxChanges /\ faults \in 0 .. MaxFaults

Init ==
  /\ pc = "unborn" /\ file = 1 /\ err = FALSE /\ size = 0 /\ copied = 0
  /\ pipe = "open" /\ handles = {} /\ leaked = {} /\ whole = {} /\ late = 0
  /\ reader = "fresh" /\ temp = "there"
  /\ length \in [Files -> 0 .. MaxLength]
  /\ changes = 0 /\ faults = 0

Fault ==
  /\ faults < MaxFaults
  /\ faults' = faults + 1

(* The reader takes what is written; or it has closed its end. *)
Reads == reader = "reading"

Closed == reader \in {"closed", "saved", "failed"}

Errs(next) == err' = TRUE /\ pc' = next
------------------------------------------------------------------------------
(* The goroutine: startTar, which calls tarFile for each file. *)

(* f.OpenReader(). A local file that opens and cannot be asked for its     *)
(* size is left open.                                                      *)
Open ==
  /\ pc = "open"
  /\ late' = late + IF Closed THEN 1 ELSE 0
  /\ \/ /\ handles' = handles \cup {file}
        /\ size' = length[file] /\ copied' = 0 /\ pc' = "header"
        /\ UNCHANGED <<err, leaked, faults>>
     \/ /\ Fault /\ Errs("finish")
        /\ \/ UNCHANGED <<handles, leaked>>
           \/ handles' = handles \cup {file} /\ leaked' = leaked \cup {file}
        /\ UNCHANGED <<size, copied>>
  /\ UNCHANGED <<file, pipe, whole, readerVars, length, changes>>

(* Mutant: the error of writing the header is dropped. *)
HeaderUnchecked ==
  /\ pc = "header" /\ pc' = "close"
  /\ Reads \/ Closed
  /\ UNCHANGED <<file, err, size, copied, pipe, handles, leaked, whole, late,
                 readerVars, length, changes, faults>>

Header ==
  /\ pc = "header"
  /\ \/ Reads /\ pc' = "copy" /\ UNCHANGED err
     \/ Closed /\ Errs("close")
  /\ UNCHANGED <<file, size, copied, pipe, handles, leaked, whole, late,
                 readerVars, length, changes, faults>>

(* Mutant: whatever the source has is copied. *)
CopyOver ==
  /\ pc = "copy"
  /\ \/ copied < length[file] /\ Reads
        /\ copied' = copied + 1 /\ UNCHANGED pc
     \/ copied >= length[file] /\ pc' = "flush" /\ UNCHANGED copied
  /\ UNCHANGED <<file, err, size, pipe, handles, leaked, whole, late, readerVars,
                 length, changes, faults>>

(* io.Copy(tw, r): the tar writer takes no more than the header announced, *)
(* and less is found out when the source ends.                             *)
Copy ==
  LET more == copied < length[file] IN
  /\ pc = "copy"
  /\ \/ /\ more /\ copied < size /\ Reads
        /\ copied' = copied + 1
        /\ UNCHANGED <<pc, err, faults>>
     \/ /\ \/ more /\ copied = size /\ UNCHANGED faults
           \/ more /\ copied < size /\ Closed /\ UNCHANGED faults
           \/ ~more /\ copied # size /\ UNCHANGED faults
           \/ Fault
        /\ Errs("close") /\ UNCHANGED copied
     \/ /\ ~more /\ copied = size
        /\ pc' = "flush"
        /\ UNCHANGED <<copied, err, faults>>
  /\ UNCHANGED <<file, size, pipe, handles, leaked, whole, late, readerVars,
                 length, changes>>

(* tw.Flush() pads the file, if it has to. *)
Flush ==
  /\ pc = "flush"
  /\ \/ /\ Reads /\ pc' = "close"
        /\ whole' = whole \cup {file} /\ UNCHANGED err
     \/ Closed /\ Errs("close") /\ UNCHANGED whole
  /\ UNCHANGED <<file, size, copied, pipe, handles, leaked, late, readerVars,
                 length, changes, faults>>

(* Mutant: a file is closed only when all went well. *)
CloseIfWhole ==
  /\ pc = "close"
  /\ handles' = IF err THEN handles ELSE handles \ {file}
  /\ IF err THEN pc' = "finish" /\ UNCHANGED file
     ELSE file' = file + 1 /\ pc' = IF file = N THEN "finish" ELSE "open"
  /\ UNCHANGED <<err, size, copied, pipe, leaked, whole, late, readerVars, length,
                 changes, faults>>

(* The deferred r.Close(), whose own error counts if there was none. *)
Close ==
  /\ pc = "close"
  /\ handles' = handles \ {file}
  /\ \/ ~err /\ UNCHANGED <<err, faults>>
        /\ file' = file + 1
        /\ pc' = IF file = N THEN "finish" ELSE "open"
     \/ ~err /\ Fault /\ Errs("finish") /\ UNCHANGED file
     \/ err /\ pc' = "finish" /\ UNCHANGED <<err, file, faults>>
  /\ UNCHANGED <<size, copied, pipe, leaked, whole, late, readerVars, length,
                 changes>>

(* Mutant: the pipe is closed only when all went well. *)
FinishIfWhole ==
  /\ pc = "finish" /\ pc' = "ended"
  /\ \/ ~err /\ Reads /\ pipe' = "eof"
     \/ (err \/ Closed) /\ UNCHANGED pipe
  /\ UNCHANGED <<file, err, size, copied, handles, leaked, whole, late,
                 readerVars, length, changes, faults>>

(* The deferred function: the tar is ended before the pipe, unless there   *)
(* was an error, which the reader gets instead of the end.                 *)
Finish ==
  /\ pc = "finish" /\ pc' = "ended"
  /\ \/ ~err /\ Reads /\ pipe' = "eof"
     \/ (err \/ Closed) /\ pipe' = "error"
  /\ UNCHANGED <<file, err, size, copied, handles, leaked, whole, late,
                 readerVars, length, changes, faults>>

Tar == Open \/ Header \/ Copy \/ Flush \/ Close \/ Finish
------------------------------------------------------------------------------
(* saveLayer with writeFileWithReader; the temporary file has been made. *)

(* Compressed fails: nothing is read, the temporary file stays. *)
NotRead ==
  /\ reader = "fresh" /\ Fault
  /\ reader' = "failed"
  /\ UNCHANGED <<tarVars, temp, length, changes>>

(* lazyTar.Read: the first one starts the goroutine. *)
FirstRead ==
  /\ reader = "fresh" /\ reader' = "reading"
  /\ pc' = IF N = 0 THEN "finish" ELSE "open"
  /\ UNCHANGED <<file, err, size, copied, pipe, handles, leaked, whole, late, temp,
                 length, changes, faults>>

(* Mutant: any end of the stream is taken for its end. *)
EndsAnyhow ==
  /\ reader = "reading" /\ pipe # "open"
  /\ reader' = "eof"
  /\ UNCHANGED <<tarVars, temp, length, changes, faults>>

(* io.Copy ends: at the end, with the goroutine's error, or because the    *)
(* temporary file cannot be written.                                       *)
Ends ==
  /\ reader = "reading"
  /\ \/ pipe = "eof" /\ reader' = "eof" /\ UNCHANGED faults
     \/ pipe = "error" /\ reader' = "broken" /\ UNCHANGED faults
     \/ Fault /\ reader' = "broken"
  /\ UNCHANGED <<tarVars, temp, length, changes>>

(* Reader and file are closed; on an error the file is removed. *)
CloseReader ==
  /\ \/ reader = "eof" /\ reader' = "closed" /\ UNCHANGED <<temp, faults>>
     \/ /\ \/ reader = "eof" /\ Fault
           \/ reader = "broken" /\ UNCHANGED faults
        /\ reader' = "failed" /\ temp' = "removed"
  /\ UNCHANGED <<tarVars, length, changes>>

(* Digest, size and rename; on an error the file stays where it is. *)
Save ==
  /\ reader = "closed"
  /\ \/ reader' = "saved" /\ temp' = "blob" /\ UNCHANGED faults
     \/ Fault /\ reader' = "failed" /\ UNCHANGED temp
  /\ UNCHANGED <<tarVars, length, changes>>

SaveLayer == NotRead \/ FirstRead \/ Ends \/ CloseReader \/ Save

(* Somebody writes to a source. *)
Change ==
  /\ changes < MaxChanges /\ changes' = changes + 1
  /\ \E f \in Files, l \in 0 .. MaxLength : length' = [length EXCEPT ![f] = l]
  /\ UNCHANGED <<tarVars, readerVars, faults>>

Next == Tar \/ SaveLayer \/ Change

Spec == Init /\ [][Next]_vars

(* Reading a source and writing the temporary file come to an end; nothing *)
(* has to fail.                                                            *)
FairSpec ==
  Spec /\ WF_vars(Tar /\ UNCHANGED faults) /\ WF_vars(SaveLayer /\ UNCHANGED faults)
------------------------------------------------------------------------------
(* A blob is never put in place but whole: every file of the layer, with   *)
(* as many bytes as its header says, though sources change and operations  *)
(* fail on both sides of the pipe.                                         *)
SavedIsWhole == temp = "blob" => whole = Files

(* When the goroutine is gone so are its open files, however it ended. Only *)
(* a file that opened and then failed Stat stays open.                     *)
FilesAreClosed == pc = "ended" => handles = leaked

(* A reader that gives up stops the work: at most one more file is opened  *)
(* (one more download begun).                                              *)
StopsSoon == late <= 1

(* Once reading begins, both ends come to theirs: no goroutine is left     *)
(* writing to nobody, no build waits for a goroutine that is gone.         *)
BothEnd == reader = "reading" ~> reader \in {"saved", "failed"} /\ pc = "ended"
==============================================================================
