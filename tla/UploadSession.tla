--------------------------- MODULE UploadSession ---------------------------
(***************************************************************************)
(* Chunked upload of DocMind (api/v1/documents.py): a client opens a       *)
(* session, posts the parts of a file in any order and asks for completion *)
(* once.  One API process serves all requests; its handlers interleave at  *)
(* every await, its file accesses in threads.                              *)
(*                                                                         *)
(*   session     Redis key upload:session:{id}                             *)
(*   registered  Redis set upload:parts:{id}                               *)
(*   directory   the directory of the session exists                       *)
(*   file        part-00001.bin, ... in it                                 *)
(*   merged      merged.bin in it: which parts lie in it at their place    *)
(*   permits     UPLOAD_COMPLETE_SEMAPHORE of the process                  *)
(*   object      what a completion has put into MinIO                      *)
(*   row         the document row of a completion is committed             *)
(*                                                                         *)
(* A file written with open("wb") is emptied first; removing the directory *)
(* unlinks its files under those who write them.                           *)
(***************************************************************************)
EXTENDS Naturals, FiniteSets

CONSTANTS
    Sessions,      \* upload ids
    TotalParts,    \* the number of parts a session declares
    Uploads,       \* POST /upload/chunk requests
    Completions,   \* POST /upload/complete requests; each makes its own doc id
    SemaphoreSize, \* the value of UPLOAD_COMPLETE_SEMAPHORE
    MaxCrashes,    \* bound: losses of the API process
    None           \* no session, no object, no file

ASSUME TotalPartsAssumption == TotalParts \in Nat \ {0}
ASSUME SemaphoreAssumption == SemaphoreSize \in Nat \ {0}
ASSUME CrashesAssumption == MaxCrashes \in Nat
ASSUME SessionsAssumption == None \notin Sessions
ASSUME CompletionsAssumption == IsFiniteSet(Completions)

VARIABLES session, registered, directory, file, merged, permits, object, row,
          upload, completion,
          crashes,      \* counter of the bounded fault
          rewritten,    \* history: a part was written again before the end
          overlapped    \* history: two completions were under way at once

vars == <<session, registered, directory, file, merged, permits, object, row,
          upload, completion, crashes, rewritten, overlapped>>

redis   == <<session, registered>>
disk    == <<directory, file, merged>>
result  == <<object, row>>
history == <<rewritten, overlapped>>

----------------------------------------------------------------------------
\* Types

Parts == 1..TotalParts

\* Bytes that are not those of a part at its place.
Torn == 0

\* The parts whose bytes lie in a file at their place, with Torn if others do.
Content == SUBSET (Parts \union {Torn})

Whole == Parts

ASSUME ContentAssumption == \A content \in Content : content # None

UploadPc == {"idle", "open", "write", "register", "ended"}

CompletionPc == {"idle", "count", "wait", "merge", "inspect", "store", "enqueue",
                 "drop_session", "drop_parts", "commit", "done", "failed"}

Upload == [pc   : UploadPc,
           on   : Sessions \union {None},
           part : Parts \union {None},
           mine : BOOLEAN]   \* nobody has emptied or unlinked the file since

Completion == [pc      : CompletionPc,
               on      : Sessions \union {None},
               next    : 1..(TotalParts + 1),   \* the part to copy
               shifted : BOOLEAN,   \* a part was short: the rest is misplaced
               mine    : BOOLEAN,   \* merged.bin is still the file it opened
               good    : BOOLEAN]   \* no exception so far

IdleUpload == [pc |-> "idle", on |-> None, part |-> None, mine |-> FALSE]

IdleCompletion == [pc |-> "idle", on |-> None, next |-> 1, shifted |-> FALSE,
                   mine |-> FALSE, good |-> TRUE]

TypeOK ==
    /\ session \in [Sessions -> {"none", "open", "removed", "expired"}]
    /\ registered \in [Sessions -> SUBSET Parts]
    /\ directory \in [Sessions -> BOOLEAN]
    /\ file \in [Sessions -> [Parts -> {"absent", "partial", "whole"}]]
    /\ merged \in [Sessions -> Content \union {None}]
    /\ permits \in 0..SemaphoreSize
    /\ object \in [Completions -> Content \union {None}]
    /\ row \in [Completions -> BOOLEAN]
    /\ upload \in [Uploads -> Upload]
    /\ \A u \in Uploads : upload[u].pc # "idle" =>
            upload[u].on \in Sessions /\ upload[u].part \in Parts
    /\ completion \in [Completions -> Completion]
    /\ \A c \in Completions : completion[c].pc # "idle" => completion[c].on \in Sessions
    /\ crashes \in 0..MaxCrashes
    /\ rewritten \in [Sessions -> BOOLEAN]
    /\ overlapped \in [Sessions -> BOOLEAN]

NoFiles == [p \in Parts |-> "absent"]

Init ==
    /\ session = [s \in Sessions |-> "none"]
    /\ registered = [s \in Sessions |-> {}]
    /\ directory = [s \in Sessions |-> FALSE]
    /\ file = [s \in Sessions |-> NoFiles]
    /\ merged = [s \in Sessions |-> None]
    /\ permits = SemaphoreSize
    /\ object = [c \in Completions |-> None]
    /\ row = [c \in Completions |-> FALSE]
    /\ upload = [u \in Uploads |-> IdleUpload]
    /\ completion = [c \in Completions |-> IdleCompletion]
    /\ crashes = 0
    /\ rewritten = [s \in Sessions |-> FALSE]
    /\ overlapped = [s \in Sessions |-> FALSE]

----------------------------------------------------------------------------
\* Sessions

\* create_upload_session
CreateSession(s) ==
    /\ session[s] = "none"
    /\ session' = [session EXCEPT ![s] = "open"]
    /\ directory' = [directory EXCEPT ![s] = TRUE]
    /\ UNCHANGED <<registered, file, merged, permits, result, upload, completion, crashes,
                   history>>

\* The key lives for 24 hours; nothing else goes with it.
Expire(s) ==
    /\ session[s] = "open"
    /\ session' = [session EXCEPT ![s] = "expired"]
    /\ UNCHANGED <<registered, disk, permits, result, upload, completion, crashes,
                   history>>

----------------------------------------------------------------------------
\* upload_document_chunk

UploadRuns(u) == upload[u].pc \in {"open", "write", "register"}

Writes(u, s, p) == upload[u].pc = "write" /\ upload[u].on = s /\ upload[u].part = p

UploadBecome(u, v) == upload' = [upload EXCEPT ![u] = v]

UploadGoto(u, pc) == UploadBecome(u, [upload[u] EXCEPT !.pc = pc])

\* The session is there and the part number within its range.
BeginPart(u, s, p) ==
    /\ upload[u].pc = "idle"
    /\ session[s] = "open"
    /\ UploadBecome(u, [IdleUpload EXCEPT !.pc = "open", !.on = s, !.part = p])
    /\ UNCHANGED <<redis, disk, permits, result, completion, crashes, history>>

\* The directory is made if need be and the file opened, which empties it for whoever writes it too.
OpenPart(u) ==
    LET s == upload[u].on
        p == upload[u].part
    IN
    /\ upload[u].pc = "open"
    /\ directory' = [directory EXCEPT ![s] = TRUE]
    /\ file' = [file EXCEPT ![s][p] = "partial"]
    /\ upload' = [v \in Uploads |->
                    IF v = u THEN [upload[u] EXCEPT !.pc = "write", !.mine = TRUE]
                    ELSE [upload[v] EXCEPT !.mine = @ /\ ~Writes(v, s, p)]]
    /\ rewritten' = [rewritten EXCEPT ![s] =
                       @ \/ p \in registered[s]
                         \/ \E v \in Uploads \ {u} : upload[v].on = s /\ upload[v].part = p
                                                     /\ upload[v].pc \in {"write", "register"}]
    /\ UNCHANGED <<redis, merged, permits, result, completion, crashes, overlapped>>

\* The last write: the file is whole unless it was emptied or unlinked meanwhile.
WritePart(u) ==
    LET s == upload[u].on
        p == upload[u].part
    IN
    /\ upload[u].pc = "write"
    /\ file' = IF upload[u].mine THEN [file EXCEPT ![s][p] = "whole"] ELSE file
    /\ UploadBecome(u, [upload[u] EXCEPT !.pc = "register", !.mine = FALSE])
    /\ UNCHANGED <<redis, directory, merged, permits, result, completion, crashes,
                   history>>

\* SADD; the count it answers with changes nothing.
RegisterPart(u) ==
    /\ upload[u].pc = "register"
    /\ registered' = [registered EXCEPT ![upload[u].on] = @ \union {upload[u].part}]
    /\ UploadGoto(u, "ended")
    /\ UNCHANGED <<session, disk, permits, result, completion, crashes, history>>

\* The disk, Redis or the body of the request fails.
PartFails(u) ==
    /\ UploadRuns(u)
    /\ UploadBecome(u, [upload[u] EXCEPT !.pc = "ended", !.mine = FALSE])
    /\ UNCHANGED <<redis, disk, permits, result, completion, crashes, history>>

----------------------------------------------------------------------------
\* complete_chunk_upload

CompletionRuns(c) == completion[c].pc \notin {"idle", "done", "failed"}

HoldsPermit(c) == completion[c].pc \in {"merge", "inspect"}

Become(c, v) == completion' = [completion EXCEPT ![c] = v]

Goto(c, pc) == Become(c, [completion[c] EXCEPT !.pc = pc])

\* The session is read; without one the request ends here.
BeginCompletion(c, s) ==
    /\ completion[c].pc = "idle"
    /\ session[s] = "open"
    /\ Become(c, [IdleCompletion EXCEPT !.pc = "count", !.on = s])
    /\ overlapped' = [overlapped EXCEPT ![s] =
                        @ \/ \E d \in Completions : completion[d].on = s /\ CompletionRuns(d)]
    /\ UNCHANGED <<redis, disk, permits, result, upload, crashes, rewritten>>

\* Mutant of CountParts: nobody counts.
CountNothing(c) ==
    /\ completion[c].pc = "count"
    /\ Goto(c, "wait")
    /\ UNCHANGED <<redis, disk, permits, result, upload, crashes, history>>

\* SCARD against the declared total, outside the try block.
CountParts(c) ==
    /\ completion[c].pc = "count"
    /\ Goto(c, IF registered[completion[c].on] = Parts THEN "wait" ELSE "failed")
    /\ UNCHANGED <<redis, disk, permits, result, upload, crashes, history>>

\* The semaphore admits the request; merged.bin is opened, which needs the
\* directory.
StartMerge(c) ==
    LET s == completion[c].on IN
    /\ completion[c].pc = "wait"
    /\ permits > 0
    /\ directory[s]
    /\ permits' = permits - 1
    /\ merged' = [merged EXCEPT ![s] = {}]
    /\ Become(c, [completion[c] EXCEPT !.pc = "merge", !.mine = TRUE])
    /\ UNCHANGED <<redis, directory, file, result, upload, crashes, history>>

\* _merge_uploaded_parts copies the next part.  After a short one everything
\* is misplaced; what goes to an unlinked merged.bin is lost.
CopyPart(c) ==
    LET s == completion[c].on
        n == completion[c].next
        torn == completion[c].shifted \/ file[s][n] = "partial"
    IN
    /\ completion[c].pc = "merge"
    /\ n \in Parts /\ file[s][n] # "absent"
    /\ merged' = IF completion[c].mine
                   THEN [merged EXCEPT ![s] = @ \union {IF torn THEN Torn ELSE n}]
                   ELSE merged
    /\ Become(c, [completion[c] EXCEPT !.next = n + 1, !.shifted = torn])
    /\ UNCHANGED <<redis, directory, file, permits, result, upload, crashes, history>>

EndMerge(c) ==
    /\ completion[c].pc = "merge"
    /\ completion[c].next = TotalParts + 1
    /\ Goto(c, "inspect")
    /\ UNCHANGED <<redis, disk, permits, result, upload, crashes, history>>

\* stat and the scan of merged.bin; a size other than the declared one is only
\* logged.  The permit is released.
InspectMerged(c) ==
    /\ completion[c].pc = "inspect"
    /\ merged[completion[c].on] # None
    /\ permits' = permits + 1
    /\ Goto(c, "store")
    /\ UNCHANGED <<redis, disk, result, upload, crashes, history>>

\* store_local_file_and_enqueue: fput_object reads merged.bin by its path.
StoreObject(c) ==
    /\ completion[c].pc = "store"
    /\ merged[completion[c].on] # None
    /\ object' = [object EXCEPT ![c] = merged[completion[c].on]]
    /\ Goto(c, "enqueue")
    /\ UNCHANGED <<redis, disk, permits, row, upload, crashes, history>>

\* Mutant of EnqueueDocument: the row is committed before the clean-up.
EnqueueCommitted(c) ==
    /\ completion[c].pc = "enqueue"
    /\ row' = [row EXCEPT ![c] = TRUE]
    /\ Goto(c, "drop_session")
    /\ UNCHANGED <<redis, disk, permits, object, upload, crashes, history>>

\* The row is flushed and the task dispatched, uncommitted (module Ingestion).
EnqueueDocument(c) ==
    /\ completion[c].pc = "enqueue"
    /\ Goto(c, "drop_session")
    /\ UNCHANGED <<redis, disk, permits, result, upload, crashes, history>>

\* Mutant of CompletionFails: the permit is not given back.
FailsHoldingPermit(c) ==
    /\ completion[c].pc \in {"wait", "merge", "inspect", "store", "enqueue"}
    /\ completion[c].pc = "wait" => permits > 0
    /\ Become(c, [completion[c] EXCEPT !.pc = "drop_session", !.good = FALSE])
    /\ UNCHANGED <<redis, disk, permits, result, upload, crashes, history>>

\* An exception in the try block: the directory, a part or merged.bin is gone,
\* the scan finds the file unsafe, MinIO, the broker or the database fails.  The
\* permit is released and the finally clause runs.  Waiting for a permit does
\* not fail.
CompletionFails(c) ==
    /\ completion[c].pc \in {"wait", "merge", "inspect", "store", "enqueue"}
    /\ completion[c].pc = "wait" => permits > 0
    /\ permits' = IF HoldsPermit(c) THEN permits + 1 ELSE permits
    /\ Become(c, [completion[c] EXCEPT !.pc = "drop_session", !.good = FALSE])
    /\ UNCHANGED <<redis, disk, result, upload, crashes, history>>

\* _cleanup_upload_session, first DELETE: the session cannot be found any more.
DropSession(c) ==
    /\ completion[c].pc = "drop_session"
    /\ session' = [session EXCEPT ![completion[c].on] = "removed"]
    /\ Goto(c, "drop_parts")
    /\ UNCHANGED <<registered, disk, permits, result, upload, crashes, history>>

\* _cleanup_upload_session, second DELETE and rmtree, which unlinks the files
\* under the requests that still write them.
DropParts(c) ==
    LET s == completion[c].on IN
    /\ completion[c].pc = "drop_parts"
    /\ registered' = [registered EXCEPT ![s] = {}]
    /\ directory' = [directory EXCEPT ![s] = FALSE]
    /\ file' = [file EXCEPT ![s] = NoFiles]
    /\ merged' = [merged EXCEPT ![s] = None]
    /\ upload' = [u \in Uploads |->
                    [upload[u] EXCEPT !.mine = @ /\ upload[u].on # s]]
    /\ completion' = [d \in Completions |->
                        [completion[d] EXCEPT
                           !.mine = @ /\ completion[d].on # s,
                           !.pc = IF d = c THEN IF completion[c].good THEN "commit"
                                                ELSE "failed"
                                  ELSE @]]
    /\ UNCHANGED <<session, permits, result, crashes, history>>

\* get_db commits after the handler, clean-up included, is through.
CommitDocument(c) ==
    /\ completion[c].pc = "commit"
    /\ row' = [row EXCEPT ![c] = TRUE]
    /\ Goto(c, "done")
    /\ UNCHANGED <<redis, disk, permits, object, upload, crashes, history>>

\* Redis fails during the clean-up or while the parts are counted, or the
\* commit fails: the request ends where it is.
CompletionBreaksOff(c) ==
    /\ completion[c].pc \in {"count", "drop_session", "drop_parts", "commit"}
    /\ Goto(c, "failed")
    /\ UNCHANGED <<redis, disk, permits, result, upload, crashes, history>>

----------------------------------------------------------------------------
\* The API process is lost and started again: its requests are gone, the
\* semaphore is new, Redis and the disk stay as they are.
CrashApi ==
    /\ crashes < MaxCrashes
    /\ crashes' = crashes + 1
    /\ permits' = SemaphoreSize
    /\ upload' = [u \in Uploads |->
                    IF UploadRuns(u) THEN [upload[u] EXCEPT !.pc = "ended", !.mine = FALSE]
                    ELSE upload[u]]
    /\ completion' = [c \in Completions |->
                        IF CompletionRuns(c)
                          THEN [completion[c] EXCEPT !.pc = "failed", !.mine = FALSE]
                          ELSE completion[c]]
    /\ UNCHANGED <<redis, disk, result, history>>

UploadStep(u) ==
    \/ \E s \in Sessions, p \in Parts : BeginPart(u, s, p)
    \/ OpenPart(u) \/ WritePart(u) \/ RegisterPart(u) \/ PartFails(u)

\* What a completion does once it has begun.
Complete(c) ==
    \/ CountParts(c) \/ StartMerge(c) \/ CopyPart(c) \/ EndMerge(c)
    \/ InspectMerged(c) \/ StoreObject(c) \/ EnqueueDocument(c)
    \/ CompletionFails(c)
    \/ DropSession(c) \/ DropParts(c) \/ CommitDocument(c)
    \/ CompletionBreaksOff(c)

CompletionStep(c) == Complete(c) \/ \E s \in Sessions : BeginCompletion(c, s)

Next == \/ \E s \in Sessions : CreateSession(s) \/ Expire(s)
        \/ \E u \in Uploads : UploadStep(u)
        \/ \E c \in Completions : CompletionStep(c)
        \/ CrashApi

Spec == Init /\ [][Next]_vars

----------------------------------------------------------------------------
\* Properties

Of(s) == {c \in Completions : completion[c].on = s}

\* What a completion stores is the whole file, although parts may come in, fail
\* and be repeated while it runs: the parts it counted were written to the end.
\* It is claimed of sessions whose completions did not overlap and in which no
\* part was written again after it had been registered.
StoredIsWhole ==
    \A c \in Completions :
        object[c] # None /\ ~rewritten[completion[c].on] /\ ~overlapped[completion[c].on]
            => object[c] = Whole

\* A session yields one document at most, whatever is retried after a failure
\* or a loss of the process, unless two completions overlap.
OneDocument ==
    \A s \in Sessions : ~overlapped[s] =>
        \A c, d \in Of(s) : row[c] /\ row[d] => c = d

\* Every permit of the semaphore is free or held by a request that is merging:
\* no exception loses one.
PermitsAccounted ==
    permits + Cardinality({c \in Completions : HoldsPermit(c)}) = SemaphoreSize

\* The event loop runs what it has begun; nothing is assumed of new requests,
\* expiry or crashes.  A fairness condition on all of Complete(c) lets a
\* request end by an exception as well.
Fairness == \A c \in Completions : WF_vars(Complete(c))

FairSpec == Spec /\ Fairness

\* A completion that has begun ends: it does not wait for a permit for ever.
CompletionsEnd == \A c \in Completions : CompletionRuns(c) ~> ~CompletionRuns(c)
=============================================================================
