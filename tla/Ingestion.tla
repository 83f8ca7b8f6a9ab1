----------------------------- MODULE Ingestion -----------------------------
(***************************************************************************)
(* Document ingestion of DocMind: the HTTP requests of DocumentService     *)
(* (upload, retry, delete) and the Celery task process_document, over the  *)
(* stores they share:                                                      *)
(*                                                                         *)
(*   row      documents table of PostgreSQL (committed state)              *)
(*   chunks   document_chunks table: the generations of chunk rows of a    *)
(*            document; an execution that chunks a document makes a fresh  *)
(*            generation, since chunk ids are uuid4                        *)
(*   es, milvus   the generations whose chunks the index returns           *)
(*   stored   the documents whose original file is in MinIO                *)
(*   progress the Redis hash doc_progress:{doc}                            *)
(*   rtask    the Redis record runtime:task:{task}                         *)
(*   queue    the Celery broker: how many copies of each message wait      *)
(*                                                                         *)
(* A request is used once: it stays "done" or "aborted".  A worker process *)
(* holds one message (prefetch 1) and acknowledges it at the end           *)
(* (acks_late).  Between two accesses to a store any other process may     *)
(* run; one access is one step.                                            *)
(***************************************************************************)
EXTENDS Naturals, FiniteSets

CONSTANTS
    Docs,        \* document ids; an upload takes a fresh one
    Tasks,       \* Celery task ids; a dispatch takes a fresh one
    Requests,    \* HTTP requests
    Workers,     \* Celery worker processes of the ingestion queue
    MaxRetries,  \* process_document.max_retries
    MaxCrashes,  \* bound: worker losses after which the broker redelivers
    MaxKills,    \* bound: executions that end outside the except clause
    MaxOutages,  \* bound: failed batches and index writes that go wrong
    None         \* no document, no task, no message

ASSUME MaxRetriesAssumption == MaxRetries \in Nat
ASSUME MaxCrashesAssumption == MaxCrashes \in Nat
ASSUME MaxKillsAssumption == MaxKills \in Nat
ASSUME MaxOutagesAssumption == MaxOutages \in Nat
ASSUME NoneAssumption == None \notin Docs /\ None \notin Tasks

VARIABLES row, chunks, es, milvus, stored, progress, rtask, queue,
          request, worker,
          lastGen,     \* the newest chunk generation
          crashes, kills, outages,   \* counters of the bounded faults
          overlapped   \* history: two executions worked on the document at once

vars == <<row, chunks, es, milvus, stored, progress, rtask, queue, request,
          worker, lastGen, crashes, kills, outages, overlapped>>

indexes == <<es, milvus>>
faults  == <<crashes, kills, outages>>

----------------------------------------------------------------------------
\* Types

Stage    == {"queued", "parsing", "chunking", "indexing"}
Terminal == {"ready", "partial_failed", "failed"}
Status   == Stage \union Terminal \union {"retrying"}

Row      == Status \union {"absent", "uploaded"}
Progress == Status \union {"absent"}
Record   == {"absent", "pending", "running", "completed", "failed"}
Message  == [task : Tasks, doc : Docs, retries : 0..MaxRetries]

DeletePc == {"object", "milvus", "es", "redis"}
Request  == [pc   : {"idle", "dispatch", "progress", "record", "commit",
                     "done", "aborted"} \union DeletePc,
             op   : {"none", "upload", "retry", "delete"},
             doc  : Docs \union {None},
             task : Tasks \union {None},
             loaded : Row,
             seen : SUBSET Nat]

\* pc "row" and "progress" write the stage to PostgreSQL and to Redis.
Worker   == [pc    : {"idle", "row", "progress", "fetch", "batches", "purge",
                      "store", "es", "milvus", "notify", "republish", "ack"},
             msg   : Message \union {None},
             stage : Status,
             gen   : Nat,
             seen  : SUBSET Nat,
             degraded : BOOLEAN]

NoRequest  == [pc |-> "idle", op |-> "none", doc |-> None, task |-> None,
               loaded |-> "absent", seen |-> {}]
IdleWorker == [pc |-> "idle", msg |-> None, stage |-> "queued", gen |-> 0,
               seen |-> {}, degraded |-> FALSE]

StoresOK ==
    /\ row \in [Docs -> Row]
    /\ chunks \in [Docs -> SUBSET Nat]
    /\ es \in [Docs -> SUBSET Nat]
    /\ milvus \in [Docs -> SUBSET Nat]
    /\ stored \in SUBSET Docs
    /\ progress \in [Docs -> Progress]
    /\ rtask \in [Tasks -> Record]
    /\ queue \in [Message -> Nat]
    /\ lastGen \in Nat
    /\ crashes \in Nat /\ kills \in Nat /\ outages \in Nat
    /\ overlapped \in [Docs -> BOOLEAN]

RequestsOK ==
    /\ request \in [Requests -> Request]
    /\ \A q \in Requests : /\ request[q].op # "none" => request[q].doc \in Docs
                           /\ request[q].pc # "idle" <=> request[q].op # "none"
                           /\ request[q].pc \in {"progress", "record"} =>
                                request[q].task \in Tasks

WorkersOK ==
    /\ worker \in [Workers -> Worker]
    /\ \A w \in Workers : worker[w].pc # "idle" => worker[w].msg \in Message

TypeOK == StoresOK /\ RequestsOK /\ WorkersOK

Init ==
    /\ row = [d \in Docs |-> "absent"]
    /\ chunks = [d \in Docs |-> {}]
    /\ es = [d \in Docs |-> {}]
    /\ milvus = [d \in Docs |-> {}]
    /\ stored = {}
    /\ progress = [d \in Docs |-> "absent"]
    /\ rtask = [t \in Tasks |-> "absent"]
    /\ queue = [m \in Message |-> 0]
    /\ request = [q \in Requests |-> NoRequest]
    /\ worker = [w \in Workers |-> IdleWorker]
    /\ lastGen = 0
    /\ crashes = 0
    /\ kills = 0
    /\ outages = 0
    /\ overlapped = [d \in Docs |-> FALSE]

----------------------------------------------------------------------------
\* HTTP requests: DocumentService inside the transaction of get_db

InFlight(q) == request[q].pc \notin {"idle", "done", "aborted"}

\* The DELETE of a document holds its row lock until the request ends.
Locked(d) == \E q \in Requests : /\ request[q].op = "delete"
                                 /\ request[q].doc = d
                                 /\ InFlight(q)

Goto(q, pc) == request' = [request EXCEPT ![q].pc = pc]

\* The request ends; its locals are forgotten.
End(q, pc) ==
    request' = [request EXCEPT ![q] =
                  [@ EXCEPT !.pc = pc, !.loaded = "absent", !.seen = {}]]

\* upload_document / complete_chunk_upload: put the object, flush the new row
\* in an uncommitted transaction.
BeginUpload(q, d) ==
    /\ request[q].pc = "idle"
    /\ \A r \in Requests : request[r].doc # d
    /\ request' = [request EXCEPT ![q] =
                     [NoRequest EXCEPT !.pc = "dispatch", !.op = "upload", !.doc = d]]
    /\ stored' = stored \union {d}
    /\ UNCHANGED <<row, chunks, indexes, progress, rtask, queue, worker, lastGen,
                   faults, overlapped>>

\* enqueue_retry loads the row and remembers its status (ORM identity map).
BeginRetry(q, d) ==
    /\ request[q].pc = "idle"
    /\ row[d] # "absent"
    /\ request' = [request EXCEPT ![q] =
                     [NoRequest EXCEPT !.pc = "dispatch", !.op = "retry", !.doc = d,
                                       !.loaded = row[d]]]
    /\ UNCHANGED <<row, chunks, indexes, stored, progress, rtask, queue, worker,
                   lastGen, faults, overlapped>>

\* delete_document loads the row and executes both DELETEs, uncommitted; the
\* statement removes the chunk rows its snapshot sees.
BeginDelete(q, d) ==
    /\ request[q].pc = "idle"
    /\ row[d] # "absent"
    /\ ~Locked(d)
    /\ request' = [request EXCEPT ![q] =
                     [NoRequest EXCEPT !.pc = "object", !.op = "delete", !.doc = d,
                                       !.seen = chunks[d]]]
    /\ UNCHANGED <<row, chunks, indexes, stored, progress, rtask, queue, worker,
                   lastGen, faults, overlapped>>

\* _dispatch_processing_task: apply_async publishes before anything is committed.
Dispatch(q) ==
    /\ request[q].pc = "dispatch"
    /\ \E t \in Tasks :
         /\ \A r \in Requests : request[r].task # t
         /\ queue' = [queue EXCEPT ![[task |-> t, doc |-> request[q].doc,
                                      retries |-> 0]] = @ + 1]
         /\ request' = [request EXCEPT ![q] =
              [request[q] EXCEPT !.task = t,
                 !.pc = IF request[q].op = "upload" THEN "progress" ELSE "record"]]
    /\ UNCHANGED <<row, chunks, indexes, stored, progress, rtask, worker, lastGen,
                   faults, overlapped>>

\* _enqueue_document_processing: the hash is announced after the dispatch.
AnnounceQueued(q) ==
    /\ request[q].pc = "progress"
    /\ progress' = [progress EXCEPT ![request[q].doc] = "queued"]
    /\ Goto(q, "record")
    /\ UNCHANGED <<row, chunks, indexes, stored, rtask, queue, worker, lastGen,
                   faults, overlapped>>

\* DocumentService._upsert_runtime_task overwrites the whole record.
RecordPending(q) ==
    /\ request[q].pc = "record"
    /\ rtask' = [rtask EXCEPT ![request[q].task] = "pending"]
    /\ Goto(q, "commit")
    /\ UNCHANGED <<row, chunks, indexes, stored, progress, queue, worker, lastGen,
                   faults, overlapped>>

CommitUpload(q) ==
    /\ request[q].pc = "commit" /\ request[q].op = "upload"
    /\ row' = [row EXCEPT ![request[q].doc] = "uploaded"]
    /\ End(q, "done")
    /\ UNCHANGED <<chunks, indexes, stored, progress, rtask, queue, worker, lastGen,
                   faults, overlapped>>

\* The ORM updates the row only if the status differs from the one it loaded;
\* an UPDATE that meets no row fails the request.
CommitRetry(q) ==
    LET d == request[q].doc IN
    /\ request[q].pc = "commit" /\ request[q].op = "retry"
    /\ ~Locked(d)
    /\ IF request[q].loaded = "queued"
         THEN End(q, "done") /\ UNCHANGED row
         ELSE IF row[d] = "absent"
           THEN End(q, "aborted") /\ UNCHANGED row
           ELSE End(q, "done") /\ row' = [row EXCEPT ![d] = "queued"]
    /\ UNCHANGED <<chunks, indexes, stored, progress, rtask, queue, worker, lastGen,
                   faults, overlapped>>

\* remove_object: an S3Error is swallowed.
RemoveObject(q) ==
    /\ request[q].pc = "object"
    /\ stored' \in {stored, stored \ {request[q].doc}}
    /\ Goto(q, "milvus")
    /\ UNCHANGED <<row, chunks, indexes, progress, rtask, queue, worker, lastGen,
                   faults, overlapped>>

\* The index clean-up is best effort: any exception is swallowed.
DropMilvus(q) ==
    /\ request[q].pc = "milvus"
    /\ milvus' \in {milvus, [milvus EXCEPT ![request[q].doc] = {}]}
    /\ Goto(q, "es")
    /\ UNCHANGED <<row, chunks, es, stored, progress, rtask, queue, worker, lastGen,
                   faults, overlapped>>

DropEs(q) ==
    /\ request[q].pc = "es"
    /\ es' \in {es, [es EXCEPT ![request[q].doc] = {}]}
    /\ Goto(q, "redis")
    /\ UNCHANGED <<row, chunks, milvus, stored, progress, rtask, queue, worker,
                   lastGen, faults, overlapped>>

ClearProgress(q) ==
    /\ request[q].pc = "redis"
    /\ progress' = [progress EXCEPT ![request[q].doc] = "absent"]
    /\ Goto(q, "commit")
    /\ UNCHANGED <<row, chunks, indexes, stored, rtask, queue, worker, lastGen,
                   faults, overlapped>>

CommitDelete(q) ==
    LET d == request[q].doc IN
    /\ request[q].pc = "commit" /\ request[q].op = "delete"
    /\ row' = [row EXCEPT ![d] = "absent"]
    /\ chunks' = [chunks EXCEPT ![d] = @ \ request[q].seen]
    /\ End(q, "done")
    /\ UNCHANGED <<indexes, stored, progress, rtask, queue, worker, lastGen,
                   faults, overlapped>>

\* An exception, a failed commit or the loss of the API process: get_db rolls
\* the transaction back, what went to the other stores stays there.
Abort(q) ==
    /\ InFlight(q)
    /\ End(q, "aborted")
    /\ UNCHANGED <<row, chunks, indexes, stored, progress, rtask, queue, worker,
                   lastGen, faults, overlapped>>

----------------------------------------------------------------------------
\* process_document

Active(w)  == worker[w].pc # "idle"
DocOf(w)   == worker[w].msg.doc
TaskOf(w)  == worker[w].msg.task
WorksOn(w, d) == Active(w) /\ DocOf(w) = d

HasRetry(m) == m.retries < MaxRetries

\* Mutant of FinalStatus: the failures counted on the way are forgotten.
FinalStatusAlwaysReady(degraded) == "ready"

FinalStatus(degraded) == IF degraded THEN "partial_failed" ELSE "ready"

\* Mutant of RecordStatus: the stage itself goes to the record.
RecordStatusUnmapped(s) == s

\* _map_stage_to_status
RecordStatus(s) == CASE s = "queued" -> "pending"
                     [] s = "ready" -> "completed"
                     [] s \in {"failed", "partial_failed"} -> "failed"
                     [] OTHER -> "running"

\* What follows once a stage is written to both stores.
Work(s) == CASE s = "queued" -> [pc |-> "row", stage |-> "parsing"]
             [] s = "parsing" -> [pc |-> "fetch", stage |-> s]
             [] s = "chunking" -> [pc |-> "batches", stage |-> s]
             [] s = "indexing" -> [pc |-> "es", stage |-> s]
             [] s \in {"ready", "partial_failed"} -> [pc |-> "notify", stage |-> s]
             [] s = "retrying" -> [pc |-> "republish", stage |-> s]
             [] s = "failed" -> [pc |-> "ack", stage |-> s]

\* Mutant of RowWith: an upsert.
RowUpserted(d, s) == [row EXCEPT ![d] = s]

\* UPDATE documents ... WHERE id: no row, no effect.
RowWith(d, s) == IF row[d] = "absent" THEN row ELSE [row EXCEPT ![d] = s]

\* _update_progress writes the hash and the runtime record of the task.
Announce(w, s) ==
    /\ progress' = [progress EXCEPT ![DocOf(w)] = s]
    /\ rtask' = [rtask EXCEPT ![TaskOf(w)] = RecordStatus(s)]

Become(w, state) == worker' = [worker EXCEPT ![w] = state]

Enter(w, pc, stage) == Become(w, [worker[w] EXCEPT !.pc = pc, !.stage = stage])

\* A fault of the environment counts against its bound.
Account(faulty) == IF faulty THEN outages < MaxOutages /\ outages' = outages + 1
                   ELSE UNCHANGED outages

\* Mutant of Take: the broker does not hide a message it has delivered.
TakeVisibly(w) ==
    /\ worker[w].pc = "idle"
    /\ \E m \in Message :
         /\ queue[m] > 0
         /\ Become(w, [IdleWorker EXCEPT !.pc = "row", !.msg = m])
         /\ rtask' = [rtask EXCEPT ![m.task] = "running"]
    /\ UNCHANGED <<row, chunks, indexes, stored, progress, queue, request, lastGen,
                   faults, overlapped>>

\* The broker delivers a message to an idle worker process, whose first act is
\* the runtime record "running".
Take(w) ==
    /\ worker[w].pc = "idle"
    /\ \E m \in Message :
         /\ queue[m] > 0
         /\ queue' = [queue EXCEPT ![m] = @ - 1]
         /\ Become(w, [IdleWorker EXCEPT !.pc = "row", !.msg = m])
         /\ rtask' = [rtask EXCEPT ![m.task] = "running"]
         /\ overlapped' = [overlapped EXCEPT ![m.doc] =
                             @ \/ \E v \in Workers : WorksOn(v, m.doc)]
    /\ UNCHANGED <<row, chunks, indexes, stored, progress, request, lastGen, faults>>

\* _set_document_status waits for the row lock of a delete.
WriteRow(w) ==
    /\ worker[w].pc = "row"
    /\ ~Locked(DocOf(w))
    /\ row' = RowWith(DocOf(w), worker[w].stage)
    /\ Enter(w, "progress", worker[w].stage)
    /\ UNCHANGED <<chunks, indexes, stored, progress, rtask, queue, request, lastGen,
                   faults, overlapped>>

\* _update_progress with its runtime-task write, and the explicit runtime-task
\* write of the same stage that follows a final or a failure stage.
WriteProgress(w) ==
    LET s == worker[w].stage IN
    /\ worker[w].pc = "progress"
    /\ Announce(w, s)
    /\ Enter(w, Work(s).pc, Work(s).stage)
    /\ UNCHANGED <<row, chunks, indexes, stored, queue, request, lastGen, faults,
                   overlapped>>

\* Download, progress 20, parse: needs the original file.
Fetch(w) ==
    /\ worker[w].pc = "fetch"
    /\ DocOf(w) \in stored
    /\ Announce(w, "parsing")
    /\ Enter(w, "row", "chunking")
    /\ UNCHANGED <<row, chunks, indexes, stored, queue, request, lastGen, faults,
                   overlapped>>

\* The batch loop; some batches may fail, all of them is StepFails.
ProcessBatches(w) ==
    /\ worker[w].pc = "batches"
    /\ \E failed \in BOOLEAN :
         /\ Account(failed)
         /\ Become(w, [worker[w] EXCEPT !.pc = "purge", !.gen = lastGen + 1,
                                        !.degraded = failed])
    /\ lastGen' = lastGen + 1
    /\ Announce(w, "chunking")
    /\ UNCHANGED <<row, chunks, indexes, stored, queue, request, crashes, kills,
                   overlapped>>

\* Mutant of PurgeChunks: the DELETE commits before the INSERT.
PurgeCommitted(w) ==
    /\ worker[w].pc = "purge"
    /\ chunks' = [chunks EXCEPT ![DocOf(w)] = {}]
    /\ Become(w, [worker[w] EXCEPT !.pc = "store"])
    /\ UNCHANGED <<row, indexes, stored, progress, rtask, queue, request, lastGen,
                   faults, overlapped>>

\* _persist_chunks, first half: the DELETE removes the rows its snapshot sees.
PurgeChunks(w) ==
    /\ worker[w].pc = "purge"
    /\ Become(w, [worker[w] EXCEPT !.pc = "store", !.seen = chunks[DocOf(w)]])
    /\ UNCHANGED <<row, chunks, indexes, stored, progress, rtask, queue, request,
                   lastGen, faults, overlapped>>

\* Mutant of StoreChunks: the stage "indexing" is not announced.
StoreSilently(w) ==
    /\ worker[w].pc = "store"
    /\ chunks' = [chunks EXCEPT ![DocOf(w)] = (@ \ worker[w].seen) \union {worker[w].gen}]
    /\ Become(w, [worker[w] EXCEPT !.pc = "es", !.stage = "indexing", !.seen = {}])
    /\ UNCHANGED <<row, indexes, stored, progress, rtask, queue, request, lastGen,
                   faults, overlapped>>

\* A delete in flight holds the locks of the chunk rows it has removed.
ChunksLocked(w) == \E q \in Requests : /\ request[q].op = "delete"
                                       /\ request[q].doc = DocOf(w)
                                       /\ InFlight(q)
                                       /\ request[q].seen \cap worker[w].seen # {}

\* _persist_chunks, second half: the DELETE gets its locks, INSERT, commit.
StoreChunks(w) ==
    /\ worker[w].pc = "store"
    /\ ~ChunksLocked(w)
    /\ chunks' = [chunks EXCEPT ![DocOf(w)] = (@ \ worker[w].seen) \union {worker[w].gen}]
    /\ Become(w, [worker[w] EXCEPT !.pc = "row", !.stage = "indexing", !.seen = {}])
    /\ UNCHANGED <<row, indexes, stored, progress, rtask, queue, request, lastGen,
                   faults, overlapped>>

\* ESClient.bulk_index: the request may raise, applied or not, or return with
\* every item refused, which the caller does not look at.
IndexEs(w) ==
    LET indexed == [es EXCEPT ![DocOf(w)] = @ \union {worker[w].gen}] IN
    /\ worker[w].pc = "es"
    /\ \E raised \in BOOLEAN :
         /\ es' \in {es, indexed}
         /\ Account(raised \/ es' = es)
         /\ Become(w, [worker[w] EXCEPT !.pc = "milvus", !.degraded = @ \/ raised])
    /\ UNCHANGED <<row, chunks, milvus, stored, progress, rtask, queue, request,
                   lastGen, crashes, kills, overlapped>>

\* MilvusClient.upsert_chunks returns the number of chunks, or 0 after an
\* error that may have come after the insert.
IndexMilvus(w) ==
    LET indexed == [milvus EXCEPT ![DocOf(w)] = @ \union {worker[w].gen}] IN
    /\ worker[w].pc = "milvus"
    /\ \E short \in BOOLEAN :
         /\ milvus' \in IF short THEN {milvus, indexed} ELSE {indexed}
         /\ Account(short)
         /\ Become(w, [worker[w] EXCEPT !.pc = "row", !.degraded = @ \/ short,
                          !.stage = FinalStatus(worker[w].degraded \/ short)])
    /\ UNCHANGED <<row, chunks, es, stored, progress, rtask, queue, request, lastGen,
                   crashes, kills, overlapped>>

\* Mutant of StepFails: the except clause leaves the row alone.
StepFailsUnrecorded(w) ==
    /\ worker[w].pc \notin {"idle", "republish", "ack"}
    /\ worker[w].stage \notin {"retrying", "failed"}
    /\ Become(w, [IdleWorker EXCEPT !.pc = "progress", !.msg = worker[w].msg,
                    !.stage = IF HasRetry(worker[w].msg) THEN "retrying" ELSE "failed"])
    /\ UNCHANGED <<row, chunks, indexes, stored, progress, rtask, queue, request,
                   lastGen, faults, overlapped>>

\* An exception of the list the except clause names, at any point of the try
\* body, the notification after a final status included.
StepFails(w) ==
    /\ worker[w].pc \notin {"idle", "republish", "ack"}
    /\ worker[w].stage \notin {"retrying", "failed"}
    /\ Become(w, [IdleWorker EXCEPT !.pc = "row", !.msg = worker[w].msg,
                    !.stage = IF HasRetry(worker[w].msg) THEN "retrying" ELSE "failed"])
    /\ UNCHANGED <<row, chunks, indexes, stored, progress, rtask, queue, request,
                   lastGen, faults, overlapped>>

\* Mutant of Republish: the exception is re-raised without self.retry.
RepublishNothing(w) ==
    /\ worker[w].pc = "republish"
    /\ Enter(w, "ack", "retrying")
    /\ UNCHANGED <<row, chunks, indexes, stored, progress, rtask, queue, request,
                   lastGen, faults, overlapped>>

\* Mutant of Republish: the attempt is dispatched anew instead of retried.
RepublishUncounted(w) ==
    /\ worker[w].pc = "republish"
    /\ queue' = [queue EXCEPT ![worker[w].msg] = @ + 1]
    /\ Enter(w, "ack", "retrying")
    /\ UNCHANGED <<row, chunks, indexes, stored, progress, rtask, request, lastGen,
                   faults, overlapped>>

\* self.retry publishes the next attempt of the same task.
Republish(w) ==
    /\ worker[w].pc = "republish"
    /\ queue' = [queue EXCEPT ![[worker[w].msg EXCEPT !.retries = @ + 1]] = @ + 1]
    /\ Enter(w, "ack", "retrying")
    /\ UNCHANGED <<row, chunks, indexes, stored, progress, rtask, request, lastGen,
                   faults, overlapped>>

\* The notification is sent, the task returns or raises, and only now the
\* broker forgets the message (acks_late).
Acknowledge(w) ==
    /\ worker[w].pc \in {"notify", "ack"}
    /\ Become(w, IdleWorker)
    /\ UNCHANGED <<row, chunks, indexes, stored, progress, rtask, queue, request,
                   lastGen, faults, overlapped>>

\* The execution ends without its except clause completing (soft or hard time
\* limit, an exception the clause does not name or that it raises itself); the
\* message is acknowledged all the same.
Kill(w) ==
    /\ Active(w) /\ kills < MaxKills
    /\ kills' = kills + 1
    /\ Become(w, IdleWorker)
    /\ UNCHANGED <<row, chunks, indexes, stored, progress, rtask, queue, request,
                   lastGen, crashes, outages, overlapped>>

\* The worker is lost; the broker delivers its message again.
Crash(w) ==
    /\ Active(w) /\ crashes < MaxCrashes
    /\ crashes' = crashes + 1
    /\ queue' = [queue EXCEPT ![worker[w].msg] = @ + 1]
    /\ Become(w, IdleWorker)
    /\ UNCHANGED <<row, chunks, indexes, stored, progress, rtask, request, lastGen,
                   kills, outages, overlapped>>

----------------------------------------------------------------------------

Arrive(q) == \E d \in Docs : BeginUpload(q, d) \/ BeginRetry(q, d) \/ BeginDelete(q, d)

\* What a request does once it has begun.
Handle(q) ==
    \/ Dispatch(q) \/ AnnounceQueued(q) \/ RecordPending(q)
    \/ CommitUpload(q) \/ CommitRetry(q)
    \/ RemoveObject(q) \/ DropMilvus(q) \/ DropEs(q) \/ ClearProgress(q)
    \/ CommitDelete(q) \/ Abort(q)

RequestStep(q) == Arrive(q) \/ Handle(q)

\* What a worker process does of its own accord.
Process(w) ==
    \/ WriteRow(w) \/ WriteProgress(w) \/ Fetch(w)
    \/ ProcessBatches(w) \/ PurgeChunks(w) \/ StoreChunks(w)
    \/ IndexEs(w) \/ IndexMilvus(w) \/ StepFails(w)
    \/ Republish(w) \/ Acknowledge(w)

WorkerStep(w) == Take(w) \/ Process(w) \/ Kill(w) \/ Crash(w)

Next == \/ \E q \in Requests : RequestStep(q)
        \/ \E w \in Workers : WorkerStep(w)

Spec == Init /\ [][Next]_vars

----------------------------------------------------------------------------
\* Properties

DeleteRequested(d) == \E q \in Requests : request[q].op = "delete" /\ request[q].doc = d

\* Nothing is under way for the document.
Settled(d) == /\ \A q \in Requests : request[q].doc = d => ~InFlight(q)
              /\ \A m \in Message : m.doc = d => queue[m] = 0
              /\ \A w \in Workers : ~WorksOn(w, d)

Waiting(m, t) == m.task = t /\ queue[m] > 0

\* A copy of the task waits or is being executed.
Outstanding(t) == \/ \E m \in Message : Waiting(m, t)
                  \/ \E w \in Workers : Active(w) /\ TaskOf(w) = t

\* A document is "ready" only with exactly one generation of chunk rows, all
\* of it in Milvus: the final status of process_document accounts for every
\* batch and for the Milvus count, and stays true while later attempts fail.
\* It is claimed of documents no two executions worked on at once and nobody
\* asked to delete.
ReadyIsIndexed ==
    \A d \in Docs :
        row[d] = "ready" /\ ~overlapped[d] /\ ~DeleteRequested(d) =>
            \E g \in milvus[d] : chunks[d] = {g}

\* Without a redelivery a task has one copy: one message waiting, or one
\* execution that has not yet published its retry.
Holds(w, t) == /\ worker[w].pc \notin {"idle", "ack"}
               /\ TaskOf(w) = t

OneCopyPerTask ==
    crashes = 0 =>
        \A t \in Tasks :
            /\ \A m \in Message : m.task = t => queue[m] <= 1
            /\ \A m, n \in Message : Waiting(m, t) /\ Waiting(n, t) => m = n
            /\ \A v, w \in Workers : Holds(v, t) /\ Holds(w, t) => v = w
            /\ \A m \in Message, w \in Workers : ~(Waiting(m, t) /\ Holds(w, t))

\* A task that its runtime record shows as running is waiting or being executed:
\* unless an execution is killed, nothing is left for the hourly maintenance to
\* declare stuck.
RunningIsAlive ==
    kills = 0 => \A t \in Tasks : rtask[t] = "running" => Outstanding(t)

\* When all is over PostgreSQL and Redis show the same status of a document,
\* or one of them shows what a request wrote after the dispatch ("uploaded",
\* "queued"): no other order of the two writers makes them differ.
DriftOnlyByLateWrite ==
    \A d \in Docs :
        /\ Settled(d) /\ kills = 0 /\ ~overlapped[d] /\ ~DeleteRequested(d)
        /\ row[d] # "absent"
        => \/ row[d] = progress[d]
           \/ row[d] \in {"uploaded", "queued"}
           \/ progress[d] = "queued"

\* "Redis ... holds no final fact" (docs/ARCHITECTURE.md:91): the outcome that
\* Redis shows of a settled document is the one PostgreSQL has.
NoFinalFactInRedisOnly ==
    \A d \in Docs :
        /\ Settled(d) /\ kills = 0
        /\ row[d] # "absent" /\ progress[d] \in Terminal
        => row[d] = progress[d]

\* A retry replaces the chunk rows in one transaction: until somebody asks to
\* delete the document it never loses its last good generation.
ChunksOutliveRetries ==
    [][\A d \in Docs : chunks[d] # {} /\ ~DeleteRequested(d) => chunks'[d] # {}]_vars

\* Once a delete is committed no late write of a worker or of a retry request
\* brings the row back.
DeletedStaysDeleted ==
    [][\A q \in Requests :
         request[q].op = "delete" /\ request[q].pc = "done" =>
            row'[request[q].doc] = "absent"]_vars

\* What the status endpoint publishes follows the stages of one attempt.
Published(d) == IF overlapped[d] \/ DeleteRequested(d) THEN "unmanaged"
                ELSE progress[d]

Lifecycle == INSTANCE DocumentLifecycle
                WITH published <- [d \in Docs |-> Published(d)]

ImplementsLifecycle == Lifecycle!Spec

\* Celery delivers, a live worker process goes on, and a request that has begun
\* ends, in whatever way; nothing is assumed of kills, crashes or new requests.
Fairness == /\ \A w \in Workers : WF_vars(Take(w)) /\ WF_vars(Process(w))
            /\ \A q \in Requests : WF_vars(Handle(q))

FairSpec == Spec /\ Fairness

\* Every task comes to its end: attempts are bounded and each execution either
\* concludes or hands over to the next attempt.
EveryTaskEnds == \A t \in Tasks : Outstanding(t) ~> ~Outstanding(t)
=============================================================================
