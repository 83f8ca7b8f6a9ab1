-------------------------- MODULE IngestionProofs --------------------------
(***************************************************************************)
(* Theorems about Ingestion, for every value of its constants.             *)
(*                                                                         *)
(* First its types, that a ready document is indexed, and that without a   *)
(* redelivery a task has one copy, so that two executions of one task      *)
(* never run the pipeline at once, however many retries it takes.          *)
(*                                                                         *)
(* Then what the published state of a document and of its task can be      *)
(* relied on for: a deleted row stays deleted and a retry keeps the        *)
(* chunks, a running task is alive, the two stores of a status agree in    *)
(* the end, and the status a client polls follows DocumentLifecycle.  The  *)
(* last three are about the order in which one execution writes to its     *)
(* stores, so they share one lemma that says what a step of an execution   *)
(* does to the row, the progress hash, the record and the queue.           *)
(***************************************************************************)
EXTENDS Ingestion, TLAPS

----------------------------------------------------------------------------
\* Type correctness

LEMMA TypeInit == Init => TypeOK
<1> SUFFICES ASSUME Init PROVE TypeOK
  OBVIOUS
<1>1. StoresOK
  BY DEF Init, StoresOK, Row, Progress, Record
<1>2. RequestsOK
  BY DEF Init, RequestsOK, Request, NoRequest, Row
<1>3. WorkersOK
  BY DEF Init, WorkersOK, Worker, IdleWorker, Status, Stage
<1> QED BY <1>1, <1>2, <1>3 DEF TypeOK

\* A request that moves on keeps everything but its control point.
LEMMA GotoKeepsType ==
    ASSUME RequestsOK, NEW q \in Requests, request[q].pc # "idle",
           NEW pc \in {"record", "commit", "milvus", "es", "redis"},
           pc = "record" => request[q].task \in Tasks,
           Goto(q, pc)
    PROVE  RequestsOK'
<1>1. request' \in [Requests -> Request]
  BY DEF Goto, RequestsOK, Request, DeletePc
<1>2. \A r \in Requests :
        /\ request'[r].op = request[r].op
        /\ request'[r].doc = request[r].doc
        /\ request'[r].task = request[r].task
        /\ request'[r].pc = IF r = q THEN pc ELSE request[r].pc
  BY DEF Goto, RequestsOK, Request
<1>3. \A r \in Requests :
        /\ request'[r].op # "none" => request'[r].doc \in Docs
        /\ request'[r].pc # "idle" <=> request'[r].op # "none"
        /\ request'[r].pc \in {"progress", "record"} => request'[r].task \in Tasks
  BY <1>2 DEF RequestsOK
<1> QED BY <1>1, <1>3 DEF RequestsOK

LEMMA EndKeepsType ==
    ASSUME RequestsOK, NEW q \in Requests, request[q].pc # "idle",
           NEW pc \in {"done", "aborted"}, End(q, pc)
    PROVE  RequestsOK'
<1> DEFINE e == [request[q] EXCEPT !.pc = pc, !.loaded = "absent", !.seen = {}]
<1>1. /\ e \in Request /\ e.pc = pc
      /\ e.op = request[q].op /\ e.doc = request[q].doc /\ e.task = request[q].task
  BY DEF RequestsOK, Request, Row
<1>2. request' = [request EXCEPT ![q] = e]
  BY DEF End
<1> HIDE DEF e
<1>3. request' \in [Requests -> Request]
  BY <1>1, <1>2 DEF RequestsOK
<1>4. \A r \in Requests : request'[r] = IF r = q THEN e ELSE request[r]
  BY <1>2 DEF RequestsOK
<1> QED BY <1>1, <1>3, <1>4 DEF RequestsOK

\* A request that begins: its record is new.
LEMMA BeginKeepsType ==
    ASSUME RequestsOK, NEW q \in Requests, NEW b \in Request,
           b.op # "none", b.doc \in Docs, b.pc \notin {"idle", "progress", "record"},
           request' = [request EXCEPT ![q] = b]
    PROVE  RequestsOK'
<1>1. request' \in [Requests -> Request]
  BY DEF RequestsOK
<1>2. \A r \in Requests : request'[r] = IF r = q THEN b ELSE request[r]
  BY DEF RequestsOK
<1> QED BY <1>1, <1>2 DEF RequestsOK

LEMMA TypeArrive ==
    ASSUME TypeOK, NEW q \in Requests, Arrive(q)
    PROVE  TypeOK'
<1>1. ASSUME NEW d \in Docs, BeginUpload(q, d) PROVE TypeOK'
  <2> DEFINE b == [NoRequest EXCEPT !.pc = "dispatch", !.op = "upload", !.doc = d]
  <2>1. b \in Request /\ b.op = "upload" /\ b.doc = d /\ b.pc = "dispatch"
    BY DEF NoRequest, Request, Row
  <2>2. request' = [request EXCEPT ![q] = b]
    BY <1>1 DEF BeginUpload
  <2>3. RequestsOK'
    BY <2>1, <2>2, BeginKeepsType DEF TypeOK
  <2>4. StoresOK' /\ WorkersOK'
    BY <1>1 DEF BeginUpload, TypeOK, StoresOK, WorkersOK, indexes, faults
  <2> QED BY <2>3, <2>4 DEF TypeOK
<1>2. ASSUME NEW d \in Docs, BeginRetry(q, d) PROVE TypeOK'
  <2> DEFINE b == [NoRequest EXCEPT !.pc = "dispatch", !.op = "retry", !.doc = d,
                                    !.loaded = row[d]]
  <2>1. b \in Request /\ b.op = "retry" /\ b.doc = d /\ b.pc = "dispatch"
    BY DEF NoRequest, Request, TypeOK, StoresOK
  <2>2. request' = [request EXCEPT ![q] = b]
    BY <1>2 DEF BeginRetry
  <2>3. RequestsOK'
    BY <2>1, <2>2, BeginKeepsType DEF TypeOK
  <2>4. StoresOK' /\ WorkersOK'
    BY <1>2 DEF BeginRetry, TypeOK, StoresOK, WorkersOK, indexes, faults
  <2> QED BY <2>3, <2>4 DEF TypeOK
<1>3. ASSUME NEW d \in Docs, BeginDelete(q, d) PROVE TypeOK'
  <2> DEFINE b == [NoRequest EXCEPT !.pc = "object", !.op = "delete", !.doc = d,
                                    !.seen = chunks[d]]
  <2>1. b \in Request /\ b.op = "delete" /\ b.doc = d /\ b.pc = "object"
    BY DEF NoRequest, Request, Row, DeletePc, TypeOK, StoresOK
  <2>2. request' = [request EXCEPT ![q] = b]
    BY <1>3 DEF BeginDelete
  <2>3. RequestsOK'
    BY <2>1, <2>2, BeginKeepsType DEF TypeOK
  <2>4. StoresOK' /\ WorkersOK'
    BY <1>3 DEF BeginDelete, TypeOK, StoresOK, WorkersOK, indexes, faults
  <2> QED BY <2>3, <2>4 DEF TypeOK
<1> QED BY <1>1, <1>2, <1>3 DEF Arrive

LEMMA TypeHandle ==
    ASSUME TypeOK, NEW q \in Requests, Handle(q)
    PROVE  TypeOK'
<1>0. request[q].pc # "idle" => request[q].doc \in Docs
  BY DEF TypeOK, RequestsOK
<1>1. CASE Dispatch(q)
  <2>0. request[q].pc = "dispatch"
    BY <1>1 DEF Dispatch
  <2> DEFINE next(t) == [request[q] EXCEPT !.task = t,
                   !.pc = IF request[q].op = "upload" THEN "progress" ELSE "record"]
             m(t) == [task |-> t, doc |-> request[q].doc, retries |-> 0]
  <2>1. PICK t \in Tasks : /\ queue' = [queue EXCEPT ![m(t)] = @ + 1]
                           /\ request' = [request EXCEPT ![q] = next(t)]
    BY <1>1 DEF Dispatch
  <2>2. /\ next(t) \in Request /\ next(t).task = t
        /\ next(t).pc \in {"progress", "record"}
        /\ next(t).op = request[q].op /\ next(t).doc = request[q].doc
    BY DEF TypeOK, RequestsOK, Request
  <2>3. RequestsOK'
    <3> HIDE DEF next
    <3>1. request' \in [Requests -> Request]
      BY <2>1, <2>2 DEF TypeOK, RequestsOK
    <3>2. \A r \in Requests : request'[r] = IF r = q THEN next(t) ELSE request[r]
      BY <2>1 DEF TypeOK, RequestsOK
    <3> QED BY <2>0, <2>2, <3>1, <3>2 DEF TypeOK, RequestsOK
  <2>4. m(t) \in Message
    BY <1>0, <2>0, MaxRetriesAssumption DEF Message, MaxRetriesAssumption
  <2>5. queue' \in [Message -> Nat]
    BY <2>1, <2>4 DEF TypeOK, StoresOK
  <2>6. StoresOK' /\ WorkersOK'
    BY <1>1, <2>5 DEF Dispatch, TypeOK, StoresOK, WorkersOK, indexes, faults
  <2> QED BY <2>3, <2>6 DEF TypeOK
<1>2. CASE AnnounceQueued(q)
  <2>1. RequestsOK'
    BY <1>2, GotoKeepsType DEF AnnounceQueued, TypeOK, RequestsOK
  <2>2. StoresOK' /\ WorkersOK'
    BY <1>2, <1>0 DEF AnnounceQueued, TypeOK, StoresOK, WorkersOK, indexes, faults, Progress, Status, Stage
  <2> QED BY <2>1, <2>2 DEF TypeOK
<1>3. CASE RecordPending(q)
  <2>1. RequestsOK'
    BY <1>3, GotoKeepsType DEF RecordPending, TypeOK, RequestsOK
  <2>2. StoresOK' /\ WorkersOK'
    BY <1>3, <1>0 DEF RecordPending, TypeOK, StoresOK, WorkersOK, indexes, faults, Record
  <2> QED BY <2>1, <2>2 DEF TypeOK
<1>4. CASE CommitUpload(q)
  <2>1. RequestsOK'
    BY <1>4, EndKeepsType DEF CommitUpload, TypeOK
  <2>2. StoresOK' /\ WorkersOK'
    BY <1>4, <1>0 DEF CommitUpload, TypeOK, StoresOK, WorkersOK, indexes, faults, Row
  <2> QED BY <2>1, <2>2 DEF TypeOK
<1>5. CASE CommitRetry(q)
  <2>1. RequestsOK'
    BY <1>5, EndKeepsType DEF CommitRetry, TypeOK
  <2>2. StoresOK' /\ WorkersOK'
    BY <1>5, <1>0 DEF CommitRetry, TypeOK, StoresOK, WorkersOK, indexes, faults, Row, Status, Stage
  <2> QED BY <2>1, <2>2 DEF TypeOK
<1>6. CASE RemoveObject(q)
  <2>1. RequestsOK'
    BY <1>6, GotoKeepsType DEF RemoveObject, TypeOK, RequestsOK
  <2>2. StoresOK' /\ WorkersOK'
    BY <1>6, <1>0 DEF RemoveObject, TypeOK, StoresOK, WorkersOK, indexes, faults
  <2> QED BY <2>1, <2>2 DEF TypeOK
<1>7. CASE DropMilvus(q)
  <2>1. RequestsOK'
    BY <1>7, GotoKeepsType DEF DropMilvus, TypeOK, RequestsOK
  <2>2. StoresOK' /\ WorkersOK'
    BY <1>7, <1>0 DEF DropMilvus, TypeOK, StoresOK, WorkersOK, indexes, faults
  <2> QED BY <2>1, <2>2 DEF TypeOK
<1>8. CASE DropEs(q)
  <2>1. RequestsOK'
    BY <1>8, GotoKeepsType DEF DropEs, TypeOK, RequestsOK
  <2>2. StoresOK' /\ WorkersOK'
    BY <1>8, <1>0 DEF DropEs, TypeOK, StoresOK, WorkersOK, indexes, faults
  <2> QED BY <2>1, <2>2 DEF TypeOK
<1>9. CASE ClearProgress(q)
  <2>1. RequestsOK'
    BY <1>9, GotoKeepsType DEF ClearProgress, TypeOK, RequestsOK
  <2>2. StoresOK' /\ WorkersOK'
    BY <1>9, <1>0 DEF ClearProgress, TypeOK, StoresOK, WorkersOK, indexes, faults, Progress
  <2> QED BY <2>1, <2>2 DEF TypeOK
<1>10. CASE CommitDelete(q)
  <2>1. RequestsOK'
    BY <1>10, EndKeepsType DEF CommitDelete, TypeOK
  <2>2. StoresOK' /\ WorkersOK'
    BY <1>10, <1>0 DEF CommitDelete, TypeOK, StoresOK, WorkersOK, indexes, faults, Row
  <2> QED BY <2>1, <2>2 DEF TypeOK
<1>11. CASE Abort(q)
  <2>1. RequestsOK'
    BY <1>11, EndKeepsType DEF Abort, TypeOK, InFlight
  <2>2. StoresOK' /\ WorkersOK'
    BY <1>11, <1>0 DEF Abort, TypeOK, StoresOK, WorkersOK, indexes, faults
  <2> QED BY <2>1, <2>2 DEF TypeOK
<1> QED
  BY <1>1, <1>2, <1>3, <1>4, <1>5, <1>6, <1>7, <1>8, <1>9, <1>10, <1>11 DEF Handle

\* A worker that moves to a well-typed state.
LEMMA BecomeKeepsType ==
    ASSUME WorkersOK, NEW w \in Workers, NEW v \in Worker,
           v.pc # "idle" => v.msg \in Message, Become(w, v)
    PROVE  WorkersOK'
<1>1. worker' \in [Workers -> Worker]
  BY DEF WorkersOK, Become
<1>2. \A u \in Workers : worker'[u] = IF u = w THEN v ELSE worker[u]
  BY DEF WorkersOK, Become
<1> QED BY <1>1, <1>2 DEF WorkersOK

LEMMA RestIsTyped == WorkersOK => \A w \in Workers : Become(w, IdleWorker) => WorkersOK'
<1> SUFFICES ASSUME WorkersOK, NEW w \in Workers, Become(w, IdleWorker)
             PROVE  WorkersOK'
  OBVIOUS
<1>1. IdleWorker \in Worker /\ IdleWorker.pc = "idle"
  BY DEF IdleWorker, Worker, Status, Stage
<1> QED BY <1>1, BecomeKeepsType

LEMMA WorkType ==
    ASSUME NEW s \in Status
    PROVE  /\ Work(s).pc \in {"row", "fetch", "batches", "es", "notify",
                               "republish", "ack"}
           /\ Work(s).stage \in Status
           /\ RecordStatus(s) \in Record
           /\ s \in Progress /\ s \in Row
  BY DEF Work, RecordStatus, Record, Status, Stage, Terminal, Progress, Row

\* A worker that only moves on keeps its message.
LEMMA EnterKeepsType ==
    ASSUME WorkersOK, NEW w \in Workers, worker[w].pc # "idle", NEW s \in Status,
           NEW pc \in {"row", "progress", "fetch", "batches", "es", "notify",
                       "republish", "ack"},
           Enter(w, pc, s)
    PROVE  WorkersOK'
<1> DEFINE v == [worker[w] EXCEPT !.pc = pc, !.stage = s]
<1>1. v \in Worker /\ v.msg = worker[w].msg
  BY DEF WorkersOK, Worker
<1>2. v.msg \in Message
  BY <1>1 DEF WorkersOK
<1>3. Become(w, v)
  BY DEF Enter
<1> HIDE DEF v
<1> QED BY <1>1, <1>2, <1>3, BecomeKeepsType

LEMMA AnnounceKeepsType ==
    ASSUME TypeOK, NEW w \in Workers, Active(w), NEW s \in Status, Announce(w, s)
    PROVE  progress' \in [Docs -> Progress] /\ rtask' \in [Tasks -> Record]
<1>1. worker[w].msg \in Message
  BY DEF TypeOK, WorkersOK, Active
<1>2. s \in Progress /\ RecordStatus(s) \in Record
  BY WorkType
<1>3. DocOf(w) \in Docs /\ TaskOf(w) \in Tasks
  BY <1>1 DEF Message, DocOf, TaskOf
<1> QED BY <1>2, <1>3 DEF Announce, TypeOK, StoresOK

LEMMA PublishKeepsType ==
    ASSUME queue \in [Message -> Nat], NEW m,
           queue' = [queue EXCEPT ![m] = queue[m] + 1]
    PROVE  queue' \in [Message -> Nat]
<1>1. queue' = [n \in Message |-> IF n = m THEN queue[n] + 1 ELSE queue[n]]
  OBVIOUS
<1>2. \A n \in Message : queue[n] \in Nat /\ queue[n] + 1 \in Nat
  OBVIOUS
<1> QED BY <1>1, <1>2

LEMMA TypeProcess ==
    ASSUME TypeOK, NEW w \in Workers, Active(w), Process(w)
    PROVE  TypeOK'
<1>0. /\ worker[w] \in Worker /\ worker[w].msg \in Message
      /\ DocOf(w) \in Docs /\ TaskOf(w) \in Tasks
      /\ worker[w].stage \in Status /\ worker[w].gen \in Nat
      /\ worker[w].degraded \in BOOLEAN /\ worker[w].seen \subseteq Nat
      /\ worker[w].pc # "idle"
  BY DEF TypeOK, WorkersOK, Active, Message, DocOf, TaskOf, Worker
<1>00. RequestsOK /\ WorkersOK /\ StoresOK
  BY DEF TypeOK
<1>1. CASE WriteRow(w)
  <2>1. WorkersOK'
    BY <1>0, <1>00, <1>1, EnterKeepsType DEF WriteRow
  <2>2. row' \in [Docs -> Row]
    BY <1>0, <1>00, <1>1, WorkType DEF WriteRow, RowWith, StoresOK
  <2>3. RequestsOK' /\ StoresOK'
    BY <1>1, <1>00, <2>2 DEF WriteRow, RequestsOK, StoresOK, indexes, faults
  <2> QED BY <2>1, <2>3 DEF TypeOK
<1>2. CASE WriteProgress(w)
  <2>1. WorkersOK'
    BY <1>0, <1>00, <1>2, EnterKeepsType, WorkType DEF WriteProgress
  <2>2. progress' \in [Docs -> Progress] /\ rtask' \in [Tasks -> Record]
    BY <1>0, <1>2, AnnounceKeepsType DEF WriteProgress
  <2>3. RequestsOK' /\ StoresOK'
    BY <1>2, <1>00, <2>2 DEF WriteProgress, RequestsOK, StoresOK, indexes, faults
  <2> QED BY <2>1, <2>3 DEF TypeOK
<1>3. CASE Fetch(w)
  <2>0. "chunking" \in Status /\ "parsing" \in Status
    BY DEF Status, Stage
  <2>1. WorkersOK'
    BY <1>0, <1>00, <1>3, <2>0, EnterKeepsType DEF Fetch
  <2>2. progress' \in [Docs -> Progress] /\ rtask' \in [Tasks -> Record]
    BY <1>3, <2>0, AnnounceKeepsType DEF Fetch
  <2>3. RequestsOK' /\ StoresOK'
    BY <1>3, <1>00, <2>2 DEF Fetch, RequestsOK, StoresOK, indexes, faults
  <2> QED BY <2>1, <2>3 DEF TypeOK
<1>4. CASE ProcessBatches(w)
  <2>1. PICK failed \in BOOLEAN :
          /\ Account(failed)
          /\ Become(w, [worker[w] EXCEPT !.pc = "purge", !.gen = lastGen + 1,
                                          !.degraded = failed])
    BY <1>4 DEF ProcessBatches
  <2> DEFINE v == [worker[w] EXCEPT !.pc = "purge", !.gen = lastGen + 1,
                                    !.degraded = failed]
  <2>2. v \in Worker /\ v.msg = worker[w].msg
    <3>1. lastGen + 1 \in Nat
      BY <1>00 DEF StoresOK
    <3> QED BY <1>0, <3>1 DEF Worker
  <2>3. WorkersOK'
    <3> HIDE DEF v
    <3> QED BY <1>0, <1>00, <2>1, <2>2, BecomeKeepsType DEF v
  <2>4. "chunking" \in Status
    BY DEF Status, Stage
  <2>5. progress' \in [Docs -> Progress] /\ rtask' \in [Tasks -> Record]
    BY <1>4, <2>4, AnnounceKeepsType DEF ProcessBatches
  <2>6. outages' \in Nat /\ lastGen' \in Nat
    BY <1>4, <1>00, <2>1 DEF ProcessBatches, Account, StoresOK
  <2>7. RequestsOK' /\ StoresOK'
    BY <1>4, <1>00, <2>5, <2>6 DEF ProcessBatches, RequestsOK, StoresOK, indexes
  <2> QED BY <2>3, <2>7 DEF TypeOK
<1>5. CASE PurgeChunks(w)
  <2> DEFINE v == [worker[w] EXCEPT !.pc = "store", !.seen = chunks[DocOf(w)]]
  <2>1. v \in Worker /\ v.msg = worker[w].msg
    BY <1>0, <1>00 DEF Worker, StoresOK
  <2>2. Become(w, v)
    BY <1>5 DEF PurgeChunks
  <2>3. WorkersOK'
    <3> HIDE DEF v
    <3> QED BY <1>0, <1>00, <2>1, <2>2, BecomeKeepsType
  <2>4. RequestsOK' /\ StoresOK'
    BY <1>5, <1>00 DEF PurgeChunks, RequestsOK, StoresOK, indexes, faults
  <2> QED BY <2>3, <2>4 DEF TypeOK
<1>6. CASE StoreChunks(w)
  <2> DEFINE v == [worker[w] EXCEPT !.pc = "row", !.stage = "indexing", !.seen = {}]
  <2>1. v \in Worker /\ v.msg = worker[w].msg
    BY <1>0 DEF Worker, Status, Stage
  <2>2. Become(w, v)
    BY <1>6 DEF StoreChunks
  <2>3. WorkersOK'
    <3> HIDE DEF v
    <3> QED BY <1>0, <1>00, <2>1, <2>2, BecomeKeepsType
  <2>4. chunks' \in [Docs -> SUBSET Nat]
    BY <1>0, <1>00, <1>6 DEF StoreChunks, StoresOK
  <2>5. RequestsOK' /\ StoresOK'
    BY <1>6, <1>00, <2>4 DEF StoreChunks, RequestsOK, StoresOK, indexes, faults
  <2> QED BY <2>3, <2>5 DEF TypeOK
<1>7. CASE IndexEs(w)
  <2>1. PICK raised \in BOOLEAN :
          /\ es' \in {es, [es EXCEPT ![DocOf(w)] = @ \union {worker[w].gen}]}
          /\ Account(raised \/ es' = es)
          /\ Become(w, [worker[w] EXCEPT !.pc = "milvus",
                                         !.degraded = worker[w].degraded \/ raised])
    BY <1>7 DEF IndexEs
  <2> DEFINE v == [worker[w] EXCEPT !.pc = "milvus",
                                    !.degraded = worker[w].degraded \/ raised]
  <2>2. v \in Worker /\ v.msg = worker[w].msg
    BY <1>0 DEF Worker
  <2>3. WorkersOK'
    <3> HIDE DEF v
    <3> QED BY <1>0, <1>00, <2>1, <2>2, BecomeKeepsType DEF v
  <2>4. es' \in [Docs -> SUBSET Nat]
    BY <1>0, <1>00, <2>1 DEF StoresOK
  <2>5. outages' \in Nat
    BY <1>00, <2>1 DEF Account, StoresOK
  <2>6. RequestsOK' /\ StoresOK'
    BY <1>7, <1>00, <2>4, <2>5 DEF IndexEs, RequestsOK, StoresOK
  <2> QED BY <2>3, <2>6 DEF TypeOK
<1>8. CASE IndexMilvus(w)
  <2>1. PICK short \in BOOLEAN :
          /\ milvus' \in {milvus, [milvus EXCEPT ![DocOf(w)] = @ \union {worker[w].gen}]}
          /\ Account(short)
          /\ Become(w, [worker[w] EXCEPT !.pc = "row",
                           !.degraded = worker[w].degraded \/ short,
                           !.stage = FinalStatus(worker[w].degraded \/ short)])
    BY <1>8 DEF IndexMilvus
  <2> DEFINE v == [worker[w] EXCEPT !.pc = "row",
                           !.degraded = worker[w].degraded \/ short,
                           !.stage = FinalStatus(worker[w].degraded \/ short)]
  <2>0. FinalStatus(worker[w].degraded \/ short) \in Status
    BY DEF FinalStatus, Status, Terminal
  <2>2. v \in Worker /\ v.msg = worker[w].msg
    BY <1>0, <2>0 DEF Worker
  <2>3. WorkersOK'
    <3> HIDE DEF v
    <3> QED BY <1>0, <1>00, <2>1, <2>2, BecomeKeepsType DEF v
  <2>4. milvus' \in [Docs -> SUBSET Nat]
    BY <1>0, <1>00, <2>1 DEF StoresOK
  <2>5. outages' \in Nat
    BY <1>00, <2>1 DEF Account, StoresOK
  <2>6. RequestsOK' /\ StoresOK'
    BY <1>8, <1>00, <2>4, <2>5 DEF IndexMilvus, RequestsOK, StoresOK
  <2> QED BY <2>3, <2>6 DEF TypeOK
<1>9. CASE StepFails(w)
  <2> DEFINE s == IF HasRetry(worker[w].msg) THEN "retrying" ELSE "failed"
             v == [IdleWorker EXCEPT !.pc = "row", !.msg = worker[w].msg, !.stage = s]
  <2>1. s \in Status
    BY DEF Status, Terminal
  <2>2. v \in Worker /\ v.msg = worker[w].msg
    BY <1>0, <2>1 DEF Worker, IdleWorker
  <2>3. Become(w, v)
    BY <1>9 DEF StepFails
  <2>4. WorkersOK'
    <3> HIDE DEF v
    <3> QED BY <1>0, <1>00, <2>2, <2>3, BecomeKeepsType
  <2>5. RequestsOK' /\ StoresOK'
    BY <1>9, <1>00 DEF StepFails, RequestsOK, StoresOK, indexes, faults
  <2> QED BY <2>4, <2>5 DEF TypeOK
<1>10. CASE Republish(w)
  <2>1. WorkersOK'
    <3>1. "retrying" \in Status
      BY DEF Status
    <3> QED BY <1>0, <1>00, <1>10, <3>1, EnterKeepsType DEF Republish
  <2>2. queue' \in [Message -> Nat]
    <3> DEFINE m == [worker[w].msg EXCEPT !.retries = @ + 1]
    <3>1. queue' = [queue EXCEPT ![m] = queue[m] + 1]
      BY <1>10 DEF Republish
    <3> HIDE DEF m
    <3> QED BY <1>00, <3>1, PublishKeepsType DEF StoresOK
  <2>3. RequestsOK' /\ StoresOK'
    BY <1>10, <1>00, <2>2 DEF Republish, RequestsOK, StoresOK, indexes, faults
  <2> QED BY <2>1, <2>3 DEF TypeOK
<1>11. CASE Acknowledge(w)
  <2>1. WorkersOK'
    BY <1>00, <1>11, RestIsTyped DEF Acknowledge
  <2>2. RequestsOK' /\ StoresOK'
    BY <1>11, <1>00 DEF Acknowledge, RequestsOK, StoresOK, indexes, faults
  <2> QED BY <2>1, <2>2 DEF TypeOK
<1> QED
  BY <1>1, <1>2, <1>3, <1>4, <1>5, <1>6, <1>7, <1>8, <1>9, <1>10, <1>11 DEF Process

LEMMA TypeWorker ==
    ASSUME TypeOK, NEW w \in Workers, WorkerStep(w)
    PROVE  TypeOK'
<1>00. RequestsOK /\ WorkersOK /\ StoresOK
  BY DEF TypeOK
<1>1. CASE Take(w)
  <2>1. PICK m \in Message :
          /\ queue' = [queue EXCEPT ![m] = @ - 1]
          /\ queue[m] > 0
          /\ Become(w, [IdleWorker EXCEPT !.pc = "row", !.msg = m])
          /\ rtask' = [rtask EXCEPT ![m.task] = "running"]
          /\ overlapped' = [overlapped EXCEPT ![m.doc] =
                              @ \/ \E v \in Workers : WorksOn(v, m.doc)]
    BY <1>1 DEF Take
  <2> DEFINE v == [IdleWorker EXCEPT !.pc = "row", !.msg = m]
  <2>2. v \in Worker /\ v.msg = m
    BY DEF IdleWorker, Worker, Status, Stage
  <2>3. WorkersOK'
    <3> HIDE DEF v
    <3> QED BY <1>00, <2>1, <2>2, BecomeKeepsType DEF v
  <2>4. queue' \in [Message -> Nat]
    BY <1>00, <2>1 DEF StoresOK
  <2>5. rtask' \in [Tasks -> Record]
    BY <1>00, <2>1 DEF StoresOK, Record
  <2>6. overlapped' \in [Docs -> BOOLEAN]
    BY <1>00, <2>1 DEF StoresOK
  <2>7. RequestsOK' /\ StoresOK'
    BY <1>1, <1>00, <2>4, <2>5, <2>6 DEF Take, RequestsOK, StoresOK, indexes, faults
  <2> QED BY <2>3, <2>7 DEF TypeOK
<1>2. CASE Process(w)
  <2>1. Active(w)
    BY <1>2 DEF Process, WriteRow, WriteProgress, Fetch, ProcessBatches, PurgeChunks,
            StoreChunks, IndexEs, IndexMilvus, StepFails, Republish, Acknowledge, Active
  <2> QED BY <1>2, <2>1, TypeProcess
<1>3. CASE Kill(w)
  <2>1. WorkersOK'
    BY <1>00, <1>3, RestIsTyped DEF Kill
  <2>2. RequestsOK' /\ StoresOK'
    BY <1>3, <1>00 DEF Kill, RequestsOK, StoresOK, indexes
  <2> QED BY <2>1, <2>2 DEF TypeOK
<1>4. CASE Crash(w)
  <2>1. WorkersOK'
    BY <1>00, <1>4, RestIsTyped DEF Crash
  <2>2. queue' \in [Message -> Nat]
    BY <1>4, <1>00, PublishKeepsType DEF Crash, StoresOK
  <2>3. RequestsOK' /\ StoresOK'
    BY <1>4, <1>00, <2>2 DEF Crash, RequestsOK, StoresOK, indexes
  <2> QED BY <2>1, <2>3 DEF TypeOK
<1> QED BY <1>1, <1>2, <1>3, <1>4 DEF WorkerStep

LEMMA TypeStep == TypeOK /\ [Next]_vars => TypeOK'
<1>1. TypeOK /\ UNCHANGED vars => TypeOK'
  BY DEF TypeOK, StoresOK, RequestsOK, WorkersOK, vars
<1> QED BY <1>1, TypeArrive, TypeHandle, TypeWorker DEF Next, RequestStep

\* The stores, the requests, the messages and the workers of the ingestion
\* keep their types in every execution.
THEOREM TypeCorrect == Spec => []TypeOK
<1> QED BY TypeInit, TypeStep, PTL DEF Spec

----------------------------------------------------------------------------
\* A ready document is indexed.
\*
\* ReadyIsIndexed is not inductive: it needs to know what the execution that
\* is about to write "ready" holds in its hands, that this execution is the
\* only one, and that an execution which finds the document ready writes
\* another status before it touches the chunk rows.

Clean(d) == ~overlapped[d] /\ ~DeleteRequested(d)

At(v, pcs, stages) == v.pc \in pcs /\ v.stage \in stages

\* v: the state of an execution; rows, vectors: what the stores hold of its document.
HoldsGeneration(v, rows, vectors) ==
    /\ v.pc = "store" => v.seen = rows
    /\ v.pc \in {"es", "milvus"} \/ At(v, {"row", "progress"}, {"indexing", "ready"})
         => rows = {v.gen}
    /\ At(v, {"row", "progress"}, {"ready"}) => v.gen \in vectors

\* Executions that may be under way while the row says "ready".
Harmless(v) == \/ At(v, {"row"}, {"queued", "ready", "retrying", "failed"})
               \/ At(v, {"progress"}, {"ready"})
               \/ v.pc = "notify"

Indexed(rows, vectors) == \E g \in vectors : rows = {g}

Alone ==
    \A d \in Docs : ~overlapped[d] =>
        \A v, w \in Workers : WorksOn(v, d) /\ WorksOn(w, d) => v = w

DeletersOnly ==
    \A q \in Requests : request[q].pc \in DeletePc => request[q].op = "delete"

GenerationInHand ==
    \A d \in Docs, w \in Workers :
        Clean(d) /\ WorksOn(w, d) => HoldsGeneration(worker[w], chunks[d], milvus[d])

ReadyIsStable ==
    \A d \in Docs : Clean(d) /\ row[d] = "ready" =>
        /\ Indexed(chunks[d], milvus[d])
        /\ \A w \in Workers : WorksOn(w, d) => Harmless(worker[w])

IndexInv == TypeOK /\ Alone /\ DeletersOnly /\ GenerationInHand /\ ReadyIsStable

LEMMA IndexInit == Init => IndexInv
<1> SUFFICES ASSUME Init PROVE IndexInv
  OBVIOUS
<1>1. \A w \in Workers, d \in Docs : ~WorksOn(w, d)
  BY DEF Init, IdleWorker, WorksOn, Active
<1>2. DeletersOnly
  BY DEF Init, NoRequest, DeletersOnly, DeletePc
<1>3. \A d \in Docs : row[d] # "ready"
  BY DEF Init
<1> QED BY <1>1, <1>2, <1>3, TypeInit DEF IndexInv, Alone, GenerationInHand, ReadyIsStable

\* Steps of the requests: they never move a worker, never write "ready", and
\* touch the chunk rows and the vectors only on behalf of a delete.
LEMMA RequestFrame ==
    ASSUME IndexInv, TypeOK', DeletersOnly',
           worker' = worker, overlapped' = overlapped,
           \A d \in Docs : DeleteRequested(d) => DeleteRequested(d)',
           \A d \in Docs : ~DeleteRequested(d)' =>
               /\ chunks'[d] = chunks[d] /\ milvus'[d] = milvus[d]
               /\ row'[d] = "ready" => row[d] = "ready"
    PROVE  IndexInv'
<1>1. \A d \in Docs : Clean(d)' => Clean(d)
  BY DEF Clean
<1>2. \A d \in Docs, w \in Workers : WorksOn(w, d)' <=> WorksOn(w, d)
  BY DEF WorksOn, Active, DocOf
<1>3. Alone'
  BY <1>2 DEF IndexInv, Alone
<1>4. GenerationInHand'
  BY <1>1, <1>2 DEF IndexInv, GenerationInHand, Clean
<1>5. ReadyIsStable'
  BY <1>1, <1>2 DEF IndexInv, ReadyIsStable, Clean
<1> QED BY <1>3, <1>4, <1>5 DEF IndexInv

\* A step of worker w that keeps its message, or ends it.
LEMMA WorkerFrame ==
    ASSUME IndexInv, TypeOK', NEW w \in Workers, Active(w), NEW v,
           Become(w, v), v.pc # "idle" => v.msg = worker[w].msg,
           request' = request, overlapped' = overlapped,
           \A d \in Docs : d # DocOf(w) =>
               /\ chunks'[d] = chunks[d] /\ milvus'[d] = milvus[d]
               /\ row'[d] = row[d],
           Clean(DocOf(w)) /\ v.pc # "idle" =>
               HoldsGeneration(v, chunks'[DocOf(w)], milvus'[DocOf(w)]),
           Clean(DocOf(w)) /\ row'[DocOf(w)] = "ready" =>
               /\ Indexed(chunks'[DocOf(w)], milvus'[DocOf(w)])
               /\ v.pc # "idle" => Harmless(v)
    PROVE  IndexInv'
<1>1. \A u \in Workers : worker'[u] = IF u = w THEN v ELSE worker[u]
  BY DEF IndexInv, TypeOK, WorkersOK, Become
<1>2. \A d \in Docs : Clean(d)' <=> Clean(d)
  BY DEF Clean, DeleteRequested
<1>3. \A d \in Docs, u \in Workers : WorksOn(u, d)' => WorksOn(u, d)
  BY <1>1 DEF WorksOn, Active, DocOf
<1>4. DeletersOnly'
  BY DEF IndexInv, DeletersOnly
<1>5. Alone'
  BY <1>3 DEF IndexInv, Alone
<1>6. GenerationInHand'
  <2> SUFFICES ASSUME NEW d \in Docs, NEW u \in Workers, Clean(d)', WorksOn(u, d)'
               PROVE  HoldsGeneration(worker'[u], chunks'[d], milvus'[d])
    BY DEF GenerationInHand
  <2>1. Clean(d) /\ WorksOn(u, d)
    BY <1>2, <1>3
  <2>2. CASE d = DocOf(w)
    <3>1. u = w
      BY <2>1, <2>2 DEF IndexInv, Alone, Clean, WorksOn
    <3>2. worker'[u] = v /\ v.pc # "idle"
      BY <1>1, <3>1 DEF WorksOn, Active
    <3> QED BY <2>1, <2>2, <3>2
  <2>3. CASE d # DocOf(w)
    <3>1. u # w
      BY <2>1, <2>3 DEF WorksOn
    <3> QED BY <1>1, <2>1, <2>3, <3>1 DEF IndexInv, GenerationInHand
  <2> QED BY <2>2, <2>3
<1>7. ReadyIsStable'
  <2> SUFFICES ASSUME NEW d \in Docs, Clean(d)', row'[d] = "ready"
               PROVE  /\ Indexed(chunks'[d], milvus'[d])
                      /\ \A u \in Workers : WorksOn(u, d)' => Harmless(worker'[u])
    BY DEF ReadyIsStable
  <2>1. Clean(d)
    BY <1>2
  <2>2. CASE d = DocOf(w)
    <3>1. ASSUME NEW u \in Workers, WorksOn(u, d)' PROVE Harmless(worker'[u])
      <4>1. u = w
        BY <1>3, <2>1, <2>2, <3>1 DEF IndexInv, Alone, Clean, WorksOn
      <4>2. worker'[u] = v /\ v.pc # "idle"
        BY <1>1, <3>1, <4>1 DEF WorksOn, Active
      <4> QED BY <2>1, <2>2, <4>2
    <3> QED BY <2>1, <2>2, <3>1
  <2>3. CASE d # DocOf(w)
    <3>1. ASSUME NEW u \in Workers, WorksOn(u, d)' PROVE Harmless(worker'[u])
      <4>1. u # w
        BY <1>3, <2>3, <3>1 DEF WorksOn
      <4> QED BY <1>1, <1>3, <2>1, <2>3, <3>1, <4>1 DEF IndexInv, ReadyIsStable
    <3> QED BY <2>1, <2>3, <3>1 DEF IndexInv, ReadyIsStable
  <2> QED BY <2>2, <2>3
<1> QED BY <1>4, <1>5, <1>6, <1>7 DEF IndexInv

KeepsDeletes == /\ DeletersOnly'
                /\ \A d \in Docs : DeleteRequested(d) => DeleteRequested(d)'

\* One request changes its record: a delete remains the delete it is.
LEMMA RecordKeepsDeletes ==
    ASSUME DeletersOnly, NEW q \in Requests, NEW b,
           \A r \in Requests : request'[r] = IF r = q THEN b ELSE request[r],
           request[q].op = "delete" => b.op = "delete" /\ b.doc = request[q].doc,
           b.pc \in DeletePc => b.op = "delete"
    PROVE  KeepsDeletes
  BY DEF KeepsDeletes, DeletersOnly, DeleteRequested

LEMMA GotoKeepsDeletes ==
    ASSUME RequestsOK, DeletersOnly, NEW q \in Requests, NEW pc, Goto(q, pc),
           pc \in DeletePc => request[q].op = "delete"
    PROVE  KeepsDeletes
<1> DEFINE b == [request[q] EXCEPT !.pc = pc]
<1>1. \A r \in Requests : request'[r] = IF r = q THEN b ELSE request[r]
  BY DEF Goto, RequestsOK
<1>2. b.op = request[q].op /\ b.doc = request[q].doc /\ b.pc = pc
  BY DEF RequestsOK, Request
<1> HIDE DEF b
<1> QED BY <1>1, <1>2, RecordKeepsDeletes

LEMMA EndKeepsDeletes ==
    ASSUME RequestsOK, DeletersOnly, NEW q \in Requests, NEW pc \in {"done", "aborted"},
           End(q, pc)
    PROVE  KeepsDeletes
<1> DEFINE b == [request[q] EXCEPT !.pc = pc, !.loaded = "absent", !.seen = {}]
<1>1. \A r \in Requests : request'[r] = IF r = q THEN b ELSE request[r]
  BY DEF End, RequestsOK
<1>2. b.op = request[q].op /\ b.doc = request[q].doc /\ b.pc = pc
  BY DEF RequestsOK, Request
<1>3. pc \notin DeletePc
  BY DEF DeletePc
<1> HIDE DEF b
<1> QED BY <1>1, <1>2, <1>3, RecordKeepsDeletes

LEMMA ArriveKeepsIndexInv ==
    ASSUME IndexInv, NEW q \in Requests, Arrive(q)
    PROVE  IndexInv'
<1>0. TypeOK /\ TypeOK' /\ RequestsOK /\ DeletersOnly
  BY TypeArrive DEF IndexInv, TypeOK
<1>1. request[q].op = "none" /\ worker' = worker /\ overlapped' = overlapped
  BY <1>0 DEF Arrive, BeginUpload, BeginRetry, BeginDelete, RequestsOK
<1>2. chunks' = chunks /\ milvus' = milvus /\ row' = row
  BY DEF Arrive, BeginUpload, BeginRetry, BeginDelete, indexes
<1>3. PICK b : /\ request' = [request EXCEPT ![q] = b]
               /\ b.pc \in DeletePc => b.op = "delete"
  <2>1. ASSUME NEW d \in Docs, BeginUpload(q, d)
        PROVE  \E b : /\ request' = [request EXCEPT ![q] = b]
                      /\ b.pc \in DeletePc => b.op = "delete"
    <3> DEFINE b == [NoRequest EXCEPT !.pc = "dispatch", !.op = "upload", !.doc = d]
    <3>1. b.pc \notin DeletePc
      BY DEF NoRequest, DeletePc
    <3>2. request' = [request EXCEPT ![q] = b]
      BY <2>1 DEF BeginUpload
    <3> HIDE DEF b
    <3> QED BY <3>1, <3>2
  <2>2. ASSUME NEW d \in Docs, BeginRetry(q, d)
        PROVE  \E b : /\ request' = [request EXCEPT ![q] = b]
                      /\ b.pc \in DeletePc => b.op = "delete"
    <3> DEFINE b == [NoRequest EXCEPT !.pc = "dispatch", !.op = "retry", !.doc = d,
                                      !.loaded = row[d]]
    <3>1. b.pc \notin DeletePc
      BY DEF NoRequest, DeletePc
    <3>2. request' = [request EXCEPT ![q] = b]
      BY <2>2 DEF BeginRetry
    <3> HIDE DEF b
    <3> QED BY <3>1, <3>2
  <2>3. ASSUME NEW d \in Docs, BeginDelete(q, d)
        PROVE  \E b : /\ request' = [request EXCEPT ![q] = b]
                      /\ b.pc \in DeletePc => b.op = "delete"
    <3> DEFINE b == [NoRequest EXCEPT !.pc = "object", !.op = "delete", !.doc = d,
                                      !.seen = chunks[d]]
    <3>1. b.op = "delete"
      BY DEF NoRequest
    <3>2. request' = [request EXCEPT ![q] = b]
      BY <2>3 DEF BeginDelete
    <3> HIDE DEF b
    <3> QED BY <3>1, <3>2
  <2> QED BY <2>1, <2>2, <2>3 DEF Arrive
<1>4. \A r \in Requests : request'[r] = IF r = q THEN b ELSE request[r]
  BY <1>0, <1>3 DEF RequestsOK
<1>5. KeepsDeletes
  BY <1>0, <1>1, <1>3, <1>4, RecordKeepsDeletes
<1> QED BY <1>0, <1>1, <1>2, <1>5, RequestFrame DEF KeepsDeletes

LEMMA HandleKeepsIndexInv ==
    ASSUME IndexInv, NEW q \in Requests, Handle(q)
    PROVE  IndexInv'
<1>0. /\ TypeOK /\ TypeOK' /\ RequestsOK /\ StoresOK /\ DeletersOnly
      /\ worker' = worker /\ overlapped' = overlapped
  BY TypeHandle DEF IndexInv, TypeOK, Handle, Dispatch, AnnounceQueued, RecordPending,
     CommitUpload, CommitRetry, RemoveObject, DropMilvus, DropEs, ClearProgress,
     CommitDelete, Abort
<1>00. DeletersOnly'
    /\ \A d \in Docs : DeleteRequested(d) => DeleteRequested(d)'
  <2>1. CASE Dispatch(q)
    <3>1. PICK t \in Tasks : request' = [request EXCEPT ![q] =
            [request[q] EXCEPT !.task = t,
               !.pc = IF request[q].op = "upload" THEN "progress" ELSE "record"]]
      BY <2>1 DEF Dispatch
    <3> DEFINE b == [request[q] EXCEPT !.task = t,
               !.pc = IF request[q].op = "upload" THEN "progress" ELSE "record"]
    <3>2. \A r \in Requests : request'[r] = IF r = q THEN b ELSE request[r]
      BY <1>0, <3>1 DEF RequestsOK
    <3>3. b.op = request[q].op /\ b.doc = request[q].doc /\ b.pc \notin DeletePc
      BY <1>0 DEF RequestsOK, Request, DeletePc
    <3> HIDE DEF b
    <3> QED BY <1>0, <3>2, <3>3, RecordKeepsDeletes DEF KeepsDeletes
  <2>2. CASE AnnounceQueued(q) \/ RecordPending(q) \/ RemoveObject(q) \/ DropMilvus(q)
               \/ DropEs(q) \/ ClearProgress(q)
    <3>1. PICK pc : Goto(q, pc) /\ (pc \in DeletePc => request[q].pc \in DeletePc)
      BY <2>2 DEF AnnounceQueued, RecordPending, RemoveObject, DropMilvus, DropEs,
         ClearProgress, DeletePc
    <3>2. pc \in DeletePc => request[q].op = "delete"
      BY <1>0, <3>1 DEF DeletersOnly
    <3> QED BY <1>0, <3>1, <3>2, GotoKeepsDeletes DEF KeepsDeletes
  <2>3. CASE CommitUpload(q) \/ CommitRetry(q) \/ CommitDelete(q) \/ Abort(q)
    <3>1. End(q, "done") \/ End(q, "aborted")
      BY <2>3 DEF CommitUpload, CommitRetry, CommitDelete, Abort
    <3> QED BY <1>0, <3>1, EndKeepsDeletes DEF KeepsDeletes
  <2> QED BY <2>1, <2>2, <2>3 DEF Handle
<1>1. CASE CommitUpload(q) \/ CommitRetry(q)
  <2>1. /\ chunks' = chunks /\ milvus' = milvus
        /\ \A d \in Docs : row'[d] = "ready" => row[d] = "ready"
    BY <1>0, <1>1 DEF CommitUpload, CommitRetry, StoresOK, indexes
  <2> QED BY <1>0, <1>00, <2>1, RequestFrame
<1>2. CASE DropMilvus(q) \/ CommitDelete(q)
  <2>1. request[q].op = "delete"
    BY <1>0, <1>2 DEF DropMilvus, CommitDelete, DeletersOnly, DeletePc
  <2>2. DeleteRequested(request[q].doc)
    BY <2>1 DEF DeleteRequested
  <2>3. \A d \in Docs : ~DeleteRequested(d)' => d # request[q].doc
    BY <1>00, <2>2
  <2>4. \A d \in Docs : d # request[q].doc =>
          chunks'[d] = chunks[d] /\ milvus'[d] = milvus[d] /\ row'[d] = row[d]
    BY <1>0, <1>2 DEF DropMilvus, CommitDelete, StoresOK, indexes
  <2> QED BY <1>0, <1>00, <2>3, <2>4, RequestFrame
<1>3. CASE \/ Dispatch(q) \/ AnnounceQueued(q) \/ RecordPending(q) \/ RemoveObject(q)
           \/ DropEs(q) \/ ClearProgress(q) \/ Abort(q)
  <2>1. chunks' = chunks /\ milvus' = milvus /\ row' = row
    BY <1>3 DEF Dispatch, AnnounceQueued, RecordPending, RemoveObject, DropEs,
       ClearProgress, Abort, indexes
  <2> QED BY <1>0, <1>00, <2>1, RequestFrame
<1> QED BY <1>1, <1>2, <1>3 DEF Handle

LEMMA ProcessKeepsIndexInv ==
    ASSUME IndexInv, NEW w \in Workers, Active(w), Process(w)
    PROVE  IndexInv'
<1> DEFINE d == DocOf(w)
<1>0. /\ TypeOK /\ StoresOK /\ worker[w] \in Worker /\ worker[w].pc # "idle"
      /\ worker[w].msg \in Message /\ d \in Docs /\ WorksOn(w, d)
      /\ worker[w].stage \in Status /\ worker[w].gen \in Nat
  BY DEF IndexInv, TypeOK, WorkersOK, Worker, Active, Message, DocOf, WorksOn
<1>00. TypeOK'
  BY <1>0, TypeProcess
<1>000. Clean(d) => /\ HoldsGeneration(worker[w], chunks[d], milvus[d])
                    /\ row[d] = "ready" => /\ Harmless(worker[w])
                                           /\ Indexed(chunks[d], milvus[d])
  BY <1>0 DEF IndexInv, GenerationInHand, ReadyIsStable
<1>1. CASE WriteRow(w)
  <2> DEFINE v == [worker[w] EXCEPT !.pc = "progress", !.stage = worker[w].stage]
  <2>1. /\ v.pc = "progress" /\ v.stage = worker[w].stage /\ v.msg = worker[w].msg
        /\ v.gen = worker[w].gen
    BY <1>0 DEF Worker
  <2>2. Become(w, v) /\ worker[w].pc = "row" /\ row' = RowWith(d, worker[w].stage)
        /\ chunks' = chunks /\ milvus' = milvus
        /\ request' = request /\ overlapped' = overlapped
    BY <1>1 DEF WriteRow, Enter, indexes
  <2>3. /\ \A e \in Docs : e # d => row'[e] = row[e]
        /\ row'[d] = "ready" => worker[w].stage = "ready"
    BY <1>0, <2>2 DEF RowWith, StoresOK
  <2>4. Clean(d) => HoldsGeneration(v, chunks[d], milvus[d])
    BY <1>000, <2>1, <2>2 DEF HoldsGeneration, At
  <2>5. Clean(d) /\ row'[d] = "ready" => Indexed(chunks[d], milvus[d]) /\ Harmless(v)
    BY <1>000, <2>1, <2>2, <2>3 DEF HoldsGeneration, At, Harmless, Indexed
  <2> HIDE DEF v
  <2> QED BY <1>00, <2>1, <2>2, <2>3, <2>4, <2>5, WorkerFrame
<1>2. CASE WriteProgress(w)
  <2> DEFINE next == Work(worker[w].stage)
             v == [worker[w] EXCEPT !.pc = next.pc, !.stage = next.stage]
  <2>1. /\ v.pc = next.pc /\ v.stage = next.stage /\ v.msg = worker[w].msg
        /\ v.gen = worker[w].gen /\ v.seen = worker[w].seen
    BY <1>0 DEF Worker
  <2>2. /\ Become(w, v) /\ worker[w].pc = "progress" /\ row' = row
        /\ chunks' = chunks /\ milvus' = milvus
        /\ request' = request /\ overlapped' = overlapped
    BY <1>2 DEF WriteProgress, Enter, indexes
  <2>3. /\ next.pc # "store" /\ next.pc # "milvus" /\ next.pc # "progress"
        /\ next.pc = "es" => worker[w].stage = "indexing"
        /\ next.pc = "row" => next.stage = "parsing"
        /\ worker[w].stage = "ready" => next.pc = "notify"
    BY <1>0 DEF Work, Status, Stage, Terminal
  <2>4. Clean(d) => HoldsGeneration(v, chunks[d], milvus[d])
    BY <1>000, <2>1, <2>2, <2>3 DEF HoldsGeneration, At
  <2>5. Clean(d) /\ row'[d] = "ready" => Indexed(chunks[d], milvus[d]) /\ Harmless(v)
    BY <1>000, <2>1, <2>2, <2>3 DEF At, Harmless
  <2> HIDE DEF v, next
  <2> QED BY <1>00, <2>1, <2>2, <2>4, <2>5, WorkerFrame
<1>3. CASE Fetch(w)
  <2> DEFINE v == [worker[w] EXCEPT !.pc = "row", !.stage = "chunking"]
  <2>1. v.pc = "row" /\ v.stage = "chunking" /\ v.msg = worker[w].msg
    BY <1>0 DEF Worker
  <2>2. /\ Become(w, v) /\ worker[w].pc = "fetch" /\ row' = row
        /\ chunks' = chunks /\ milvus' = milvus
        /\ request' = request /\ overlapped' = overlapped
    BY <1>3 DEF Fetch, Enter, indexes
  <2>3. Clean(d) => HoldsGeneration(v, chunks[d], milvus[d]) /\ row[d] # "ready"
    BY <1>000, <2>1, <2>2 DEF HoldsGeneration, At, Harmless
  <2> HIDE DEF v
  <2> QED BY <1>00, <2>1, <2>2, <2>3, WorkerFrame
<1>4. CASE ProcessBatches(w)
  <2>0. PICK failed \in BOOLEAN :
          Become(w, [worker[w] EXCEPT !.pc = "purge", !.gen = lastGen + 1,
                                      !.degraded = failed])
    BY <1>4 DEF ProcessBatches
  <2> DEFINE v == [worker[w] EXCEPT !.pc = "purge", !.gen = lastGen + 1,
                                    !.degraded = failed]
  <2>1. v.pc = "purge" /\ v.msg = worker[w].msg
    BY <1>0 DEF Worker
  <2>2. /\ Become(w, v) /\ worker[w].pc = "batches" /\ row' = row
        /\ chunks' = chunks /\ milvus' = milvus
        /\ request' = request /\ overlapped' = overlapped
    BY <1>4, <2>0 DEF ProcessBatches, indexes
  <2>3. Clean(d) => HoldsGeneration(v, chunks[d], milvus[d]) /\ row[d] # "ready"
    BY <1>000, <2>1, <2>2 DEF HoldsGeneration, At, Harmless
  <2> HIDE DEF v
  <2> QED BY <1>00, <2>1, <2>2, <2>3, WorkerFrame
<1>5. CASE PurgeChunks(w)
  <2> DEFINE v == [worker[w] EXCEPT !.pc = "store", !.seen = chunks[d]]
  <2>1. v.pc = "store" /\ v.msg = worker[w].msg /\ v.seen = chunks[d]
    BY <1>0 DEF Worker
  <2>2. /\ Become(w, v) /\ worker[w].pc = "purge" /\ row' = row
        /\ chunks' = chunks /\ milvus' = milvus
        /\ request' = request /\ overlapped' = overlapped
    BY <1>5 DEF PurgeChunks, indexes
  <2>3. Clean(d) => HoldsGeneration(v, chunks[d], milvus[d]) /\ row[d] # "ready"
    BY <1>000, <2>1, <2>2 DEF HoldsGeneration, At, Harmless
  <2> HIDE DEF v
  <2> QED BY <1>00, <2>1, <2>2, <2>3, WorkerFrame
<1>6. CASE StoreChunks(w)
  <2> DEFINE v == [worker[w] EXCEPT !.pc = "row", !.stage = "indexing", !.seen = {}]
  <2>1. /\ v.pc = "row" /\ v.stage = "indexing" /\ v.msg = worker[w].msg
        /\ v.gen = worker[w].gen
    BY <1>0 DEF Worker
  <2>2. /\ Become(w, v) /\ worker[w].pc = "store" /\ row' = row /\ milvus' = milvus
        /\ chunks' = [chunks EXCEPT ![d] = (chunks[d] \ worker[w].seen)
                                              \union {worker[w].gen}]
        /\ request' = request /\ overlapped' = overlapped
    BY <1>6 DEF StoreChunks, indexes
  <2>3. /\ \A e \in Docs : e # d => chunks'[e] = chunks[e]
        /\ chunks'[d] = (chunks[d] \ worker[w].seen) \union {worker[w].gen}
    BY <1>0, <2>2 DEF StoresOK
  <2>4. Clean(d) => chunks'[d] = {worker[w].gen} /\ row[d] # "ready"
    BY <1>000, <2>2, <2>3 DEF HoldsGeneration, Harmless, At
  <2>5. Clean(d) => HoldsGeneration(v, chunks'[d], milvus[d])
    BY <2>1, <2>4 DEF HoldsGeneration, At
  <2> HIDE DEF v
  <2> QED BY <1>00, <2>1, <2>2, <2>3, <2>4, <2>5, WorkerFrame
<1>7. CASE IndexEs(w)
  <2>0. PICK raised \in BOOLEAN :
          Become(w, [worker[w] EXCEPT !.pc = "milvus",
                                      !.degraded = worker[w].degraded \/ raised])
    BY <1>7 DEF IndexEs
  <2> DEFINE v == [worker[w] EXCEPT !.pc = "milvus",
                                    !.degraded = worker[w].degraded \/ raised]
  <2>1. v.pc = "milvus" /\ v.msg = worker[w].msg /\ v.gen = worker[w].gen
    BY <1>0 DEF Worker
  <2>2. /\ Become(w, v) /\ worker[w].pc = "es" /\ row' = row
        /\ chunks' = chunks /\ milvus' = milvus
        /\ request' = request /\ overlapped' = overlapped
    BY <1>7, <2>0 DEF IndexEs
  <2>3. Clean(d) => HoldsGeneration(v, chunks[d], milvus[d]) /\ row[d] # "ready"
    BY <1>000, <2>1, <2>2 DEF HoldsGeneration, At, Harmless
  <2> HIDE DEF v
  <2> QED BY <1>00, <2>1, <2>2, <2>3, WorkerFrame
<1>8. CASE IndexMilvus(w)
  <2> DEFINE indexed == [milvus EXCEPT ![d] = milvus[d] \union {worker[w].gen}]
  <2>0. PICK short \in BOOLEAN :
          /\ milvus' \in IF short THEN {milvus, indexed} ELSE {indexed}
          /\ Become(w, [worker[w] EXCEPT !.pc = "row",
                           !.degraded = worker[w].degraded \/ short,
                           !.stage = FinalStatus(worker[w].degraded \/ short)])
    BY <1>8 DEF IndexMilvus
  <2> DEFINE v == [worker[w] EXCEPT !.pc = "row",
                           !.degraded = worker[w].degraded \/ short,
                           !.stage = FinalStatus(worker[w].degraded \/ short)]
  <2>1. /\ v.pc = "row" /\ v.msg = worker[w].msg /\ v.gen = worker[w].gen
        /\ v.stage = FinalStatus(worker[w].degraded \/ short)
    BY <1>0 DEF Worker
  <2>2. /\ Become(w, v) /\ worker[w].pc = "milvus" /\ row' = row /\ chunks' = chunks
        /\ request' = request /\ overlapped' = overlapped
    BY <1>8, <2>0 DEF IndexMilvus
  <2>3. /\ \A e \in Docs : e # d => milvus'[e] = milvus[e]
        /\ ~short => worker[w].gen \in milvus'[d]
    BY <1>0, <2>0 DEF StoresOK
  <2>4. /\ v.stage # "indexing"
        /\ v.stage = "ready" => ~short
    BY <2>1 DEF FinalStatus
  <2>5. Clean(d) => HoldsGeneration(v, chunks[d], milvus'[d]) /\ row[d] # "ready"
    BY <1>000, <2>1, <2>2, <2>3, <2>4 DEF HoldsGeneration, At, Harmless
  <2> HIDE DEF v
  <2> QED BY <1>00, <2>1, <2>2, <2>3, <2>5, WorkerFrame
<1>9. CASE StepFails(w)
  <2> DEFINE s == IF HasRetry(worker[w].msg) THEN "retrying" ELSE "failed"
             v == [IdleWorker EXCEPT !.pc = "row", !.msg = worker[w].msg, !.stage = s]
  <2>1. v.pc = "row" /\ v.msg = worker[w].msg /\ v.stage = s
    BY DEF IdleWorker
  <2>2. /\ Become(w, v) /\ row' = row /\ chunks' = chunks /\ milvus' = milvus
        /\ request' = request /\ overlapped' = overlapped
    BY <1>9 DEF StepFails, indexes
  <2>3. HoldsGeneration(v, chunks[d], milvus[d]) /\ Harmless(v)
    BY <2>1 DEF HoldsGeneration, At, Harmless
  <2> HIDE DEF v
  <2> QED BY <1>00, <1>000, <2>1, <2>2, <2>3, WorkerFrame
<1>10. CASE Republish(w)
  <2> DEFINE v == [worker[w] EXCEPT !.pc = "ack", !.stage = "retrying"]
  <2>1. v.pc = "ack" /\ v.msg = worker[w].msg
    BY <1>0 DEF Worker
  <2>2. /\ Become(w, v) /\ worker[w].pc = "republish" /\ row' = row
        /\ chunks' = chunks /\ milvus' = milvus
        /\ request' = request /\ overlapped' = overlapped
    BY <1>10 DEF Republish, Enter, indexes
  <2>3. Clean(d) => HoldsGeneration(v, chunks[d], milvus[d]) /\ row[d] # "ready"
    BY <1>000, <2>1, <2>2 DEF HoldsGeneration, At, Harmless
  <2> HIDE DEF v
  <2> QED BY <1>00, <2>1, <2>2, <2>3, WorkerFrame
<1>11. CASE Acknowledge(w)
  <2>1. /\ Become(w, IdleWorker) /\ row' = row /\ chunks' = chunks /\ milvus' = milvus
        /\ request' = request /\ overlapped' = overlapped
    BY <1>11 DEF Acknowledge, indexes
  <2>2. IdleWorker.pc = "idle"
    BY DEF IdleWorker
  <2> QED BY <1>00, <1>000, <2>1, <2>2, WorkerFrame
<1> QED
  BY <1>1, <1>2, <1>3, <1>4, <1>5, <1>6, <1>7, <1>8, <1>9, <1>10, <1>11 DEF Process

LEMMA WorkerKeepsIndexInv ==
    ASSUME IndexInv, NEW w \in Workers, WorkerStep(w)
    PROVE  IndexInv'
<1>0. TypeOK /\ TypeOK' /\ StoresOK /\ WorkersOK
  BY TypeWorker DEF IndexInv, TypeOK
<1>1. CASE Take(w)
  <2>1. PICK m \in Message :
          /\ Become(w, [IdleWorker EXCEPT !.pc = "row", !.msg = m])
          /\ overlapped' = [overlapped EXCEPT ![m.doc] =
                              overlapped[m.doc] \/ \E v \in Workers : WorksOn(v, m.doc)]
    BY <1>1 DEF Take
  <2> DEFINE v == [IdleWorker EXCEPT !.pc = "row", !.msg = m]
  <2>2. v.pc = "row" /\ v.stage = "queued" /\ v.msg = m /\ m.doc \in Docs
    BY DEF IdleWorker, Message
  <2>3. /\ worker[w].pc = "idle" /\ row' = row /\ chunks' = chunks /\ milvus' = milvus
        /\ request' = request
    BY <1>1 DEF Take, indexes
  <2>4. \A u \in Workers : worker'[u] = IF u = w THEN v ELSE worker[u]
    BY <1>0, <2>1 DEF Become, WorkersOK
  <2> HIDE DEF v
  <2>5. \A d \in Docs, u \in Workers :
          WorksOn(u, d)' <=> WorksOn(u, d) \/ (u = w /\ d = m.doc)
    BY <2>2, <2>3, <2>4 DEF WorksOn, Active, DocOf
  <2>6. \A d \in Docs :
          /\ ~overlapped'[d] => ~overlapped[d]
          /\ ~overlapped'[m.doc] => \A u \in Workers : ~WorksOn(u, m.doc)
    BY <1>0, <2>1, <2>2 DEF StoresOK
  <2>7. \A d \in Docs : Clean(d)' => Clean(d)
    BY <2>3, <2>6 DEF Clean, DeleteRequested
  <2>8. Alone'
    BY <2>5, <2>6 DEF IndexInv, Alone
  <2>9. DeletersOnly'
    BY <2>3 DEF IndexInv, DeletersOnly
  <2>10. \A rows, vectors : HoldsGeneration(v, rows, vectors) /\ Harmless(v)
    BY <2>2 DEF HoldsGeneration, Harmless, At
  <2>11. GenerationInHand'
    BY <2>3, <2>4, <2>5, <2>7, <2>10 DEF IndexInv, GenerationInHand, WorksOn, Active
  <2>12. ReadyIsStable'
    BY <2>3, <2>4, <2>5, <2>7, <2>10 DEF IndexInv, ReadyIsStable, WorksOn, Active
  <2> QED BY <1>0, <2>8, <2>9, <2>11, <2>12 DEF IndexInv
<1>2. CASE Process(w)
  <2>1. Active(w)
    BY <1>2 DEF Process, WriteRow, WriteProgress, Fetch, ProcessBatches, PurgeChunks,
            StoreChunks, IndexEs, IndexMilvus, StepFails, Republish, Acknowledge, Active
  <2> QED BY <1>2, <2>1, ProcessKeepsIndexInv
<1>3. CASE Kill(w) \/ Crash(w)
  <2>1. /\ Active(w) /\ Become(w, IdleWorker) /\ row' = row /\ chunks' = chunks
        /\ milvus' = milvus /\ request' = request /\ overlapped' = overlapped
    BY <1>3 DEF Kill, Crash, indexes
  <2>2. IdleWorker.pc = "idle"
    BY DEF IdleWorker
  <2>3. Clean(DocOf(w)) /\ row[DocOf(w)] = "ready"
          => Indexed(chunks[DocOf(w)], milvus[DocOf(w)])
    <3>1. DocOf(w) \in Docs
      BY <1>0, <2>1 DEF WorkersOK, Active, DocOf, Message
    <3> QED BY <3>1 DEF IndexInv, ReadyIsStable
  <2> QED BY <1>0, <2>1, <2>2, <2>3, WorkerFrame
<1> QED BY <1>1, <1>2, <1>3 DEF WorkerStep

LEMMA IndexStep == IndexInv /\ [Next]_vars => IndexInv'
<1>1. IndexInv /\ UNCHANGED vars => IndexInv'
  <2> SUFFICES ASSUME IndexInv, UNCHANGED vars PROVE IndexInv'
    OBVIOUS
  <2>1. TypeOK'
    BY TypeStep DEF IndexInv
  <2>2. DeletersOnly' /\ worker' = worker /\ overlapped' = overlapped
        /\ request' = request /\ chunks' = chunks /\ milvus' = milvus /\ row' = row
    BY DEF IndexInv, DeletersOnly, vars
  <2>3. \A d \in Docs : DeleteRequested(d) => DeleteRequested(d)'
    BY <2>2 DEF DeleteRequested
  <2> QED BY <2>1, <2>2, <2>3, RequestFrame
<1> QED BY <1>1, ArriveKeepsIndexInv, HandleKeepsIndexInv, WorkerKeepsIndexInv
        DEF Next, RequestStep

\* A "ready" document that no two executions worked on at once and that nobody
\* asked to delete has exactly one generation of chunk rows, and Milvus has it:
\* for any number of requests, workers, retries, crashes, kills and outages.
THEOREM ReadyIndexed == Spec => []ReadyIsIndexed
<1>1. IndexInv => ReadyIsIndexed
  BY DEF IndexInv, ReadyIsStable, ReadyIsIndexed, Clean, Indexed
<1> QED BY IndexInit, IndexStep, <1>1, PTL DEF Spec

----------------------------------------------------------------------------
\* One copy of a task.

\* A task is in use once a request has dispatched it.
Dispatched(t) == \E r \in Requests : /\ request[r].pc \notin {"idle", "dispatch"}
                                     /\ request[r].task = t

\* Fresh task ids are fresh for the broker and for the workers too.
CopiesAreDispatched ==
    /\ \A m \in Message : queue[m] > 0 => Dispatched(m.task)
    /\ \A w \in Workers : Active(w) => Dispatched(TaskOf(w))

CopyInv == TypeOK /\ CopiesAreDispatched /\ OneCopyPerTask

LEMMA CopyInit == Init => CopyInv
<1> SUFFICES ASSUME Init PROVE CopyInv
  OBVIOUS
<1>1. /\ \A w \in Workers : ~Active(w) /\ \A t \in Tasks : ~Holds(w, t)
      /\ \A m \in Message : queue[m] = 0 /\ ~(queue[m] > 0)
  BY DEF Init, IdleWorker, Active, Holds
<1>2. CopiesAreDispatched
  BY <1>1 DEF CopiesAreDispatched
<1>3. OneCopyPerTask
  BY <1>1 DEF OneCopyPerTask, Waiting
<1> QED BY <1>2, <1>3, TypeInit DEF CopyInv

\* A request that has dispatched a task keeps it.
LEMMA RecordKeepsDispatched ==
    ASSUME NEW q \in Requests, NEW b,
           \A r \in Requests : request'[r] = IF r = q THEN b ELSE request[r],
           request[q].pc \notin {"idle", "dispatch"} =>
               b.task = request[q].task /\ b.pc \notin {"idle", "dispatch"}
    PROVE  \A t \in Tasks : Dispatched(t) => Dispatched(t)'
  BY DEF Dispatched

LEMMA RequestKeepsDispatched ==
    ASSUME TypeOK, NEW q \in Requests, RequestStep(q)
    PROVE  \A t \in Tasks : Dispatched(t) => Dispatched(t)'
<1>0. RequestsOK
  BY DEF TypeOK
<1>1. CASE Arrive(q)
  <2>1. request[q].pc = "idle" /\ \E b : request' = [request EXCEPT ![q] = b]
    BY <1>1 DEF Arrive, BeginUpload, BeginRetry, BeginDelete
  <2>2. PICK b : \A r \in Requests : request'[r] = IF r = q THEN b ELSE request[r]
    BY <1>0, <2>1 DEF RequestsOK
  <2> QED BY <2>1, <2>2, RecordKeepsDispatched
<1>2. CASE Dispatch(q)
  <2>1. request[q].pc = "dispatch" /\ \E b : request' = [request EXCEPT ![q] = b]
    BY <1>2 DEF Dispatch
  <2>2. PICK b : \A r \in Requests : request'[r] = IF r = q THEN b ELSE request[r]
    BY <1>0, <2>1 DEF RequestsOK
  <2> QED BY <2>1, <2>2, RecordKeepsDispatched
<1>3. CASE \/ AnnounceQueued(q) \/ RecordPending(q) \/ RemoveObject(q) \/ DropMilvus(q)
           \/ DropEs(q) \/ ClearProgress(q)
  <2>1. PICK pc \in {"record", "commit", "milvus", "es", "redis"} : Goto(q, pc)
    BY <1>3 DEF AnnounceQueued, RecordPending, RemoveObject, DropMilvus, DropEs,
       ClearProgress
  <2> DEFINE b == [request[q] EXCEPT !.pc = pc]
  <2>2. b.pc = pc /\ b.task = request[q].task
    BY <1>0 DEF RequestsOK, Request
  <2>3. \A r \in Requests : request'[r] = IF r = q THEN b ELSE request[r]
    BY <1>0, <2>1 DEF Goto, RequestsOK
  <2> HIDE DEF b
  <2> QED BY <2>2, <2>3, RecordKeepsDispatched
<1>4. CASE CommitUpload(q) \/ CommitRetry(q) \/ CommitDelete(q) \/ Abort(q)
  <2>1. PICK pc \in {"done", "aborted"} : End(q, pc)
    BY <1>4 DEF CommitUpload, CommitRetry, CommitDelete, Abort
  <2> DEFINE b == [request[q] EXCEPT !.pc = pc, !.loaded = "absent", !.seen = {}]
  <2>2. b.pc = pc /\ b.task = request[q].task
    BY <1>0 DEF RequestsOK, Request
  <2>3. \A r \in Requests : request'[r] = IF r = q THEN b ELSE request[r]
    BY <1>0, <2>1 DEF End, RequestsOK
  <2> HIDE DEF b
  <2> QED BY <2>2, <2>3, RecordKeepsDispatched
<1> QED BY <1>1, <1>2, <1>3, <1>4 DEF RequestStep, Handle

LEMMA RequestKeepsCopyInv ==
    ASSUME CopyInv, NEW q \in Requests, RequestStep(q)
    PROVE  CopyInv'
<1>0. /\ TypeOK /\ TypeOK' /\ RequestsOK /\ StoresOK
      /\ \A t \in Tasks : Dispatched(t) => Dispatched(t)'
  BY TypeArrive, TypeHandle, RequestKeepsDispatched DEF CopyInv, TypeOK, RequestStep
<1>1. worker' = worker /\ crashes' = crashes
  BY DEF RequestStep, Arrive, BeginUpload, BeginRetry, BeginDelete, Handle, Dispatch,
     AnnounceQueued, RecordPending, CommitUpload, CommitRetry, RemoveObject, DropMilvus,
     DropEs, ClearProgress, CommitDelete, Abort, faults
<1>2. \A w \in Workers : /\ Active(w)' <=> Active(w)
                         /\ Active(w) => TaskOf(w) \in Tasks /\ TaskOf(w)' = TaskOf(w)
                         /\ \A t \in Tasks : Holds(w, t)' <=> Holds(w, t)
  BY <1>0, <1>1 DEF Active, TaskOf, Holds, TypeOK, WorkersOK, Message
<1>3. CASE Dispatch(q)
  <2>1. PICK t \in Tasks :
          /\ \A r \in Requests : request[r].task # t
          /\ queue' = [queue EXCEPT ![[task |-> t, doc |-> request[q].doc,
                                       retries |-> 0]] = @ + 1]
          /\ request' = [request EXCEPT ![q] = [request[q] EXCEPT !.task = t,
                !.pc = IF request[q].op = "upload" THEN "progress" ELSE "record"]]
    BY <1>3 DEF Dispatch
  <2> DEFINE n == [task |-> t, doc |-> request[q].doc, retries |-> 0]
  <2>2. n \in Message
    <3>1. request[q].doc \in Docs
      BY <1>0, <1>3 DEF Dispatch, RequestsOK
    <3> QED BY <3>1, MaxRetriesAssumption DEF Message, MaxRetriesAssumption
  <2>3. n.task = t
    OBVIOUS
  <2>4. ~Dispatched(t) /\ Dispatched(t)'
    <3>1. request'[q].task = t /\ request'[q].pc \notin {"idle", "dispatch"}
      BY <1>0, <2>1 DEF RequestsOK, Request
    <3> QED BY <2>1, <3>1 DEF Dispatched
  <2>5. \A m \in Message : queue'[m] = IF m = n THEN queue[m] + 1 ELSE queue[m]
    BY <1>0, <2>1, <2>2 DEF StoresOK
  <2> HIDE DEF n
  <2>6. /\ \A m \in Message : m.task = t => queue[m] = 0
        /\ \A w \in Workers : ~Holds(w, t)
    <3>1. \A m \in Message : queue[m] \in Nat
      BY <1>0 DEF StoresOK
    <3> QED BY <2>4, <3>1 DEF CopyInv, CopiesAreDispatched, Holds, Active
  <2>7. CopiesAreDispatched'
    <3>1. \A m \in Message : m.task \in Tasks
      BY DEF Message
    <3> QED BY <1>0, <1>2, <2>3, <2>4, <2>5, <3>1 DEF CopyInv, CopiesAreDispatched
  <2>8. OneCopyPerTask'
    <3> SUFFICES ASSUME crashes' = 0, NEW u \in Tasks
                 PROVE  /\ \A m \in Message : m.task = u => queue'[m] <= 1
                        /\ \A k, m \in Message : Waiting(k, u)' /\ Waiting(m, u)' => k = m
                        /\ \A v, w \in Workers : Holds(v, u)' /\ Holds(w, u)' => v = w
                        /\ \A m \in Message, w \in Workers :
                              ~(Waiting(m, u)' /\ Holds(w, u)')
      BY DEF OneCopyPerTask
    <3>1. CASE u = t
      BY <1>2, <2>3, <2>5, <2>6, <3>1 DEF Waiting
    <3>2. CASE u # t
      <4>1. \A m \in Message : m.task = u => queue'[m] = queue[m]
        BY <2>3, <2>5, <3>2
      <4>2. \A m \in Message : Waiting(m, u)' <=> Waiting(m, u)
        BY <4>1 DEF Waiting
      <4> QED BY <1>1, <1>2, <4>1, <4>2 DEF CopyInv, OneCopyPerTask
    <3> QED BY <3>1, <3>2
  <2> QED BY <1>0, <2>7, <2>8 DEF CopyInv
<1>4. CASE ~Dispatch(q)
  <2>1. queue' = queue
    BY <1>4 DEF RequestStep, Arrive, BeginUpload, BeginRetry, BeginDelete, Handle,
       AnnounceQueued, RecordPending, CommitUpload, CommitRetry, RemoveObject, DropMilvus,
       DropEs, ClearProgress, CommitDelete, Abort
  <2>2. \A m \in Message : m.task \in Tasks /\ \A t : Waiting(m, t)' <=> Waiting(m, t)
    BY <2>1 DEF Waiting, Message
  <2>3. CopiesAreDispatched'
    BY <1>0, <1>2, <2>1, <2>2 DEF CopyInv, CopiesAreDispatched
  <2>4. OneCopyPerTask'
    BY <1>1, <1>2, <2>1, <2>2 DEF CopyInv, OneCopyPerTask
  <2> QED BY <1>0, <2>3, <2>4 DEF CopyInv
<1> QED BY <1>3, <1>4

\* Worker w goes from its state to v: it keeps its message or lets it go, and
\* never takes up again a task it has handed over.
Moves(w, v) == /\ Become(w, v)
               /\ v.pc # "idle" => v.msg = worker[w].msg
               /\ v.pc \notin {"idle", "ack"} => worker[w].pc # "ack"

LEMMA MoveFacts ==
    ASSUME WorkersOK, NEW w \in Workers, Active(w), NEW v, Moves(w, v)
    PROVE  /\ \A u \in Workers : worker'[u] = IF u = w THEN v ELSE worker[u]
           /\ \A u \in Workers : Active(u)' => Active(u) /\ TaskOf(u)' = TaskOf(u)
           /\ \A u \in Workers, t \in Tasks : Holds(u, t)' => Holds(u, t)
<1>1. \A u \in Workers : worker'[u] = IF u = w THEN v ELSE worker[u]
  BY DEF WorkersOK, Moves, Become
<1> QED BY <1>1 DEF Moves, Active, TaskOf, Holds

\* The steps of an execution other than the publication of its retry.
LEMMA ProcessMoves ==
    ASSUME TypeOK, NEW w \in Workers, Active(w), Process(w), ~Republish(w)
    PROVE  /\ \E v : Moves(w, v)
           /\ queue' = queue /\ request' = request /\ crashes' = crashes
<1>0. worker[w] \in Worker
  BY DEF TypeOK, WorkersOK
<1>1. queue' = queue /\ request' = request /\ crashes' = crashes
  BY DEF Process, WriteRow, WriteProgress, Fetch, ProcessBatches, PurgeChunks, StoreChunks,
     IndexEs, IndexMilvus, StepFails, Acknowledge, faults
<1>2. ASSUME NEW v, Become(w, v), v.msg = worker[w].msg, worker[w].pc # "ack"
      PROVE  Moves(w, v)
  BY <1>2 DEF Moves
<1>3. ASSUME WriteRow(w) \/ WriteProgress(w) \/ Fetch(w) PROVE \E v : Moves(w, v)
  <2>1. worker[w].pc # "ack" /\ \E pc, s : Enter(w, pc, s)
    BY <1>3 DEF WriteRow, WriteProgress, Fetch
  <2>2. PICK pc, s : Become(w, [worker[w] EXCEPT !.pc = pc, !.stage = s])
    BY <2>1 DEF Enter
  <2> DEFINE v == [worker[w] EXCEPT !.pc = pc, !.stage = s]
  <2>3. v.msg = worker[w].msg
    BY <1>0 DEF Worker
  <2> HIDE DEF v
  <2> QED BY <1>2, <2>1, <2>2, <2>3 DEF v
<1>4. ASSUME ProcessBatches(w) PROVE \E v : Moves(w, v)
  <2>1. PICK failed \in BOOLEAN :
          Become(w, [worker[w] EXCEPT !.pc = "purge", !.gen = lastGen + 1,
                                      !.degraded = failed])
    BY <1>4 DEF ProcessBatches
  <2> DEFINE v == [worker[w] EXCEPT !.pc = "purge", !.gen = lastGen + 1,
                                    !.degraded = failed]
  <2>2. v.msg = worker[w].msg /\ worker[w].pc # "ack"
    BY <1>0, <1>4 DEF Worker, ProcessBatches
  <2> HIDE DEF v
  <2> QED BY <1>2, <2>1, <2>2 DEF v
<1>5. ASSUME PurgeChunks(w) PROVE \E v : Moves(w, v)
  <2> DEFINE v == [worker[w] EXCEPT !.pc = "store", !.seen = chunks[DocOf(w)]]
  <2>1. Become(w, v) /\ worker[w].pc # "ack"
    BY <1>5 DEF PurgeChunks
  <2>2. v.msg = worker[w].msg
    BY <1>0 DEF Worker
  <2> HIDE DEF v
  <2> QED BY <1>2, <2>1, <2>2
<1>6. ASSUME StoreChunks(w) PROVE \E v : Moves(w, v)
  <2> DEFINE v == [worker[w] EXCEPT !.pc = "row", !.stage = "indexing", !.seen = {}]
  <2>1. Become(w, v) /\ worker[w].pc # "ack"
    BY <1>6 DEF StoreChunks
  <2>2. v.msg = worker[w].msg
    BY <1>0 DEF Worker
  <2> HIDE DEF v
  <2> QED BY <1>2, <2>1, <2>2
<1>7. ASSUME IndexEs(w) PROVE \E v : Moves(w, v)
  <2>1. PICK raised \in BOOLEAN :
          Become(w, [worker[w] EXCEPT !.pc = "milvus",
                                      !.degraded = worker[w].degraded \/ raised])
    BY <1>7 DEF IndexEs
  <2> DEFINE v == [worker[w] EXCEPT !.pc = "milvus",
                                    !.degraded = worker[w].degraded \/ raised]
  <2>2. v.msg = worker[w].msg /\ worker[w].pc # "ack"
    BY <1>0, <1>7 DEF Worker, IndexEs
  <2> HIDE DEF v
  <2> QED BY <1>2, <2>1, <2>2 DEF v
<1>8. ASSUME IndexMilvus(w) PROVE \E v : Moves(w, v)
  <2>1. PICK short \in BOOLEAN :
          Become(w, [worker[w] EXCEPT !.pc = "row",
                       !.degraded = worker[w].degraded \/ short,
                       !.stage = FinalStatus(worker[w].degraded \/ short)])
    BY <1>8 DEF IndexMilvus
  <2> DEFINE v == [worker[w] EXCEPT !.pc = "row",
                       !.degraded = worker[w].degraded \/ short,
                       !.stage = FinalStatus(worker[w].degraded \/ short)]
  <2>2. v.msg = worker[w].msg /\ worker[w].pc # "ack"
    BY <1>0, <1>8 DEF Worker, IndexMilvus
  <2> HIDE DEF v
  <2> QED BY <1>2, <2>1, <2>2 DEF v
<1>9. ASSUME StepFails(w) PROVE \E v : Moves(w, v)
  <2> DEFINE v == [IdleWorker EXCEPT !.pc = "row", !.msg = worker[w].msg,
                     !.stage = IF HasRetry(worker[w].msg) THEN "retrying" ELSE "failed"]
  <2>1. Become(w, v) /\ worker[w].pc # "ack"
    BY <1>9 DEF StepFails
  <2>2. v.msg = worker[w].msg
    BY DEF IdleWorker
  <2> HIDE DEF v
  <2> QED BY <1>2, <2>1, <2>2
<1>10. ASSUME Acknowledge(w) PROVE \E v : Moves(w, v)
  <2>1. Become(w, IdleWorker) /\ IdleWorker.pc = "idle"
    BY <1>10 DEF Acknowledge, IdleWorker
  <2> QED BY <2>1 DEF Moves
<1> QED
  BY <1>1, <1>3, <1>4, <1>5, <1>6, <1>7, <1>8, <1>9, <1>10 DEF Process

\* Steps that publish nothing: no copy of a task comes into being.
LEMMA MoveKeepsCopyInv ==
    ASSUME CopyInv, TypeOK', NEW w \in Workers, Active(w), NEW v, Moves(w, v),
           queue' = queue, request' = request, crashes' = crashes
    PROVE  CopyInv'
<1>1. /\ \A u \in Workers : Active(u)' => Active(u) /\ TaskOf(u)' = TaskOf(u)
      /\ \A u \in Workers, t \in Tasks : Holds(u, t)' => Holds(u, t)
  BY MoveFacts DEF CopyInv, TypeOK
<1>2. /\ \A t : Dispatched(t)' <=> Dispatched(t)
      /\ \A m \in Message : \A t : Waiting(m, t)' <=> Waiting(m, t)
  BY DEF Dispatched, Waiting
<1>3. CopiesAreDispatched'
  BY <1>1, <1>2 DEF CopyInv, CopiesAreDispatched
<1>4. OneCopyPerTask'
  BY <1>1, <1>2 DEF CopyInv, OneCopyPerTask
<1> QED BY <1>3, <1>4 DEF CopyInv

LEMMA TakeKeepsCopyInv ==
    ASSUME CopyInv, TypeOK', NEW w \in Workers, Take(w)
    PROVE  CopyInv'
<1>0. StoresOK /\ WorkersOK /\ worker[w].pc = "idle" /\ request' = request
      /\ crashes' = crashes
  BY DEF CopyInv, TypeOK, Take, faults
<1>1. PICK m \in Message :
        /\ queue[m] > 0
        /\ queue' = [queue EXCEPT ![m] = queue[m] - 1]
        /\ Become(w, [IdleWorker EXCEPT !.pc = "row", !.msg = m])
  BY DEF Take
<1> DEFINE v == [IdleWorker EXCEPT !.pc = "row", !.msg = m]
<1>2. v.pc = "row" /\ v.msg = m /\ m.task \in Tasks
  BY DEF IdleWorker, Message
<1>3. \A u \in Workers : worker'[u] = IF u = w THEN v ELSE worker[u]
  BY <1>0, <1>1 DEF Become, WorkersOK
<1> HIDE DEF v
<1>4. \A n \in Message : /\ queue[n] \in Nat
                         /\ queue'[n] = IF n = m THEN queue[m] - 1 ELSE queue[n]
  BY <1>0, <1>1 DEF StoresOK
<1>5. \A n \in Message : \A t : Waiting(n, t)' => Waiting(n, t)
  BY <1>4 DEF Waiting
<1>6. \A u \in Workers : Active(u)' =>
        TaskOf(u)' = IF u = w THEN m.task ELSE TaskOf(u)
  BY <1>2, <1>3 DEF Active, TaskOf
<1>7. \A u \in Workers, t \in Tasks : Holds(u, t)' <=>
        IF u = w THEN t = m.task ELSE Holds(u, t)
  BY <1>2, <1>3 DEF Holds, TaskOf
<1>8. CopiesAreDispatched'
  <2>1. \A t : Dispatched(t)' <=> Dispatched(t)
    BY <1>0 DEF Dispatched
  <2>2. \A n \in Message : queue'[n] > 0 => queue[n] > 0
    BY <1>4
  <2>3. \A u \in Workers : u # w => (Active(u)' <=> Active(u))
    BY <1>3 DEF Active
  <2> QED BY <1>1, <1>6, <2>1, <2>2, <2>3 DEF CopyInv, CopiesAreDispatched
<1>9. OneCopyPerTask'
  <2> SUFFICES ASSUME crashes' = 0, NEW t \in Tasks
               PROVE  /\ \A n \in Message : n.task = t => queue'[n] <= 1
                      /\ \A k, n \in Message : Waiting(k, t)' /\ Waiting(n, t)' => k = n
                      /\ \A u, x \in Workers : Holds(u, t)' /\ Holds(x, t)' => u = x
                      /\ \A n \in Message, u \in Workers :
                            ~(Waiting(n, t)' /\ Holds(u, t)')
    BY DEF OneCopyPerTask
  <2>1. /\ \A n \in Message : n.task = t => queue[n] <= 1
        /\ \A k, n \in Message : Waiting(k, t) /\ Waiting(n, t) => k = n
        /\ \A u, x \in Workers : Holds(u, t) /\ Holds(x, t) => u = x
        /\ \A n \in Message, u \in Workers : ~(Waiting(n, t) /\ Holds(u, t))
    BY <1>0 DEF CopyInv, OneCopyPerTask
  <2>2. \A n \in Message : n.task = t => queue'[n] <= 1
    BY <1>4, <2>1
  <2>3. CASE t = m.task
    <3>1. Waiting(m, t) /\ ~Waiting(m, t)'
      <4>1. queue[m] = 1
        BY <1>1, <1>4, <2>1, <2>3
      <4> QED BY <1>1, <1>4, <2>3, <4>1 DEF Waiting
    <3>2. \A n \in Message : ~Waiting(n, t)'
      BY <1>5, <2>1, <3>1
    <3>3. \A u \in Workers : ~Holds(u, t)
      BY <2>1, <3>1
    <3> QED BY <1>7, <2>2, <3>2, <3>3
  <2>4. CASE t # m.task
    BY <1>5, <1>7, <2>1, <2>2, <2>4
  <2> QED BY <2>3, <2>4
<1> QED BY <1>8, <1>9 DEF CopyInv

LEMMA RepublishKeepsCopyInv ==
    ASSUME CopyInv, TypeOK', NEW w \in Workers, Republish(w)
    PROVE  CopyInv'
<1>0. /\ StoresOK /\ WorkersOK /\ worker[w] \in Worker /\ worker[w].pc = "republish"
      /\ worker[w].msg \in Message /\ request' = request /\ crashes' = crashes
  BY DEF CopyInv, TypeOK, WorkersOK, Republish, faults
<1> DEFINE m == [worker[w].msg EXCEPT !.retries = @ + 1]
           v == [worker[w] EXCEPT !.pc = "ack", !.stage = "retrying"]
<1>9. PICK t \in Tasks : t = TaskOf(w)
  BY <1>0 DEF Message, TaskOf
<1>1. m.task = t /\ v.pc = "ack" /\ v.msg = worker[w].msg
  BY <1>0, <1>9 DEF Message, Worker, TaskOf
<1>2. queue' = [queue EXCEPT ![m] = queue[m] + 1] /\ Become(w, v)
  BY DEF Republish, Enter
<1>3. Moves(w, v) /\ Active(w) /\ Holds(w, t)
  BY <1>0, <1>1, <1>2, <1>9 DEF Moves, Active, Holds, TaskOf
<1> HIDE DEF m, v
<1>4. \A n \in Message : /\ queue[n] \in Nat
                         /\ queue'[n] = IF n = m THEN queue[n] + 1 ELSE queue[n]
  BY <1>0, <1>2 DEF StoresOK
<1>5. /\ \A u \in Workers : worker'[u] = IF u = w THEN v ELSE worker[u]
      /\ \A u \in Workers : Active(u)' => Active(u) /\ TaskOf(u)' = TaskOf(u)
      /\ \A u \in Workers, s \in Tasks : Holds(u, s)' => Holds(u, s)
  BY <1>0, <1>3, MoveFacts
<1>6. ~Holds(w, t)'
  BY <1>1, <1>5 DEF Holds
<1>7. CopiesAreDispatched'
  <2>1. \A s : Dispatched(s)' <=> Dispatched(s)
    BY <1>0 DEF Dispatched
  <2>2. Dispatched(t)
    BY <1>3, <1>9 DEF CopyInv, CopiesAreDispatched
  <2>3. \A n \in Message : queue'[n] > 0 => queue[n] > 0 \/ n.task = t
    BY <1>1, <1>4
  <2> QED BY <1>5, <2>1, <2>2, <2>3 DEF CopyInv, CopiesAreDispatched
<1>8. OneCopyPerTask'
  <2> SUFFICES ASSUME crashes' = 0, NEW s \in Tasks
               PROVE  /\ \A n \in Message : n.task = s => queue'[n] <= 1
                      /\ \A k, n \in Message : Waiting(k, s)' /\ Waiting(n, s)' => k = n
                      /\ \A u, x \in Workers : Holds(u, s)' /\ Holds(x, s)' => u = x
                      /\ \A n \in Message, u \in Workers :
                            ~(Waiting(n, s)' /\ Holds(u, s)')
    BY DEF OneCopyPerTask
  <2>1. /\ \A n \in Message : n.task = s => queue[n] <= 1
        /\ \A k, n \in Message : Waiting(k, s) /\ Waiting(n, s) => k = n
        /\ \A u, x \in Workers : Holds(u, s) /\ Holds(x, s) => u = x
        /\ \A n \in Message, u \in Workers : ~(Waiting(n, s) /\ Holds(u, s))
    BY <1>0 DEF CopyInv, OneCopyPerTask
  <2>2. CASE s = t
    <3>1. \A n \in Message : n.task = s => queue[n] = 0
      BY <1>3, <1>4, <2>1, <2>2 DEF Waiting
    <3>2. \A n \in Message : n.task = s => queue'[n] <= 1 /\ (queue'[n] > 0 => n = m)
      BY <1>4, <3>1
    <3>3. \A u \in Workers : ~Holds(u, s)'
      BY <1>3, <1>5, <1>6, <2>1, <2>2
    <3> QED BY <3>2, <3>3 DEF Waiting
  <2>3. CASE s # t
    <3>1. \A n \in Message : n.task = s => queue'[n] = queue[n]
      BY <1>1, <1>4, <2>3
    <3>2. \A n \in Message : Waiting(n, s)' <=> Waiting(n, s)
      BY <3>1 DEF Waiting
    <3> QED BY <1>5, <2>1, <3>1, <3>2
  <2> QED BY <2>2, <2>3
<1> QED BY <1>7, <1>8 DEF CopyInv

LEMMA CrashKeepsCopyInv ==
    ASSUME CopyInv, TypeOK', NEW w \in Workers, Crash(w)
    PROVE  CopyInv'
<1>0. /\ StoresOK /\ WorkersOK /\ Active(w) /\ Become(w, IdleWorker)
      /\ worker[w].msg \in Message /\ request' = request /\ crashes' = crashes + 1
      /\ queue' = [queue EXCEPT ![worker[w].msg] = queue[worker[w].msg] + 1]
  BY DEF CopyInv, TypeOK, WorkersOK, Crash, Active
<1>1. OneCopyPerTask'
  <2>1. crashes' # 0
    BY <1>0 DEF StoresOK
  <2> QED BY <2>1 DEF OneCopyPerTask
<1>2. Moves(w, IdleWorker)
  BY <1>0 DEF Moves, IdleWorker
<1>3. \A u \in Workers : Active(u)' => Active(u) /\ TaskOf(u)' = TaskOf(u)
  BY <1>0, <1>2, MoveFacts
<1>4. CopiesAreDispatched'
  <2>1. \A n \in Message : queue'[n] > 0 => queue[n] > 0 \/ n = worker[w].msg
    BY <1>0 DEF StoresOK
  <2>2. \A t : Dispatched(t)' <=> Dispatched(t)
    BY <1>0 DEF Dispatched
  <2> QED BY <1>0, <1>3, <2>1, <2>2 DEF CopyInv, CopiesAreDispatched, TaskOf
<1> QED BY <1>1, <1>4 DEF CopyInv

LEMMA CopyStep == CopyInv /\ [Next]_vars => CopyInv'
<1>1. CopyInv /\ UNCHANGED vars => CopyInv'
  <2> SUFFICES ASSUME CopyInv, UNCHANGED vars PROVE CopyInv'
    OBVIOUS
  <2>1. TypeOK'
    BY TypeStep DEF CopyInv
  <2> QED BY <2>1 DEF CopyInv, CopiesAreDispatched, Dispatched, Active, TaskOf,
                      OneCopyPerTask, Waiting, Holds, vars
<1>2. ASSUME CopyInv, NEW w \in Workers, WorkerStep(w) PROVE CopyInv'
  <2>1. TypeOK /\ TypeOK'
    BY <1>2, TypeWorker DEF CopyInv
  <2>2. CASE Take(w)
    BY <1>2, <2>1, <2>2, TakeKeepsCopyInv
  <2>3. CASE Republish(w)
    BY <1>2, <2>1, <2>3, RepublishKeepsCopyInv
  <2>4. CASE Process(w) /\ ~Republish(w)
    <3>1. Active(w)
      BY <2>4 DEF Process, WriteRow, WriteProgress, Fetch, ProcessBatches, PurgeChunks,
         StoreChunks, IndexEs, IndexMilvus, StepFails, Acknowledge, Active
    <3> QED BY <1>2, <2>1, <2>4, <3>1, ProcessMoves, MoveKeepsCopyInv
  <2>5. CASE Kill(w)
    <3>1. /\ Active(w) /\ Moves(w, IdleWorker)
          /\ queue' = queue /\ request' = request /\ crashes' = crashes
      BY <2>5 DEF Kill, Moves, IdleWorker
    <3> QED BY <1>2, <2>1, <3>1, MoveKeepsCopyInv
  <2>6. CASE Crash(w)
    BY <1>2, <2>1, <2>6, CrashKeepsCopyInv
  <2> QED BY <1>2, <2>2, <2>3, <2>4, <2>5, <2>6 DEF WorkerStep
<1> QED BY <1>1, <1>2, RequestKeepsCopyInv DEF Next

\* Unless the broker redelivers after a worker loss, a task waits in the broker
\* once or is being worked on once, for any number of tasks, workers and retries.
THEOREM OneCopy == Spec => []OneCopyPerTask
<1>1. CopyInv => OneCopyPerTask
  BY DEF CopyInv
<1> QED BY CopyInit, CopyStep, <1>1, PTL DEF Spec

----------------------------------------------------------------------------
\* What a step may never do to the rows of a document.

Op(q, op, d) == request[q].op = op /\ request[q].doc = d

Ended(q) == request[q].pc \in {"done", "aborted"}

\* An upload takes a fresh document id.
UploadsOnce ==
    \A d \in Docs, q, r \in Requests : Op(q, "upload", d) /\ Op(r, "upload", d) => q = r

RowsAreRequested ==
    \A d \in Docs : row[d] # "absent" => \E q \in Requests :
        request[q].doc = d /\ request[q].pc # "idle"

\* Whoever sees a row, or saw it and asked to delete it, comes after the commit
\* of the upload.
UploadsPrecede ==
    \A d \in Docs, q \in Requests :
        Op(q, "upload", d) /\ (row[d] # "absent" \/ DeleteRequested(d)) => Ended(q)

Gone ==
    \A d \in Docs, q \in Requests :
        Op(q, "delete", d) /\ request[q].pc = "done" => row[d] = "absent"

DeletionInv == TypeOK /\ UploadsOnce /\ RowsAreRequested /\ UploadsPrecede /\ Gone

LEMMA DeletionInit == Init => DeletionInv
<1> SUFFICES ASSUME Init PROVE DeletionInv
  OBVIOUS
<1>1. /\ \A q \in Requests : request[q].op = "none" /\ request[q].pc = "idle"
      /\ \A d \in Docs : row[d] = "absent"
  BY DEF Init, NoRequest
<1>2. TypeOK
  BY TypeInit
<1> QED BY <1>1, <1>2 DEF DeletionInv, UploadsOnce, RowsAreRequested, UploadsPrecede,
                          Gone, Op

\* Request q goes on: it keeps its operation and its document, it has not ended
\* before, and unless it commits no row comes or goes.
Continues(q) ==
    /\ ~Ended(q) /\ request[q].pc # "idle"
    /\ \A r \in Requests : /\ request'[r].op = request[r].op
                           /\ request'[r].doc = request[r].doc
                           /\ r # q => request'[r].pc = request[r].pc
    /\ request'[q].pc # "idle"

LEMMA HandleContinues ==
    ASSUME TypeOK, NEW q \in Requests, Handle(q)
    PROVE  /\ Continues(q)
           /\ request'[q].pc = "done" => request[q].pc = "commit"
           /\ Abort(q) => request'[q].pc = "aborted"
<1>0. RequestsOK
  BY DEF TypeOK
<1>1. CASE Dispatch(q)
  <2>1. PICK t \in Tasks : request' = [request EXCEPT ![q] =
          [request[q] EXCEPT !.task = t,
             !.pc = IF request[q].op = "upload" THEN "progress" ELSE "record"]]
    BY <1>1 DEF Dispatch
  <2> DEFINE b == [request[q] EXCEPT !.task = t,
             !.pc = IF request[q].op = "upload" THEN "progress" ELSE "record"]
  <2>2. \A r \in Requests : request'[r] = IF r = q THEN b ELSE request[r]
    BY <1>0, <2>1 DEF RequestsOK
  <2>3. b.op = request[q].op /\ b.doc = request[q].doc /\ b.pc \in {"progress", "record"}
    BY <1>0 DEF RequestsOK, Request
  <2>4. request[q].pc = "dispatch" /\ ~Abort(q)
    <3>1. request'[q].pc \notin {"done", "aborted"}
      BY <2>2, <2>3
    <3>2. Abort(q) => request'[q].pc = "aborted"
      BY <1>0 DEF Abort, End, RequestsOK, Request
    <3> QED BY <1>1, <3>1, <3>2 DEF Dispatch
  <2> HIDE DEF b
  <2> QED BY <2>2, <2>3, <2>4 DEF Continues, Ended
<1>2. CASE \/ AnnounceQueued(q) \/ RecordPending(q) \/ RemoveObject(q) \/ DropMilvus(q)
           \/ DropEs(q) \/ ClearProgress(q)
  <2>1. PICK pc \in {"record", "commit", "milvus", "es", "redis"} : Goto(q, pc)
    BY <1>2 DEF AnnounceQueued, RecordPending, RemoveObject, DropMilvus, DropEs,
       ClearProgress
  <2>2. \A r \in Requests : /\ request'[r].op = request[r].op
                            /\ request'[r].doc = request[r].doc
                            /\ request'[r].pc = IF r = q THEN pc ELSE request[r].pc
    BY <1>0, <2>1 DEF Goto, RequestsOK, Request
  <2>3. request[q].pc \notin {"idle", "done", "aborted"}
    BY <1>2 DEF AnnounceQueued, RecordPending, RemoveObject, DropMilvus, DropEs,
       ClearProgress
  <2>4. Abort(q) => request'[q].pc = "aborted"
    BY <1>0 DEF Abort, End, RequestsOK, Request
  <2> QED BY <2>2, <2>3, <2>4 DEF Continues, Ended
<1>3. CASE CommitUpload(q) \/ CommitRetry(q) \/ CommitDelete(q) \/ Abort(q)
  <2>1. PICK pc \in {"done", "aborted"} :
          End(q, pc) /\ (pc = "done" => request[q].pc = "commit")
    BY <1>3 DEF CommitUpload, CommitRetry, CommitDelete, Abort
  <2> DEFINE b == [request[q] EXCEPT !.pc = pc, !.loaded = "absent", !.seen = {}]
  <2>2. \A r \in Requests : request'[r] = IF r = q THEN b ELSE request[r]
    BY <1>0, <2>1 DEF End, RequestsOK
  <2>3. b.op = request[q].op /\ b.doc = request[q].doc /\ b.pc = pc
    BY <1>0 DEF RequestsOK, Request
  <2>4. request[q].pc \notin {"idle", "done", "aborted"}
    BY <1>3 DEF CommitUpload, CommitRetry, CommitDelete, Abort, InFlight
  <2>5. Abort(q) => request'[q].pc = "aborted"
    BY <1>0 DEF Abort, End, RequestsOK, Request
  <2> HIDE DEF b
  <2> QED BY <2>1, <2>2, <2>3, <2>4, <2>5 DEF Continues, Ended
<1> QED BY <1>1, <1>2, <1>3 DEF Handle

LEMMA HandleKeepsDeletionInv ==
    ASSUME DeletionInv, NEW q \in Requests, Handle(q)
    PROVE  DeletionInv'
<1>0. /\ TypeOK /\ TypeOK' /\ StoresOK /\ RequestsOK /\ Continues(q)
      /\ request'[q].pc = "done" => request[q].pc = "commit"
      /\ request[q].doc \in Docs
  BY TypeHandle, HandleContinues DEF DeletionInv, TypeOK, RequestsOK, Continues
<1>1. /\ \A r \in Requests : \A d, op : Op(r, op, d)' <=> Op(r, op, d)
      /\ \A d : DeleteRequested(d)' <=> DeleteRequested(d)
      /\ \A r \in Requests : Ended(r) => Ended(r)'
      /\ \A r \in Requests, d \in Docs :
           request[r].doc = d /\ request[r].pc # "idle" =>
             request'[r].doc = d /\ request'[r].pc # "idle"
      /\ \A r \in Requests : r # q => request'[r].pc = request[r].pc
  BY <1>0 DEF Continues, Op, DeleteRequested, Ended
<1>2. UploadsOnce'
  BY <1>1 DEF DeletionInv, UploadsOnce
<1>3. CASE CommitUpload(q)
  <2>1. \A d \in Docs : row'[d] = IF d = request[q].doc THEN "uploaded" ELSE row[d]
    BY <1>0, <1>3 DEF CommitUpload, StoresOK
  <2>2. Op(q, "upload", request[q].doc) /\ ~Ended(q)
    BY <1>3 DEF CommitUpload, Op, Ended
  <2>3. ~DeleteRequested(request[q].doc)
    BY <1>0, <2>2 DEF DeletionInv, UploadsPrecede
  <2>4. Ended(q)'
    <3>1. End(q, "done")
      BY <1>3 DEF CommitUpload
    <3>2. request'[q].pc = "done"
      BY <1>0, <3>1 DEF End, RequestsOK, Request
    <3> QED BY <3>2 DEF Ended
  <2>5. RowsAreRequested'
    BY <1>0, <1>1, <2>1, <2>2 DEF DeletionInv, RowsAreRequested, Continues
  <2>6. UploadsPrecede'
    BY <1>0, <1>1, <2>1, <2>2, <2>4 DEF DeletionInv, UploadsPrecede, UploadsOnce
  <2>7. Gone'
    BY <1>0, <1>1, <2>1, <2>2, <2>3 DEF DeletionInv, Gone, Op, DeleteRequested
  <2> QED BY <1>0, <1>2, <2>5, <2>6, <2>7 DEF DeletionInv
<1>4. CASE CommitDelete(q)
  <2>1. \A d \in Docs : row'[d] = IF d = request[q].doc THEN "absent" ELSE row[d]
    BY <1>0, <1>4 DEF CommitDelete, StoresOK
  <2>2. RowsAreRequested' /\ UploadsPrecede'
    BY <1>1, <2>1 DEF DeletionInv, RowsAreRequested, UploadsPrecede
  <2>3. Gone'
    BY <1>1, <2>1 DEF DeletionInv, Gone, Op
  <2> QED BY <1>0, <1>2, <2>2, <2>3 DEF DeletionInv
<1>5. CASE ~CommitUpload(q) /\ ~CommitDelete(q)
  <2>1. \A d \in Docs : row'[d] = "absent" <=> row[d] = "absent"
    BY <1>0, <1>5 DEF Handle, Dispatch, AnnounceQueued, RecordPending, CommitRetry,
       RemoveObject, DropMilvus, DropEs, ClearProgress, Abort, StoresOK
  <2>2. Op(q, "delete", request[q].doc) => request'[q].pc # "done"
    BY <1>0, <1>5, HandleContinues DEF Handle, Dispatch, AnnounceQueued, RecordPending,
       CommitRetry, RemoveObject, DropMilvus, DropEs, ClearProgress, Abort, Op
  <2>3. RowsAreRequested' /\ UploadsPrecede'
    BY <1>1, <2>1 DEF DeletionInv, RowsAreRequested, UploadsPrecede
  <2>4. Gone'
    BY <1>1, <2>1, <2>2 DEF DeletionInv, Gone, Op
  <2> QED BY <1>0, <1>2, <2>3, <2>4 DEF DeletionInv
<1> QED BY <1>3, <1>4, <1>5

\* Request q begins to work for document d.
Arrives(q, d) ==
    /\ request[q].pc = "idle" /\ row' = row
    /\ request'[q].doc = d
    /\ request'[q].pc \notin {"idle", "done", "aborted"}
    /\ \A r \in Requests : r # q => request'[r] = request[r]
    /\ request'[q].op = "upload" => \A r \in Requests : request[r].doc # d
    /\ request'[q].op # "upload" => row[d] # "absent"

LEMMA ArriveArrives ==
    ASSUME TypeOK, NEW q \in Requests, Arrive(q)
    PROVE  \E d \in Docs : Arrives(q, d)
<1>0. RequestsOK
  BY DEF TypeOK
<1>1. ASSUME NEW d \in Docs, BeginUpload(q, d) PROVE Arrives(q, d)
  <2> DEFINE b == [NoRequest EXCEPT !.pc = "dispatch", !.op = "upload", !.doc = d]
  <2>1. request' = [request EXCEPT ![q] = b] /\ request[q].pc = "idle" /\ row' = row
    BY <1>1 DEF BeginUpload
  <2>2. b.pc \notin {"idle", "done", "aborted"} /\ b.op = "upload" /\ b.doc = d
    BY DEF NoRequest
  <2> HIDE DEF b
  <2>3. \A r \in Requests : request'[r] = IF r = q THEN b ELSE request[r]
    BY <1>0, <2>1 DEF RequestsOK
  <2>4. b.op = "upload" => \A r \in Requests : request[r].doc # d
    BY <1>1, <2>2 DEF BeginUpload
  <2>5. b.op # "upload" => row[d] # "absent"
    BY <1>1, <2>2 DEF BeginUpload
  <2> QED BY <2>1, <2>2, <2>3, <2>4, <2>5 DEF Arrives
<1>2. ASSUME NEW d \in Docs, BeginRetry(q, d) PROVE Arrives(q, d)
  <2> DEFINE b == [NoRequest EXCEPT !.pc = "dispatch", !.op = "retry", !.doc = d, !.loaded = row[d]]
  <2>1. request' = [request EXCEPT ![q] = b] /\ request[q].pc = "idle" /\ row' = row
    BY <1>2 DEF BeginRetry
  <2>2. b.pc \notin {"idle", "done", "aborted"} /\ b.op = "retry" /\ b.doc = d
    BY DEF NoRequest
  <2> HIDE DEF b
  <2>3. \A r \in Requests : request'[r] = IF r = q THEN b ELSE request[r]
    BY <1>0, <2>1 DEF RequestsOK
  <2>4. b.op = "upload" => \A r \in Requests : request[r].doc # d
    BY <1>2, <2>2 DEF BeginRetry
  <2>5. b.op # "upload" => row[d] # "absent"
    BY <1>2, <2>2 DEF BeginRetry
  <2> QED BY <2>1, <2>2, <2>3, <2>4, <2>5 DEF Arrives
<1>3. ASSUME NEW d \in Docs, BeginDelete(q, d) PROVE Arrives(q, d)
  <2> DEFINE b == [NoRequest EXCEPT !.pc = "object", !.op = "delete", !.doc = d, !.seen = chunks[d]]
  <2>1. request' = [request EXCEPT ![q] = b] /\ request[q].pc = "idle" /\ row' = row
    BY <1>3 DEF BeginDelete
  <2>2. b.pc \notin {"idle", "done", "aborted"} /\ b.op = "delete" /\ b.doc = d
    BY DEF NoRequest
  <2> HIDE DEF b
  <2>3. \A r \in Requests : request'[r] = IF r = q THEN b ELSE request[r]
    BY <1>0, <2>1 DEF RequestsOK
  <2>4. b.op = "upload" => \A r \in Requests : request[r].doc # d
    BY <1>3, <2>2 DEF BeginDelete
  <2>5. b.op # "upload" => row[d] # "absent"
    BY <1>3, <2>2 DEF BeginDelete
  <2> QED BY <2>1, <2>2, <2>3, <2>4, <2>5 DEF Arrives
<1> QED BY <1>1, <1>2, <1>3 DEF Arrive

LEMMA ArriveKeepsDeletionInv ==
    ASSUME DeletionInv, NEW q \in Requests, Arrive(q)
    PROVE  DeletionInv'
<1>0. TypeOK /\ TypeOK' /\ RequestsOK /\ request[q].op = "none"
  BY TypeArrive DEF DeletionInv, TypeOK, RequestsOK, Arrive, BeginUpload, BeginRetry,
     BeginDelete
<1>1. PICK e \in Docs : Arrives(q, e)
  BY <1>0, ArriveArrives
<1>2. /\ row' = row
      /\ \A r \in Requests : \A d, op : r # q => (Op(r, op, d)' <=> Op(r, op, d))
      /\ \A r \in Requests : r # q => request'[r].pc = request[r].pc
      /\ \A d, op : Op(q, op, d)' => d = e
      /\ ~Ended(q)'
  BY <1>1 DEF Arrives, Op, Ended
<1>3. UploadsOnce'
  <2>1. \A r \in Requests : r # q /\ Op(q, "upload", e)' => ~Op(r, "upload", e)
    BY <1>1 DEF Arrives, Op
  <2> QED BY <1>2, <2>1 DEF DeletionInv, UploadsOnce
<1>4. RowsAreRequested'
  <2> SUFFICES ASSUME NEW d \in Docs, row[d] # "absent"
               PROVE  \E r \in Requests : request'[r].doc = d /\ request'[r].pc # "idle"
    BY <1>2 DEF RowsAreRequested
  <2>1. PICK r \in Requests : request[r].doc = d /\ request[r].pc # "idle"
    BY DEF DeletionInv, RowsAreRequested
  <2> QED BY <1>1, <2>1 DEF Arrives
<1>5. UploadsPrecede'
  <2> SUFFICES ASSUME NEW d \in Docs, NEW r \in Requests, Op(r, "upload", d)',
                      row[d] # "absent" \/ DeleteRequested(d)'
               PROVE  Ended(r)'
    BY <1>2 DEF UploadsPrecede
  <2>1. CASE r = q
    <3>1. d = e /\ request'[q].op = "upload" /\ \A x \in Requests : request[x].doc # d
      BY <1>1, <1>2, <2>1 DEF Arrives, Op
    <3>2. row[d] = "absent"
      BY <3>1 DEF DeletionInv, RowsAreRequested
    <3>3. ~DeleteRequested(d)'
      BY <1>1, <3>1 DEF Arrives, DeleteRequested
    <3> QED BY <3>2, <3>3
  <2>2. CASE r # q
    <3>1. row[d] # "absent" \/ DeleteRequested(d)
      BY <1>1 DEF Arrives, DeleteRequested
    <3> QED BY <1>2, <2>2, <3>1 DEF DeletionInv, UploadsPrecede, Ended
  <2> QED BY <2>1, <2>2
<1>6. Gone'
  BY <1>1, <1>2 DEF Arrives, DeletionInv, Gone
<1> QED BY <1>0, <1>3, <1>4, <1>5, <1>6 DEF DeletionInv

LEMMA WorkerKeepsDeletionInv ==
    ASSUME DeletionInv, NEW w \in Workers, WorkerStep(w)
    PROVE  DeletionInv'
<1>0. TypeOK /\ TypeOK' /\ StoresOK /\ WorkersOK
  BY TypeWorker DEF DeletionInv, TypeOK
<1>1. request' = request
  BY DEF WorkerStep, Take, Process, Kill, Crash, WriteRow, WriteProgress, Fetch,
     ProcessBatches, PurgeChunks, StoreChunks, IndexEs, IndexMilvus, StepFails, Republish,
     Acknowledge
<1>2. \A d \in Docs : row'[d] = "absent" <=> row[d] = "absent"
  <2>1. CASE WriteRow(w)
    <3>1. worker[w].stage # "absent"
      BY <1>0 DEF WorkersOK, Worker, Status, Stage, Terminal
    <3> QED BY <1>0, <2>1, <3>1 DEF WriteRow, RowWith, StoresOK
  <2>2. CASE ~WriteRow(w)
    <3>1. row' = row
      BY <2>2 DEF WorkerStep, Take, Process, Kill, Crash, WriteProgress, Fetch,
         ProcessBatches, PurgeChunks, StoreChunks, IndexEs, IndexMilvus, StepFails,
         Republish, Acknowledge
    <3> QED BY <3>1
  <2> QED BY <2>1, <2>2
<1> QED BY <1>0, <1>1, <1>2 DEF DeletionInv, UploadsOnce, RowsAreRequested, UploadsPrecede,
                               Gone, Op, Ended, DeleteRequested

LEMMA DeletionStep == DeletionInv /\ [Next]_vars => DeletionInv'
<1>1. DeletionInv /\ UNCHANGED vars => DeletionInv'
  <2> SUFFICES ASSUME DeletionInv, UNCHANGED vars PROVE DeletionInv'
    OBVIOUS
  <2>1. TypeOK'
    BY TypeStep DEF DeletionInv
  <2> QED BY <2>1 DEF DeletionInv, UploadsOnce, RowsAreRequested, UploadsPrecede, Gone,
                      Op, Ended, DeleteRequested, vars
<1> QED BY <1>1, ArriveKeepsDeletionInv, HandleKeepsDeletionInv, WorkerKeepsDeletionInv
        DEF Next, RequestStep

\* A request that has ended never changes again.
LEMMA EndedIsFinal ==
    ASSUME TypeOK, [Next]_vars, NEW q \in Requests, Ended(q)
    PROVE  /\ request'[q].op = request[q].op /\ request'[q].doc = request[q].doc
           /\ request'[q].pc = request[q].pc
<1>1. ASSUME NEW r \in Requests, Arrive(r) PROVE request'[q] = request[q]
  BY <1>1, ArriveArrives DEF Arrives, Ended
<1>2. ASSUME NEW r \in Requests, Handle(r)
      PROVE  /\ request'[q].op = request[q].op /\ request'[q].doc = request[q].doc
             /\ request'[q].pc = request[q].pc
  BY <1>2, HandleContinues DEF Continues
<1>3. ASSUME NEW w \in Workers, WorkerStep(w) PROVE request' = request
  BY <1>3 DEF WorkerStep, Take, Process, Kill, Crash, WriteRow, WriteProgress, Fetch,
     ProcessBatches, PurgeChunks, StoreChunks, IndexEs, IndexMilvus, StepFails, Republish,
     Acknowledge
<1>4. CASE UNCHANGED vars
  BY <1>4 DEF vars
<1> QED BY <1>1, <1>2, <1>3, <1>4 DEF Next, RequestStep

\* After a committed delete no step of a late worker or of a late retry request
\* brings the row of the document back.
THEOREM DeletedStays == Spec => DeletedStaysDeleted
<1>1. DeletionInv /\ [Next]_vars =>
        [\A q \in Requests : request[q].op = "delete" /\ request[q].pc = "done" =>
            row'[request[q].doc] = "absent"]_vars
  <2> SUFFICES ASSUME DeletionInv, [Next]_vars, NEW q \in Requests,
                      request[q].op = "delete", request[q].pc = "done"
               PROVE  row'[request[q].doc] = "absent"
    OBVIOUS
  <2>1. Gone'
    BY DeletionStep DEF DeletionInv
  <2>2. /\ request'[q].op = "delete" /\ request'[q].doc = request[q].doc
        /\ request'[q].pc = "done"
    BY EndedIsFinal DEF Ended, DeletionInv
  <2>3. PICK d \in Docs : d = request[q].doc
    BY DEF DeletionInv, TypeOK, RequestsOK
  <2> QED BY <2>1, <2>2, <2>3 DEF Gone, Op
<1> QED BY DeletionInit, DeletionStep, <1>1, PTL DEF Spec, DeletedStaysDeleted

\* A document nobody asked to delete never loses its last generation of chunk
\* rows: each retry replaces the rows in one transaction.
THEOREM ChunksOutlive == Spec => ChunksOutliveRetries
<1>1. TypeOK /\ [Next]_vars =>
        [\A d \in Docs : chunks[d] # {} /\ ~DeleteRequested(d) => chunks'[d] # {}]_vars
  <2> SUFFICES ASSUME TypeOK, Next, NEW d \in Docs, chunks[d] # {}, ~DeleteRequested(d)
               PROVE  chunks'[d] # {}
    BY DEF vars
  <2>0. StoresOK
    BY DEF TypeOK
  <2>1. ASSUME NEW q \in Requests, CommitDelete(q) PROVE chunks'[d] # {}
    <3>1. d # request[q].doc
      BY <2>1 DEF CommitDelete, DeleteRequested
    <3> QED BY <2>0, <2>1, <3>1 DEF CommitDelete, StoresOK
  <2>2. ASSUME NEW w \in Workers, StoreChunks(w) PROVE chunks'[d] # {}
    BY <2>0, <2>2 DEF StoreChunks, StoresOK
  <2>3. ASSUME NEW q \in Requests, RequestStep(q), ~CommitDelete(q)
        PROVE  chunks' = chunks
    BY <2>3 DEF RequestStep, Arrive, BeginUpload, BeginRetry, BeginDelete, Handle, Dispatch,
       AnnounceQueued, RecordPending, CommitUpload, CommitRetry, RemoveObject, DropMilvus,
       DropEs, ClearProgress, Abort
  <2>4. ASSUME NEW w \in Workers, WorkerStep(w), ~StoreChunks(w)
        PROVE  chunks' = chunks
    BY <2>4 DEF WorkerStep, Take, Process, Kill, Crash, WriteRow, WriteProgress, Fetch,
       ProcessBatches, PurgeChunks, IndexEs, IndexMilvus, StepFails, Republish, Acknowledge
  <2> QED BY <2>1, <2>2, <2>3, <2>4 DEF Next
<1> QED BY TypeInit, TypeStep, <1>1, PTL DEF Spec, ChunksOutliveRetries

----------------------------------------------------------------------------
\* A step of an execution

Writes(w, v) ==
    \/ /\ worker[w].pc = "row" /\ v.pc = "progress" /\ v.stage = worker[w].stage
       /\ row' = RowWith(DocOf(w), v.stage)
       /\ UNCHANGED <<progress, rtask, queue>>
    \/ /\ worker[w].pc = "progress"
       /\ v.pc = Work(worker[w].stage).pc /\ v.stage = Work(worker[w].stage).stage
       /\ Announce(w, worker[w].stage)
       /\ UNCHANGED <<row, queue>>
    \/ /\ worker[w].pc = "fetch" /\ v.pc = "row" /\ v.stage = "chunking"
       /\ Announce(w, "parsing")
       /\ UNCHANGED <<row, queue>>
    \/ /\ worker[w].pc = "batches" /\ v.pc = "purge" /\ v.stage = worker[w].stage
       /\ Announce(w, "chunking")
       /\ UNCHANGED <<row, queue>>
    \/ /\ worker[w].pc = "republish" /\ v.pc = "ack"
       /\ queue' = [queue EXCEPT ![[worker[w].msg EXCEPT !.retries = @ + 1]] = @ + 1]
       /\ v.stage = "retrying"
       /\ UNCHANGED <<row, progress, rtask>>

\* The steps that touch none of the four.
Proceeds(w, v) ==
    \/ worker[w].pc = "purge" /\ v.pc = "store" /\ v.stage = worker[w].stage
    \/ worker[w].pc = "store" /\ v.pc = "row" /\ v.stage = "indexing"
    \/ worker[w].pc = "es" /\ v.pc = "milvus" /\ v.stage = worker[w].stage
    \/ worker[w].pc = "milvus" /\ v.pc = "row" /\ v.stage \in {"ready", "partial_failed"}
    \/ /\ worker[w].pc \notin {"republish", "ack"}
       /\ v.pc = "row" /\ v.stage \in {"retrying", "failed"}
       /\ v.stage = "retrying" => HasRetry(worker[w].msg)
    \/ worker[w].pc \in {"notify", "ack"} /\ v.pc = "idle"

Executes(w, v) ==
    /\ \A u \in Workers : worker'[u] = IF u = w THEN v ELSE worker[u]
    /\ v.pc # "idle" => v.msg = worker[w].msg
    /\ UNCHANGED <<request, overlapped, crashes, kills>>
    /\ \/ Writes(w, v)
       \/ Proceeds(w, v) /\ UNCHANGED <<row, progress, rtask, queue>>

\* What the eleven actions of an execution amount to.
LEMMA ProcessExecutes ==
    ASSUME TypeOK, NEW w \in Workers, Process(w)
    PROVE  Active(w) /\ \E v : Executes(w, v)
<1>0. worker[w] \in Worker
  BY DEF TypeOK, WorkersOK
<1>1. Active(w)
  BY DEF Process, WriteRow, WriteProgress, Fetch, ProcessBatches, PurgeChunks,
     StoreChunks, IndexEs, IndexMilvus, StepFails, Republish, Acknowledge, Active
<1> SUFFICES \E v : Executes(w, v)
  BY <1>1
<1>2. UNCHANGED <<request, overlapped, crashes, kills>>
  BY DEF Process, WriteRow, WriteProgress, Fetch, ProcessBatches, PurgeChunks,
     StoreChunks, IndexEs, IndexMilvus, StepFails, Republish, Acknowledge, faults
<1>3. ASSUME NEW v, Become(w, v), v.pc # "idle" => v.msg = worker[w].msg,
             \/ Writes(w, v)
             \/ Proceeds(w, v) /\ UNCHANGED <<row, progress, rtask, queue>>
      PROVE  \E x : Executes(w, x)
  <2>1. \A u \in Workers : worker'[u] = IF u = w THEN v ELSE worker[u]
    BY <1>3 DEF TypeOK, WorkersOK, Become
  <2>2. Executes(w, v)
    BY <1>2, <1>3, <2>1 DEF Executes
  <2> QED BY <2>2
<1>4. CASE WriteRow(w)
  <2> DEFINE v == [worker[w] EXCEPT !.pc = "progress", !.stage = worker[w].stage]
  <2>1. v.pc = "progress" /\ v.stage = worker[w].stage /\ v.msg = worker[w].msg
    BY <1>0 DEF Worker
  <2>2. Become(w, v)
    BY <1>4 DEF WriteRow, Enter
  <2> HIDE DEF v
  <2>3. Writes(w, v)
    BY <1>4, <2>1 DEF WriteRow, Writes
  <2> QED BY <1>3, <2>1, <2>2, <2>3
<1>5. CASE WriteProgress(w)
  <2> DEFINE next == Work(worker[w].stage)
             v == [worker[w] EXCEPT !.pc = next.pc, !.stage = next.stage]
  <2>1. v.pc = next.pc /\ v.stage = next.stage /\ v.msg = worker[w].msg
    BY <1>0 DEF Worker
  <2>2. Become(w, v)
    BY <1>5 DEF WriteProgress, Enter
  <2> HIDE DEF v
  <2>3. Writes(w, v)
    BY <1>5, <2>1 DEF WriteProgress, Writes
  <2> QED BY <1>3, <2>1, <2>2, <2>3
<1>6. CASE Fetch(w)
  <2> DEFINE v == [worker[w] EXCEPT !.pc = "row", !.stage = "chunking"]
  <2>1. v.pc = "row" /\ v.stage = "chunking" /\ v.msg = worker[w].msg
    BY <1>0 DEF Worker
  <2>2. Become(w, v)
    BY <1>6 DEF Fetch, Enter
  <2> HIDE DEF v
  <2>3. Writes(w, v)
    BY <1>6, <2>1 DEF Fetch, Writes
  <2> QED BY <1>3, <2>1, <2>2, <2>3
<1>7. CASE ProcessBatches(w)
  <2>0. PICK failed \in BOOLEAN :
          Become(w, [worker[w] EXCEPT !.pc = "purge", !.gen = lastGen + 1,
                                      !.degraded = failed])
    BY <1>7 DEF ProcessBatches
  <2> DEFINE v == [worker[w] EXCEPT !.pc = "purge", !.gen = lastGen + 1,
                                    !.degraded = failed]
  <2>1. v.pc = "purge" /\ v.stage = worker[w].stage /\ v.msg = worker[w].msg
    BY <1>0 DEF Worker
  <2>2. Become(w, v)
    BY <2>0
  <2> HIDE DEF v
  <2>3. Writes(w, v)
    BY <1>7, <2>1 DEF ProcessBatches, Writes
  <2> QED BY <1>3, <2>1, <2>2, <2>3
<1>8. CASE PurgeChunks(w)
  <2> DEFINE v == [worker[w] EXCEPT !.pc = "store", !.seen = chunks[DocOf(w)]]
  <2>1. v.pc = "store" /\ v.stage = worker[w].stage /\ v.msg = worker[w].msg
    BY <1>0 DEF Worker
  <2>2. Become(w, v)
    BY <1>8 DEF PurgeChunks
  <2> HIDE DEF v
  <2>3. Proceeds(w, v) /\ UNCHANGED <<row, progress, rtask, queue>>
    BY <1>8, <2>1 DEF PurgeChunks, Proceeds
  <2> QED BY <1>3, <2>1, <2>2, <2>3
<1>9. CASE StoreChunks(w)
  <2> DEFINE v == [worker[w] EXCEPT !.pc = "row", !.stage = "indexing", !.seen = {}]
  <2>1. v.pc = "row" /\ v.stage = "indexing" /\ v.msg = worker[w].msg
    BY <1>0 DEF Worker
  <2>2. Become(w, v)
    BY <1>9 DEF StoreChunks
  <2> HIDE DEF v
  <2>3. Proceeds(w, v) /\ UNCHANGED <<row, progress, rtask, queue>>
    BY <1>9, <2>1 DEF StoreChunks, Proceeds
  <2> QED BY <1>3, <2>1, <2>2, <2>3
<1>10. CASE IndexEs(w)
  <2>0. PICK raised \in BOOLEAN :
          Become(w, [worker[w] EXCEPT !.pc = "milvus",
                                      !.degraded = worker[w].degraded \/ raised])
    BY <1>10 DEF IndexEs
  <2> DEFINE v == [worker[w] EXCEPT !.pc = "milvus",
                                    !.degraded = worker[w].degraded \/ raised]
  <2>1. v.pc = "milvus" /\ v.stage = worker[w].stage /\ v.msg = worker[w].msg
    BY <1>0 DEF Worker
  <2>2. Become(w, v)
    BY <2>0
  <2> HIDE DEF v
  <2>3. Proceeds(w, v) /\ UNCHANGED <<row, progress, rtask, queue>>
    BY <1>10, <2>1 DEF IndexEs, Proceeds
  <2> QED BY <1>3, <2>1, <2>2, <2>3
<1>11. CASE IndexMilvus(w)
  <2>0. PICK short \in BOOLEAN :
          Become(w, [worker[w] EXCEPT !.pc = "row",
                       !.degraded = worker[w].degraded \/ short,
                       !.stage = FinalStatus(worker[w].degraded \/ short)])
    BY <1>11 DEF IndexMilvus
  <2> DEFINE v == [worker[w] EXCEPT !.pc = "row",
                       !.degraded = worker[w].degraded \/ short,
                       !.stage = FinalStatus(worker[w].degraded \/ short)]
  <2>1. /\ v.pc = "row" /\ v.msg = worker[w].msg
        /\ v.stage \in {"ready", "partial_failed"}
    BY <1>0 DEF Worker, FinalStatus
  <2>2. Become(w, v)
    BY <2>0
  <2> HIDE DEF v
  <2>3. Proceeds(w, v) /\ UNCHANGED <<row, progress, rtask, queue>>
    BY <1>11, <2>1 DEF IndexMilvus, Proceeds
  <2> QED BY <1>3, <2>1, <2>2, <2>3
<1>12. CASE StepFails(w)
  <2> DEFINE s == IF HasRetry(worker[w].msg) THEN "retrying" ELSE "failed"
             v == [IdleWorker EXCEPT !.pc = "row", !.msg = worker[w].msg, !.stage = s]
  <2>1. /\ v.pc = "row" /\ v.msg = worker[w].msg /\ v.stage \in {"retrying", "failed"}
        /\ v.stage = "retrying" => HasRetry(worker[w].msg)
    BY DEF IdleWorker
  <2>2. Become(w, v)
    BY <1>12 DEF StepFails
  <2> HIDE DEF v
  <2>3. Proceeds(w, v) /\ UNCHANGED <<row, progress, rtask, queue>>
    BY <1>12, <2>1 DEF StepFails, Proceeds
  <2> QED BY <1>3, <2>1, <2>2, <2>3
<1>13. CASE Republish(w)
  <2> DEFINE v == [worker[w] EXCEPT !.pc = "ack", !.stage = "retrying"]
  <2>1. v.pc = "ack" /\ v.stage = "retrying" /\ v.msg = worker[w].msg
    BY <1>0 DEF Worker
  <2>2. Become(w, v)
    BY <1>13 DEF Republish, Enter
  <2> HIDE DEF v
  <2>3. Writes(w, v)
    BY <1>13, <2>1 DEF Republish, Writes
  <2> QED BY <1>3, <2>1, <2>2, <2>3
<1>14. CASE Acknowledge(w)
  <2>1. Become(w, IdleWorker) /\ IdleWorker.pc = "idle"
    BY <1>14 DEF Acknowledge, IdleWorker
  <2>2. Proceeds(w, IdleWorker) /\ UNCHANGED <<row, progress, rtask, queue>>
    BY <1>14, <2>1 DEF Acknowledge, Proceeds
  <2> QED BY <1>3, <2>1, <2>2
<1> QED
  BY <1>4, <1>5, <1>6, <1>7, <1>8, <1>9, <1>10, <1>11, <1>12, <1>13, <1>14 DEF Process

\* The broker gives worker w the message m, and the document of m is worked on
\* twice if another worker is at it.
Takes(w, m) ==
    /\ worker[w].pc = "idle" /\ queue[m] > 0
    /\ \A n \in Message : queue'[n] = IF n = m THEN queue[m] - 1 ELSE queue[n]
    /\ \A u \in Workers : u # w => worker'[u] = worker[u]
    /\ worker'[w].pc = "row" /\ worker'[w].stage = "queued" /\ worker'[w].msg = m
    /\ \A t \in Tasks : rtask'[t] = IF t = m.task THEN "running" ELSE rtask[t]
    /\ \A d \in Docs : overlapped'[d] = IF d = m.doc
                          THEN overlapped[d] \/ \E v \in Workers : WorksOn(v, d)
                          ELSE overlapped[d]
    /\ UNCHANGED <<row, progress, request, crashes, kills>>

LEMMA TakeTakes ==
    ASSUME TypeOK, NEW w \in Workers, Take(w)
    PROVE  \E m \in Message : Takes(w, m)
<1>0. StoresOK /\ WorkersOK /\ \A m \in Message : m.task \in Tasks /\ m.doc \in Docs
  BY DEF TypeOK, Message
<1>1. PICK m \in Message :
        /\ queue[m] > 0
        /\ queue' = [queue EXCEPT ![m] = queue[m] - 1]
        /\ Become(w, [IdleWorker EXCEPT !.pc = "row", !.msg = m])
        /\ rtask' = [rtask EXCEPT ![m.task] = "running"]
        /\ overlapped' = [overlapped EXCEPT ![m.doc] =
                            overlapped[m.doc] \/ \E v \in Workers : WorksOn(v, m.doc)]
  BY DEF Take
<1>2. /\ worker[w].pc = "idle"
      /\ UNCHANGED <<row, progress, request, crashes, kills>>
  BY DEF Take, faults
<1> DEFINE v == [IdleWorker EXCEPT !.pc = "row", !.msg = m]
<1>3. v.pc = "row" /\ v.stage = "queued" /\ v.msg = m
  BY DEF IdleWorker
<1> HIDE DEF v
<1>4. \A u \in Workers : worker'[u] = IF u = w THEN v ELSE worker[u]
  BY <1>0, <1>1 DEF Become, WorkersOK, v
<1>5. \A n \in Message : queue'[n] = IF n = m THEN queue[m] - 1 ELSE queue[n]
  BY <1>0, <1>1 DEF StoresOK
<1>6. \A t \in Tasks : rtask'[t] = IF t = m.task THEN "running" ELSE rtask[t]
  BY <1>0, <1>1 DEF StoresOK
<1>7. \A d \in Docs : overlapped'[d] = IF d = m.doc
                         THEN overlapped[d] \/ \E x \in Workers : WorksOn(x, d)
                         ELSE overlapped[d]
  BY <1>0, <1>1 DEF StoresOK
<1>8. Takes(w, m)
  BY <1>1, <1>2, <1>3, <1>4, <1>5, <1>6, <1>7 DEF Takes
<1> QED BY <1>8

\* The worker goes, with its message back in the broker or without.
Leaves(w) ==
    /\ Active(w) /\ worker'[w].pc = "idle"
    /\ \A u \in Workers : u # w => worker'[u] = worker[u]
    /\ \/ kills' # 0 /\ UNCHANGED queue
       \/ /\ kills' = kills
          /\ \A m \in Message : queue'[m] = IF m = worker[w].msg THEN queue[m] + 1 ELSE queue[m]
    /\ UNCHANGED <<row, progress, rtask, request, overlapped>>

LEMMA LossLeaves ==
    ASSUME TypeOK, NEW w \in Workers, Kill(w) \/ Crash(w)
    PROVE  Leaves(w)
<1>0. StoresOK /\ WorkersOK
  BY DEF TypeOK
<1>1. /\ Active(w) /\ Become(w, IdleWorker) /\ IdleWorker.pc = "idle"
      /\ UNCHANGED <<row, progress, rtask, request, overlapped>>
  BY DEF Kill, Crash, IdleWorker
<1>2. \A u \in Workers : worker'[u] = IF u = w THEN IdleWorker ELSE worker[u]
  BY <1>0, <1>1 DEF Become, WorkersOK
<1>3. \/ kills' # 0 /\ UNCHANGED queue
      \/ /\ kills' = kills
         /\ \A m \in Message : queue'[m] = IF m = worker[w].msg THEN queue[m] + 1 ELSE queue[m]
  BY <1>0 DEF Kill, Crash, StoresOK
<1> QED BY <1>1, <1>2, <1>3 DEF Leaves

\* What a request may do to the states of one document, and to its task.
Requested(d) ==
    /\ \A e \in Docs : e # d => /\ row'[e] = row[e] /\ progress'[e] = progress[e]
                                /\ (DeleteRequested(e)' <=> DeleteRequested(e))
    /\ DeleteRequested(d) => DeleteRequested(d)'
    /\ ~DeleteRequested(d)' => /\ row'[d] \in {row[d], "uploaded", "queued"}
                               /\ progress'[d] \in {progress[d], "queued"}

LEMMA RequestRequests ==
    ASSUME IndexInv, NEW q \in Requests, RequestStep(q)
    PROVE  /\ UNCHANGED <<worker, overlapped, kills>>
           /\ \A t \in Tasks : rtask'[t] \in {rtask[t], "pending"}
           /\ \A m \in Message : queue'[m] >= queue[m]
           /\ \E d \in Docs : Requested(d)
<1>0. TypeOK /\ StoresOK /\ RequestsOK /\ DeletersOnly
  BY DEF IndexInv, TypeOK
<1>1. UNCHANGED <<worker, overlapped, kills>>
  BY DEF RequestStep, Arrive, BeginUpload, BeginRetry, BeginDelete, Handle, Dispatch,
     AnnounceQueued, RecordPending, CommitUpload, CommitRetry, RemoveObject, DropMilvus,
     DropEs, ClearProgress, CommitDelete, Abort, faults
<1>2. \A t \in Tasks : rtask'[t] \in {rtask[t], "pending"}
  <2>1. CASE RecordPending(q)
    BY <1>0, <2>1 DEF RecordPending, StoresOK
  <2>2. CASE ~RecordPending(q)
    <3>1. rtask' = rtask
      BY <2>2 DEF RequestStep, Arrive, BeginUpload, BeginRetry, BeginDelete, Handle,
         Dispatch, AnnounceQueued, CommitUpload, CommitRetry, RemoveObject, DropMilvus,
         DropEs, ClearProgress, CommitDelete, Abort
    <3> QED BY <3>1
  <2> QED BY <2>1, <2>2
<1>3. \A m \in Message : queue'[m] >= queue[m]
  <2>1. CASE Dispatch(q)
    <3>1. PICK n : queue' = [queue EXCEPT ![n] = queue[n] + 1]
      BY <2>1 DEF Dispatch
    <3> QED BY <1>0, <3>1 DEF StoresOK
  <2>2. CASE ~Dispatch(q)
    <3>1. queue' = queue
      BY <2>2 DEF RequestStep, Arrive, BeginUpload, BeginRetry, BeginDelete, Handle,
         AnnounceQueued, RecordPending, CommitUpload, CommitRetry, RemoveObject, DropMilvus,
         DropEs, ClearProgress, CommitDelete, Abort
    <3> QED BY <1>0, <3>1 DEF StoresOK
  <2> QED BY <2>1, <2>2
<1>4. CASE Arrive(q)
  <2>1. PICK d \in Docs : Arrives(q, d)
    BY <1>0, <1>4, ArriveArrives
  <2>2. row' = row /\ progress' = progress /\ request[q].op = "none"
    BY <1>0, <1>4 DEF Arrive, BeginUpload, BeginRetry, BeginDelete, RequestsOK
  <2>3. /\ \A e \in Docs : e # d => (DeleteRequested(e)' <=> DeleteRequested(e))
        /\ DeleteRequested(d) => DeleteRequested(d)'
    <3>1. \A r \in Requests : r # q => request'[r] = request[r]
      BY <2>1 DEF Arrives
    <3>2. request'[q].doc = d
      BY <2>1 DEF Arrives
    <3> QED BY <2>2, <3>1, <3>2 DEF DeleteRequested
  <2>4. Requested(d)
    BY <2>2, <2>3 DEF Requested
  <2> QED BY <1>1, <1>2, <1>3, <2>4
<1>5. CASE Handle(q)
  <2>1. Continues(q)
    BY <1>0, <1>5, HandleContinues
  <2>2. PICK d \in Docs : d = request[q].doc
    BY <1>0, <2>1 DEF Continues, RequestsOK
  <2>3. \A e \in Docs : DeleteRequested(e)' <=> DeleteRequested(e)
    BY <2>1 DEF Continues, DeleteRequested
  <2>4. /\ \A e \in Docs : e # d => row'[e] = row[e] /\ progress'[e] = progress[e]
        /\ ~DeleteRequested(d) => /\ row'[d] \in {row[d], "uploaded", "queued"}
                                  /\ progress'[d] \in {progress[d], "queued"}
    <3>1. CASE ClearProgress(q) \/ CommitDelete(q)
      <4>1. request[q].op = "delete"
        BY <1>0, <3>1 DEF ClearProgress, CommitDelete, DeletersOnly, DeletePc
      <4>2. DeleteRequested(d)
        BY <2>2, <4>1 DEF DeleteRequested
      <4> QED BY <1>0, <2>2, <3>1, <4>2 DEF ClearProgress, CommitDelete, StoresOK
    <3>2. CASE AnnounceQueued(q)
      BY <1>0, <2>2, <3>2 DEF AnnounceQueued, StoresOK
    <3>3. CASE CommitUpload(q) \/ CommitRetry(q)
      BY <1>0, <2>2, <3>3 DEF CommitUpload, CommitRetry, StoresOK
    <3>4. CASE Dispatch(q) \/ RecordPending(q) \/ RemoveObject(q) \/ DropMilvus(q)
                 \/ DropEs(q) \/ Abort(q)
      BY <3>4 DEF Dispatch, RecordPending, RemoveObject, DropMilvus, DropEs, Abort
    <3> QED BY <1>5, <3>1, <3>2, <3>3, <3>4 DEF Handle
  <2>5. Requested(d)
    BY <2>3, <2>4 DEF Requested
  <2> QED BY <1>1, <1>2, <1>3, <2>2, <2>5
<1> QED BY <1>4, <1>5 DEF RequestStep

----------------------------------------------------------------------------
\* A running task is alive

\* Executions that have not written the last word about their task.
Underway(w, t) == worker[w].pc \notin {"idle", "notify", "ack"} /\ TaskOf(w) = t

\* An attempt is announced as "retrying" only if another one is allowed, so the
\* broker really has a message once it is republished.
RetriesAreAllowed ==
    \A w \in Workers :
        Active(w) /\ (worker[w].stage = "retrying" \/ worker[w].pc = "republish")
            => HasRetry(worker[w].msg)

\* What an execution leaves behind when it is acknowledged does not say
\* "running", unless another copy of the task is there to say so.
RunningIsUnderway ==
    kills = 0 => \A t \in Tasks : rtask[t] = "running" =>
        \/ \E m \in Message : Waiting(m, t)
        \/ \E w \in Workers : Underway(w, t)

RunningInv == IndexInv /\ RetriesAreAllowed /\ RunningIsUnderway

LEMMA RunningInit == Init => RunningInv
<1> SUFFICES ASSUME Init PROVE RunningInv
  OBVIOUS
<1>1. /\ \A w \in Workers : worker[w].pc = "idle"
      /\ \A t \in Tasks : rtask[t] # "running"
  BY DEF Init, IdleWorker
<1> QED BY <1>1, IndexInit DEF RunningInv, RetriesAreAllowed, RunningIsUnderway, Active

LEMMA RetriesStep ==
    ASSUME IndexInv, RetriesAreAllowed, [Next]_vars
    PROVE  RetriesAreAllowed'
<1>1. CASE worker' = worker
  BY <1>1 DEF RetriesAreAllowed, Active
<1>2. ASSUME NEW w \in Workers, NEW v,
             \A u \in Workers : worker'[u] = IF u = w THEN v ELSE worker[u],
             v.pc # "idle" /\ (v.stage = "retrying" \/ v.pc = "republish") => HasRetry(v.msg)
      PROVE  RetriesAreAllowed'
  BY <1>2 DEF RetriesAreAllowed, Active
<1>3. ASSUME NEW w \in Workers, WorkerStep(w) PROVE RetriesAreAllowed'
  <2>0. TypeOK
    BY DEF IndexInv
  <2>1. CASE Take(w)
    <3>1. PICK m \in Message : Takes(w, m)
      BY <2>0, <2>1, TakeTakes
    <3> QED BY <3>1 DEF Takes, RetriesAreAllowed, Active
  <2>2. CASE Process(w)
    <3>1. Active(w) /\ \E v : Executes(w, v)
      BY <2>0, <2>2, ProcessExecutes
    <3>2. PICK v : Executes(w, v)
      BY <3>1
    <3>3. /\ worker[w].pc # "idle" /\ worker[w].stage \in Status
          /\ v.pc # "idle" => v.msg = worker[w].msg
          /\ worker[w].stage = "retrying" \/ worker[w].pc = "republish"
                => HasRetry(worker[w].msg)
      BY <2>0, <3>1, <3>2 DEF Executes, RetriesAreAllowed, Active, TypeOK, WorkersOK, Worker
    <3>4. v.pc # "idle" /\ (v.stage = "retrying" \/ v.pc = "republish")
            => HasRetry(worker[w].msg)
      <4>1. CASE Writes(w, v)
        BY <3>3, <4>1 DEF Writes, Work, Status, Stage, Terminal
      <4>2. CASE Proceeds(w, v)
        BY <3>3, <4>2 DEF Proceeds
      <4> QED BY <3>2, <4>1, <4>2 DEF Executes
    <3>5. \A u \in Workers : worker'[u] = IF u = w THEN v ELSE worker[u]
      BY <3>2 DEF Executes
    <3> QED BY <1>2, <3>3, <3>4, <3>5
  <2>3. CASE Kill(w) \/ Crash(w)
    <3>1. Leaves(w)
      BY <2>0, <2>3, LossLeaves
    <3> QED BY <3>1 DEF Leaves, RetriesAreAllowed, Active
  <2> QED BY <1>3, <2>1, <2>2, <2>3 DEF WorkerStep
<1>4. ASSUME NEW q \in Requests, RequestStep(q) PROVE worker' = worker
  BY <1>4, RequestRequests
<1> QED BY <1>1, <1>3, <1>4 DEF Next, vars

LEMMA RequestKeepsUnderway ==
    ASSUME RunningInv, NEW q \in Requests, RequestStep(q)
    PROVE  RunningIsUnderway'
<1>1. /\ worker' = worker /\ kills' = kills
      /\ \A t \in Tasks : rtask'[t] \in {rtask[t], "pending"}
      /\ \A m \in Message : queue'[m] >= queue[m]
  BY RequestRequests DEF RunningInv
<1>2. \A m \in Message : queue[m] \in Nat /\ queue'[m] \in Nat
  BY IndexStep DEF RunningInv, IndexInv, TypeOK, StoresOK, Next
<1>3. \A t \in Tasks, m \in Message : Waiting(m, t) => Waiting(m, t)'
  BY <1>1, <1>2 DEF Waiting
<1>4. \A t \in Tasks, w \in Workers : Underway(w, t)' <=> Underway(w, t)
  BY <1>1 DEF Underway, TaskOf
<1> QED BY <1>1, <1>3, <1>4 DEF RunningInv, RunningIsUnderway

LEMMA TakeKeepsUnderway ==
    ASSUME RunningInv, NEW w \in Workers, Take(w)
    PROVE  RunningIsUnderway'
<1>1. PICK m \in Message : Takes(w, m)
  BY TakeTakes DEF RunningInv, IndexInv
<1>2. Underway(w, m.task)'
  BY <1>1 DEF Takes, Underway, TaskOf
<1>3. \A t \in Tasks, u \in Workers : Underway(u, t) => Underway(u, t)'
  BY <1>1 DEF Takes, Underway, TaskOf
<1>4. \A t \in Tasks, n \in Message : Waiting(n, t) /\ t # m.task => Waiting(n, t)'
  BY <1>1 DEF Takes, Waiting
<1>5. kills' = kills /\ \A t \in Tasks : t # m.task => rtask'[t] = rtask[t]
  BY <1>1 DEF Takes
<1> QED BY <1>2, <1>3, <1>4, <1>5 DEF RunningInv, RunningIsUnderway

LEMMA ProcessKeepsUnderway ==
    ASSUME RunningInv, NEW w \in Workers, Process(w)
    PROVE  RunningIsUnderway'
<1>0. TypeOK /\ StoresOK /\ WorkersOK
  BY DEF RunningInv, IndexInv, TypeOK
<1>1. Active(w) /\ \E v : Executes(w, v)
  BY <1>0, ProcessExecutes
<1>2. PICK v : Executes(w, v)
  BY <1>1
<1>3. PICK t \in Tasks : t = TaskOf(w)
  BY <1>0, <1>1 DEF WorkersOK, Active, TaskOf, Message
<1>4. /\ worker[w].pc # "idle" /\ worker[w].stage \in Status /\ worker[w].msg \in Message
      /\ worker[w].pc = "republish" => HasRetry(worker[w].msg)
  BY <1>0, <1>1 DEF WorkersOK, Worker, Active, RunningInv, RetriesAreAllowed
<1>5. \A s \in Tasks : s # t => rtask'[s] = rtask[s]
  BY <1>0, <1>2, <1>3 DEF Executes, Writes, Announce, StoresOK
<1>6. /\ \A u \in Workers, s \in Tasks : u # w => (Underway(u, s)' <=> Underway(u, s))
      /\ \A s \in Tasks : Underway(w, s) => s = t
      /\ kills' = kills
  BY <1>2, <1>3 DEF Executes, Underway, TaskOf
<1>7. CASE worker[w].pc = "republish"
  <2>1. PICK n \in Message : n = [worker[w].msg EXCEPT !.retries = @ + 1] /\ n.task = t
    <3>1. [worker[w].msg EXCEPT !.retries = @ + 1] \in Message
      BY <1>4, <1>7, MaxRetriesAssumption DEF Message, HasRetry
    <3>2. [worker[w].msg EXCEPT !.retries = @ + 1].task = t
      BY <1>3, <1>4 DEF Message, TaskOf
    <3> QED BY <3>1, <3>2
  <2>2. queue' = [queue EXCEPT ![n] = queue[n] + 1]
    BY <1>2, <1>7, <2>1 DEF Executes, Writes, Proceeds
  <2>3. \A m \in Message : queue'[m] = IF m = n THEN queue[m] + 1 ELSE queue[m]
    BY <1>0, <2>1, <2>2 DEF StoresOK
  <2>4. \A m \in Message : queue[m] \in Nat
    BY <1>0 DEF StoresOK
  <2>5. Waiting(n, t)' /\ \A m \in Message, s \in Tasks : Waiting(m, s) => Waiting(m, s)'
    BY <2>1, <2>3, <2>4 DEF Waiting
  <2> QED BY <1>5, <1>6, <2>1, <2>5 DEF RunningInv, RunningIsUnderway
<1>8. CASE worker[w].pc # "republish"
  <2>1. queue' = queue
    BY <1>2, <1>8 DEF Executes, Writes
  <2>2. \A m \in Message, s \in Tasks : Waiting(m, s)' <=> Waiting(m, s)
    BY <2>1 DEF Waiting
  <2>3. CASE v.pc \notin {"idle", "notify", "ack"}
    <3>1. Underway(w, t)'
      BY <1>2, <1>3, <2>3 DEF Executes, Underway, TaskOf
    <3> QED BY <1>5, <1>6, <2>2, <3>1 DEF RunningInv, RunningIsUnderway
  <2>4. CASE v.pc \in {"notify", "ack"}
    <3>1. /\ rtask' = [rtask EXCEPT ![t] = RecordStatus(worker[w].stage)]
          /\ worker[w].stage \in {"ready", "partial_failed", "failed"}
      BY <1>2, <1>3, <1>4, <1>8, <2>4
         DEF Executes, Writes, Proceeds, Announce, Work, Status, Stage, Terminal
    <3>2. rtask'[t] # "running"
      BY <1>0, <3>1 DEF RecordStatus, StoresOK
    <3> QED BY <1>5, <1>6, <2>2, <3>2 DEF RunningInv, RunningIsUnderway
  <2>5. CASE v.pc = "idle"
    <3>1. worker[w].pc \in {"notify", "ack"} /\ rtask' = rtask
      BY <1>2, <1>4, <1>8, <2>5
         DEF Executes, Writes, Proceeds, Work, Status, Stage, Terminal
    <3>2. \A s \in Tasks : ~Underway(w, s)
      BY <3>1 DEF Underway
    <3> QED BY <1>6, <2>2, <3>1, <3>2 DEF RunningInv, RunningIsUnderway
  <2> QED BY <2>3, <2>4, <2>5
<1> QED BY <1>7, <1>8

LEMMA RunningStep == RunningInv /\ [Next]_vars => RunningInv'
<1> SUFFICES ASSUME RunningInv, [Next]_vars PROVE RunningInv'
  OBVIOUS
<1>0. TypeOK /\ IndexInv' /\ RetriesAreAllowed'
  BY IndexStep, RetriesStep DEF RunningInv, IndexInv
<1>1. ASSUME UNCHANGED vars PROVE RunningIsUnderway'
  BY <1>1 DEF RunningInv, RunningIsUnderway, Waiting, Underway, TaskOf, vars
<1>2. ASSUME NEW w \in Workers, Kill(w) \/ Crash(w) PROVE RunningIsUnderway'
  <2>1. Leaves(w)
    BY <1>0, <1>2, LossLeaves
  <2> SUFFICES ASSUME kills' = 0 PROVE RunningIsUnderway'
    BY DEF RunningIsUnderway
  <2>2. /\ worker[w].msg \in Message /\ \A m \in Message : queue[m] \in Nat
        /\ kills = 0 /\ rtask' = rtask
        /\ \A m \in Message : queue'[m] = IF m = worker[w].msg THEN queue[m] + 1 ELSE queue[m]
    BY <1>0, <2>1 DEF Leaves, TypeOK, StoresOK, WorkersOK, Active
  <2>3. \A m \in Message, t \in Tasks : Waiting(m, t) => Waiting(m, t)'
    BY <2>2 DEF Waiting
  <2>4. PICK n \in Message : n = worker[w].msg
    BY <2>2
  <2>5. \A t \in Tasks : Underway(w, t) => Waiting(n, t)'
    BY <2>2, <2>4 DEF Waiting, Underway, TaskOf
  <2>6. \A u \in Workers, t \in Tasks : u # w /\ Underway(u, t) => Underway(u, t)'
    BY <2>1 DEF Leaves, Underway, TaskOf
  <2> QED BY <2>2, <2>3, <2>5, <2>6 DEF RunningInv, RunningIsUnderway
<1>3. RunningIsUnderway'
  <2>1. ASSUME NEW w \in Workers, WorkerStep(w) PROVE RunningIsUnderway'
    BY <1>2, <2>1, TakeKeepsUnderway, ProcessKeepsUnderway DEF WorkerStep
  <2> QED BY <1>1, <2>1, RequestKeepsUnderway DEF Next
<1> QED BY <1>0, <1>3 DEF RunningInv

\* Unless an execution is killed, a task whose record says "running" waits in
\* the broker or is being executed: for any number of redeliveries, retries
\* and overlapping executions of one task.
THEOREM RunningAlive == Spec => []RunningIsAlive
<1>1. RunningInv => RunningIsAlive
  BY DEF RunningInv, RunningIsUnderway, RunningIsAlive, Outstanding, Underway, Active
<1> QED BY RunningInit, RunningStep, <1>1, PTL DEF Spec

----------------------------------------------------------------------------
\* The published status of a document
\*
\* Both facts are about documents no two executions work on, and need to know
\* how far the one execution is between its two stores.

QueuedFor(d) == \E m \in Message : m.doc = d /\ queue[m] > 0

\* What a request writes after its dispatch, or no row at all.
Late == {"absent", "uploaded", "queued"}

Agree(d) == row[d] \in Late \/ progress[d] \in {"queued", row[d]}

\* An execution that has written a stage to PostgreSQL and has still to write
\* it to Redis, for the first time or again.
Owes(v) == v.pc \in {"progress", "fetch", "batches"}

Owed(v) == CASE v.pc = "progress" -> v.stage
             [] v.pc = "fetch" -> "parsing"
             [] v.pc = "batches" -> "chunking"

RestsInAgreement(d) ==
    ~QueuedFor(d) /\ (\A w \in Workers : ~WorksOn(w, d)) => Agree(d)

WorksTowardsAgreement(d) ==
    \A w \in Workers : WorksOn(w, d) =>
        /\ Owes(worker[w]) => row[d] \in Late \union {Owed(worker[w])}
        /\ worker[w].pc \in {"notify", "ack"} => QueuedFor(d) \/ Agree(d)

\* What the only execution of a document has announced last; a request may
\* have announced "queued" since.
Announced(v) ==
    CASE v.pc = "fetch" -> {"parsing"}
      [] v.pc \in {"batches", "purge", "store"} -> {"chunking"}
      [] v.pc \in {"es", "milvus"} -> {"indexing"}
      [] At(v, {"row", "progress"}, {"parsing"}) -> {"queued"}
      [] At(v, {"row", "progress"}, {"chunking"}) -> {"parsing"}
      [] At(v, {"row", "progress"}, {"indexing"}) -> {"chunking"}
      [] At(v, {"row", "progress"}, {"ready", "partial_failed"}) -> {"indexing"}
      [] OTHER -> Progress

InStep(d) ==
    \A w \in Workers : WorksOn(w, d) => progress[d] \in Announced(worker[w]) \union {"queued"}

StatusAt(d) ==
    Clean(d) => /\ kills = 0 => RestsInAgreement(d) /\ WorksTowardsAgreement(d)
                /\ InStep(d)

StatusInv == IndexInv /\ RetriesAreAllowed /\ \A d \in Docs : StatusAt(d)

LEMMA StatusInit == Init => StatusInv
<1> SUFFICES ASSUME Init PROVE StatusInv
  OBVIOUS
<1>1. \A d \in Docs : /\ row[d] = "absent"
                      /\ \A w \in Workers : ~WorksOn(w, d)
  BY DEF Init, IdleWorker, WorksOn, Active
<1>2. \A d \in Docs : StatusAt(d)
  BY <1>1 DEF StatusAt, RestsInAgreement, WorksTowardsAgreement, InStep, Agree, Late
<1>3. IndexInv /\ RetriesAreAllowed
  BY IndexInit, RunningInit DEF RunningInv
<1> QED BY <1>2, <1>3 DEF StatusInv

\* A document the step is not about.
Untouched(d) ==
    /\ row'[d] = row[d] /\ progress'[d] = progress[d]
    /\ Clean(d)' => Clean(d)
    /\ kills' = 0 => kills = 0
    /\ QueuedFor(d)' <=> QueuedFor(d)
    /\ \A w \in Workers : WorksOn(w, d)' <=> WorksOn(w, d)
    /\ \A w \in Workers : WorksOn(w, d) => worker'[w] = worker[w]

LEMMA UntouchedKeepsStatus ==
    ASSUME NEW d \in Docs, StatusAt(d), Untouched(d)
    PROVE  StatusAt(d)'
<1>1. Agree(d)' <=> Agree(d)
  BY DEF Untouched, Agree
<1>2. RestsInAgreement(d) => RestsInAgreement(d)'
  BY <1>1 DEF Untouched, RestsInAgreement
<1>3. WorksTowardsAgreement(d) => WorksTowardsAgreement(d)'
  BY <1>1 DEF Untouched, WorksTowardsAgreement
<1>4. InStep(d) => InStep(d)'
  BY DEF Untouched, InStep
<1> QED BY <1>2, <1>3, <1>4 DEF StatusAt, Untouched

\* The next record of worker w, which has worked on another document or on none
\* and will, does not show at document d.
LEMMA OtherDocument ==
    ASSUME NEW w \in Workers, NEW d \in Docs, ~WorksOn(w, d), ~WorksOn(w, d)',
           \A u \in Workers : u # w => worker'[u] = worker[u]
    PROVE  /\ \A u \in Workers : WorksOn(u, d)' <=> WorksOn(u, d)
           /\ \A u \in Workers : WorksOn(u, d) => worker'[u] = worker[u]
  BY DEF WorksOn, Active, DocOf

LEMMA RequestKeepsStatus ==
    ASSUME StatusInv, NEW q \in Requests, RequestStep(q), NEW d \in Docs
    PROVE  StatusAt(d)'
<1>1. /\ worker' = worker /\ overlapped' = overlapped /\ kills' = kills
      /\ \A m \in Message : queue'[m] >= queue[m] /\ queue[m] \in Nat /\ queue'[m] \in Nat
  <2>1. IndexInv'
    BY IndexStep DEF StatusInv, Next
  <2> QED BY <2>1, RequestRequests DEF StatusInv, IndexInv, TypeOK, StoresOK
<1>2. /\ DeleteRequested(d) => DeleteRequested(d)'
      /\ ~DeleteRequested(d)' => /\ row'[d] \in {row[d], "uploaded", "queued"}
                                 /\ progress'[d] \in {progress[d], "queued"}
  <2>1. PICK e \in Docs : Requested(e)
    BY RequestRequests DEF StatusInv
  <2> QED BY <2>1 DEF Requested
<1> SUFFICES ASSUME Clean(d)'
             PROVE  /\ kills' = 0 => RestsInAgreement(d)' /\ WorksTowardsAgreement(d)'
                    /\ InStep(d)'
  BY DEF StatusAt
<1>3. /\ Clean(d) /\ row'[d] \in {row[d], "uploaded", "queued"}
      /\ progress'[d] \in {progress[d], "queued"}
  BY <1>1, <1>2 DEF Clean
<1>4. /\ QueuedFor(d) => QueuedFor(d)'
      /\ Agree(d) => Agree(d)'
      /\ \A w \in Workers : WorksOn(w, d)' <=> WorksOn(w, d)
  BY <1>1, <1>3 DEF QueuedFor, Agree, Late, WorksOn, Active, DocOf
<1>5. InStep(d)'
  BY <1>1, <1>3, <1>4 DEF StatusInv, StatusAt, InStep
<1>6. ASSUME kills' = 0 PROVE RestsInAgreement(d)' /\ WorksTowardsAgreement(d)'
  BY <1>1, <1>3, <1>4, <1>6
     DEF StatusInv, StatusAt, RestsInAgreement, WorksTowardsAgreement, Late
<1> QED BY <1>5, <1>6

LEMMA TakeKeepsStatus ==
    ASSUME StatusInv, NEW w \in Workers, Take(w), NEW d \in Docs
    PROVE  StatusAt(d)'
<1>0. TypeOK /\ StatusAt(d)
  BY DEF StatusInv, IndexInv
<1>1. PICK m \in Message : Takes(w, m)
  BY <1>0, TakeTakes
<1>2. /\ row' = row /\ progress' = progress /\ request' = request /\ kills' = kills
      /\ \A u \in Workers : u # w => worker'[u] = worker[u]
      /\ ~WorksOn(w, d) /\ (WorksOn(w, d)' <=> d = m.doc)
      /\ worker'[w].pc = "row" /\ worker'[w].stage = "queued"
  BY <1>1 DEF Takes, WorksOn, Active, DocOf
<1>3. CASE d # m.doc
  <2>1. overlapped'[d] = overlapped[d] /\ \A n \in Message : n.doc = d => queue'[n] = queue[n]
    BY <1>1, <1>3 DEF Takes
  <2>2. (QueuedFor(d)' <=> QueuedFor(d)) /\ (Clean(d)' => Clean(d))
    BY <1>2, <2>1 DEF QueuedFor, Clean, DeleteRequested
  <2>3. /\ \A u \in Workers : WorksOn(u, d)' <=> WorksOn(u, d)
        /\ \A u \in Workers : WorksOn(u, d) => worker'[u] = worker[u]
    BY <1>2, <1>3, OtherDocument
  <2>4. Untouched(d)
    BY <1>2, <2>2, <2>3 DEF Untouched
  <2> QED BY <1>0, <2>4, UntouchedKeepsStatus
<1>4. CASE d = m.doc
  <2> SUFFICES ASSUME Clean(d)'
               PROVE  RestsInAgreement(d)' /\ WorksTowardsAgreement(d)' /\ InStep(d)'
    BY DEF StatusAt
  <2>1. \A u \in Workers : ~WorksOn(u, d)
    BY <1>1, <1>4 DEF Takes, Clean
  <2>2. \A u \in Workers : WorksOn(u, d)' => u = w
    BY <1>2, <2>1 DEF WorksOn, Active, DocOf
  <2>3. RestsInAgreement(d)'
    BY <1>2, <1>4 DEF RestsInAgreement
  <2>4. WorksTowardsAgreement(d)'
    BY <1>2, <2>2 DEF WorksTowardsAgreement, Owes
  <2>5. Announced(worker'[w]) = Progress /\ progress'[d] \in Progress
    BY <1>0, <1>2 DEF Announced, At, TypeOK, StoresOK
  <2>6. InStep(d)'
    BY <2>2, <2>5 DEF InStep
  <2> QED BY <2>3, <2>4, <2>6
<1> QED BY <1>3, <1>4

LEMMA LeaveKeepsStatus ==
    ASSUME StatusInv, NEW w \in Workers, Leaves(w), NEW d \in Docs
    PROVE  StatusAt(d)'
<1>0. /\ TypeOK /\ StatusAt(d) /\ worker[w].msg \in Message
      /\ \A m \in Message : queue[m] \in Nat
  BY DEF StatusInv, IndexInv, TypeOK, WorkersOK, StoresOK, Leaves, Active
<1>1. /\ row' = row /\ progress' = progress /\ (Clean(d)' <=> Clean(d))
      /\ \A u \in Workers : u # w => worker'[u] = worker[u]
      /\ ~WorksOn(w, d)'
      /\ kills' = 0 => kills = 0
  BY DEF Leaves, Clean, DeleteRequested, WorksOn, Active
<1>2. \A u \in Workers : WorksOn(u, d)' =>
         u # w /\ worker'[u] = worker[u] /\ WorksOn(u, d)
  BY <1>1 DEF WorksOn, Active, DocOf
<1>3. kills' = 0 => /\ QueuedFor(d) => QueuedFor(d)'
                    /\ WorksOn(w, d) => QueuedFor(d)'
  BY <1>0 DEF Leaves, QueuedFor, WorksOn, DocOf
<1>4. InStep(d) => InStep(d)'
  BY <1>1, <1>2 DEF InStep
<1>5. Agree(d)' <=> Agree(d)
  BY <1>1 DEF Agree
<1>6. kills' = 0 /\ WorksTowardsAgreement(d) => WorksTowardsAgreement(d)'
  BY <1>1, <1>2, <1>3, <1>5 DEF WorksTowardsAgreement
<1>7. kills' = 0 /\ RestsInAgreement(d) => RestsInAgreement(d)'
  <2> SUFFICES ASSUME kills' = 0, RestsInAgreement(d), ~QueuedFor(d)',
                      \A u \in Workers : ~WorksOn(u, d)'
               PROVE  Agree(d)
    BY <1>5 DEF RestsInAgreement
  <2>1. \A u \in Workers : ~WorksOn(u, d)
    <3>1. \A u \in Workers : u # w /\ WorksOn(u, d) => WorksOn(u, d)'
      BY <1>1 DEF WorksOn, Active, DocOf
    <3> QED BY <1>3, <3>1
  <2> QED BY <1>3, <2>1 DEF RestsInAgreement
<1> QED BY <1>0, <1>1, <1>4, <1>6, <1>7 DEF StatusAt

\* A step of the only execution of a document, by what it writes.
LEMMA ExecutionKeepsStatus ==
    ASSUME StatusInv, NEW w \in Workers, NEW v, Executes(w, v), Active(w),
           NEW d \in Docs, d = DocOf(w), Clean(d)
    PROVE  /\ v.pc # "idle" => progress'[d] \in Announced(v) \union {"queued"}
           /\ kills = 0 =>
                /\ v.pc # "idle" /\ Owes(v) => row'[d] \in Late \union {Owed(v)}
                /\ v.pc \in {"idle", "notify", "ack"} => QueuedFor(d)' \/ Agree(d)'
<1>0. /\ StoresOK /\ worker[w] \in Worker /\ worker[w].msg \in Message
      /\ worker[w].pc # "idle" /\ worker[w].stage \in Status /\ TaskOf(w) \in Tasks
      /\ progress[d] \in Progress /\ worker[w].msg.doc = d
      /\ worker[w].pc = "republish" => HasRetry(worker[w].msg)
  BY DEF StatusInv, IndexInv, TypeOK, StoresOK, WorkersOK, Worker, Active, Message, TaskOf,
     DocOf, RetriesAreAllowed
<1>1. WorksOn(w, d) /\ StatusAt(d)
  BY DEF StatusInv, WorksOn
<1>2. progress[d] \in Announced(worker[w]) \union {"queued"}
  BY <1>1 DEF StatusAt, InStep
<1>3. kills = 0 =>
        /\ Owes(worker[w]) => row[d] \in Late \union {Owed(worker[w])}
        /\ worker[w].pc \in {"notify", "ack"} => QueuedFor(d) \/ Agree(d)
  BY <1>1 DEF StatusAt, WorksTowardsAgreement
<1>4. CASE worker[w].pc = "row" /\ Writes(w, v)
  <2>1. /\ v.pc = "progress" /\ v.stage = worker[w].stage
        /\ row' = RowWith(d, v.stage) /\ progress' = progress
    BY <1>4 DEF Writes
  <2>2. row'[d] \in {"absent", v.stage}
    BY <1>0, <2>1 DEF RowWith, StoresOK
  <2>3. Announced(v) = Announced(worker[w])
    BY <1>4, <2>1 DEF Announced, At
  <2> QED BY <1>2, <2>1, <2>2, <2>3 DEF Owed, Late
<1>5. CASE worker[w].pc = "progress" /\ Writes(w, v)
  <2> DEFINE s == worker[w].stage
  <2>1. /\ v.pc = Work(s).pc /\ v.stage = Work(s).stage /\ row' = row
        /\ progress'[d] = s
    BY <1>0, <1>5 DEF Writes, Announce, StoresOK
  <2>2. s \in Announced(v) \union {"queued"}
    BY <1>0, <2>1 DEF Announced, At, Work, Status, Stage, Terminal, Progress
  <2>3. v.pc # "progress" /\ (Owes(v) => s = Owed(v))
    BY <1>0, <2>1 DEF Owes, Owed, Work, Status, Stage, Terminal
  <2>4. kills = 0 => row'[d] \in Late \union {s}
    BY <1>3, <1>5, <2>1 DEF Owes, Owed
  <2>5. kills = 0 => Agree(d)'
    BY <2>1, <2>4 DEF Agree
  <2>6. kills = 0 /\ Owes(v) => row'[d] \in Late \union {Owed(v)}
    BY <2>3, <2>4
  <2>7. progress'[d] \in Announced(v) \union {"queued"}
    BY <2>1, <2>2
  <2> QED BY <2>5, <2>6, <2>7
<1>6. CASE worker[w].pc = "fetch" /\ Writes(w, v)
  <2>1. v.pc = "row" /\ v.stage = "chunking" /\ progress'[d] = "parsing"
    BY <1>0, <1>6 DEF Writes, Announce, StoresOK
  <2>2. Announced(v) = {"parsing"}
    BY <2>1 DEF Announced, At
  <2> QED BY <2>1, <2>2 DEF Owes
<1>7. CASE worker[w].pc = "batches" /\ Writes(w, v)
  <2>1. v.pc = "purge" /\ progress'[d] = "chunking"
    BY <1>0, <1>7 DEF Writes, Announce, StoresOK
  <2>2. Announced(v) = {"chunking"}
    BY <2>1 DEF Announced, At
  <2> QED BY <2>1, <2>2 DEF Owes
<1>8. CASE worker[w].pc = "republish" /\ Writes(w, v)
  <2>1. /\ v.pc = "ack" /\ progress' = progress
        /\ queue' = [queue EXCEPT ![[worker[w].msg EXCEPT !.retries = @ + 1]] = @ + 1]
    BY <1>8 DEF Writes
  <2>2. PICK n \in Message : n = [worker[w].msg EXCEPT !.retries = @ + 1] /\ n.doc = d
    <3>1. [worker[w].msg EXCEPT !.retries = @ + 1] \in Message
      BY <1>0, <1>8, MaxRetriesAssumption DEF Message, HasRetry
    <3>2. [worker[w].msg EXCEPT !.retries = @ + 1].doc = d
      BY <1>0 DEF Message
    <3> QED BY <3>1, <3>2
  <2>3. QueuedFor(d)'
    <3>1. queue' = [queue EXCEPT ![n] = queue[n] + 1]
      BY <2>1, <2>2
    <3>2. queue'[n] > 0
      BY <1>0, <2>2, <3>1 DEF StoresOK
    <3> QED BY <2>2, <3>2 DEF QueuedFor
  <2>4. progress[d] \in Announced(v)
    BY <1>0, <2>1 DEF Announced, At
  <2> QED BY <2>1, <2>3, <2>4 DEF Owes
<1>9. CASE Proceeds(w, v) /\ UNCHANGED <<row, progress, rtask, queue>>
  <2>1. v.pc \notin {"progress", "fetch", "batches", "notify", "ack"}
    BY <1>9 DEF Proceeds
  <2>2. v.pc = "idle" => worker[w].pc \in {"notify", "ack"}
    BY <1>9 DEF Proceeds
  <2>3. (QueuedFor(d)' <=> QueuedFor(d)) /\ (Agree(d)' <=> Agree(d))
    BY <1>9 DEF QueuedFor, Agree
  <2>4. v.pc # "idle" => progress[d] \in Announced(v) \union {"queued"}
    BY <1>0, <1>2, <1>9 DEF Proceeds, Announced, At
  <2> QED BY <1>3, <1>9, <2>1, <2>2, <2>3, <2>4 DEF Owes
<1> QED BY <1>4, <1>5, <1>6, <1>7, <1>8, <1>9 DEF Executes, Writes

LEMMA ProcessKeepsStatus ==
    ASSUME StatusInv, NEW w \in Workers, Process(w), NEW d \in Docs
    PROVE  StatusAt(d)'
<1>0. TypeOK /\ StatusAt(d) /\ Alone
  BY DEF StatusInv, IndexInv
<1>1. Active(w) /\ \E v : Executes(w, v)
  BY <1>0, ProcessExecutes
<1>2. PICK v : Executes(w, v)
  BY <1>1
<1>3. /\ \A u \in Workers : worker'[u] = IF u = w THEN v ELSE worker[u]
      /\ v.pc # "idle" => v.msg = worker[w].msg
      /\ kills' = kills /\ (Clean(d)' <=> Clean(d))
  BY <1>2 DEF Executes, Clean, DeleteRequested
<1>4. PICK e \in Docs : e = DocOf(w)
  BY <1>0, <1>1 DEF TypeOK, WorkersOK, Active, DocOf, Message
<1>5. CASE d # e
  <2>1. row'[d] = row[d] /\ progress'[d] = progress[d]
    BY <1>0, <1>2, <1>4, <1>5
       DEF Executes, Writes, RowWith, Announce, TypeOK, StoresOK
  <2>2. \A n \in Message : n.doc = d => queue'[n] = queue[n]
    <3>1. queue' = queue \/ queue' = [queue EXCEPT ![[worker[w].msg EXCEPT !.retries = @ + 1]] = @ + 1]
      BY <1>2 DEF Executes, Writes
    <3>2. [worker[w].msg EXCEPT !.retries = @ + 1].doc = e
      BY <1>0, <1>1, <1>4 DEF TypeOK, WorkersOK, Active, DocOf, Message
    <3> QED BY <1>0, <1>5, <3>1, <3>2 DEF TypeOK, StoresOK
  <2>3. QueuedFor(d)' <=> QueuedFor(d)
    BY <2>2 DEF QueuedFor
  <2>4. ~WorksOn(w, d) /\ ~WorksOn(w, d)'
    BY <1>3, <1>4, <1>5 DEF WorksOn, Active, DocOf
  <2>5. /\ \A u \in Workers : WorksOn(u, d)' <=> WorksOn(u, d)
        /\ \A u \in Workers : WorksOn(u, d) => worker'[u] = worker[u]
    BY <1>3, <2>4, OtherDocument
  <2>6. Untouched(d)
    BY <1>3, <2>1, <2>3, <2>5 DEF Untouched
  <2> QED BY <1>0, <2>6, UntouchedKeepsStatus
<1>6. CASE d = e
  <2> SUFFICES ASSUME Clean(d)'
               PROVE  /\ kills' = 0 => RestsInAgreement(d)' /\ WorksTowardsAgreement(d)'
                      /\ InStep(d)'
    BY DEF StatusAt
  <2>1. /\ v.pc # "idle" => progress'[d] \in Announced(v) \union {"queued"}
        /\ kills = 0 =>
             /\ v.pc # "idle" /\ Owes(v) => row'[d] \in Late \union {Owed(v)}
             /\ v.pc \in {"idle", "notify", "ack"} => QueuedFor(d)' \/ Agree(d)'
    BY <1>1, <1>2, <1>3, <1>4, <1>6, ExecutionKeepsStatus
  <2>2. WorksOn(w, d) /\ (WorksOn(w, d)' <=> v.pc # "idle")
    BY <1>1, <1>3, <1>4, <1>6 DEF WorksOn, Active, DocOf
  <2>3. \A u \in Workers : WorksOn(u, d)' => u = w /\ worker'[u] = v /\ v.pc # "idle"
    <3>1. \A u \in Workers : WorksOn(u, d)' => WorksOn(u, d)
      BY <1>3, <2>2 DEF WorksOn, Active, DocOf
    <3>2. \A u \in Workers : WorksOn(u, d) => u = w
      BY <1>0, <1>3, <2>2 DEF Alone, Clean
    <3> QED BY <1>3, <2>2, <3>1, <3>2
  <2>4. InStep(d)'
    BY <2>1, <2>3 DEF InStep
  <2>5. kills' = 0 => WorksTowardsAgreement(d)'
    BY <1>3, <2>1, <2>3 DEF WorksTowardsAgreement
  <2>6. kills' = 0 => RestsInAgreement(d)'
    BY <1>3, <2>1, <2>2 DEF RestsInAgreement
  <2> QED BY <2>4, <2>5, <2>6
<1> QED BY <1>5, <1>6

LEMMA StatusStep == StatusInv /\ [Next]_vars => StatusInv'
<1> SUFFICES ASSUME StatusInv, [Next]_vars PROVE StatusInv'
  OBVIOUS
<1>0. TypeOK /\ IndexInv' /\ RetriesAreAllowed'
  BY IndexStep, RetriesStep DEF StatusInv, IndexInv
<1>1. ASSUME NEW d \in Docs, UNCHANGED vars PROVE StatusAt(d)'
  <2>1. Untouched(d)
    BY <1>1 DEF Untouched, Clean, DeleteRequested, QueuedFor, WorksOn, Active, DocOf, vars
  <2> QED BY <1>1, <2>1, UntouchedKeepsStatus DEF StatusInv
<1>2. ASSUME NEW d \in Docs, NEW w \in Workers, WorkerStep(w) PROVE StatusAt(d)'
  BY <1>0, <1>2, TakeKeepsStatus, ProcessKeepsStatus, LossLeaves, LeaveKeepsStatus
     DEF WorkerStep
<1>3. \A d \in Docs : StatusAt(d)'
  BY <1>1, <1>2, RequestKeepsStatus DEF Next
<1> QED BY <1>0, <1>3 DEF StatusInv

\* When everything that was under way for a document is over, PostgreSQL and
\* Redis show the same status of it, or one of them shows what a request wrote
\* after the dispatch: no other order of the writers makes them differ, unless
\* an execution is killed or the document is deleted or worked on twice.
THEOREM DriftBounded == Spec => []DriftOnlyByLateWrite
<1>1. StatusInv => DriftOnlyByLateWrite
  <2> SUFFICES ASSUME StatusInv, NEW d \in Docs, Settled(d), kills = 0, Clean(d),
                      row[d] # "absent"
               PROVE  \/ row[d] = progress[d]
                      \/ row[d] \in {"uploaded", "queued"}
                      \/ progress[d] = "queued"
    BY DEF DriftOnlyByLateWrite, Clean
  <2>1. ~QueuedFor(d) /\ \A w \in Workers : ~WorksOn(w, d)
    BY DEF Settled, QueuedFor
  <2>2. Agree(d)
    BY <2>1 DEF StatusInv, StatusAt, RestsInAgreement
  <2> QED BY <2>2 DEF Agree, Late
<1> QED BY StatusInit, StatusStep, <1>1, PTL DEF Spec

----------------------------------------------------------------------------
\* Ingestion implements DocumentLifecycle

\* What a client sees of all documents, and the steps it is promised for one.
Shown == [d \in Docs |-> Published(d)]

MayFollow(old, new) ==
    \/ new \in {"queued", "retrying", "failed", "unmanaged"}
    \/ <<old, new>> \in Lifecycle!Follows
    \/ old = "queued" /\ new \in {"parsing", "chunking", "indexing", "ready", "partial_failed"}

LEMMA ShownInit == Init => Lifecycle!Init
<1> SUFFICES ASSUME Init PROVE Shown = [d \in Docs |-> "absent"]
  BY DEF Lifecycle!Init, Shown
<1>1. \A d \in Docs : Published(d) = "absent"
  BY DEF Init, Published, DeleteRequested, NoRequest
<1> QED BY <1>1 DEF Shown

\* A step that changes what is shown of one document, and changes it as promised.
LEMMA ShownStep ==
    ASSUME NEW d \in Docs,
           \A e \in Docs : e # d => Published(e)' = Published(e),
           Published(d)' # Published(d) =>
               Published(d) # "unmanaged" /\ MayFollow(Published(d), Published(d)')
    PROVE  [Lifecycle!Next]_Shown
<1>1. CASE Published(d)' = Published(d)
  <2>1. \A e \in Docs : Published(e)' = Published(e)
    BY <1>1
  <2>2. Shown' = Shown
    BY <2>1 DEF Shown
  <2> QED BY <2>2
<1>2. CASE Published(d)' # Published(d)
  <2>1. PICK old : old = Published(d)
    OBVIOUS
  <2>2. PICK new : new = Published(d)'
    OBVIOUS
  <2>3. Shown' = [Shown EXCEPT ![d] = new]
    BY <2>2 DEF Shown
  <2>4. Shown[d] = old
    BY <2>1 DEF Shown
  <2>5. old # "unmanaged" /\ MayFollow(old, new)
    BY <1>2, <2>1, <2>2
  <2>6. Lifecycle!Managed(d) /\ Lifecycle!Publish(d, new)
    BY <2>3, <2>4, <2>5 DEF Lifecycle!Managed, Lifecycle!Publish, Shown
  <2>7. CASE new = "queued"
    BY <2>6, <2>7 DEF Lifecycle!Next, Lifecycle!Enqueue
  <2>8. CASE new \in {"retrying", "failed"}
    BY <2>6, <2>8 DEF Lifecycle!Next, Lifecycle!Fail, Lifecycle!Setback
  <2>9. CASE new = "unmanaged"
    BY <2>6, <2>9 DEF Lifecycle!Next, Lifecycle!Release
  <2>10. CASE <<old, new>> \in Lifecycle!Follows
    <3>1. Lifecycle!Advance(d)
      BY <2>4, <2>6, <2>10 DEF Lifecycle!Advance, Shown
    <3> QED BY <3>1 DEF Lifecycle!Next
  <2>11. CASE old = "queued"
              /\ new \in {"parsing", "chunking", "indexing", "ready", "partial_failed"}
    <3>1. Lifecycle!CatchUp(d)
      BY <2>4, <2>6, <2>11
         DEF Lifecycle!CatchUp, Lifecycle!Stage, Lifecycle!Outcome, Shown
    <3> QED BY <3>1 DEF Lifecycle!Next
  <2> QED BY <2>5, <2>7, <2>8, <2>9, <2>10, <2>11 DEF MayFollow
<1> QED BY <1>1, <1>2

\* The next stage an execution announces is one the last announcement allows.
LEMMA ExecutionAdvances ==
    ASSUME StatusInv, NEW w \in Workers, NEW v, Executes(w, v), Active(w),
           NEW d \in Docs, d = DocOf(w), Clean(d)
    PROVE  progress'[d] = progress[d] \/ MayFollow(progress[d], progress'[d])
<1>0. StoresOK /\ worker[w].pc # "idle" /\ worker[w].stage \in Status
  BY DEF StatusInv, IndexInv, TypeOK, WorkersOK, Worker, Active
<1>1. progress[d] \in Announced(worker[w]) \union {"queued"}
  BY DEF StatusInv, StatusAt, InStep, WorksOn
<1>2. CASE worker[w].pc = "progress" /\ Writes(w, v)
  <2>1. PICK s \in Status : s = worker[w].stage
    BY <1>0
  <2>2. progress'[d] = s
    BY <1>0, <1>2, <2>1 DEF Writes, Announce, StoresOK
  <2>3. CASE s = "queued" \/ s = "retrying" \/ s = "failed"
    BY <2>2, <2>3 DEF MayFollow
  <2>4. CASE s = "parsing"
    <3>1. Announced(worker[w]) = {"queued"}
      BY <1>2, <2>1, <2>4 DEF Announced, At
    <3> QED BY <1>1, <2>2, <2>4, <3>1 DEF MayFollow
  <2>5. CASE s = "chunking"
    <3>1. Announced(worker[w]) = {"parsing"}
      BY <1>2, <2>1, <2>5 DEF Announced, At
    <3> QED BY <1>1, <2>2, <2>5, <3>1 DEF MayFollow, Lifecycle!Follows
  <2>6. CASE s = "indexing"
    <3>1. Announced(worker[w]) = {"chunking"}
      BY <1>2, <2>1, <2>6 DEF Announced, At
    <3> QED BY <1>1, <2>2, <2>6, <3>1 DEF MayFollow, Lifecycle!Follows
  <2>7. CASE s = "ready" \/ s = "partial_failed"
    <3>1. Announced(worker[w]) = {"indexing"}
      BY <1>2, <2>1, <2>7 DEF Announced, At
    <3> QED BY <1>1, <2>2, <2>7, <3>1 DEF MayFollow, Lifecycle!Follows
  <2> QED BY <2>3, <2>4, <2>5, <2>6, <2>7 DEF Status, Stage, Terminal
<1>3. CASE worker[w].pc = "fetch" /\ Writes(w, v)
  <2>1. progress'[d] = "parsing"
    BY <1>0, <1>3 DEF Writes, Announce, StoresOK
  <2>2. Announced(worker[w]) = {"parsing"}
    BY <1>3 DEF Announced, At
  <2> QED BY <1>1, <2>1, <2>2 DEF MayFollow
<1>4. CASE worker[w].pc = "batches" /\ Writes(w, v)
  <2>1. progress'[d] = "chunking"
    BY <1>0, <1>4 DEF Writes, Announce, StoresOK
  <2>2. Announced(worker[w]) = {"chunking"}
    BY <1>4 DEF Announced, At
  <2> QED BY <1>1, <2>1, <2>2 DEF MayFollow
<1>5. CASE \/ worker[w].pc \notin {"progress", "fetch", "batches"}
           \/ Proceeds(w, v) /\ UNCHANGED <<row, progress, rtask, queue>>
  <2>1. progress' = progress
    BY <1>5 DEF Executes, Writes
  <2>2. progress'[d] = progress[d]
    BY <2>1
  <2> QED BY <2>2
<1> QED BY <1>2, <1>3, <1>4, <1>5 DEF Executes

LEMMA RequestKeepsPromise ==
    ASSUME StatusInv, NEW q \in Requests, RequestStep(q)
    PROVE  [Lifecycle!Next]_Shown
<1>1. overlapped' = overlapped
  BY RequestRequests DEF StatusInv
<1>2. PICK d \in Docs : Requested(d)
  BY RequestRequests DEF StatusInv
<1>3. \A e \in Docs : e # d => Published(e)' = Published(e)
  BY <1>1, <1>2 DEF Requested, Published
<1>4. ASSUME Published(d)' # Published(d)
      PROVE  Published(d) # "unmanaged" /\ MayFollow(Published(d), Published(d)')
  <2>0. progress[d] # "unmanaged"
    BY DEF StatusInv, IndexInv, TypeOK, StoresOK, Progress, Status, Stage, Terminal
  <2>1. ~overlapped[d] /\ ~DeleteRequested(d)
    BY <1>1, <1>2, <1>4 DEF Requested, Published
  <2>2. Published(d) = progress[d]
    BY <2>1 DEF Published
  <2>3. Published(d)' \in {"unmanaged", "queued"}
    BY <1>1, <1>2, <1>4, <2>2 DEF Requested, Published
  <2> QED BY <2>0, <2>2, <2>3 DEF MayFollow
<1> QED BY <1>3, <1>4, ShownStep

LEMMA WorkerKeepsPromise ==
    ASSUME StatusInv, NEW w \in Workers, WorkerStep(w)
    PROVE  [Lifecycle!Next]_Shown
<1>0. /\ TypeOK /\ \A d \in Docs : progress[d] # "unmanaged"
  BY DEF StatusInv, IndexInv, TypeOK, StoresOK, Progress, Status, Stage, Terminal
<1>1. CASE Take(w)
  <2>1. PICK m \in Message : Takes(w, m)
    BY <1>0, <1>1, TakeTakes
  <2>2. PICK d \in Docs : d = m.doc
    BY DEF Message
  <2>3. progress' = progress /\ \A e \in Docs : DeleteRequested(e)' <=> DeleteRequested(e)
    BY <2>1 DEF Takes, DeleteRequested
  <2>4. /\ \A e \in Docs : e # d => overlapped'[e] = overlapped[e]
        /\ overlapped[d] => overlapped'[d]
    BY <2>1, <2>2 DEF Takes
  <2>5. \A e \in Docs : e # d => Published(e)' = Published(e)
    BY <2>3, <2>4 DEF Published
  <2>6. ASSUME Published(d)' # Published(d)
        PROVE  Published(d) # "unmanaged" /\ Published(d)' = "unmanaged"
    BY <1>0, <2>3, <2>4, <2>6 DEF Published
  <2> QED BY <2>5, <2>6, ShownStep DEF MayFollow
<1>2. CASE Process(w)
  <2>1. Active(w) /\ \E v : Executes(w, v)
    BY <1>0, <1>2, ProcessExecutes
  <2>2. PICK v : Executes(w, v)
    BY <2>1
  <2>3. PICK d \in Docs : d = DocOf(w)
    BY <1>0, <2>1 DEF TypeOK, WorkersOK, Active, DocOf, Message
  <2>4. /\ \A e \in Docs : e # d => progress'[e] = progress[e]
        /\ overlapped' = overlapped
        /\ \A e \in Docs : DeleteRequested(e)' <=> DeleteRequested(e)
    BY <1>0, <2>2, <2>3
       DEF Executes, Writes, Announce, DeleteRequested, TypeOK, StoresOK
  <2>5. \A e \in Docs : e # d => Published(e)' = Published(e)
    BY <2>4 DEF Published
  <2>6. ASSUME Published(d)' # Published(d)
        PROVE  Published(d) # "unmanaged" /\ MayFollow(Published(d), Published(d)')
    <3>1. Clean(d)
      BY <2>4, <2>6 DEF Published, Clean
    <3>2. Published(d) = progress[d] /\ Published(d)' = progress'[d]
      BY <2>4, <3>1 DEF Published, Clean
    <3> QED BY <1>0, <2>1, <2>2, <2>3, <2>6, <3>1, <3>2, ExecutionAdvances
  <2> QED BY <2>5, <2>6, ShownStep
<1>3. CASE Kill(w) \/ Crash(w)
  <2>1. Leaves(w)
    BY <1>0, <1>3, LossLeaves
  <2>2. \A d \in Docs : Published(d)' = Published(d)
    BY <2>1 DEF Leaves, Published, DeleteRequested
  <2>3. Shown' = Shown
    BY <2>2 DEF Shown
  <2> QED BY <2>3
<1> QED BY <1>1, <1>2, <1>3 DEF WorkerStep

\* The pipeline with its requests, retries, crashes and late writes implements
\* the life cycle: unless a document is being deleted or two executions work
\* on it at once, a client that polls its status sees the stages of an attempt
\* one at a time, and "ready" or "partial_failed" only after "indexing" or
\* after a late "queued".
THEOREM LifecycleImplemented == Spec => ImplementsLifecycle
<1>1. StatusInv /\ [Next]_vars => [Lifecycle!Next]_Shown
  <2> SUFFICES ASSUME StatusInv, [Next]_vars PROVE [Lifecycle!Next]_Shown
    OBVIOUS
  <2>1. ASSUME UNCHANGED vars PROVE Shown' = Shown
    BY <2>1 DEF Shown, Published, DeleteRequested, vars
  <2> QED BY <2>1, RequestKeepsPromise, WorkerKeepsPromise DEF Next
<1> QED BY ShownInit, StatusInit, StatusStep, <1>1, PTL
        DEF Spec, ImplementsLifecycle, Lifecycle!Spec, Shown
=============================================================================
