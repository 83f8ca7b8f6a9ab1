# Formal models of DocMind (documentmanagement_agent)

DocMind is a FastAPI / Celery / Vue system that ingests documents into a
retrieval index and answers questions about them with an agent graph.  This
directory holds TLA+ models of the parts of it in which the *order* of things
matters, TLC runs on small instances, and TLAPS proofs for every value of the
constants.  Paths are relative to the repository; those without a directory at
their front lie under `src/backend/app`.

Contents: 1 inventory, 2 modules and plan, 3-8 the components, 9 runs, bounds
and fairness, 10 where the code and its documents disagree, 11 what is proved,
12 what is only model-checked, 13 what is not modelled.

## 1. Inventory

### 1.1 The processes and the stores

| process | code | concurrency |
|---|---|---|
| API processes | `main.py`, `api/` | asyncio handlers; one database transaction per request (`dependencies.py:96`, `get_db`); four uvicorn workers in `docker-compose.dev.yml:57` |
| Celery workers | `celery_app.py`, `ingestion/tasks.py`, `training/tasks.py`, `maintenance/tasks.py` | one task per worker process at a time (prefetch 1, acks late) |
| Celery beat | `celery_app.py` | hourly maintenance, training reconciliation |
| browser / mobile client | `src/frontend/src` | one event loop per tab, answers in any order |

| store | what it keeps | who writes |
|---|---|---|
| PostgreSQL | documents, chunk rows, users, invitations, devices, messages, checkpoints, training jobs, models | API requests and workers, in transactions |
| Redis | `doc_progress:{doc}`, `runtime:task:{task}`, upload sessions, replay lists, semantic cache, active model, push events | everybody, one command at a time |
| Elasticsearch, Milvus | chunks for search | workers, delete requests, reindexing |
| MinIO | original files | upload and delete requests |
| files under `reports/` | evaluation samples, datasets and reports | API processes and workers, unlocked |
| Celery broker and results | messages, outcomes | API requests, retries of workers |

### 1.2 Components

| component | state | operations | hard behaviours | correct when |
|---|---|---|---|---|
| Ingestion and `DocumentService` | document row, chunk rows, index entries, object, progress hash, runtime record, messages | upload, retry, delete, `process_document` | dispatch before commit, late acks, retries, two executions at once, partial failure of four stores, delete during processing | a ready document is indexed; stages are published in order; deletes are final; a task neither multiplies nor hangs |
| Upload sessions | session and part set in Redis, part files on disk, a semaphore | init, part, complete | two completions, a part during a completion, a failed completion that cleans up | a document is made of exactly the parts that were uploaded, once |
| Index audit and reindexing | the derived indexes | inspect, reindex | runs beside executions and deletes | afterwards the indexes hold what PostgreSQL holds |
| Search and its clients | permits, degraded modes, circuit | search, rerank | time-outs while a permit is held, one store failing | permits return; a lost store costs its own part only |
| Runtime task store and engine | Redis record, per-process cache, replay list | create, update, complete, fail, recover | stale cache of another process, clean-up in `finally`, abandoned generators | a final status is final and is the outcome |
| LangGraph runner and nodes | graph state, native thread, checkpoint rows | route, step, save, resume | a node that runs ahead of its reader, two executions of one thread, resumption from a stale row | the loops end; what is delivered has passed the critic or says it is degraded |
| Chat / WebSocket API, semantic cache | answer row, event stream, replay lists, cache entry | ask, stream, save, cancel, replay, resume | a client that leaves anywhere, two counters of event numbers, three channels with one cache | what was shown is what is kept; nothing is skipped |
| Client: chat | store of one tab | open, ask, retry, delete, stream events | late histories, streams that outlive their session's display | each session shows its own messages |
| Client: session | tokens, profile, single-flight renewal | login, logout, hydrate, refresh | late answers across logins, a renewal refused | nobody gets what is another's; nobody waits for ever |
| Accounts, invitations, mobile OAuth | users, codes, tokens, invitations | register, login, reset, invite, change role, exchange | two requests with one code, tokens that outlive a role | a secret works once; an administrator remains |
| Training jobs | job row, runtime record, Celery result | submit, stages, heartbeat, reconcile | redelivery, a stale job that still runs, sessions that keep old objects | every job ends; a failure is one |
| Model registry | model rows, active and previous in Redis | approve, publish, retry, verify, activate, roll back, retire, reconcile | whole-column writes from old reads, two stores | one active, approved, not retired model |
| Push notifications | devices, event list | register, heartbeat, unregister, send | concurrent registrations, partial refusals | an unregistered device stays silent; failures add up |
| Maintenance jobs | runtime record, Celery result | submit, execute, poll, sweep | four writers of one record | the record ends with the outcome |
| Evaluation | three files per tenant | save, change, delete samples, evaluate, gate | unlocked read-modify-write of files by several processes | the gate opens only for an evaluation that earned it; samples count |

The remaining parts (parsers, embedder, prompts, canary hash, analytics,
observability, scripts, deployment) keep little state or none; `PROJECT.json`
lists all with sources and status, and the hazards of the code at their lines.

### 1.3 Interactions that matter

* An HTTP request and the worker it starts share the document row, the progress
  hash and the runtime record without a lock: the request publishes the message
  *before* its transaction commits (`services/document_service.py:350`,
  `dependencies.py:107`).  Training and maintenance jobs repeat the pattern.
* A retry (`self.retry`) publishes the next attempt before the present one is
  acknowledged; a lost worker leads to redelivery of the same attempt.
* A delete removes the object and the index entries at once and the rows at
  commit; workers go on writing, and a reindexing on reading, meanwhile.
* The runtime record of a task is written by the request, by the worker, by polls
  and by the maintenance job, each through a process-local copy.
* An answer passes through the graph, the runtime (which logs and numbers its
  events), the handler (which logs and numbers them again, guards, caches and
  saves) and the client's store; each of them may be left or lost alone.
* The activation of a model asks the gate, which reads the report an evaluation
  left in files.

## 2. Modules and plan

| module | models | composed with, checked in |
|---|---|---|
| `DocumentLifecycle` | abstract specification: the status a polling client sees | implemented by `Ingestion` |
| `Ingestion` | requests, broker, workers, stores (section 3) | `MCIngestion`, `MCJobs` |
| `IndexSync` | reindexing beside every step of `Ingestion` (3.3) | extends `Ingestion`; `MCPlatform` |
| `UploadSession` | chunked upload, semaphore, clean-up (4) | `MCRequests`, `MCJobs` |
| `RuntimeTask` | task store, engine with its `finally`, recovery (5.1) | `MCConversation` |
| `AgentGraph` | nodes, edges, checkpoints, resumption (5.2) | `MCConversation` |
| `ChatTurn` | one question at the edge: channels, replay, cache, row (5.3) | `MCRequests` |
| `Search` | concurrent hybrid searches (5.4) | `MCPlatform` |
| `ChatClient` | the chat of one browser tab (6.1) | `MCPlatform` |
| `ClientSession` | who is signed in at a tab (6.2) | `MCServices`, `MCJobs` |
| `Accounts` | administrators, invitations, codes, tokens (6.3) | `MCPlatform` |
| `ModelRegistry` | the registry of one tenant (7.1) | `MCModelRegistry` |
| `TrainingJob` | one job, its deliveries, its reconciliations (7.2) | `MCServices`, `MCJobs` |
| `Evaluation` | samples, evaluations, gate (7.3) | `MCEvaluation` |
| `MaintenanceJob` | evaluation and export jobs in the background (8.1) | `MCPlatform` |
| `Push` | devices and the sender (8.2) | `MCServices` |

Proofs are in modules of their own, each of which extends the component's module or,
where components are used by `INSTANCE`, the module of the run that composes them:

| module | theorems about | extends |
|---|---|---|
| `IngestionProofs` | `Ingestion` and its refinement of `DocumentLifecycle` | `Ingestion` |
| `RequestsProofs` | `UploadSession`, `ChatTurn` | `MCRequests` |
| `ConversationProofs` | `RuntimeTask`, `AgentGraph` | `MCConversation` |
| `ServicesProofs` | `TrainingJob`, `Push`, `ClientSession` | `MCServices` |
| `AccountsProofs` | `Accounts` | `MCPlatform` |
| `PlatformProofs` | `IndexSync`, `Search`, `ChatClient`, `MaintenanceJob` | `AccountsProofs`, `IngestionProofs` |
| `ModelRegistryProofs` | `ModelRegistry` | `ModelRegistry` |
| `EvaluationProofs` | `Evaluation` | `MCEvaluation` |

Every invariant and every action property of section 9 is a theorem there (section
11).  What the plan has left is what the prover does not reach: liveness (section 12).
All modules are free of `RECURSIVE`: loops are recursive functions.  The constants of
a component that is instantiated are constrained by an operator of it
(`SearchConstants`, ...), which the modules of the runs assume.

## 3. Ingestion

### 3.1 State and actions against the code

One access to a store is one step; between two steps any process may run.

*Requests* (`services/document_service.py`, `dependencies.py`).  A request is a
record with a program counter.  `BeginUpload` / `BeginRetry` / `BeginDelete`
are the reads and the uncommitted writes at its start; `Dispatch` is
`apply_async`; `AnnounceQueued` the hash; `RecordPending` the runtime record;
`CommitUpload`, `CommitRetry`, `CommitDelete` the commit of `get_db`.
`RemoveObject`, `DropMilvus`, `DropEs`, `ClearProgress` are the clean-up of a
delete, each of which may fail silently as in the code.  `Abort` is an exception
or the loss of the API process at any point: the transaction rolls back and what
went to the other stores stays.  A row the request deletes is locked until it
ends (`Locked`, `ChunksLocked`).

*Workers* (`ingestion/tasks.py`).  `Take` delivers a message; its first act is
the record "running".  Every stage goes through `WriteRow` (`UPDATE documents`,
no effect without a row) and `WriteProgress` (hash and record), as
`_mark_document_progress` does.  `Fetch` downloads and parses,
`ProcessBatches` embeds in batches that may fail one by one, `PurgeChunks` and
`StoreChunks` are the DELETE and the INSERT of `_persist_chunks`, `IndexEs` and
`IndexMilvus` the two index writes, `Acknowledge` the end of the task.
`StepFails` is an exception of the `except` clause at any point of the `try`
body, **the notification after the final status included** (`tasks.py:175`):
a published "ready" then goes back to "retrying".  `Republish` is `self.retry`.
`Kill` is an end outside the `except` clause (hard time limit, an exception not
named, one raised by the clause); `Crash` a lost worker whose message is
redelivered.

*Chunk generations.*  Chunk ids are uuid4, so an execution that chunks a
document makes a generation no other has; `lastGen` numbers them.  The indexes
keep old generations, as the code does.

*History.*  `overlapped[d]` records that two executions worked on a document at
once.  Properties that the code promises only for serial executions say so.

### 3.2 Properties

| property | kind | in words |
|---|---|---|
| `TypeOK` | invariant | types of stores, requests, messages, workers |
| `ReadyIsIndexed` | invariant | a ready document has exactly one generation of chunk rows and Milvus has it |
| `OneCopyPerTask` | invariant | without redelivery a task waits once or is executed once |
| `RunningIsAlive` | invariant | without kills a record "running" belongs to a task that waits or runs |
| `DriftOnlyByLateWrite` | invariant | when all is over, PostgreSQL and Redis agree, or a request wrote late |
| `ChunksOutliveRetries` | action | a retry never takes the last chunk rows of a document |
| `DeletedStaysDeleted` | action | no late write brings a deleted row back |
| `ImplementsLifecycle` | refinement | the published status implements `DocumentLifecycle` |
| `EveryTaskEnds` | liveness | a dispatched task comes to its end |
| `NoFinalFactInRedisOnly` | invariant, violated | see section 10 |

`ReadyIsIndexed` leaves out documents whose delete was requested: an aborted
delete (`services/document_service.py:211`) has already removed index entries,
which nothing restores but a reindexing.

### 3.3 Reindexing (`IndexSync`)

`ReadChunks` is the one SELECT of `reindex_tenant` over the ready documents
(`services/index_sync_service.py`), `ClearEs` and `ClearMilvus` the removal of
the tenant's entries, `BulkIndex` and `UpsertChunks` the two writes.  Each of the
four may fail, which the service swallows.  `IngestionStep` is any step of
`Ingestion`; `touched` collects the documents one of them has changed since the
SELECT.

`ReindexRestores` claims the result for the others only: an index that was
emptied *and* filled holds the chunks of PostgreSQL, and where the report says
that Milvus has taken the chunks, no kept document is missing there.  What it
leaves out is what the code does not do: a document that finishes between the
SELECT and the removal loses its entries, one that is deleted meanwhile comes
back, and a limit keeps some documents only although the removal is of all.

## 4. Chunked uploads

`UploadSession` models `api/v1/documents.py:110-252` and `:402-458`.

A session is a Redis key (`session`), a Redis set of part numbers
(`registered`), a directory with a file per part (`directory`, `file`) and
`merged.bin` (`merged`: which parts lie in it at their place, plus `Torn` if
bytes lie in it that belong elsewhere).  `permits` is
`UPLOAD_COMPLETE_SEMAPHORE`.

| action | code |
|---|---|
| `CreateSession`, `Expire` | `create_upload_session`; the 24 hours of the key |
| `BeginPart`, `OpenPart`, `WritePart`, `RegisterPart`, `PartFails` | `upload_document_chunk`: checks; `mkdir` and `open("wb")`, which empties the file for whoever has it open; the last write; `SADD`; an exception anywhere |
| `BeginCompletion`, `CountParts` | the session is read; `SCARD` against the declared total |
| `StartMerge`, `CopyPart`, `EndMerge`, `InspectMerged` | the `async with` block: permit taken, `merged.bin` emptied, parts copied in order, size and scan, permit given back |
| `StoreObject`, `EnqueueDocument` | `store_local_file_and_enqueue`: `fput_object` reads `merged.bin` by path; row flushed and task published (module `Ingestion` from there) |
| `CompletionFails` | an exception in the `try` block; the `finally` clause runs |
| `DropSession`, `DropParts` | the two `DELETE`s and the `rmtree` of `_cleanup_upload_session` |
| `CommitDocument`, `CompletionBreaksOff` | the commit of `get_db` *after* the clean-up; an exception outside the `try` block |
| `CrashApi` | the API process is lost: requests end, the semaphore is new, Redis and disk stay |

An action is one stretch between two `await`s or one call in a thread.  Files
follow POSIX: `open("wb")` truncates the inode under another writer, `rmtree`
unlinks it (`mine` says that neither has happened to the file a request holds).
Abstractions: copying one part is one step, and so is the `rmtree`; bytes that a
second writer leaves behind are not told apart; `Torn` stays in `merged.bin`
until it is emptied.  The last two concern only the sessions the properties
exempt.

| property | kind | in words |
|---|---|---|
| `StoredIsWhole` | invariant | what a completion puts into MinIO is the whole file: every part it counted was written to the end and lies at its place |
| `OneDocument` | invariant | a session yields one document at most, whatever is retried |
| `PermitsAccounted` | invariant | every permit is free or held by a merging request |
| `CompletionsEnd` (in `WorkEnds`) | liveness | a completion that has begun ends |

The first two are claimed of sessions in which no part is sent again after it
was written (`rewritten`) and no two completions overlap (`overlapped`).  The
code takes no lock against either; with overlap TLC shows two rows for one
session, and with a part sent again during the merge a torn object.  Both are
listed as hazards; no document of the repository promises otherwise.  A
completion that fails still cleans up (`documents.py:252`): the parts are lost
and the client starts anew.

## 5. One question

### 5.1 The runtime record (`RuntimeTask`)

Models `AgentRuntime.run` (`agent/runtime/engine.py:36-228`), the operations of
`TaskStore` it uses and `recover_stuck_running` (`agent/runtime/task_store.py`).

`run` is an asynchronous generator inside a request handler: it stops at each
`yield` until the handler asks for more, and when the handler leaves it the event
loop closes it and its `finally` clause runs.  Every chat run and every sweep has
a `TaskStore` of its own whose `_memory` is preferred to Redis, so each keeps the
record it first read.

| action | code |
|---|---|
| `Register`, `Start` | `register` ("pending"), `update(status="running")` |
| `Produce`, `Persist` | the graph hands over an event; `_persist_event`, then `yield` |
| `Take` | the handler gets it and asks for the next, or breaks off at "done" (`chat.py:503-511`) |
| `Fail` | the timer or an exception inside the graph or the log: the two `except` clauses, which send a notice, an error or nothing and then the apology |
| `Abandon` | cancellation, a dropped generator, or an exception in an `except` clause |
| `Close` | the `finally` clause: `fail` if `runtime_error` has a text, `complete` otherwise |
| `Lose` | the process, or the `finally` clause itself, ends before the record is written |
| `Age`, `Expire` | 600 s without a save; the retention of 7200 s |
| `BeginSweep`, `ScanTask`, `EndScan`, `Recover`, `EndSweep` | `recover_stuck_running`: clock read, `SCAN` and `GET` of each key, `fail` by the copy read |

Events are reduced to their kinds: a status of the graph, its answer, a notice
(no status was sent before the failure), an error, the apology.  Two clocks
matter, the stage timeout and the retention; `old` and `due` stand for the
comparison with the first, and retention is the longer (`config.py:177-179`).
The deny branch of the permission gate is left out: with the default registry
`retrieval.search` is enabled at low risk and is always allowed.

| property | kind | in words |
|---|---|---|
| `RecordIsOutcome` | invariant | "completed" and "failed" are written by the generator alone, at its end, "failed" exactly after an error with a text |
| `OutcomeIsDelivered` | invariant | a failed task has delivered its apology; a completed one its answer and logged no apology, or, after an exception without a text, its apology; or the handler had left |
| `FinalStands` | action | a final record changes only by expiry or by a sweep that had read "running" |
| `YoungIsSpared` | action | only a record nobody saved for the stage timeout is recovered |
| `RunningEnds` (in `QuestionEnds`) | liveness | no record says "running" for ever |

An exception that is not a time-out is kept as `runtime_error = str(exc)`
(`engine.py:173`), whose truth decides at `:225`: one without a text (`KeyError()`, a bare
assertion) sends the apology as any other, and its record says
"completed".  In the model it is the error `"wordless"`; both properties say what it
leads to, and that nothing else leads there.

`FinalStands` states the race as it is: a sweep judges by the record it read in
its scan, so it may turn "completed" into "failed" with `recovered_timeout`, once
per sweep.  `RecordIsOutcome` exempts such a record, which is "recovered" in the
model.  `ApologyIsAnnounced` (no apology without a status, notice or error before
it) is proved and no run repeats it.

### 5.2 The graph (`AgentGraph`)

Models `agent/runtime/langgraph_runner.py` with `agent/nodes` and `agent/agents`.
Of the state of the graph it keeps what edges and nodes decide by; what a
language model, a search or a rule says is any of its outcomes (`Outcomes`).
`NextNode` is the edges, `Marked` the marking of a result that was given up on.

| action | code |
|---|---|
| `Begin` | the original execution, with the native saver or without |
| `Load`, `Run`, `Save` | with the saver: `graph.astream(None)` takes the next node of the thread, runs it, writes the thread; `_emit_node_event` writes the row |
| `RunAhead`, `Consume`, `Deliver` | without it: the task of the graph runs up to `MaxLag` nodes ahead of its reader and alters dictionaries the reader has not yet saved |
| `Resume`, `RunByHand` | a reconnection resumes from the latest row, merged into the thread, or calls the nodes one by one; `generator` and `synthesizer` are no callables there, so a resumption that reaches one fails |
| `Stop` | the client leaves, a timer fires, a node raises, the process dies |

| property | kind | in words |
|---|---|---|
| `IterationBound` (in `ConversationTypeOK`) | invariant | whatever row or thread is resumed, the counter exceeds `MaxIterations` by one in a thread and by two in an execution |
| `DoneIsReviewed` | invariant | a thread ends on a text the critic approved or that says it is degraded, and so does every execution that is not `disturbed` |
| `ExecutionsEnd` (in `QuestionEnds`) | liveness | every execution ends, two on one thread too |

`disturbed` collects the executions the code does not keep from delivering a text of
before the review, each at the resumption that makes it one (`Resume`):

* those that drive the thread at the same time (`Driving`), the resumed one and the one
  under way: they overtake each other, and the slower one may deliver what only the
  faster one's critic has seen;
* one that resumes a thread at its end from a row that is behind it (`RowIsBehind`: the
  execution was stopped between the thread's last write and the row's, or overtaken).
  `astream_resume` lays the row over the thread's values and, with nothing left to run,
  delivers the row's text, `langgraph_runner.py:115-126`.

The ordinary resumption, of a thread whose execution has stopped anywhere before its
end, is not exempted: whatever row it is merged with, its critic sees what it delivers.
`RejectedIsRewritten` and `ManualResumeEnds` at the end of the module are
what one would like; the code does not do it (the critic is given a text again
that no node has rewritten, and a manual resumption may fail), and no run checks
them.

### 5.3 The edge (`ChatTurn`)

Models `api/v1/chat.py`, `api/v1/ws_chat.py`, `retrieval/semantic_cache.py` and the
replay side of the engine for one question of one user, over one of three
channels.  Every event of the runtime is pushed to its replay list by the runtime
and again by the handler, which also numbers events of its own; `log` has a list
per trace.

| action | code |
|---|---|
| `BeginStream`, `Lookup`, `Guard`, `Refuse` | the start of the streaming handler: cache, input guard, a refusal as an answer |
| `TakeEvent`, `Push`, `Send` | an event of the runtime is taken, pushed, yielded |
| `Check`, `StreamAnswer`, `SaveAnswer`, `Put`, `Reply` | output guard, tokens, the row of the answer, the cache, the "done" event |
| `Cancel`, `Break` | the client leaves: `CancelledError` saves what there is (`chat.py:601`); at a `yield` it is `GeneratorExit`, which saves nothing; a failure |
| `BeginDirect` ... `Respond`, `Commit` | the plain HTTP request and the WebSocket, where "done" is sent before the commit |
| `Drop`, `Reconnect`, `Replay`, `EndReplay`, `RefuseResumption`, `ResumeEvent`, `Renumber`, `ReaderPush`, `ReaderSend`, `ReaderBreaks` | the stream is lost, the client comes back with its `Last-Event-ID`, gets what was logged after it, then the resumed graph |

| property | kind | in words |
|---|---|---|
| `ShownIsStored` | invariant | what the client was told is done is what the history keeps; over a WebSocket the commit may still fail |
| `CacheIsSafe` | invariant | the cache serves no text the output guard replaced, and the stream puts none that is degraded |
| `NothingIsSkipped` | action | a first reconnection skips no event, though two counters give the numbers |
| `FinalStaysSaved` | action, violated | see section 10 |

What the code does and the properties leave out: a replay repeats events and ends
with the runtime's own done event; a resumed answer is never stored; HTTP and
WebSocket cache degraded answers; a client cut off after the first event names a
trace without a checkpoint; nothing removes cached answers whose documents are
deleted (`semantic_cache.py:109`, `invalidate_by_doc` has no caller).

### 5.4 The search (`Search`)

Models `HybridSearcher.search` (`retrieval/hybrid_searcher.py`), the clients and
the reranker: concurrent searches that each run a keyword and a vector path as
tasks and compete for `_vector_semaphore` and `_remote_semaphore`.

`SearchElasticsearch`, `SearchDatabase`, `KeywordTimeout` are the keyword path
and its fallback; `Embed`, `AcquireVector`, `SearchMilvus`, `VectorTimeout` the
vector path; `PathRaises` an exception of either; `Gather`, `Traverse`, `Rerank`,
`AcquireRemote`, `RerankRemote` what follows; `Cancel` the loss of the request at
any point; `Recover` the passing of a degraded period or the return of Redis.

`PermitsReturn`: a permit is free or with someone who will give it back,
whatever times out, raises or is cancelled, and wherever.
`LossesAreContained`: no hit is lost that one path found in time because another
path or the reranker failed in a way the code handles; while Redis answers a search
fails only because the vector path has nothing or because of what nobody catches; and
what nobody catches is never answered as an empty result.

Three ways to fail are the code's.  With Milvus lost `_search_vector_path` gives `None`,
on which `hybrid_searcher.py:262` raises, although `README.md:9` speaks of a fallback.
Every path records itself in Redis unguarded, so without Redis a search fails.  And some
calls stand in no `try`, or in one that does not name what they raise (`unhandled`
records it): the fallback to PostgreSQL in `hybrid_searcher.py:220` (`SearchDatabase`),
the queries of `graph_searcher.py:58` and `:99` (`Traverse`), a remote embedder
(`embedder.py:212-226`, `Embed`) and a remote reranker (`reranker.py:122`,
`RerankRemote`) whose answer is JSON of another shape, on which `.get` raises
`AttributeError`.  The permit of the reranker returns in that case too.

## 6. Clients and accounts

### 6.1 The chat of a tab (`ChatClient`)

Models `stores/chat.ts`, `composables/useSSE.ts`, `views/ChatView.vue` and
`layouts/AppLayout.vue` (under `src/frontend/src`).  The server's answers come in any
order: `AnswerHistory` and `HistoryArrives` are apart, and so are the events of a
question's stream (`Accepted`, `StatusEvent`, `StreamingEvent`, `ErrorEvent`, `Saved`,
`DoneEvent`, `StreamEnds`, `Failed`, `Unauthorized`).  The user's inputs are
`Initialize`, `OpenSession`, `ResetToNew`, `DeleteSession`, `ClearAllSessions`, `Send`
and `Retry`, each with what its handler does and no more.  `Initialize` leaves out that
a new question may take the first session for its own if that one is empty
(`stores/chat.ts:325-331`): it only decides which of the user's sessions is used.

`ShownIsOfActive`: messages on the screen belong to the session they are shown
under.  It exempts `returned`: a stream that ends after the user left its session
makes that session active again, under another's messages.  `AnswersStayPut`:
for a `calm` user, who waits for a history before asking and for an answer before
leaving, no answer overwrites another, the composer is disabled only while the
displayed session streams, and the last answer is there whenever its session is.
Without `calm` TLC finds the ways to lose one: both views call `initialize`, and
the second call may wipe a running chat; leaving a streaming session leaves
`isStreaming` set for good; a question sent before its history arrives is wiped;
one sent after an error event writes into the end of the old stream.

### 6.2 The session of a tab (`ClientSession`)

Models `stores/auth.ts`, the interceptors of `api/http.ts`, the 401 of a stream and
`main.ts`, for the web client.  `flow` has a login, a hydration, a call of a view
and a stream, each sent with the token of its moment and answered later (`Accept`,
`Refuse`, `Break`); a refused call waits for one renewal (`AwaitRenewal`, `Renew`,
`RenewalBreaks`, `RenewalRefused`) and is sent again (`Continue`, `GiveUp`).  Whether
a token is good is the server's choice at every call.

`SessionIsOnes`: tokens and profile are those of who signed in last, and of nobody
after that person left, unless `crossed`: somebody left while a renewal was under
way (its answer brings the tokens back) or signed in while one or a hydration was
(the next person gets the tokens or the profile of the last).
`WaitersAreServed` and `HydrationEnds` (in `WorkEnds`): nobody waits for a renewal
that is not under way, and a hydration ends, unless a refresh token was refused: the
401 of `/auth/refresh` goes through the interceptor that awaits the renewal, so the
renewal waits for itself, and with it everybody, until the page is loaded again (the
five seconds of `main.ts:66` only free the boot screen).

### 6.3 Accounts (`Accounts`)

Models `services/auth_service.py`, `services/mobile_oauth_service.py` and their
endpoints for one tenant.  A request reads in its transaction (`Begin...`), decides,
and writes at its commit (`Commit...`) the columns that differ from what it has read;
no read locks.  That accounts with an address of `docmind.local` log in
without having verified it (`auth_service.py:42`) is left out.  A person's
access token carries a role, which decides while `auth_stateless_jwt_context` is on,
for as long as the token lives.

`AdminRemains`: an active administrator remains, although the only guard is that
nobody gives up the own account, unless a request is committed whose author is none
any more (`outlived`): with stateless tokens, or when two administrators demote each
other at once, the tenant loses its last one.  `SecretsWorkOnce`: invitations, codes
and tokens work once, an address has at most one pending invitation (two make the
next invitation fail), and nobody gets an account from a revoked one, as long as no
two requests about one of them are in flight at once (`crossed`): read and mark are
different statements.  Both exemptions are interleavings the code does not exclude, so
what the two properties show is the rest: every sequence of requests, requests beside
each other about different people or secrets, and the writes of columns from old reads.

## 7. Models

### 7.1 The registry (`ModelRegistry`)

Two stores say which model is active: the `is_active` columns of
`llm_model_registry` and a key in Redis, by which answers are routed.  A second key
names the model a rollback returns to.  Every request is one database transaction
whose session keeps a row as it first read it and writes back, by name, the columns
it has changed; approval, publication, verification, gate result and retirement
share one column, `metrics_json`.

| variable | code |
|---|---|
| `row`, `lock` | the committed rows; the transaction that has written a row and not ended |
| `active`, `previous` | the two keys in Redis |
| `request` | step, operation, the objects of the session (`seen`), the columns written (`dirty`), `previous_active_payload` (`replaces`) |
| `decision`, `overwritten`, `drift`, `replaced`, `trusted`, `late` | history, for the properties |

| action | code |
|---|---|
| `BeginOn`, `BeginRollback`, `BeginReconcile`, `BeginRetry`, `ReadModel` | the endpoints of `api/v1/admin/training.py`, `get_model`, `list_models` |
| `RecordApproval`, `RecordPublication`, `FailPublication`, `RecordVerification` | `record_model_approval`, `publish_model_artifact`, `verify_model_serving`: each flushes the whole of `metrics_json` |
| `NextRetry` | the loop over failed publications that are recoverable |
| `PassReadiness` | `ensure_model_activation_readiness`: publication, approval, gate (recorded), verification |
| `RememberActive` | `get_active_model`, read before the row locks are there |
| `ClaimRow`, `SetActive` | the `UPDATE` of all rows of the tenant, then of this model |
| `SavePrevious`, `SaveActive` | the two `SET`s in Redis, before the commit |
| `Compare`, `FlushReconciled` | `reconcile_model_registry_states`, and `retire_nonrecoverable_models` after it |
| `Commit`, `Breaks` | the end of `get_db`; a refusal, an exception, a deadlock the database breaks, a lost process |

Two flushes of one row by different transactions wait for each other, a `SELECT`
never waits: PostgreSQL at its default isolation level.  The settings are the
defaults of `config.py` except that publication is enabled, as in
`docker-compose.dev.yml`.

| property | kind | in words |
|---|---|---|
| `StoresAgree` | invariant | at most one model is marked active, and outside the moment between an activation's last `SET` and its commit Redis names it, unless there is drift |
| `RetiredIsSilent` | invariant | no model is retired and active, although a retirement decides by rows read before others were activated |
| `RollbackRestores` | invariant | the target of a rollback is the model active before the present one, unless its activation read an outdated one or was lost |
| `ActivatedIsApproved` | action | a model becomes active only after an approval, unless a late request rewrote its row or there is drift |
| `RejectedStaysOut` | action, violated | see section 10 |

Drift is what the code does not exclude: an activation lost after its `SET`, or a
reconciliation whose comparison was outdated when it was flushed.  It ends with
the next commit of an activation or of a reconciliation in time, and the
properties are claimed again from there.  Two oddities stay outside them: a model
that was verified but never published is retired, because the reason "verified" is
classified as an unknown failure; and a retired model that is published again
keeps its mark, so a later reconciliation calls it retired again.

### 7.2 Training jobs (`TrainingJob`)

One job, with the request that makes it (`PublishTask`, `SeedRecord`, `CommitJob`: in
this order), the deliveries of its task (`Take`, `PersistStage`, `RecordStage`,
`Heartbeat`, `Proceed` through the stages, `RegisterModel`, `AssessGate`,
`PublishModel`, `VerifyModel`, `ActivateModel`, `Complete`), their failures (`Raise`,
`MarkFailure`, `RecordFailure`, `Die`) and the reconciliations of the hourly job and of
the list endpoint (`BeginHourly`, `Recover`, `BeginList`, `ReadJob`, `ReadRecord`,
`WriteJob`).  The session of an execution keeps the job as first read and writes a
status only when it differs from that.

`FailureIsReal`: a job that no delay and no loss disturbed has failed only if its
execution has: no reconciliation takes a slow step for a death.  `disturbed` is set
when a record or a row grows old under a live execution, or a delivery or write is
lost.  `OneActive` (in `ServicesTypeOK`): one model of the job at most is active,
though executions overlap.  `JobEnds` (in `WorkEnds`): a job comes to an end whatever
happened to its request, its executions and its record.  Exempted, and so in the
code: a job that waits in the queue for more than 300 s is failed by a
reconciliation and runs later, with the error left in its row; a redelivery
registers a second model; the publication has no heartbeat; a failure after the
completing commit marks the job failed though its model is active.  A reconciliation
looks at the 200 jobs that changed last (`maintenance/tasks.py:343`); the model has one
job, which is among them, so `JobEnds` is about jobs that are.

### 7.3 Evaluation (`Evaluation`)

The samples, report and dataset of a tenant are files which API processes and workers
rewrite: `Opened` empties one, `Written` fills it, and between the two whoever reads
finds nothing.  `AppendSample`, `UpdateSample`, `DeleteSample`, `OpenSamples`,
`SaveSamples`, `LoseEdit` are the requests; `Collect` (with `Merge`, the selection of
manual and generated samples; each of its loops is a `FillUp`), `Score` (the gate and
the stamp `generated_at`), `OpenReport`, `WriteReport`, `OpenDataset`, `WriteDataset`,
`Conclude`, `FailRun` an evaluation; `Readiness` the gate; `Reason` what the list says
of a sample.

`ReadyIsEarned`: the gate is open only on the word of an evaluation that passed with
enough samples and is recent; neither an old report nor what is left of two opens it.
One that has failed closes it until another, that has passed, opens the report after
it.  Between the stamp (`evaluation_service.py:89`) and the opening of the report
(`:109`) a callback is awaited (`:104`), so the order that counts is that of the
writing: a passed evaluation that is the older by its stamp reopens the gate if it
opens the report after the failed one has written its files, and this is no clash of
two writers.  `before[v]` are the evaluations that had written theirs when v opened
the report.  `SavedCounts`: what an administrator was told is saved stays and takes
part, as long as no two requests overlap (`raced`) and no two samples share an id
(`doubled`: editing the reference keeps the id, so saving the original again gives it
twice, and update and delete hit both).  `IsFair`, a part of it, is the reference
definition of the merge.  `ListingIsTrue`: the list says what the latest evaluation
did with a sample.  It finds the used ones by the `task_type` "manual_debug"
(`evaluation_service.py:582`), which the page sends with every sample and the endpoint
(`:545`) does not require: the property is about samples saved by the page.  The hint
of `RetrievalDebug.vue:231`, that a saved sample goes along with the next check, is
true under these conditions only: a sample limit may leave it out, and a torn read
followed by an append wipes the file.

## 8. Background jobs and notifications

### 8.1 Maintenance jobs (`MaintenanceJob`)

An evaluation or an export in the background.  `Publish` and `Seed` are the request,
in this order; `Take`, `Progress`, `Complete`, `WorkFails`, `Audit`, `RecordFailure`,
`AuditFailure`, `Return`, `Kill`, `Lose` the executions; `PollReads`, `PollCompares`,
`PollHeals` are `_get_runtime_task_payload`, which mends the record from the Celery
result; `Age`, `SweepReads`, `SweepWrites` the hourly recovery.  `OutcomeIsShown`: when
all has ended, a record that claims an outcome claims that of Celery, and a poll that
begins then leaves no record open, for a job executed once and in time.  The seed may
overwrite what a fast worker wrote, which the poll heals; an evaluation silent for
longer than the stage timeout is failed by a sweep, which nothing heals.

### 8.2 Push devices (`Push`)

`Begin`, `Insert`, `Refresh`, `Unregister`, `Abandon` are the requests, from the read
to the commit; `BeginSend`, `SendV1`, `SendLegacy`, `FailLegacy`, `Deactivate`, `Record`,
`LoseSender` a notification of the ingestion task through its providers.

`UnregisteredStaysSilent` speaks of what is *sent*: a notification that begins (reads the
devices) after a device was unregistered, by a request that met no other one, does not
go to its token, whatever rows requests of before have left for it.  It ends with the
next registration or heartbeat of the token, since `heartbeat_device` makes a device
active as `register_device` does (`push_notification_service.py:125`).  A notification
that had read the devices before still reaches the device, and requests for one token
that overlap may leave it either way: two registrations at once make two rows, on which
the later lookup raises.

`ResultsAddUp` compares the record of a notification with whom it reached (`refused` are
the tokens it did not): "partial_failed" only if some device was not reached, "ok" only
if all were or failures of FCM are collapsed.  Collapsed (`_collapse_results`, `Collapsed`)
means that under `push_notification_fail_closed` the failures of an answer become one
that names no device, of which `_summarize_delivery` counts none; a call to the legacy
interface that fails as a whole does not go through it and counts every device
(`FailLegacy`, `push_notification_service.py:606-610`).  There one error text decides for
all: if it names an invalid token, the whole batch is deactivated (`:737`), so no property
claims that a device is deactivated for its own refusal only.

## 9. Runs, bounds and fairness

Components that share no state are put into one run by a variable `part` that never
changes: a behaviour is one of a single component while the others rest in their
initial states.  A run with a sum explores the states of its parts side by side, not
their product, and a property of a part is claimed under its name where that part
is chosen.  Where names of one component serve for another (requests for searches,
tasks for invitations) the symmetry set permutes them in all at once, and no
operator chooses by name.  Liveness runs use no symmetry, nor does `requests`, where
the permutations cost more than they save; the models of `model_registry` play
different parts from the start.

| run | module, instance | checks |
|---|---|---|
| `ingestion_retry` | `MCIngestion`: 2 requests, 2 tasks, 1 worker, 1 automatic retry, 1 outage | `ReadyIsIndexed`, `DriftOnlyByLateWrite`, `DeletedStaysDeleted`, `ImplementsLifecycle` |
| `ingestion_redelivery` | `MCIngestion`: 1 request, 1 task, 2 workers, 1 retry, 1 crash, 1 kill | `TypeOK`, `OneCopyPerTask`, `RunningIsAlive`, `ChunksOutliveRetries` |
| `everything_ends` | `MCJobs`: ingestion with 2 requests and 1 kill; 1 training job, 1 delivery; 2 completions for 1 permit, 1 crash; a tab with 2 people and 4 inputs | `EveryTaskEnds`, `WorkEnds` |
| `requests` | `MCRequests`: 1 session of 2 parts, 3 part requests, 2 completions, 1 permit; 1 question with 2 events, 1 token, 1 reconnection | `RequestsTypeOK`, `StoredIsWhole`, `OneDocument`, `PermitsAccounted`, `ShownIsStored`, `CacheIsSafe`, `NothingIsSkipped` |
| `conversation` | `MCConversation`: 1 task, 2 sweeps; 2 executions of one thread, 2 iterations, lag 2, 3 intents | `ConversationTypeOK`, `RecordIsOutcome`, `OutcomeIsDelivered`, `DoneIsReviewed`, `FinalStands`, `YoungIsSpared`, `QuestionEnds` |
| `model_registry` | `MCModelRegistry`: 3 models, 2 requests at a time, 3 in all | `TypedAndAgreed`, `RollbackRestores`, `ActivatedIsApproved` |
| `services` | `MCServices`: 1 job that asks no human, 2 deliveries; 2 devices (1 of FCM), 2 rows, 2 requests, 1 sender; a tab with 2 people | `ServicesTypeOK`, `FailureIsReal`, `DevicesAreHeeded`, `SessionHolds` |
| `platform` | `MCPlatform`: reindexing beside 2 requests and 1 worker; 2 searches for 1 permit of each kind; a tab with 3 sessions and 2 questions; 1 maintenance job, 2 deliveries; 3 people, 2 administrators, 2 invitations, 1 secret | `PlatformTypeOK`, `SearchRecovers`, `ChatShowsItsOwn`, `OutcomeIsShown`, `ReindexRestores`, `AdminRemains`, `SecretsWorkOnce` |
| `evaluation` | `MCEvaluation`: 2 questions, 2 administrators, 2 evaluations, 3 requests, reports that are recent for 1 tick, 2 ticks | `ReadyIsEarned`, `SamplesCount` |
| `ingestion_late_commit` | `MCIngestion`: 1 request, 1 task, 1 worker | violation |
| `registry_lost_rejection` | `MCModelRegistry`: 2 models, 2 requests at a time | violation |
| `chat_cancelled_answer` | `MCRequests` as above | violation |

*Why the bounds suffice.*  Documents, upload sessions, tasks and questions share no
store entry with others of their kind, so one of each shows every interleaving; what
they compete for (a permit, a row, a file, a record) needs two actors, and a third
step where a later one must meet what two have left behind.  `MaxCrashes`,
`MaxKills`, `MaxOutages` cap faults of the environment.  `MaxRetries` is a parameter
of the code (3) and is 1 where attempts multiply the states: a third attempt starts
in a state of the shape of the second.  Two parts are enough for "missing", "in the
wrong place" and "short"; two sweeps for a startup recovery beside the hourly one; two
events to tell a number that is skipped from one that is repeated; two questions and
two sessions besides a new one for an answer that finds another in its place; three
models are the active one, its successor and a competitor, and `SpecWithActive`
starts `model_registry` there, since three requests could not bring more of them to
activation.  Three people are two administrators who act on each other and one who is
acted on.  What these bounds leave open for safety is closed by the theorems, in which
every bound is any number and every set of actors is any set.

*Deadlock.*  `CHECK_DEADLOCK FALSE` everywhere: a request, a question or a delivery
is used once, so an instance stops when they are used up.  That nothing stops
*before* that is what the liveness properties say.

*Fairness* is weak fairness of what the platform drives on: a live broker delivers
and a live worker goes on (`Take`, `Process`); a request that has begun ends, by
commit or by an exception (`Handle`, `Complete`); an answer of the server arrives or its
loss is noticed (`Onward`); time passes (`Age`, `AgeRow`); the hourly job runs to its
end (`SweepStep`, `Reconcile`); the event loop runs the graph (`Progress`).  One
condition is strong: an execution of a training job whose stage is repeated by
heartbeats finishes it in the end (`Finish`).  Nothing is assumed of new requests, user
inputs, kills, crashes or losses.  In `MCJobs` and `MCConversation` a condition may name
steps of several parts: no behaviour has steps of two, so it is one on each part's own steps.  The
liveness of a training job is claimed with one delivery; with two, safety only.

## 10. Where the code and its documents disagree

* `ingestion_late_commit`.  The message is published before the request's
  transaction commits, so the commit of "uploaded" / "queued" can land after the
  worker's last write.  The row then says "uploaded" for ever while Redis alone
  holds "ready", until its hash expires.  `docs/ARCHITECTURE.md:91` says Redis
  holds no final fact.
* `registry_lost_rejection`.  An activation reads the row; the administrator's
  rejection of the model is committed; the activation, which looks at the approval it
  has read, records its gate result and with it the old approval, and activates the
  model.  A verification or publication under way does the same to a rejection, so
  that a later activation succeeds.  The message of `record_model_approval`
  (`services/llm_training_service.py:306`) says that a rejected model is kept out.
* `chat_cancelled_answer`.  The handler saves the guarded, watermarked answer, goes on
  to the cache and to its done event, and is cancelled there: its `CancelledError`
  clause saves again, from the text of the runtime that no guard has seen.
  `api/v1/chat.py:577` calls the first save that of the final answer, `:603` the second
  one of a partial answer.

## 11. What is proved

Every invariant and every action property that a passing run checks, and the
refinement of `DocumentLifecycle`.  TLAPS proves them for every value of the
constants, assuming only the named `ASSUME`s of the modules: numbers are naturals,
`None` is nothing else, the set of completions is finite, at least one part and one
permit, signatures and settings as the code normalises them.  A component used by
`INSTANCE` states what its constants must be as an operator (`ChatConstants`,
`SearchConstants`, `AccountConstants`, ...): it stands in front of the theorem about
the component alone, and the module of the run assumes it for the theorems about the
parts side by side, whose names are those of the run's properties.

| theorem | module | states |
|---|---|---|
| `TypeCorrect` | `IngestionProofs` | `[]TypeOK` |
| `ReadyIndexed` | `IngestionProofs` | `[]ReadyIsIndexed` |
| `OneCopy` | `IngestionProofs` | `[]OneCopyPerTask` |
| `DeletedStays`, `ChunksOutlive` | `IngestionProofs` | the two action properties |
| `RunningAlive` | `IngestionProofs` | `[]RunningIsAlive` |
| `DriftBounded` | `IngestionProofs` | `[]DriftOnlyByLateWrite` |
| `LifecycleImplemented` | `IngestionProofs` | `ImplementsLifecycle`, the refinement of `DocumentLifecycle` |
| `TypeCorrect`, `PermitsHold`, `OneDoc`, `StoredWhole` | `RequestsProofs` | upload sessions: `[]TypeOK`, `[]PermitsAccounted`, `[]OneDocument`, `[]StoredIsWhole` |
| `AnswersAreStored` | `RequestsProofs` | `ChatTurn` alone: types, `ShownIsStored`, `CacheIsSafe` |
| `RequestsTyped`, `ShownStored`, `CacheSafe`, `NothingSkipped` | `RequestsProofs` | the properties of `MCRequests`, the last an action property |
| `TypeCorrect` | `ConversationProofs` | `RuntimeTask`: `[]TypeOK` |
| `OutcomeHolds`, `DeliveryHolds`, `AnnouncementHolds` | `ConversationProofs` | `RecordIsOutcome`, `OutcomeIsDelivered`, `ApologyIsAnnounced` |
| `OutcomeStands`, `YoungSpared` | `ConversationProofs` | `FinalStands`, `YoungIsSpared`: action properties |
| `GraphIsReviewed` | `ConversationProofs` | `AgentGraph` alone: types, `IterationBound`, `DoneIsReviewed` |
| `ConversationTyped`, `ReviewHolds` | `ConversationProofs` | the properties of `MCConversation` |
| `PushIsHeeded`, `JobFailureIsReal`, `SessionIsSafe` | `ServicesProofs` | `Push`, `TrainingJob`, `ClientSession` alone |
| `ServicesTyped`, `FailureReal`, `DevicesHeeded`, `SessionHeld` | `ServicesProofs` | the properties of `MCServices` |
| `AdminStays`, `SecretsOnce` | `AccountsProofs` | `Accounts` alone |
| `AdminKept`, `SecretsKept` | `AccountsProofs` | `AdminRemains`, `SecretsWorkOnce` of `MCPlatform` |
| `SyncTypeCorrect`, `ReindexingRestores` | `PlatformProofs` | `IndexSync` beside every step of `Ingestion` |
| `SearchesAreSafe`, `OutcomesAreShown`, `TabShowsItsOwn` | `PlatformProofs` | `Search`, `MaintenanceJob`, `ChatClient` alone |
| `PlatformTyped`, `SearchesRecover`, `ChatShown`, `OutcomeShown`, `ReindexKept` | `PlatformProofs` | the properties of `MCPlatform` |
| `StoresStayInStep` | `ModelRegistryProofs` | `[]TypedAndAgreed`: `TypeOK`, `StoresAgree`, `RetiredIsSilent` |
| `RollbackTargetKept` | `ModelRegistryProofs` | `[]RollbackRestores` |
| `ApprovalComesFirst` | `ModelRegistryProofs` | `ActivatedIsApproved`, an action property |
| `GateIsEarned` | `EvaluationProofs` | `[]ReadyIsEarned` |
| `MergeIsFair` | `EvaluationProofs` | `IsFair` of whatever `Merge` is given |
| `SamplesCounted` | `EvaluationProofs` | `[]SamplesCount` |

A number of states after an inductive invariant says that TLC has checked it, on an
instance of the size of the run's, before it was proved.

*Ingestion.*  `ReadyIsIndexed` is not inductive: it says nothing of an execution
between its DELETE and its write of "ready".  `IndexInv` adds, for every
execution at each of its steps, what it has already put into PostgreSQL and
Milvus, that generations are fresh, and that without overlap no other execution
works on the document.  `CopyInv` counts the copies of a task over the queue and
the workers and says which attempt each carries.  `DeletionInv` relates the
uncommitted deletes to the row lock.

*What a client polls.*  `RunningIsAlive` and `DriftOnlyByLateWrite` speak of what is
left when an execution is over, so they need to know what it still owes.  `Writes`
and `Proceeds` put the eleven actions of an execution into one table of what each
does to row, hash, record and queue (`ProcessExecutes`), and both proofs run over
that table.  `RunningInv` says that a record "running" has a message in the queue
or an execution that has not yet reached its last write, and that who is about to
retry has a retry left.  `StatusInv` says, for a document no two executions work on,
which stage its hash shows at each step (`InStep`) and that the row differs from it
only by the stage that is being written (`WorksTowardsAgreement`).  The refinement
follows from the same table: every write of a hash is a step of `DocumentLifecycle`
(`ExecutionAdvances`), every other step leaves the published status.

*Reindexing.*  `SyncInv` says, of a document nobody has touched since the SELECT,
that what was read is what PostgreSQL has (`AsRead`), and that an index that was
emptied holds either nothing of it or exactly that.  Steps of the ingestion are
one case: they touch the document or leave the four stores as they are.

*Uploads.*  `TypeOK` needs two companions: `PermitsAccounted` (a permit given
back was held, so `permits` stays below the size of the semaphore, by the
cardinality of the set of holders) and `MergedOpen` (a request that still owns
`merged.bin` finds it there).  `OneInv` gives `OneDocument`: clean-up follows the
removal of the key (`Dropped`), a request has its session to itself (`Alone`), and
the key stays until its own request removes it (`KeyStays`); so a second
completion can only begin before the first one drops the key, which is overlap.
`PartsInv` says that registered and just-written parts are whole and that a
writer is alone on its part; `MergeInv` says how far each completion has come.
`StoredIsWhole` follows from all of them.

*Runtime records.*  Three invariants, each of one task, carry the rest.
`PlaceInv` says for each place in the generator which events it can have at hand and
what the handler has got by then: while there is no error no apology is logged, and who
closes has got the answer, or the apology if there is one.  `AnnounceInv` says that
whenever the apology is at hand, or may be without a notice, something has been taken
before; `SweepInv` that nobody holds a task that has not started as running, and that
what a sweep is about to recover has not been saved as running since it was read.

*Model registry.*  `RegistryInv` describes a session by what it has read and not yet
written.  `Fresh`: until another transaction commits over it (`late`), the object a
session holds is the row, but for its own columns; `LocksOK`: what it has flushed is
locked.  `SetsOK` and `VerdictsOK` say that an activation comes to its columns with
an approval it has read; that the approval is also the *last* one holds while
nobody is late, which is what `overwritten` records.  `Activating` ties
`replaces` to the key in Redis until the commit, `Hangs` is the moment between
the two stores, `Reconciles` says the same of a comparison.  `AgreeOK` is then
the agreement whenever nothing hangs and nothing has drifted.  `RollbackRestores`
alone is far from inductive: `RollbackOK` has to leave out the models that are
about to be replaced.  TLC has checked `RegistryInv` on 3 models from
`SpecWithActive` (1,063,362 states) and on 2 models from the general `Init`
(2,441,178 states) before it was proved.

*Evaluations.*  `GateInv`: a report names an evaluation that is past its writing and
repeats its verdict (`ReportIsTrue`); as long as no two have written at once, whoever
has reported is the one in the file or had finished before that one opened it, and an
evaluation about to write has all that reported in its `before` (`InOrder`).  Which
samples were taken is left open by the types of that proof (`RunIn`), so that the gate
does not depend on them.

`SamplesCount` is about nothing else.  `CountInv` says, as
long as no two requests about samples have overlapped, that the file is what the last
one has saved, or empty while one writes (`Alternate`), and, if no id is there twice,
that nothing owed is missing in the file or in what a request is about to save
(`NothingLost`).  Of an evaluation it says that it holds what `Merge` promises of the
samples it has read (`MergedOK`), that a report counts them (`ReportCounts`), and that
as long as no two have written at once report and dataset are of the same one
(`OneWrites`).  A sample that was saved and is not used is then one for which there was
no room: a merge has no signature twice, so one that uses as many manual samples as
there are uses each (`AllAreUsed`, by counting the places and the signatures).

What `Merge` promises (`Merged`) takes induction over its loops.  The library's
induction theorems have an operator as parameter, which no installed prover can
instantiate.  `Climb` has none: a set of numbers up to m that contains 0, and with k - 1
also k, is all of them, by the least number outside it (`LeastNat`, from the library's
fact that < is well-founded).  `FillUpSteps` and `OnlySteps` use it to show that the
recursive functions have the values their equations give, `FillUpFills` and
`OnlyKeeps` to carry a loop's invariant to its end.

*Accounts.*  `AdminRemains` is inductive with one fact about requests: who updates
himself stays an active administrator in the new row or was none in the old one
(`Shaped`), since only the columns that differ from what was read are written.
For `SecretsWorkOnce` the invariant says, until two requests cross, that what every
request has read still holds (`StillTrue`) because no other one concerns the
same invitation, secret or address (`Alone`), and that a use is counted where the
mark is (`InvitationsOK`, `SecretsOK`).  TLC has checked it on 2 people, 2
invitations, 1 secret and 2 of 3 requests at a time (1,528,584 states).  The type of
`uses` bounds it by the number of requests: `UsesBounded` counts the open ones, each of
which may still use something.

*Questions at the edge.*  `ChatInv` (1,269,479 states) follows a question through its
handler, one clause per place, for the stream (`StreamHandler`) and for the two direct
channels (`DirectHandler`): what the row is, what has been put into the cache and what
the client has been told by then.  `NothingIsSkipped` is an action property about
the numbers of two counters, so it needs to know how they stand to each other at every
place (`Numbers`), that the client's last number is not beyond what is at hand
(`LastIsPassed`), and that every event logged is with the client, at hand, or above
that number (`NothingSkippedYet`).

*The graph.*  `GraphInv` is one invariant with the native saver (`NativeOK`) and one
without (`ManualOK`).  `Due` says with which counter, and with which review, a node
can be the next one; `Left` the same of a row a resumption by hand starts from.  Of
two executions that drive a thread both are disturbed, so what an undisturbed one
holds after a node is the state of the thread, and when it finds nothing left to run
it holds the reviewed state it was resumed with.  Without the saver the task of the
graph alters dictionaries its reader has not seen yet, so `AheadOK` and `UpdateOK` say
of each queued update to which dictionary it refers, and that one of the critic's
still has the text that was approved.

*Search.*  `SearchInv`: the holders of a permit are the searches at
Milvus and at the reranker, finitely many however many searches there are, and with the
free permits they make up the semaphore (`HoldersCounted`); `SearchAt` says what the
paths have left when a search has come so far, and that what was not handled has ended
the search or is at a path that will (`unhandled`).

*Clients.*  `TabInv` (128,274 states): rows and answers under way are of the session
they were asked for (`RowsKeepTheirSession`); for a user who waits, a running question
is the last one, is looked at, and its answer is in the server's rows when the stream
is open (`Attended`, `Calm`).  `SessionInv` (10,744 states) says of a tab where nobody
has crossed a renewal that both tokens, the renewal, a login and a hydration under way
are of the one person present (`OnePerson`), and which calls each flow makes.

*Background jobs.*  The invariants of both kinds of jobs describe an undisturbed job
and leave the disturbed one to its types.  Training (1,108,041 states): one execution
has begun, what has a result has ended, and neither row, record nor a reconciliation
that has read them has given the job up (`OneRuns`, `ResultIsLast`, `NotGivenUp`,
`ReaderOK`).  Maintenance (539,599 states, 3 deliveries): the message is gone only with
a result (`Delivered`), the record follows the execution (`RecordFollows`), and a late
poll finds an end that nothing undoes (`LatePollSettles`).

*Push.*  `PushInv`: a request that met no other one knows the only row
of its token (`RequestOK`), what is unregistered is met by unregistrations only
(`GoneOK`) and has no active row (`GoneIsInactive`); a notification has counted a failure
exactly if it has one, unless these are collapsed, and neither those it was sent to nor
those it has left were gone when it began (`SenderOK`).

*What the proofs changed in the models.*  `CASE` with guards that overlap leaves the
choice of an arm open in TLA+, while TLC takes the first: the decisions of
`TrainingJob`, `ModelRegistry` and `Evaluation` that did so are chains of `IF` now, as
the code's are.  Loops that were `SelectSeq` or a fold, of which the prover knows
nothing, are step by step (the replay of `ChatTurn`) or recursive functions (`Only` and
`FillUp` of `Evaluation`).  `ChatClient` needs an identifier for a new session, and
`ClientConstants` says so.

## 12. What is only model-checked

`EveryTaskEnds`, `WorkEnds` (with `JobEnds`, `CompletionsEnd`, `HydrationEnds`) and
`QuestionEnds` (with `RunningEnds`, `ExecutionsEnd`), the liveness properties: TLAPS has
no support for `ENABLED`, which fairness is made of, so they stay with TLC on the
instances of section 9.  So do, by their nature, the three violations of section 10.

The theorems are about the models.  That these follow the code is a matter of reading:
`PROJECT.json` names the lines of each definition.

## 13. What is not modelled

`PROJECT.json` lists every component with its status and, for those modelled in
part, the operations that are missing.  Left out for good: parsers, chunkers,
embedding, prompts, the judgement of guards, evaluation metrics, analytics and
observability (sequential functions of their input), the canary's hash, memory and
calls of the language model, the other frontend views, native apps, deployment
files, scripts and vendored assets.  Inside the modelled parts: the Neo4j graph (best
effort, read by no property), the wording of events and errors, scores and their
order, sizes and content scanning (a scan may fail; what it looks for is left out),
rate limits, and permission checks at the door of the handlers other than those of
administrators.

Behaviours of the code that were seen while modelling and that no property covers:

* the 200 jobs a reconciliation looks at (7.2), the reuse of an empty first session
  (6.1), the exemption of a domain at the login (6.3), samples saved past the page (7.3);
* a device that failed in an answer of FCM's legacy interface is counted among the sent
  ones too: the failure carries a key `error` more than the device it is compared with
  (`services/push_notification_service.py:690`);
* a sticky error field: the progress endpoint prefers an error of an earlier attempt
  (`ingestion/tasks.py:382`);
* a request that dispatched its task and then fails rolls its row back, and the task
  runs for a document that does not exist (`dependencies.py:110`);
* a process lost between registering a task and starting it leaves a record
  "pending", which no sweep recovers (`agent/runtime/task_store.py:176`);
* errors of single items in a bulk request to Elasticsearch are not reported
  (`retrieval/es_client.py:83`);
* a change of the canary percentage reaches the row only; the payload in Redis, by
  which answers are routed, keeps the old one until the next activation
  (`services/llm_training_service.py:328`);
* the rate limiter increments a counter and gives it its expiry by two commands
  (`api/middleware/rate_limit.py:23`);
* an administrator's change of a role resets department and level
  (`services/auth_service.py:184`).
