---------------------------- MODULE TrainingJob ----------------------------
(***************************************************************************)
(* One training job (api/v1/admin/training.py, training/tasks.py,          *)
(* services/llm_training_service.py, maintenance/tasks.py): the request    *)
(* that makes it, the deliveries of its Celery task, and the               *)
(* reconciliations that compare the two places where its state is kept.    *)
(*                                                                         *)
(*   automatic activate_on_success and the settings: no human is asked     *)
(*   row       llm_training_jobs, as committed                             *)
(*   record    runtime:task:{id} in Redis                                  *)
(*   request   run_llm_training_async: the row is committed last           *)
(*   message   the task in the broker, which acknowledges it late          *)
(*   worker    the executions of the task.  A session keeps the job as it  *)
(*             first read it: `obj` is its status there, and only a status *)
(*             that differs from it is written                             *)
(*   active    the models of the job that are active, as committed, named  *)
(*             by the executions that registered them.  What Redis says is *)
(*             active is in ModelRegistry                                  *)
(*   result    the Celery result                                           *)
(*   reader    a reconciliation, of the hourly job or of an endpoint       *)
(*                                                                         *)
(* The result of an executor that only planned is refused when its         *)
(* artifact is validated: no completed job carries one, and                *)
(* reconcile_job_result_consistency finds nothing to mend.                 *)
(***************************************************************************)
EXTENDS Naturals, FiniteSets

CONSTANT Deliveries  \* bound: how often the broker delivers the task

Executions == 1 .. Deliveries

VARIABLES automatic, row, record, request, message, worker, active, result, reader,
          disturbed    \* history: an execution died, was silent, late or not
                       \* alone, or one of its records was lost

vars == <<automatic, row, record, request, message, worker, active, result, reader,
          disturbed>>

----------------------------------------------------------------------------
\* Types

Status == {"absent", "pending", "running", "completed", "failed"}

Terminal == {"completed", "failed"}

\* error: runtime stands for training_runtime_* and recovered_timeout.
\* fresh: updated_at is less than stale_after_seconds ago.
Job == [status : Status, error : {"none", "execution", "runtime"}, fresh : BOOLEAN]

Absent == [status |-> "absent", error |-> "none", fresh |-> TRUE]

\* validating_artifact is part of executing.
Stage == {"validating", "executing", "registering", "verifying", "deploying", "completed"}

Worker == [pc    : {"idle", "persist", "record", "work", "gate", "publish", "fail",
                    "fail_record", "ended"},
           stage : Stage,
           obj   : Status,
           activates : BOOLEAN]  \* in the session, not committed yet

IdleWorker == [pc |-> "idle", stage |-> "validating", obj |-> "absent",
               activates |-> FALSE]

\* job: as it was read, then as it will be.  changes: what differs.
Reader == [pc : {"idle", "recover", "jobs", "record", "write"}, hourly : BOOLEAN, job : Job,
           changes : SUBSET {"status", "error"}]

IdleReader == [pc |-> "idle", hourly |-> FALSE, job |-> Absent, changes |-> {}]

TypeOK ==
    /\ automatic \in BOOLEAN
    /\ row \in Job
    /\ record \in Job
    /\ request \in {"idle", "published", "seeded", "ended"}
    /\ message \in {"none", "queued", "taken", "gone"}
    /\ worker \in [Executions -> Worker]
    /\ active \subseteq Executions
    /\ result \in {"none", "completed", "failed"}
    /\ reader \in Reader
    /\ disturbed \in BOOLEAN

Init ==
    /\ automatic \in BOOLEAN
    /\ row = Absent
    /\ record = Absent
    /\ request = "idle"
    /\ message = "none"
    /\ worker = [e \in Executions |-> IdleWorker]
    /\ active = {}
    /\ result = "none"
    /\ reader = IdleReader
    /\ disturbed = FALSE

----------------------------------------------------------------------------
\* run_llm_training_async

Says(status, error) == [status |-> status, error |-> error, fresh |-> TRUE]

Request(from, to) == request = from /\ request' = to

\* create_job, and apply_async.
PublishTask ==
    /\ Request("idle", "published")
    /\ message' = "queued"
    /\ UNCHANGED <<automatic, row, record, worker, active, result, reader, disturbed>>

\* attach_runtime_task, and _seed_runtime_task, which looks at no record there is.
SeedRecord ==
    /\ Request("published", "seeded")
    /\ record' = Says("pending", "none")
    /\ UNCHANGED <<automatic, row, message, worker, active, result, reader, disturbed>>

CommitJob ==
    /\ Request("seeded", "ended")
    /\ row' = Says("pending", "none")
    /\ UNCHANGED <<automatic, record, message, worker, active, result, reader, disturbed>>

\* A failure before the commit rolls the row back; the task stays published.
AbortRequest ==
    /\ request \in {"published", "seeded"}
    /\ request' = "ended"
    /\ UNCHANGED <<automatic, row, record, message, worker, active, result, reader,
                   disturbed>>

----------------------------------------------------------------------------
\* run_training_job

Become(e, w) == worker' = [worker EXCEPT ![e] = w]

Goto(e, pc) == Become(e, [worker[e] EXCEPT !.pc = pc])

Enter(e, stage) == Become(e, [worker[e] EXCEPT !.pc = "persist", !.stage = stage])

At(e, stage) == worker[e].pc = "work" /\ worker[e].stage = stage

Alive(e) == worker[e].pc \notin {"idle", "ended"}

\* The message is taken, or given to another worker when its visibility timeout
\* passes.  A job that is not committed yet does not exist.
Take(e) ==
    /\ message \in {"queued", "taken"}
    /\ worker[e].pc = "idle"
    /\ \A d \in 1 .. e - 1 : worker[d].pc # "idle"
    /\ message' = "taken"
    /\ Become(e, [IdleWorker EXCEPT !.pc = IF row.status = "absent" THEN "fail" ELSE "persist",
                                    !.obj = row.status])
    /\ disturbed' = (disturbed \/ message = "taken")
    /\ UNCHANGED <<automatic, row, record, request, active, result, reader>>

\* What e activates is the only one that is active.
Committed(e) == IF worker[e].activates THEN {e} ELSE active

\* Mutant of StatusOf: the stage is the status.
StatusOfStage(stage) == stage

StatusOf(stage) == IF stage = "completed" THEN "completed" ELSE "running"

\* _persist_job_stage: the session is committed with it.  The error stays.
PersistStage(e) ==
    /\ worker[e].pc = "persist"
    /\ LET status == StatusOf(worker[e].stage)
       IN  /\ row' = [row EXCEPT !.status = IF worker[e].obj = status THEN @ ELSE status,
                                 !.fresh = TRUE]
           /\ Become(e, [worker[e] EXCEPT !.pc = "record", !.obj = status,
                                          !.activates = FALSE])
    /\ active' = Committed(e)
    /\ UNCHANGED <<automatic, record, request, message, result, reader, disturbed>>

\* The end of an execution: its result is stored, the message acknowledged.
Respond(e, status) ==
    /\ result' = status
    /\ message' = "gone"
    /\ Become(e, [IdleWorker EXCEPT !.pc = "ended"])

\* _upsert_runtime_task, which ignores that Redis fails.
RecordStage(e) ==
    /\ worker[e].pc = "record"
    /\ \/ record' = Says(StatusOf(worker[e].stage), "none") /\ UNCHANGED disturbed
       \/ UNCHANGED record /\ disturbed' = TRUE
    /\ Goto(e, "work")
    /\ UNCHANGED <<automatic, row, request, message, active, result, reader>>

\* The last audit event is committed.
Complete(e) ==
    /\ At(e, "completed")
    /\ Respond(e, "completed")
    /\ UNCHANGED <<automatic, row, record, request, active, reader, disturbed>>

\* The manifest is read, the executor runs, its artifact is validated.
Proceed(e, from, to) ==
    /\ At(e, from)
    /\ Enter(e, to)
    /\ UNCHANGED <<automatic, row, record, request, message, active, result, reader,
                   disturbed>>

\* _execute_with_heartbeat: what is as it would write it is left out.
Heartbeat(e) ==
    /\ At(e, "executing")
    /\ ~row.fresh \/ record # Says("running", "none")
    /\ Goto(e, "persist")
    /\ UNCHANGED <<automatic, row, record, request, message, active, result, reader,
                   disturbed>>

\* register_model_from_job, committed at once; then the evaluation gate.
RegisterModel(e) ==
    /\ At(e, "registering")
    /\ Goto(e, "gate")
    /\ UNCHANGED <<automatic, row, record, request, message, active, result, reader, disturbed>>

\* The gate may let the model through; it does not matter if the settings do not.
AssessGate(e) ==
    /\ worker[e].pc = "gate"
    /\ \/ automatic /\ Goto(e, "publish")
       \/ Enter(e, "completed")
    /\ UNCHANGED <<automatic, row, record, request, message, active, result, reader,
                   disturbed>>

\* What is not published is not activated, and the job completes.
PublishModel(e) ==
    /\ worker[e].pc = "publish"
    /\ \/ Enter(e, "verifying")
       \/ Enter(e, "completed")
    /\ UNCHANGED <<automatic, row, record, request, message, active, result, reader,
                   disturbed>>

\* A model that fails it fails the job: see Raise.
VerifyModel(e) ==
    /\ At(e, "verifying")
    /\ Enter(e, "deploying")
    /\ UNCHANGED <<automatic, row, record, request, message, active, result, reader,
                   disturbed>>

\* activate_model; its commit is the one of the next stage.
ActivateModel(e) ==
    /\ At(e, "deploying")
    /\ Become(e, [worker[e] EXCEPT !.pc = "persist", !.stage = "completed",
                                   !.activates = TRUE])
    /\ UNCHANGED <<automatic, row, record, request, message, active, result, reader, disturbed>>

\* An exception, the soft time limit included, rolls the session back.
Raise(e) ==
    /\ worker[e].pc \in {"persist", "record", "work", "gate", "publish"}
    /\ Become(e, [IdleWorker EXCEPT !.pc = "fail"])
    /\ UNCHANGED <<automatic, row, record, request, message, active, result, reader,
                   disturbed>>

\* _mark_job_failure_async, in a session of its own.  It may fail.
MarkFailure(e) ==
    /\ worker[e].pc = "fail"
    /\ \/ row.status # "absent" /\ row' = Says("failed", "execution")
       \/ UNCHANGED row
    /\ Goto(e, "fail_record")
    /\ UNCHANGED <<automatic, record, request, message, active, result, reader, disturbed>>

RecordFailure(e) ==
    /\ worker[e].pc = "fail_record"
    /\ \/ record' = Says("failed", "execution") /\ UNCHANGED disturbed
       \/ UNCHANGED record /\ disturbed' = TRUE
    /\ Respond(e, "failed")
    /\ UNCHANGED <<automatic, row, request, active, reader>>

\* A worker is lost: with its child process the message is acknowledged, with its
\* host it is not.
Die(e) ==
    /\ Alive(e)
    /\ Become(e, [IdleWorker EXCEPT !.pc = "ended"])
    /\ message' \in {"taken", "gone"}
    /\ disturbed' = TRUE
    /\ UNCHANGED <<automatic, row, record, request, active, result, reader>>

----------------------------------------------------------------------------
\* Time

Beats(e) == Alive(e) /\ worker[e].stage = "executing"

\* stale_after_seconds pass, for what nobody keeps fresh: before the task is
\* taken, while its execution publishes or verifies, or after it.
AgeRow ==
    /\ row.status \in {"pending", "running"}
    /\ row.fresh
    /\ \A e \in Executions : ~Beats(e)
    /\ row' = [row EXCEPT !.fresh = FALSE]
    /\ disturbed' = TRUE
    /\ UNCHANGED <<automatic, record, request, message, worker, active, result, reader>>

AgeRecord ==
    /\ record.status \in {"pending", "running"}
    /\ record.fresh
    /\ \A e \in Executions : ~Beats(e)
    /\ record' = [record EXCEPT !.fresh = FALSE]
    /\ disturbed' = TRUE
    /\ UNCHANGED <<automatic, row, request, message, worker, active, result, reader>>

\* runtime_task_retention_seconds: nobody has written it for long.
Expire ==
    /\ record.status \in Terminal \/ ~record.fresh
    /\ \A e \in Executions : ~Alive(e)
    /\ record' = Absent
    /\ UNCHANGED <<automatic, row, request, message, worker, active, result, reader,
                   disturbed>>

----------------------------------------------------------------------------
\* Reconciliations

ReaderBecomes(r) == reader' = r

\* The hourly job first fails the records that are running for too long, an
\* older threshold than the one of the jobs ...
BeginHourly ==
    /\ reader.pc = "idle"
    /\ \/ /\ record.status = "running"
          /\ ~record.fresh
          /\ ReaderBecomes([IdleReader EXCEPT !.pc = "recover", !.hourly = TRUE])
       \/ ReaderBecomes([IdleReader EXCEPT !.pc = "jobs", !.hourly = TRUE])
    /\ UNCHANGED <<automatic, row, record, request, message, worker, active, result,
                   disturbed>>

\* ... as it has read them.
Recover ==
    /\ reader.pc = "recover"
    /\ record' = Says("failed", "runtime")
    /\ ReaderBecomes([reader EXCEPT !.pc = "jobs"])
    /\ disturbed' = TRUE
    /\ UNCHANGED <<automatic, row, request, message, worker, active, result>>

BeginList ==
    /\ reader.pc = "idle"
    /\ ReaderBecomes([IdleReader EXCEPT !.pc = "jobs"])
    /\ UNCHANGED <<automatic, row, record, request, message, worker, active, result,
                   disturbed>>

\* The hourly job does not look at jobs that have failed.  It looks at the 200 jobs that
\* have changed last, and this one is among them: beyond that it would wait for a request.
ReadJob ==
    /\ reader.pc = "jobs"
    /\ ReaderBecomes(IF row.status = "absent" \/ (reader.hourly /\ row.status = "failed")
                     THEN IdleReader
                     ELSE [reader EXCEPT !.pc = "record", !.job = row])
    /\ UNCHANGED <<automatic, row, record, request, message, worker, active, result,
                   disturbed>>

\* An endpoint ends the record of a task that has a result.
Healed == IF ~reader.hourly /\ record.status \in {"pending", "running"} /\ result # "none"
          THEN Says(result, IF result = "failed" THEN "execution" ELSE "none")
          ELSE record

\* Mutant of Reconciled: nothing is too old for it.
ReconciledByRecord(job, seen) ==
    IF seen.status \in Terminal
    THEN [job EXCEPT !.status = seen.status, !.error = IF seen.error = "none" THEN @ ELSE seen.error]
    ELSE job

\* Mutant of Reconciled: the record is not asked how old it is.
ReconciledHastily(job, seen) ==
    IF seen.status \in Terminal
    THEN [job EXCEPT !.status = seen.status, !.error = IF seen.error = "none" THEN @ ELSE seen.error]
    ELSE IF seen.status \in {"pending", "running"} \/ (job.status \notin Terminal /\ ~job.fresh)
    THEN [job EXCEPT !.status = "failed", !.error = "runtime"]
    ELSE job

\* reconcile_job_runtime_state: a job that was given up stays so; the record says
\* how it ended or that it stopped, whatever the job says; a job without a
\* record, or with a fresh one, stops when it is old itself.
Reconciled(job, seen) ==
    IF job.status \notin Terminal /\ job.error = "runtime"
    THEN [job EXCEPT !.status = "failed"]
    ELSE IF seen.status \in Terminal
    THEN [job EXCEPT !.status = seen.status, !.error = IF seen.error = "none" THEN @ ELSE seen.error]
    ELSE IF \/ seen.status \in {"pending", "running"} /\ ~seen.fresh
            \/ job.status \notin Terminal /\ ~job.fresh
    THEN [job EXCEPT !.status = "failed", !.error = "runtime"]
    ELSE job

\* Only what differs from the job as it was read will be written.
ReadRecord ==
    /\ reader.pc = "record"
    /\ record' = Healed
    /\ LET old == reader.job
           new == Reconciled(old, Healed)
       IN  ReaderBecomes(IF new = old THEN IdleReader
                         ELSE [IdleReader EXCEPT
                                 !.pc = "write", !.job = new,
                                 !.changes = {c \in {"status", "error"} : new[c] # old[c]}])
    /\ UNCHANGED <<automatic, row, request, message, worker, active, result, disturbed>>

WriteJob ==
    /\ reader.pc = "write"
    /\ row' = [status |-> IF "status" \in reader.changes THEN reader.job.status ELSE row.status,
               error  |-> IF "error" \in reader.changes THEN reader.job.error ELSE row.error,
               fresh  |-> TRUE]
    /\ ReaderBecomes(IdleReader)
    /\ UNCHANGED <<automatic, record, request, message, worker, active, result,
                   disturbed>>

----------------------------------------------------------------------------
Submit == PublishTask \/ SeedRecord \/ CommitJob \/ AbortRequest

\* What an execution does unless it dies.
Progress(e) ==
    \/ PersistStage(e) \/ RecordStage(e) \/ Complete(e)
    \/ Proceed(e, "validating", "executing") \/ Proceed(e, "executing", "registering")
    \/ RegisterModel(e) \/ AssessGate(e) \/ PublishModel(e) \/ VerifyModel(e)
    \/ ActivateModel(e) \/ Raise(e) \/ MarkFailure(e) \/ RecordFailure(e)

\* The executor, or a time limit.
Finish(e) == At(e, "executing") /\ (Proceed(e, "executing", "registering") \/ Raise(e))

Time == AgeRow \/ AgeRecord \/ Expire

Reconcile ==
    \/ BeginHourly \/ Recover \/ BeginList \/ ReadJob \/ ReadRecord \/ WriteJob

Next ==
    \/ Submit
    \/ \E e \in Executions : Take(e) \/ Progress(e) \/ Heartbeat(e) \/ Die(e)
    \/ Time
    \/ Reconcile

\* An execution has a time limit; the maintenance job is scheduled every hour.
Fairness ==
    /\ \A e \in Executions : WF_vars(Progress(e)) /\ SF_vars(Finish(e))
    /\ WF_vars(AgeRow)
    /\ WF_vars(Reconcile)

Spec == Init /\ [][Next]_vars /\ Fairness

----------------------------------------------------------------------------
\* Properties

\* At most one model of the job is active, though executions overlap.
OneActive == Cardinality(active) <= 1

\* A job that no delay and no loss disturbed has failed only if its execution
\* has: the reconciliations mistake no slow step of the request, of the
\* execution or of its reports for a death.
FailureIsReal ==
    row.status = "failed" /\ ~disturbed =>
        result = "failed" \/ \E e \in Executions : worker[e].pc = "fail_record"

\* Whatever happened to the request, to the executions and to the record, a job
\* comes to an end.
JobEnds == row.status \in {"pending", "running"} ~> row.status \in Terminal
=============================================================================
