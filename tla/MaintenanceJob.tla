--------------------------- MODULE MaintenanceJob ---------------------------
(***************************************************************************)
(* A job that an administrator starts in the background: an evaluation or  *)
(* the export of a public corpus (maintenance/tasks.py, api/v1/admin).     *)
(* Its state is kept twice, in the runtime record that the request, the    *)
(* worker, the polls and the hourly maintenance write, none of which waits *)
(* for another, and in the result that Celery keeps.                       *)
(*                                                                         *)
(*   kind       of the job                                                 *)
(*   request    the one that publishes the task and seeds the record       *)
(*   message    the task in the broker, acknowledged late                  *)
(*   worker     the executions, one per delivery                           *)
(*   record     runtime:task:<id>, and whether it is old: untouched for    *)
(*              runtime_stage_timeout_seconds                              *)
(*   result     what AsyncResult finds: a dictionary with ok, one without, *)
(*              or the exception                                           *)
(*   poll       _get_runtime_task_payload; late if it began when           *)
(*              everything else had ended                                  *)
(*   sweep      recover_stuck_running of the hourly maintenance            *)
(*                                                                         *)
(* The result expires in an hour and the record in two: both are longer    *)
(* than what is modelled here.                                             *)
(***************************************************************************)
EXTENDS Naturals

CONSTANT Deliveries  \* bound: how often the broker delivers the task

Executions == 1 .. Deliveries

VARIABLES kind, request, message, worker, record, result, poll, sweep,
          settled,     \* history: a late poll has ended
          disturbed    \* history: two executions, a sweep that took a living one
                       \* for stuck, a write that was lost, an end cut off

vars == <<kind, request, message, worker, record, result, poll, sweep, settled, disturbed>>

----------------------------------------------------------------------------
\* Types

Terminal == {"completed", "failed"}

Status == {"absent", "pending", "running"} \union Terminal

Outcome == {"none", "ok", "failed", "raised"}

Worker == [pc : {"idle", "work", "audit", "failed", "audit_failure", "return", "ended"},
           outcome : Outcome]

TypeOK ==
    /\ kind \in {"evaluation", "export"}
    /\ request \in {"idle", "published", "ended"}
    /\ message \in {"none", "queued", "taken", "gone"}
    /\ worker \in [Executions -> Worker]
    /\ record \in [status : Status, old : BOOLEAN]
    /\ result \in Outcome
    /\ poll \in [pc : {"idle", "read", "heal"}, status : Status, late : BOOLEAN]
    /\ sweep \in {"idle", "found"}
    /\ settled \in BOOLEAN
    /\ disturbed \in BOOLEAN

Init ==
    /\ kind \in {"evaluation", "export"}
    /\ request = "idle"
    /\ message = "none"
    /\ worker = [e \in Executions |-> [pc |-> "idle", outcome |-> "none"]]
    /\ record = [status |-> "absent", old |-> FALSE]
    /\ result = "none"
    /\ poll = [pc |-> "idle", status |-> "absent", late |-> FALSE]
    /\ sweep = "idle"
    /\ settled = FALSE
    /\ disturbed = FALSE

----------------------------------------------------------------------------
\* The request

Says(status) == [status |-> status, old |-> FALSE]

\* apply_async
Publish ==
    /\ request = "idle"
    /\ request' = "published"
    /\ message' = "queued"
    /\ UNCHANGED <<kind, worker, record, result, poll, sweep, settled, disturbed>>

\* _seed_runtime_task writes "pending" over whatever the worker has written, or
\* fails, or has no Redis.
Seed ==
    /\ request = "published"
    /\ request' = "ended"
    /\ record' \in {record, Says("pending")}
    /\ UNCHANGED <<kind, message, worker, result, poll, sweep, settled, disturbed>>

----------------------------------------------------------------------------
\* The worker

Alive(e) == worker[e].pc \notin {"idle", "ended"}

Become(e, pc, outcome) == worker' = [worker EXCEPT ![e] = [pc |-> pc, outcome |-> outcome]]

\* _upsert_runtime_task_record: a Redis error is nobody's concern.
Upsert(status) ==
    \/ record' = Says(status) /\ UNCHANGED disturbed
    \/ record' = record /\ disturbed' = TRUE

\* The task is taken, or taken again when its visibility timeout passes: with the
\* record of an execution that may have ended.
Take(e) ==
    /\ message \in {"queued", "taken"}
    /\ worker[e].pc = "idle"
    /\ \A f \in 1 .. e - 1 : worker[f].pc # "idle"
    /\ message' = "taken"
    /\ Become(e, "work", "none")
    /\ \/ record' = Says("running") /\ disturbed' = (disturbed \/ message = "taken")
       \/ record' = record /\ disturbed' = TRUE
    /\ UNCHANGED <<kind, request, result, poll, sweep, settled>>

\* on_progress, which asks for no status.
Progress(e) ==
    /\ kind = "evaluation" /\ worker[e].pc = "work"
    /\ Upsert("running")
    /\ UNCHANGED <<kind, request, message, worker, result, poll, sweep, settled>>

\* The record is complete before the audit of an evaluation is written.
Complete(e) ==
    /\ worker[e].pc = "work"
    /\ Upsert("completed")
    /\ IF kind = "evaluation" THEN Become(e, "audit", "none") ELSE Become(e, "return", "ok")
    /\ UNCHANGED <<kind, request, message, result, poll, sweep, settled>>

\* An exception, the soft time limit among them.
WorkFails(e) ==
    /\ worker[e].pc = "work"
    /\ Become(e, "failed", "none")
    /\ UNCHANGED <<kind, request, message, record, result, poll, sweep, settled, disturbed>>

\* _write_audit of an evaluation that is complete: its failure is one of the job.
Audit(e) ==
    /\ worker[e].pc = "audit"
    /\ Become(e, "return", "ok") \/ Become(e, "failed", "none")
    /\ UNCHANGED <<kind, request, message, record, result, poll, sweep, settled, disturbed>>

RecordFailure(e) ==
    /\ worker[e].pc = "failed"
    /\ Upsert("failed")
    /\ IF kind = "evaluation" THEN Become(e, "audit_failure", "none")
       ELSE Become(e, "return", "failed")
    /\ UNCHANGED <<kind, request, message, result, poll, sweep, settled>>

\* A second failure leaves the task with the exception.
AuditFailure(e) ==
    /\ worker[e].pc = "audit_failure"
    /\ Become(e, "return", "failed") \/ Become(e, "return", "raised")
    /\ UNCHANGED <<kind, request, message, record, result, poll, sweep, settled, disturbed>>

\* Celery stores the result and acknowledges the message.
Return(e) ==
    /\ worker[e].pc = "return"
    /\ result' = worker[e].outcome
    /\ message' = "gone"
    /\ Become(e, "ended", worker[e].outcome)
    /\ UNCHANGED <<kind, request, record, poll, sweep, settled, disturbed>>

\* The hard time limit is an exception and an acknowledgement too; one that falls
\* between the completed record and its result leaves the two apart.
Kill(e) ==
    /\ worker[e].pc \in {"work", "audit", "failed", "audit_failure"}
    /\ result' = "raised"
    /\ message' = "gone"
    /\ Become(e, "ended", "raised")
    /\ disturbed' = (disturbed \/ record.status = "completed")
    /\ UNCHANGED <<kind, request, record, poll, sweep, settled>>

\* The process of the worker is lost: the broker will deliver the task again.
Lose(e) ==
    /\ Alive(e) /\ e < Deliveries
    /\ Become(e, "ended", "none")
    /\ UNCHANGED <<kind, request, message, record, result, poll, sweep, settled, disturbed>>

----------------------------------------------------------------------------
\* Polls and sweeps

\* Nobody will write the record any more, but polls and sweeps.
Over == /\ request = "ended" /\ message = "gone"
        /\ \A e \in Executions : ~Alive(e)

PollReads ==
    /\ poll.pc = "idle" /\ record.status # "absent"
    /\ poll' = [pc |-> "read", status |-> record.status, late |-> Over /\ sweep = "idle"]
    /\ UNCHANGED <<kind, request, message, worker, record, result, sweep, settled,
                   disturbed>>

\* A record that is not terminal while the result is there is out of date.
PollCompares ==
    /\ poll.pc = "read"
    /\ IF result # "none" /\ poll.status \notin Terminal
       THEN poll' = [poll EXCEPT !.pc = "heal"] /\ UNCHANGED settled
       ELSE poll' = [poll EXCEPT !.pc = "idle"] /\ settled' = (settled \/ poll.late)
    /\ UNCHANGED <<kind, request, message, worker, record, result, sweep, disturbed>>

\* Mutant of StatusOf: a dictionary is success.
StatusOfAny(r) == IF r = "raised" THEN "failed" ELSE "completed"

StatusOf(r) == IF r = "ok" THEN "completed" ELSE "failed"

\* store.complete and store.fail write the record that was read, whatever has been
\* written since.
PollHeals ==
    /\ poll.pc = "heal"
    /\ record' = Says(StatusOf(result))
    /\ poll' = [poll EXCEPT !.pc = "idle"]
    /\ settled' = (settled \/ poll.late)
    /\ UNCHANGED <<kind, request, message, worker, result, sweep, disturbed>>

Age ==
    /\ record.status # "absent" /\ ~record.old
    /\ record' = [record EXCEPT !.old = TRUE]
    /\ UNCHANGED <<kind, request, message, worker, result, poll, sweep, settled, disturbed>>

SweepReads ==
    /\ sweep = "idle"
    /\ record.status = "running" /\ record.old
    /\ sweep' = "found"
    /\ UNCHANGED <<kind, request, message, worker, record, result, poll, settled,
                   disturbed>>

\* Only an execution that has died without a result is stuck: an evaluation may be
\* silent for longer than the stage timeout.
SweepWrites ==
    /\ sweep = "found"
    /\ record' = Says("failed")
    /\ sweep' = "idle"
    /\ disturbed' = (disturbed \/ result = "ok" \/ message # "gone")
    /\ UNCHANGED <<kind, request, message, worker, result, poll, settled>>

----------------------------------------------------------------------------
Execute(e) ==
    \/ Take(e) \/ Progress(e) \/ Complete(e) \/ WorkFails(e) \/ Audit(e)
    \/ RecordFailure(e) \/ AuditFailure(e) \/ Return(e) \/ Kill(e) \/ Lose(e)

Next ==
    \/ Publish \/ Seed
    \/ \E e \in Executions : Execute(e)
    \/ PollReads \/ PollCompares \/ PollHeals
    \/ Age \/ SweepReads \/ SweepWrites

Spec == Init /\ [][Next]_vars

----------------------------------------------------------------------------
\* Properties

\* Four writers share the record and none looks at what another has written.  Still,
\* when everything has ended, a record that claims an outcome claims the one Celery
\* has, and a poll that begins then leaves no record pending or running: for a job
\* that was executed once and in time, whose writes arrived.
OutcomeIsShown ==
    /\ Over /\ poll.pc = "idle" /\ ~disturbed /\ record.status \in Terminal =>
           (record.status = "completed" <=> result = "ok")
    /\ settled => record.status \in Terminal
=============================================================================
