---------------------------- MODULE RuntimeTask ----------------------------
(***************************************************************************)
(* The runtime record of a chat answer (agent/runtime/engine.py and        *)
(* task_store.py).  AgentRuntime.run is an asynchronous generator: it      *)
(* registers a task, runs the graph under a timer, logs each event and     *)
(* yields it to the handler of the request, and writes the outcome in its  *)
(* `finally`.  recover_stuck_running, at the start of an API process and   *)
(* every hour, fails the records that look dead.                           *)
(*                                                                         *)
(*   record   runtime:task:{task} in Redis: its status; "recovered" is     *)
(*            "failed" with the error recovered_timeout                    *)
(*   old      it was last saved longer ago than the stage timeout          *)
(*   engine   the generator of a task                                      *)
(*   logged   the kinds of events in runtime:replay:{trace}                *)
(*   taken    those the handler has got                                    *)
(*   sweep    a run of recover_stuck_running, with a TaskStore of its own  *)
(*                                                                         *)
(* The permission gate lets retrieval.search through: the default registry *)
(* enables it at low risk.                                                 *)
(***************************************************************************)
CONSTANTS
    Tasks,   \* calls of AgentRuntime.run: each makes its own trace and task id
    Sweeps   \* processes that may run recover_stuck_running at the same time

VARIABLES record, old, engine, logged, taken, sweep,
          abandoned   \* history: the handler left, or lost, its generator

vars == <<record, old, engine, logged, taken, sweep, abandoned>>

store == <<record, old>>

----------------------------------------------------------------------------
\* Types

Status == {"none", "pending", "running", "completed", "failed", "recovered"}

\* A status of the graph, its done event; what precedes the done event of a
\* failed run (no status sent yet, or some sent), and that done event.
Event == {"status", "answer", "notice", "error", "apology"}

\* Mutant of Done: the handler breaks off at any event.
DoneAtOnce == Event

Done == {"answer", "apology"}

\* The errors that leave runtime_error a text: the timer's, and an exception's
\* if it has one.  str(exc) of a "wordless" one is empty, and so it is no error
\* to the finally clause.
Worded == {"timeout", "exception"}

Error == Worded \union {"wordless"}

EnginePc == {"idle", "registered", "graph", "persist", "held", "closing", "ended", "lost"}

Engine == [pc    : EnginePc,
           event : Event,                             \* at hand in persist and held
           sent  : BOOLEAN,                           \* first_event_sent
           error : {"none"} \union Error]              \* how the graph failed

Sweep == [pc   : {"idle", "scan", "judge"},
          left : SUBSET Tasks,       \* keys SCAN has still to return
          due  : SUBSET Tasks,       \* old by the clock read at the start
          copy : [Tasks -> Status]]  \* _memory

IdleEngine == [pc |-> "idle", event |-> "status", sent |-> FALSE, error |-> "none"]

IdleSweep == [pc |-> "idle", left |-> {}, due |-> {}, copy |-> [t \in Tasks |-> "none"]]

TypeOK ==
    /\ record \in [Tasks -> Status]
    /\ old \in [Tasks -> BOOLEAN]
    /\ engine \in [Tasks -> Engine]
    /\ logged \in [Tasks -> SUBSET Event]
    /\ taken \in [Tasks -> SUBSET Event]
    /\ sweep \in [Sweeps -> Sweep]
    /\ abandoned \in [Tasks -> BOOLEAN]

Init ==
    /\ record = [t \in Tasks |-> "none"]
    /\ old = [t \in Tasks |-> FALSE]
    /\ engine = [t \in Tasks |-> IdleEngine]
    /\ logged = [t \in Tasks |-> {}]
    /\ taken = [t \in Tasks |-> {}]
    /\ sweep = [k \in Sweeps |-> IdleSweep]
    /\ abandoned = [t \in Tasks |-> FALSE]

----------------------------------------------------------------------------
\* Redis

\* _save: the record as this store has it, with a new updated_at and expiry.
Save(t, status) ==
    /\ record' = [record EXCEPT ![t] = status]
    /\ old' = [old EXCEPT ![t] = FALSE]

\* runtime_stage_timeout_seconds pass.
Age(t) ==
    /\ record[t] # "none"
    /\ ~old[t]
    /\ old' = [old EXCEPT ![t] = TRUE]
    /\ UNCHANGED <<record, engine, logged, taken, sweep, abandoned>>

\* runtime_task_retention_seconds pass, which are more.
Expire(t) ==
    /\ record[t] # "none"
    /\ old[t]
    /\ record' = [record EXCEPT ![t] = "none"]
    /\ old' = [old EXCEPT ![t] = FALSE]
    /\ UNCHANGED <<engine, logged, taken, sweep, abandoned>>

----------------------------------------------------------------------------
\* AgentRuntime.run

EngineBecome(t, e) == engine' = [engine EXCEPT ![t] = e]

Register(t) ==
    /\ engine[t].pc = "idle"
    /\ Save(t, "pending")
    /\ EngineBecome(t, [engine[t] EXCEPT !.pc = "registered"])
    /\ UNCHANGED <<logged, taken, sweep, abandoned>>

Start(t) ==
    /\ engine[t].pc = "registered"
    /\ Save(t, "running")
    /\ EngineBecome(t, [engine[t] EXCEPT !.pc = "graph"])
    /\ UNCHANGED <<logged, taken, sweep, abandoned>>

\* The graph hands over an event; its done event is the last.
Produce(t, event) ==
    /\ engine[t].pc = "graph"
    /\ EngineBecome(t, [engine[t] EXCEPT !.pc = "persist", !.event = event])
    /\ UNCHANGED <<store, logged, taken, sweep, abandoned>>

\* _persist_event, then yield; the timer starts anew for the graph's events.
Persist(t) ==
    /\ engine[t].pc = "persist"
    /\ logged' = [logged EXCEPT ![t] = @ \union {engine[t].event}]
    /\ EngineBecome(t, [engine[t] EXCEPT !.pc = "held", !.sent = TRUE])
    /\ UNCHANGED <<store, taken, sweep, abandoned>>

\* The handler takes the event.  It breaks off at a done event, and the
\* generator it drops is closed by the event loop; otherwise it asks for more.
Take(t) ==
    LET e == engine[t]
    IN
    /\ e.pc = "held"
    /\ taken' = [taken EXCEPT ![t] = @ \union {e.event}]
    /\ EngineBecome(t, CASE e.event \in Done   -> [e EXCEPT !.pc = "closing"]
                         [] e.event = "status" -> [e EXCEPT !.pc = "graph"]
                         [] OTHER -> [e EXCEPT !.pc = "persist", !.event = "apology"])
    /\ UNCHANGED <<store, logged, sweep, abandoned>>

\* What the except clause for `error` sends first.
FirstOfClause(e, error) ==
    IF ~e.sent THEN "notice" ELSE IF error = "timeout" THEN "apology" ELSE "error"

\* The timer runs out or an exception leaves the graph or the log.  The push
\* may have been done when it does.
Fail(t, error) ==
    /\ engine[t].pc \in {"graph", "persist"}
    /\ engine[t].error = "none"
    /\ \/ UNCHANGED logged
       \/ engine[t].pc = "persist"
          /\ logged' = [logged EXCEPT ![t] = @ \union {engine[t].event}]
    /\ EngineBecome(t, [engine[t] EXCEPT !.pc = "persist", !.error = error,
                                         !.event = FirstOfClause(engine[t], error)])
    /\ UNCHANGED <<store, taken, sweep, abandoned>>

\* The request is cancelled or its generator dropped: by the client, or by
\* the timer when it runs out while the handler holds the event.  So ends an
\* except clause that fails too.
Abandon(t) ==
    /\ engine[t].pc \in {"graph", "persist", "held"}
    /\ EngineBecome(t, [engine[t] EXCEPT !.pc = "closing"])
    /\ abandoned' = [abandoned EXCEPT ![t] = TRUE]
    /\ UNCHANGED <<store, logged, taken, sweep>>

\* Mutants of Outcome: the error as the status; every end a completion.
OutcomeIsError(e) == IF e.error \in Worded THEN e.error ELSE "completed"
OutcomeCompleted(e) == "completed"

\* The finally clause: fail if runtime_error is not empty, complete otherwise.
Outcome(e) == IF e.error \in Worded THEN "failed" ELSE "completed"

\* The TaskStore of the generator prefers its own record, which says "running",
\* to what Redis says by now.
Close(t) ==
    /\ engine[t].pc = "closing"
    /\ Save(t, Outcome(engine[t]))
    /\ EngineBecome(t, [engine[t] EXCEPT !.pc = "ended"])
    /\ UNCHANGED <<logged, taken, sweep, abandoned>>

\* The process is lost, or the finally clause fails or is cancelled again
\* before it reaches the record.
Lose(t) ==
    /\ engine[t].pc \notin {"idle", "ended", "lost"}
    /\ EngineBecome(t, [engine[t] EXCEPT !.pc = "lost"])
    /\ UNCHANGED <<store, logged, taken, sweep, abandoned>>

----------------------------------------------------------------------------
\* recover_stuck_running

SweepBecome(k, s) == sweep' = [sweep EXCEPT ![k] = s]

BeginSweep(k) ==
    /\ sweep[k].pc = "idle"
    /\ SweepBecome(k, [IdleSweep EXCEPT !.pc = "scan",
                                        !.left = {t \in Tasks : record[t] # "none"},
                                        !.due = {t \in Tasks : old[t]}])
    /\ UNCHANGED <<store, engine, logged, taken, abandoned>>

\* One GET.  A record saved since the start is no longer due.
ScanTask(k, t) ==
    /\ sweep[k].pc = "scan"
    /\ t \in sweep[k].left
    /\ SweepBecome(k, [sweep[k] EXCEPT !.left = @ \ {t},
                                       !.due = IF old[t] THEN @ ELSE @ \ {t},
                                       !.copy[t] = record[t]])
    /\ UNCHANGED <<store, engine, logged, taken, abandoned>>

EndScan(k) ==
    /\ sweep[k].pc = "scan"
    /\ sweep[k].left = {}
    /\ SweepBecome(k, [sweep[k] EXCEPT !.pc = "judge"])
    /\ UNCHANGED <<store, engine, logged, taken, abandoned>>

\* Mutants of Stuck: what is completed too; whatever the age; what is pending.
StuckUnlessFailed(k, t) == sweep[k].copy[t] \in {"running", "completed"} /\ t \in sweep[k].due
StuckAtAnyAge(k, t) == sweep[k].copy[t] = "running"
StuckWhenPending(k, t) == sweep[k].copy[t] = "pending" /\ t \in sweep[k].due

Stuck(k, t) == sweep[k].copy[t] = "running" /\ t \in sweep[k].due

\* fail(), of the record read in the scan: Redis is not read again.
Recover(k, t) ==
    /\ sweep[k].pc = "judge"
    /\ Stuck(k, t)
    /\ Save(t, "recovered")
    /\ SweepBecome(k, [sweep[k] EXCEPT !.copy[t] = "recovered"])
    /\ UNCHANGED <<engine, logged, taken, abandoned>>

EndSweep(k) ==
    /\ sweep[k].pc = "judge"
    /\ \A t \in Tasks : ~Stuck(k, t)
    /\ SweepBecome(k, IdleSweep)
    /\ UNCHANGED <<store, engine, logged, taken, abandoned>>

----------------------------------------------------------------------------
EngineStep(t) ==
    \/ Register(t)
    \/ Start(t)
    \/ \E event \in {"status", "answer"} : Produce(t, event)
    \/ Persist(t)
    \/ Take(t)
    \/ \E error \in Error : Fail(t, error)
    \/ Abandon(t)
    \/ Close(t)
    \/ Lose(t)

SweepStep(k) ==
    \/ BeginSweep(k)
    \/ \E t \in Tasks : ScanTask(k, t)
    \/ EndScan(k)
    \/ \E t \in Tasks : Recover(k, t)
    \/ EndSweep(k)

Next ==
    \/ \E t \in Tasks : EngineStep(t) \/ Age(t) \/ Expire(t)
    \/ \E k \in Sweeps : SweepStep(k)

Spec == Init /\ [][Next]_vars

\* Time passes and the hourly job runs.  Nothing is assumed of the engines:
\* they may be lost.
FairSpec ==
    /\ Spec
    /\ \A t \in Tasks : WF_vars(Age(t))
    /\ \A k \in Sweeps : WF_vars(SweepStep(k))

----------------------------------------------------------------------------
\* Properties

\* Only the generator writes "completed" and "failed", once it has ended and
\* as it ended: "failed" when it ran out of time or raised an exception with a
\* text.  Neither a sweep nor a copy read earlier can make a record say that a
\* failed answer was completed (the finally clause of run, task_store.py
\* complete and fail).
RecordIsOutcome ==
    \A t \in Tasks :
        record[t] \in {"completed", "failed"} =>
            /\ engine[t].pc = "ended"
            /\ record[t] = "failed" <=> engine[t].error \in Worded

\* What the record says is what the handler got, unless it left before (run
\* "completes" on a GeneratorExit too): the apology for a failed task, the
\* answer and never an apology in the log for a completed one.  The exception
\* is the exception without a text: it sends the apology as any other, and its
\* record says "completed" (runtime_error = str(exc), `if runtime_error`).
OutcomeIsDelivered ==
    \A t \in Tasks :
        /\ record[t] = "failed" => "apology" \in taken[t] \/ abandoned[t]
        /\ record[t] = "completed" /\ engine[t].error = "none" =>
              "apology" \notin logged[t] /\ ("answer" \in taken[t] \/ abandoned[t])
        /\ record[t] = "completed" /\ engine[t].error # "none" =>
              engine[t].error = "wordless" /\ ("apology" \in taken[t] \/ abandoned[t])

\* A degraded answer never comes out of the blue: the handler has got a
\* status, a notice or an error before it, wherever the failure struck
\* (test_runtime_v2_exception_still_emits_status_before_done).
ApologyIsAnnounced ==
    \A t \in Tasks : "apology" \in taken[t] => taken[t] \intersect {"status", "notice", "error"} # {}

\* The record of an ended task is final, except for a sweep that read it as
\* running before: the sweep does not read it again (task_store.py, fail in
\* recover_stuck_running).
FinalStands ==
    [][\A t \in Tasks :
         record[t] \in {"completed", "failed"} =>
            \/ record'[t] \in {record[t], "none"}
            \/ /\ record'[t] = "recovered"
               /\ \E k \in Sweeps : sweep[k].pc = "judge" /\ sweep[k].copy[t] = "running"]_vars

\* A record that still says "running" is recovered only when nobody has saved
\* it for the stage timeout, however long the sweep itself takes.
YoungIsSpared ==
    [][\A t \in Tasks :
         record[t] = "running" /\ record'[t] = "recovered" => old[t]]_vars

\* No task stays "running" for ever, whatever became of its process.
RunningEnds ==
    \A t \in Tasks : record[t] = "running" ~> record[t] # "running"
=============================================================================
