--------------------------- MODULE ModelRegistry ---------------------------
(***************************************************************************)
(* The registry of fine-tuned models of one tenant                         *)
(* (services/llm_training_service.py, called by api/v1/admin/training.py): *)
(* approval, publication and its repetition for those that failed,         *)
(* verification, activation, rollback, retirement, and the reconciliation  *)
(* of the two places that say which model is active.                       *)
(*                                                                         *)
(*   row       llm_model_registry, committed; metrics is metrics_json,     *)
(*             one column that every operation writes back as a whole      *)
(*   lock      the transaction that has written a row and not yet ended    *)
(*   active, previous   the keys of the active model and of the one        *)
(*             before it in Redis                                          *)
(*   request   a request: its session holds each row as first read, the    *)
(*             columns it changes are written, unconditionally, by name    *)
(*                                                                         *)
(* The settings are the defaults, with publication enabled as in           *)
(* docker-compose.dev.yml: approval, evaluation gate and verification are  *)
(* required.                                                               *)
(***************************************************************************)
EXTENDS Naturals, FiniteSets

CONSTANTS Models, Requests, None,
          MaxRequests   \* bound: the requests that are made

ASSUME MaxRequestsAssumption == MaxRequests \in Nat
ASSUME NoneAssumption == None \notin Models /\ None \notin Requests

VARIABLES row, lock, active, previous, request, made,
          decision,    \* history: what was decided last of each model
          overwritten, \* history: models whose row was written by a late request
          drift,       \* history: an activation was lost after Redis had it, or a
                       \* late reconciliation written, and nothing mended it
          replaced,    \* history: the rows active before the last activation
          trusted      \* history: nothing late or lost had a part in previous

cache == <<active, previous>>
database == <<row, lock>>
history == <<decision, overwritten, drift, replaced, trusted>>
vars == <<database, cache, request, made, history>>

----------------------------------------------------------------------------
\* Types

Approval == {"none", "approved", "rejected"}

\* The parts of metrics_json that something depends on.
Metrics == [approval : Approval, published : {"no", "failed", "yes"}, verified : BOOLEAN,
            retired : BOOLEAN]

Row == [active : BOOLEAN,
        status : {"registered", "published", "verified", "active", "retired"},
        ollama : BOOLEAN, metrics : Metrics]

Columns == {"active", "status", "ollama", "metrics"}

Pc == {"idle", "read", "decide", "publish", "verify", "check", "remember", "claim",
       "save_previous", "save_active", "compare", "next", "commit"}

Op == {"approve", "reject", "publish", "verify", "activate", "rollback", "retry", "reconcile"}

Request == [pc       : Pc,
            op       : Op,
            on       : Models \union {None},
            plan     : SUBSET {"verify", "activate"},   \* parameters of publish
            todo     : SUBSET Models,                   \* to be published again
            seen     : [Models -> Row],                 \* the session's objects
            dirty    : SUBSET (Models \X Columns),      \* written, uncommitted
            replaces : Models \union {None},            \* previous_active_payload
            late     : SUBSET {"row", "active"}]   \* history: another one has
                                  \* written what this had read of the row, of Redis

Registered == [active |-> FALSE, status |-> "registered", ollama |-> FALSE,
               metrics |-> [approval |-> "none", published |-> "no", verified |-> FALSE,
                            retired |-> FALSE]]

Verified == [active |-> FALSE, status |-> "verified", ollama |-> TRUE,
             metrics |-> [approval |-> "approved", published |-> "yes", verified |-> TRUE,
                          retired |-> FALSE]]

Failed == [Registered EXCEPT !.metrics.approval = "approved", !.metrics.published = "failed"]

Idle == [pc |-> "idle", op |-> "reconcile", on |-> None, plan |-> {}, todo |-> {},
         seen |-> [m \in Models |-> Registered], dirty |-> {}, replaces |-> None,
         late |-> {}]

TypeOK ==
    /\ row \in [Models -> Row]
    /\ lock \in [Models -> Requests \union {None}]
    /\ active \in Models \union {None}
    /\ previous \in Models \union {None}
    /\ request \in [Requests -> Request]
    /\ made \in 0 .. MaxRequests
    /\ decision \in [Models -> Approval]
    /\ overwritten \subseteq Models
    /\ drift \in BOOLEAN
    /\ replaced \subseteq Models
    /\ trusted \in BOOLEAN

\* Training has registered some models, and approval, publication and verification
\* have succeeded or failed; one that is verified may have been activated.
Init ==
    \E ready, failed \in SUBSET Models : \E a \in ready \union {None} :
        /\ row = [m \in Models |->
                    IF m \in ready
                    THEN [Verified EXCEPT !.active = (m = a),
                                          !.status = IF m = a THEN "active" ELSE @]
                    ELSE IF m \in failed THEN Failed ELSE Registered]
        /\ lock = [m \in Models |-> None]
        /\ active = a
        /\ previous = None
        /\ request = [r \in Requests |-> Idle]
        /\ made = 0
        /\ decision = [m \in Models |-> row[m].metrics.approval]
        /\ overwritten = {}
        /\ drift = FALSE
        /\ replaced = {}
        /\ trusted = TRUE

----------------------------------------------------------------------------
\* A session

Become(r, v) == request' = [request EXCEPT ![r] = v]

Open(r) == request[r].pc # "idle"

Mine(r) == request[r].seen[request[r].on]

\* The transaction of r may write the row: nobody else has, uncommitted.
Free(r, m) == lock[m] \in {None, r}

\* A flush of the object of the request: the columns that differ from the object
\* as it was, and metrics_json, which always carries something new.
Flush(r, v, pc) ==
    /\ Free(r, request[r].on)
    /\ lock' = [lock EXCEPT ![request[r].on] = r]
    /\ Become(r, [request[r] EXCEPT
                    !.seen[request[r].on] = v,
                    !.dirty = @ \union {<<request[r].on, c>> :
                                  c \in {"metrics"} \union {d \in Columns : Mine(r)[d] # v[d]}},
                    !.pc = pc])
    /\ UNCHANGED <<row, cache, made, history>>

Touched(r) == {m \in Models : \E c \in Columns : <<m, c>> \in request[r].dirty}

Unlocked(r) == [m \in Models |-> IF lock[m] = r THEN None ELSE lock[m]]

\* The objects the session of q holds.
Holds(q) == IF ~Open(q) \/ request[q].pc = "read" THEN {}
            ELSE IF request[q].op \in {"retry", "reconcile"} THEN Models ELSE {request[q].on}

----------------------------------------------------------------------------
\* The beginning of a request

Begins(r, v) ==
    /\ request[r].pc = "idle"
    /\ made < MaxRequests
    /\ made' = made + 1
    /\ Become(r, v)
    /\ UNCHANGED <<database, cache, history>>

BeginOn(r, m, op, plan) ==
    Begins(r, [Idle EXCEPT !.pc = "read", !.op = op, !.on = m, !.plan = plan])

\* rollback_active_model reads whom to activate; without one it raises.
BeginRollback(r) == previous # None /\ BeginOn(r, previous, "rollback", {})

BeginReconcile(r) == Begins(r, [Idle EXCEPT !.pc = "compare", !.seen = row])

Published(v) == v.metrics.published = "yes" \/ v.status \in {"published", "verified", "active"}

\* classify_failure tells from a message whether a failure can be mended.
Recoverable(v) == IF v.metrics.published = "failed" THEN BOOLEAN ELSE {FALSE}

\* retry_failed_publications: the models that are read, and then one after the other.
BeginRetry(r) ==
    \E todo \in SUBSET {m \in Models : ~Published(row[m]) /\ TRUE \in Recoverable(row[m])} :
        /\ todo # {}
        /\ \E plan \in {{}, {"verify"}} :
              Begins(r, [Idle EXCEPT !.pc = "next", !.op = "retry", !.plan = plan,
                                     !.seen = row, !.todo = todo])

FirstPc(op) == CASE op \in {"approve", "reject"}    -> "decide"
                 [] op \in {"activate", "rollback"} -> "check"
                 [] OTHER                           -> op

\* get_model.  A later SELECT of the same row in the session changes nothing.
ReadModel(r) ==
    /\ request[r].pc = "read"
    /\ Become(r, [request[r] EXCEPT !.seen[request[r].on] = row[request[r].on],
                                    !.pc = FirstPc(request[r].op)])
    /\ UNCHANGED <<database, cache, made, history>>

----------------------------------------------------------------------------
\* Approval, publication, verification

Verdict(r) == IF request[r].op = "approve" THEN "approved" ELSE "rejected"

RecordApproval(r) ==
    /\ request[r].pc = "decide"
    /\ Flush(r, [Mine(r) EXCEPT !.metrics.approval = Verdict(r)], "commit")

\* One of several publications is followed by the next.
Then(r) == IF request[r].op = "retry" THEN "next" ELSE "commit"

NextRetry(r) ==
    /\ request[r].pc = "next"
    /\ IF request[r].todo = {}
       THEN Become(r, [request[r] EXCEPT !.pc = "commit"])
       ELSE \E m \in request[r].todo :
              Become(r, [request[r] EXCEPT !.on = m, !.todo = @ \ {m}, !.pc = "publish"])
    /\ UNCHANGED <<database, cache, made, history>>

\* The artifact lacks something, or the publish command has failed: this is
\* recorded, and the status stays as it is.
FailPublication(r) ==
    /\ request[r].pc = "publish"
    /\ Flush(r, [Mine(r) EXCEPT !.metrics.published = "failed"], Then(r))

\* The publish command has run.
RecordPublication(r) ==
    /\ request[r].pc = "publish"
    /\ Flush(r, [Mine(r) EXCEPT !.status = "published", !.ollama = TRUE,
                                !.metrics.published = "yes"],
             IF request[r].plan = {} THEN Then(r) ELSE "verify")

\* The health checks have answered.
RecordVerification(r) ==
    /\ request[r].pc = "verify"
    /\ \/ Flush(r, [Mine(r) EXCEPT !.status = IF @ = "published" THEN "verified" ELSE @,
                                   !.metrics.verified = TRUE],
                IF "activate" \in request[r].plan THEN "check" ELSE Then(r))
       \/ Flush(r, [Mine(r) EXCEPT !.metrics.verified = FALSE], Then(r))

----------------------------------------------------------------------------
\* activate_model

\* Mutant of Ready: nobody asks for the approval.
ReadyUnapproved(v) == Published(v) /\ v.metrics.verified

Ready(v) == Published(v) /\ v.metrics.approval = "approved" /\ v.metrics.verified

\* ensure_model_activation_readiness: the evaluation gate is open, which is
\* recorded.  A model that is not ready, or a closed gate, raises (Breaks).
PassReadiness(r) ==
    /\ request[r].pc = "check"
    /\ Ready(Mine(r))
    /\ Flush(r, Mine(r), "remember")

\* get_active_model: Redis, or else the row; two active rows raise.
ActiveRows == {m \in Models : row[m].active}

ActiveModels == IF active # None THEN {active}
                ELSE IF ActiveRows = {} THEN {None} ELSE ActiveRows

RememberActive(r) ==
    /\ request[r].pc = "remember"
    /\ Cardinality(ActiveModels) = 1
    /\ \E m \in ActiveModels :
         Become(r, [request[r] EXCEPT !.replaces = m, !.pc = "claim"])
    /\ UNCHANGED <<database, cache, made, history>>

\* Mutant of Needed: the other rows are written without waiting for them.
NeededOwn(r) == IF request[r].op = "reconcile" THEN {} ELSE {request[r].on}

\* The rows a request writes before its commit.
Needed(r) == IF request[r].op = "reconcile" THEN Touched(r) ELSE Models

\* An UPDATE of several rows waits for one after the other.
ClaimRow(r, m) ==
    /\ request[r].pc = "claim"
    /\ m \in Needed(r) /\ lock[m] = None
    /\ lock' = [lock EXCEPT ![m] = r]
    /\ UNCHANGED <<row, cache, request, made, history>>

Claimed(r) == request[r].pc = "claim" /\ \A m \in Needed(r) : lock[m] = r

\* No model of the tenant is active, then this one is.
SetActive(r) ==
    /\ Claimed(r) /\ request[r].op # "reconcile"
    /\ Become(r, [request[r] EXCEPT
                    !.seen[request[r].on] =
                       [Mine(r) EXCEPT !.active = TRUE, !.status = "active"],
                    !.dirty = @ \union {<<m, "active">> : m \in Models}
                                \union {<<request[r].on, "metrics">>}
                                \union {<<request[r].on, c>> :
                                          c \in {d \in {"status"} : Mine(r)[d] # "active"}},
                    !.pc = "save_previous"])
    /\ UNCHANGED <<database, cache, made, history>>

\* Mutant of SavePrevious: the model that is activated is remembered.
SavePreviousOwn(r) ==
    /\ request[r].pc = "save_previous"
    /\ previous' = request[r].on
    /\ Become(r, [request[r] EXCEPT !.pc = "save_active"])
    /\ UNCHANGED <<database, active, made, history>>

\* The model that is replaced becomes the target of a rollback.
SavePrevious(r) ==
    /\ request[r].pc = "save_previous"
    /\ previous' = IF request[r].replaces \in {None, request[r].on} THEN previous
                   ELSE request[r].replaces
    /\ Become(r, [request[r] EXCEPT !.pc = "save_active"])
    /\ UNCHANGED <<database, active, made, history>>

\* Redis names the model before the transaction is committed.
SaveActive(r) ==
    /\ request[r].pc = "save_active"
    /\ active' = request[r].on
    /\ Become(r, [request[r] EXCEPT !.pc = "commit"])
    /\ UNCHANGED <<database, previous, made, history>>

----------------------------------------------------------------------------
\* reconcile_model_registry_states

InactiveStatus(v) == IF v.metrics.retired \/ v.status = "retired" THEN "retired"
                     ELSE IF v.metrics.published = "yes" \/ v.ollama THEN "published"
                     ELSE "registered"

\* Redis says which model is active; where it says nothing the row does.
Reconciled(v, isActive) ==
    [v EXCEPT !.active = isActive, !.status = IF isActive THEN "active" ELSE InactiveStatus(v)]

\* Mutant of Retirable: what has been published is not spared.
RetirableAlways(v) == v.metrics.published # "no" \/ v.metrics.verified

\* A failure, or the reason given with a verification, that nothing mends.
Retirable(v) ==
    /\ ~v.active /\ v.status \notin {"active", "published", "verified", "retired"}
    /\ ~v.metrics.retired
    /\ IF v.metrics.published = "no" THEN v.metrics.verified ELSE FALSE \in Recoverable(v)

Retired(v) == [v EXCEPT !.active = FALSE, !.status = "retired", !.metrics.retired = TRUE]

\* retire_nonrecoverable_models reconciles first; without it, and when it only
\* pretends, nothing is retired.
Compare(r) ==
    /\ request[r].pc = "compare"
    /\ Cardinality(ActiveModels) = 1
    /\ \E a \in ActiveModels :
         LET old == request[r].seen
             due == [m \in Models |->
                        Reconciled(old[m], IF a = None THEN old[m].active ELSE m = a)]
         IN  \E gone \in SUBSET {m \in Models : Retirable(due[m])} :
               LET new == [m \in Models |-> IF m \in gone THEN Retired(due[m]) ELSE due[m]]
               IN  Become(r, IF new = old THEN Idle
                             ELSE [request[r] EXCEPT
                                     !.seen = new,
                                     !.dirty = {x \in Models \X Columns :
                                                  old[x[1]][x[2]] # new[x[1]][x[2]]},
                                     !.pc = "claim"])
    /\ UNCHANGED <<database, cache, made, history>>

FlushReconciled(r) ==
    /\ Claimed(r) /\ request[r].op = "reconcile"
    /\ Become(r, [request[r] EXCEPT !.pc = "commit"])
    /\ UNCHANGED <<database, cache, made, history>>

----------------------------------------------------------------------------
\* The end of a request

\* Redis has the activation, the database not yet.
Pending(r) == request[r].pc = "commit" /\ request[r].op # "reconcile"
                /\ <<request[r].on, "active">> \in request[r].dirty

\* What a commit or a lost activation makes obsolete for the others: the rows in
\* S, and the model Redis named to an activation.
Overtake(r, S) ==
    [q \in Requests |->
       IF q = r THEN Idle
       ELSE [request[q] EXCEPT
               !.late = @ \union {k \in {"row"} : Holds(q) \intersect S # {}}
                          \union {k \in {"active"} :
                                    Pending(r) /\ request[q].pc \in
                                      {"claim", "save_previous", "save_active"}}]]

\* get_db commits after the handler is through.
Commit(r) ==
    LET on == request[r].on
        new == Pending(r) /\ ~row[on].active
    IN
    /\ request[r].pc = "commit"
    /\ row' = [m \in Models |-> [c \in Columns |->
                 IF <<m, c>> \in request[r].dirty THEN request[r].seen[m][c] ELSE row[m][c]]]
    /\ lock' = Unlocked(r)
    /\ request' = Overtake(r, Touched(r))
    /\ decision' = IF request[r].op \in {"approve", "reject"}
                     THEN [decision EXCEPT ![on] = Verdict(r)] ELSE decision
    /\ overwritten' = IF "row" \in request[r].late THEN overwritten \union Touched(r)
                      ELSE overwritten
    /\ drift' = IF Pending(r) THEN FALSE
                ELSE IF request[r].op = "reconcile" THEN request[r].late # {} ELSE drift
    /\ replaced' = IF new THEN ActiveRows ELSE replaced
    /\ trusted' = IF new THEN "active" \notin request[r].late /\ ~drift
                  ELSE trusted /\ (Pending(r) => request[r].replaces \in {None, on})
    /\ UNCHANGED <<cache, made>>

\* A refusal or any other exception, a deadlock the database resolves, the loss
\* of the process: the transaction is rolled back, what Redis has been told stays.
Breaks(r) ==
    /\ Open(r)
    /\ lock' = Unlocked(r)
    /\ request' = Overtake(r, {})
    /\ drift' = (drift \/ Pending(r))
    /\ trusted' = (trusted /\ ~Pending(r) /\ request[r].pc # "save_active")
    /\ UNCHANGED <<row, cache, made, decision, overwritten, replaced>>

Begin(r) ==
    \/ \E m \in Models :
         \/ \E op \in {"approve", "reject", "verify", "activate"} : BeginOn(r, m, op, {})
         \/ \E plan \in SUBSET {"verify", "activate"} : BeginOn(r, m, "publish", plan)
    \/ BeginRollback(r)
    \/ BeginRetry(r)
    \/ BeginReconcile(r)

Activation(r) ==
    \/ PassReadiness(r) \/ RememberActive(r) \/ (\E m \in Models : ClaimRow(r, m))
    \/ SetActive(r) \/ SavePrevious(r) \/ SaveActive(r)

Step(r) ==
    \/ Begin(r) \/ ReadModel(r)
    \/ RecordApproval(r) \/ NextRetry(r) \/ FailPublication(r) \/ RecordPublication(r)
    \/ RecordVerification(r)
    \/ Activation(r)
    \/ Compare(r) \/ FlushReconciled(r)
    \/ Commit(r) \/ Breaks(r)

Next == \E r \in Requests : Step(r)

Spec == Init /\ [][Next]_vars

----------------------------------------------------------------------------
\* Properties

\* One model of a tenant is active at most, however activations, rollbacks and
\* reconciliations interleave, and whenever no activation is between its last
\* write to Redis, which routes the answers, and its commit, Redis names it: they
\* part only when an activation is lost in that moment or a reconciliation is
\* late, and the next activation or reconciliation mends it.
StoresAgree ==
    ~drift =>
        /\ Cardinality(ActiveRows) <= 1
        /\ (\A r \in Requests : ~Pending(r)) => ActiveRows = {active} \ {None}

\* The model a rollback would activate is the one that was active before the
\* present one, unless the activation was late or lost.
RollbackRestores ==
    trusted /\ (\A r \in Requests : ~Pending(r) /\ request[r].pc # "save_active")
        => replaced \subseteq {previous}

\* What is retired serves nobody: no model is both retired and active, although a
\* retirement decides by rows it has read before others were published and
\* activated: unless it is late itself and writes such a row.
RetiredIsSilent ==
    \A m \in ActiveRows : row[m].status = "retired" => m \in overwritten

\* The types belong to the first question asked of every state.
TypedAndAgreed == TypeOK /\ StoresAgree /\ RetiredIsSilent

Activated(m) == ~row[m].active /\ row'[m].active

\* A model becomes active only if its last decision was an approval, although
\* decisions, publications and verifications rewrite the same column: unless a
\* request wrote the row that had read it before another one did.
ActivatedIsApproved ==
    [][\A m \in Models : Activated(m)
         => decision[m] = "approved" \/ m \in overwritten' \/ drift]_vars

\* A rejected model is kept out of activation (the message of
\* record_model_approval).  A publication or verification that has read the row
\* before the rejection writes the old approval back.
RejectedStaysOut == [][\A m \in Models : Activated(m) => decision[m] # "rejected"]_vars
=============================================================================
