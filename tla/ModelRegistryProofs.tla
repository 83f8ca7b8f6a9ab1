------------------------- MODULE ModelRegistryProofs -------------------------
(***************************************************************************)
(* Theorems about ModelRegistry, for every value of its constants: the     *)
(* stores that say which model is active agree, a rollback goes back to    *)
(* the model that was active, and only an approved model is activated,     *)
(* however many requests interleave.                                       *)
(***************************************************************************)
EXTENDS ModelRegistry, FiniteSetTheorems, TLAPS

----------------------------------------------------------------------------
\* The inductive invariant

Activates == {"publish", "activate", "rollback"}

\* Which operations come to which control point.
OpsAt(pc) ==
    CASE pc \in {"idle", "compare"} -> {"reconcile"}
      [] pc = "read" -> Op \ {"retry", "reconcile"}
      [] pc = "decide" -> {"approve", "reject"}
      [] pc = "publish" -> {"publish", "retry"}
      [] pc = "verify" -> {"publish", "verify", "retry"}
      [] pc \in {"check", "remember", "save_previous", "save_active"} -> Activates
      [] pc = "claim" -> Activates \union {"reconcile"}
      [] pc = "next" -> {"retry"}
      [] pc = "commit" -> Op

\* Requests that look at all models of the tenant.
Sweeps(v) == v.op \in {"retry", "reconcile"}

HeldBy(v) == IF v.pc \in {"idle", "read"} THEN {} ELSE IF Sweeps(v) THEN Models ELSE {v.on}

\* The session has set the columns "active".
Sets(v) == v.op # "reconcile" /\ <<v.on, "active">> \in v.dirty

\* The readiness of the model has been checked.
Checked(v) == \/ Sets(v)
              \/ v.pc = "remember"
              \/ v.pc = "claim" /\ v.op # "reconcile"

Reconciling(v) == v.op = "reconcile" /\ v.pc \in {"claim", "commit"}

PlacesOK(v) ==
    /\ v.op \in OpsAt(v.pc)
    /\ v.pc \notin {"idle", "compare", "next"} /\ ~Reconciling(v) /\ (Sweeps(v) => v.pc # "commit")
         => v.on \in Models
    /\ "activate" \in v.plan => v.op = "publish"
    /\ ~Sweeps(v) => \A m \in Models : m # v.on => ~v.seen[m].active

DirtyOK(v) ==
    /\ v.pc \in {"idle", "read", "compare"} => v.dirty = {}
    /\ \A m \in Models, c \in Columns :
         <<m, c>> \in v.dirty /\ c # "active" => m \in HeldBy(v)
    /\ v.op # "reconcile" =>
         \A m \in Models : /\ <<m, "active">> \in v.dirty => Sets(v)
                           /\ <<m, "status">> \in v.dirty => v.seen[m].status # "retired"

SetsOK(v) ==
    /\ v.pc \in {"save_previous", "save_active"} => Sets(v)
    /\ Sets(v) => /\ v.op \in Activates /\ v.pc \in {"save_previous", "save_active", "commit"}
                  /\ v.seen[v.on].active /\ v.seen[v.on].status = "active"
                  /\ \A m \in Models : <<m, "active">> \in v.dirty

VerdictsOK(v) ==
    /\ Checked(v) => v.seen[v.on].metrics.approval = "approved"
    /\ v.op \in {"approve", "reject"} /\ v.pc = "commit" =>
         /\ <<v.on, "metrics">> \in v.dirty
         /\ v.seen[v.on].metrics.approval = IF v.op = "approve" THEN "approved" ELSE "rejected"

ReconcilesOK(v) ==
    /\ v.pc = "compare" => "active" \notin v.late
    /\ Reconciling(v) => /\ v.dirty # {}
                         /\ \A m \in Models : v.seen[m].active => v.seen[m].status = "active"

SessionOK(v) == PlacesOK(v) /\ DirtyOK(v) /\ SetsOK(v) /\ VerdictsOK(v) /\ ReconcilesOK(v)

\* What is written is locked, but for what a reconciliation is waiting for.
LocksOK(r, v) ==
    \A m \in Models, c \in Columns :
        <<m, c>> \in v.dirty => lock[m] = r \/ (v.op = "reconcile" /\ v.pc = "claim")

\* Until another one writes what the session holds, it is what the row says.
Fresh(v) ==
    "row" \notin v.late =>
        \A m \in HeldBy(v) :
            /\ \A c \in Columns : <<m, c>> \notin v.dirty => v.seen[m][c] = row[m][c]
            /\ v.op \notin {"approve", "reject"} =>
                 v.seen[m].metrics.approval = row[m].metrics.approval

\* The activation is in Redis, the database has still to hear of it.
Hangs(v) == v.pc = "commit" /\ Sets(v)

NobodyHangs == \A r \in Requests : ~Hangs(request[r])

Reconciles(v) ==
    Reconciling(v) =>
        /\ v.late = {} /\ NobodyHangs => \A m \in Models : v.seen[m].active <=> m = active
        /\ "row" \notin v.late /\ "active" \in v.late => drift
        /\ active = None => \A m \in Models : <<m, "active">> \notin v.dirty

Replacing(v) == v.op # "reconcile" /\ v.pc \in {"claim", "save_previous", "save_active"}

\* The model to go back to is chosen, if there is one.
Saves(v) == v.pc = "save_active" \/ Hangs(v)

Activating(v) ==
    /\ Replacing(v) /\ "active" \notin v.late /\ NobodyHangs => v.replaces = active
    /\ Hangs(v) => /\ active = v.on
                   /\ "active" \notin v.late /\ ~drift => ActiveRows = {v.replaces} \ {None}
    /\ Saves(v) /\ v.replaces \notin {None, v.on} => previous = v.replaces

RequestOK(r, v) == SessionOK(v) /\ LocksOK(r, v) /\ Fresh(v) /\ Reconciles(v) /\ Activating(v)

RowsOK ==
    /\ active = None => ActiveRows = {}
    /\ \A m \in Models : m \notin overwritten => row[m].metrics.approval = decision[m]
    /\ RetiredIsSilent

AgreeOK ==
    ~drift => /\ \A m, n \in ActiveRows : m = n
              /\ NobodyHangs => ActiveRows = {active} \ {None}

RollbackOK ==
    trusted /\ (\A r \in Requests : Saves(request[r]) =>
                    request[r].replaces \in {None, request[r].on})
        => replaced \subseteq {previous}

RegistryInv == /\ TypeOK /\ RowsOK /\ AgreeOK /\ RollbackOK
               /\ \A r \in Requests : RequestOK(r, request[r])

\* A request that has not begun is in order.
LEMMA IdleIsIdle ==
    /\ Idle \in Request /\ Idle.pc = "idle" /\ Idle.op = "reconcile" /\ Idle.dirty = {}
    /\ Idle.late = {} /\ Idle.plan = {} /\ Idle.todo = {} /\ Idle.on = None
    /\ \A m \in Models : ~Idle.seen[m].active
    /\ \A r \in Requests : RequestOK(r, Idle)
<1>1. Registered \in Row /\ Registered.active = FALSE
  BY DEF Registered, Row, Metrics, Approval
<1>2. /\ Idle \in Request /\ Idle.pc = "idle" /\ Idle.op = "reconcile" /\ Idle.dirty = {}
      /\ Idle.late = {} /\ Idle.plan = {} /\ Idle.todo = {} /\ Idle.on = None
      /\ \A m \in Models : ~Idle.seen[m].active
  BY <1>1 DEF Idle, Request, Pc, Op, Columns
<1>3. \A r \in Requests : RequestOK(r, Idle)
  BY <1>2 DEF RequestOK, SessionOK, PlacesOK, OpsAt, DirtyOK, SetsOK, Sets, VerdictsOK,
     Checked, ReconcilesOK, Reconciling, LocksOK, Fresh, HeldBy, Reconciles, Activating,
     Replacing, Saves, Hangs, Sweeps
<1> QED BY <1>2, <1>3

LEMMA RegistryInit == Init => RegistryInv
<1> SUFFICES ASSUME Init PROVE RegistryInv
  OBVIOUS
<1>0. PICK ready \in SUBSET Models, failed \in SUBSET Models :
        \E a \in ready \union {None} :
          /\ row = [m \in Models |->
                      IF m \in ready
                      THEN [Verified EXCEPT !.active = (m = a),
                                            !.status = IF m = a THEN "active" ELSE @]
                      ELSE IF m \in failed THEN Failed ELSE Registered]
          /\ lock = [m \in Models |-> None]
          /\ active = a
          /\ previous = None
          /\ request = [r \in Requests |-> Idle]
          /\ made = 0
          /\ decision = [m \in Models |-> row[m].metrics.approval]
          /\ overwritten = {}
          /\ drift = FALSE
          /\ replaced = {}
          /\ trusted = TRUE
  BY DEF Init
<1>1. PICK a \in ready \union {None} :
        /\ row = [m \in Models |->
                    IF m \in ready
                    THEN [Verified EXCEPT !.active = (m = a),
                                          !.status = IF m = a THEN "active" ELSE @]
                    ELSE IF m \in failed THEN Failed ELSE Registered]
        /\ lock = [m \in Models |-> None]
        /\ active = a
        /\ previous = None
        /\ request = [r \in Requests |-> Idle]
        /\ made = 0
        /\ decision = [m \in Models |-> row[m].metrics.approval]
        /\ overwritten = {}
        /\ drift = FALSE
        /\ replaced = {}
        /\ trusted = TRUE
  BY <1>0
<1>2. Registered \in Row /\ Registered.active = FALSE /\ Registered.status = "registered"
  BY DEF Registered, Row, Metrics, Approval
<1>3. Failed \in Row /\ Failed.active = FALSE /\ Failed.status = "registered"
  BY DEF Failed, Registered, Row, Metrics, Approval
<1>4. \A m \in Models : /\ row[m] \in Row
                        /\ row[m].active <=> m = a
                        /\ row[m].status = "retired" => FALSE
  <2> SUFFICES ASSUME NEW m \in Models
               PROVE  /\ row[m] \in Row
                      /\ row[m].active <=> m = a
                      /\ row[m].status = "retired" => FALSE
    OBVIOUS
  <2>1. CASE m \in ready
    BY <1>1, <2>1 DEF Verified, Row, Metrics, Approval
  <2>2. CASE m \notin ready
    <3>1. m # a
      BY <1>1, <2>2, NoneAssumption DEF NoneAssumption
    <3>2. row[m] \in {Failed, Registered}
      BY <1>1, <2>2
    <3>3. row[m] \in Row /\ row[m].active = FALSE /\ row[m].status = "registered"
      BY <1>2, <1>3, <3>2
    <3> QED BY <3>1, <3>3
  <2> QED BY <2>1, <2>2
<1>6. TypeOK
  <2>1. row \in [Models -> Row]
    BY <1>1, <1>4
  <2>2. decision \in [Models -> Approval]
    BY <1>1, <1>4 DEF Row, Metrics
  <2>3. made \in 0 .. MaxRequests
    <3>1. made = 0
      BY <1>1
    <3> QED BY <3>1, MaxRequestsAssumption
  <2>4. active \in Models \union {None} /\ previous \in Models \union {None}
    BY <1>1
  <2>5. lock \in [Models -> Requests \union {None}] /\ request \in [Requests -> Request]
    BY <1>1, IdleIsIdle
  <2> QED BY <1>1, <2>1, <2>2, <2>3, <2>4, <2>5 DEF TypeOK
<1>7. \A r \in Requests : request[r] = Idle
  BY <1>1
<1>8. ActiveRows = {a} \ {None} /\ RetiredIsSilent
  BY <1>1, <1>4, NoneAssumption DEF ActiveRows, RetiredIsSilent, NoneAssumption
<1>9. RowsOK /\ AgreeOK /\ RollbackOK
  <2>1. RowsOK
    <3>1. active = None => ActiveRows = {}
      BY <1>1, <1>8
    <3>2. \A m \in Models : row[m].metrics.approval = decision[m]
      <4>1. decision = [m \in Models |-> row[m].metrics.approval]
        BY <1>1
      <4> QED BY <4>1
    <3> QED BY <1>8, <3>1, <3>2 DEF RowsOK
  <2>2. AgreeOK
    BY <1>1, <1>8 DEF AgreeOK
  <2>3. RollbackOK
    BY <1>1 DEF RollbackOK
  <2> QED BY <2>1, <2>2, <2>3
<1> QED BY <1>6, <1>7, <1>9, IdleIsIdle DEF RegistryInv

----------------------------------------------------------------------------
\* A request that neither writes a row nor tells Redis anything

\* The request r becomes v; it may have locked rows.
Turns(r, v) ==
    /\ request' = [request EXCEPT ![r] = v]
    /\ \A m \in Models : lock'[m] = lock[m] \/ (lock[m] \in {None, r} /\ lock'[m] = r)
    /\ UNCHANGED <<row, cache, history>>

LEMMA TurnKeepsInv ==
    ASSUME NEW r \in Requests, NEW v \in Request, RegistryInv, TypeOK', Turns(r, v),
           ~Saves(request[r]), ~Saves(v),
           SessionOK(v), LocksOK(r, v)', Fresh(v), Reconciles(v), Activating(v)
    PROVE  RegistryInv'
<1>1. TypeOK /\ RowsOK /\ AgreeOK /\ RollbackOK /\ \A q \in Requests : RequestOK(q, request[q])
  BY DEF RegistryInv
<1>2. /\ row' = row /\ active' = active /\ previous' = previous /\ decision' = decision
      /\ overwritten' = overwritten /\ drift' = drift /\ replaced' = replaced
      /\ trusted' = trusted
  BY DEF Turns, cache, history
<1>3. \A q \in Requests : request'[q] = IF q = r THEN v ELSE request[q]
  BY <1>1 DEF Turns, TypeOK
<1>4. NobodyHangs' <=> NobodyHangs
  BY <1>3 DEF NobodyHangs, Saves
<1>5. ActiveRows' = ActiveRows
  BY <1>2 DEF ActiveRows
<1>6. RowsOK' /\ AgreeOK'
  BY <1>1, <1>2, <1>4, <1>5 DEF RowsOK, RetiredIsSilent, AgreeOK
<1>7. RollbackOK'
  BY <1>1, <1>2, <1>3 DEF RollbackOK
<1>8. ASSUME NEW q \in Requests PROVE RequestOK(q, request[q])'
  <2>1. CASE q = r
    <3>1. request'[q] = v
      BY <1>3, <2>1
    <3>2. SessionOK(v) /\ LocksOK(r, v)'
      OBVIOUS
    <3>3. Fresh(v)'
      BY <1>2 DEF Fresh
    <3>4. Reconciles(v)'
      BY <1>2, <1>4 DEF Reconciles
    <3>5. Activating(v)'
      BY <1>2, <1>4, <1>5 DEF Activating
    <3> QED BY <2>1, <3>1, <3>2, <3>3, <3>4, <3>5 DEF RequestOK, LocksOK, Fresh, Reconciles,
              Activating
  <2>2. CASE q # r
    <3>1. request'[q] = request[q]
      BY <1>3, <2>2
    <3>2. RequestOK(q, request[q])
      BY <1>1
    <3>3. LocksOK(q, request[q])'
      BY <2>2, <3>1, <3>2, NoneAssumption DEF RequestOK, LocksOK, Turns
    <3>4. Fresh(request[q])'
      BY <1>2, <3>1, <3>2 DEF RequestOK, Fresh
    <3>5. Reconciles(request[q])'
      BY <1>2, <1>4, <3>1, <3>2 DEF RequestOK, Reconciles
    <3>6. Activating(request[q])'
      BY <1>2, <1>4, <1>5, <3>1, <3>2 DEF RequestOK, Activating
    <3>7. SessionOK(request[q])'
      BY <3>1, <3>2 DEF RequestOK
    <3> QED BY <3>3, <3>4, <3>5, <3>6, <3>7 DEF RequestOK
  <2> QED BY <2>1, <2>2
<1> QED BY <1>6, <1>7, <1>8 DEF RegistryInv

\* The object of the model v.on has been flushed as w.
Flushed(u, w, v) ==
    /\ v.op = u.op /\ v.on = u.on /\ v.plan = u.plan /\ v.late = u.late
    /\ v.replaces = u.replaces
    /\ v.seen = [u.seen EXCEPT ![u.on] = w]
    /\ \A m \in Models, c \in Columns :
         <<m, c>> \in v.dirty <=>
            \/ <<m, c>> \in u.dirty
            \/ m = u.on /\ (c = "metrics" \/ u.seen[u.on][c] # w[c])

LEMMA FlushedSession ==
    ASSUME NEW u \in Request, NEW v \in Request, NEW w \in Row, Flushed(u, w, v),
           SessionOK(u), u.pc \in {"decide", "publish", "verify", "check"},
           v.pc \in {"commit", "next", "verify", "check", "remember"}, u.op \in OpsAt(v.pc),
           w.active = u.seen[u.on].active,
           w.status \in {u.seen[u.on].status, "published", "verified"},
           v.pc = "remember" => w.metrics.approval = "approved",
           u.op \in {"approve", "reject"} =>
              w.metrics.approval = IF u.op = "approve" THEN "approved" ELSE "rejected"
    PROVE  /\ SessionOK(v) /\ ~Sets(u) /\ ~Sets(v)
           /\ u.on \in Models /\ u.op # "reconcile" /\ u.seen \in [Models -> Row]
<1>1. u.op # "reconcile" /\ u.on \in Models /\ u.seen \in [Models -> Row]
  BY DEF SessionOK, PlacesOK, OpsAt, Reconciling, Request, Activates
<1>2. ~Sets(u)
  BY DEF SessionOK, SetsOK
<1>3. \A m \in Models : v.seen[m] = IF m = u.on THEN w ELSE u.seen[m]
  BY <1>1 DEF Flushed
<1>4. ~Sets(v)
  <2>1. w["active"] = u.seen[u.on]["active"]
    BY <1>1 DEF Row
  <2>2. "active" \in Columns
    BY DEF Columns
  <2> QED BY <1>1, <1>2, <2>1, <2>2 DEF Flushed, Sets
<1>5. PlacesOK(v)
  BY <1>1, <1>3 DEF Flushed, SessionOK, PlacesOK, Sweeps, Reconciling
<1>6. DirtyOK(v)
  <2>1. HeldBy(v) = HeldBy(u) /\ u.on \in HeldBy(u)
    BY <1>1 DEF HeldBy, Flushed, Sweeps
  <2>2. v.op # "reconcile" /\ v.pc \notin {"idle", "read", "compare"}
    BY <1>1 DEF Flushed
  <2>3. ASSUME NEW m \in Models, NEW c \in Columns, <<m, c>> \in v.dirty, c # "active"
        PROVE  m \in HeldBy(v)
    BY <2>1, <2>3 DEF Flushed, SessionOK, DirtyOK
  <2>4. ASSUME NEW m \in Models PROVE <<m, "active">> \notin v.dirty
    <3>1. w["active"] = u.seen[u.on]["active"]
      BY <1>1 DEF Row
    <3> QED BY <1>1, <1>2, <3>1 DEF Flushed, SessionOK, DirtyOK, Columns
  <2>5. ASSUME NEW m \in Models, <<m, "status">> \in v.dirty
        PROVE  v.seen[m].status # "retired"
    <3>1. \/ <<m, "status">> \in u.dirty
          \/ m = u.on /\ u.seen[u.on]["status"] # w["status"]
      BY <2>5 DEF Flushed, Columns
    <3>2. w["status"] = w.status /\ u.seen[u.on]["status"] = u.seen[u.on].status
      BY <1>1 DEF Row
    <3>3. <<m, "status">> \in u.dirty => u.seen[m].status # "retired"
      BY <1>1 DEF SessionOK, DirtyOK
    <3> QED BY <1>1, <1>3, <3>1, <3>2, <3>3
  <2> QED BY <2>2, <2>3, <2>4, <2>5 DEF DirtyOK
<1>7. SetsOK(v)
  BY <1>4 DEF SetsOK
<1>8. VerdictsOK(v)
  <2>1. v.seen[v.on] = w
    BY <1>1, <1>3 DEF Flushed
  <2>2. <<v.on, "metrics">> \in v.dirty
    BY <1>1 DEF Flushed, Columns
  <2>3. Checked(v) => v.pc = "remember"
    BY <1>4 DEF Checked
  <2> QED BY <2>1, <2>2, <2>3 DEF VerdictsOK, Flushed
<1>9. ReconcilesOK(v)
  BY <1>1 DEF ReconcilesOK, Reconciling, Flushed
<1> QED BY <1>1, <1>2, <1>4, <1>5, <1>6, <1>7, <1>8, <1>9 DEF SessionOK

\* Everybody's session is in order, and what the session of r is.
LEMMA RequestFacts ==
    ASSUME RegistryInv, NEW r \in Requests
    PROVE  /\ TypeOK /\ request[r] \in Request /\ RequestOK(r, request[r])
           /\ \A m \in Models : row[m] \in Row
BY DEF RegistryInv, TypeOK

\* A flush of the object w in place of the one that was read.
LEMMA FlushKeepsInv ==
    ASSUME NEW r \in Requests, NEW w \in Row, NEW pc \in Pc, RegistryInv, Flush(r, w, pc),
           request[r].pc \in {"decide", "publish", "verify", "check"},
           pc \in {"commit", "next", "verify", "check", "remember"}, request[r].op \in OpsAt(pc),
           w.active = Mine(r).active,
           w.status \in {Mine(r).status, "published", "verified"},
           pc = "remember" => w.metrics.approval = "approved",
           w.metrics.approval = IF request[r].op \in {"approve", "reject"} THEN Verdict(r)
                                ELSE Mine(r).metrics.approval
    PROVE  RegistryInv'
<1>1. /\ TypeOK /\ request[r] \in Request /\ RequestOK(r, request[r])
      /\ \A m \in Models : row[m] \in Row
  BY RequestFacts
<1>2. PICK u \in Request : u = request[r]
  BY <1>1
<1>3. u.op # "reconcile" /\ u.on \in Models /\ u.seen \in [Models -> Row]
  BY <1>1, <1>2 DEF RequestOK, SessionOK, PlacesOK, OpsAt, Reconciling, Request, Activates
<1>4. PICK v : v = [u EXCEPT !.seen[u.on] = w,
                             !.dirty = @ \union {<<u.on, c>> :
                                c \in {"metrics"} \union {d \in Columns : u.seen[u.on][d] # w[d]}},
                             !.pc = pc]
  OBVIOUS
<1>5. v \in Request /\ v.pc = pc
  <2>1. [u.seen EXCEPT ![u.on] = w] \in [Models -> Row]
    BY <1>3
  <2>2. u.dirty \union {<<u.on, c>> :
                c \in {"metrics"} \union {d \in Columns : u.seen[u.on][d] # w[d]}}
          \in SUBSET (Models \X Columns)
    BY <1>2, <1>3 DEF Request, Columns
  <2> QED BY <1>2, <1>4, <2>1, <2>2 DEF Request
<1>6. Flushed(u, w, v)
  BY <1>2, <1>3, <1>4 DEF Flushed, Request, Columns
<1>7. /\ lock' = [lock EXCEPT ![u.on] = r] /\ lock[u.on] \in {None, r}
      /\ request' = [request EXCEPT ![r] = v]
      /\ UNCHANGED <<row, cache, made, history>>
  BY <1>2, <1>4 DEF Flush, Free, Become, Mine
<1>8. Turns(r, v)
  BY <1>1, <1>3, <1>7 DEF Turns, TypeOK
<1>9. TypeOK'
  <2>1. request' \in [Requests -> Request]
    BY <1>1, <1>5, <1>7 DEF TypeOK
  <2>2. lock' \in [Models -> Requests \union {None}]
    BY <1>1, <1>7 DEF TypeOK
  <2> QED BY <1>1, <1>7, <2>1, <2>2 DEF TypeOK, cache, history
<1>10. SessionOK(v) /\ ~Sets(u) /\ ~Sets(v)
  <2>1. u.op \in {"approve", "reject"} =>
           w.metrics.approval = IF u.op = "approve" THEN "approved" ELSE "rejected"
    BY <1>2 DEF Verdict
  <2> QED BY <1>1, <1>2, <1>5, <1>6, <2>1, FlushedSession DEF RequestOK, Mine
<1>11. ~Saves(request[r]) /\ ~Saves(v)
  BY <1>2, <1>5, <1>10 DEF Saves, Hangs
<1>12. LocksOK(r, v)'
  BY <1>1, <1>2, <1>3, <1>6, <1>7 DEF LocksOK, RequestOK, Flushed, TypeOK
<1>13. Fresh(v)
  <2> SUFFICES ASSUME "row" \notin u.late, NEW m \in HeldBy(v)
               PROVE  /\ \A c \in Columns : <<m, c>> \notin v.dirty => v.seen[m][c] = row[m][c]
                      /\ v.op \notin {"approve", "reject"} =>
                           v.seen[m].metrics.approval = row[m].metrics.approval
    BY <1>6 DEF Fresh, Flushed
  <2>1. m \in HeldBy(u) /\ m \in Models
    BY <1>2, <1>3, <1>5, <1>6 DEF HeldBy, Sweeps, Flushed
  <2>2. /\ \A c \in Columns : <<m, c>> \notin u.dirty => u.seen[m][c] = row[m][c]
        /\ u.op \notin {"approve", "reject"} =>
             u.seen[m].metrics.approval = row[m].metrics.approval
    BY <1>1, <1>2, <2>1 DEF RequestOK, Fresh
  <2>3. v.seen[m] = IF m = u.on THEN w ELSE u.seen[m]
    BY <1>3, <1>6, <2>1 DEF Flushed
  <2>4. ASSUME NEW c \in Columns, <<m, c>> \notin v.dirty PROVE v.seen[m][c] = row[m][c]
    BY <1>6, <2>1, <2>2, <2>3, <2>4 DEF Flushed
  <2>5. ASSUME v.op \notin {"approve", "reject"}
        PROVE  v.seen[m].metrics.approval = row[m].metrics.approval
    BY <1>2, <1>6, <2>2, <2>3, <2>5 DEF Flushed, Mine
  <2> QED BY <2>4, <2>5
<1>14. Reconciles(v)
  BY <1>3, <1>6 DEF Reconciles, Reconciling, Flushed
<1>15. Activating(v)
  BY <1>5, <1>11 DEF Activating, Replacing, Saves
<1> QED BY <1>1, <1>5, <1>8, <1>9, <1>10, <1>11, <1>12, <1>13, <1>14, <1>15, TurnKeepsInv

\* The requests that flush: approval, publication, verification, readiness.
LEMMA FlushesKeepInv ==
    ASSUME RegistryInv, NEW r \in Requests,
           \/ RecordApproval(r) \/ FailPublication(r) \/ RecordPublication(r)
           \/ RecordVerification(r) \/ PassReadiness(r)
    PROVE  RegistryInv'
<1>1. /\ TypeOK /\ request[r] \in Request /\ SessionOK(request[r])
      /\ request[r].op \in OpsAt(request[r].pc)
  BY RequestFacts DEF RequestOK, SessionOK, PlacesOK
<1>2. CASE RecordApproval(r)
  <2>1. request[r].pc = "decide" /\ request[r].op \in {"approve", "reject"}
    BY <1>1, <1>2 DEF RecordApproval, OpsAt
  <2>2. Mine(r) \in Row
    BY <1>1, <2>1 DEF Mine, Request, SessionOK, PlacesOK, Reconciling, Sweeps
  <2>3. PICK w : w = [Mine(r) EXCEPT !.metrics.approval = Verdict(r)]
    OBVIOUS
  <2>4. Verdict(r) \in Approval
    BY DEF Verdict, Approval
  <2>5. w \in Row /\ w.active = Mine(r).active /\ w.status = Mine(r).status
          /\ w.metrics.approval = Verdict(r)
    BY <2>2, <2>3, <2>4 DEF Row, Metrics
  <2>6. Flush(r, w, "commit")
    BY <1>2, <2>3 DEF RecordApproval
  <2>7. "commit" \in Pc /\ request[r].op \in OpsAt("commit")
    BY <1>1 DEF Pc, OpsAt, Request
  <2> QED BY <2>1, <2>5, <2>6, <2>7, FlushKeepsInv
<1>3. ASSUME NEW pc, pc = Then(r), request[r].op \in {"publish", "verify", "retry"}
      PROVE  pc \in Pc /\ pc \in {"commit", "next"} /\ request[r].op \in OpsAt(pc)
  BY <1>3 DEF Then, Pc, OpsAt, Op
<1>4. ASSUME request[r].pc \in {"publish", "verify"}
      PROVE  /\ request[r].op \in {"publish", "verify", "retry"} /\ Mine(r) \in Row
             /\ request[r].pc = "publish" => request[r].op # "verify"
  BY <1>1, <1>4 DEF Mine, Request, SessionOK, PlacesOK, Reconciling, Sweeps, OpsAt
<1>5. CASE FailPublication(r)
  <2>1. PICK w : w = [Mine(r) EXCEPT !.metrics.published = "failed"]
    OBVIOUS
  <2>2. PICK pc : pc = Then(r)
    OBVIOUS
  <2>3. request[r].pc = "publish" /\ Flush(r, w, pc)
    BY <1>5, <2>1, <2>2 DEF FailPublication
  <2>4. w \in Row /\ w.active = Mine(r).active /\ w.status = Mine(r).status
          /\ w.metrics.approval = Mine(r).metrics.approval
    BY <1>4, <2>1, <2>3 DEF Row, Metrics
  <2> QED BY <1>3, <1>4, <2>2, <2>3, <2>4, FlushKeepsInv
<1>6. CASE RecordPublication(r)
  <2>1. PICK w : w = [Mine(r) EXCEPT !.status = "published", !.ollama = TRUE,
                                     !.metrics.published = "yes"]
    OBVIOUS
  <2>2. PICK pc : pc = IF request[r].plan = {} THEN Then(r) ELSE "verify"
    OBVIOUS
  <2>3. request[r].pc = "publish" /\ Flush(r, w, pc)
    BY <1>6, <2>1, <2>2 DEF RecordPublication
  <2>4. w \in Row /\ w.active = Mine(r).active /\ w.status = "published"
          /\ w.metrics.approval = Mine(r).metrics.approval
    BY <1>4, <2>1, <2>3 DEF Row, Metrics
  <2>5. pc \in Pc /\ pc \in {"commit", "next", "verify"} /\ request[r].op \in OpsAt(pc)
    BY <1>3, <1>4, <2>2, <2>3 DEF Pc, OpsAt
  <2> QED BY <1>4, <2>3, <2>4, <2>5, FlushKeepsInv
<1>7. CASE RecordVerification(r)
  <2>1. request[r].pc = "verify"
    BY <1>7 DEF RecordVerification
  <2>2. ASSUME NEW w, NEW pc, Flush(r, w, pc), pc \in {"commit", "next", "check"},
               pc # "check" => pc = Then(r), pc = "check" => request[r].op = "publish",
               w \in Row, w.active = Mine(r).active,
               w.status \in {Mine(r).status, "verified"},
               w.metrics.approval = Mine(r).metrics.approval
        PROVE  RegistryInv'
    <3>1. pc \in Pc /\ request[r].op \in OpsAt(pc)
      BY <1>3, <1>4, <2>1, <2>2 DEF Pc, OpsAt, Activates
    <3> QED BY <1>4, <2>1, <2>2, <3>1, FlushKeepsInv
  <2>3. CASE Flush(r, [Mine(r) EXCEPT !.status = IF @ = "published" THEN "verified" ELSE @,
                                      !.metrics.verified = TRUE],
                   IF "activate" \in request[r].plan THEN "check" ELSE Then(r))
    <3>1. PICK w : w = [Mine(r) EXCEPT !.status = IF @ = "published" THEN "verified" ELSE @,
                                       !.metrics.verified = TRUE]
      OBVIOUS
    <3>2. PICK pc : pc = IF "activate" \in request[r].plan THEN "check" ELSE Then(r)
      OBVIOUS
    <3>3. w \in Row /\ w.active = Mine(r).active /\ w.status \in {Mine(r).status, "verified"}
            /\ w.metrics.approval = Mine(r).metrics.approval
      BY <1>4, <2>1, <3>1 DEF Row, Metrics
    <3>4. /\ pc \in {"commit", "next", "check"} /\ (pc # "check" => pc = Then(r))
          /\ pc = "check" => request[r].op = "publish"
      BY <1>1, <3>2 DEF Then, SessionOK, PlacesOK
    <3>5. Flush(r, w, pc)
      BY <2>3, <3>1, <3>2
    <3> QED BY <2>2, <3>3, <3>4, <3>5
  <2>4. CASE Flush(r, [Mine(r) EXCEPT !.metrics.verified = FALSE], Then(r))
    <3>1. PICK w : w = [Mine(r) EXCEPT !.metrics.verified = FALSE]
      OBVIOUS
    <3>2. PICK pc : pc = Then(r)
      OBVIOUS
    <3>3. w \in Row /\ w.active = Mine(r).active /\ w.status \in {Mine(r).status, "verified"}
            /\ w.metrics.approval = Mine(r).metrics.approval
      BY <1>4, <2>1, <3>1 DEF Row, Metrics
    <3>4. pc \in {"commit", "next"}
      BY <3>2 DEF Then
    <3>5. Flush(r, w, pc)
      BY <2>4, <3>1, <3>2
    <3> QED BY <2>2, <3>2, <3>3, <3>4, <3>5
  <2> QED BY <1>7, <2>3, <2>4 DEF RecordVerification
<1>8. CASE PassReadiness(r)
  <2>1. /\ request[r].pc = "check" /\ Flush(r, Mine(r), "remember")
        /\ Mine(r).metrics.approval = "approved"
    BY <1>8 DEF PassReadiness, Ready
  <2>2. request[r].op \in Activates /\ Mine(r) \in Row
    BY <1>1, <2>1 DEF Mine, Request, SessionOK, PlacesOK, Reconciling, Sweeps, OpsAt
  <2>3. "remember" \in Pc /\ request[r].op \in OpsAt("remember")
    BY <2>2 DEF Pc, OpsAt
  <2> QED BY <2>1, <2>2, <2>3, FlushKeepsInv DEF Activates
<1> QED BY <1>2, <1>5, <1>6, <1>7, <1>8

\* A step that changes the request only.
LEMMA QuietKeepsInv ==
    ASSUME NEW r \in Requests, NEW v \in Request, RegistryInv, Become(r, v),
           UNCHANGED <<database, cache, history>>, made' \in 0 .. MaxRequests,
           ~Saves(request[r]), ~Saves(v), RequestOK(r, v)
    PROVE  RegistryInv'
<1>1. TypeOK
  BY DEF RegistryInv
<1>2. TypeOK'
  <2>1. request' \in [Requests -> Request]
    BY <1>1 DEF TypeOK, Become
  <2> QED BY <1>1, <2>1 DEF TypeOK, database, cache, history
<1>3. Turns(r, v)
  BY DEF Turns, Become, database
<1>4. LocksOK(r, v)'
  BY DEF RequestOK, LocksOK, database
<1> QED BY <1>2, <1>3, <1>4, TurnKeepsInv DEF RequestOK

----------------------------------------------------------------------------
\* The beginning of a request

LEMMA BeginKeepsInv ==
    ASSUME RegistryInv, NEW r \in Requests, NEW v \in Request, Begins(r, v),
           v.dirty = {}, v.late = {}, v.pc \in {"read", "compare", "next"},
           PlacesOK(v), \A m \in HeldBy(v) : v.seen[m] = row[m]
    PROVE  RegistryInv'
<1>1. /\ TypeOK /\ request[r] \in Request
  BY RequestFacts
<1>2. made' \in 0 .. MaxRequests
  BY <1>1, MaxRequestsAssumption DEF Begins, TypeOK
<1>3. ~Saves(request[r]) /\ ~Saves(v) /\ ~Sets(v)
  BY DEF Saves, Hangs, Begins, Sets
<1>4. SessionOK(v)
  BY <1>3 DEF SessionOK, DirtyOK, SetsOK, VerdictsOK, Checked, ReconcilesOK, Reconciling
<1>5. LocksOK(r, v) /\ Fresh(v)
  BY DEF LocksOK, Fresh
<1>6. Reconciles(v) /\ Activating(v)
  BY <1>3 DEF Reconciles, Reconciling, Activating, Replacing, Saves
<1> QED BY <1>2, <1>3, <1>4, <1>5, <1>6, QuietKeepsInv DEF Begins, RequestOK

LEMMA BeginsKeepInv ==
    ASSUME RegistryInv, NEW r \in Requests, Begin(r)
    PROVE  RegistryInv'
<1>1. TypeOK
  BY DEF RegistryInv
<1>2. ASSUME NEW m \in Models, NEW op \in Op, NEW plan \in SUBSET {"verify", "activate"},
             BeginOn(r, m, op, plan), op \notin {"retry", "reconcile"},
             "activate" \in plan => op = "publish"
      PROVE  RegistryInv'
  <2>1. PICK v : v = [Idle EXCEPT !.pc = "read", !.op = op, !.on = m, !.plan = plan]
    OBVIOUS
  <2>2. /\ v \in Request /\ v.pc = "read" /\ v.op = op /\ v.on = m /\ v.plan = plan
        /\ v.dirty = {} /\ v.late = {} /\ v.seen = Idle.seen
    BY <2>1, IdleIsIdle DEF Request, Pc
  <2>3. PlacesOK(v) /\ HeldBy(v) = {}
    BY <1>2, <2>2, IdleIsIdle DEF PlacesOK, OpsAt, HeldBy, Sweeps
  <2>4. Begins(r, v)
    BY <1>2, <2>1 DEF BeginOn
  <2> QED BY <2>2, <2>3, <2>4, BeginKeepsInv
<1>3. CASE BeginRollback(r)
  BY <1>1, <1>2, <1>3 DEF BeginRollback, TypeOK, Op
<1>4. CASE BeginRetry(r)
  <2>1. PICK todo \in SUBSET Models, plan \in {{}, {"verify"}} :
           Begins(r, [Idle EXCEPT !.pc = "next", !.op = "retry", !.plan = plan,
                                  !.seen = row, !.todo = todo])
    BY <1>4 DEF BeginRetry
  <2>2. PICK v : v = [Idle EXCEPT !.pc = "next", !.op = "retry", !.plan = plan,
                                  !.seen = row, !.todo = todo]
    OBVIOUS
  <2>3. /\ v \in Request /\ v.pc = "next" /\ v.op = "retry" /\ v.plan = plan /\ v.dirty = {}
        /\ v.late = {} /\ v.seen = row
    BY <1>1, <2>2, IdleIsIdle DEF Request, Pc, Op, TypeOK
  <2>4. PlacesOK(v) /\ HeldBy(v) = Models
    BY <2>3 DEF PlacesOK, OpsAt, HeldBy, Sweeps, Reconciling
  <2> QED BY <2>1, <2>2, <2>3, <2>4, BeginKeepsInv
<1>5. CASE BeginReconcile(r)
  <2>1. PICK v : v = [Idle EXCEPT !.pc = "compare", !.seen = row]
    OBVIOUS
  <2>2. /\ v \in Request /\ v.pc = "compare" /\ v.op = "reconcile" /\ v.plan = {}
        /\ v.dirty = {} /\ v.late = {} /\ v.seen = row
    BY <1>1, <2>1, IdleIsIdle DEF Request, Pc, TypeOK
  <2>3. PlacesOK(v) /\ HeldBy(v) = Models
    BY <2>2 DEF PlacesOK, OpsAt, HeldBy, Sweeps
  <2>4. Begins(r, v)
    BY <1>5, <2>1 DEF BeginReconcile
  <2> QED BY <2>2, <2>3, <2>4, BeginKeepsInv
<1>6. CASE \E m \in Models :
             \/ \E op \in {"approve", "reject", "verify", "activate"} : BeginOn(r, m, op, {})
             \/ \E plan \in SUBSET {"verify", "activate"} : BeginOn(r, m, "publish", plan)
  <2>1. PICK m \in Models :
             \/ \E op \in {"approve", "reject", "verify", "activate"} : BeginOn(r, m, op, {})
             \/ \E plan \in SUBSET {"verify", "activate"} : BeginOn(r, m, "publish", plan)
    BY <1>6
  <2> QED BY <1>2, <2>1 DEF Op
<1> QED BY <1>3, <1>4, <1>5, <1>6 DEF Begin

----------------------------------------------------------------------------
\* Reading, and the next of several publications

LEMMA ReadModelKeepsInv ==
    ASSUME RegistryInv, NEW r \in Requests, ReadModel(r)
    PROVE  RegistryInv'
<1>1. /\ TypeOK /\ request[r] \in Request /\ RequestOK(r, request[r])
      /\ \A m \in Models : row[m] \in Row
  BY RequestFacts
<1>2. PICK u \in Request : u = request[r]
  BY <1>1
<1>3. /\ u.pc = "read" /\ u.on \in Models /\ u.dirty = {} /\ ~Sweeps(u)
      /\ u.seen \in [Models -> Row] /\ u.op \in Op
  BY <1>1, <1>2 DEF ReadModel, RequestOK, SessionOK, PlacesOK, DirtyOK, OpsAt, Reconciling,
     Request, Sweeps
<1>4. PICK v : v = [u EXCEPT !.seen[u.on] = row[u.on], !.pc = FirstPc(u.op)]
  OBVIOUS
<1>5. /\ FirstPc(u.op) \in {"decide", "publish", "verify", "check"}
      /\ u.op \in OpsAt(FirstPc(u.op))
  BY <1>3 DEF FirstPc, OpsAt, Op, Sweeps, Activates
<1>6. /\ v.pc = FirstPc(u.op) /\ v.op = u.op /\ v.on = u.on /\ v.plan = u.plan
      /\ v.dirty = {} /\ v.late = u.late /\ v.seen = [u.seen EXCEPT ![u.on] = row[u.on]]
  BY <1>3, <1>4 DEF Request
<1>7. v \in Request
  <2>1. [u.seen EXCEPT ![u.on] = row[u.on]] \in [Models -> Row]
    BY <1>1, <1>3
  <2> QED BY <1>4, <1>5, <2>1 DEF Request, Pc
<1>8. \A m \in Models : v.seen[m] = IF m = u.on THEN row[m] ELSE u.seen[m]
  BY <1>3, <1>6
<1>9. ~Sets(v) /\ ~Saves(v) /\ ~Saves(request[r])
  BY <1>2, <1>3, <1>5, <1>6 DEF Sets, Saves, Hangs
<1>10. PlacesOK(v)
  BY <1>1, <1>2, <1>3, <1>5, <1>6, <1>8 DEF RequestOK, SessionOK, PlacesOK, Sweeps
<1>11. SessionOK(v)
  BY <1>3, <1>5, <1>6, <1>9, <1>10 DEF SessionOK, DirtyOK, SetsOK, VerdictsOK, Checked,
     ReconcilesOK, Reconciling, Sweeps
<1>12. HeldBy(v) = {u.on}
  BY <1>3, <1>5, <1>6 DEF HeldBy, Sweeps
<1>13. LocksOK(r, v) /\ Fresh(v)
  BY <1>3, <1>6, <1>8, <1>12 DEF LocksOK, Fresh
<1>14. Reconciles(v) /\ Activating(v)
  BY <1>3, <1>5, <1>6, <1>9 DEF Reconciles, Reconciling, Activating, Replacing, Saves, Sweeps
<1>15. Become(r, v) /\ UNCHANGED <<database, cache, history>> /\ made' \in 0 .. MaxRequests
  BY <1>1, <1>2, <1>4 DEF ReadModel, TypeOK
<1> QED BY <1>7, <1>9, <1>11, <1>13, <1>14, <1>15, QuietKeepsInv DEF RequestOK

LEMMA NextRetryKeepsInv ==
    ASSUME RegistryInv, NEW r \in Requests, NextRetry(r)
    PROVE  RegistryInv'
<1>1. /\ TypeOK /\ request[r] \in Request /\ RequestOK(r, request[r])
  BY RequestFacts
<1>2. PICK u \in Request : u = request[r]
  BY <1>1
<1>3. u.pc = "next" /\ u.op = "retry" /\ u.todo \subseteq Models
  BY <1>1, <1>2 DEF NextRetry, RequestOK, SessionOK, PlacesOK, OpsAt, Request
<1>4. \A m \in Models : <<m, "active">> \notin u.dirty
  BY <1>1, <1>2, <1>3 DEF RequestOK, SessionOK, DirtyOK, SetsOK, Activates
<1>5. PICK v \in Request :
         /\ Become(r, v)
         /\ v.op = "retry" /\ v.plan = u.plan /\ v.seen = u.seen /\ v.dirty = u.dirty
         /\ v.late = u.late
         /\ \/ v.pc = "commit"
            \/ v.pc = "publish" /\ v.on \in Models
  <2>1. CASE u.todo = {}
    <3>1. PICK v : v = [u EXCEPT !.pc = "commit"]
      OBVIOUS
    <3>2. v \in Request
      BY <3>1 DEF Request, Pc
    <3>3. Become(r, v)
      BY <1>2, <2>1, <3>1 DEF NextRetry
    <3>4. /\ v.op = "retry" /\ v.plan = u.plan /\ v.seen = u.seen /\ v.dirty = u.dirty
          /\ v.late = u.late /\ v.pc = "commit"
      BY <1>3, <3>1 DEF Request
    <3> QED BY <3>2, <3>3, <3>4
  <2>2. CASE u.todo # {}
    <3>1. PICK m \in u.todo :
             Become(r, [u EXCEPT !.on = m, !.todo = @ \ {m}, !.pc = "publish"])
      BY <1>2, <2>2 DEF NextRetry
    <3>2. PICK v : v = [u EXCEPT !.on = m, !.todo = @ \ {m}, !.pc = "publish"]
      OBVIOUS
    <3>3. v \in Request
      BY <1>3, <3>2 DEF Request, Pc
    <3>4. /\ v.op = "retry" /\ v.plan = u.plan /\ v.seen = u.seen /\ v.dirty = u.dirty
          /\ v.late = u.late /\ v.pc = "publish" /\ v.on \in Models
      BY <1>3, <3>2 DEF Request
    <3> QED BY <3>1, <3>2, <3>3, <3>4
  <2> QED BY <2>1, <2>2
<1>6. ~Sets(v) /\ ~Saves(v) /\ ~Saves(request[r])
  <2>1. u.dirty \in SUBSET (Models \X Columns)
    BY DEF Request
  <2>2. <<v.on, "active">> \notin u.dirty
    BY <1>4, <2>1
  <2> QED BY <1>2, <1>3, <1>5, <2>2 DEF Sets, Saves, Hangs
<1>7. HeldBy(v) = HeldBy(u)
  BY <1>3, <1>5 DEF HeldBy, Sweeps
<1>8. SessionOK(v)
  <2>1. PlacesOK(v)
    <3>1. v.op \in OpsAt(v.pc)
      BY <1>5 DEF OpsAt, Op
    <3>2. "activate" \notin v.plan
      BY <1>1, <1>2, <1>3, <1>5 DEF RequestOK, SessionOK, PlacesOK
    <3> QED BY <1>5, <3>1, <3>2 DEF PlacesOK, Sweeps
  <2>2. DirtyOK(v)
    BY <1>1, <1>2, <1>3, <1>4, <1>5, <1>7 DEF RequestOK, SessionOK, DirtyOK
  <2> QED BY <1>5, <1>6, <2>1, <2>2 DEF SessionOK, SetsOK, VerdictsOK, Checked, ReconcilesOK,
            Reconciling
<1>9. LocksOK(r, v) /\ Fresh(v)
  BY <1>1, <1>2, <1>3, <1>5, <1>7 DEF RequestOK, LocksOK, Fresh
<1>10. Reconciles(v) /\ Activating(v)
  BY <1>5, <1>6 DEF Reconciles, Reconciling, Activating, Replacing, Saves
<1>11. UNCHANGED <<database, cache, history>> /\ made' \in 0 .. MaxRequests
  BY <1>1 DEF NextRetry, TypeOK
<1> QED BY <1>5, <1>6, <1>8, <1>9, <1>10, <1>11, QuietKeepsInv DEF RequestOK

----------------------------------------------------------------------------
\* The activation of a model until Redis is told of it

\* get_active_model returns what Redis says.
LEMMA ActiveIsUnique ==
    ASSUME RowsOK PROVE ActiveModels = {active}
BY DEF RowsOK, ActiveModels

LEMMA RememberActiveKeepsInv ==
    ASSUME RegistryInv, NEW r \in Requests, RememberActive(r)
    PROVE  RegistryInv'
<1>1. /\ TypeOK /\ request[r] \in Request /\ RequestOK(r, request[r])
  BY RequestFacts
<1>2. PICK u \in Request : u = request[r]
  BY <1>1
<1>3. u.pc = "remember" /\ u.op \in Activates /\ u.on \in Models
  BY <1>1, <1>2 DEF RememberActive, RequestOK, SessionOK, PlacesOK, OpsAt, Reconciling, Sweeps,
     Activates
<1>4. ActiveModels = {active} /\ active \in Models \union {None}
  BY <1>1, ActiveIsUnique DEF RegistryInv, TypeOK
<1>5. PICK v : v = [u EXCEPT !.replaces = active, !.pc = "claim"]
  OBVIOUS
<1>6. /\ v \in Request /\ v.pc = "claim" /\ v.replaces = active /\ v.op = u.op /\ v.on = u.on
      /\ v.plan = u.plan /\ v.seen = u.seen /\ v.dirty = u.dirty /\ v.late = u.late
  BY <1>4, <1>5 DEF Request, Pc
<1>7. /\ Become(r, v) /\ UNCHANGED <<database, cache, history>> /\ made' \in 0 .. MaxRequests
  BY <1>1, <1>2, <1>4, <1>5 DEF RememberActive, TypeOK
<1>8. ~Sets(u) /\ ~Sets(v) /\ ~Saves(v) /\ ~Saves(request[r])
  BY <1>1, <1>2, <1>3, <1>6 DEF RequestOK, SessionOK, SetsOK, Sets, Saves, Hangs
<1>9. HeldBy(v) = HeldBy(u)
  BY <1>3, <1>6 DEF HeldBy, Sweeps
<1>10. SessionOK(v)
  <2>1. PlacesOK(v)
    BY <1>1, <1>2, <1>3, <1>6 DEF RequestOK, SessionOK, PlacesOK, OpsAt, Sweeps, Activates
  <2>2. DirtyOK(v)
    BY <1>1, <1>2, <1>3, <1>6, <1>8, <1>9 DEF RequestOK, SessionOK, DirtyOK
  <2>3. VerdictsOK(v)
    BY <1>1, <1>2, <1>3, <1>6 DEF RequestOK, SessionOK, VerdictsOK, Checked
  <2> QED BY <1>3, <1>6, <1>8, <2>1, <2>2, <2>3 DEF SessionOK, SetsOK, ReconcilesOK,
            Reconciling, Activates
<1>11. LocksOK(r, v) /\ Fresh(v)
  BY <1>1, <1>2, <1>3, <1>6, <1>9 DEF RequestOK, LocksOK, Fresh, Activates
<1>12. Reconciles(v) /\ Activating(v)
  BY <1>3, <1>6, <1>8 DEF Reconciles, Reconciling, Activating, Replacing, Saves, Activates
<1> QED BY <1>6, <1>7, <1>8, <1>10, <1>11, <1>12, QuietKeepsInv DEF RequestOK

LEMMA ClaimRowKeepsInv ==
    ASSUME RegistryInv, NEW r \in Requests, NEW m \in Models, ClaimRow(r, m)
    PROVE  RegistryInv'
<1>1. /\ TypeOK /\ request[r] \in Request /\ RequestOK(r, request[r])
  BY RequestFacts
<1>2. PICK v \in Request : v = request[r]
  BY <1>1
<1>3. v.pc = "claim" /\ lock[m] = None /\ lock' = [lock EXCEPT ![m] = r]
  BY <1>2 DEF ClaimRow
<1>4. Turns(r, v)
  BY <1>1, <1>2, <1>3 DEF ClaimRow, Turns, TypeOK
<1>5. TypeOK'
  <2>1. lock' \in [Models -> Requests \union {None}]
    BY <1>1, <1>3 DEF TypeOK
  <2> QED BY <1>1, <2>1 DEF ClaimRow, TypeOK, cache, history
<1>6. ~Saves(v)
  BY <1>3 DEF Saves, Hangs
<1>7. LocksOK(r, v)'
  BY <1>1, <1>2, <1>3 DEF RequestOK, LocksOK, TypeOK
<1> QED BY <1>1, <1>2, <1>4, <1>5, <1>6, <1>7, TurnKeepsInv DEF RequestOK

LEMMA SetActiveKeepsInv ==
    ASSUME RegistryInv, NEW r \in Requests, SetActive(r)
    PROVE  RegistryInv'
<1>1. /\ TypeOK /\ request[r] \in Request /\ RequestOK(r, request[r])
      /\ \A m \in Models : row[m] \in Row
  BY RequestFacts
<1>2. PICK u \in Request : u = request[r]
  BY <1>1
<1>3. /\ u.pc = "claim" /\ u.op \in Activates /\ u.op # "reconcile" /\ ~Sweeps(u)
      /\ u.on \in Models /\ u.seen \in [Models -> Row] /\ u.dirty \in SUBSET (Models \X Columns)
      /\ \A m \in Models : lock[m] = r
  BY <1>1, <1>2 DEF SetActive, Claimed, Needed, RequestOK, SessionOK, PlacesOK, OpsAt,
     Reconciling, Sweeps, Activates, Request
<1>4. PICK w : w = [u.seen[u.on] EXCEPT !.active = TRUE, !.status = "active"]
  OBVIOUS
<1>5. /\ w \in Row /\ w.active /\ w.status = "active" /\ w["ollama"] = u.seen[u.on]["ollama"]
      /\ w.metrics = u.seen[u.on].metrics /\ w["status"] = "active"
  <2>1. u.seen[u.on] \in Row
    BY <1>3
  <2>2. w \in Row
    BY <1>4, <2>1 DEF Row
  <2>3. /\ w.active = TRUE /\ w.status = "active" /\ w.ollama = u.seen[u.on].ollama
        /\ w.metrics = u.seen[u.on].metrics
    BY <1>4, <2>1 DEF Row
  <2>4. w["ollama"] = w.ollama /\ w["status"] = w.status
    BY <2>2 DEF Row
  <2>5. u.seen[u.on]["ollama"] = u.seen[u.on].ollama
    BY <2>1 DEF Row
  <2> QED BY <2>2, <2>3, <2>4, <2>5
<1>6. PICK v : v = [u EXCEPT !.seen[u.on] = w,
                             !.dirty = @ \union {<<m, "active">> : m \in Models}
                                         \union {<<u.on, "metrics">>}
                                         \union {<<u.on, c>> :
                                            c \in {d \in {"status"} : u.seen[u.on][d] # "active"}},
                             !.pc = "save_previous"]
  OBVIOUS
<1>7. v \in Request
  <2>1. [u.seen EXCEPT ![u.on] = w] \in [Models -> Row]
    BY <1>3, <1>5
  <2>2. u.dirty \union {<<m, "active">> : m \in Models} \union {<<u.on, "metrics">>}
          \union {<<u.on, c>> : c \in {d \in {"status"} : u.seen[u.on][d] # "active"}}
          \in SUBSET (Models \X Columns)
    BY <1>3 DEF Columns
  <2> QED BY <1>6, <2>1, <2>2 DEF Request, Pc
<1>8. /\ v.pc = "save_previous" /\ v.op = u.op /\ v.on = u.on /\ v.plan = u.plan
      /\ v.late = u.late /\ v.replaces = u.replaces /\ v.seen = [u.seen EXCEPT ![u.on] = w]
  BY <1>6 DEF Request
<1>9. \A m \in Models, c \in Columns :
         <<m, c>> \in v.dirty <=>
            \/ <<m, c>> \in u.dirty
            \/ c = "active"
            \/ m = u.on /\ c = "metrics"
            \/ m = u.on /\ c = "status" /\ u.seen[u.on][c] # "active"
  BY <1>3, <1>6 DEF Request, Columns
<1>10. \A m \in Models : v.seen[m] = IF m = u.on THEN w ELSE u.seen[m]
  BY <1>3, <1>8
<1>11. Sets(v) /\ ~Saves(v) /\ ~Saves(request[r])
  BY <1>2, <1>3, <1>8, <1>9 DEF Sets, Saves, Hangs, Columns
<1>12. HeldBy(v) = {u.on} /\ HeldBy(u) = {u.on}
  BY <1>3, <1>8 DEF HeldBy, Sweeps
<1>13. SessionOK(v)
  <2>1. PlacesOK(v)
    BY <1>1, <1>2, <1>3, <1>8, <1>10 DEF RequestOK, SessionOK, PlacesOK, OpsAt, Sweeps
  <2>2. DirtyOK(v)
    <3>1. \A m \in Models, c \in Columns :
            <<m, c>> \in v.dirty /\ c # "active" => m \in HeldBy(v)
      BY <1>1, <1>2, <1>9, <1>12 DEF RequestOK, SessionOK, DirtyOK
    <3>2. \A m \in Models : <<m, "status">> \in v.dirty => v.seen[m].status # "retired"
      <4> SUFFICES ASSUME NEW m \in Models, <<m, "status">> \in v.dirty, m # u.on
                   PROVE  u.seen[m].status # "retired"
        BY <1>5, <1>10
      <4>1. <<m, "status">> \in u.dirty
        BY <1>9 DEF Columns
      <4> QED BY <1>1, <1>2, <1>3, <4>1 DEF RequestOK, SessionOK, DirtyOK
    <3> QED BY <1>8, <1>11, <3>1, <3>2 DEF DirtyOK
  <2>3. SetsOK(v)
    <3>1. v.seen[v.on] = w
      BY <1>3, <1>8, <1>10
    <3>2. \A m \in Models : <<m, "active">> \in v.dirty
      BY <1>9 DEF Columns
    <3> QED BY <1>3, <1>5, <1>8, <1>11, <3>1, <3>2 DEF SetsOK
  <2>4. VerdictsOK(v)
    BY <1>1, <1>2, <1>3, <1>5, <1>8, <1>10 DEF RequestOK, SessionOK, VerdictsOK, Checked,
       Activates
  <2> QED BY <1>3, <1>8, <2>1, <2>2, <2>3, <2>4 DEF SessionOK, ReconcilesOK, Reconciling
<1>14. LocksOK(r, v)
  BY <1>3 DEF LocksOK
<1>15. Fresh(v)
  <2> SUFFICES ASSUME "row" \notin u.late
               PROVE  /\ \A c \in Columns : <<u.on, c>> \notin v.dirty => w[c] = row[u.on][c]
                      /\ w.metrics.approval = row[u.on].metrics.approval
    BY <1>3, <1>8, <1>10, <1>12 DEF Fresh
  <2>1. /\ \A c \in Columns : <<u.on, c>> \notin u.dirty => u.seen[u.on][c] = row[u.on][c]
        /\ u.seen[u.on].metrics.approval = row[u.on].metrics.approval
    BY <1>1, <1>2, <1>3, <1>12 DEF RequestOK, Fresh, Activates
  <2>2. \A c \in Columns : <<u.on, c>> \notin v.dirty =>
             /\ <<u.on, c>> \notin u.dirty
             /\ c = "ollama" \/ (c = "status" /\ u.seen[u.on][c] = "active")
    <3> SUFFICES ASSUME NEW c \in Columns, <<u.on, c>> \notin v.dirty
                 PROVE  /\ <<u.on, c>> \notin u.dirty
                        /\ c = "ollama" \/ (c = "status" /\ u.seen[u.on][c] = "active")
      OBVIOUS
    <3>1. /\ <<u.on, c>> \notin u.dirty /\ c # "active" /\ c # "metrics"
          /\ c = "status" => u.seen[u.on][c] = "active"
      BY <1>3, <1>9
    <3> QED BY <3>1 DEF Columns
  <2> QED BY <1>5, <2>1, <2>2
<1>16. Reconciles(v)
  BY <1>3, <1>8 DEF Reconciles, Reconciling
<1>17. Activating(v)
  BY <1>1, <1>2, <1>3, <1>8, <1>11 DEF RequestOK, Activating, Replacing, Saves
<1>18. /\ Become(r, v) /\ UNCHANGED <<database, cache, history>> /\ made' \in 0 .. MaxRequests
  BY <1>1, <1>2, <1>4, <1>6 DEF SetActive, Mine, TypeOK
<1> QED BY <1>7, <1>11, <1>13, <1>14, <1>15, <1>16, <1>17, <1>18, QuietKeepsInv DEF RequestOK

----------------------------------------------------------------------------
\* The reconciliation until its commit

\* Two rows that differ do so in a column.
LEMMA RowsDiffer ==
    ASSUME NEW v \in Row, NEW w \in Row, v # w
    PROVE  \E c \in Columns : v[c] # w[c]
BY DEF Row, Columns

LEMMA ReconciledIsRow ==
    ASSUME NEW v \in Row, NEW b \in BOOLEAN
    PROVE  /\ Reconciled(v, b) \in Row /\ Reconciled(v, b).active = b
           /\ Reconciled(v, b).metrics = v.metrics
           /\ b => Reconciled(v, b).status = "active"
<1>1. InactiveStatus(v) \in {"retired", "published", "registered"}
  BY DEF InactiveStatus
<1> QED BY <1>1 DEF Reconciled, Row

LEMMA RetiredIsRow ==
    ASSUME NEW v \in Row
    PROVE  /\ Retired(v) \in Row /\ Retired(v).active = FALSE
           /\ Retired(v).metrics.approval = v.metrics.approval
BY DEF Retired, Row, Metrics

\* What a reconciliation that has read the active model a makes of its rows, what
\* the retirement of some adds, and what becomes of the request.
Due(u, a) == [m \in Models |->
                Reconciled(u.seen[m], IF a = None THEN u.seen[m].active ELSE m = a)]

Without(due, gone) == [m \in Models |-> IF m \in gone THEN Retired(due[m]) ELSE due[m]]

Corrected(u, new) ==
    IF new = u.seen THEN Idle
    ELSE [u EXCEPT !.seen = new,
                   !.dirty = {x \in Models \X Columns : u.seen[x[1]][x[2]] # new[x[1]][x[2]]},
                   !.pc = "claim"]

LEMMA CompareKeepsInv ==
    ASSUME RegistryInv, NEW r \in Requests, Compare(r)
    PROVE  RegistryInv'
<1>1. /\ TypeOK /\ request[r] \in Request /\ RequestOK(r, request[r])
      /\ \A m \in Models : row[m] \in Row
  BY RequestFacts
<1>2. PICK u \in Request : u = request[r]
  BY <1>1
<1>3. /\ u.pc = "compare" /\ u.op = "reconcile" /\ u.seen \in [Models -> Row] /\ u.dirty = {}
      /\ "active" \notin u.late /\ Sweeps(u) /\ HeldBy(u) = Models
      /\ "activate" \notin u.plan
  BY <1>1, <1>2 DEF Compare, RequestOK, SessionOK, PlacesOK, DirtyOK, ReconcilesOK, OpsAt,
     Request, Sweeps, HeldBy
<1>4. ActiveModels = {active}
  BY ActiveIsUnique DEF RegistryInv
<1>5. PICK gone \in SUBSET Models :
        /\ \A m \in gone : Retirable(Due(u, active)[m])
        /\ Become(r, Corrected(u, Without(Due(u, active), gone)))
  <2>1. \E a \in ActiveModels :
          \E gone \in SUBSET {m \in Models : Retirable(Due(request[r], a)[m])} :
             Become(r, Corrected(request[r], Without(Due(request[r], a), gone)))
    BY DEF Compare, Due, Without, Corrected
  <2>2. PICK gone \in SUBSET {m \in Models : Retirable(Due(u, active)[m])} :
             Become(r, Corrected(u, Without(Due(u, active), gone)))
    BY <1>2, <1>4, <2>1
  <2> QED BY <2>2
<1>6. PICK due : due = Due(u, active)
  OBVIOUS
<1>7. PICK new : new = Without(due, gone)
  OBVIOUS
<1>8. Become(r, Corrected(u, new))
  BY <1>5, <1>6, <1>7
<1>9. ASSUME NEW m \in Models
      PROVE  /\ new[m] \in Row
             /\ new[m].active = IF active = None THEN u.seen[m].active ELSE m = active
             /\ new[m].active => new[m].status = "active"
             /\ new[m].metrics.approval = u.seen[m].metrics.approval
  <2>1. PICK b \in BOOLEAN : b = IF active = None THEN u.seen[m].active ELSE m = active
    BY <1>3 DEF Row
  <2>2. due[m] = Reconciled(u.seen[m], b) /\ u.seen[m] \in Row
    BY <1>3, <1>6, <2>1 DEF Due
  <2>3. /\ due[m] \in Row /\ due[m].active = b /\ due[m].metrics = u.seen[m].metrics
        /\ b => due[m].status = "active"
    BY <2>2, ReconciledIsRow
  <2>4. CASE m \in gone
    <3>1. new[m] = Retired(due[m]) /\ b = FALSE
      BY <1>5, <1>6, <1>7, <2>3, <2>4 DEF Without, Retirable
    <3>2. /\ new[m] \in Row /\ new[m].active = FALSE
          /\ new[m].metrics.approval = u.seen[m].metrics.approval
      BY <2>3, <3>1, RetiredIsRow
    <3> QED BY <2>1, <3>1, <3>2
  <2>5. CASE m \notin gone
    <3>1. new[m] = due[m]
      BY <1>7, <2>5 DEF Without
    <3> QED BY <2>1, <2>3, <3>1
  <2> QED BY <2>4, <2>5
<1>10. new \in [Models -> Row]
  BY <1>7, <1>9 DEF Without
<1>11. UNCHANGED <<database, cache, history>> /\ made' \in 0 .. MaxRequests /\ ~Saves(request[r])
  BY <1>1, <1>2, <1>3 DEF Compare, TypeOK, Saves, Hangs
<1>12. CASE new = u.seen
  <2>1. Become(r, Idle)
    BY <1>8, <1>12 DEF Corrected
  <2> QED BY <1>11, <2>1, IdleIsIdle, QuietKeepsInv DEF Saves, Hangs
<1>13. CASE new # u.seen
  <2>1. PICK v : v = [u EXCEPT !.seen = new,
                               !.dirty = {x \in Models \X Columns :
                                            u.seen[x[1]][x[2]] # new[x[1]][x[2]]},
                               !.pc = "claim"]
    OBVIOUS
  <2>2. Become(r, v)
    BY <1>8, <1>13, <2>1 DEF Corrected
  <2>3. v \in Request
    BY <1>10, <2>1 DEF Request, Pc
  <2>4. /\ v.pc = "claim" /\ v.op = "reconcile" /\ v.plan = u.plan /\ v.seen = new
        /\ v.late = u.late
        /\ v.dirty = {x \in Models \X Columns : u.seen[x[1]][x[2]] # new[x[1]][x[2]]}
    BY <1>3, <2>1 DEF Request
  <2>5. \A m \in Models, c \in Columns : <<m, c>> \in v.dirty <=> u.seen[m][c] # new[m][c]
    BY <2>4
  <2>6. ~Sets(v) /\ ~Saves(v) /\ HeldBy(v) = Models /\ Reconciling(v)
    BY <2>4 DEF Sets, Saves, Hangs, HeldBy, Sweeps, Reconciling
  <2>7. ReconcilesOK(v)
    <3>1. PICK m \in Models : u.seen[m] # new[m]
      BY <1>3, <1>10, <1>13
    <3>2. \E c \in Columns : u.seen[m][c] # new[m][c]
      BY <1>3, <1>9, <3>1, RowsDiffer
    <3>3. v.dirty # {}
      BY <2>5, <3>2
    <3> QED BY <1>9, <2>4, <3>3 DEF ReconcilesOK
  <2>8. SessionOK(v)
    <3>1. PlacesOK(v)
      BY <1>3, <2>4, <2>6 DEF PlacesOK, OpsAt, Sweeps
    <3>2. DirtyOK(v) /\ SetsOK(v) /\ VerdictsOK(v)
      BY <2>4, <2>6 DEF DirtyOK, SetsOK, VerdictsOK, Checked
    <3> QED BY <2>7, <3>1, <3>2 DEF SessionOK
  <2>9. LocksOK(r, v)
    BY <2>4 DEF LocksOK
  <2>10. "row" \notin u.late => \A m \in Models : u.seen[m] = row[m]
    <3> SUFFICES ASSUME "row" \notin u.late, NEW m \in Models PROVE u.seen[m] = row[m]
      OBVIOUS
    <3>1. \A c \in Columns : u.seen[m][c] = row[m][c]
      BY <1>1, <1>2, <1>3 DEF RequestOK, Fresh
    <3> QED BY <1>1, <1>3, <3>1, RowsDiffer
  <2>11. Fresh(v)
    BY <1>9, <2>4, <2>5, <2>6, <2>10 DEF Fresh
  <2>12. Reconciles(v)
    <3>1. ASSUME v.late = {} PROVE \A m \in Models : v.seen[m].active <=> m = active
      <4>1. CASE active = None
        BY <1>1, <1>9, <2>4, <2>10, <3>1, <4>1, NoneAssumption DEF RegistryInv, RowsOK, ActiveRows
      <4>2. CASE active # None
        BY <1>9, <2>4, <4>2
      <4> QED BY <4>1, <4>2
    <3>2. ASSUME active = None, NEW m \in Models PROVE <<m, "active">> \notin v.dirty
      <4>1. new[m]["active"] = u.seen[m]["active"]
        <5>1. new[m] \in Row /\ u.seen[m] \in Row /\ new[m].active = u.seen[m].active
          BY <1>3, <1>9, <3>2
        <5> QED BY <5>1 DEF Row
      <4> QED BY <2>5, <4>1 DEF Columns
    <3> QED BY <1>3, <2>4, <3>1, <3>2 DEF Reconciles
  <2>13. Activating(v)
    BY <2>4, <2>6 DEF Activating, Replacing, Saves
  <2> QED BY <1>11, <2>2, <2>3, <2>6, <2>8, <2>9, <2>11, <2>12, <2>13, QuietKeepsInv
            DEF RequestOK
<1> QED BY <1>12, <1>13

LEMMA FlushReconciledKeepsInv ==
    ASSUME RegistryInv, NEW r \in Requests, FlushReconciled(r)
    PROVE  RegistryInv'
<1>1. /\ TypeOK /\ request[r] \in Request /\ RequestOK(r, request[r])
  BY RequestFacts
<1>2. PICK u \in Request : u = request[r]
  BY <1>1
<1>3. /\ u.pc = "claim" /\ u.op = "reconcile" /\ HeldBy(u) = Models /\ Reconciling(u)
      /\ u.dirty \in SUBSET (Models \X Columns)
      /\ \A m \in Models : (\E c \in Columns : <<m, c>> \in u.dirty) => lock[m] = r
  BY <1>2 DEF FlushReconciled, Claimed, Needed, Touched, Request, HeldBy, Sweeps, Reconciling
<1>4. PICK v : v = [u EXCEPT !.pc = "commit"]
  OBVIOUS
<1>5. /\ v \in Request /\ v.pc = "commit" /\ v.op = "reconcile" /\ v.plan = u.plan
      /\ v.on = u.on /\ v.seen = u.seen /\ v.dirty = u.dirty /\ v.late = u.late
  BY <1>3, <1>4 DEF Request, Pc
<1>6. ~Sets(v) /\ ~Saves(v) /\ ~Saves(request[r]) /\ HeldBy(v) = Models /\ Reconciling(v)
  BY <1>2, <1>3, <1>5 DEF Sets, Saves, Hangs, HeldBy, Sweeps, Reconciling
<1>7. SessionOK(v)
  <2>1. PlacesOK(v)
    BY <1>1, <1>2, <1>3, <1>5, <1>6 DEF RequestOK, SessionOK, PlacesOK, OpsAt, Op, Sweeps
  <2>2. DirtyOK(v) /\ SetsOK(v) /\ VerdictsOK(v)
    BY <1>5, <1>6 DEF DirtyOK, SetsOK, VerdictsOK, Checked
  <2>3. ReconcilesOK(v)
    BY <1>1, <1>2, <1>3, <1>5, <1>6 DEF RequestOK, SessionOK, ReconcilesOK
  <2> QED BY <2>1, <2>2, <2>3 DEF SessionOK
<1>8. LocksOK(r, v)
  BY <1>3, <1>5 DEF LocksOK
<1>9. Fresh(v)
  BY <1>1, <1>2, <1>3, <1>5, <1>6 DEF RequestOK, Fresh
<1>10. Reconciles(v)
  BY <1>1, <1>2, <1>3, <1>5, <1>6 DEF RequestOK, Reconciles
<1>11. Activating(v)
  BY <1>5, <1>6 DEF Activating, Replacing, Saves
<1>12. /\ Become(r, v) /\ UNCHANGED <<database, cache, history>> /\ made' \in 0 .. MaxRequests
  BY <1>1, <1>2, <1>4 DEF FlushReconciled, TypeOK
<1> QED BY <1>5, <1>6, <1>7, <1>8, <1>9, <1>10, <1>11, <1>12, QuietKeepsInv DEF RequestOK

----------------------------------------------------------------------------
\* What is written to Redis

\* Whoever has set the active columns has locked every row.
LEMMA SetsLocksAll ==
    ASSUME RegistryInv, NEW r \in Requests, Sets(request[r])
    PROVE  request[r].on \in Models /\ \A m \in Models : lock[m] = r
<1>1. RequestOK(r, request[r])
  BY RequestFacts
<1>2. /\ request[r].op \in Activates /\ request[r].pc \in {"save_previous", "save_active", "commit"}
      /\ \A m \in Models : <<m, "active">> \in request[r].dirty
  BY <1>1 DEF RequestOK, SessionOK, SetsOK
<1>3. request[r].on \in Models
  BY <1>1, <1>2 DEF RequestOK, SessionOK, PlacesOK, Activates, Sweeps, Reconciling
<1>4. "active" \in Columns /\ request[r].op # "reconcile"
  BY <1>2 DEF Columns, Activates
<1>5. \A m \in Models : lock[m] = r
  BY <1>1, <1>2, <1>4 DEF RequestOK, LocksOK
<1> QED BY <1>3, <1>5

LEMMA SavesSets ==
    ASSUME RegistryInv, NEW r \in Requests, Saves(request[r]) PROVE Sets(request[r])
BY RequestFacts DEF RequestOK, SessionOK, SetsOK, Saves, Hangs

\* An activation that has set them is the only one, and no reconciliation commits.
LEMMA SetsAlone ==
    ASSUME RegistryInv, NEW r \in Requests, Sets(request[r]), NEW q \in Requests, q # r
    PROVE  /\ ~Sets(request[q]) /\ ~Saves(request[q]) /\ ~Hangs(request[q])
           /\ request[q].op = "reconcile" => request[q].pc # "commit"
<1>1. request[r].on \in Models /\ \A m \in Models : lock[m] = r
  BY SetsLocksAll
<1>2. ~Sets(request[q])
  BY <1>1, SetsLocksAll
<1>3. ~Saves(request[q]) /\ ~Hangs(request[q])
  BY <1>2, SavesSets DEF Saves
<1>4. ASSUME request[q].op = "reconcile", request[q].pc = "commit" PROVE FALSE
  <2>1. request[q] \in Request /\ RequestOK(q, request[q])
    BY RequestFacts
  <2>2. request[q].dirty # {} /\ request[q].dirty \subseteq Models \X Columns
    BY <1>4, <2>1 DEF RequestOK, SessionOK, ReconcilesOK, Reconciling, Request
  <2>3. PICK m \in Models, c \in Columns : <<m, c>> \in request[q].dirty
    BY <2>2
  <2>4. lock[m] = q
    BY <1>4, <2>1, <2>3 DEF RequestOK, LocksOK
  <2> QED BY <1>1, <2>4
<1> QED BY <1>2, <1>3, <1>4

LEMMA SavePreviousKeepsInv ==
    ASSUME RegistryInv, NEW r \in Requests, SavePrevious(r)
    PROVE  RegistryInv'
<1>1. /\ TypeOK /\ RowsOK /\ AgreeOK /\ RollbackOK
      /\ request[r] \in Request /\ RequestOK(r, request[r])
  BY RequestFacts DEF RegistryInv
<1>2. PICK u \in Request : u = request[r]
  BY <1>1
<1>3. /\ u.pc = "save_previous" /\ Sets(u) /\ u.op \in Activates
  BY <1>1, <1>2 DEF SavePrevious, RequestOK, SessionOK, SetsOK
<1>4. PICK v : v = [u EXCEPT !.pc = "save_active"]
  OBVIOUS
<1>5. /\ v \in Request /\ v.pc = "save_active" /\ v.op = u.op /\ v.on = u.on /\ v.plan = u.plan
      /\ v.seen = u.seen /\ v.dirty = u.dirty /\ v.late = u.late /\ v.replaces = u.replaces
  BY <1>4 DEF Request, Pc
<1>6. /\ request' = [request EXCEPT ![r] = v]
      /\ previous' = IF u.replaces \in {None, u.on} THEN previous ELSE u.replaces
      /\ UNCHANGED <<database, active, made, history>>
  BY <1>2, <1>4 DEF SavePrevious, Become
<1>7. \A q \in Requests : request'[q] = IF q = r THEN v ELSE request[q]
  BY <1>1, <1>6 DEF TypeOK
<1>8. /\ row' = row /\ lock' = lock /\ active' = active /\ made' = made /\ decision' = decision
      /\ overwritten' = overwritten /\ drift' = drift /\ replaced' = replaced
      /\ trusted' = trusted
  BY <1>6 DEF database, history
<1>9. TypeOK'
  <2>1. request' \in [Requests -> Request]
    BY <1>1, <1>5, <1>6 DEF TypeOK
  <2>2. previous' \in Models \union {None}
    BY <1>1, <1>6 DEF TypeOK, Request
  <2> QED BY <1>1, <1>8, <2>1, <2>2 DEF TypeOK
<1>10. \A q \in Requests : ~Hangs(request[q]) /\ ~Saves(request[q])
  BY <1>2, <1>3, SetsAlone DEF Saves, Hangs
<1>11. /\ NobodyHangs /\ NobodyHangs'
  BY <1>5, <1>7, <1>10 DEF NobodyHangs, Hangs
<1>12. ActiveRows' = ActiveRows
  BY <1>8 DEF ActiveRows
<1>13. RowsOK' /\ AgreeOK'
  BY <1>1, <1>8, <1>11, <1>12 DEF RowsOK, RetiredIsSilent, AgreeOK
<1>14. RollbackOK'
  <2> SUFFICES ASSUME trusted,
                      Saves(request'[r]) => request'[r].replaces \in {None, request'[r].on}
               PROVE  replaced \subseteq {previous'}
    BY <1>8 DEF RollbackOK
  <2>1. previous' = previous
    BY <1>5, <1>6, <1>7 DEF Saves
  <2> QED BY <1>1, <1>10, <2>1 DEF RollbackOK
<1>15. RequestOK(r, request[r])'
  <2>1. SessionOK(v)
    <3>1. PlacesOK(v)
      BY <1>1, <1>2, <1>3, <1>5 DEF RequestOK, SessionOK, PlacesOK, OpsAt, Sweeps, Reconciling,
         Activates
    <3>2. DirtyOK(v)
      BY <1>1, <1>2, <1>3, <1>5 DEF RequestOK, SessionOK, DirtyOK, HeldBy, Sweeps, Sets
    <3>3. SetsOK(v) /\ VerdictsOK(v)
      BY <1>1, <1>2, <1>3, <1>5 DEF RequestOK, SessionOK, SetsOK, VerdictsOK, Checked, Sets
    <3>4. ReconcilesOK(v)
      BY <1>3, <1>5 DEF ReconcilesOK, Reconciling
    <3> QED BY <3>1, <3>2, <3>3, <3>4 DEF SessionOK
  <2>2. LocksOK(r, v)'
    BY <1>1, <1>2, <1>3, <1>5, <1>8 DEF RequestOK, LocksOK
  <2>3. Fresh(v)'
    BY <1>1, <1>2, <1>3, <1>5, <1>8 DEF RequestOK, Fresh, HeldBy, Sweeps
  <2>4. Reconciles(v)'
    BY <1>5 DEF Reconciles, Reconciling
  <2>5. Activating(v)'
    BY <1>1, <1>2, <1>3, <1>5, <1>6, <1>8, <1>11 DEF RequestOK, Activating, Replacing, Saves, Hangs
  <2>6. request'[r] = v
    BY <1>7
  <2> QED BY <2>1, <2>2, <2>3, <2>4, <2>5, <2>6 DEF RequestOK, LocksOK, Fresh, Reconciles,
            Activating
<1>16. ASSUME NEW q \in Requests, q # r PROVE RequestOK(q, request[q])'
  <2>1. request'[q] = request[q] /\ RequestOK(q, request[q])
    BY <1>7, <1>16, RequestFacts
  <2>2. LocksOK(q, request[q])' /\ Fresh(request[q])' /\ SessionOK(request[q])'
    BY <1>8, <2>1 DEF RequestOK, LocksOK, Fresh
  <2>3. Reconciles(request[q])'
    BY <1>8, <1>11, <2>1 DEF RequestOK, Reconciles
  <2>4. Activating(request[q])'
    BY <1>8, <1>10, <1>11, <2>1 DEF RequestOK, Activating
  <2> QED BY <2>2, <2>3, <2>4 DEF RequestOK
<1> QED BY <1>9, <1>13, <1>14, <1>15, <1>16 DEF RegistryInv

LEMMA SaveActiveKeepsInv ==
    ASSUME RegistryInv, NEW r \in Requests, SaveActive(r)
    PROVE  RegistryInv'
<1>1. /\ TypeOK /\ RowsOK /\ AgreeOK /\ RollbackOK
      /\ request[r] \in Request /\ RequestOK(r, request[r])
  BY RequestFacts DEF RegistryInv
<1>2. PICK u \in Request : u = request[r]
  BY <1>1
<1>3. u.pc = "save_active" /\ Sets(u) /\ u.op \in Activates /\ Saves(u)
  BY <1>1, <1>2 DEF SaveActive, RequestOK, SessionOK, SetsOK, Saves
<1>4. PICK v : v = [u EXCEPT !.pc = "commit"]
  OBVIOUS
<1>5. /\ v \in Request /\ v.pc = "commit" /\ v.op = u.op /\ v.on = u.on /\ v.plan = u.plan
      /\ v.seen = u.seen /\ v.dirty = u.dirty /\ v.late = u.late /\ v.replaces = u.replaces
  BY <1>4 DEF Request, Pc
<1>6. /\ request' = [request EXCEPT ![r] = v] /\ active' = u.on
      /\ UNCHANGED <<database, previous, made, history>>
  BY <1>2, <1>4 DEF SaveActive, Become
<1>7. \A q \in Requests : request'[q] = IF q = r THEN v ELSE request[q]
  BY <1>1, <1>6 DEF TypeOK
<1>8. /\ row' = row /\ lock' = lock /\ previous' = previous /\ made' = made
      /\ decision' = decision /\ overwritten' = overwritten /\ drift' = drift
      /\ replaced' = replaced /\ trusted' = trusted
  BY <1>6 DEF database, history
<1>9. u.on \in Models /\ u.on # None
  BY <1>2, <1>3, SetsLocksAll, NoneAssumption
<1>10. TypeOK'
  <2>1. request' \in [Requests -> Request]
    BY <1>1, <1>5, <1>6 DEF TypeOK
  <2> QED BY <1>1, <1>6, <1>8, <1>9, <2>1 DEF TypeOK
<1>11. \A q \in Requests : q # r => ~Hangs(request[q]) /\ ~Saves(request[q])
  BY <1>2, <1>3, SetsAlone
<1>12. NobodyHangs /\ ~NobodyHangs' /\ Hangs(v) /\ Saves(v)
  <2>1. Hangs(v)
    BY <1>3, <1>5 DEF Hangs, Sets
  <2>2. ~Hangs(request[r])
    BY <1>2, <1>3 DEF Hangs
  <2> QED BY <1>7, <1>11, <2>1, <2>2 DEF NobodyHangs, Saves
<1>13. ActiveRows' = ActiveRows
  BY <1>8 DEF ActiveRows
<1>14. RowsOK' /\ AgreeOK'
  BY <1>1, <1>6, <1>8, <1>9, <1>12, <1>13 DEF RowsOK, RetiredIsSilent, AgreeOK
<1>15. RollbackOK'
  BY <1>1, <1>2, <1>3, <1>5, <1>7, <1>8, <1>12 DEF RollbackOK
<1>16. RequestOK(r, request[r])'
  <2>1. SessionOK(v)
    <3>1. PlacesOK(v)
      BY <1>1, <1>2, <1>3, <1>5 DEF RequestOK, SessionOK, PlacesOK, OpsAt, Sweeps, Reconciling,
         Activates, Op
    <3>2. DirtyOK(v)
      BY <1>1, <1>2, <1>3, <1>5 DEF RequestOK, SessionOK, DirtyOK, HeldBy, Sweeps, Sets
    <3>3. SetsOK(v)
      BY <1>1, <1>2, <1>3, <1>5 DEF RequestOK, SessionOK, SetsOK, Sets
    <3>4. VerdictsOK(v)
      BY <1>1, <1>2, <1>3, <1>5 DEF RequestOK, SessionOK, VerdictsOK, Checked, Sets, Activates
    <3>5. ReconcilesOK(v)
      BY <1>3, <1>5 DEF ReconcilesOK, Reconciling, Activates
    <3> QED BY <3>1, <3>2, <3>3, <3>4, <3>5 DEF SessionOK
  <2>2. LocksOK(r, v)'
    BY <1>1, <1>2, <1>3, <1>5, <1>8 DEF RequestOK, LocksOK
  <2>3. Fresh(v)'
    BY <1>1, <1>2, <1>3, <1>5, <1>8 DEF RequestOK, Fresh, HeldBy, Sweeps
  <2>4. Reconciles(v)'
    BY <1>3, <1>5 DEF Reconciles, Reconciling, Activates
  <2>5. Activating(v)'
    <3>1. "active" \notin u.late => u.replaces = active
      BY <1>1, <1>2, <1>3, <1>12 DEF RequestOK, Activating, Replacing, Activates
    <3>2. "active" \notin u.late /\ ~drift => ActiveRows = {u.replaces} \ {None}
      BY <1>1, <1>12, <3>1 DEF AgreeOK
    <3>3. u.replaces \notin {None, u.on} => previous = u.replaces
      BY <1>1, <1>2, <1>3 DEF RequestOK, Activating
    <3> QED BY <1>5, <1>6, <1>8, <1>13, <3>2, <3>3 DEF Activating, Replacing
  <2>6. request'[r] = v
    BY <1>7
  <2> QED BY <2>1, <2>2, <2>3, <2>4, <2>5, <2>6 DEF RequestOK, LocksOK, Fresh, Reconciles,
            Activating
<1>17. ASSUME NEW q \in Requests, q # r PROVE RequestOK(q, request[q])'
  <2>1. request'[q] = request[q] /\ RequestOK(q, request[q])
    BY <1>7, <1>17, RequestFacts
  <2>2. LocksOK(q, request[q])' /\ Fresh(request[q])' /\ SessionOK(request[q])'
    BY <1>8, <2>1 DEF RequestOK, LocksOK, Fresh
  <2>3. Reconciles(request[q])'
    BY <1>6, <1>8, <1>9, <1>12, <2>1 DEF RequestOK, Reconciles
  <2>4. Activating(request[q])'
    BY <1>11, <1>12, <1>17, <2>1 DEF Activating
  <2> QED BY <2>2, <2>3, <2>4 DEF RequestOK
<1> QED BY <1>10, <1>14, <1>15, <1>16, <1>17 DEF RegistryInv

----------------------------------------------------------------------------
\* The end of a request

\* The session of another one, which may have been told that it is late.
Overtaken(u, w) ==
    /\ w.pc = u.pc /\ w.op = u.op /\ w.on = u.on /\ w.plan = u.plan /\ w.todo = u.todo
    /\ w.seen = u.seen /\ w.dirty = u.dirty /\ w.replaces = u.replaces
    /\ u.late \subseteq w.late
    /\ "active" \in w.late =>
         "active" \in u.late \/ u.pc \in {"claim", "save_previous", "save_active"}

LEMMA OvertakenSession ==
    ASSUME NEW u \in Request, NEW w \in Request, Overtaken(u, w)
    PROVE  /\ Sets(w) <=> Sets(u)
           /\ Hangs(w) <=> Hangs(u)
           /\ Saves(w) <=> Saves(u)
           /\ Replacing(w) <=> Replacing(u)
           /\ Reconciling(w) <=> Reconciling(u)
           /\ HeldBy(w) = HeldBy(u)
           /\ SessionOK(u) => SessionOK(w)
<1>1. /\ Sets(w) <=> Sets(u)
      /\ Replacing(w) <=> Replacing(u)
      /\ Reconciling(w) <=> Reconciling(u)
      /\ HeldBy(w) = HeldBy(u)
      /\ Sweeps(w) <=> Sweeps(u)
  BY DEF Overtaken, Sets, Replacing, Reconciling, HeldBy, Sweeps
<1>2. /\ Hangs(w) <=> Hangs(u)
      /\ Saves(w) <=> Saves(u)
      /\ Checked(w) <=> Checked(u)
  BY <1>1 DEF Overtaken, Hangs, Saves, Checked
<1>3. ASSUME SessionOK(u) PROVE SessionOK(w)
  <2>1. PlacesOK(w)
    BY <1>1, <1>3 DEF SessionOK, PlacesOK, Overtaken
  <2>2. DirtyOK(w)
    BY <1>1, <1>3 DEF SessionOK, DirtyOK, Overtaken
  <2>3. SetsOK(w)
    BY <1>1, <1>3 DEF SessionOK, SetsOK, Overtaken
  <2>4. VerdictsOK(w)
    BY <1>2, <1>3 DEF SessionOK, VerdictsOK, Overtaken
  <2>5. ReconcilesOK(w)
    BY <1>1, <1>3 DEF SessionOK, ReconcilesOK, Overtaken
  <2> QED BY <2>1, <2>2, <2>3, <2>4, <2>5 DEF SessionOK
<1> QED BY <1>1, <1>2, <1>3

LEMMA OvertakeOvertakes ==
    ASSUME RegistryInv, NEW r \in Requests, NEW S \in SUBSET Models, request' = Overtake(r, S),
           NEW q \in Requests, q # r
    PROVE  /\ request'[q] \in Request
           /\ Overtaken(request[q], request'[q])
           /\ HeldBy(request[q]) \intersect S # {} => "row" \in request'[q].late
           /\ Pending(r) /\ request[q].pc \in {"claim", "save_previous", "save_active"} =>
                "active" \in request'[q].late
           /\ ~Pending(r) /\ "active" \in request'[q].late => "active" \in request[q].late
<1>1. request[q] \in Request
  BY RequestFacts
<1>2. PICK u \in Request : u = request[q]
  BY <1>1
<1>3. PICK late : late = u.late \union {k \in {"row"} : Holds(q) \intersect S # {}}
                           \union {k \in {"active"} : Pending(r) /\ u.pc \in
                                       {"claim", "save_previous", "save_active"}}
  OBVIOUS
<1>4. request'[q] = [u EXCEPT !.late = late]
  BY <1>2, <1>3 DEF Overtake
<1>5. late \subseteq {"row", "active"}
  BY <1>3 DEF Request
<1>6. Holds(q) = HeldBy(u)
  BY <1>2 DEF Holds, HeldBy, Open, Sweeps
<1>7. PICK w : w = [u EXCEPT !.late = late]
  OBVIOUS
<1>8. w \in Request
  BY <1>5, <1>7 DEF Request
<1>9. /\ w.pc = u.pc /\ w.op = u.op /\ w.on = u.on /\ w.plan = u.plan /\ w.todo = u.todo
      /\ w.seen = u.seen /\ w.dirty = u.dirty /\ w.replaces = u.replaces /\ w.late = late
  BY <1>7 DEF Request
<1>10. Overtaken(u, w)
  BY <1>3, <1>9 DEF Overtaken
<1>11. HeldBy(u) \intersect S # {} => "row" \in w.late
  BY <1>3, <1>6, <1>9
<1>12. Pending(r) /\ u.pc \in {"claim", "save_previous", "save_active"} => "active" \in w.late
  BY <1>3, <1>9
<1>13. ~Pending(r) /\ "active" \in w.late => "active" \in u.late
  BY <1>3, <1>9
<1> QED BY <1>2, <1>4, <1>7, <1>8, <1>10, <1>11, <1>12, <1>13

\* What the end of r, with the rows in S written, leaves to be shown.
LEMMA EndKeepsInv ==
    ASSUME RegistryInv, NEW r \in Requests, NEW S \in SUBSET Models,
           request' = Overtake(r, S), lock' = Unlocked(r), UNCHANGED <<cache, made>>,
           row' \in [Models -> Row], \A m \in Models \ S : row'[m] = row[m],
           decision' \in [Models -> Approval], overwritten' \subseteq Models,
           drift' \in BOOLEAN, replaced' \subseteq Models, trusted' \in BOOLEAN,
           RowsOK', AgreeOK', RollbackOK',
           \A q \in Requests : q # r =>
              Reconciles(request[q])' /\ Activating(request[q])'
    PROVE  RegistryInv'
<1>1. TypeOK
  BY RequestFacts
<1>2. request'[r] = Idle
  BY DEF Overtake
<1>3. ASSUME NEW q \in Requests, q # r
      PROVE  /\ request'[q] \in Request /\ RequestOK(q, request[q])
             /\ Overtaken(request[q], request'[q])
             /\ HeldBy(request[q]) \intersect S # {} => "row" \in request'[q].late
  BY <1>3, OvertakeOvertakes, RequestFacts
<1>4. TypeOK'
  <2>1. request' \in [Requests -> Request]
    <3>1. \A q \in Requests : request'[q] \in Request
      BY <1>2, <1>3, IdleIsIdle
    <3> QED BY <3>1 DEF Overtake
  <2>2. lock' \in [Models -> Requests \union {None}]
    BY <1>1 DEF TypeOK, Unlocked
  <2> QED BY <1>1, <2>1, <2>2 DEF TypeOK, cache
<1>5. ASSUME NEW q \in Requests PROVE RequestOK(q, request[q])'
  <2>1. CASE q = r
    <3>1. SessionOK(Idle) /\ Idle.dirty = {} /\ Idle.pc = "idle"
      BY IdleIsIdle DEF RequestOK
    <3> QED BY <1>2, <2>1, <3>1 DEF RequestOK, LocksOK, Fresh, HeldBy, Reconciles, Reconciling,
              Activating, Replacing, Saves, Hangs
  <2>2. CASE q # r
    <3>1. PICK u \in Request, w \in Request :
             u = request[q] /\ w = request'[q] /\ RequestOK(q, u) /\ Overtaken(u, w)
      BY <1>3, <2>2, RequestFacts
    <3>2. SessionOK(w)
      BY <3>1, OvertakenSession DEF RequestOK
    <3>3. LocksOK(q, w)'
      BY <1>1, <2>2, <3>1 DEF RequestOK, LocksOK, Overtaken, Unlocked
    <3>4. Fresh(w)'
      <4> SUFFICES ASSUME "row" \notin w.late, NEW m \in HeldBy(w)
                   PROVE  /\ \A c \in Columns : <<m, c>> \notin w.dirty => w.seen[m][c] = row'[m][c]
                          /\ w.op \notin {"approve", "reject"} =>
                               w.seen[m].metrics.approval = row'[m].metrics.approval
        BY DEF Fresh
      <4>1. m \in HeldBy(u) /\ m \in Models
        <5>1. HeldBy(w) = HeldBy(u)
          BY <3>1, OvertakenSession
        <5>2. HeldBy(u) \subseteq Models
          BY <3>1 DEF HeldBy, Sweeps, RequestOK, SessionOK, PlacesOK, OpsAt, Reconciling
        <5> QED BY <5>1, <5>2
      <4>2. m \notin S
        BY <1>3, <2>2, <3>1, <4>1
      <4>3. "row" \notin u.late
        BY <3>1 DEF Overtaken
      <4>4. /\ \A c \in Columns : <<m, c>> \notin u.dirty => u.seen[m][c] = row[m][c]
            /\ u.op \notin {"approve", "reject"} =>
                 u.seen[m].metrics.approval = row[m].metrics.approval
        BY <3>1, <4>1, <4>3 DEF RequestOK, Fresh
      <4>5. row'[m] = row[m]
        BY <4>1, <4>2
      <4> QED BY <3>1, <4>4, <4>5 DEF Overtaken
    <3>5. Reconciles(request[q])' /\ Activating(request[q])'
      BY <2>2
    <3> QED BY <3>1, <3>2, <3>3, <3>4, <3>5 DEF RequestOK, LocksOK, Fresh
  <2> QED BY <2>1, <2>2
<1> QED BY <1>4, <1>5 DEF RegistryInv

LEMMA BreaksKeepsInv ==
    ASSUME RegistryInv, NEW r \in Requests, Breaks(r)
    PROVE  RegistryInv'
<1>1. /\ TypeOK /\ RowsOK /\ AgreeOK /\ RollbackOK
      /\ request[r] \in Request /\ RequestOK(r, request[r])
  BY RequestFacts DEF RegistryInv
<1>2. /\ row' = row /\ active' = active /\ previous' = previous /\ decision' = decision
      /\ overwritten' = overwritten /\ replaced' = replaced /\ made' = made
      /\ request' = Overtake(r, {}) /\ lock' = Unlocked(r)
      /\ drift' = (drift \/ Pending(r))
      /\ trusted' = (trusted /\ ~Pending(r) /\ request[r].pc # "save_active")
  BY DEF Breaks, cache
<1>3. request'[r] = Idle /\ ~Saves(Idle) /\ ~Hangs(Idle)
  BY <1>2, IdleIsIdle DEF Overtake, Saves, Hangs
<1>4. Pending(r) <=> Hangs(request[r])
  BY DEF Pending, Hangs, Sets
<1>5. ASSUME NEW q \in Requests, q # r
      PROVE  /\ request[q] \in Request /\ request'[q] \in Request /\ RequestOK(q, request[q])
             /\ Overtaken(request[q], request'[q])
             /\ Pending(r) /\ request[q].pc \in {"claim", "save_previous", "save_active"} =>
                  "active" \in request'[q].late
             /\ ~Pending(r) /\ "active" \in request'[q].late => "active" \in request[q].late
             /\ Saves(request'[q]) <=> Saves(request[q])
             /\ Hangs(request'[q]) <=> Hangs(request[q])
  <2>1. {} \in SUBSET Models
    OBVIOUS
  <2> QED BY <1>2, <1>5, <2>1, OvertakeOvertakes, OvertakenSession, RequestFacts
<1>6. ActiveRows' = ActiveRows
  BY <1>2 DEF ActiveRows
<1>7. drift \in BOOLEAN /\ trusted \in BOOLEAN
  BY <1>1 DEF TypeOK
<1>8. CASE Pending(r)
  <2>1. drift' = TRUE /\ trusted' = FALSE
    BY <1>2, <1>7, <1>8
  <2>2. RowsOK' /\ AgreeOK' /\ RollbackOK'
    BY <1>1, <1>2, <1>6, <2>1 DEF RowsOK, RetiredIsSilent, AgreeOK, RollbackOK
  <2>3. ASSUME NEW q \in Requests, q # r
        PROVE  Reconciles(request[q])' /\ Activating(request[q])'
    <3>1. PICK u \in Request, w \in Request :
             /\ u = request[q] /\ w = request'[q] /\ RequestOK(q, u) /\ Overtaken(u, w)
             /\ u.pc \in {"claim", "save_previous", "save_active"} => "active" \in w.late
      BY <1>5, <1>8, <2>3
    <3>2. /\ ~Saves(w) /\ ~Hangs(w) /\ (u.op = "reconcile" => u.pc # "commit")
          /\ Reconciling(w) <=> Reconciling(u)
          /\ Replacing(w) <=> Replacing(u)
      BY <1>4, <1>8, <2>3, <3>1, SetsAlone, OvertakenSession DEF Hangs
    <3>3. Reconciles(w)'
      <4> SUFFICES ASSUME Reconciling(w) PROVE Reconciles(w)'
        BY DEF Reconciles
      <4>1. Reconciling(u) /\ u.pc = "claim" /\ "active" \in w.late
        BY <3>1, <3>2 DEF Reconciling
      <4>2. active = None => \A m \in Models : <<m, "active">> \notin w.dirty
        BY <3>1, <4>1 DEF RequestOK, Reconciles, Overtaken
      <4> QED BY <1>2, <2>1, <4>1, <4>2 DEF Reconciles
    <3>4. Activating(w)'
      BY <3>1, <3>2 DEF Activating, Replacing
    <3> QED BY <3>1, <3>3, <3>4 DEF Reconciles, Activating
  <2> QED BY <1>1, <1>2, <2>1, <2>2, <2>3, EndKeepsInv DEF TypeOK, cache
<1>9. CASE ~Pending(r)
  <2>1. drift' = drift /\ trusted' = (trusted /\ request[r].pc # "save_active")
    BY <1>2, <1>7, <1>9
  <2>2. NobodyHangs' <=> NobodyHangs
    BY <1>3, <1>4, <1>5, <1>9 DEF NobodyHangs
  <2>3. RowsOK' /\ AgreeOK'
    BY <1>1, <1>2, <1>6, <2>1, <2>2 DEF RowsOK, RetiredIsSilent, AgreeOK
  <2>4. RollbackOK'
    <3> SUFFICES ASSUME trusted, request[r].pc # "save_active",
                        \A q \in Requests : Saves(request'[q]) =>
                            request'[q].replaces \in {None, request'[q].on}
                 PROVE  replaced \subseteq {previous}
      BY <1>2, <2>1 DEF RollbackOK
    <3>1. ~Saves(request[r])
      BY <1>4, <1>9 DEF Saves
    <3>2. ASSUME NEW q \in Requests, Saves(request[q])
          PROVE  request[q].replaces \in {None, request[q].on}
      BY <1>5, <3>1, <3>2 DEF Overtaken
    <3> QED BY <1>1, <3>2 DEF RollbackOK
  <2>5. ASSUME NEW q \in Requests, q # r
        PROVE  Reconciles(request[q])' /\ Activating(request[q])'
    <3>1. PICK u \in Request, w \in Request :
             /\ u = request[q] /\ w = request'[q] /\ RequestOK(q, u) /\ Overtaken(u, w)
             /\ "active" \in w.late => "active" \in u.late
      BY <1>5, <1>9, <2>5
    <3>2. /\ Saves(w) <=> Saves(u)
          /\ Hangs(w) <=> Hangs(u)
          /\ Reconciling(w) <=> Reconciling(u)
          /\ Replacing(w) <=> Replacing(u)
      BY <3>1, OvertakenSession
    <3>3. Reconciles(w)'
      BY <1>2, <2>1, <2>2, <3>1, <3>2 DEF RequestOK, Reconciles, Overtaken
    <3>4. Activating(w)'
      BY <1>2, <1>6, <2>1, <2>2, <3>1, <3>2 DEF RequestOK, Activating, Overtaken
    <3> QED BY <3>1, <3>3, <3>4 DEF Reconciles, Activating
  <2> QED BY <1>1, <1>2, <1>7, <2>1, <2>3, <2>4, <2>5, EndKeepsInv DEF TypeOK, cache
<1> QED BY <1>8, <1>9

\* The columns in D of one row and the others of another make a row.
LEMMA MergedRow ==
    ASSUME NEW a \in Row, NEW b \in Row, NEW D, NEW w,
           w = [c \in Columns |-> IF c \in D THEN a[c] ELSE b[c]]
    PROVE  /\ w \in Row
           /\ w.active = IF "active" \in D THEN a.active ELSE b.active
           /\ w.status = IF "status" \in D THEN a.status ELSE b.status
           /\ w.metrics = IF "metrics" \in D THEN a.metrics ELSE b.metrics
           /\ (\A c \in Columns : c \notin D) => w = b
<1>1. /\ a["active"] = a.active /\ b["active"] = b.active
      /\ a["status"] = a.status /\ b["status"] = b.status
      /\ a["metrics"] = a.metrics /\ b["metrics"] = b.metrics
  BY DEF Row
<1>2. w \in Row
  BY DEF Row, Columns
<1>3. w["active"] = w.active /\ w["status"] = w.status /\ w["metrics"] = w.metrics
  BY <1>2 DEF Row
<1>4. /\ w["active"] = IF "active" \in D THEN a["active"] ELSE b["active"]
      /\ w["status"] = IF "status" \in D THEN a["status"] ELSE b["status"]
      /\ w["metrics"] = IF "metrics" \in D THEN a["metrics"] ELSE b["metrics"]
  BY DEF Columns
<1>5. ASSUME \A c \in Columns : c \notin D PROVE w = b
  <2>1. \A c \in Columns : w[c] = b[c]
    BY <1>5
  <2> QED BY <1>2, <2>1, RowsDiffer
<1> QED BY <1>1, <1>2, <1>3, <1>4, <1>5

\* What a commit makes of a row.
LEMMA CommittedRow ==
    ASSUME RegistryInv, NEW r \in Requests, Commit(r), NEW m \in Models, NEW u \in Request,
           u = request[r]
    PROVE  /\ row'[m] \in Row
           /\ row'[m].active = IF <<m, "active">> \in u.dirty THEN u.seen[m].active
                               ELSE row[m].active
           /\ row'[m].status = IF <<m, "status">> \in u.dirty THEN u.seen[m].status
                               ELSE row[m].status
           /\ row'[m].metrics = IF <<m, "metrics">> \in u.dirty THEN u.seen[m].metrics
                                ELSE row[m].metrics
           /\ m \notin Touched(r) => row'[m] = row[m]
           /\ \A c \in Columns : <<m, c>> \in u.dirty => m \in Touched(r)
<1>1. row[m] \in Row
  BY RequestFacts
<1>2. u.seen[m] \in Row
  BY <1>1 DEF Request
<1>3. row'[m] = [c \in Columns |-> IF <<m, c>> \in u.dirty THEN u.seen[m][c] ELSE row[m][c]]
  BY DEF Commit
<1>4. PICK D : D = {c \in Columns : <<m, c>> \in u.dirty}
  OBVIOUS
<1>5. row'[m] = [c \in Columns |-> IF c \in D THEN u.seen[m][c] ELSE row[m][c]]
  BY <1>3, <1>4
<1>6. /\ "active" \in D <=> <<m, "active">> \in u.dirty
      /\ "status" \in D <=> <<m, "status">> \in u.dirty
      /\ "metrics" \in D <=> <<m, "metrics">> \in u.dirty
  BY <1>4 DEF Columns
<1>7. /\ m \notin Touched(r) => \A c \in Columns : c \notin D
      /\ \A c \in Columns : <<m, c>> \in u.dirty => m \in Touched(r)
  BY <1>4 DEF Touched
<1>8. PICK w : w = row'[m]
  OBVIOUS
<1>9. /\ w \in Row
      /\ w.active = IF "active" \in D THEN u.seen[m].active ELSE row[m].active
      /\ w.status = IF "status" \in D THEN u.seen[m].status ELSE row[m].status
      /\ w.metrics = IF "metrics" \in D THEN u.seen[m].metrics ELSE row[m].metrics
      /\ (\A c \in Columns : c \notin D) => w = row[m]
  <2>1. PICK a \in Row, b \in Row : a = u.seen[m] /\ b = row[m]
    BY <1>1, <1>2
  <2>2. w = [c \in Columns |-> IF c \in D THEN a[c] ELSE b[c]]
    BY <1>5, <1>8, <2>1
  <2>3. /\ w \in Row
        /\ w.active = IF "active" \in D THEN a.active ELSE b.active
        /\ w.status = IF "status" \in D THEN a.status ELSE b.status
        /\ w.metrics = IF "metrics" \in D THEN a.metrics ELSE b.metrics
        /\ (\A c \in Columns : c \notin D) => w = b
    BY <2>2, MergedRow
  <2> QED BY <2>1, <2>3
<1> QED BY <1>6, <1>7, <1>8, <1>9

\* What every commit does, whatever it writes.
LEMMA CommitFacts ==
    ASSUME RegistryInv, NEW r \in Requests, Commit(r)
    PROVE  /\ request' = Overtake(r, Touched(r)) /\ lock' = Unlocked(r) /\ cache' = cache
           /\ made' = made /\ row' \in [Models -> Row] /\ decision' \in [Models -> Approval]
           /\ \A m \in Models \ Touched(r) : row'[m] = row[m]
           /\ overwritten' \subseteq Models /\ overwritten \subseteq overwritten'
           /\ drift' \in BOOLEAN /\ replaced' \subseteq Models /\ trusted' \in BOOLEAN
           /\ request'[r] = Idle /\ ~Saves(Idle) /\ ~Hangs(Idle)
           /\ Touched(r) \in SUBSET Models
           /\ Pending(r) <=> Hangs(request[r])
<1>1. TypeOK /\ request[r] \in Request
  BY RequestFacts
<1>2. Touched(r) \in SUBSET Models
  BY DEF Touched
<1>3. /\ request' = Overtake(r, Touched(r)) /\ lock' = Unlocked(r) /\ cache' = cache
      /\ made' = made
  BY DEF Commit
<1>4. request'[r] = Idle /\ ~Saves(Idle) /\ ~Hangs(Idle)
  BY <1>3, IdleIsIdle DEF Overtake, Saves, Hangs
<1>5. \A m \in Models : row'[m] \in Row /\ (m \notin Touched(r) => row'[m] = row[m])
  BY CommittedRow, RequestFacts
<1>6. row' \in [Models -> Row]
  <2>1. row' = [m \in Models |-> row'[m]]
    BY DEF Commit
  <2> QED BY <1>5, <2>1
<1>7. decision' \in [Models -> Approval]
  <2>1. Verdict(r) \in Approval
    BY DEF Verdict, Approval
  <2> QED BY <1>1, <2>1 DEF Commit, TypeOK
<1>8. overwritten' \subseteq Models /\ overwritten \subseteq overwritten'
  BY <1>1, <1>2 DEF Commit, TypeOK
<1>9. ActiveRows \subseteq Models
  BY DEF ActiveRows
<1>10. replaced' \subseteq Models
  BY <1>1, <1>9 DEF Commit, TypeOK
<1>11. drift' \in BOOLEAN
  BY <1>1 DEF Commit, TypeOK
<1>12. trusted' \in BOOLEAN
  <2>1. trusted' = IF Pending(r) /\ ~row[request[r].on].active
                   THEN "active" \notin request[r].late /\ ~drift
                   ELSE trusted /\ (Pending(r) =>
                                      request[r].replaces \in {None, request[r].on})
    BY DEF Commit
  <2> QED BY <1>1, <2>1 DEF TypeOK
<1>13. Pending(r) <=> Hangs(request[r])
  BY DEF Pending, Hangs, Sets
<1> QED BY <1>2, <1>3, <1>4, <1>5, <1>6, <1>7, <1>8, <1>10, <1>11, <1>12, <1>13

LEMMA CommitOvertakes ==
    ASSUME RegistryInv, NEW r \in Requests, Commit(r), NEW q \in Requests, q # r
    PROVE  \E u \in Request, w \in Request :
             /\ u = request[q] /\ w = request'[q] /\ RequestOK(q, u) /\ Overtaken(u, w)
             /\ HeldBy(u) \intersect Touched(r) # {} => "row" \in w.late
             /\ Pending(r) /\ u.pc \in {"claim", "save_previous", "save_active"} =>
                  "active" \in w.late
             /\ ~Pending(r) /\ "active" \in w.late => "active" \in u.late
             /\ Saves(w) <=> Saves(u)
             /\ Hangs(w) <=> Hangs(u)
             /\ Reconciling(w) <=> Reconciling(u)
             /\ Replacing(w) <=> Replacing(u)
BY CommitFacts, OvertakeOvertakes, OvertakenSession, RequestFacts

\* What the session of a request that commits says of its operation.
LEMMA CommitterFacts ==
    ASSUME RegistryInv, NEW r \in Requests, request[r].pc = "commit"
    PROVE  /\ request[r] \in Request /\ RequestOK(r, request[r])
           /\ request[r].op \notin {"retry", "reconcile"} =>
                /\ request[r].on \in Models /\ ~Sweeps(request[r])
                /\ HeldBy(request[r]) = {request[r].on}
           /\ request[r].op \in {"retry", "reconcile"} => HeldBy(request[r]) = Models
<1>1. request[r] \in Request /\ RequestOK(r, request[r])
  BY RequestFacts
<1>2. request[r].op \notin {"retry", "reconcile"} =>
         /\ request[r].on \in Models /\ ~Sweeps(request[r])
         /\ HeldBy(request[r]) = {request[r].on}
  BY <1>1 DEF RequestOK, SessionOK, PlacesOK, Reconciling, Sweeps, HeldBy
<1>3. request[r].op \in {"retry", "reconcile"} => HeldBy(request[r]) = Models
  BY DEF HeldBy, Sweeps
<1> QED BY <1>1, <1>2, <1>3

\* A row that nobody overwrote says what was decided last of the model.
LEMMA CommitKeepsDecisions ==
    ASSUME RegistryInv, NEW r \in Requests, Commit(r), NEW m \in Models, m \notin overwritten'
    PROVE  row'[m].metrics.approval = decision'[m]
<1>1. PICK u \in Request : u = request[r] /\ RequestOK(r, u)
  BY RequestFacts
<1>2. u.pc = "commit" /\ u.dirty \in SUBSET (Models \X Columns)
  BY <1>1 DEF Commit, Request
<1>3. /\ decision' = IF u.op \in {"approve", "reject"} THEN [decision EXCEPT ![u.on] = Verdict(r)]
                     ELSE decision
      /\ overwritten' = IF "row" \in u.late THEN overwritten \union Touched(r) ELSE overwritten
  BY <1>1 DEF Commit
<1>4. m \notin overwritten /\ row[m].metrics.approval = decision[m]
  BY <1>3 DEF RegistryInv, RowsOK
<1>5. decision \in [Models -> Approval] /\ "metrics" \in Columns
  BY DEF RegistryInv, TypeOK, Columns
<1>6. /\ row'[m].metrics = IF <<m, "metrics">> \in u.dirty THEN u.seen[m].metrics
                           ELSE row[m].metrics
      /\ m \notin Touched(r) => row'[m] = row[m]
      /\ <<m, "metrics">> \in u.dirty => m \in Touched(r)
  BY <1>1, <1>5, CommittedRow
<1>7. u.op \in {"approve", "reject"} =>
         /\ u.on \in Models /\ HeldBy(u) = {u.on}
         /\ <<u.on, "metrics">> \in u.dirty /\ u.seen[u.on].metrics.approval = Verdict(r)
  BY <1>1, <1>2, CommitterFacts DEF RequestOK, SessionOK, VerdictsOK, Verdict
<1>8. <<m, "metrics">> \in u.dirty => m \in HeldBy(u) /\ "row" \notin u.late
  <2>1. <<m, "metrics">> \in u.dirty => m \in HeldBy(u)
    BY <1>1, <1>5 DEF RequestOK, SessionOK, DirtyOK
  <2>2. <<m, "metrics">> \in u.dirty => "row" \notin u.late
    BY <1>3, <1>6
  <2> QED BY <2>1, <2>2
<1>9. CASE <<m, "metrics">> \in u.dirty
  <2>1. CASE u.op \in {"approve", "reject"}
    <3>1. m = u.on
      BY <1>7, <1>8, <1>9, <2>1
    <3>2. decision'[m] = Verdict(r)
      BY <1>3, <1>5, <2>1, <3>1
    <3> QED BY <1>6, <1>7, <1>9, <2>1, <3>1, <3>2
  <2>2. CASE u.op \notin {"approve", "reject"}
    <3>1. u.seen[m].metrics.approval = row[m].metrics.approval
      BY <1>1, <1>8, <1>9, <2>2 DEF RequestOK, Fresh
    <3> QED BY <1>3, <1>4, <1>6, <1>9, <2>2, <3>1
  <2> QED BY <2>1, <2>2
<1>10. CASE <<m, "metrics">> \notin u.dirty
  <2>1. decision'[m] = decision[m]
    BY <1>3, <1>5, <1>7, <1>10
  <2> QED BY <1>4, <1>6, <1>10, <2>1
<1> QED BY <1>9, <1>10

LEMMA CommitKeepsSilence ==
    ASSUME RegistryInv, NEW r \in Requests, Commit(r), NEW m \in Models, row'[m].active,
           row'[m].status = "retired"
    PROVE  m \in overwritten'
<1>1. PICK u \in Request : u = request[r] /\ RequestOK(r, u)
  BY RequestFacts
<1>2. u.pc = "commit" /\ overwritten \subseteq overwritten'
  BY <1>1, CommitFacts DEF Commit
<1>3. "row" \in u.late => Touched(r) \subseteq overwritten'
  BY <1>1 DEF Commit
<1>4. row[m].active /\ row[m].status = "retired" => m \in overwritten
  BY DEF RegistryInv, RowsOK, RetiredIsSilent, ActiveRows
<1>5. /\ row'[m].active = IF <<m, "active">> \in u.dirty THEN u.seen[m].active ELSE row[m].active
      /\ row'[m].status = IF <<m, "status">> \in u.dirty THEN u.seen[m].status ELSE row[m].status
      /\ m \notin Touched(r) => row'[m] = row[m]
  BY <1>1, CommittedRow
<1>6. CASE "row" \in u.late
  BY <1>2, <1>3, <1>4, <1>5, <1>6
<1>7. CASE "row" \notin u.late
  <2>1. ASSUME m \in HeldBy(u)
        PROVE  /\ <<m, "active">> \notin u.dirty => u.seen[m].active = row[m].active
               /\ <<m, "status">> \notin u.dirty => u.seen[m].status = row[m].status
    <3>1. \A c \in Columns : <<m, c>> \notin u.dirty => u.seen[m][c] = row[m][c]
      BY <1>1, <1>7, <2>1 DEF RequestOK, Fresh
    <3>2. u.seen[m] \in Row /\ row[m] \in Row
      BY RequestFacts DEF Request
    <3>3. /\ u.seen[m]["active"] = u.seen[m].active /\ row[m]["active"] = row[m].active
          /\ u.seen[m]["status"] = u.seen[m].status /\ row[m]["status"] = row[m].status
      BY <3>2 DEF Row
    <3> QED BY <3>1, <3>3 DEF Columns
  <2>2. CASE u.op = "reconcile"
    <3>1. m \in HeldBy(u)
      BY <1>1, <1>2, <2>2, CommitterFacts
    <3>2. row'[m].active = u.seen[m].active /\ row'[m].status = u.seen[m].status
      BY <1>5, <2>1, <3>1
    <3>3. u.seen[m].active => u.seen[m].status = "active"
      BY <1>1, <1>2, <2>2 DEF RequestOK, SessionOK, ReconcilesOK, Reconciling
    <3> QED BY <3>2, <3>3
  <2>3. CASE u.op # "reconcile" /\ Sets(u)
    <3>1. /\ <<m, "active">> \in u.dirty /\ u.op \in Activates
          /\ u.seen[u.on].status = "active"
      BY <1>1, <2>3 DEF RequestOK, SessionOK, SetsOK
    <3>2. HeldBy(u) = {u.on} /\ ~Sweeps(u)
      BY <1>1, <1>2, <3>1, CommitterFacts DEF Activates
    <3>3. m = u.on
      BY <1>1, <1>5, <3>1, <3>2 DEF RequestOK, SessionOK, PlacesOK
    <3>4. row'[m].status = u.seen[m].status
      BY <1>5, <2>1, <3>2, <3>3
    <3> QED BY <3>1, <3>3, <3>4
  <2>4. CASE u.op # "reconcile" /\ ~Sets(u)
    <3>1. /\ <<m, "active">> \notin u.dirty
          /\ <<m, "status">> \in u.dirty => u.seen[m].status # "retired"
      BY <1>1, <2>4 DEF RequestOK, SessionOK, DirtyOK
    <3> QED BY <1>2, <1>4, <1>5, <3>1
  <2> QED BY <2>2, <2>3, <2>4
<1> QED BY <1>6, <1>7

\* What is left to be shown of a commit.
LEMMA CommitEnds ==
    ASSUME RegistryInv, NEW r \in Requests, Commit(r),
           active = None => ActiveRows' = {}, AgreeOK', RollbackOK',
           \A q \in Requests : q # r =>
              Reconciles(request[q])' /\ Activating(request[q])'
    PROVE  RegistryInv'
<1>1. \A m \in Models : m \notin overwritten' => row'[m].metrics.approval = decision'[m]
  BY CommitKeepsDecisions
<1>2. RetiredIsSilent'
  BY CommitKeepsSilence DEF RetiredIsSilent, ActiveRows
<1>3. RowsOK'
  BY <1>1, <1>2, CommitFacts DEF RowsOK, cache
<1> QED BY <1>3, CommitFacts, EndKeepsInv

\* The activation is committed.
LEMMA CommitActivationKeepsInv ==
    ASSUME RegistryInv, NEW r \in Requests, Commit(r), Pending(r)
    PROVE  RegistryInv'
<1>1. PICK u \in Request : u = request[r] /\ RequestOK(r, u)
  BY RequestFacts
<1>2. Hangs(u) /\ Sets(u) /\ Saves(u) /\ u.pc = "commit"
  BY <1>1, CommitFacts DEF Hangs, Saves
<1>3. /\ u.on \in Models /\ active = u.on /\ u.op \in Activates
      /\ \A m \in Models : <<m, "active">> \in u.dirty
      /\ u.seen[u.on].active /\ \A m \in Models : m # u.on => ~u.seen[m].active
  BY <1>1, <1>2, CommitterFacts DEF RequestOK, SessionOK, SetsOK, PlacesOK, Activating, Activates
<1>4. Touched(r) = Models
  BY <1>1, <1>3 DEF Touched, Columns
<1>5. \A m \in Models : row'[m].active = u.seen[m].active
  BY <1>1, <1>3, CommittedRow
<1>6. ActiveRows' = {u.on}
  BY <1>3, <1>5 DEF ActiveRows
<1>7. /\ active' = active /\ previous' = previous /\ drift' = FALSE
      /\ LET new == ~row[u.on].active IN
           /\ replaced' = IF new THEN ActiveRows ELSE replaced
           /\ trusted' = IF new THEN "active" \notin u.late /\ ~drift
                         ELSE trusted /\ u.replaces \in {None, u.on}
  BY <1>1, <1>3 DEF Commit, cache
<1>8. AgreeOK'
  BY <1>3, <1>6, <1>7, NoneAssumption DEF AgreeOK
<1>9. RollbackOK'
  <2> SUFFICES ASSUME trusted' PROVE replaced' \subseteq {previous}
    BY <1>7 DEF RollbackOK
  <2>1. u.replaces \notin {None, u.on} => previous = u.replaces
    BY <1>1, <1>2 DEF RequestOK, Activating
  <2>2. CASE row[u.on].active
    <3>1. trusted /\ u.replaces \in {None, u.on} /\ replaced' = replaced
      BY <1>7, <2>2
    <3>2. \A q \in Requests : Saves(request[q]) => q = r
      BY <1>1, <1>2, SetsAlone
    <3> QED BY <1>1, <3>1, <3>2 DEF RegistryInv, RollbackOK
  <2>3. CASE ~row[u.on].active
    <3>1. "active" \notin u.late /\ ~drift /\ replaced' = ActiveRows
      BY <1>7, <2>3
    <3>2. ActiveRows = {u.replaces} \ {None}
      BY <1>1, <1>2, <3>1 DEF RequestOK, Activating
    <3>3. u.on \notin ActiveRows
      BY <2>3 DEF ActiveRows
    <3> QED BY <1>3, <2>1, <3>1, <3>2, <3>3
  <2> QED BY <2>2, <2>3
<1>10. ASSUME NEW q \in Requests, q # r
       PROVE  Reconciles(request[q])' /\ Activating(request[q])'
  <2>1. PICK v \in Request, w \in Request :
             /\ v = request[q] /\ w = request'[q] /\ Overtaken(v, w)
             /\ HeldBy(v) \intersect Touched(r) # {} => "row" \in w.late
             /\ v.pc \in {"claim", "save_previous", "save_active"} => "active" \in w.late
             /\ Saves(w) <=> Saves(v)
             /\ Hangs(w) <=> Hangs(v)
             /\ Reconciling(w) <=> Reconciling(v)
             /\ Replacing(w) <=> Replacing(v)
    BY <1>10, CommitOvertakes
  <2>2. ~Saves(w) /\ ~Hangs(w)
    BY <1>1, <1>2, <1>10, <2>1, SetsAlone
  <2>3. Reconciling(w) => "row" \in w.late
    BY <1>3, <1>4, <2>1 DEF Reconciling, HeldBy, Sweeps, Overtaken
  <2>4. active' # None
    BY <1>3, <1>7, NoneAssumption
  <2>5. Reconciles(w)'
    BY <2>3, <2>4 DEF Reconciles
  <2>6. Activating(w)'
    BY <2>1, <2>2 DEF Activating, Replacing
  <2> QED BY <2>1, <2>5, <2>6 DEF Reconciles, Activating
<1>11. active # None
  BY <1>3, NoneAssumption
<1> QED BY <1>8, <1>9, <1>10, <1>11, CommitEnds

\* The reconciliation is committed: in time, and Redis and the rows agree, or late,
\* and they drift.
LEMMA CommitReconciliationKeepsInv ==
    ASSUME RegistryInv, NEW r \in Requests, Commit(r), request[r].op = "reconcile"
    PROVE  RegistryInv'
<1>1. PICK u \in Request : u = request[r] /\ RequestOK(r, u)
  BY RequestFacts
<1>2. /\ u.pc = "commit" /\ u.op = "reconcile" /\ HeldBy(u) = Models /\ Reconciling(u)
      /\ u.dirty # {} /\ u.dirty \in SUBSET (Models \X Columns) /\ ~Hangs(u) /\ ~Saves(u)
  BY <1>1 DEF Commit, HeldBy, Sweeps, Reconciling, RequestOK, SessionOK, ReconcilesOK, Request,
     Hangs, Sets, Saves
<1>3. Touched(r) # {} /\ Touched(r) \subseteq Models
  BY <1>1, <1>2 DEF Touched
<1>4. \A q \in Requests : ~Saves(request[q]) /\ ~Hangs(request[q]) /\ ~Sets(request[q])
  <2>1. \A q \in Requests : ~Sets(request[q])
    BY <1>1, <1>2, SetsAlone DEF Sets
  <2> QED BY <2>1, SavesSets DEF Saves
<1>5. ~Pending(r)
  BY <1>1, <1>2, CommitFacts
<1>6. /\ active' = active /\ previous' = previous /\ replaced' = replaced
      /\ trusted' = trusted /\ drift' = (u.late # {})
  BY <1>1, <1>2, <1>5, RequestFacts DEF Commit, cache, TypeOK
<1>7. NobodyHangs /\ NobodyHangs' /\ \A q \in Requests : ~Saves(request'[q])
  BY <1>4, CommitFacts, CommitOvertakes DEF NobodyHangs, Saves
<1>8. active = None => ActiveRows' = {}
  <2> SUFFICES ASSUME active = None, NEW m \in Models PROVE ~row'[m].active
    BY DEF ActiveRows
  <2>1. <<m, "active">> \notin u.dirty
    BY <1>1, <1>2 DEF RequestOK, Reconciles
  <2>2. ~row[m].active
    BY DEF RegistryInv, RowsOK, ActiveRows
  <2> QED BY <1>1, <2>1, <2>2, CommittedRow
<1>9. AgreeOK'
  <2> SUFFICES ASSUME u.late = {} PROVE ActiveRows' = {active} \ {None}
    BY <1>6 DEF AgreeOK
  <2>1. \A m \in Models : u.seen[m].active <=> m = active
    BY <1>1, <1>2, <1>7 DEF RequestOK, Reconciles
  <2>2. ASSUME NEW m \in Models PROVE row'[m].active = u.seen[m].active
    <3>1. <<m, "active">> \notin u.dirty => u.seen[m]["active"] = row[m]["active"]
      BY <1>1, <1>2 DEF RequestOK, Fresh, Columns
    <3>2. u.seen[m] \in Row /\ row[m] \in Row
      BY RequestFacts DEF Request
    <3>3. u.seen[m]["active"] = u.seen[m].active /\ row[m]["active"] = row[m].active
      BY <3>2 DEF Row
    <3> QED BY <1>1, <3>1, <3>3, CommittedRow
  <2>3. ActiveRows' = {m \in Models : m = active}
    BY <2>1, <2>2 DEF ActiveRows
  <2>4. active \in Models \union {None}
    BY RequestFacts DEF TypeOK
  <2> QED BY <2>3, <2>4, NoneAssumption
<1>10. RollbackOK'
  BY <1>4, <1>6 DEF RegistryInv, RollbackOK
<1>11. ASSUME NEW q \in Requests, q # r
       PROVE  Reconciles(request[q])' /\ Activating(request[q])'
  <2>1. PICK v \in Request, w \in Request :
             /\ v = request[q] /\ w = request'[q] /\ RequestOK(q, v) /\ Overtaken(v, w)
             /\ HeldBy(v) \intersect Touched(r) # {} => "row" \in w.late
             /\ Saves(w) <=> Saves(v)
             /\ Hangs(w) <=> Hangs(v)
             /\ Reconciling(w) <=> Reconciling(v)
             /\ Replacing(w) <=> Replacing(v)
    BY <1>11, CommitOvertakes
  <2>2. ~Saves(w) /\ ~Hangs(w)
    BY <1>4, <2>1
  <2>3. Reconciling(w) => "row" \in w.late
    BY <1>3, <2>1 DEF Reconciling, HeldBy, Sweeps, Overtaken
  <2>4. Reconciles(w)'
    BY <1>6, <2>1, <2>3 DEF RequestOK, Reconciles, Overtaken
  <2>5. Activating(w)'
    BY <1>6, <1>7, <2>1, <2>2 DEF RequestOK, Activating, Overtaken
  <2> QED BY <2>1, <2>4, <2>5 DEF Reconciles, Activating
<1> QED BY <1>8, <1>9, <1>10, <1>11, CommitEnds

\* Any other commit leaves the active rows alone.
LEMMA CommitOtherKeepsInv ==
    ASSUME RegistryInv, NEW r \in Requests, Commit(r), ~Pending(r), request[r].op # "reconcile"
    PROVE  RegistryInv'
<1>1. PICK u \in Request : u = request[r] /\ RequestOK(r, u)
  BY RequestFacts
<1>2. u.pc = "commit" /\ u.op # "reconcile" /\ ~Hangs(u) /\ ~Saves(u) /\ ~Sets(u)
  BY <1>1, CommitFacts DEF Commit, Hangs, Saves
<1>3. /\ active' = active /\ previous' = previous /\ replaced' = replaced
      /\ trusted' = trusted /\ drift' = drift
  BY <1>1, <1>2, RequestFacts DEF Commit, cache, TypeOK
<1>4. ActiveRows' = ActiveRows
  <2>1. \A m \in Models : <<m, "active">> \notin u.dirty
    BY <1>1, <1>2 DEF RequestOK, SessionOK, DirtyOK
  <2>2. \A m \in Models : row'[m].active = row[m].active
    BY <1>1, <2>1, CommittedRow
  <2> QED BY <2>2 DEF ActiveRows
<1>5. ASSUME NEW q \in Requests, q # r
      PROVE  \E v \in Request, w \in Request :
             /\ v = request[q] /\ w = request'[q] /\ RequestOK(q, v) /\ Overtaken(v, w)
             /\ "active" \in w.late => "active" \in v.late
             /\ Saves(w) <=> Saves(v)
             /\ Hangs(w) <=> Hangs(v)
             /\ Reconciling(w) <=> Reconciling(v)
             /\ Replacing(w) <=> Replacing(v)
  BY <1>5, CommitOvertakes
<1>6. NobodyHangs' <=> NobodyHangs
  BY <1>1, <1>2, <1>5, CommitFacts DEF NobodyHangs
<1>7. active = None => ActiveRows' = {}
  BY <1>4 DEF RegistryInv, RowsOK
<1>8. AgreeOK'
  BY <1>3, <1>4, <1>6 DEF RegistryInv, AgreeOK
<1>9. RollbackOK'
  <2> SUFFICES ASSUME trusted,
                      \A q \in Requests : Saves(request'[q]) =>
                          request'[q].replaces \in {None, request'[q].on}
               PROVE  replaced \subseteq {previous}
    BY <1>3 DEF RollbackOK
  <2>1. ASSUME NEW q \in Requests, Saves(request[q])
        PROVE  request[q].replaces \in {None, request[q].on}
    BY <1>1, <1>2, <1>5, <2>1 DEF Overtaken
  <2> QED BY <2>1 DEF RegistryInv, RollbackOK
<1>10. ASSUME NEW q \in Requests, q # r
       PROVE  Reconciles(request[q])' /\ Activating(request[q])'
  <2>1. PICK v \in Request, w \in Request :
             /\ v = request[q] /\ w = request'[q] /\ RequestOK(q, v) /\ Overtaken(v, w)
             /\ "active" \in w.late => "active" \in v.late
             /\ Saves(w) <=> Saves(v)
             /\ Hangs(w) <=> Hangs(v)
             /\ Reconciling(w) <=> Reconciling(v)
             /\ Replacing(w) <=> Replacing(v)
    BY <1>5, <1>10
  <2>2. Reconciles(w)'
    BY <1>3, <1>6, <2>1 DEF RequestOK, Reconciles, Overtaken
  <2>3. Activating(w)'
    BY <1>3, <1>4, <1>6, <2>1 DEF RequestOK, Activating, Overtaken
  <2> QED BY <2>1, <2>2, <2>3 DEF Reconciles, Activating
<1> QED BY <1>7, <1>8, <1>9, <1>10, CommitEnds

----------------------------------------------------------------------------
\* The invariant, and what it establishes

LEMMA StepKeepsInv ==
    ASSUME RegistryInv, NEW r \in Requests, Step(r)
    PROVE  RegistryInv'
<1>1. CASE Begin(r)
  BY <1>1, BeginsKeepInv
<1>2. CASE ReadModel(r)
  BY <1>2, ReadModelKeepsInv
<1>3. CASE RecordApproval(r) \/ FailPublication(r) \/ RecordPublication(r) \/ RecordVerification(r)
  BY <1>3, FlushesKeepInv
<1>4. CASE NextRetry(r)
  BY <1>4, NextRetryKeepsInv
<1>5. CASE Activation(r)
  <2>1. CASE PassReadiness(r)
    BY <2>1, FlushesKeepInv
  <2>2. CASE RememberActive(r)
    BY <2>2, RememberActiveKeepsInv
  <2>3. CASE \E m \in Models : ClaimRow(r, m)
    BY <2>3, ClaimRowKeepsInv
  <2>4. CASE SetActive(r)
    BY <2>4, SetActiveKeepsInv
  <2>5. CASE SavePrevious(r)
    BY <2>5, SavePreviousKeepsInv
  <2>6. CASE SaveActive(r)
    BY <2>6, SaveActiveKeepsInv
  <2> QED BY <1>5, <2>1, <2>2, <2>3, <2>4, <2>5, <2>6 DEF Activation
<1>6. CASE Compare(r)
  BY <1>6, CompareKeepsInv
<1>7. CASE FlushReconciled(r)
  BY <1>7, FlushReconciledKeepsInv
<1>8. CASE Commit(r)
  BY <1>8, CommitActivationKeepsInv, CommitReconciliationKeepsInv, CommitOtherKeepsInv
<1>9. CASE Breaks(r)
  BY <1>9, BreaksKeepsInv
<1> QED BY <1>1, <1>2, <1>3, <1>4, <1>5, <1>6, <1>7, <1>8, <1>9 DEF Step

LEMMA StutterKeepsInv ==
    ASSUME RegistryInv, UNCHANGED vars
    PROVE  RegistryInv'
BY DEF vars, database, cache, history, RegistryInv, TypeOK, RowsOK, RetiredIsSilent, ActiveRows,
   AgreeOK, NobodyHangs, RollbackOK, RequestOK, LocksOK, Fresh, Reconciles, Activating

LEMMA RegistryInvariant == Spec => []RegistryInv
<1>1. RegistryInv /\ [Next]_vars => RegistryInv'
  BY StepKeepsInv, StutterKeepsInv DEF Next
<1> QED BY RegistryInit, <1>1, PTL DEF Spec

LEMMA PendingHangs ==
    \A r \in Requests : Pending(r) <=> Hangs(request[r])
BY DEF Pending, Hangs, Sets

\* The types of the registry are kept, the two stores that say which model is
\* active agree whenever no activation is between its write to Redis and its
\* commit and none was lost there, and a retired model serves nobody.
THEOREM StoresStayInStep == Spec => []TypedAndAgreed
<1>1. ASSUME RegistryInv PROVE TypedAndAgreed
  <2>1. TypeOK /\ RetiredIsSilent
    BY <1>1 DEF RegistryInv, RowsOK
  <2>2. ASSUME ~drift PROVE Cardinality(ActiveRows) <= 1
    <3>1. CASE ActiveRows = {}
      BY <3>1, FS_EmptySet
    <3>2. CASE ActiveRows # {}
      <4>1. PICK m : m \in ActiveRows
        BY <3>2
      <4>2. ActiveRows = {m}
        BY <1>1, <2>2, <4>1 DEF RegistryInv, AgreeOK
      <4>3. Cardinality({m}) = 1
        BY FS_Singleton
      <4> QED BY <4>2, <4>3
    <3> QED BY <3>1, <3>2
  <2>3. ASSUME ~drift, \A r \in Requests : ~Pending(r)
        PROVE  ActiveRows = {active} \ {None}
    BY <1>1, <2>3, PendingHangs DEF RegistryInv, AgreeOK, NobodyHangs
  <2>4. StoresAgree
    BY <2>2, <2>3 DEF StoresAgree
  <2> QED BY <2>1, <2>4 DEF TypedAndAgreed
<1> QED BY RegistryInvariant, <1>1, PTL

\* Redis remembers the model that was active before the last activation that was
\* neither late nor lost, which is what a rollback activates.
THEOREM RollbackTargetKept == Spec => []RollbackRestores
<1>1. ASSUME RegistryInv PROVE RollbackRestores
  <2> SUFFICES ASSUME trusted, \A r \in Requests : ~Pending(r) /\ request[r].pc # "save_active"
               PROVE  replaced \subseteq {previous}
    BY DEF RollbackRestores
  <2>1. \A r \in Requests : ~Saves(request[r])
    BY PendingHangs DEF Saves
  <2> QED BY <1>1, <2>1 DEF RegistryInv, RollbackOK
<1> QED BY RegistryInvariant, <1>1, PTL

\* Only a commit writes the rows.
LEMMA OnlyCommitWrites ==
    ASSUME NEW r \in Requests, Step(r), row' # row
    PROVE  Commit(r)
<1>1. Begin(r) => row' = row
  BY DEF Begin, BeginOn, BeginRollback, BeginRetry, BeginReconcile, Begins, database
<1>2. ReadModel(r) \/ NextRetry(r) => row' = row
  BY DEF ReadModel, NextRetry, database
<1>3. RecordApproval(r) \/ FailPublication(r) \/ RecordPublication(r) => row' = row
  BY DEF RecordApproval, FailPublication, RecordPublication, Flush
<1>4. RecordVerification(r) \/ PassReadiness(r) => row' = row
  BY DEF RecordVerification, PassReadiness, Flush
<1>5. Activation(r) => row' = row
  BY <1>4 DEF Activation, RememberActive, ClaimRow, SetActive, SavePrevious, SaveActive, database
<1>6. Compare(r) \/ FlushReconciled(r) => row' = row
  BY DEF Compare, FlushReconciled, database
<1>7. Breaks(r) => row' = row
  BY DEF Breaks
<1> QED BY <1>1, <1>2, <1>3, <1>4, <1>5, <1>6, <1>7 DEF Step

LEMMA CommitActivatesApproved ==
    ASSUME RegistryInv, NEW r \in Requests, Commit(r), NEW m \in Models, Activated(m)
    PROVE  decision[m] = "approved" \/ m \in overwritten' \/ drift
<1>1. PICK u \in Request : u = request[r] /\ RequestOK(r, u)
  BY RequestFacts
<1>2. u.pc = "commit" /\ overwritten \subseteq overwritten'
  BY <1>1, CommitFacts DEF Commit
<1>3. /\ ~row[m].active /\ row'[m].active
      /\ row'[m].active = IF <<m, "active">> \in u.dirty THEN u.seen[m].active ELSE row[m].active
      /\ <<m, "active">> \in u.dirty => m \in Touched(r)
  BY <1>1, CommittedRow DEF Activated, Columns
<1>4. <<m, "active">> \in u.dirty /\ u.seen[m].active /\ m \in Touched(r)
  BY <1>3
<1>5. "row" \in u.late => m \in overwritten'
  BY <1>1, <1>4 DEF Commit
<1>6. CASE "row" \notin u.late /\ u.op = "reconcile"
  <2>1. Reconciling(u)
    BY <1>2, <1>6 DEF Reconciling
  <2>2. CASE "active" \in u.late
    BY <1>1, <1>6, <2>1, <2>2 DEF RequestOK, Reconciles
  <2>3. CASE u.late = {}
    <3>1. \A q \in Requests : ~Hangs(request[q])
      BY <1>1, <1>2, <1>6, SetsAlone DEF Hangs, Sets
    <3>2. m = active
      BY <1>1, <1>4, <2>1, <2>3, <3>1 DEF RequestOK, Reconciles, NobodyHangs
    <3>3. m \notin ActiveRows /\ m # None
      BY <1>3, NoneAssumption DEF ActiveRows
    <3> QED BY <3>1, <3>2, <3>3 DEF RegistryInv, AgreeOK, NobodyHangs
  <2> QED BY <1>6, <2>2, <2>3 DEF Request
<1>7. CASE "row" \notin u.late /\ u.op # "reconcile"
  <2>1. Sets(u)
    BY <1>1, <1>4, <1>7 DEF RequestOK, SessionOK, DirtyOK
  <2>2. u.op \in Activates /\ u.seen[u.on].metrics.approval = "approved"
    BY <1>1, <2>1 DEF RequestOK, SessionOK, SetsOK, VerdictsOK, Checked
  <2>3. HeldBy(u) = {u.on} /\ m = u.on
    BY <1>1, <1>2, <1>4, <2>2, CommitterFacts DEF Activates, RequestOK, SessionOK, PlacesOK
  <2>4. row[m].metrics.approval = "approved"
    BY <1>1, <1>7, <2>2, <2>3 DEF RequestOK, Fresh, Activates
  <2>5. m \notin overwritten => decision[m] = "approved"
    BY <2>4 DEF RegistryInv, RowsOK
  <2> QED BY <1>2, <2>5
<1> QED BY <1>5, <1>6, <1>7

\* A model becomes active only if its last decision was an approval, unless a late
\* request wrote its row or an activation was lost.
THEOREM ApprovalComesFirst == Spec => ActivatedIsApproved
<1>1. ASSUME RegistryInv, [Next]_vars
      PROVE  \A m \in Models : Activated(m)
               => decision[m] = "approved" \/ m \in overwritten' \/ drift
  <2> SUFFICES ASSUME NEW m \in Models, Activated(m)
               PROVE  decision[m] = "approved" \/ m \in overwritten' \/ drift
    OBVIOUS
  <2>1. row' # row
    BY DEF Activated
  <2>2. PICK r \in Requests : Step(r)
    BY <1>1, <2>1 DEF Next, vars, database
  <2>3. Commit(r)
    BY <2>1, <2>2, OnlyCommitWrites
  <2> QED BY <1>1, <2>3, CommitActivatesApproved
<1>2. RegistryInv /\ [Next]_vars =>
        [\A m \in Models : Activated(m)
           => decision[m] = "approved" \/ m \in overwritten' \/ drift]_vars
  BY <1>1
<1> QED BY RegistryInvariant, <1>2, PTL DEF Spec, ActivatedIsApproved
=============================================================================
