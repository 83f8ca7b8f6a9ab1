------------------------- MODULE ConversationProofs -------------------------
(***************************************************************************)
(* Theorems about RuntimeTask and AgentGraph, for every value of their     *)
(* constants.                                                              *)
(*                                                                         *)
(* RuntimeTask: its inductive invariant Inv says, for each place in the    *)
(* generator, what has been sent and taken by then, and for each sweep     *)
(* that what it still holds as running and due has not been saved as       *)
(* running since it was read.                                              *)
(*                                                                         *)
(* AgentGraph: GraphInv says how far the loop of the graph has come where  *)
(* a node is due (Due), with the native saver and in the task that runs    *)
(* ahead, and what a row may say of a node that has run (Left), which is   *)
(* more than that node has done where a later one has changed its          *)
(* dictionary.                                                             *)
(***************************************************************************)
EXTENDS MCConversation, Sequences, TLAPS

----------------------------------------------------------------------------
\* RuntimeTask

\* Which events each place of the generator deals with, and what the handler
\* has got by then.
PlaceInv(t) ==
    LET e == engine[t]
    IN
    /\ e.pc \in {"idle", "registered", "graph"} => e.error = "none"
    /\ e.error = "none" => "apology" \notin logged[t]
    /\ e.pc \in {"persist", "held"} =>
          IF e.error = "none" THEN e.event \in {"status", "answer"}
          ELSE e.event \in {"notice", "error", "apology"}
    /\ e.pc \in {"closing", "ended"} =>
          \/ abandoned[t]
          \/ IF e.error = "none" THEN "answer" \in taken[t] ELSE "apology" \in taken[t]

Announced(t) == taken[t] \intersect {"status", "notice", "error"} # {}

\* When a degraded answer is at hand, or may be without a notice, something
\* has been taken before.
AnnounceInv(t) ==
    LET e == engine[t]
    IN
    /\ e.pc \in {"idle", "registered"} => ~e.sent
    /\ e.pc \in {"graph", "persist"} /\ e.sent /\ e.error = "none" => Announced(t)
    /\ e.pc \in {"persist", "held"} /\ e.event = "apology" => Announced(t)
    /\ "apology" \in taken[t] => Announced(t)

\* A task that has not started is known as such by everybody, and what a
\* sweep is going to recover has grown no younger.
SweepInv(t) ==
    /\ engine[t].pc \in {"idle", "registered"} =>
          /\ record[t] \in {"none", "pending"}
          /\ \A k \in Sweeps : sweep[k].copy[t] \in {"none", "pending"}
    /\ \A k \in Sweeps :
          Stuck(k, t) => record[t] # "running" \/ old[t]

Inv ==
    /\ TypeOK
    /\ RecordIsOutcome
    /\ \A t \in Tasks : PlaceInv(t)
    /\ \A t \in Tasks : AnnounceInv(t)
    /\ \A t \in Tasks : SweepInv(t)

----------------------------------------------------------------------------
\* Type correctness

LEMMA EngineTyped ==
    ASSUME TypeOK, NEW t \in Tasks, EngineStep(t)
    PROVE  TypeOK'
<1>1. engine[t] \in Engine
  BY DEF TypeOK
<1> USE <1>1 DEF Engine, EnginePc, Status, Event, Done
<1>2. CASE Register(t)
  <2>1. engine' \in [Tasks -> Engine]
    BY <1>2 DEF TypeOK, Register, EngineBecome
  <2>2. record' \in [Tasks -> Status] /\ old' \in [Tasks -> BOOLEAN]
    BY <1>2 DEF TypeOK, Register, Save
  <2> QED  BY <1>2, <2>1, <2>2 DEF TypeOK, Register
<1>3. CASE Start(t)
  <2>1. engine' \in [Tasks -> Engine]
    BY <1>3 DEF TypeOK, Start, EngineBecome
  <2>2. record' \in [Tasks -> Status] /\ old' \in [Tasks -> BOOLEAN]
    BY <1>3 DEF TypeOK, Start, Save
  <2> QED  BY <1>3, <2>1, <2>2 DEF TypeOK, Start
<1>4. ASSUME NEW event \in {"status", "answer"}, Produce(t, event)
      PROVE  TypeOK'
  <2>1. engine' \in [Tasks -> Engine]
    BY <1>4 DEF TypeOK, Produce, EngineBecome
  <2> QED  BY <1>4, <2>1 DEF TypeOK, Produce, store
<1>5. CASE Persist(t)
  <2>1. engine' \in [Tasks -> Engine]
    BY <1>5 DEF TypeOK, Persist, EngineBecome
  <2>2. logged' \in [Tasks -> SUBSET Event]
    BY <1>5 DEF TypeOK, Persist
  <2> QED  BY <1>5, <2>1, <2>2 DEF TypeOK, Persist, store
<1>6. CASE Take(t)
  <2>1. engine' \in [Tasks -> Engine]
    BY <1>6 DEF TypeOK, Take, EngineBecome
  <2>2. taken' \in [Tasks -> SUBSET Event]
    BY <1>6 DEF TypeOK, Take
  <2> QED  BY <1>6, <2>1, <2>2 DEF TypeOK, Take, store
<1>7. ASSUME NEW error \in Error, Fail(t, error)
      PROVE  TypeOK'
  <2>1. FirstOfClause(engine[t], error) \in Event
    BY DEF FirstOfClause
  <2>2. engine' \in [Tasks -> Engine]
    BY <1>7, <2>1 DEF TypeOK, Fail, EngineBecome
  <2>3. logged' \in [Tasks -> SUBSET Event]
    BY <1>7 DEF TypeOK, Fail
  <2> QED  BY <1>7, <2>2, <2>3 DEF TypeOK, Fail, store
<1>8. CASE Abandon(t)
  <2>1. engine' \in [Tasks -> Engine]
    BY <1>8 DEF TypeOK, Abandon, EngineBecome
  <2> QED  BY <1>8, <2>1 DEF TypeOK, Abandon, store
<1>9. CASE Close(t)
  <2>1. Outcome(engine[t]) \in Status
    BY DEF Outcome
  <2>2. engine' \in [Tasks -> Engine]
    BY <1>9, <2>1 DEF TypeOK, Close, EngineBecome
  <2>3. record' \in [Tasks -> Status] /\ old' \in [Tasks -> BOOLEAN]
    BY <1>9, <2>1 DEF TypeOK, Close, Save
  <2> QED  BY <1>9, <2>2, <2>3 DEF TypeOK, Close
<1>10. CASE Lose(t)
  <2>1. engine' \in [Tasks -> Engine]
    BY <1>10 DEF TypeOK, Lose, EngineBecome
  <2> QED  BY <1>10, <2>1 DEF TypeOK, Lose, store
<1> QED
  BY <1>2, <1>3, <1>4, <1>5, <1>6, <1>7, <1>8, <1>9, <1>10 DEF EngineStep

LEMMA SweepTyped ==
    ASSUME TypeOK, NEW k \in Sweeps, SweepStep(k)
    PROVE  TypeOK'
<1>1. sweep[k] \in Sweep
  BY DEF TypeOK
<1> USE <1>1 DEF Sweep, Status
<1>2. CASE BeginSweep(k)
  <2>1. sweep' \in [Sweeps -> Sweep]
    BY <1>2 DEF TypeOK, BeginSweep, SweepBecome, IdleSweep
  <2> QED  BY <1>2, <2>1 DEF TypeOK, BeginSweep, store
<1>3. ASSUME NEW t \in Tasks, ScanTask(k, t)
      PROVE  TypeOK'
  <2>1. record[t] \in Status
    BY DEF TypeOK
  <2>2. sweep' \in [Sweeps -> Sweep]
    BY <1>3, <2>1 DEF TypeOK, ScanTask, SweepBecome
  <2> QED  BY <1>3, <2>2 DEF TypeOK, ScanTask, store
<1>4. CASE EndScan(k)
  <2>1. sweep' \in [Sweeps -> Sweep]
    BY <1>4 DEF TypeOK, EndScan, SweepBecome
  <2> QED  BY <1>4, <2>1 DEF TypeOK, EndScan, store
<1>5. ASSUME NEW t \in Tasks, Recover(k, t)
      PROVE  TypeOK'
  <2>1. sweep' \in [Sweeps -> Sweep]
    BY <1>5 DEF TypeOK, Recover, SweepBecome
  <2>2. record' \in [Tasks -> Status] /\ old' \in [Tasks -> BOOLEAN]
    BY <1>5 DEF TypeOK, Recover, Save
  <2> QED  BY <1>5, <2>1, <2>2 DEF TypeOK, Recover
<1>6. CASE EndSweep(k)
  <2>1. sweep' \in [Sweeps -> Sweep]
    BY <1>6 DEF TypeOK, EndSweep, SweepBecome, IdleSweep
  <2> QED  BY <1>6, <2>1 DEF TypeOK, EndSweep, store
<1> QED  BY <1>2, <1>3, <1>4, <1>5, <1>6 DEF SweepStep

LEMMA ClockTyped ==
    ASSUME TypeOK, NEW t \in Tasks, Age(t) \/ Expire(t)
    PROVE  TypeOK'
  BY DEF TypeOK, Age, Expire, Status

LEMMA NextTyped == TypeOK /\ [Next]_vars => TypeOK'
<1>1. TypeOK /\ UNCHANGED vars => TypeOK'
  BY DEF TypeOK, vars
<1> QED  BY <1>1, EngineTyped, SweepTyped, ClockTyped DEF Next

\* Every state is well typed (the statuses of task_store.py, the events and
\* the except clauses of engine.py).
THEOREM TypeCorrect == Spec => []TypeOK
<1>1. Init => TypeOK
  BY DEF Init, TypeOK, IdleEngine, IdleSweep, Engine, EnginePc, Sweep, Status, Event
<1> QED  BY <1>1, NextTyped, PTL DEF Spec

----------------------------------------------------------------------------
\* Frames

Same(u) ==
    /\ record'[u] = record[u]
    /\ old'[u] = old[u]
    /\ engine'[u] = engine[u]
    /\ logged'[u] = logged[u]
    /\ taken'[u] = taken[u]
    /\ abandoned'[u] = abandoned[u]

\* A step of a generator concerns its own task, and none follows its end.
LEMMA EngineLocal ==
    ASSUME TypeOK, NEW t \in Tasks, EngineStep(t)
    PROVE  /\ engine[t].pc \notin {"ended", "lost"}
           /\ sweep' = sweep
           /\ \A u \in Tasks : u # t => Same(u)
<1>1. CASE Register(t)
  BY <1>1 DEF TypeOK, Register, Save, EngineBecome, Same
<1>2. CASE Start(t)
  BY <1>2 DEF TypeOK, Start, Save, EngineBecome, Same
<1>3. ASSUME NEW event \in {"status", "answer"}, Produce(t, event)
      PROVE  /\ engine[t].pc \notin {"ended", "lost"}
             /\ sweep' = sweep
             /\ \A u \in Tasks : u # t => Same(u)
  BY <1>3 DEF TypeOK, Produce, EngineBecome, Same, store
<1>4. CASE Persist(t)
  BY <1>4 DEF TypeOK, Persist, EngineBecome, Same, store
<1>5. CASE Take(t)
  BY <1>5 DEF TypeOK, Take, EngineBecome, Same, store
<1>6. ASSUME NEW error \in Error, Fail(t, error)
      PROVE  /\ engine[t].pc \notin {"ended", "lost"}
             /\ sweep' = sweep
             /\ \A u \in Tasks : u # t => Same(u)
  BY <1>6 DEF TypeOK, Fail, EngineBecome, Same, store
<1>7. CASE Abandon(t)
  BY <1>7 DEF TypeOK, Abandon, EngineBecome, Same, store
<1>8. CASE Close(t)
  BY <1>8 DEF TypeOK, Close, Save, EngineBecome, Same
<1>9. CASE Lose(t)
  BY <1>9 DEF TypeOK, Lose, EngineBecome, Same, store
<1> QED
  BY <1>1, <1>2, <1>3, <1>4, <1>5, <1>6, <1>7, <1>8, <1>9 DEF EngineStep

\* The clock and the sweeps leave the generators alone, and write nothing but
\* "recovered".
LEMMA OthersLocal ==
    ASSUME TypeOK,
           \/ \E t \in Tasks : Age(t) \/ Expire(t)
           \/ \E k \in Sweeps : SweepStep(k)
           \/ UNCHANGED vars
    PROVE  /\ UNCHANGED <<engine, logged, taken, abandoned>>
           /\ \A u \in Tasks : record'[u] \in {record[u], "none", "recovered"}
<1>1. ASSUME NEW t \in Tasks, Age(t) \/ Expire(t)
      PROVE  /\ UNCHANGED <<engine, logged, taken, abandoned>>
             /\ \A u \in Tasks : record'[u] \in {record[u], "none", "recovered"}
  BY <1>1 DEF TypeOK, Age, Expire
<1>2. ASSUME NEW k \in Sweeps, SweepStep(k)
      PROVE  /\ UNCHANGED <<engine, logged, taken, abandoned>>
             /\ \A u \in Tasks : record'[u] \in {record[u], "none", "recovered"}
  <2>1. CASE BeginSweep(k) \/ EndScan(k) \/ EndSweep(k)
    BY <2>1 DEF BeginSweep, EndScan, EndSweep, store
  <2>2. ASSUME NEW t \in Tasks, ScanTask(k, t)
        PROVE  UNCHANGED <<record, engine, logged, taken, abandoned>>
    BY <2>2 DEF ScanTask, store
  <2>3. ASSUME NEW t \in Tasks, Recover(k, t)
        PROVE  /\ UNCHANGED <<engine, logged, taken, abandoned>>
               /\ \A u \in Tasks : record'[u] \in {record[u], "none", "recovered"}
    BY <2>3 DEF TypeOK, Recover, Save
  <2> QED  BY <1>2, <2>1, <2>2, <2>3 DEF SweepStep
<1> QED  BY <1>1, <1>2 DEF vars

----------------------------------------------------------------------------
\* The record says how the generator ended.

LEMMA OutcomeStep ==
    ASSUME TypeOK, RecordIsOutcome, [Next]_vars
    PROVE  RecordIsOutcome'
<1> SUFFICES ASSUME NEW u \in Tasks, record'[u] \in {"completed", "failed"}
             PROVE  /\ engine'[u].pc = "ended"
                    /\ record'[u] = "failed" <=> engine'[u].error \in Worded
  BY DEF RecordIsOutcome
<1>1. ASSUME NEW t \in Tasks, EngineStep(t)
      PROVE  /\ engine'[u].pc = "ended"
             /\ record'[u] = "failed" <=> engine'[u].error \in Worded
  <2>1. CASE u # t
    BY <1>1, <2>1, EngineLocal DEF Same, RecordIsOutcome
  <2>2. CASE u = t
    <3>1. record[t] \notin {"completed", "failed"}
      BY <1>1, EngineLocal DEF RecordIsOutcome
    <3>2. CASE Close(t)
      <4>1. engine[t] \in Engine
        BY DEF TypeOK
      <4> QED
        BY <2>2, <3>2, <4>1 DEF TypeOK, Close, Save, EngineBecome, Outcome, Engine
    <3>3. CASE Register(t) \/ Start(t)
      BY <2>2, <3>3 DEF TypeOK, Register, Start, Save
    <3>4. CASE ~Close(t) /\ ~Register(t) /\ ~Start(t)
      <4>1. record' = record
        BY <1>1, <3>4 DEF EngineStep, Produce, Persist, Take, Fail, Abandon, Lose, store
      <4> QED  BY <2>2, <3>1, <4>1
    <3> QED  BY <3>2, <3>3, <3>4
  <2> QED  BY <2>1, <2>2
<1>2. CASE \/ \E t \in Tasks : Age(t) \/ Expire(t)
           \/ \E k \in Sweeps : SweepStep(k)
           \/ UNCHANGED vars
  BY <1>2, OthersLocal DEF RecordIsOutcome
<1> QED  BY <1>1, <1>2 DEF Next

----------------------------------------------------------------------------
\* What has been sent and taken at each place

LEMMA PlaceEngine ==
    ASSUME TypeOK, NEW t \in Tasks, EngineStep(t), PlaceInv(t)
    PROVE  PlaceInv(t)'
<1>1. engine[t] \in Engine /\ logged[t] \in SUBSET Event /\ taken[t] \in SUBSET Event
  BY DEF TypeOK
<1>2. PlaceInv(t)'
  <2>1. CASE Register(t)
    BY <1>1, <2>1 DEF TypeOK, Register, Save, EngineBecome, Engine, PlaceInv
  <2>2. CASE Start(t)
    BY <1>1, <2>2 DEF TypeOK, Start, Save, EngineBecome, Engine, PlaceInv
  <2>3. ASSUME NEW event \in {"status", "answer"}, Produce(t, event)
        PROVE  PlaceInv(t)'
    BY <1>1, <2>3 DEF TypeOK, Produce, EngineBecome, Engine, PlaceInv
  <2>4. CASE Persist(t)
    BY <1>1, <2>4 DEF TypeOK, Persist, EngineBecome, Engine, PlaceInv
  <2>5. CASE Take(t)
    BY <1>1, <2>5 DEF TypeOK, Take, EngineBecome, Engine, PlaceInv, Done
  <2>6. ASSUME NEW error \in Error, Fail(t, error)
        PROVE  PlaceInv(t)'
    BY <1>1, <2>6 DEF TypeOK, Fail, EngineBecome, Engine, PlaceInv, FirstOfClause, Worded,
       Error
  <2>7. CASE Abandon(t)
    BY <1>1, <2>7 DEF TypeOK, Abandon, EngineBecome, Engine, PlaceInv
  <2>8. CASE Close(t)
    BY <1>1, <2>8 DEF TypeOK, Close, Save, EngineBecome, Engine, PlaceInv
  <2>9. CASE Lose(t)
    BY <1>1, <2>9 DEF TypeOK, Lose, EngineBecome, Engine, PlaceInv
  <2> QED
    BY <2>1, <2>2, <2>3, <2>4, <2>5, <2>6, <2>7, <2>8, <2>9 DEF EngineStep
<1> QED  BY <1>2

LEMMA AnnounceEngine ==
    ASSUME TypeOK, NEW t \in Tasks, EngineStep(t), PlaceInv(t), AnnounceInv(t)
    PROVE  AnnounceInv(t)'
<1>1. engine[t] \in Engine /\ logged[t] \in SUBSET Event /\ taken[t] \in SUBSET Event
  BY DEF TypeOK
<1>2. AnnounceInv(t)'
  <2>1. CASE Register(t)
    BY <1>1, <2>1 DEF TypeOK, Register, Save, EngineBecome, Engine, PlaceInv, AnnounceInv,
       Announced
  <2>2. CASE Start(t)
    BY <1>1, <2>2 DEF TypeOK, Start, Save, EngineBecome, Engine, PlaceInv, AnnounceInv,
       Announced
  <2>3. ASSUME NEW event \in {"status", "answer"}, Produce(t, event)
        PROVE  AnnounceInv(t)'
    BY <1>1, <2>3 DEF TypeOK, Produce, EngineBecome, Engine, PlaceInv, AnnounceInv,
       Announced
  <2>4. CASE Persist(t)
    BY <1>1, <2>4 DEF TypeOK, Persist, EngineBecome, Engine, PlaceInv, AnnounceInv,
       Announced
  <2>5. CASE Take(t)
    BY <1>1, <2>5 DEF TypeOK, Take, EngineBecome, Engine, PlaceInv, AnnounceInv, Announced,
       Done
  <2>6. ASSUME NEW error \in Error, Fail(t, error)
        PROVE  AnnounceInv(t)'
    <3>1. PICK first \in Event :
             /\ first = "apology" => engine[t].sent
             /\ engine'[t] = [engine[t] EXCEPT !.pc = "persist", !.error = error,
                                               !.event = first]
      <4>1. FirstOfClause(engine[t], error) = "apology" => engine[t].sent
        BY DEF FirstOfClause
      <4>2. FirstOfClause(engine[t], error) \in Event
        BY <2>6 DEF FirstOfClause, Event
      <4>3. engine'[t] = [engine[t] EXCEPT !.pc = "persist", !.error = error,
                                           !.event = FirstOfClause(engine[t], error)]
        BY <2>6 DEF TypeOK, Fail, EngineBecome
      <4> QED  BY <4>1, <4>2, <4>3
    <3>2. taken' = taken /\ engine[t].pc \in {"graph", "persist"} /\ engine[t].error = "none"
      BY <2>6 DEF Fail
    <3> QED  BY <1>1, <3>1, <3>2 DEF Engine, AnnounceInv, Announced
  <2>7. CASE Abandon(t)
    BY <1>1, <2>7 DEF TypeOK, Abandon, EngineBecome, Engine, PlaceInv, AnnounceInv,
       Announced
  <2>8. CASE Close(t)
    BY <1>1, <2>8 DEF TypeOK, Close, Save, EngineBecome, Engine, PlaceInv, AnnounceInv,
       Announced
  <2>9. CASE Lose(t)
    BY <1>1, <2>9 DEF TypeOK, Lose, EngineBecome, Engine, PlaceInv, AnnounceInv, Announced
  <2> QED
    BY <2>1, <2>2, <2>3, <2>4, <2>5, <2>6, <2>7, <2>8, <2>9 DEF EngineStep
<1> QED  BY <1>2

----------------------------------------------------------------------------
\* Sweeps

\* A step of a generator reads no sweep; only Start makes a record "running".
LEMMA SweepEngine ==
    ASSUME TypeOK, NEW t \in Tasks, EngineStep(t), SweepInv(t)
    PROVE  SweepInv(t)'
<1>1. engine[t] \in Engine /\ sweep' = sweep
  BY EngineLocal DEF TypeOK
<1>2. CASE Register(t)
  <2>1. \A k \in Sweeps : sweep[k].copy[t] \in {"none", "pending"}
    BY <1>2 DEF SweepInv, Register
  <2>2. record'[t] = "pending"
    BY <1>2 DEF TypeOK, Register, Save
  <2> QED  BY <1>1, <2>1, <2>2 DEF SweepInv, Stuck
<1>3. CASE Start(t)
  <2>1. \A k \in Sweeps : sweep[k].copy[t] \in {"none", "pending"}
    BY <1>3 DEF SweepInv, Start
  <2>2. engine'[t].pc = "graph"
    BY <1>1, <1>3 DEF TypeOK, Start, EngineBecome, Engine
  <2> QED  BY <1>1, <2>1, <2>2 DEF SweepInv, Stuck
<1>4. CASE Close(t)
  <2>1. record'[t] # "running"
    BY <1>4 DEF TypeOK, Close, Save, Outcome
  <2>2. engine'[t].pc = "ended"
    BY <1>1, <1>4 DEF TypeOK, Close, EngineBecome, Engine
  <2> QED  BY <1>1, <2>1, <2>2 DEF SweepInv
<1>5. CASE ~Register(t) /\ ~Start(t) /\ ~Close(t)
  <2>1. record' = record /\ old' = old
    BY <1>5 DEF EngineStep, Produce, Persist, Take, Fail, Abandon, Lose, store
  <2>2. engine[t].pc \notin {"idle", "registered"} => engine'[t].pc \notin {"idle", "registered"}
    <3>1. ASSUME NEW event \in {"status", "answer"}, Produce(t, event)
          PROVE  engine'[t].pc = "persist"
      BY <1>1, <3>1 DEF TypeOK, Produce, EngineBecome, Engine
    <3>2. ASSUME NEW error \in Error, Fail(t, error)
          PROVE  engine'[t].pc = "persist"
      BY <1>1, <3>2 DEF TypeOK, Fail, EngineBecome, Engine
    <3>3. CASE Persist(t)
      BY <1>1, <3>3 DEF TypeOK, Persist, EngineBecome, Engine
    <3>4. CASE Take(t)
      BY <1>1, <3>4 DEF TypeOK, Take, EngineBecome, Engine
    <3>5. CASE Abandon(t) \/ Lose(t)
      BY <1>1, <3>5 DEF TypeOK, Abandon, Lose, EngineBecome, Engine
    <3> QED  BY <1>5, <3>1, <3>2, <3>3, <3>4, <3>5 DEF EngineStep
  <2>3. engine[t].pc \in {"idle", "registered"} => engine'[t].pc \notin {"idle", "registered"}
    <3>1. engine[t].pc \in {"idle", "registered"} => Lose(t)
      BY <1>5 DEF EngineStep, Produce, Persist, Take, Fail, Abandon
    <3> QED  BY <1>1, <3>1 DEF TypeOK, Lose, EngineBecome, Engine
  <2> QED  BY <1>1, <2>1, <2>2, <2>3 DEF SweepInv, Stuck
<1> QED  BY <1>2, <1>3, <1>4, <1>5

LEMMA SweepOthers ==
    ASSUME TypeOK, NEW u \in Tasks, SweepInv(u),
           \/ \E t \in Tasks : Age(t) \/ Expire(t)
           \/ \E k \in Sweeps : SweepStep(k)
           \/ UNCHANGED vars
    PROVE  SweepInv(u)'
<1>1. engine' = engine
  BY OthersLocal
<1>2. ASSUME NEW t \in Tasks, Age(t) \/ Expire(t)
      PROVE  SweepInv(u)'
  <2>1. sweep' = sweep
    BY <1>2 DEF Age, Expire
  <2>2. /\ record'[u] \in {record[u], "none"}
        /\ record'[u] = "running" => record[u] = "running" /\ (old[u] => old'[u])
    BY <1>2 DEF TypeOK, Age, Expire
  <2> QED  BY <1>1, <2>1, <2>2 DEF SweepInv, Stuck
<1>3. ASSUME NEW k \in Sweeps, SweepStep(k)
      PROVE  SweepInv(u)'
  <2>1. sweep[k] \in Sweep
    BY DEF TypeOK
  <2>2. CASE BeginSweep(k) \/ EndSweep(k)
    <3>1. record' = record /\ old' = old /\ \A j \in Sweeps : j # k => sweep'[j] = sweep[j]
      BY <2>2 DEF TypeOK, BeginSweep, EndSweep, SweepBecome, store
    <3>2. sweep'[k].copy[u] = "none"
      <4>1. IdleSweep.copy[u] = "none"
        BY DEF IdleSweep
      <4>2. CASE BeginSweep(k)
        <5>1. PICK left \in SUBSET Tasks, due \in SUBSET Tasks :
                 sweep'[k] = [IdleSweep EXCEPT !.pc = "scan", !.left = left, !.due = due]
          BY <4>2 DEF TypeOK, BeginSweep, SweepBecome
        <5> QED  BY <4>1, <5>1 DEF IdleSweep
      <4>3. CASE EndSweep(k)
        BY <4>1, <4>3 DEF TypeOK, EndSweep, SweepBecome
      <4> QED  BY <2>2, <4>2, <4>3
    <3> QED  BY <1>1, <3>1, <3>2 DEF SweepInv, Stuck
  <2>3. CASE EndScan(k)
    <3>1. /\ record' = record /\ old' = old
          /\ sweep'[k].copy = sweep[k].copy /\ sweep'[k].due = sweep[k].due
          /\ \A j \in Sweeps : j # k => sweep'[j] = sweep[j]
      BY <2>1, <2>3 DEF TypeOK, EndScan, SweepBecome, Sweep, store
    <3> QED  BY <1>1, <3>1 DEF SweepInv, Stuck
  <2>4. ASSUME NEW t \in Tasks, ScanTask(k, t)
        PROVE  SweepInv(u)'
    <3>1. /\ record' = record /\ old' = old
          /\ \A j \in Sweeps : j # k => sweep'[j] = sweep[j]
          /\ sweep'[k].copy[u] = IF u = t THEN record[t] ELSE sweep[k].copy[u]
          /\ u \in sweep'[k].due => u \in sweep[k].due /\ (u = t => old[t])
      BY <2>1, <2>4 DEF TypeOK, ScanTask, SweepBecome, Sweep, store
    <3> QED  BY <1>1, <3>1 DEF SweepInv, Stuck
  <2>5. ASSUME NEW t \in Tasks, Recover(k, t)
        PROVE  SweepInv(u)'
    <3>1. /\ \A j \in Sweeps : j # k => sweep'[j] = sweep[j]
          /\ sweep'[k].copy[u] = IF u = t THEN "recovered" ELSE sweep[k].copy[u]
          /\ sweep'[k].due = sweep[k].due
          /\ record'[u] = IF u = t THEN "recovered" ELSE record[u]
          /\ u # t => old'[u] = old[u]
      BY <2>1, <2>5 DEF TypeOK, Recover, Save, SweepBecome, Sweep
    <3>2. CASE u = t
      <4>1. engine[u].pc \notin {"idle", "registered"}
        BY <2>5, <3>2 DEF Recover, Stuck, SweepInv
      <4> QED  BY <1>1, <3>1, <3>2, <4>1 DEF SweepInv
    <3>3. CASE u # t
      BY <1>1, <3>1, <3>3 DEF SweepInv, Stuck
    <3> QED  BY <3>2, <3>3
  <2> QED  BY <1>3, <2>2, <2>3, <2>4, <2>5 DEF SweepStep
<1>4. CASE UNCHANGED vars
  BY <1>4 DEF vars, SweepInv, Stuck
<1> QED  BY <1>2, <1>3, <1>4

----------------------------------------------------------------------------
\* The invariant and what follows from it

LEMMA InvInit == Init => Inv
<1> SUFFICES ASSUME Init PROVE Inv
  OBVIOUS
<1>1. TypeOK
  BY DEF Init, TypeOK, IdleEngine, IdleSweep, Engine, EnginePc, Sweep, Status, Event
<1>2. \A t \in Tasks :
         /\ record[t] = "none" /\ logged[t] = {} /\ taken[t] = {}
         /\ engine[t].pc = "idle" /\ engine[t].error = "none" /\ ~engine[t].sent
  BY DEF Init, IdleEngine
<1>3. \A k \in Sweeps, t \in Tasks : sweep[k].copy[t] = "none"
  BY DEF Init, IdleSweep
<1> QED
  BY <1>1, <1>2, <1>3 DEF Inv, RecordIsOutcome, PlaceInv, AnnounceInv, SweepInv, Stuck

LEMMA InvNext == Inv /\ [Next]_vars => Inv'
<1> SUFFICES ASSUME Inv, [Next]_vars PROVE Inv'
  OBVIOUS
<1>1. TypeOK
  BY DEF Inv
<1>2. TypeOK' /\ RecordIsOutcome'
  BY NextTyped, OutcomeStep DEF Inv
<1>3. ASSUME NEW u \in Tasks
      PROVE  PlaceInv(u)' /\ AnnounceInv(u)' /\ SweepInv(u)'
  <2>1. PlaceInv(u) /\ AnnounceInv(u) /\ SweepInv(u)
    BY DEF Inv
  <2>2. ASSUME NEW t \in Tasks, EngineStep(t)
        PROVE  PlaceInv(u)' /\ AnnounceInv(u)' /\ SweepInv(u)'
    <3>1. CASE u = t
      BY <1>1, <2>1, <2>2, <3>1, PlaceEngine, AnnounceEngine, SweepEngine
    <3>2. CASE u # t
      <4>1. Same(u) /\ sweep' = sweep
        BY <1>1, <2>2, <3>2, EngineLocal
      <4> QED
        BY <2>1, <4>1 DEF Same, PlaceInv, AnnounceInv, Announced, SweepInv, Stuck
    <3> QED  BY <3>1, <3>2
  <2>3. CASE \/ \E t \in Tasks : Age(t) \/ Expire(t)
             \/ \E k \in Sweeps : SweepStep(k)
             \/ UNCHANGED vars
    <3>1. UNCHANGED <<engine, logged, taken, abandoned>>
      BY <1>1, <2>3, OthersLocal
    <3>2. PlaceInv(u)' /\ AnnounceInv(u)'
      BY <2>1, <3>1 DEF PlaceInv, AnnounceInv, Announced
    <3>3. SweepInv(u)'
      BY <1>1, <2>1, <2>3, SweepOthers
    <3> QED  BY <3>2, <3>3
  <2> QED  BY <2>2, <2>3 DEF Next
<1> QED  BY <1>2, <1>3 DEF Inv

THEOREM Invariance == Spec => []Inv
  BY InvInit, InvNext, PTL DEF Spec

\* The status of a finished task is written by its generator alone, and says
\* how the generator ended (engine.py, the finally clause).
THEOREM OutcomeHolds == Spec => []RecordIsOutcome
<1>1. Inv => RecordIsOutcome
  BY DEF Inv
<1> QED  BY <1>1, Invariance, PTL

\* A finished record agrees with what the handler of the request was given
\* (engine.py, the except clauses and the finally clause).
THEOREM DeliveryHolds == Spec => []OutcomeIsDelivered
<1>1. Inv => OutcomeIsDelivered
  <2> SUFFICES ASSUME Inv, NEW t \in Tasks, record[t] \in {"completed", "failed"}
               PROVE  /\ record[t] = "completed" /\ engine[t].error # "none" =>
                            engine[t].error = "wordless"
                      /\ IF engine[t].error = "none"
                         THEN "apology" \notin logged[t] /\ ("answer" \in taken[t] \/ abandoned[t])
                              /\ record[t] # "failed"
                         ELSE "apology" \in taken[t] \/ abandoned[t]
    BY DEF OutcomeIsDelivered
  <2>1. /\ engine[t].pc = "ended"
        /\ record[t] = "failed" <=> engine[t].error \in Worded
        /\ engine[t].error \in {"none"} \union Error
    BY DEF Inv, RecordIsOutcome, TypeOK, Engine
  <2>2. PlaceInv(t)
    BY DEF Inv
  <2> QED  BY <2>1, <2>2 DEF PlaceInv, Worded, Error
<1> QED  BY <1>1, Invariance, PTL

\* A degraded answer is announced before it is delivered (engine.py, the
\* except clauses).
THEOREM AnnouncementHolds == Spec => []ApologyIsAnnounced
<1>1. Inv => ApologyIsAnnounced
  BY DEF Inv, AnnounceInv, Announced, ApologyIsAnnounced
<1> QED  BY <1>1, Invariance, PTL

\* Only a sweep that read a record as running can change the outcome of an
\* ended task (task_store.py, recover_stuck_running).
THEOREM OutcomeStands == Spec => FinalStands
<1>1. Inv /\ [Next]_vars =>
        [\A t \in Tasks :
           record[t] \in {"completed", "failed"} =>
              \/ record'[t] \in {record[t], "none"}
              \/ /\ record'[t] = "recovered"
                 /\ \E k \in Sweeps : sweep[k].pc = "judge" /\ sweep[k].copy[t] = "running"]_vars
  <2> SUFFICES ASSUME Inv, Next, NEW u \in Tasks, record[u] \in {"completed", "failed"},
                      record'[u] \notin {record[u], "none"}
               PROVE  /\ record'[u] = "recovered"
                      /\ \E k \in Sweeps : sweep[k].pc = "judge" /\ sweep[k].copy[u] = "running"
    OBVIOUS
  <2>1. TypeOK /\ engine[u].pc = "ended"
    BY DEF Inv, RecordIsOutcome
  <2>2. ASSUME NEW t \in Tasks, EngineStep(t)
        PROVE  FALSE
    BY <2>1, <2>2, EngineLocal DEF Same
  <2>3. ASSUME NEW t \in Tasks, Age(t) \/ Expire(t)
        PROVE  FALSE
    BY <2>1, <2>3 DEF TypeOK, Age, Expire
  <2>4. ASSUME NEW k \in Sweeps, SweepStep(k)
        PROVE  /\ record'[u] = "recovered"
               /\ sweep[k].pc = "judge" /\ sweep[k].copy[u] = "running"
    <3>1. PICK t \in Tasks : Recover(k, t)
      BY <2>4 DEF SweepStep, BeginSweep, ScanTask, EndScan, EndSweep, store
    <3> QED  BY <2>1, <3>1 DEF TypeOK, Recover, Save, Stuck
  <2> QED  BY <2>2, <2>3, <2>4 DEF Next
<1> QED  BY <1>1, Invariance, PTL DEF Spec, FinalStands

\* A record that still says "running" is recovered only when it is older than
\* the stage timeout (task_store.py, recover_stuck_running).
THEOREM YoungSpared == Spec => YoungIsSpared
<1>1. Inv /\ [Next]_vars =>
        [\A t \in Tasks : record[t] = "running" /\ record'[t] = "recovered" => old[t]]_vars
  <2> SUFFICES ASSUME Inv, Next, NEW u \in Tasks,
                      record[u] = "running", record'[u] = "recovered"
               PROVE  old[u]
    OBVIOUS
  <2>1. TypeOK /\ SweepInv(u)
    BY DEF Inv
  <2>2. ASSUME NEW t \in Tasks, EngineStep(t)
        PROVE  FALSE
    <3>1. CASE Register(t) \/ Start(t) \/ Close(t)
      <4>1. record'[u] \in {record[u], "pending", "running", "completed", "failed"}
        BY <2>1, <3>1 DEF TypeOK, Register, Start, Close, Save, Outcome
      <4> QED  BY <4>1
    <3>2. CASE ~(Register(t) \/ Start(t) \/ Close(t))
      BY <2>2, <3>2 DEF EngineStep, Produce, Persist, Take, Fail, Abandon, Lose, store
    <3> QED  BY <3>1, <3>2
  <2>3. ASSUME NEW t \in Tasks, Age(t) \/ Expire(t)
        PROVE  FALSE
    BY <2>1, <2>3 DEF TypeOK, Age, Expire
  <2>4. ASSUME NEW k \in Sweeps, SweepStep(k)
        PROVE  old[u]
    <3>1. PICK t \in Tasks : Recover(k, t)
      BY <2>4 DEF SweepStep, BeginSweep, ScanTask, EndScan, EndSweep, store
    <3>2. t = u
      BY <2>1, <3>1 DEF TypeOK, Recover, Save
    <3> QED  BY <2>1, <3>1, <3>2 DEF Recover, SweepInv
  <2> QED  BY <2>2, <2>3, <2>4 DEF Next
<1> QED  BY <1>1, Invariance, PTL DEF Spec, YoungIsSpared

----------------------------------------------------------------------------
\* AgentGraph

\* A rejection may exhaust the loop; the node before it has not.
Due(n, s) ==
    /\ n \in {"generator", "critic"} => s.iteration <= MaxIterations
    /\ n = "end" => s.iteration <= MaxIterations + 1 /\ AG!Reviewed(s)
    /\ n \notin {"generator", "critic", "end"} => s.iteration < MaxIterations

\* The node n has run, and what a resumption by hand finds after it.
Counts == {"self_correction", "critic"}

Passed(s) == s.approved => s.answer = "approved"

Left(n, s) ==
    /\ n \in Counts => s.iteration <= MaxIterations + 2
    /\ n \notin Counts => s.iteration <= MaxIterations + 1
    /\ n = "critic" => Passed(s)

Drives(x) == x.pc \in {"load", "run", "save"}

ByThread(x) ==
    /\ x.pc \notin {"consume", "hand"}
    /\ x.pc \in {"run", "save"} => x.at \in AG!Node
    /\ x.pc = "run" => Due(x.at, x.st)
    /\ x.pc \in {"save", "load"} => thread.next # "none"
    /\ x.st.iteration <= MaxIterations + 1

WithThread(x) ==
    /\ x.pc = "save" => x.st = thread.st
    /\ x.pc = "load" /\ thread.next = "end" => AG!Reviewed(x.st)
    /\ x.pc = "done" => AG!Reviewed(x.st)

NativeOK ==
    /\ ahead = AG!NoTask
    /\ thread.next # "none" => Due(thread.next, thread.st)
    /\ thread.st.iteration <= MaxIterations + 1
    /\ row.node # "none" => thread.next # "none"
    /\ row.st.iteration <= MaxIterations + 1
    /\ \A e \in Executions : ByThread(exec[e])
    /\ \A e \in Executions : e \notin disturbed => WithThread(exec[e])
    /\ \A e, d \in Executions : e # d /\ Drives(exec[e]) /\ Drives(exec[d]) => e \in disturbed

ByHand(e, x) ==
    /\ x.pc \notin {"load", "run", "save"}
    /\ x.pc = "hand" => e # Original /\ x.at \in AG!Node /\ Left(x.at, x.st)
    /\ x.pc = "consume" => e = Original
    /\ x.pc = "done" => AG!Reviewed(x.st)
    /\ x.st.iteration <= MaxIterations + 2

UpdateOK(u) ==
    /\ u.ref \in 1 .. Len(ahead.dicts)
    /\ u.node = "critic" =>
         /\ Passed(ahead.dicts[u.ref])
         /\ u.ref = Len(ahead.dicts) => ahead.at \in AG!Copying \union {"end"}

AheadOK ==
    /\ ahead.at # "none"
    /\ Len(ahead.dicts) # 0
    /\ Due(ahead.at, ahead.dicts[Len(ahead.dicts)])
    /\ \A i \in 1 .. Len(ahead.dicts) : ahead.dicts[i].iteration <= MaxIterations + 1
    /\ \A i \in 1 .. Len(ahead.queue) : UpdateOK(ahead.queue[i])
    /\ ahead.queue # <<>> => ahead.queue[Len(ahead.queue)].ref = Len(ahead.dicts)
    /\ ahead.queue = <<>> /\ ahead.at = "end" => ahead.latest = Len(ahead.dicts)

ManualOK ==
    /\ thread.next = "none" /\ thread.st.iteration = 0
    /\ row.node # "none" => Left(row.node, row.st)
    /\ \A e \in Executions : ByHand(e, exec[e])
    /\ exec[Original].pc = "consume" => AheadOK

GraphInv ==
    /\ AG!TypeOK
    /\ \A e \in Executions : exec[e].pc # "idle" => exec[Original].pc # "idle"
    /\ native => NativeOK
    /\ ~native => ManualOK

----------------------------------------------------------------------------

LEMMA AnsweredState ==
  ASSUME NEW s \in AG!State, NEW b \in BOOLEAN
  PROVE  /\ AG!Answered(s, b) \in AG!State /\ AG!Answered(s, b).iteration = s.iteration
         /\ AG!AnswerInGeneral(s) \in AG!State /\ AG!AnswerInGeneral(s).iteration = s.iteration
         /\ AG!AnswerFromDocs(s) \in AG!State /\ AG!AnswerFromDocs(s).iteration = s.iteration
<1>1. ASSUME NEW c \in BOOLEAN
      PROVE  AG!Answered(s, c) \in AG!State /\ AG!Answered(s, c).iteration = s.iteration
  BY DEF AG!Answered, AG!State, AG!Answer
<1>2. ASSUME NEW x \in AG!State, NEW c \in BOOLEAN
      PROVE  [x EXCEPT !.general = c] \in AG!State /\ [x EXCEPT !.general = c].iteration = x.iteration
  BY DEF AG!State
<1> QED BY <1>1, <1>2 DEF AG!AnswerInGeneral, AG!AnswerFromDocs

LEMMA FoundState ==
  ASSUME NEW s \in AG!State, NEW b \in BOOLEAN,
         NEW o \in {[AG!Answered(s, b) EXCEPT !.docs = b],
                    [AG!Answered(s, b) EXCEPT !.docs = b, !.agent = "compliance"],
                    [AG!Answered(s, b) EXCEPT !.agent = "graph"],
                    [AG!Answered(s, b) EXCEPT !.agent = "data"]}
  PROVE  o \in AG!State /\ o.iteration = s.iteration
<1> DEFINE x == AG!Answered(s, b)
<1>1. x \in AG!State /\ x.iteration = s.iteration
  BY AnsweredState
<1> HIDE DEF x
<1>2. CASE o = [x EXCEPT !.docs = b]
  BY <1>1, <1>2 DEF AG!State
<1>3. CASE o = [x EXCEPT !.docs = b, !.agent = "compliance"]
  BY <1>1, <1>3 DEF AG!State
<1>4. CASE o = [x EXCEPT !.agent = "graph"]
  BY <1>1, <1>4 DEF AG!State
<1>5. CASE o = [x EXCEPT !.agent = "data"]
  BY <1>1, <1>5 DEF AG!State
<1> QED BY <1>2, <1>3, <1>4, <1>5 DEF x

\* What a node may leave.
LEMMA OutcomeState ==
  ASSUME AG!GraphConstants, NEW n \in AG!Node, NEW s \in AG!State, NEW o \in AG!Outcomes(n, s)
  PROVE  /\ o \in AG!State /\ s.iteration \in Nat /\ o.iteration \in Nat
         /\ n \notin Counts => o.iteration = s.iteration
         /\ n = "self_correction" => o.iteration = s.iteration + 1
         /\ n = "critic" => \/ o.approved /\ o.answer = "approved" /\ o.iteration = s.iteration
                            \/ ~o.approved /\ o.iteration = s.iteration + 1
<1> SUFFICES /\ o \in AG!State
             /\ n \notin Counts => o.iteration = s.iteration
             /\ n = "self_correction" => o.iteration = s.iteration + 1
             /\ n = "critic" => \/ o.approved /\ o.answer = "approved" /\ o.iteration = s.iteration
                                \/ ~o.approved /\ o.iteration = s.iteration + 1
  BY DEF AG!State
<1>0. s.iteration \in Nat
  BY DEF AG!State
<1>1. CASE n = "intent_router"
  <2>1. PICK i \in Intents : o = [s EXCEPT !.intent = i]
    BY <1>1 DEF AG!Outcomes, AG!RouteIntent
  <2>2. i \in AG!Intent
    BY DEF AG!GraphConstants
  <2> QED BY <1>1, <2>1, <2>2 DEF AG!State, Counts
<1>2. CASE n \in {"coreference_resolver", "query_rewriter"}
  <2>1. o = s
    BY <1>2 DEF AG!Outcomes, AG!ResolveReferences, AG!Rewrite
  <2> QED BY <1>2, <2>1 DEF Counts
<1>3. CASE n = "query_planner"
  <2>1. \/ o = [s EXCEPT !.decomposed = TRUE, !.parts = TRUE]
        \/ o = [s EXCEPT !.decomposed = FALSE]
    BY <1>3 DEF AG!Outcomes, AG!Plan
  <2> QED BY <1>3, <2>1 DEF AG!State, Counts
<1>4. CASE n = "retriever"
  <2>1. PICK found \in BOOLEAN : o = [s EXCEPT !.docs = found, !.cites = found]
    BY <1>4 DEF AG!Outcomes, AG!Retrieve
  <2> QED BY <1>4, <2>1 DEF AG!State, Counts
<1>5. CASE n = "self_correction"
  <2>1. PICK enough \in BOOLEAN : o = [s EXCEPT !.iteration = @ + 1, !.sufficient = enough]
    BY <1>5 DEF AG!Outcomes, AG!SelfCorrect
  <2>2. s.iteration + 1 \in Nat
    BY <1>0
  <2> QED BY <1>5, <2>1, <2>2 DEF AG!State, Counts
<1>6. CASE n = "generator"
  <2>1. o \in {s, AG!AnswerFromDocs(s), AG!AnswerInGeneral(s)}
    BY <1>6 DEF AG!Outcomes, AG!Generate
  <2> QED BY <1>6, <2>1, AnsweredState DEF Counts
<1>7. CASE n = "synthesizer"
  <2>1. CASE o = AG!Answered(s, s.cites)
    <3>1. s.cites \in BOOLEAN
      BY DEF AG!State
    <3> QED BY <1>7, <2>1, <3>1, AnsweredState DEF Counts
  <2>2. ASSUME NEW found \in BOOLEAN, o = [AG!Answered(s, found) EXCEPT !.docs = found]
        PROVE  o \in AG!State /\ o.iteration = s.iteration
    BY <2>2, FoundState
  <2> QED BY <1>7, <2>1, <2>2 DEF AG!Outcomes, AG!Synthesize, Counts
<1>8. ASSUME NEW c \in AG!Comply(s)
      PROVE  c \in AG!State /\ c.iteration = s.iteration
  <2>1. PICK found \in BOOLEAN :
          c = [AG!Answered(s, found) EXCEPT !.docs = found, !.agent = "compliance"]
    BY DEF AG!Comply
  <2> QED BY <2>1, FoundState
<1>9. CASE n = "compliance"
  BY <1>8, <1>9 DEF AG!Outcomes, Counts
<1>10. CASE n = "summary"
  <2>1. PICK c \in AG!Comply(s) : o = [c EXCEPT !.agent = "summary"]
    BY <1>10 DEF AG!Outcomes, AG!Summarize
  <2>2. c \in AG!State /\ c.iteration = s.iteration
    BY <1>8
  <2> QED BY <1>10, <2>1, <2>2 DEF AG!State, Counts
<1>11. CASE n = "graph"
  <2>1. PICK found \in BOOLEAN : o = [AG!Answered(s, found) EXCEPT !.agent = "graph"]
    BY <1>11 DEF AG!Outcomes, AG!Relate
  <2> QED BY <1>11, <2>1, FoundState DEF Counts
<1>12. CASE n = "data"
  <2>1. o = [AG!Answered(s, FALSE) EXCEPT !.agent = "data"]
    BY <1>12 DEF AG!Outcomes, AG!Analyse
  <2> QED BY <1>12, <2>1, FoundState DEF Counts
<1>13. CASE n = "critic"
  <2>1. o \in {AG!Approve(s), AG!Reject(s)}
    BY <1>13 DEF AG!Outcomes, AG!Review
  <2>2. CASE o = AG!Approve(s)
    BY <1>13, <2>2 DEF AG!Approve, AG!State, AG!Answer, Counts
  <2>3. CASE o = AG!Reject(s)
    <3>1. s.iteration + 1 \in Nat
      BY <1>0
    <3> QED BY <1>13, <2>3, <3>1 DEF AG!Reject, AG!State, AG!Answer, Counts
  <2> QED BY <2>1, <2>2, <2>3
<1> QED BY <1>1, <1>2, <1>3, <1>4, <1>5, <1>6, <1>7, <1>9, <1>10, <1>11, <1>12,
   <1>13 DEF AG!Node

\* Where the edges lead.
LEMMA Edges ==
  ASSUME AG!GraphConstants, NEW n \in AG!Node, NEW s \in AG!State
  PROVE  /\ AG!NextNode(n, s) \in AG!Node \union {"end"}
         /\ AG!NextNode(n, s) = "end" => n = "critic" /\ (s.approved \/ AG!Exhausted(s))
         /\ n \in Counts /\ AG!Exhausted(s) => AG!NextNode(n, s) \in {"generator", "end"}
         /\ AG!NextNode(n, s) = "self_correction" => n = "retriever"
         /\ AG!NextNode(n, s) = "critic" => n \notin Counts
         /\ AG!NextNode(n, s) = "generator" => n = "self_correction"
         /\ AG!NextNode(n, s) # "intent_router"
         /\ n = "critic" => AG!NextNode(n, s) \in AG!Copying \union {"end"}
<1>1. AG!Specialist(s) \in {"data", "summary", "graph", "compliance"}
  BY DEF AG!Specialist
<1>2. CASE n = "self_correction"
  BY <1>2 DEF AG!NextNode, AG!AfterSelfCorrection, AG!Node, Counts
<1>3. CASE n = "critic"
  BY <1>1, <1>3 DEF AG!NextNode, AG!AfterCritic, AG!Node, Counts, AG!Copying
<1>4. CASE n = "query_rewriter"
  BY <1>1, <1>4 DEF AG!NextNode, AG!AfterRewrite, AG!Node, Counts
<1>5. CASE n \in {"intent_router", "coreference_resolver", "query_planner", "retriever"}
  BY <1>5 DEF AG!NextNode, AG!Node, Counts
<1>6. CASE n \in {"generator", "synthesizer", "compliance", "summary", "graph", "data"}
  BY <1>6 DEF AG!NextNode, AG!Node, Counts
<1> QED BY <1>2, <1>3, <1>4, <1>5, <1>6 DEF AG!Node

LEMMA MarkedState ==
  ASSUME NEW n \in AG!Node, NEW s \in AG!State
  PROVE  /\ AG!Marked(n, s) \in AG!State
         /\ AG!Marked(n, s).iteration = s.iteration
         /\ AG!Marked(n, s).approved = s.approved
         /\ AG!Marked(n, s).answer = s.answer
         /\ n = "critic" /\ AG!Exhausted(s) /\ ~s.approved => AG!Marked(n, s).degraded
BY DEF AG!Marked, AG!State, AG!GivenUp

\* A node that is due leaves the next one due, and the loop within its bound.
LEMMA DueNext ==
  ASSUME AG!GraphConstants, NEW n \in AG!Node, NEW s \in AG!State, Due(n, s), NEW o \in AG!Outcomes(n, s)
  PROVE  /\ AG!NextNode(n, o) \in AG!Node \union {"end"}
         /\ AG!Marked(n, o) \in AG!State
         /\ Due(AG!NextNode(n, o), AG!Marked(n, o))
         /\ AG!Marked(n, o).iteration <= MaxIterations + 1
         /\ n = "critic" => Passed(AG!Marked(n, o))
<1>1. MaxIterations \in Nat /\ s.iteration \in Nat /\ o \in AG!State /\ o.iteration \in Nat
  <2>1. o \in AG!State
    BY OutcomeState
  <2> QED BY <2>1 DEF AG!GraphConstants, AG!State
<1>2. AG!Marked(n, o) \in AG!State /\ AG!Marked(n, o).iteration = o.iteration
  BY <1>1, MarkedState
<1>3. o.iteration <= MaxIterations + 1
  BY <1>1, OutcomeState DEF Due, Counts
<1>4. AG!NextNode(n, o) = "end" => AG!Reviewed(AG!Marked(n, o))
  BY <1>1, OutcomeState, Edges, MarkedState DEF AG!Reviewed
<1>5. n \notin Counts => o.iteration = s.iteration
  BY OutcomeState
<1>6. AG!NextNode(n, o) \in {"generator", "critic"} => o.iteration <= MaxIterations
  <2>1. CASE n = "self_correction"
    BY <1>1, <2>1, OutcomeState DEF Due
  <2>2. CASE n = "critic"
    BY <2>2, <1>1, Edges DEF Counts, AG!Copying
  <2>3. CASE n \notin Counts
    BY <1>1, <1>5, <2>3 DEF Due, Counts, AG!Node
  <2> QED BY <2>1, <2>2, <2>3 DEF Counts
<1>7. AG!NextNode(n, o) \notin {"generator", "critic", "end"} => o.iteration < MaxIterations
  <2> SUFFICES ASSUME AG!NextNode(n, o) \notin {"generator", "critic", "end"}
               PROVE  o.iteration < MaxIterations
    OBVIOUS
  <2>1. CASE n \in Counts
    BY <1>1, <2>1, Edges DEF AG!Exhausted
  <2>2. CASE n \notin Counts /\ n # "generator"
    BY <1>1, <1>5, <2>2 DEF Due, Counts, AG!Node
  <2>3. CASE n = "generator"
    BY <2>3 DEF AG!NextNode
  <2> QED BY <2>1, <2>2, <2>3
<1>8. Due(AG!NextNode(n, o), AG!Marked(n, o))
  BY <1>1, <1>2, <1>3, <1>4, <1>6, <1>7 DEF Due
<1>9. n = "critic" => Passed(AG!Marked(n, o))
  BY <1>1, OutcomeState, MarkedState DEF Passed
<1> QED BY <1>1, <1>2, <1>3, <1>8, <1>9, Edges

\* The same by hand, where a row may say more than its node has done.
LEMMA LeftNext ==
  ASSUME AG!GraphConstants, NEW n \in AG!Node, NEW s \in AG!State, Left(n, s),
         AG!NextNode(n, s) \in AG!Node \ AG!Uncallable,
         NEW o \in AG!Outcomes(AG!NextNode(n, s), AG!Marked(n, s))
  PROVE  o \in AG!State /\ Left(AG!NextNode(n, s), o)
<1> DEFINE m == AG!NextNode(n, s)
           from == AG!Marked(n, s)
<1>1. m \in AG!Node /\ m # "generator" /\ from \in AG!State /\ from.iteration = s.iteration
  BY MarkedState DEF AG!Uncallable
<1>2. /\ m \in Counts => n \notin Counts
      /\ n \in Counts => s.iteration < MaxIterations
  <2>1. n \in Counts /\ AG!Exhausted(s) => m \in {"generator", "end"}
    BY Edges
  <2>2. "end" \notin AG!Node
    BY DEF AG!Node
  <2>3. s.iteration \in Nat
    BY DEF AG!State
  <2>4. m \in Counts => n \notin Counts
    BY Edges DEF Counts
  <2> QED BY <1>1, <2>1, <2>2, <2>3, <2>4 DEF AG!Exhausted, AG!GraphConstants
<1>3. /\ o \in AG!State /\ s.iteration \in Nat /\ o.iteration \in Nat
      /\ m \notin Counts => o.iteration = s.iteration
      /\ m \in Counts => o.iteration <= s.iteration + 1
      /\ m = "critic" => Passed(o)
  <2>1. o \in AG!Outcomes(m, from)
    OBVIOUS
  <2> HIDE DEF m, from
  <2> QED BY <1>1, <2>1, OutcomeState DEF Counts, Passed
<1> HIDE DEF m, from
<1> QED BY <1>2, <1>3 DEF Left, AG!GraphConstants, m

LEMMA LeftEnd ==
  ASSUME AG!GraphConstants, NEW n \in AG!Node, NEW s \in AG!State, Left(n, s), AG!NextNode(n, s) = "end"
  PROVE  AG!Marked(n, s) \in AG!State /\ AG!Reviewed(AG!Marked(n, s))
BY Edges, MarkedState DEF Left, Passed, AG!Reviewed

LEMMA Saved ==
  ASSUME NEW s \in AG!State
  PROVE  /\ AG!Payload(s) \in AG!State
         /\ AG!Payload(s).iteration = s.iteration
         /\ AG!Payload(s).approved = s.approved
         /\ AG!Payload(s).answer = s.answer
         /\ AG!Payload(s).degraded = s.degraded
         /\ \A v \in AG!State : LET m == AG!Merged(v, s)
                               IN  /\ m \in AG!State
                                   /\ m.iteration = s.iteration
                                   /\ m.answer = s.answer
                                   /\ m.degraded = s.degraded
<1>1. ASSUME NEW v \in AG!State
      PROVE  LET m == AG!Merged(v, s)
             IN  /\ m \in AG!State
                 /\ m.iteration = s.iteration
                 /\ m.answer = s.answer
                 /\ m.degraded = s.degraded
  BY DEF AG!Merged, AG!State
<1> QED BY <1>1 DEF AG!Payload, AG!State

LEMMA SavedLeft ==
  ASSUME AG!GraphConstants, NEW n \in AG!Node, NEW s \in AG!State, Left(n, s)
  PROVE  Left(n, AG!Payload(s))
BY Saved DEF Left, Passed

LEMMA FreshState ==
  ASSUME AG!GraphConstants
  PROVE  /\ AG!Fresh \in AG!State /\ AG!Fresh.iteration = 0
         /\ AG!Idle \in AG!Execution /\ AG!Idle.st = AG!Fresh
         /\ \A pc \in AG!Pc : LET x == [AG!Idle EXCEPT !.pc = pc]
                              IN  x \in AG!Execution /\ x.pc = pc /\ x.st = AG!Fresh
<1>1. AG!Fresh \in AG!State /\ AG!Fresh.iteration = 0
  BY DEF AG!Fresh, AG!State, AG!Intent, AG!Answer
<1> QED BY <1>1 DEF AG!Idle, AG!Execution, AG!Pc

LEMMA ExecutionBecomes ==
  ASSUME AG!TypeOK, NEW e \in Executions, NEW x \in AG!Execution, AG!Become(e, x)
  PROVE  /\ exec' \in [Executions -> AG!Execution] /\ exec'[e] = x
         /\ \A d \in Executions \ {e} : exec'[d] = exec[d]
BY DEF AG!Become, AG!TypeOK

\* An execution moves on, on the native saver and by hand.
LEMMA NativeBecomes ==
  ASSUME AG!GraphConstants, GraphInv, native, NEW e \in Executions, NEW x \in AG!Execution, AG!Become(e, x),
         e = Original \/ exec[Original].pc # "idle",
         x.pc # "idle", ByThread(x), e \notin disturbed' => WithThread(x),
         disturbed \subseteq disturbed', disturbed' \subseteq Executions,
         \/ Drives(exec[e]) \/ ~Drives(x)
         \/ \A d \in Executions \ {e} : Drives(exec[d]) => {d, e} \subseteq disturbed',
         UNCHANGED <<native, thread, row, ahead>>
  PROVE  GraphInv'
<1>1. AG!TypeOK /\ NativeOK /\ Original \in Executions
  BY DEF GraphInv, AG!GraphConstants
<1>2. /\ exec' \in [Executions -> AG!Execution] /\ exec'[e] = x
      /\ \A d \in Executions \ {e} : exec'[d] = exec[d]
  BY <1>1, ExecutionBecomes
<1>3. AG!TypeOK'
  BY <1>1, <1>2 DEF AG!TypeOK
<1>4. \A d \in Executions : exec'[d].pc # "idle" => exec'[Original].pc # "idle"
  BY <1>1, <1>2 DEF GraphInv
<1>5. \A d \in Executions : ByThread(exec[d])'
  <2>1. ByThread(x)'
    BY DEF ByThread
  <2>2. \A d \in Executions : ByThread(exec[d])
    BY <1>1 DEF NativeOK
  <2> QED BY <1>2, <2>1, <2>2 DEF ByThread
<1>6. \A d \in Executions : d \notin disturbed' => WithThread(exec[d])'
  <2>1. \A d \in Executions : d \notin disturbed => WithThread(exec[d])
    BY <1>1 DEF NativeOK
  <2> QED BY <1>2, <2>1 DEF WithThread
<1>7. \A c, d \in Executions :
        c # d /\ Drives(exec'[c]) /\ Drives(exec'[d]) => c \in disturbed'
  <2>1. \A c, d \in Executions : c # d /\ Drives(exec[c]) /\ Drives(exec[d]) => c \in disturbed
    BY <1>1 DEF NativeOK
  <2> QED BY <1>2, <2>1
<1>8. NativeOK'
  <2>1. \A c, d \in Executions :
          c # d /\ Drives(exec[c])' /\ Drives(exec[d])' => c \in disturbed'
    BY <1>7 DEF Drives
  <2> QED BY <1>1, <1>5, <1>6, <2>1 DEF NativeOK
<1> QED BY <1>3, <1>4, <1>8 DEF GraphInv

LEMMA ManualBecomes ==
  ASSUME AG!GraphConstants, GraphInv, ~native, NEW e \in Executions, NEW x \in AG!Execution, AG!Become(e, x),
         e = Original \/ exec[Original].pc # "idle",
         x.pc # "idle", ByHand(e, x),
         row' = row \/ (row' \in [node : AG!Node, st : AG!State] /\ Left(row.node, row.st)'),
         e = Original /\ x.pc = "consume" => AheadOK',
         ahead' \in [at : AG!Node \union {"none", "end"}, dicts : Seq(AG!State),
                     queue : Seq([node : AG!Node, ref : Nat]), latest : Nat],
         e # Original => UNCHANGED ahead,
         UNCHANGED <<native, thread, disturbed>>
  PROVE  GraphInv'
<1>1. AG!TypeOK /\ ManualOK /\ Original \in Executions
  BY DEF GraphInv, AG!GraphConstants
<1>2. /\ exec' \in [Executions -> AG!Execution] /\ exec'[e] = x
      /\ \A d \in Executions \ {e} : exec'[d] = exec[d]
  BY <1>1, ExecutionBecomes
<1>3. AG!TypeOK'
  BY <1>1, <1>2 DEF AG!TypeOK
<1>4. \A d \in Executions : exec'[d].pc # "idle" => exec'[Original].pc # "idle"
  BY <1>1, <1>2 DEF GraphInv
<1>5. \A d \in Executions : ByHand(d, exec[d])'
  <2>1. \A d \in Executions : ByHand(d, exec[d])
    BY <1>1 DEF ManualOK
  <2> QED BY <1>2, <2>1 DEF ByHand
<1>6. (row.node # "none" => Left(row.node, row.st))'
  <2>1. CASE row' = row
    BY <1>1, <2>1 DEF ManualOK, Left, Passed
  <2> QED BY <2>1
<1>7. exec'[Original].pc = "consume" => AheadOK'
  <2>1. CASE e # Original
    BY <1>1, <1>2, <2>1 DEF ManualOK, AheadOK, UpdateOK
  <2> QED BY <1>2, <2>1
<1>8. ManualOK'
  BY <1>1, <1>5, <1>6, <1>7 DEF ManualOK
<1> QED BY <1>3, <1>4, <1>8 DEF GraphInv

----------------------------------------------------------------------------
\* The steps of the native saver.

LEMMA BeginKeeps ==
  ASSUME AG!GraphConstants, GraphInv, AG!Begin
  PROVE  GraphInv'
<1>1. Original \in Executions /\ AG!TypeOK
  BY DEF AG!GraphConstants, GraphInv
<1>2. "intent_router" \in AG!Node /\ "intent_router" \notin {"generator", "critic", "end"}
  BY DEF AG!Node
<1>3. CASE native
  <2> DEFINE x == [AG!Idle EXCEPT !.pc = "run", !.at = "intent_router"]
  <2>1. x \in AG!Execution /\ x.pc = "run" /\ x.at = "intent_router" /\ x.st = AG!Fresh
    BY <1>2, FreshState DEF AG!Idle, AG!Execution, AG!Pc
  <2>2. AG!Become(Original, x) /\ UNCHANGED <<native, thread, row, ahead, disturbed>>
    BY <1>3 DEF AG!Begin
  <2> HIDE DEF x
  <2>3. Due("intent_router", AG!Fresh)
    BY FreshState DEF Due, AG!GraphConstants
  <2>4. ByThread(x) /\ WithThread(x)
    BY <1>2, <2>1, <2>3, FreshState DEF ByThread, WithThread, AG!GraphConstants
  <2>5. \A d \in Executions : ~Drives(exec[d])
    BY DEF AG!Begin, GraphInv, Drives
  <2>6. disturbed \subseteq Executions
    BY <1>1 DEF AG!TypeOK
  <2> QED BY <1>1, <1>3, <2>1, <2>2, <2>4, <2>5, <2>6, NativeBecomes
<1>4. CASE ~native
  <2> DEFINE x == [exec[Original] EXCEPT !.pc = "consume"]
  <2>1. x \in AG!Execution /\ x.pc = "consume" /\ x.st = exec[Original].st
    BY <1>1 DEF AG!TypeOK, AG!Execution, AG!Pc
  <2>2. /\ AG!Become(Original, x) /\ UNCHANGED <<native, thread, row, disturbed>>
        /\ ahead' = [AG!NoTask EXCEPT !.at = "intent_router", !.dicts = <<AG!Fresh>>]
    BY <1>4 DEF AG!Begin, AG!Goto
  <2> HIDE DEF x
  <2>3. /\ ahead'.at = "intent_router" /\ ahead'.dicts = <<AG!Fresh>> /\ ahead'.queue = <<>>
        /\ ahead'.latest = 0
        /\ ahead' \in [at : AG!Node \union {"none", "end"}, dicts : Seq(AG!State),
                       queue : Seq([node : AG!Node, ref : Nat]), latest : Nat]
    <3>1. <<AG!Fresh>> \in Seq(AG!State) /\ <<>> \in Seq([node : AG!Node, ref : Nat])
      BY FreshState
    <3>2. ahead' = [at |-> "intent_router", dicts |-> <<AG!Fresh>>, queue |-> <<>>, latest |-> 0]
      BY <2>2 DEF AG!NoTask
    <3> QED BY <1>2, <3>1, <3>2
  <2>4. AheadOK'
    BY <2>3, FreshState DEF AheadOK, Due, AG!GraphConstants
  <2>5. ByHand(Original, x)
    BY <1>1, <1>4, <2>1 DEF ByHand, GraphInv, ManualOK
  <2> QED BY <1>1, <1>4, <2>1, <2>2, <2>3, <2>4, <2>5, ManualBecomes
<1> QED BY <1>3, <1>4

\* Whoever runs has begun, and the original has begun before.
LEMMA NativeRuns ==
  ASSUME AG!GraphConstants, GraphInv, NEW e \in Executions, exec[e].pc \in {"load", "run", "save"}
  PROVE  /\ native /\ NativeOK /\ AG!TypeOK
         /\ exec[e] \in AG!Execution
         /\ exec[Original].pc # "idle"
         /\ ByThread(exec[e])
         /\ e \notin disturbed => WithThread(exec[e])
         /\ disturbed \subseteq Executions
<1>1. native
  BY DEF GraphInv, ManualOK, ByHand
<1> QED BY <1>1 DEF GraphInv, NativeOK, AG!TypeOK

LEMMA LoadKeeps ==
  ASSUME AG!GraphConstants, GraphInv, NEW e \in Executions, AG!Load(e)
  PROVE  GraphInv'
<1>1. exec[e].pc = "load" /\ UNCHANGED <<native, thread, row, ahead, disturbed>>
  BY DEF AG!Load
<1>2. /\ native /\ NativeOK /\ AG!TypeOK /\ exec[e] \in AG!Execution /\ exec[Original].pc # "idle"
      /\ ByThread(exec[e]) /\ (e \notin disturbed => WithThread(exec[e]))
      /\ disturbed \subseteq Executions /\ Drives(exec[e])
  BY <1>1, NativeRuns DEF Drives
<1>3. thread.next # "none" /\ Due(thread.next, thread.st)
  BY <1>1, <1>2 DEF ByThread, NativeOK
<1>4. CASE thread.next = "end"
  <2> DEFINE x == [exec[e] EXCEPT !.pc = "done"]
  <2>1. x \in AG!Execution /\ x.pc = "done" /\ x.st = exec[e].st
    BY <1>2 DEF AG!Execution, AG!Pc
  <2>2. AG!Become(e, x)
    BY <1>4 DEF AG!Load, AG!Goto
  <2> HIDE DEF x
  <2>3. ByThread(x)
    BY <1>2, <2>1 DEF ByThread
  <2>4. e \notin disturbed => WithThread(x)
    BY <1>1, <1>2, <1>4, <2>1 DEF WithThread
  <2> QED BY <1>1, <1>2, <2>1, <2>2, <2>3, <2>4, NativeBecomes
<1>5. CASE thread.next # "end"
  <2> DEFINE x == [pc |-> "run", at |-> thread.next, st |-> thread.st]
  <2>1. thread.next \in AG!Node /\ thread.st \in AG!State
    BY <1>2, <1>3, <1>5 DEF AG!TypeOK
  <2>2. x \in AG!Execution /\ x.pc = "run" /\ x.at = thread.next /\ x.st = thread.st
    BY <2>1 DEF AG!Execution, AG!Pc
  <2>3. AG!Become(e, x)
    BY <1>5 DEF AG!Load
  <2> HIDE DEF x
  <2>4. thread.st.iteration <= MaxIterations + 1
    <3>1. thread.st.iteration \in Nat /\ MaxIterations \in Nat
      BY <2>1 DEF AG!State, AG!GraphConstants
    <3> QED BY <1>3, <1>5, <3>1 DEF Due
  <2>5. ByThread(x) /\ WithThread(x)
    BY <1>3, <2>1, <2>2, <2>4 DEF ByThread, WithThread
  <2> QED BY <1>1, <1>2, <2>2, <2>3, <2>5, NativeBecomes
<1> QED BY <1>4, <1>5

LEMMA RunKeeps ==
  ASSUME AG!GraphConstants, GraphInv, NEW e \in Executions, AG!Run(e)
  PROVE  GraphInv'
<1>1. exec[e].pc = "run" /\ UNCHANGED <<native, row, ahead, disturbed>>
  BY DEF AG!Run
<1>2. /\ native /\ NativeOK /\ AG!TypeOK /\ exec[e] \in AG!Execution /\ exec[Original].pc # "idle"
      /\ ByThread(exec[e])
  BY <1>1, NativeRuns
<1>3. /\ exec[e].at \in AG!Node /\ exec[e].st \in AG!State /\ Due(exec[e].at, exec[e].st)
      /\ Original \in Executions
  BY <1>1, <1>2 DEF ByThread, AG!Execution, AG!GraphConstants
<1>4. PICK s \in AG!Outcomes(exec[e].at, exec[e].st) :
         /\ thread' = [next |-> AG!NextNode(exec[e].at, s), st |-> AG!Marked(exec[e].at, s)]
         /\ AG!Become(e, [exec[e] EXCEPT !.pc = "save", !.st = AG!Marked(exec[e].at, s)])
  BY DEF AG!Run
<1> DEFINE left == AG!Marked(exec[e].at, s)
           next == AG!NextNode(exec[e].at, s)
           x == [exec[e] EXCEPT !.pc = "save", !.st = left]
<1>5. /\ next \in AG!Node \union {"end"} /\ left \in AG!State /\ Due(next, left)
      /\ left.iteration <= MaxIterations + 1
  BY <1>3, DueNext
<1>6. thread' = [next |-> next, st |-> left] /\ AG!Become(e, x)
  BY <1>4
<1> HIDE DEF left, next
<1>7. x \in AG!Execution /\ x.pc = "save" /\ x.at = exec[e].at /\ x.st = left
  BY <1>2, <1>5 DEF AG!Execution, AG!Pc
<1> HIDE DEF x
<1>8. /\ thread'.next = next /\ thread'.st = left /\ next # "none"
      /\ thread' \in [next : AG!Node \union {"none", "end"}, st : AG!State]
  BY <1>5, <1>6 DEF AG!Node
<1>9. /\ exec' \in [Executions -> AG!Execution] /\ exec'[e] = x
      /\ \A d \in Executions \ {e} : exec'[d] = exec[d]
  BY <1>2, <1>6, <1>7, ExecutionBecomes
<1>10. AG!TypeOK'
  BY <1>1, <1>2, <1>8, <1>9 DEF AG!TypeOK
<1>11. \A d \in Executions : exec'[d].pc # "idle" => exec'[Original].pc # "idle"
  BY <1>2, <1>3, <1>7, <1>9
<1>12. \A d \in Executions : ByThread(exec[d])'
  <2>1. ByThread(exec[e])'
    BY <1>3, <1>5, <1>7, <1>8, <1>9 DEF ByThread
  <2>2. \A d \in Executions : ByThread(exec[d])
    BY <1>2 DEF NativeOK
  <2> QED BY <1>8, <1>9, <2>1, <2>2 DEF ByThread
<1>13. /\ \A d \in Executions : d \notin disturbed => WithThread(exec[d])
       /\ \A c, d \in Executions : c # d /\ Drives(exec[c]) /\ Drives(exec[d]) => c \in disturbed
  BY <1>2 DEF NativeOK
<1>14. \A d \in Executions : d \notin disturbed => WithThread(exec[d])'
  <2> SUFFICES ASSUME NEW d \in Executions, d \notin disturbed
               PROVE  WithThread(exec[d])'
    OBVIOUS
  <2>1. CASE d = e
    BY <1>7, <1>8, <1>9, <2>1 DEF WithThread
  <2>2. CASE d # e
    <3>1. ~Drives(exec[d]) /\ exec'[d] = exec[d] /\ WithThread(exec[d])
      BY <1>1, <1>9, <1>13, <2>2 DEF Drives
    <3> QED BY <3>1 DEF Drives, WithThread
  <2> QED BY <2>1, <2>2
<1>15. \A c, d \in Executions :
         c # d /\ Drives(exec[c])' /\ Drives(exec[d])' => c \in disturbed'
  BY <1>1, <1>7, <1>9, <1>13 DEF Drives
<1>16. NativeOK'
  BY <1>1, <1>2, <1>5, <1>8, <1>12, <1>14, <1>15 DEF NativeOK
<1> QED BY <1>1, <1>2, <1>10, <1>11, <1>16 DEF GraphInv

LEMMA SaveKeeps ==
  ASSUME AG!GraphConstants, GraphInv, NEW e \in Executions, AG!Save(e)
  PROVE  GraphInv'
<1> DEFINE x == [exec[e] EXCEPT !.pc = "load"]
<1>1. /\ exec[e].pc = "save" /\ UNCHANGED <<native, thread, ahead, disturbed>>
      /\ row' = [node |-> exec[e].at, st |-> AG!Payload(exec[e].st)]
      /\ AG!Become(e, x)
  BY DEF AG!Save, AG!SaveRow, AG!Goto
<1>2. /\ native /\ NativeOK /\ AG!TypeOK /\ exec[e] \in AG!Execution /\ exec[Original].pc # "idle"
      /\ ByThread(exec[e]) /\ (e \notin disturbed => WithThread(exec[e]))
      /\ Original \in Executions
  BY <1>1, NativeRuns DEF AG!GraphConstants
<1>3. x \in AG!Execution /\ x.pc = "load" /\ x.st = exec[e].st
  BY <1>2 DEF AG!Execution, AG!Pc
<1> HIDE DEF x
<1>4. /\ exec[e].at \in AG!Node /\ exec[e].st \in AG!State /\ thread.next # "none"
      /\ exec[e].st.iteration <= MaxIterations + 1
  BY <1>1, <1>2 DEF ByThread, AG!Execution
<1>5. /\ row' \in [node : AG!Node \union {"none"}, st : AG!State]
      /\ row'.st.iteration <= MaxIterations + 1
  BY <1>1, <1>4, Saved
<1>6. /\ exec' \in [Executions -> AG!Execution] /\ exec'[e] = x
      /\ \A d \in Executions \ {e} : exec'[d] = exec[d]
  BY <1>1, <1>2, <1>3, ExecutionBecomes
<1>7. AG!TypeOK'
  BY <1>1, <1>2, <1>5, <1>6 DEF AG!TypeOK
<1>8. \A d \in Executions : exec'[d].pc # "idle" => exec'[Original].pc # "idle"
  BY <1>2, <1>3, <1>6
<1>9. \A d \in Executions : ByThread(exec[d])'
  <2>1. ByThread(exec[e])'
    BY <1>1, <1>3, <1>4, <1>6 DEF ByThread
  <2>2. \A d \in Executions : ByThread(exec[d])
    BY <1>2 DEF NativeOK
  <2> QED BY <1>1, <1>6, <2>1, <2>2 DEF ByThread
<1>10. /\ \A d \in Executions : d \notin disturbed => WithThread(exec[d])
       /\ \A c, d \in Executions : c # d /\ Drives(exec[c]) /\ Drives(exec[d]) => c \in disturbed
  BY <1>2 DEF NativeOK
<1>11. \A d \in Executions : d \notin disturbed => WithThread(exec[d])'
  <2>1. e \notin disturbed => WithThread(exec[e])'
    <3>1. thread.next = "end" => AG!Reviewed(thread.st)
      BY <1>2, <1>4 DEF NativeOK, Due
    <3>2. e \notin disturbed => exec[e].st = thread.st
      BY <1>1, <1>2 DEF WithThread
    <3>3. exec'[e].pc = "load" /\ exec'[e].st = exec[e].st /\ thread' = thread
      BY <1>1, <1>3, <1>6
    <3> QED BY <3>1, <3>2, <3>3 DEF WithThread
  <2>2. \A d \in Executions \ {e} : d \notin disturbed => WithThread(exec[d])'
    BY <1>1, <1>6, <1>10 DEF WithThread
  <2> QED BY <1>1, <2>1, <2>2
<1>12. \A c, d \in Executions :
         c # d /\ Drives(exec[c])' /\ Drives(exec[d])' => c \in disturbed'
  BY <1>1, <1>3, <1>6, <1>10 DEF Drives
<1>13. NativeOK'
  BY <1>1, <1>2, <1>4, <1>5, <1>9, <1>11, <1>12 DEF NativeOK
<1> QED BY <1>1, <1>2, <1>7, <1>8, <1>13 DEF GraphInv

----------------------------------------------------------------------------
\* The steps of the original without the saver.

AheadType == [at : AG!Node \union {"none", "end"}, dicts : Seq(AG!State),
              queue : Seq([node : AG!Node, ref : Nat]), latest : Nat]

LEMMA Replace ==
  ASSUME NEW S, NEW q \in Seq(S), NEW k \in 1 .. Len(q) + 1, NEW x \in S
  PROVE  LET r == SubSeq(q, 1, k - 1) \o <<x>>
         IN  /\ r \in Seq(S) /\ Len(r) = k /\ r[k] = x
             /\ \A i \in 1 .. k - 1 : r[i] = q[i]
<1> DEFINE p == SubSeq(q, 1, k - 1)
<1>1. /\ p \in Seq(S) /\ Len(p) = k - 1
      /\ \A i \in 1 .. k - 1 : p[i] = q[i]
  OBVIOUS
<1> HIDE DEF p
<1>2. /\ p \o <<x>> \in Seq(S) /\ Len(p \o <<x>>) = k /\ (p \o <<x>>)[k] = x
      /\ \A i \in 1 .. k - 1 : (p \o <<x>>)[i] = p[i]
  BY <1>1
<1> QED BY <1>1, <1>2 DEF p

\* While the original reads, its task is as AheadOK says.
LEMMA Reading ==
  ASSUME AG!GraphConstants, GraphInv, exec[Original].pc = "consume"
  PROVE  /\ ~native /\ ManualOK /\ AG!TypeOK /\ AheadOK
         /\ ahead \in AheadType /\ ahead.dicts \in Seq(AG!State) /\ Len(ahead.dicts) \in Nat \ {0}
         /\ ahead.queue \in Seq([node : AG!Node, ref : Nat]) /\ ahead.latest \in Nat
         /\ Original \in Executions /\ exec[Original] \in AG!Execution
<1>1. Original \in Executions
  BY DEF AG!GraphConstants
<1>2. ~native
  BY <1>1 DEF GraphInv, NativeOK, ByThread
<1>3. ManualOK /\ AG!TypeOK /\ AheadOK
  BY <1>2 DEF GraphInv, ManualOK
<1>4. ahead \in AheadType
  BY <1>3 DEF AG!TypeOK, AheadType
<1>5. ahead.dicts \in Seq(AG!State) /\ ahead.queue \in Seq([node : AG!Node, ref : Nat])
      /\ ahead.latest \in Nat
  BY <1>4 DEF AheadType
<1>6. Len(ahead.dicts) \in Nat /\ Len(ahead.dicts) # 0
  BY <1>3, <1>5 DEF AheadOK
<1> QED BY <1>1, <1>2, <1>3, <1>4, <1>5, <1>6 DEF AG!TypeOK

LEMMA RunAheadKeeps ==
  ASSUME AG!GraphConstants, GraphInv, AG!RunAhead
  PROVE  GraphInv'
<1> DEFINE last == Len(ahead.dicts)
           at   == ahead.at
           ref  == IF at \in AG!Copying THEN last + 1 ELSE last
<1>1. exec[Original].pc = "consume" /\ at \in AG!Node /\ UNCHANGED <<native, thread, row, exec, disturbed>>
  BY DEF AG!RunAhead
<1>2. PICK s \in AG!Outcomes(at, ahead.dicts[last]) :
        ahead' = [at     |-> AG!NextNode(at, s),
                  dicts  |-> SubSeq(ahead.dicts, 1, ref - 1) \o <<AG!Marked(at, s)>>,
                  queue  |-> Append(ahead.queue, [node |-> at, ref |-> ref]),
                  latest |-> ahead.latest]
  BY DEF AG!RunAhead
<1>3. /\ ~native /\ ManualOK /\ AG!TypeOK /\ AheadOK /\ Original \in Executions
      /\ ahead.dicts \in Seq(AG!State) /\ last \in Nat \ {0}
      /\ ahead.queue \in Seq([node : AG!Node, ref : Nat]) /\ ahead.latest \in Nat
  BY <1>1, Reading
<1> DEFINE left == AG!Marked(at, s)
           next == AG!NextNode(at, s)
           dicts == SubSeq(ahead.dicts, 1, ref - 1) \o <<left>>
           new == [node |-> at, ref |-> ref]
<1>4. /\ next \in AG!Node \union {"end"} /\ left \in AG!State /\ Due(next, left)
      /\ left.iteration <= MaxIterations + 1
      /\ at = "critic" => Passed(left)
  <2>1. ahead.dicts[last] \in AG!State /\ Due(at, ahead.dicts[last])
    BY <1>3 DEF AheadOK
  <2> QED BY <1>1, <2>1, DueNext
<1>5. at = "critic" => next \in AG!Copying \union {"end"}
  <2>1. s \in AG!State
    BY <1>1, <1>3, OutcomeState
  <2> QED BY <1>1, <2>1, Edges
<1> HIDE DEF left, next
<1>6. ref \in 1 .. Len(ahead.dicts) + 1 /\ ref \in Nat /\ last <= ref
      /\ (at \notin AG!Copying => ref = last) /\ (at \in AG!Copying => ref = last + 1)
  BY <1>3
<1> HIDE DEF ref
<1>7. /\ dicts \in Seq(AG!State) /\ Len(dicts) = ref /\ dicts[ref] = left
      /\ \A i \in 1 .. ref - 1 : dicts[i] = ahead.dicts[i]
  BY <1>3, <1>4, <1>6, Replace
<1>8. /\ ahead'.at = next /\ ahead'.dicts = dicts /\ ahead'.latest = ahead.latest
      /\ ahead'.queue = Append(ahead.queue, new)
      /\ new \in [node : AG!Node, ref : Nat] /\ new.node = at /\ new.ref = ref
      /\ ahead' \in AheadType
  <2>1. ahead' = [at |-> next, dicts |-> dicts, queue |-> Append(ahead.queue, new),
                  latest |-> ahead.latest]
    BY <1>2 DEF left, next
  <2> HIDE DEF dicts
  <2>2. new \in [node : AG!Node, ref : Nat]
    BY <1>1, <1>6
  <2> HIDE DEF new
  <2>3. Append(ahead.queue, new) \in Seq([node : AG!Node, ref : Nat])
    BY <1>3, <2>2
  <2> QED BY <1>3, <1>4, <1>7, <2>1, <2>2, <2>3 DEF AheadType, new
<1> HIDE DEF dicts, new
<1>9. /\ Len(ahead'.queue) = Len(ahead.queue) + 1 /\ Len(ahead.queue) \in Nat
      /\ ahead'.queue[Len(ahead.queue) + 1] = new
      /\ \A i \in 1 .. Len(ahead.queue) : ahead'.queue[i] = ahead.queue[i]
  BY <1>3, <1>8
<1>10. \A i \in 1 .. Len(ahead.queue) : UpdateOK(ahead.queue[i])'
  <2> SUFFICES ASSUME NEW i \in 1 .. Len(ahead.queue) PROVE UpdateOK(ahead.queue[i])'
    OBVIOUS
  <2>1. UpdateOK(ahead.queue[i]) /\ ahead'.queue[i] = ahead.queue[i]
    BY <1>3, <1>9 DEF AheadOK
  <2>2. ahead.queue[i].ref \in 1 .. last
    BY <2>1 DEF UpdateOK
  <2>3. ahead.queue[i].node = "critic" => ahead.queue[i].ref < ref
    <3>1. CASE at \in AG!Copying
      BY <1>3, <1>6, <2>2, <3>1
    <3>2. CASE at \notin AG!Copying
      <4>1. at # "end"
        BY <1>1 DEF AG!Node
      <4> HIDE DEF at, last
      <4>2. ahead.queue[i].node = "critic" => ahead.queue[i].ref # last
        BY <2>1, <3>2, <4>1 DEF UpdateOK, at, last
      <4> QED BY <1>3, <1>6, <2>2, <3>2, <4>2
    <3> QED BY <3>1, <3>2
  <2>4. ahead.queue[i].node = "critic" => ahead'.dicts[ahead.queue[i].ref] = ahead.dicts[ahead.queue[i].ref]
    <3> SUFFICES ASSUME ahead.queue[i].node = "critic"
                 PROVE  dicts[ahead.queue[i].ref] = ahead.dicts[ahead.queue[i].ref]
      BY <1>8
    <3>1. ahead.queue[i].ref \in 1 .. ref - 1
      BY <1>6, <2>2, <2>3
    <3> QED BY <1>7, <3>1
  <2> QED BY <1>3, <1>6, <1>7, <1>8, <2>1, <2>2, <2>3, <2>4 DEF UpdateOK
<1>11. UpdateOK(ahead.queue[Len(ahead.queue)])'
  <2>1. ahead'.queue[Len(ahead'.queue)] = new
    BY <1>9
  <2> QED BY <1>3, <1>4, <1>5, <1>6, <1>7, <1>8, <2>1 DEF UpdateOK
<1>12. \A i \in 1 .. Len(ahead'.queue) : UpdateOK(ahead.queue[i])'
  <2> SUFFICES ASSUME NEW i \in 1 .. Len(ahead'.queue) PROVE UpdateOK(ahead.queue[i])'
    OBVIOUS
  <2>1. i \in 1 .. Len(ahead.queue) \/ i = Len(ahead'.queue)
    BY <1>9
  <2> QED BY <1>10, <1>11, <2>1
<1>13. \A i \in 1 .. Len(ahead'.dicts) : ahead'.dicts[i].iteration <= MaxIterations + 1
  <2> SUFFICES ASSUME NEW i \in 1 .. ref PROVE dicts[i].iteration <= MaxIterations + 1
    BY <1>7, <1>8
  <2>1. CASE i = ref
    BY <1>4, <1>7, <2>1
  <2>2. CASE i # ref
    BY <1>3, <1>6, <1>7, <2>2 DEF AheadOK
  <2> QED BY <2>1, <2>2
<1>14. AheadOK'
  <2>1. ahead'.queue # <<>>
    BY <1>9
  <2>2. ahead'.queue[Len(ahead'.queue)].ref = Len(ahead'.dicts)
    BY <1>7, <1>8, <1>9
  <2>3. Due(ahead.at, ahead.dicts[Len(ahead.dicts)])'
    BY <1>4, <1>7, <1>8 DEF Due, AG!Reviewed
  <2>4. ahead'.at # "none" /\ Len(ahead'.dicts) # 0
    BY <1>3, <1>4, <1>6, <1>7, <1>8 DEF AG!Node
  <2> QED BY <1>12, <1>13, <2>1, <2>2, <2>3, <2>4 DEF AheadOK
<1>15. AG!TypeOK'
  BY <1>1, <1>3, <1>8 DEF AG!TypeOK, AheadType
<1>16. ManualOK'
  <2>1. \A e \in Executions : ByHand(e, exec[e])'
    BY <1>1, <1>3 DEF ManualOK, ByHand
  <2> QED BY <1>1, <1>3, <1>14, <2>1 DEF ManualOK
<1> QED BY <1>1, <1>3, <1>15, <1>16 DEF GraphInv

LEMMA ConsumeKeeps ==
  ASSUME AG!GraphConstants, GraphInv, AG!Consume
  PROVE  GraphInv'
<1> DEFINE update == Head(ahead.queue)
           x == [exec[Original] EXCEPT !.at = update.node]
<1>1. /\ exec[Original].pc = "consume" /\ ahead.queue # <<>>
      /\ UNCHANGED <<native, thread, disturbed>>
      /\ row' = [node |-> update.node, st |-> AG!Payload(ahead.dicts[update.ref])]
      /\ AG!Become(Original, x)
      /\ ahead' = [ahead EXCEPT !.queue = Tail(ahead.queue), !.latest = update.ref]
  BY DEF AG!Consume, AG!SaveRow
<1>2. /\ ~native /\ ManualOK /\ AheadOK /\ Original \in Executions /\ exec[Original] \in AG!Execution
      /\ ahead \in AheadType /\ ahead.dicts \in Seq(AG!State) /\ Len(ahead.dicts) \in Nat \ {0}
      /\ ahead.queue \in Seq([node : AG!Node, ref : Nat]) /\ ahead.latest \in Nat
  BY <1>1, Reading
<1>3. /\ Len(ahead.queue) \in Nat \ {0} /\ update = ahead.queue[1]
      /\ update.node \in AG!Node /\ update.ref \in Nat
  <2>1. ahead.queue # <<>> /\ Len(ahead.queue) \in Nat
    BY <1>1, <1>2
  <2>2. Len(ahead.queue) # 0
    BY <1>2, <2>1
  <2>3. update = ahead.queue[1]
    BY <1>2, <2>1
  <2>4. 1 \in 1 .. Len(ahead.queue)
    BY <2>1, <2>2
  <2> DEFINE S == [node : AG!Node, ref : Nat]
  <2>5. update \in S
    <3>1. ahead.queue \in Seq(S)
      BY <1>2
    <3> HIDE DEF S, update
    <3> QED BY <2>3, <2>4, <3>1
  <2> QED BY <2>1, <2>2, <2>3, <2>5
<1>4. UpdateOK(update)
  BY <1>2, <1>3 DEF AheadOK
<1>5. x \in AG!Execution /\ x.pc = "consume" /\ x.st = exec[Original].st
  BY <1>1, <1>2, <1>3 DEF AG!Execution
<1>6. /\ Tail(ahead.queue) \in Seq([node : AG!Node, ref : Nat])
      /\ Len(Tail(ahead.queue)) = Len(ahead.queue) - 1
      /\ \A i \in 1 .. Len(ahead.queue) - 1 : Tail(ahead.queue)[i] = ahead.queue[i + 1]
  BY <1>1, <1>2
<1> HIDE DEF update, x
<1>7. /\ ahead' \in AheadType /\ ahead'.queue = Tail(ahead.queue) /\ ahead'.latest = update.ref
      /\ ahead'.at = ahead.at /\ ahead'.dicts = ahead.dicts
  BY <1>1, <1>2, <1>3, <1>6 DEF AheadType
<1>8. ahead.dicts[update.ref] \in AG!State /\ update.ref \in 1 .. Len(ahead.dicts)
  BY <1>2, <1>4 DEF UpdateOK
<1>9. row' \in [node : AG!Node, st : AG!State] /\ Left(row.node, row.st)'
  <2>1. Left(update.node, ahead.dicts[update.ref])
    <3>1. /\ ahead.dicts[update.ref].iteration \in Nat /\ MaxIterations \in Nat
          /\ ahead.dicts[update.ref].iteration <= MaxIterations + 1
      BY <1>2, <1>8 DEF AheadOK, AG!State, AG!GraphConstants
    <3> QED BY <1>4, <3>1 DEF Left, UpdateOK
  <2>2. Left(update.node, AG!Payload(ahead.dicts[update.ref]))
    BY <1>3, <1>8, <2>1, SavedLeft
  <2>3. row'.node = update.node /\ row'.st = AG!Payload(ahead.dicts[update.ref])
    BY <1>1
  <2> QED BY <1>1, <1>3, <1>8, <2>2, <2>3, Saved DEF Left, Passed
<1>10. \A i \in 1 .. Len(ahead'.queue) : UpdateOK(ahead.queue[i])'
  <2> SUFFICES ASSUME NEW i \in 1 .. Len(ahead.queue) - 1 PROVE UpdateOK(ahead.queue[i])'
    BY <1>6, <1>7
  <2>1. i + 1 \in 1 .. Len(ahead.queue) /\ ahead'.queue[i] = ahead.queue[i + 1]
    BY <1>3, <1>6, <1>7
  <2>2. UpdateOK(ahead.queue[i + 1])
    BY <1>2, <2>1 DEF AheadOK
  <2> QED BY <1>7, <2>1, <2>2 DEF UpdateOK
<1>11. AheadOK'
  <2>1. ahead'.queue # <<>> => ahead'.queue[Len(ahead'.queue)].ref = Len(ahead'.dicts)
    BY <1>1, <1>2, <1>3, <1>6, <1>7 DEF AheadOK
  <2>2. ahead'.queue = <<>> => ahead'.latest = Len(ahead'.dicts)
    <3> SUFFICES ASSUME ahead'.queue = <<>> PROVE update.ref = Len(ahead.dicts)
      BY <1>7
    <3>1. Len(ahead.queue) = 1
      <4>1. Len(ahead'.queue) = 0
        OBVIOUS
      <4>2. Len(ahead'.queue) = Len(ahead.queue) - 1
        BY <1>6, <1>7
      <4> QED BY <1>3, <4>1, <4>2
    <3> QED BY <1>1, <1>2, <1>3, <3>1 DEF AheadOK
  <2> QED BY <1>2, <1>7, <1>10, <2>1, <2>2 DEF AheadOK, Due
<1>12. ByHand(Original, x)
  BY <1>2, <1>5 DEF ByHand, ManualOK
<1> QED BY <1>1, <1>2, <1>5, <1>7, <1>9, <1>11, <1>12, ManualBecomes DEF AheadType

LEMMA NoTaskType == AG!NoTask \in AheadType
BY DEF AG!NoTask, AheadType

LEMMA DeliverKeeps ==
  ASSUME AG!GraphConstants, GraphInv, AG!Deliver
  PROVE  GraphInv'
<1> DEFINE x == [exec[Original] EXCEPT !.pc = "done", !.st = ahead.dicts[ahead.latest]]
<1>1. /\ exec[Original].pc = "consume" /\ ahead.at = "end" /\ ahead.queue = <<>>
      /\ AG!Become(Original, x) /\ ahead' = AG!NoTask /\ UNCHANGED <<native, thread, row, disturbed>>
  BY DEF AG!Deliver
<1>2. /\ ~native /\ ManualOK /\ AheadOK /\ Original \in Executions /\ exec[Original] \in AG!Execution
      /\ ahead.dicts \in Seq(AG!State) /\ Len(ahead.dicts) \in Nat \ {0}
  BY <1>1, Reading
<1> DEFINE s == ahead.dicts[ahead.latest]
<1>3. s \in AG!State /\ Due("end", s)
  BY <1>1, <1>2 DEF AheadOK
<1> HIDE DEF s
<1>4. x \in AG!Execution /\ x.pc = "done" /\ x.st = s
  BY <1>2, <1>3 DEF AG!Execution, AG!Pc, s
<1> HIDE DEF x
<1>5. s.iteration <= MaxIterations + 2
  <2>1. s.iteration \in Nat /\ MaxIterations \in Nat
    BY <1>3 DEF AG!State, AG!GraphConstants
  <2> QED BY <1>3, <2>1 DEF Due
<1>6. ByHand(Original, x)
  BY <1>3, <1>4, <1>5 DEF ByHand, Due
<1> QED BY <1>1, <1>2, <1>4, <1>6, NoTaskType, ManualBecomes DEF AheadType

----------------------------------------------------------------------------
\* Resumptions, and executions that end without an answer.

LEMMA AheadTyped == AG!TypeOK => ahead \in AheadType
BY DEF AG!TypeOK, AheadType

LEMMA LeaveKeeps ==
  ASSUME AG!GraphConstants, GraphInv, NEW e \in Executions,
         NEW pc \in {"missing", "failed", "stopped"}, AG!Leave(e, pc),
         e = Original \/ exec[Original].pc # "idle",
         UNCHANGED <<native, thread, row, disturbed>>,
         ahead' = IF e = Original THEN AG!NoTask ELSE ahead
  PROVE  GraphInv'
<1> DEFINE x == [AG!Idle EXCEPT !.pc = pc]
<1>1. x \in AG!Execution /\ x.pc = pc /\ x.st = AG!Fresh /\ AG!Fresh.iteration = 0 /\ AG!Become(e, x)
  BY FreshState DEF AG!Leave, AG!Pc
<1> HIDE DEF x
<1>2. CASE native
  <2>1. ahead' = ahead
    BY <1>2 DEF GraphInv, NativeOK
  <2>2. ByThread(x) /\ WithThread(x) /\ ~Drives(x)
    BY <1>1 DEF ByThread, WithThread, Drives, AG!GraphConstants
  <2>3. disturbed \subseteq Executions
    BY DEF GraphInv, AG!TypeOK
  <2> QED BY <1>1, <1>2, <2>1, <2>2, <2>3, NativeBecomes
<1>3. CASE ~native
  <2>1. ByHand(e, x)
    BY <1>1 DEF ByHand, AG!GraphConstants
  <2>2. ahead' \in AheadType
    BY NoTaskType, AheadTyped DEF GraphInv
  <2> QED BY <1>1, <1>3, <2>1, <2>2, ManualBecomes DEF AheadType
<1> QED BY <1>2, <1>3

LEMMA ResumeKeeps ==
  ASSUME AG!GraphConstants, GraphInv, NEW e \in Executions, AG!Resume(e)
  PROVE  GraphInv'
<1>1. /\ e # Original /\ exec[Original].pc # "idle" /\ UNCHANGED <<native, thread, row, ahead>>
      /\ AG!TypeOK
  BY DEF AG!Resume, GraphInv
<1>2. CASE row.node = "none"
  BY <1>1, <1>2, LeaveKeeps DEF AG!Resume
<1>3. CASE row.node # "none" /\ native
  <2> DEFINE x == [pc |-> "load", at |-> row.node, st |-> AG!Merged(thread.st, row.st)]
  <2>1. AG!Become(e, x)
    BY <1>3 DEF AG!Resume
  <2>2. row.node \in AG!Node /\ row.st \in AG!State /\ thread.st \in AG!State
    BY <1>1, <1>3 DEF AG!TypeOK
  <2>3. AG!Merged(thread.st, row.st) \in AG!State /\ AG!Merged(thread.st, row.st).iteration = row.st.iteration
    BY <2>2, Saved
  <2>4. /\ x \in AG!Execution /\ x.pc = "load" /\ x.st.iteration = row.st.iteration
        /\ x.st = AG!Merged(thread.st, row.st)
    BY <2>2, <2>3 DEF AG!Execution, AG!Pc
  <2> HIDE DEF x
  <2>5. ByThread(x)
    BY <1>3, <2>4 DEF ByThread, GraphInv, NativeOK
  <2>6. /\ disturbed' = disturbed
                \union (IF AG!Driving # {} THEN AG!Driving \union {e} ELSE {})
                \union (IF AG!RowIsBehind THEN {e} ELSE {})
        /\ disturbed \subseteq Executions
    BY <1>1, <1>3 DEF AG!Resume, AG!TypeOK
  <2>7. disturbed \subseteq disturbed' /\ disturbed' \subseteq Executions
    BY <2>6 DEF AG!Driving
  <2>8. \A d \in Executions \ {e} : Drives(exec[d]) => {d, e} \subseteq disturbed'
    BY <2>6 DEF Drives, AG!Driving
  <2>9. e \notin disturbed' => WithThread(x)
    <3> SUFFICES ASSUME ~AG!RowIsBehind, thread.next = "end"
                 PROVE  AG!Reviewed(AG!Merged(thread.st, row.st))
      BY <2>4, <2>6 DEF WithThread
    <3>1. row.st = AG!Payload(thread.st) /\ AG!Reviewed(thread.st)
      BY <1>3 DEF AG!RowIsBehind, GraphInv, NativeOK, Due
    <3>2. row.st.answer = thread.st.answer /\ row.st.degraded = thread.st.degraded
      BY <2>2, <3>1, Saved
    <3>3. /\ AG!Merged(thread.st, row.st).answer = row.st.answer
          /\ AG!Merged(thread.st, row.st).degraded = row.st.degraded
      BY <2>2, Saved
    <3> QED BY <3>1, <3>2, <3>3 DEF AG!Reviewed
  <2> QED BY <1>1, <1>3, <2>1, <2>4, <2>5, <2>7, <2>8, <2>9, NativeBecomes
<1>4. CASE row.node # "none" /\ ~native
  <2> DEFINE x == [pc |-> "hand", at |-> row.node, st |-> row.st]
  <2>1. AG!Become(e, x) /\ UNCHANGED disturbed
    BY <1>4 DEF AG!Resume
  <2>2. row.node \in AG!Node /\ row.st \in AG!State /\ Left(row.node, row.st)
    BY <1>1, <1>4 DEF AG!TypeOK, GraphInv, ManualOK
  <2>3. x \in AG!Execution /\ x.pc = "hand" /\ x.at = row.node /\ x.st = row.st
    BY <2>2 DEF AG!Execution, AG!Pc
  <2> HIDE DEF x
  <2>4. row.st.iteration <= MaxIterations + 2
    <3>1. row.st.iteration \in Nat /\ MaxIterations \in Nat
      BY <2>2 DEF AG!State, AG!GraphConstants
    <3> QED BY <2>2, <3>1 DEF Left
  <2>5. ByHand(e, x)
    BY <1>1, <2>2, <2>3, <2>4 DEF ByHand
  <2>6. ahead' \in AheadType
    BY <1>1, AheadTyped
  <2> QED BY <1>1, <1>4, <2>1, <2>3, <2>5, <2>6, ManualBecomes DEF AheadType
<1> QED BY <1>2, <1>3, <1>4

LEMMA RunByHandKeeps ==
  ASSUME AG!GraphConstants, GraphInv, NEW e \in Executions, AG!RunByHand(e)
  PROVE  GraphInv'
<1> DEFINE n == exec[e].at
           s == exec[e].st
           node == AG!NextNode(n, s)
           from == AG!Marked(n, s)
<1>1. exec[e].pc = "hand" /\ UNCHANGED <<native, thread, ahead, disturbed>> /\ AG!TypeOK
  BY DEF AG!RunByHand, GraphInv
<1>2. ~native
  BY <1>1 DEF GraphInv, NativeOK, ByThread
<1>3. /\ exec[e] \in AG!Execution /\ e # Original /\ n \in AG!Node /\ Left(n, s) /\ s \in AG!State
      /\ exec[Original].pc # "idle" /\ ahead' \in AheadType
  BY <1>1, <1>2, AheadTyped DEF GraphInv, ManualOK, ByHand, AG!Execution, AG!TypeOK
<1>4. node \in AG!Node \union {"end"} /\ "end" \notin AG!Node /\ AG!Uncallable \subseteq AG!Node
  BY <1>3, Edges DEF AG!Node, AG!Uncallable
<1>5. CASE node = "end"
  <2> DEFINE x == [exec[e] EXCEPT !.pc = "done", !.st = from]
  <2>1. AG!Become(e, x) /\ UNCHANGED row
    BY <1>1, <1>4, <1>5 DEF AG!RunByHand, AG!Uncallable
  <2>2. /\ from \in AG!State /\ AG!Reviewed(from) /\ from.iteration = s.iteration
    BY <1>3, <1>5, LeftEnd, MarkedState
  <2> HIDE DEF from
  <2>3. x \in AG!Execution /\ x.pc = "done" /\ x.st = from
    BY <1>3, <2>2 DEF AG!Execution, AG!Pc
  <2> HIDE DEF x
  <2>4. ByHand(e, x)
    BY <1>2, <1>3, <2>2, <2>3 DEF ByHand, GraphInv, ManualOK
  <2> QED BY <1>1, <1>2, <1>3, <2>1, <2>3, <2>4, ManualBecomes DEF AheadType
<1>6. CASE node \in AG!Uncallable
  <2>1. AG!Leave(e, "failed") /\ UNCHANGED row
    BY <1>1, <1>4, <1>6 DEF AG!RunByHand
  <2> QED BY <1>1, <1>3, <2>1, LeaveKeeps
<1>7. CASE node \in AG!Node \ AG!Uncallable
  <2>1. PICK o \in AG!Outcomes(node, from) :
          /\ AG!Become(e, [pc |-> "hand", at |-> node, st |-> o])
          /\ row' = [node |-> node, st |-> AG!Payload(o)]
    BY <1>1, <1>4, <1>7 DEF AG!RunByHand, AG!SaveRow
  <2> DEFINE x == [pc |-> "hand", at |-> node, st |-> o]
  <2>2. o \in AG!State /\ Left(node, o)
    BY <1>3, <1>7, LeftNext
  <2>3. AG!Become(e, x) /\ row' = [node |-> node, st |-> AG!Payload(o)] /\ node \in AG!Node
    BY <1>7, <2>1
  <2> HIDE DEF node, from
  <2>4. x \in AG!Execution /\ x.pc = "hand" /\ x.at = node /\ x.st = o
    BY <2>2, <2>3 DEF AG!Execution, AG!Pc
  <2> HIDE DEF x
  <2>5. o.iteration <= MaxIterations + 2
    <3>1. o.iteration \in Nat /\ MaxIterations \in Nat
      BY <2>2 DEF AG!State, AG!GraphConstants
    <3> QED BY <2>2, <3>1 DEF Left
  <2>6. ByHand(e, x)
    BY <1>3, <2>2, <2>3, <2>4, <2>5 DEF ByHand
  <2>7. row' \in [node : AG!Node, st : AG!State] /\ Left(row.node, row.st)'
    <3>1. Left(node, AG!Payload(o)) /\ AG!Payload(o) \in AG!State
      BY <2>2, <2>3, Saved, SavedLeft
    <3>2. row'.node = node /\ row'.st = AG!Payload(o)
      BY <2>3
    <3> QED BY <2>3, <3>1, <3>2 DEF Left, Passed
  <2> QED BY <1>1, <1>2, <1>3, <2>3, <2>4, <2>6, <2>7, ManualBecomes DEF AheadType
<1> QED BY <1>4, <1>5, <1>6, <1>7

LEMMA StopKeeps ==
  ASSUME AG!GraphConstants, GraphInv, NEW e \in Executions, AG!Stop(e)
  PROVE  GraphInv'
<1>1. e = Original \/ exec[Original].pc # "idle"
  BY DEF AG!Stop, GraphInv
<1> QED BY <1>1, LeaveKeeps DEF AG!Stop

LEMMA GraphStep ==
  ASSUME AG!GraphConstants, GraphInv, [AG!Next]_AG!vars
  PROVE  GraphInv'
<1>1. CASE AG!Begin \/ AG!Read
  BY <1>1, BeginKeeps, RunAheadKeeps, ConsumeKeeps, DeliverKeeps DEF AG!Read
<1>2. ASSUME NEW e \in Executions, AG!Step(e) \/ AG!Resume(e) \/ AG!Stop(e)
      PROVE  GraphInv'
  BY <1>2, LoadKeeps, RunKeeps, SaveKeeps, RunByHandKeeps, ResumeKeeps,
     StopKeeps DEF AG!Step
<1>3. CASE UNCHANGED AG!vars
  BY <1>3 DEF AG!vars, GraphInv, AG!TypeOK, NativeOK, ManualOK, ByThread, WithThread,
     Drives, ByHand,
     AheadOK, UpdateOK, Left, Passed, Due, AG!Reviewed
<1> QED BY <1>1, <1>2, <1>3 DEF AG!Next

LEMMA GraphStart ==
  ASSUME AG!GraphConstants, AG!Init
  PROVE  GraphInv
<1>1. /\ AG!Fresh \in AG!State /\ AG!Fresh.iteration = 0 /\ AG!Idle \in AG!Execution /\ AG!Idle.st = AG!Fresh
      /\ AG!Idle.pc = "idle" /\ AG!NoTask \in AheadType
  BY FreshState, NoTaskType DEF AG!Idle
<1>2. /\ \A e \in Executions : exec[e] = AG!Idle
      /\ thread.next = "none" /\ thread.st = AG!Fresh /\ row.node = "none" /\ row.st = AG!Fresh
      /\ ahead = AG!NoTask
  BY DEF AG!Init
<1>3. AG!TypeOK
  BY <1>1 DEF AG!Init, AG!TypeOK, AheadType
<1>4. NativeOK
  BY <1>1, <1>2 DEF NativeOK, ByThread, WithThread, Drives, AG!GraphConstants
<1>5. ManualOK
  BY <1>1, <1>2 DEF ManualOK, ByHand, AG!GraphConstants
<1> QED BY <1>1, <1>2, <1>3, <1>4, <1>5 DEF GraphInv

LEMMA GraphSafe ==
  ASSUME AG!GraphConstants, GraphInv
  PROVE  AG!TypeOK /\ AG!IterationBound /\ AG!DoneIsReviewed
<1>1. Original \in Executions /\ MaxIterations \in Nat
  BY DEF AG!GraphConstants
<1>2. AG!TypeOK /\ \A e \in Executions : exec[e].st \in AG!State
  BY DEF GraphInv, AG!TypeOK, AG!Execution
<1>3. AG!IterationBound
  <2>1. /\ \A e \in Executions : exec[e].st.iteration \in Nat
        /\ thread.st.iteration \in Nat
    BY <1>2 DEF AG!State, AG!TypeOK
  <2>2. CASE native
    <3>1. \A e \in Executions : exec[e].st.iteration <= MaxIterations + 1
      BY <2>2 DEF GraphInv, NativeOK, ByThread
    <3>2. thread.st.iteration <= MaxIterations + 1
      BY <2>2 DEF GraphInv, NativeOK
    <3> QED BY <1>1, <2>1, <3>1, <3>2 DEF AG!IterationBound
  <2>3. CASE ~native
    BY <2>3 DEF GraphInv, ManualOK, ByHand, AG!IterationBound
  <2> QED BY <2>2, <2>3
<1>4. AG!DoneIsReviewed
  <2>1. CASE native
    <3>1. thread.next = "end" => AG!Reviewed(thread.st)
      BY <2>1 DEF GraphInv, NativeOK, Due
    <3>2. ASSUME NEW e \in Executions, exec[e].pc = "done", ~AG!Reviewed(exec[e].st)
          PROVE  e \in disturbed
      BY <2>1, <3>2 DEF GraphInv, NativeOK, WithThread
    <3> QED BY <2>1, <3>1, <3>2 DEF AG!DoneIsReviewed
  <2>2. CASE ~native
    BY <2>2 DEF GraphInv, ManualOK, ByHand, AG!DoneIsReviewed
  <2> QED BY <2>1, <2>2
<1> QED BY <1>2, <1>3, <1>4

----------------------------------------------------------------------------
\* The graph on its own, and both parts as MCConversation checks them.

\* Whatever row or thread an execution resumes from, the loops of the graph are
\* bounded, and it ends on an answer the critic let pass or says that it is degraded,
\* unless another execution drove the same thread beside it, or it found the thread at
\* its end and a row that is behind (langgraph_runner.py).
THEOREM GraphIsReviewed ==
    ASSUME AG!GraphConstants
    PROVE  AG!Spec => [](AG!TypeOK /\ AG!IterationBound /\ AG!DoneIsReviewed)
<1>1. AG!Init => GraphInv
  BY GraphStart
<1>2. GraphInv /\ [AG!Next]_AG!vars => GraphInv'
  BY GraphStep
<1>3. GraphInv => AG!TypeOK /\ AG!IterationBound /\ AG!DoneIsReviewed
  BY GraphSafe
<1> QED BY <1>1, <1>2, <1>3, PTL DEF AG!Spec

LEMMA PartsHold == PartsSpec => [](Inv /\ GraphInv)
<1>1. PartsInit => Inv /\ GraphInv
  BY GraphAssumption, InvInit, GraphStart DEF PartsInit
<1>2. [TaskNext \/ GraphNext]_everything => [Next]_vars /\ [AG!Next]_AG!vars
  BY DEF TaskNext, GraphNext, OfTask, OfGraph, everything, graphVars, AG!vars
<1>3. Inv /\ GraphInv /\ [TaskNext \/ GraphNext]_everything => (Inv /\ GraphInv)'
  BY <1>2, GraphAssumption, InvNext, GraphStep
<1> QED BY <1>1, <1>3, PTL DEF PartsSpec

\* The types of the record and of the graph, and the bound of its loops.
THEOREM ConversationTyped == PartsSpec => []ConversationTypeOK
<1>1. Inv /\ GraphInv => ConversationTypeOK
  BY GraphAssumption, GraphSafe DEF Inv, ConversationTypeOK
<1> QED BY <1>1, PartsHold, PTL

\* The thread, and an execution that nothing disturbs, end on a reviewed answer.
THEOREM ReviewHolds == PartsSpec => []DoneIsReviewed
<1>1. GraphInv => DoneIsReviewed
  BY GraphAssumption, GraphSafe DEF DoneIsReviewed
<1> QED BY <1>1, PartsHold, PTL
=============================================================================
