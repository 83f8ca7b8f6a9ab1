-------------------------- MODULE EvaluationProofs --------------------------
(***************************************************************************)
(* Theorems about Evaluation, for any number of evaluations, of requests   *)
(* about samples and of samples: what the gate of a model's activation can *)
(* rely on although everybody rewrites the same files without a lock, that *)
(* a merge is fair to the samples it is given, and that what has been      *)
(* saved counts.                                                           *)
(*                                                                         *)
(* The gate does not depend on which samples an evaluation takes, and the  *)
(* types of its invariant leave them open.  What the loops over samples do *)
(* is proved by induction over the steps of the recursive functions they   *)
(* are: the steps after which a loop is right are all, as 0 is one and the *)
(* next is one after each (Climb, from the least element of a set).        *)
(***************************************************************************)
EXTENDS MCEvaluation, FiniteSetTheorems, SequenceTheorems, WellFoundedInduction, TLAPS

----------------------------------------------------------------------------
\* Types

Pc == {"idle", "score", "stamped", "report", "markdown", "dataset", "history", "done", "failed"}

\* Evaluations whose setting, samples and dataset are in V.
RunIn(V) == [pc : Pc, setting : V, generated : V, manual : V, entries : V, at : Nat,
             passed : BOOLEAN, owed : V, sure : V]

ReportIn(V) == [state : {"absent", "empty", "garbled", "whole"},
                value : [legacy : BOOLEAN, by : Evaluations \union {None}, at : Nat,
                         passed : BOOLEAN, total : V, used : V]]

RunsTyped == \E V : run \in [Evaluations -> RunIn(V)]

ReportTyped == \E V : report \in ReportIn(V)

Typed ==
    /\ clock \in Nat /\ clashed \in BOOLEAN /\ before \in [Evaluations -> SUBSET Evaluations]
    /\ RunsTyped /\ ReportTyped

----------------------------------------------------------------------------
\* The inductive invariant

\* An evaluation that has passed had enough samples, and none is stamped in the future.
PassedIsEarned ==
    \A v \in Evaluations : /\ run[v].passed => Len(run[v].entries) >= MinSize
                           /\ run[v].at <= clock

\* A report says what its evaluation has found, and that does not change any more.
ReportIsTrue ==
    ~report.value.legacy =>
        LET v == report.value.by
        IN /\ v \in Evaluations
           /\ run[v].pc \notin {"idle", "score", "stamped", "report"}
           /\ run[v].at = report.value.at
           /\ run[v].passed = report.value.passed

\* The report of v is or was in the file.
Reported(v) == run[v].pc \in {"markdown", "dataset", "history", "done"}

\* One writes after the other, and the report is of the last one.
InOrder ==
    /\ \A v, w \in Evaluations : Writing(v) /\ Writing(w) => v = w
    /\ \A w \in Evaluations :
          Reported(w) => /\ ~report.value.legacy
                         /\ w = report.value.by \/ w \in before[report.value.by]
    /\ \A v, w \in Evaluations : run[v].pc = "report" /\ Reported(w) => w \in before[v]

GateInv == Typed /\ PassedIsEarned /\ ReportIsTrue /\ (clashed \/ InOrder)

LEMMA GateInit == Init => GateInv
<1> SUFFICES ASSUME Init PROVE GateInv
  OBVIOUS
<1>1. \A v \in Evaluations : run[v] = IdleRun
  BY DEF Init
<1>2. IdleRun.pc = "idle" /\ IdleRun.at = 0 /\ IdleRun.passed = FALSE
  BY DEF IdleRun
<1>3. report.value = OldReport /\ OldReport.legacy
  BY DEF Init, OldReport
<1>4. RunsTyped
  <2>1. PICK V : V = {IdleRun.setting, IdleRun.generated, IdleRun.manual, IdleRun.entries,
                      IdleRun.owed, IdleRun.sure}
    OBVIOUS
  <2>2. IdleRun \in RunIn(V)
    BY <2>1 DEF RunIn, IdleRun, Pc
  <2>3. run \in [Evaluations -> RunIn(V)]
    BY <2>2 DEF Init
  <2> QED BY <2>3 DEF RunsTyped
<1>5. ReportTyped
  <2>1. report \in ReportIn(Nat)
    <3>1. OldReport \in [legacy : BOOLEAN, by : Evaluations \union {None}, at : Nat,
                         passed : BOOLEAN, total : Nat, used : Nat]
      BY DEF OldReport
    <3>2. /\ report.state \in {"absent", "whole"} /\ report.value = OldReport
          /\ report = [state |-> report.state, value |-> report.value]
      BY DEF Init
    <3> QED BY <3>1, <3>2 DEF ReportIn
  <2> QED BY <2>1 DEF ReportTyped
<1>6. Typed
  BY <1>4, <1>5 DEF Init, Typed
<1>7. PassedIsEarned /\ ReportIsTrue /\ InOrder
  BY <1>1, <1>2, <1>3 DEF Init, PassedIsEarned, ReportIsTrue, InOrder, Writing, Reported
<1> QED BY <1>6, <1>7 DEF GateInv

----------------------------------------------------------------------------
\* The steps

\* Steps of requests, and time.
LEMMA OthersKeepGateInv ==
    ASSUME GateInv, run' = run, report' = report, clashed' = clashed, before' = before,
           clock' \in Nat, clock <= clock'
    PROVE  GateInv'
<1>1. Typed'
  BY DEF GateInv, Typed, RunsTyped, ReportTyped
<1>2. PassedIsEarned'
  <2>1. \A v \in Evaluations : run[v].at \in Nat
    <3>1. PICK V : run \in [Evaluations -> RunIn(V)]
      BY DEF GateInv, Typed, RunsTyped
    <3> QED BY <3>1 DEF RunIn
  <2> QED BY <2>1 DEF GateInv, Typed, PassedIsEarned
<1>3. ReportIsTrue' /\ (clashed' \/ InOrder')
  BY DEF GateInv, ReportIsTrue, InOrder, Writing, Reported
<1> QED BY <1>1, <1>2, <1>3 DEF GateInv

\* Evaluation v goes on as x.
Becomes(v, x) == \A w \in Evaluations : run'[w] = IF w = v THEN x ELSE run[w]

LEMMA CollectKeepsGateInv ==
    ASSUME GateInv, NEW v \in Evaluations, Collect(v) PROVE GateInv'
<1>1. PICK V : run \in [Evaluations -> RunIn(V)]
  BY DEF GateInv, Typed, RunsTyped
<1>2. PICK setting \in Settings, generated \in Generation :
        run' = [run EXCEPT ![v] =
                  [IdleRun EXCEPT !.pc = "score", !.setting = setting,
                                  !.generated = generated, !.manual = Load,
                                  !.entries = Merge(setting, Load, generated),
                                  !.owed = owed,
                                  !.sure = ~raced /\ ~doubled
                                           /\ \A e \in Editors : edit[e].pc # "open"]]
  BY DEF Collect
<1>3. PICK x : x = [IdleRun EXCEPT !.pc = "score", !.setting = setting,
                                  !.generated = generated, !.manual = Load,
                                  !.entries = Merge(setting, Load, generated),
                                  !.owed = owed,
                                  !.sure = ~raced /\ ~doubled
                                           /\ \A e \in Editors : edit[e].pc # "open"]
  OBVIOUS
<1>4. x.pc = "score" /\ x.at = 0 /\ x.passed = FALSE
  BY <1>3 DEF IdleRun
<1>5. /\ run[v].pc = "idle" /\ report' = report /\ clashed' = clashed /\ clock' = clock
      /\ before' = before
  BY DEF Collect, files
<1>6. run' = [run EXCEPT ![v] = x]
  BY <1>2, <1>3
<1>7. Becomes(v, x)
  BY <1>1, <1>6 DEF Becomes
<1>8. RunsTyped'
  <2>1. PICK W : W = V \union {x.setting, x.generated, x.manual, x.entries, x.owed,
                               x.sure}
    OBVIOUS
  <2>2. x \in RunIn(W)
    <3>1. x = [pc |-> "score", setting |-> x.setting, generated |-> x.generated,
               manual |-> x.manual, entries |-> x.entries, at |-> 0,
               passed |-> FALSE, owed |-> x.owed, sure |-> x.sure]
      BY <1>3 DEF IdleRun
    <3>2. /\ x.setting \in W /\ x.generated \in W /\ x.manual \in W /\ x.entries \in W
          /\ x.owed \in W /\ x.sure \in W
      BY <2>1
    <3>3. 0 \in Nat /\ "score" \in Pc
      BY DEF Pc
    <3>4. [pc |-> "score", setting |-> x.setting, generated |-> x.generated,
           manual |-> x.manual, entries |-> x.entries, at |-> 0,
           passed |-> FALSE, owed |-> x.owed, sure |-> x.sure] \in RunIn(W)
      BY <3>2, <3>3 DEF RunIn
    <3> QED BY <3>1, <3>4
  <2>3. run \in [Evaluations -> RunIn(W)]
    BY <1>1, <2>1 DEF RunIn
  <2>4. run' \in [Evaluations -> RunIn(W)]
    BY <1>6, <2>2, <2>3
  <2> QED BY <2>4 DEF RunsTyped
<1>9. Typed'
  BY <1>5, <1>8 DEF GateInv, Typed, ReportTyped
<1>10. PassedIsEarned'
  BY <1>4, <1>5, <1>7 DEF GateInv, Typed, PassedIsEarned, Becomes
<1>11. ReportIsTrue'
  BY <1>5, <1>7 DEF GateInv, ReportIsTrue, Becomes
<1>12. clashed' \/ InOrder'
  BY <1>4, <1>5, <1>7 DEF GateInv, InOrder, Writing, Reported, Becomes
<1> QED BY <1>9, <1>10, <1>11, <1>12 DEF GateInv

\* The step of an evaluation leaves its samples and, but for Score, its verdict.
LEMMA ChangedRun ==
    ASSUME RunsTyped, NEW v \in Evaluations, NEW pc \in Pc, NEW at \in Nat, NEW passed \in BOOLEAN,
           run' = [run EXCEPT ![v].pc = pc, ![v].at = at, ![v].passed = passed]
    PROVE  /\ RunsTyped'
           /\ \A w \in Evaluations : w # v => run'[w] = run[w]
           /\ run'[v].pc = pc /\ run'[v].at = at /\ run'[v].passed = passed
           /\ run'[v].entries = run[v].entries
<1>1. PICK V : run \in [Evaluations -> RunIn(V)]
  BY DEF RunsTyped
<1>2. run[v] \in RunIn(V)
  BY <1>1
<1>3. PICK x : x = [run[v] EXCEPT !.pc = pc, !.at = at, !.passed = passed]
  OBVIOUS
<1>4. /\ x \in RunIn(V) /\ x.pc = pc /\ x.at = at /\ x.passed = passed
      /\ x.entries = run[v].entries
  BY <1>2, <1>3 DEF RunIn
<1>5. run' = [run EXCEPT ![v] = x]
  BY <1>1, <1>3
<1>6. run' \in [Evaluations -> RunIn(V)]
  BY <1>1, <1>4, <1>5
<1> QED BY <1>1, <1>4, <1>5, <1>6 DEF RunsTyped

LEMMA MovedRun ==
    ASSUME RunsTyped, NEW v \in Evaluations, NEW pc \in Pc, run' = [run EXCEPT ![v].pc = pc]
    PROVE  /\ RunsTyped'
           /\ \A w \in Evaluations : w # v => run'[w] = run[w]
           /\ run'[v].pc = pc /\ run'[v].at = run[v].at /\ run'[v].passed = run[v].passed
           /\ run'[v].entries = run[v].entries
<1>1. PICK V : run \in [Evaluations -> RunIn(V)]
  BY DEF RunsTyped
<1>2. run[v] \in RunIn(V)
  BY <1>1
<1>3. PICK x : x = [run[v] EXCEPT !.pc = pc]
  OBVIOUS
<1>4. /\ x \in RunIn(V) /\ x.pc = pc /\ x.at = run[v].at /\ x.passed = run[v].passed
      /\ x.entries = run[v].entries
  BY <1>2, <1>3 DEF RunIn
<1>5. run' = [run EXCEPT ![v] = x]
  BY <1>1, <1>3
<1>6. run' \in [Evaluations -> RunIn(V)]
  BY <1>1, <1>4, <1>5
<1> QED BY <1>1, <1>4, <1>5, <1>6 DEF RunsTyped

LEMMA RunTypes ==
    ASSUME RunsTyped
    PROVE  \A v \in Evaluations : run[v].at \in Nat /\ run[v].passed \in BOOLEAN /\ run[v].pc \in Pc
BY DEF RunsTyped, RunIn

LEMMA ScoreKeepsGateInv ==
    ASSUME GateInv, NEW v \in Evaluations, Score(v) PROVE GateInv'
<1>1. PICK good \in BOOLEAN :
        run' = [run EXCEPT ![v].pc = "stamped", ![v].at = clock,
                           ![v].passed = good /\ Len(run[v].entries) >= MinSize]
  BY DEF Score, Scores
<1>2. PICK passed \in BOOLEAN : passed = (good /\ Len(run[v].entries) >= MinSize)
  OBVIOUS
<1>3. /\ run[v].pc = "score" /\ report' = report /\ clock' = clock
      /\ clashed' = clashed /\ before' = before
  BY DEF Score, files
<1>4. clock \in Nat /\ clashed \in BOOLEAN /\ RunsTyped /\ ReportTyped
  BY DEF GateInv, Typed
<1>5. run' = [run EXCEPT ![v].pc = "stamped", ![v].at = clock, ![v].passed = passed]
  BY <1>1, <1>2
<1>6. /\ RunsTyped'
      /\ \A w \in Evaluations : w # v => run'[w] = run[w]
      /\ run'[v].pc = "stamped" /\ run'[v].at = clock /\ run'[v].passed = passed
      /\ run'[v].entries = run[v].entries
  BY <1>4, <1>5, ChangedRun DEF Pc
<1>7. Typed'
  BY <1>3, <1>6 DEF GateInv, Typed, ReportTyped
<1>8. PassedIsEarned'
  <2>1. \A w \in Evaluations : w # v => /\ run'[w].passed => Len(run'[w].entries) >= MinSize
                                        /\ run'[w].at <= clock'
    BY <1>3, <1>6 DEF GateInv, PassedIsEarned
  <2>2. run'[v].passed => Len(run'[v].entries) >= MinSize
    BY <1>2, <1>6
  <2>3. run'[v].at <= clock'
    BY <1>3, <1>4, <1>6
  <2> QED BY <2>1, <2>2, <2>3 DEF PassedIsEarned
<1>9. ReportIsTrue'
  BY <1>3, <1>6 DEF GateInv, ReportIsTrue
<1>10. clashed' \/ InOrder'
  BY <1>3, <1>6 DEF GateInv, InOrder, Writing, Reported
<1> QED BY <1>7, <1>8, <1>9, <1>10 DEF GateInv

LEMMA OpenReportKeepsGateInv ==
    ASSUME GateInv, NEW v \in Evaluations, OpenReport(v) PROVE GateInv'
<1>1. /\ run[v].pc = "stamped" /\ run' = [run EXCEPT ![v].pc = "report"]
      /\ report' = Opened(report) /\ clock' = clock
      /\ clashed' = (clashed \/ \E w \in Evaluations : Writing(w))
      /\ before' = [before EXCEPT ![v] =
                       {w \in Evaluations : run[w].pc \in {"history", "done"}}]
  BY DEF OpenReport
<1>2. /\ clock \in Nat /\ clashed \in BOOLEAN /\ RunsTyped /\ ReportTyped
      /\ before \in [Evaluations -> SUBSET Evaluations]
  BY DEF GateInv, Typed
<1>3. /\ RunsTyped'
      /\ \A w \in Evaluations : w # v => run'[w] = run[w]
      /\ run'[v].pc = "report" /\ run'[v].at = run[v].at /\ run'[v].passed = run[v].passed
      /\ run'[v].entries = run[v].entries
  BY <1>1, <1>2, MovedRun DEF Pc
<1>4. ReportTyped' /\ report'.value = report.value
  <2>1. PICK V : report \in ReportIn(V)
    BY <1>2 DEF ReportTyped
  <2>2. report' \in ReportIn(V) /\ report'.value = report.value
    BY <1>1, <2>1 DEF Opened, ReportIn
  <2> QED BY <2>2 DEF ReportTyped
<1>5. /\ before' \in [Evaluations -> SUBSET Evaluations]
      /\ \A w \in Evaluations : w # v => before'[w] = before[w]
      /\ \A w \in Evaluations : w \in before'[v] <=> run[w].pc \in {"history", "done"}
  BY <1>1, <1>2
<1>6. Typed'
  BY <1>1, <1>2, <1>3, <1>4, <1>5 DEF Typed
<1>7. PassedIsEarned'
  BY <1>1, <1>3 DEF GateInv, PassedIsEarned
<1>8. ReportIsTrue'
  BY <1>1, <1>3, <1>4 DEF GateInv, ReportIsTrue
<1>9. ASSUME ~clashed' PROVE InOrder'
  <2>1. InOrder /\ \A w \in Evaluations : ~Writing(w)
    BY <1>1, <1>9 DEF GateInv
  <2>2. \A w \in Evaluations : Reported(w)' => w # v /\ run[w].pc \in {"history", "done"}
    BY <1>3, <2>1 DEF Reported, Writing
  <2>3. \A w \in Evaluations : Reported(w)' => Reported(w)
    BY <2>2 DEF Reported
  <2>4. \A u, w \in Evaluations : Writing(u)' /\ Writing(w)' => u = w
    BY <1>3, <2>1 DEF Writing
  <2>5. \A u \in Evaluations : run'[u].pc = "report" => u = v
    BY <1>3, <2>1 DEF Writing
  <2>6. \A w \in Evaluations : Reported(w)' => w \in before'[v]
    BY <1>5, <2>2
  <2>7. \A w \in Evaluations :
           Reported(w)' => ~report'.value.legacy
                           /\ (w = report'.value.by \/ w \in before'[report'.value.by])
    <3>1. ASSUME NEW w \in Evaluations, Reported(w)'
          PROVE  /\ ~report'.value.legacy
                 /\ (w = report'.value.by \/ w \in before'[report'.value.by])
      <4>1. /\ ~report.value.legacy
            /\ (w = report.value.by \/ w \in before[report.value.by])
        BY <2>1, <2>3, <3>1 DEF InOrder
      <4>2. report.value.by \in Evaluations /\ report.value.by # v
        BY <1>1, <4>1 DEF GateInv, ReportIsTrue
      <4> QED BY <1>4, <1>5, <4>1, <4>2
    <3> QED BY <3>1
  <2> QED BY <2>4, <2>5, <2>6, <2>7 DEF InOrder
<1> QED BY <1>6, <1>7, <1>8, <1>9 DEF GateInv

LEMMA WriteReportKeepsGateInv ==
    ASSUME GateInv, NEW v \in Evaluations, WriteReport(v) PROVE GateInv'
<1>1. PICK total, used : total = Len(run[v].manual) /\ used = Used(run[v].entries)
  OBVIOUS
<1>2. PICK s \in {"whole", "garbled"} :
        report' = [state |-> s,
                   value |-> [legacy |-> FALSE, by |-> v, at |-> run[v].at,
                              passed |-> run[v].passed, total |-> total, used |-> used]]
  BY <1>1 DEF WriteReport, Written
<1>3. /\ run[v].pc = "report" /\ run' = [run EXCEPT ![v].pc = "markdown"]
      /\ clock' = clock /\ clashed' = clashed /\ before' = before
  BY DEF WriteReport
<1>4. clock \in Nat /\ clashed \in BOOLEAN /\ RunsTyped
  BY DEF GateInv, Typed
<1>5. /\ RunsTyped'
      /\ \A w \in Evaluations : w # v => run'[w] = run[w]
      /\ run'[v].pc = "markdown" /\ run'[v].at = run[v].at /\ run'[v].passed = run[v].passed
      /\ run'[v].entries = run[v].entries
  BY <1>3, <1>4, MovedRun DEF Pc
<1>6. run[v].at \in Nat /\ run[v].passed \in BOOLEAN
  BY <1>4, RunTypes
<1>7. ReportTyped'
  <2>1. report' \in ReportIn({total, used})
    BY <1>2, <1>6 DEF ReportIn
  <2> QED BY <2>1 DEF ReportTyped
<1>8. /\ report'.value.legacy = FALSE /\ report'.value.by = v /\ report'.value.at = run[v].at
      /\ report'.value.passed = run[v].passed
  BY <1>2
<1>9. Typed'
  BY <1>3, <1>5, <1>7 DEF GateInv, Typed
<1>10. PassedIsEarned'
  BY <1>3, <1>5 DEF GateInv, PassedIsEarned
<1>11. ReportIsTrue'
  BY <1>5, <1>8 DEF ReportIsTrue
<1>12. ASSUME ~clashed' PROVE InOrder'
  <2>1. InOrder
    BY <1>3, <1>12 DEF GateInv
  <2>2. \A v_1, w \in Evaluations : Writing(v_1)' /\ Writing(w)' => v_1 = w
    BY <1>3, <1>5, <2>1 DEF InOrder, Writing
  <2>3. \A w \in Evaluations : Reported(w)' => w = v \/ w \in before'[v]
    BY <1>3, <1>5, <2>1 DEF InOrder, Reported
  <2>4. \A w \in Evaluations : run'[w].pc # "report"
    BY <1>3, <1>5, <2>1 DEF InOrder, Writing
  <2> QED BY <1>8, <2>2, <2>3, <2>4 DEF InOrder
<1> QED BY <1>9, <1>10, <1>11, <1>12 DEF GateInv

\* The steps after the report, and the end of an evaluation at any point.
LEMMA AfterReportKeepsGateInv ==
    ASSUME GateInv, NEW v \in Evaluations,
           OpenDataset(v) \/ WriteDataset(v) \/ Conclude(v) \/ FailRun(v)
    PROVE  GateInv'
<1>1. PICK pc \in Pc :
        /\ run' = [run EXCEPT ![v].pc = pc]
        /\ \/ run[v].pc = "markdown" /\ pc = "dataset"
           \/ run[v].pc = "dataset" /\ pc = "history"
           \/ run[v].pc = "history" /\ pc = "done"
           \/ run[v].pc # "idle" /\ pc = "failed" /\ (Writing(v) => clashed')
  BY DEF OpenDataset, WriteDataset, Conclude, FailRun, Pc
<1>2. /\ clock' = clock /\ report' = report /\ clashed' \in BOOLEAN /\ (clashed => clashed')
      /\ before' = before
  BY DEF GateInv, Typed, OpenDataset, WriteDataset, Conclude, FailRun, files
<1>3. RunsTyped
  BY DEF GateInv, Typed
<1>4. /\ RunsTyped'
      /\ \A w \in Evaluations : w # v => run'[w] = run[w]
      /\ run'[v].pc = pc /\ run'[v].at = run[v].at /\ run'[v].passed = run[v].passed
      /\ run'[v].entries = run[v].entries
  BY <1>1, <1>3, MovedRun
<1>5. Typed'
  BY <1>2, <1>4 DEF GateInv, Typed, ReportTyped
<1>6. PassedIsEarned'
  BY <1>2, <1>4 DEF GateInv, PassedIsEarned
<1>7. ReportIsTrue'
  BY <1>1, <1>2, <1>4 DEF GateInv, ReportIsTrue
<1>8. ASSUME ~clashed' PROVE InOrder'
  <2>1. InOrder
    BY <1>2, <1>8 DEF GateInv
  <2>2. \A w \in Evaluations : /\ Reported(w)' => Reported(w)
                               /\ Writing(w)' => Writing(w)
                               /\ run'[w].pc = "report" => run[w].pc = "report"
    BY <1>1, <1>4 DEF Reported, Writing
  <2> QED BY <1>2, <2>1, <2>2 DEF InOrder
<1> QED BY <1>5, <1>6, <1>7, <1>8 DEF GateInv

LEMMA GateStep == GateInv /\ [Next]_vars => GateInv'
<1>1. ASSUME GateInv, UNCHANGED vars \/ (\E e \in Editors : EditStep(e)) \/ Tick
      PROVE  GateInv'
  <2>1. clock \in Nat
    BY <1>1 DEF GateInv, Typed
  <2>2. /\ run' = run /\ report' = report /\ clashed' = clashed /\ before' = before
        /\ clock' \in {clock, clock + 1}
    BY <1>1 DEF vars, files, EditStep, AppendSample, UpdateSample, DeleteSample, BeginEdit,
       OpenSamples, SaveSamples, LoseEdit, Tick
  <2> QED BY <1>1, <2>1, <2>2, OthersKeepGateInv
<1> QED BY <1>1, CollectKeepsGateInv, ScoreKeepsGateInv, OpenReportKeepsGateInv,
       WriteReportKeepsGateInv, AfterReportKeepsGateInv DEF Next, RunStep

\* The gate of a model's activation is open only on the word of an evaluation that has
\* passed with enough samples and is recent, and one that has failed closes it until
\* another that has passed opens the report after it, whoever writes, dies or fails at
\* the same time (evaluation_service.py, assess_deployment_readiness).
THEOREM GateIsEarned == Spec => []ReadyIsEarned
<1>1. ASSUME GateInv, Readiness = "evaluation_gate_passed" PROVE ReadyIsEarned
  <2>1. ~report.value.legacy /\ report.value.passed /\ ~(clock - report.value.at > MaxAge)
    BY <1>1 DEF Readiness
  <2>2. PICK v \in Evaluations : /\ v = report.value.by
                                 /\ run[v].at = report.value.at
                                 /\ run[v].passed = report.value.passed
    BY <1>1, <2>1 DEF GateInv, ReportIsTrue
  <2>3. run[v].passed /\ Len(run[v].entries) >= MinSize
    BY <1>1, <2>1, <2>2 DEF GateInv, PassedIsEarned
  <2>4. run[v].at + MaxAge >= clock
    <3>1. run[v].at \in Nat /\ clock \in Nat
      BY <1>1, RunTypes DEF GateInv, Typed
    <3> QED BY <2>1, <2>2, <3>1, MaxAgeAssumption
  <2>5. \A w \in Evaluations \ {v} :
           run[w].pc \in {"history", "done"} /\ ~run[w].passed /\ ~clashed
           => w \in before[v]
    BY <1>1, <2>2 DEF GateInv, InOrder, Reported
  <2> QED BY <2>2, <2>3, <2>4, <2>5 DEF ReadyIsEarned
<1>2. GateInv => ReadyIsEarned
  BY <1>1 DEF ReadyIsEarned
<1> QED BY <1>2, GateInit, GateStep, PTL DEF Spec

----------------------------------------------------------------------------
\* Induction: a set of naturals that is not empty has a least element, so what holds at 0
\* and with n at n + 1 holds everywhere.

LEMMA LeastNat ==
    ASSUME NEW T \in SUBSET Nat, T # {}
    PROVE  \E x \in T : \A y \in T : x <= y
<1>1. IsWellFoundedOn(OpToRel(<, Nat), Nat)
  BY NatLessThanWellFounded
<1>2. PICK x \in T : \A y \in T : ~ (<<y, x>> \in OpToRel(<, Nat))
  BY <1>1, WFMin
<1>3. \A y \in T : ~(y < x)
  BY <1>2 DEF OpToRel
<1> QED BY <1>3

LEMMA Climb ==
    ASSUME NEW m \in Nat, NEW T \in SUBSET (0 .. m), 0 \in T,
           \A k \in 1 .. m : k - 1 \in T => k \in T
    PROVE  T = 0 .. m
<1> SUFFICES ASSUME (0 .. m) \ T # {} PROVE FALSE
  OBVIOUS
<1>1. PICK x \in (0 .. m) \ T : \A y \in (0 .. m) \ T : x <= y
  <2>1. (0 .. m) \ T \subseteq Nat
    OBVIOUS
  <2> QED BY <2>1, LeastNat
<1>2. x \in 1 .. m /\ x - 1 \in 0 .. m
  BY <1>1
<1>3. x - 1 \in T
  <2>1. ~(x <= x - 1)
    BY <1>2
  <2> QED BY <1>1, <1>2, <2>1
<1> QED BY <1>1, <1>2, <1>3

----------------------------------------------------------------------------
\* The steps of the two loops

LEMMA FillUpSteps ==
    ASSUME NEW entries, NEW more, Len(more) \in Nat, NEW manual, NEW limit
    PROVE  \E f : /\ f[0] = entries
                  /\ \A k \in 1 .. Len(more) :
                        f[k] = Add(f[k - 1], [sig |-> more[k], manual |-> manual], limit)
                  /\ FillUp(entries, more, manual, limit) = f[Len(more)]
<1> DEFINE After(g, k) == IF k = 0 THEN entries
                          ELSE Add(g[k - 1], [sig |-> more[k], manual |-> manual], limit)
           Fills(g, n) == g = [k \in 0 .. n |-> After(g, k)]
           T == {n \in 0 .. Len(more) : \E g : Fills(g, n)}
<1>1. T = 0 .. Len(more)
  <2>1. 0 \in T
    <3>1. PICK g : g = [k \in 0 .. 0 |-> entries]
      OBVIOUS
    <3>2. Fills(g, 0)
      BY <3>1
    <3> HIDE DEF Fills
    <3> QED BY <3>2
  <2>2. ASSUME NEW n \in 1 .. Len(more), n - 1 \in T PROVE n \in T
    <3>1. PICK g : Fills(g, n - 1)
      BY <2>2
    <3>2. PICK h : h = [k \in 0 .. n |-> IF k = n THEN After(g, n) ELSE g[k]]
      OBVIOUS
    <3> HIDE DEF After
    <3>3. \A k \in 0 .. n : h[k] = IF k = n THEN After(g, n) ELSE g[k]
      BY <3>2
    <3>4. \A k \in 0 .. n : k # n => k \in 0 .. (n - 1) /\ g[k] = After(g, k)
      BY <3>1
    <3>5. \A k \in 0 .. n : k # 0 => h[k - 1] = g[k - 1]
      BY <3>3
    <3>6. \A k \in 0 .. n : After(h, k) = After(g, k)
      BY <3>5 DEF After
    <3>7. Fills(h, n)
      BY <3>2, <3>3, <3>4, <3>6
    <3> QED BY <3>7
  <2> HIDE DEF T
  <2>3. T \in SUBSET (0 .. Len(more))
    BY DEF T
  <2> QED BY <2>1, <2>2, <2>3, Climb
<1>2. PICK f : f = CHOOSE g : Fills(g, Len(more))
  OBVIOUS
<1>3. Fills(f, Len(more))
  <2>1. \E g : Fills(g, Len(more))
    BY <1>1
  <2> QED BY <1>2, <2>1
<1>4. FillUp(entries, more, manual, limit) = f[Len(more)]
  BY <1>2 DEF FillUp
<1>5. f[0] = entries
  BY <1>3
<1>6. \A k \in 1 .. Len(more) :
         f[k] = Add(f[k - 1], [sig |-> more[k], manual |-> manual], limit)
  BY <1>3
<1> QED BY <1>4, <1>5, <1>6

LEMMA OnlySteps ==
    ASSUME NEW s, Len(s) \in Nat, NEW V
    PROVE  \E f : /\ f[0] = <<>>
                  /\ \A k \in 1 .. Len(s) :
                        f[k] = IF s[k] \in V THEN Append(f[k - 1], s[k]) ELSE f[k - 1]
                  /\ Only(s, V) = f[Len(s)]
<1> DEFINE After(g, k) == IF k = 0 THEN <<>>
                          ELSE IF s[k] \in V THEN Append(g[k - 1], s[k]) ELSE g[k - 1]
           Keeps(g, n) == g = [k \in 0 .. n |-> After(g, k)]
           T == {n \in 0 .. Len(s) : \E g : Keeps(g, n)}
<1>1. T = 0 .. Len(s)
  <2>1. 0 \in T
    <3>1. PICK g : g = [k \in 0 .. 0 |-> <<>>]
      OBVIOUS
    <3>2. Keeps(g, 0)
      BY <3>1
    <3> HIDE DEF Keeps
    <3> QED BY <3>2
  <2>2. ASSUME NEW n \in 1 .. Len(s), n - 1 \in T PROVE n \in T
    <3>1. PICK g : Keeps(g, n - 1)
      BY <2>2
    <3>2. PICK h : h = [k \in 0 .. n |-> IF k = n THEN After(g, n) ELSE g[k]]
      OBVIOUS
    <3> HIDE DEF After
    <3>3. \A k \in 0 .. n : h[k] = IF k = n THEN After(g, n) ELSE g[k]
      BY <3>2
    <3>4. \A k \in 0 .. n : k # n => k \in 0 .. (n - 1) /\ g[k] = After(g, k)
      BY <3>1
    <3>5. \A k \in 0 .. n : k # 0 => h[k - 1] = g[k - 1]
      BY <3>3
    <3>6. \A k \in 0 .. n : After(h, k) = After(g, k)
      BY <3>5 DEF After
    <3>7. Keeps(h, n)
      BY <3>2, <3>3, <3>4, <3>6
    <3> QED BY <3>7
  <2> HIDE DEF T
  <2>3. T \in SUBSET (0 .. Len(s))
    BY DEF T
  <2> QED BY <2>1, <2>2, <2>3, Climb
<1>2. PICK f : f = CHOOSE g : Keeps(g, Len(s))
  OBVIOUS
<1>3. Keeps(f, Len(s))
  <2>1. \E g : Keeps(g, Len(s))
    BY <1>1
  <2> QED BY <1>2, <2>1
<1>4. Only(s, V) = f[Len(s)]
  BY <1>2 DEF Only
<1>5. f[0] = <<>>
  BY <1>3
<1>6. \A k \in 1 .. Len(s) : f[k] = IF s[k] \in V THEN Append(f[k - 1], s[k]) ELSE f[k - 1]
  <2>1. \A k \in 0 .. Len(s) : f[k] = After(f, k)
    <3> HIDE DEF After
    <3> QED BY <1>3
  <2> QED BY <2>1
<1> QED BY <1>4, <1>5, <1>6

----------------------------------------------------------------------------
\* What they leave

\* Only keeps the elements in V and no other.
Kept(r, s, V, S) ==
    /\ r \in Seq(S)
    /\ \A i \in 1 .. Len(r) : r[i] \in V /\ \E j \in DOMAIN s : r[i] = s[j]
    /\ \A j \in DOMAIN s : s[j] \in V => \E i \in 1 .. Len(r) : r[i] = s[j]

LEMMA OnlyKeeps ==
    ASSUME NEW S, NEW s \in Seq(S), NEW V
    PROVE  Kept(Only(s, V), s, V, S)
<1>1. PICK f : /\ f[0] = <<>>
               /\ \A k \in 1 .. Len(s) :
                     f[k] = IF s[k] \in V THEN Append(f[k - 1], s[k]) ELSE f[k - 1]
               /\ Only(s, V) = f[Len(s)]
  BY OnlySteps
<1> DEFINE Right(k) == /\ f[k] \in Seq(S)
                       /\ \A i \in 1 .. Len(f[k]) :
                             f[k][i] \in V /\ \E j \in DOMAIN s : f[k][i] = s[j]
                       /\ \A j \in 1 .. k : s[j] \in V => \E i \in 1 .. Len(f[k]) : f[k][i] = s[j]
           T == {k \in 0 .. Len(s) : Right(k)}
<1>2. 0 \in T
  <2>1. f[0] \in Seq(S) /\ Len(f[0]) = 0
    BY <1>1
  <2>2. 1 .. Len(f[0]) = {} /\ 1 .. 0 = {} /\ 0 \in 0 .. Len(s)
    BY <2>1
  <2>3. Right(0)
    BY <2>1, <2>2
  <2> HIDE DEF Right
  <2> QED BY <2>2, <2>3
<1>3. ASSUME NEW k \in 1 .. Len(s), k - 1 \in T PROVE k \in T
  <2>1. Right(k - 1)
    BY <1>3
  <2>2. PICK g : g = f[k - 1]
    OBVIOUS
  <2>3. /\ g \in Seq(S)
        /\ \A i \in 1 .. Len(g) : g[i] \in V /\ \E j \in DOMAIN s : g[i] = s[j]
        /\ \A j \in 1 .. (k - 1) : s[j] \in V => \E i \in 1 .. Len(g) : g[i] = s[j]
    BY <2>1, <2>2
  <2>4. s[k] \in S /\ k \in DOMAIN s
    OBVIOUS
  <2>5. CASE s[k] \in V
    <3>1. f[k] = Append(g, s[k])
      BY <1>1, <2>2, <2>5
    <3>2. /\ f[k] \in Seq(S) /\ Len(f[k]) = Len(g) + 1
          /\ \A i \in 1 .. Len(g) : f[k][i] = g[i]
          /\ f[k][Len(g) + 1] = s[k]
      BY <2>3, <2>4, <3>1
    <3>3. \A i \in 1 .. Len(f[k]) : f[k][i] \in V /\ \E j \in DOMAIN s : f[k][i] = s[j]
      BY <2>3, <2>4, <2>5, <3>2
    <3>4. \A j \in 1 .. k : s[j] \in V => \E i \in 1 .. Len(f[k]) : f[k][i] = s[j]
      <4>1. ASSUME NEW j \in 1 .. k, s[j] \in V, j # k
            PROVE  \E i \in 1 .. Len(f[k]) : f[k][i] = s[j]
        <5>1. PICK i \in 1 .. Len(g) : g[i] = s[j]
          BY <2>3, <4>1
        <5>2. i \in 1 .. Len(f[k]) /\ f[k][i] = s[j]
          BY <2>3, <3>2, <5>1
        <5> QED BY <5>2
      <4>2. Len(g) + 1 \in 1 .. Len(f[k]) /\ f[k][Len(g) + 1] = s[k]
        BY <2>3, <3>2
      <4> QED BY <4>1, <4>2
    <3> QED BY <3>2, <3>3, <3>4
  <2>6. CASE s[k] \notin V
    <3>1. f[k] = g
      BY <1>1, <2>2, <2>6
    <3>2. \A j \in 1 .. k : s[j] \in V => j \in 1 .. (k - 1)
      BY <2>6
    <3>3. Right(k) /\ k \in 0 .. Len(s)
      BY <2>3, <3>1, <3>2
    <3> HIDE DEF Right
    <3> QED BY <3>3
  <2> QED BY <2>5, <2>6
<1> HIDE DEF Right
<1>4. T = 0 .. Len(s)
  <2>1. T \in SUBSET (0 .. Len(s))
    OBVIOUS
  <2> HIDE DEF T
  <2> QED BY <1>2, <1>3, <2>1, Climb
<1>5. Right(Len(s))
  BY <1>4
<1>6. DOMAIN s = 1 .. Len(s)
  OBVIOUS
<1> QED BY <1>1, <1>5, <1>6 DEF Right, Kept

Distinct(s) == \A i, j \in DOMAIN s : s[i].sig = s[j].sig => i = j

\* One sample more, unless there is no room or it is there.
Added(r, known, entry, limit) ==
    /\ r \in Seq(Entry) /\ Distinct(r) /\ Len(r) <= limit
    /\ Len(r) \in {Len(known), Len(known) + 1}
    /\ \A i \in 1 .. Len(known) : r[i] = known[i]
    /\ Len(r) = Len(known) + 1 => r[Len(r)] = entry
    /\ Len(known) < limit => entry.sig \in Sigs(r)

LEMMA AddIs ==
    ASSUME NEW known \in Seq(Entry), NEW entry \in Entry, NEW limit \in Nat,
           Distinct(known), Len(known) <= limit
    PROVE  Added(Add(known, entry, limit), known, entry, limit)
<1> DEFINE r == Add(known, entry, limit)
<1>1. CASE Len(known) >= limit \/ entry.sig \in Sigs(known)
  <2>1. r = known
    BY <1>1 DEF Add
  <2> QED BY <1>1, <2>1 DEF Added
<1>2. CASE ~(Len(known) >= limit \/ entry.sig \in Sigs(known))
  <2>1. r = Append(known, entry)
    BY <1>2 DEF Add
  <2>2. /\ r \in Seq(Entry) /\ Len(r) = Len(known) + 1 /\ DOMAIN r = 1 .. Len(known) + 1
        /\ \A i \in 1 .. Len(known) : r[i] = known[i]
        /\ r[Len(known) + 1] = entry
    BY <2>1
  <2>3. \A i \in 1 .. Len(known) : known[i].sig # entry.sig
    BY <1>2 DEF Sigs
  <2>4. Distinct(r)
    BY <2>2, <2>3 DEF Distinct
  <2>5. entry.sig \in Sigs(r)
    BY <2>2 DEF Sigs
  <2> QED BY <1>2, <2>2, <2>4, <2>5 DEF Added
<1> QED BY <1>1, <1>2

\* What FillUp leaves there is, what it adds is of more and marked, nothing is twice and
\* none of more is missing unless there was no room.
Filled(r, entries, more, n, manual, limit) ==
    /\ r \in Seq(Entry) /\ Distinct(r)
    /\ Len(entries) <= Len(r) /\ Len(r) <= limit /\ Len(r) <= Len(entries) + n
    /\ \A i \in 1 .. Len(entries) : r[i] = entries[i]
    /\ \A i \in (Len(entries) + 1) .. Len(r) :
          r[i].manual = manual /\ \E j \in 1 .. n : r[i].sig = more[j]
    /\ Len(r) < limit \/ Len(entries) + n <= limit =>
          \A j \in 1 .. n : \E i \in 1 .. Len(r) : r[i].sig = more[j]

LEMMA FillStep ==
    ASSUME NEW entries \in Seq(Entry), NEW more, NEW manual \in BOOLEAN, NEW limit \in Nat,
           NEW k \in Nat, k # 0, more[k] \in Signatures,
           NEW g, Filled(g, entries, more, k - 1, manual, limit),
           NEW r, r = Add(g, [sig |-> more[k], manual |-> manual], limit)
    PROVE  Filled(r, entries, more, k, manual, limit)
<1>1. PICK entry : entry = [sig |-> more[k], manual |-> manual]
  OBVIOUS
<1>2. r = Add(g, entry, limit) /\ entry \in Entry /\ entry.sig = more[k] /\ entry.manual = manual
  BY <1>1 DEF Entry
<1>3. g \in Seq(Entry) /\ Distinct(g) /\ Len(g) <= limit
  BY DEF Filled
<1>4. /\ r \in Seq(Entry) /\ Distinct(r) /\ Len(r) <= limit
      /\ Len(r) \in {Len(g), Len(g) + 1}
      /\ \A i \in 1 .. Len(g) : r[i] = g[i]
      /\ Len(r) = Len(g) + 1 => r[Len(r)] = entry
      /\ Len(g) < limit => entry.sig \in Sigs(r)
  <2>1. Added(r, g, entry, limit)
    BY <1>2, <1>3, AddIs
  <2> QED BY <2>1 DEF Added
<1>5. PICK a, b, c \in Nat : a = Len(entries) /\ b = Len(g) /\ c = Len(r)
  BY <1>3, <1>4
<1>6. c \in {b, b + 1} /\ a <= b /\ b <= a + (k - 1) /\ c <= limit /\ b <= limit
  BY <1>3, <1>4, <1>5 DEF Filled
<1>7. a <= c /\ c <= a + k
  BY <1>6
<1>8. /\ \A i \in 1 .. a : g[i] = entries[i]
      /\ \A i \in 1 .. b : r[i] = g[i]
      /\ c = b + 1 => r[c] = entry
      /\ b < limit => \E i \in 1 .. c : r[i].sig = more[k]
  <2>1. \A i \in 1 .. a : g[i] = entries[i]
    BY <1>5 DEF Filled
  <2>2. \A i \in 1 .. b : r[i] = g[i]
    BY <1>4, <1>5
  <2>3. c = b + 1 => r[c] = entry
    BY <1>4, <1>5
  <2>4. DOMAIN r = 1 .. c
    BY <1>4, <1>5
  <2>5. b < limit => \E i \in 1 .. c : r[i].sig = more[k]
    BY <1>2, <1>4, <1>5, <2>4 DEF Sigs
  <2> QED BY <2>1, <2>2, <2>3, <2>5
<1>9. /\ \A i \in (a + 1) .. b : g[i].manual = manual /\ \E j \in 1 .. (k - 1) : g[i].sig = more[j]
      /\ b < limit \/ a + (k - 1) <= limit =>
            \A j \in 1 .. (k - 1) : \E i \in 1 .. b : g[i].sig = more[j]
  BY <1>5 DEF Filled
<1>10. \A i \in 1 .. a : r[i] = entries[i]
  <2>1. \A i \in 1 .. a : i \in 1 .. b
    BY <1>6
  <2> QED BY <1>8, <2>1
<1>11. ASSUME NEW i \in (a + 1) .. c
       PROVE  r[i].manual = manual /\ \E j \in 1 .. k : r[i].sig = more[j]
  <2>1. CASE i <= b
    <3>1. i \in (a + 1) .. b /\ i \in 1 .. b
      BY <2>1
    <3>2. r[i] = g[i]
      BY <1>8, <3>1
    <3>3. g[i].manual = manual /\ \E j \in 1 .. (k - 1) : g[i].sig = more[j]
      BY <1>9, <3>1
    <3>4. \A j \in 1 .. (k - 1) : j \in 1 .. k
      OBVIOUS
    <3> QED BY <3>2, <3>3, <3>4
  <2>2. CASE ~(i <= b)
    <3>1. c = b + 1 /\ i = c /\ k \in 1 .. k
      BY <1>6, <2>2
    <3>2. r[i] = entry
      BY <1>8, <3>1
    <3> QED BY <1>2, <3>1, <3>2
  <2> QED BY <2>1, <2>2
<1>12. ASSUME c < limit \/ a + k <= limit, NEW j \in 1 .. k
       PROVE  \E i \in 1 .. c : r[i].sig = more[j]
  <2>1. b < limit
    BY <1>6, <1>12
  <2>2. CASE j = k
    BY <1>8, <2>1, <2>2
  <2>3. CASE j # k
    <3>1. j \in 1 .. (k - 1)
      BY <2>3
    <3>2. PICK i \in 1 .. b : g[i].sig = more[j]
      BY <1>9, <2>1, <3>1
    <3>3. i \in 1 .. c
      BY <1>6
    <3> QED BY <1>8, <3>2, <3>3
  <2> QED BY <2>2, <2>3
<1> QED BY <1>4, <1>5, <1>6, <1>7, <1>10, <1>11, <1>12 DEF Filled

LEMMA FillUpFills ==
    ASSUME NEW entries \in Seq(Entry), NEW more \in Seq(Signatures), NEW manual \in BOOLEAN,
           NEW limit \in Nat, Distinct(entries), Len(entries) <= limit
    PROVE  Filled(FillUp(entries, more, manual, limit), entries, more, Len(more), manual, limit)
<1>1. PICK f : /\ f[0] = entries
               /\ \A k \in 1 .. Len(more) :
                     f[k] = Add(f[k - 1], [sig |-> more[k], manual |-> manual], limit)
               /\ FillUp(entries, more, manual, limit) = f[Len(more)]
  BY FillUpSteps
<1> DEFINE T == {k \in 0 .. Len(more) : Filled(f[k], entries, more, k, manual, limit)}
<1>2. 0 \in T
  <2>1. 1 .. 0 = {} /\ (Len(entries) + 1) .. Len(entries) = {} /\ 0 \in 0 .. Len(more)
    OBVIOUS
  <2>2. Filled(f[0], entries, more, 0, manual, limit)
    BY <1>1, <2>1 DEF Filled
  <2> QED BY <2>1, <2>2
<1>3. ASSUME NEW k \in 1 .. Len(more), k - 1 \in T PROVE k \in T
  <2>1. Filled(f[k - 1], entries, more, k - 1, manual, limit)
    BY <1>3
  <2>2. k \in Nat /\ k # 0 /\ more[k] \in Signatures /\ k \in 0 .. Len(more)
    OBVIOUS
  <2>3. f[k] = Add(f[k - 1], [sig |-> more[k], manual |-> manual], limit)
    BY <1>1
  <2>4. Filled(f[k], entries, more, k, manual, limit)
    BY <2>1, <2>2, <2>3, FillStep
  <2> QED BY <2>2, <2>4
<1>4. T = 0 .. Len(more)
  <2>1. T \in SUBSET (0 .. Len(more))
    OBVIOUS
  <2> HIDE DEF T
  <2> QED BY <1>2, <1>3, <2>1, Climb
<1> QED BY <1>1, <1>4

----------------------------------------------------------------------------
\* The merge

\* Without repetitions there are as many signatures as samples.
LEMMA DistinctCount ==
    ASSUME NEW s \in Seq(Entry), Distinct(s)
    PROVE  Cardinality(Sigs(s)) = Len(s)
<1>1. PICK f : f = [i \in 1 .. Len(s) |-> s[i].sig]
  OBVIOUS
<1>2. f \in [1 .. Len(s) -> Sigs(s)]
  BY <1>1 DEF Sigs
<1>3. f \in Injection(1 .. Len(s), Sigs(s))
  BY <1>1, <1>2 DEF Injection, IsInjective, Distinct
<1>4. f \in Surjection(1 .. Len(s), Sigs(s))
  <2>1. \A t \in Sigs(s) : \E i \in 1 .. Len(s) : f[i] = t
    BY <1>1 DEF Sigs
  <2> QED BY <1>2, <2>1 DEF Surjection
<1>5. ExistsBijection(1 .. Len(s), Sigs(s))
  BY <1>3, <1>4 DEF ExistsBijection, Bijection
<1> QED BY <1>5, FS_CountingElements

\* A sequence has no more signatures than places.
LEMMA SigsCount ==
    ASSUME NEW S, NEW s \in Seq(S)
    PROVE  IsFiniteSet(Sigs(s)) /\ Cardinality(Sigs(s)) <= Len(s)
<1>1. PICK f : f = [i \in 1 .. Len(s) |-> s[i].sig]
  OBVIOUS
<1>2. f \in Surjection(1 .. Len(s), Sigs(s))
  <2>1. f \in [1 .. Len(s) -> Sigs(s)]
    BY <1>1 DEF Sigs
  <2>2. \A t \in Sigs(s) : \E i \in 1 .. Len(s) : f[i] = t
    BY <1>1 DEF Sigs
  <2> QED BY <2>1, <2>2 DEF Surjection
<1>3. IsFiniteSet(1 .. Len(s)) /\ Cardinality(1 .. Len(s)) = Len(s)
  <2>1. Len(s) \in Nat
    OBVIOUS
  <2> QED BY <2>1, FS_Interval
<1> QED BY <1>2, <1>3, FS_Surjection

LEMMA ManualFinite ==
    ASSUME NEW s \in Seq(Entry)
    PROVE  IsFiniteSet(Manual(s)) /\ Used(s) \in Nat /\ Used(s) <= Len(s)
<1>1. IsFiniteSet(1 .. Len(s)) /\ Cardinality(1 .. Len(s)) = Len(s)
  <2>1. Len(s) \in Nat
    OBVIOUS
  <2> QED BY <2>1, FS_Interval
<1>2. Manual(s) \subseteq 1 .. Len(s)
  BY DEF Manual
<1> QED BY <1>1, <1>2, FS_Subset, FS_CardinalityType DEF Used

\* What Merge promises of its result.
Merged(r, setting, manual, generated) ==
    /\ r \in Seq(Entry) /\ Distinct(r)
    /\ Len(r) <= Limit(setting, manual)
    /\ Len(r) < Limit(setting, manual) =>
          Sigs(r) = Sigs(manual) \union {generated[i] : i \in DOMAIN generated}
    /\ setting.all => Sigs(manual) \subseteq Sigs(r)
    /\ Used(r) > Target(setting, manual) => {generated[i] : i \in DOMAIN generated} \subseteq Sigs(r)
    /\ \A i \in Manual(r) : r[i].sig \in Sigs(manual)

LEMMA MergeMerges ==
    ASSUME NEW setting \in Settings, NEW manual \in Seq(Sample), NEW generated \in Corpora
    PROVE  Merged(Merge(setting, manual, generated), setting, manual, generated)
<1>1. PICK sigs, target, limit, a, b, c :
        /\ sigs = [i \in DOMAIN manual |-> manual[i].sig]
        /\ target = Target(setting, manual)
        /\ limit = Limit(setting, manual)
        /\ a = FillUp(<<>>, SubSeq(sigs, 1, target), TRUE, limit)
        /\ b = FillUp(a, generated, FALSE, limit)
        /\ c = FillUp(b, SubSeq(sigs, target + 1, Len(sigs)), TRUE, limit)
  OBVIOUS
<1>2. Merge(setting, manual, generated) = c
  BY <1>1 DEF Merge
<1>3. PICK n \in Nat : n = Len(manual)
  OBVIOUS
<1>4. sigs \in Seq(Signatures) /\ Len(sigs) = n /\ \A i \in 1 .. n : sigs[i] = manual[i].sig
  <2>1. \A i \in 1 .. n : manual[i].sig \in Signatures
    <3>1. \A i \in 1 .. n : manual[i] \in Sample
      BY <1>3
    <3> QED BY <3>1 DEF Sample
  <2>2. DOMAIN manual = 1 .. n
    BY <1>3
  <2>3. sigs = [i \in 1 .. n |-> manual[i].sig]
    BY <1>1, <2>2
  <2> QED BY <2>1, <2>3
<1>5. setting.limit \in Nat /\ setting.halves \in Nat /\ generated \in Seq(Signatures)
  BY EvaluationAssumption
<1>6. /\ target \in Nat /\ target <= n /\ limit \in Nat
      /\ setting.all => target = n /\ n <= limit
  <2>1. PICK share : share = (setting.limit * setting.halves + 1) \div 2
    OBVIOUS
  <2>2. share \in Nat
    <3>1. PICK p \in Nat : p = setting.limit * setting.halves
      BY <1>5
    <3> QED BY <2>1, <3>1
  <2>3. target = IF setting.all \/ share > n THEN n ELSE share
    BY <1>1, <1>3, <2>1 DEF Target
  <2>4. limit = IF setting.all /\ n > setting.limit THEN n ELSE setting.limit
    BY <1>1, <1>3 DEF Limit
  <2> QED BY <1>5, <2>2, <2>3, <2>4
<1>7. PICK front, back : front = SubSeq(sigs, 1, target) /\ back = SubSeq(sigs, target + 1, n)
  OBVIOUS
<1>8. /\ front \in Seq(Signatures) /\ Len(front) = target
      /\ \A i \in 1 .. target : front[i] = manual[i].sig
  <2>1. \A i \in 1 .. target : sigs[i] \in Signatures /\ i \in 1 .. n
    BY <1>4, <1>6
  <2>2. /\ front \in Seq(Signatures)
        /\ Len(front) = IF 1 <= target THEN target - 1 + 1 ELSE 0
        /\ \A i \in 1 .. (target - 1 + 1) : front[i] = sigs[1 + i - 1]
    BY <1>6, <1>7, <2>1, SubSeqProperties
  <2>3. Len(front) = target
    BY <1>6, <2>2
  <2>4. ASSUME NEW i \in 1 .. target PROVE front[i] = manual[i].sig
    <3>1. i \in 1 .. (target - 1 + 1) /\ 1 + i - 1 = i
      BY <1>6
    <3> QED BY <1>4, <2>1, <2>2, <3>1
  <2> QED BY <2>2, <2>3, <2>4
<1>9. /\ back \in Seq(Signatures) /\ Len(back) = n - target
      /\ \A i \in 1 .. (n - target) : back[i] = manual[target + i].sig
  <2>1. \A i \in (target + 1) .. n : sigs[i] \in Signatures /\ i \in 1 .. n
    BY <1>4, <1>6
  <2>2. /\ back \in Seq(Signatures)
        /\ Len(back) = IF target + 1 <= n THEN n - (target + 1) + 1 ELSE 0
        /\ \A i \in 1 .. (n - (target + 1) + 1) : back[i] = sigs[(target + 1) + i - 1]
    BY <1>6, <1>7, <2>1, SubSeqProperties
  <2>3. Len(back) = n - target
    BY <1>6, <2>2
  <2>4. ASSUME NEW i \in 1 .. (n - target) PROVE back[i] = manual[target + i].sig
    <3>1. /\ i \in 1 .. (n - (target + 1) + 1) /\ (target + 1) + i - 1 = target + i
          /\ target + i \in 1 .. n
      BY <1>6
    <3> QED BY <1>4, <2>2, <3>1
  <2> QED BY <2>2, <2>3, <2>4
<1>10. Filled(a, <<>>, front, target, TRUE, limit)
  <2>1. <<>> \in Seq(Entry) /\ Distinct(<<>>) /\ Len(<<>>) <= limit
    BY <1>6 DEF Distinct
  <2> QED BY <1>1, <1>6, <1>7, <1>8, <2>1, FillUpFills
<1>11. Filled(b, a, generated, Len(generated), FALSE, limit)
  <2>1. a \in Seq(Entry) /\ Distinct(a) /\ Len(a) <= limit
    BY <1>10 DEF Filled
  <2> QED BY <1>1, <1>5, <1>6, <2>1, FillUpFills
<1>12. Filled(c, b, back, n - target, TRUE, limit)
  <2>1. b \in Seq(Entry) /\ Distinct(b) /\ Len(b) <= limit
    BY <1>11 DEF Filled
  <2>2. c = FillUp(b, back, TRUE, limit)
    BY <1>1, <1>4, <1>7
  <2>3. Filled(c, b, back, Len(back), TRUE, limit)
    BY <1>6, <1>9, <2>1, <2>2, FillUpFills
  <2> QED BY <1>9, <2>3
<1>13. PICK p, q, w \in Nat : p = Len(a) /\ q = Len(b) /\ w = Len(c)
  BY <1>10, <1>11, <1>12 DEF Filled
<1>14. /\ p <= target /\ p <= q /\ q <= w /\ w <= limit
       /\ DOMAIN a = 1 .. p /\ DOMAIN b = 1 .. q /\ DOMAIN c = 1 .. w
       /\ c \in Seq(Entry) /\ Distinct(c)
  <2>1. p <= 0 + target /\ DOMAIN a = 1 .. p
    BY <1>10, <1>13 DEF Filled
  <2>2. p <= q /\ DOMAIN b = 1 .. q
    BY <1>11, <1>13 DEF Filled
  <2>3. q <= w /\ w <= limit /\ DOMAIN c = 1 .. w /\ c \in Seq(Entry) /\ Distinct(c)
    BY <1>12, <1>13 DEF Filled
  <2> QED BY <1>6, <2>1, <2>2, <2>3
<1>15. \A i \in 1 .. p : c[i] = a[i] /\ a[i].manual = TRUE /\ \E j \in 1 .. target : a[i].sig = front[j]
  <2>1. \A i \in (0 + 1) .. p : a[i].manual = TRUE /\ \E j \in 1 .. target : a[i].sig = front[j]
    BY <1>10, <1>13 DEF Filled
  <2>2. \A i \in 1 .. p : b[i] = a[i]
    BY <1>11, <1>13 DEF Filled
  <2>3. \A i \in 1 .. q : c[i] = b[i]
    BY <1>12, <1>13 DEF Filled
  <2>4. \A i \in 1 .. p : i \in 1 .. q /\ i \in (0 + 1) .. p
    BY <1>14
  <2> QED BY <2>1, <2>2, <2>3, <2>4
<1>16. \A i \in (p + 1) .. q : /\ c[i] = b[i] /\ b[i].manual = FALSE
                               /\ \E j \in DOMAIN generated : b[i].sig = generated[j]
  <2>1. \A i \in (p + 1) .. q : b[i].manual = FALSE
                                /\ \E j \in 1 .. Len(generated) : b[i].sig = generated[j]
    BY <1>11, <1>13 DEF Filled
  <2>2. \A i \in 1 .. q : c[i] = b[i]
    BY <1>12, <1>13 DEF Filled
  <2>3. \A i \in (p + 1) .. q : i \in 1 .. q
    OBVIOUS
  <2>4. DOMAIN generated = 1 .. Len(generated)
    BY <1>5
  <2> QED BY <2>1, <2>2, <2>3, <2>4
<1>17. \A i \in (q + 1) .. w : c[i].manual = TRUE /\ \E j \in 1 .. (n - target) : c[i].sig = back[j]
  BY <1>12, <1>13 DEF Filled
<1>18. /\ \A j \in 1 .. target : front[j] \in Sigs(manual)
       /\ \A j \in 1 .. (n - target) : back[j] \in Sigs(manual)
  <2>1. DOMAIN manual = 1 .. n
    BY <1>3
  <2>2. \A j \in 1 .. target : j \in 1 .. n
    BY <1>6
  <2>3. \A j \in 1 .. (n - target) : target + j \in 1 .. n
    BY <1>6
  <2> QED BY <1>8, <1>9, <2>1, <2>2, <2>3 DEF Sigs
<1>19. \A i \in 1 .. w : i \in 1 .. p \/ i \in (p + 1) .. q \/ i \in (q + 1) .. w
  BY <1>14
<1>20. \A i \in Manual(c) : c[i].sig \in Sigs(manual)
  BY <1>14, <1>15, <1>16, <1>17, <1>18, <1>19 DEF Manual
<1>21. Sigs(a) \subseteq Sigs(c) /\ Sigs(b) \subseteq Sigs(c)
  <2>1. \A i \in 1 .. p : i \in 1 .. w
    BY <1>14
  <2>2. \A i \in 1 .. q : i \in 1 .. w /\ c[i] = b[i]
    BY <1>12, <1>13, <1>14 DEF Filled
  <2> QED BY <1>14, <1>15, <2>1, <2>2 DEF Sigs
<1>22. p < limit \/ target <= limit => \A j \in 1 .. target : front[j] \in Sigs(c)
  <2>1. p < limit \/ 0 + target <= limit =>
           \A j \in 1 .. target : \E i \in 1 .. p : a[i].sig = front[j]
    BY <1>10, <1>13 DEF Filled
  <2>2. (\A j \in 1 .. target : \E i \in 1 .. p : a[i].sig = front[j]) =>
           \A j \in 1 .. target : front[j] \in Sigs(c)
    BY <1>14, <1>21 DEF Sigs
  <2>3. 0 + target = target
    BY <1>6
  <2> QED BY <2>1, <2>2, <2>3
<1>23. q < limit => {generated[i] : i \in DOMAIN generated} \subseteq Sigs(c)
  <2>1. q < limit => \A j \in 1 .. Len(generated) : \E i \in 1 .. q : b[i].sig = generated[j]
    BY <1>11, <1>13 DEF Filled
  <2>2. DOMAIN generated = 1 .. Len(generated)
    BY <1>5
  <2> QED BY <1>14, <1>21, <2>1, <2>2 DEF Sigs
<1>24. w < limit => \A j \in 1 .. (n - target) : back[j] \in Sigs(c)
  <2>1. w < limit => \A j \in 1 .. (n - target) : \E i \in 1 .. w : c[i].sig = back[j]
    BY <1>12, <1>13 DEF Filled
  <2> QED BY <1>14, <2>1 DEF Sigs
<1>25. Sigs(c) \subseteq Sigs(manual) \union {generated[i] : i \in DOMAIN generated}
  <2>1. \A i \in 1 .. p : c[i].sig \in Sigs(manual)
    BY <1>15, <1>18
  <2>2. \A i \in (p + 1) .. q : c[i].sig \in {generated[j] : j \in DOMAIN generated}
    BY <1>16
  <2>3. \A i \in (q + 1) .. w : c[i].sig \in Sigs(manual)
    BY <1>17, <1>18
  <2>4. \A s \in Sigs(c) : \E i \in 1 .. w : s = c[i].sig
    BY <1>14 DEF Sigs
  <2> QED BY <1>19, <2>1, <2>2, <2>3, <2>4
<1>26. ASSUME w < limit PROVE Sigs(manual) \subseteq Sigs(c)
  <2>1. ASSUME NEW i \in 1 .. n PROVE manual[i].sig \in Sigs(c)
    <3>1. CASE i <= target
      <4>1. p <= q /\ q <= w /\ limit \in Nat
        BY <1>6, <1>14
      <4>2. i \in 1 .. target /\ p < limit
        BY <1>6, <1>26, <3>1, <4>1
      <4> QED BY <1>8, <1>22, <4>2
    <3>2. CASE ~(i <= target)
      <4>1. i - target \in 1 .. (n - target) /\ target + (i - target) = i
        BY <1>6, <3>2
      <4> QED BY <1>9, <1>24, <1>26, <4>1
    <3> QED BY <3>1, <3>2
  <2> QED BY <1>3, <2>1 DEF Sigs
<1>27. ASSUME setting.all PROVE Sigs(manual) \subseteq Sigs(c)
  <2>1. target = n /\ target <= limit
    BY <1>6, <1>27
  <2>2. \A i \in 1 .. n : manual[i].sig \in Sigs(c)
    BY <1>8, <1>22, <2>1
  <2> QED BY <1>3, <2>2 DEF Sigs
<1>28. ASSUME Used(c) > target, ~(q < limit) PROVE FALSE
  <2>1. w = q
    BY <1>6, <1>14, <1>28
  <2>2. Manual(c) \subseteq 1 .. p
    <3>1. \A i \in Manual(c) : i \in 1 .. w /\ c[i].manual
      BY <1>14 DEF Manual
    <3>2. (q + 1) .. w = {}
      BY <2>1
    <3> QED BY <1>16, <1>19, <3>1, <3>2
  <2>3. IsFiniteSet(1 .. p) /\ Cardinality(1 .. p) = p
    BY FS_Interval
  <2>4. Cardinality(Manual(c)) <= p /\ Cardinality(Manual(c)) \in Nat
    BY <2>2, <2>3, FS_Subset, FS_CardinalityType
  <2> QED BY <1>6, <1>14, <1>28, <2>4 DEF Used
<1>29. Merged(c, setting, manual, generated)
  <2>1. w < limit => Sigs(c) = Sigs(manual) \union {generated[i] : i \in DOMAIN generated}
    <3>1. w < limit => q < limit
      BY <1>6, <1>14
    <3> QED BY <1>23, <1>25, <1>26, <3>1
  <2>2. Used(c) > target => {generated[i] : i \in DOMAIN generated} \subseteq Sigs(c)
    BY <1>23, <1>28
  <2> QED BY <1>1, <1>13, <1>14, <1>20, <1>27, <2>1, <2>2 DEF Merged
<1> QED BY <1>2, <1>29

----------------------------------------------------------------------------
\* The inductive invariant of samples and files

\* What is owed when a request about samples has saved them.
OwedAfter(e) ==
    (IF edit[e].kind = "append" THEN owed ELSE owed \ {edit[e].sample.sig})
      \union (IF edit[e].kind = "delete" THEN {} ELSE {edit[e].sig})

DistinctIds == \A i, j \in DOMAIN samples.value : samples.value[i].id = samples.value[j].id => i = j

\* Unless two requests have overlapped, the file is what the last one has saved, or empty
\* while one writes.
Alternate ==
    /\ \A e, f \in Editors : edit[e].pc # "idle" /\ edit[f].pc # "idle" => e = f
    /\ samples.state # "garbled"
    /\ samples.state = "absent" => samples.value = <<>>
    /\ \A e \in Editors : edit[e].pc = "open" => samples.state = "empty"
    /\ samples.state = "empty" => \E e \in Editors : edit[e].pc = "open"

\* Nothing that is owed is missing, in the file or in what a request is about to save.
NothingLost ==
    /\ owed \subseteq Sigs(samples.value)
    /\ \A e \in Editors : edit[e].pc # "idle" => OwedAfter(e) \subseteq Sigs(edit[e].items)

SamplesOK ==
    /\ doubled \/ DistinctIds
    /\ raced \/ Alternate
    /\ raced \/ doubled \/ NothingLost

\* An evaluation has merged the samples it has read, and they were all there were.
MergedOK ==
    \A v \in Evaluations : run[v].pc # "idle" =>
        /\ Merged(run[v].entries, run[v].setting, run[v].manual, run[v].generated)
        /\ run[v].sure => run[v].owed \subseteq Sigs(run[v].manual)

\* A report counts the samples of its evaluation.
ReportCounts ==
    ~report.value.legacy =>
        /\ report.value.by \in Evaluations
        /\ run[report.value.by].pc \notin {"idle", "score", "stamped", "report"}
        /\ report.value.total = Len(run[report.value.by].manual)
        /\ report.value.used = Used(run[report.value.by].entries)

\* One writes after the other, and then the two files are of the same evaluation.
OneWrites ==
    /\ \A v, w \in Evaluations : Writing(v) /\ Writing(w) => v = w
    /\ \A v \in Evaluations :
          run[v].pc \in {"markdown", "dataset"} => ~report.value.legacy /\ report.value.by = v
    /\ \A v \in Evaluations : run[v].pc = "dataset" => dataset.state = "empty"
    /\ (\A v \in Evaluations : ~Writing(v)) /\ ~report.value.legacy =>
          dataset.state = "whole" /\ dataset.value = run[report.value.by].entries

CountInv == TypeOK /\ SamplesOK /\ MergedOK /\ ReportCounts /\ (clashed \/ OneWrites)

----------------------------------------------------------------------------
\* What requests make of the samples

LEMMA LoadTyped ==
    ASSUME TypeOK
    PROVE  Load \in Seq(Sample) /\ samples.value \in Seq(Sample)
           /\ \A x \in Range(Load) : x \in Sample
<1>1. samples.value \in Seq(Sample)
  BY DEF TypeOK, File
<1>2. <<>> \in Seq(Sample)
  OBVIOUS
<1>3. Load \in Seq(Sample)
  BY <1>1, <1>2 DEF Load
<1>4. \A i \in DOMAIN Load : Load[i] \in Sample
  BY <1>3
<1> QED BY <1>1, <1>3, <1>4 DEF Range

LEMMA StampedTyped ==
    ASSUME TypeOK, NEW id \in Signatures, NEW sig \in Signatures
    PROVE  Stamped(id, sig) \in Sample /\ Stamped(id, sig).sig = sig
BY DEF TypeOK, Stamped, Sample

LEMMA AppendedIs ==
    ASSUME TypeOK, NEW sig \in Signatures
    PROVE  Appended(sig) \in Seq(Sample) /\ Sigs(Load) \union {sig} \subseteq Sigs(Appended(sig))
<1>1. PICK s, V, r : s = Load /\ V = {x \in Range(s) : x.sig # sig} /\ r = Only(s, V)
  OBVIOUS
<1>2. s \in Seq(Sample)
  BY <1>1, LoadTyped
<1>3. /\ r \in Seq(Sample)
      /\ \A j \in DOMAIN s : s[j] \in V => \E i \in DOMAIN r : r[i] = s[j]
  <2>1. Kept(r, s, V, Sample)
    BY <1>1, <1>2, OnlyKeeps
  <2>2. r \in Seq(Sample)
    BY <2>1 DEF Kept
  <2>3. DOMAIN r = 1 .. Len(r)
    BY <2>2
  <2> QED BY <2>1, <2>2, <2>3 DEF Kept
<1>4. PICK x \in Sample : x = Stamped(sig, sig) /\ x.sig = sig
  BY StampedTyped
<1>5. Appended(sig) = <<x>> \o r
  BY <1>1, <1>4 DEF Appended
<1>6. PICK t : t = <<x>> \o r
  OBVIOUS
<1>7. /\ t \in Seq(Sample) /\ DOMAIN t = 1 .. (Len(r) + 1) /\ t[1] = x
      /\ \A i \in 1 .. Len(r) : t[i + 1] = r[i]
  BY <1>3, <1>6
<1>8. sig \in Sigs(t)
  BY <1>3, <1>4, <1>7 DEF Sigs
<1>9. ASSUME NEW j \in DOMAIN s PROVE s[j].sig \in Sigs(t)
  <2>1. CASE s[j].sig = sig
    BY <1>8, <2>1
  <2>2. CASE s[j].sig # sig
    <3>1. s[j] \in V
      BY <1>1, <2>2 DEF Range
    <3>2. PICK i \in DOMAIN r : r[i] = s[j]
      BY <1>3, <3>1
    <3>3. i \in 1 .. Len(r) /\ i + 1 \in 1 .. (Len(r) + 1)
      BY <1>3
    <3>4. t[i + 1] = s[j] /\ i + 1 \in DOMAIN t
      BY <1>7, <3>2, <3>3
    <3> QED BY <3>4 DEF Sigs
  <2> QED BY <2>1, <2>2
<1>10. Sigs(s) \subseteq Sigs(t)
  BY <1>9 DEF Sigs
<1> QED BY <1>1, <1>5, <1>6, <1>7, <1>8, <1>10

LEMMA UpdatedIs ==
    ASSUME TypeOK, NEW x \in Range(Load), NEW sig \in Signatures
    PROVE  /\ Updated(x.id, sig) \in Seq(Sample)
           /\ (\A i, j \in DOMAIN Load : Load[i].id = Load[j].id => i = j) =>
                 (Sigs(Load) \ {x.sig}) \union {sig} \subseteq Sigs(Updated(x.id, sig))
<1>1. PICK s, t : s = Load /\ t = Updated(x.id, sig)
  OBVIOUS
<1>2. s \in Seq(Sample) /\ x \in Sample
  BY <1>1, LoadTyped
<1>3. PICK y \in Sample : y = Stamped(x.id, sig) /\ y.sig = sig
  <2>1. x.id \in Signatures
    BY <1>2 DEF Sample
  <2> QED BY <2>1, StampedTyped
<1>4. t = [i \in DOMAIN s |-> IF s[i].id = x.id THEN y ELSE s[i]]
  BY <1>1, <1>3 DEF Updated
<1>5. t \in Seq(Sample)
  <2>1. \A i \in 1 .. Len(s) : (IF s[i].id = x.id THEN y ELSE s[i]) \in Sample
    BY <1>2
  <2>2. DOMAIN s = 1 .. Len(s) /\ Len(s) \in Nat
    BY <1>2
  <2> QED BY <1>4, <2>1, <2>2
<1>6. ASSUME \A i, j \in DOMAIN s : s[i].id = s[j].id => i = j
      PROVE  (Sigs(s) \ {x.sig}) \union {sig} \subseteq Sigs(t)
  <2>1. PICK k \in DOMAIN s : s[k] = x
    BY <1>1 DEF Range
  <2>2. t[k] = y
    BY <1>4, <2>1
  <2>3. sig \in Sigs(t)
    BY <1>3, <1>4, <2>2 DEF Sigs
  <2>4. ASSUME NEW i \in DOMAIN s, s[i].sig # x.sig PROVE s[i].sig \in Sigs(t)
    <3>1. s[i].id # x.id
      BY <1>6, <2>1, <2>4
    <3>2. t[i] = s[i]
      BY <1>4, <3>1
    <3> QED BY <1>4, <3>2 DEF Sigs
  <2> QED BY <2>3, <2>4 DEF Sigs
<1> QED BY <1>1, <1>5, <1>6

LEMMA RemainingIs ==
    ASSUME TypeOK, NEW x \in Range(Load)
    PROVE  /\ Remaining(x.id) \in Seq(Sample)
           /\ (\A i, j \in DOMAIN Load : Load[i].id = Load[j].id => i = j) =>
                 Sigs(Load) \ {x.sig} \subseteq Sigs(Remaining(x.id))
<1>1. PICK s, V, r : s = Load /\ V = {y \in Range(s) : y.id # x.id} /\ r = Only(s, V)
  OBVIOUS
<1>2. s \in Seq(Sample)
  BY <1>1, LoadTyped
<1>3. /\ r \in Seq(Sample)
      /\ \A j \in DOMAIN s : s[j] \in V => \E i \in DOMAIN r : r[i] = s[j]
  <2>1. Kept(r, s, V, Sample)
    BY <1>1, <1>2, OnlyKeeps
  <2>2. r \in Seq(Sample)
    BY <2>1 DEF Kept
  <2>3. DOMAIN r = 1 .. Len(r)
    BY <2>2
  <2> QED BY <2>1, <2>2, <2>3 DEF Kept
<1>4. Remaining(x.id) = r
  BY <1>1 DEF Remaining
<1>5. ASSUME \A i, j \in DOMAIN s : s[i].id = s[j].id => i = j,
             NEW i \in DOMAIN s, s[i].sig # x.sig
      PROVE  s[i].sig \in Sigs(r)
  <2>1. PICK k \in DOMAIN s : s[k] = x
    BY <1>1 DEF Range
  <2>2. s[i].id # x.id
    BY <1>5, <2>1
  <2>3. s[i] \in V
    BY <1>1, <2>2 DEF Range
  <2> QED BY <1>3, <2>3 DEF Sigs
<1>6. (\A i, j \in DOMAIN s : s[i].id = s[j].id => i = j) => Sigs(s) \ {x.sig} \subseteq Sigs(r)
  BY <1>5 DEF Sigs
<1> QED BY <1>1, <1>3, <1>4, <1>6

----------------------------------------------------------------------------
\* Requests about samples

\* They leave the evaluations and their files.
LEMMA EditsLeaveRuns ==
    ASSUME CountInv, run' = run, report' = report, dataset' = dataset, clashed' = clashed,
           TypeOK', SamplesOK'
    PROVE  CountInv'
BY DEF CountInv, MergedOK, ReportCounts, OneWrites, Writing

LEMMA BeginKeeps ==
    ASSUME TypeOK, SamplesOK, NEW e \in Editors, NEW kind \in {"append", "update", "delete"},
           NEW sample \in Sample, NEW sig \in Signatures, NEW items \in Seq(Sample),
           BeginEdit(e, kind, sample, sig, items),
           ~raced /\ ~doubled /\ Editing = {} =>
              (IF kind = "append" THEN owed ELSE owed \ {sample.sig})
                \union (IF kind = "delete" THEN {} ELSE {sig}) \subseteq Sigs(items)
    PROVE  TypeOK' /\ SamplesOK'
<1>1. /\ edit[e].pc = "idle" /\ made < MaxMade /\ made' = made + 1
      /\ raced' = (raced \/ Editing # {}) /\ doubled' = doubled /\ clashed' = clashed
      /\ before' = before
      /\ clock' = clock /\ samples' = samples /\ report' = report /\ dataset' = dataset
      /\ run' = run /\ owed' = owed
  BY DEF BeginEdit, files
<1>2. PICK x : x = [pc |-> "loaded", kind |-> kind, sample |-> sample, sig |-> sig,
                    items |-> items]
  OBVIOUS
<1>3. /\ x \in Edit /\ x.pc = "loaded" /\ x.kind = kind /\ x.sample = sample /\ x.sig = sig
      /\ x.items = items
  BY <1>2 DEF Edit
<1>4. edit \in [Editors -> Edit] /\ edit' = [edit EXCEPT ![e] = x]
  BY <1>2 DEF TypeOK, BeginEdit
<1>5. edit' \in [Editors -> Edit] /\ edit'[e] = x /\ \A f \in Editors : f # e => edit'[f] = edit[f]
  BY <1>3, <1>4
<1>6. made' \in 0 .. MaxMade
  BY <1>1, EvaluationAssumption DEF TypeOK
<1>7. raced' \in BOOLEAN
  BY <1>1 DEF TypeOK
<1>8. TypeOK'
  BY <1>1, <1>5, <1>6, <1>7 DEF TypeOK
<1>9. doubled' \/ DistinctIds'
  BY <1>1 DEF SamplesOK, DistinctIds
<1>10. ASSUME ~raced' PROVE Alternate'
  <2>1. ~raced /\ Alternate /\ \A f \in Editors : edit[f].pc = "idle"
    BY <1>1, <1>10 DEF SamplesOK, Editing
  <2>2. \A f \in Editors : edit'[f].pc # "idle" => f = e
    BY <1>5, <2>1
  <2>3. \A f \in Editors : edit'[f].pc # "open" /\ edit[f].pc # "open"
    BY <1>3, <1>5, <2>1
  <2> QED BY <1>1, <2>1, <2>2, <2>3 DEF Alternate
<1>11. ASSUME ~raced', ~doubled' PROVE NothingLost'
  <2>1. ~raced /\ ~doubled /\ NothingLost /\ Editing = {}
        /\ \A f \in Editors : edit[f].pc = "idle"
    BY <1>1, <1>11 DEF SamplesOK, Editing
  <2>2. \A f \in Editors : edit'[f].pc # "idle" => f = e
    BY <1>5, <2>1
  <2>3. OwedAfter(e)' \subseteq Sigs(edit'[e].items)
    BY <1>1, <1>3, <1>5, <2>1 DEF OwedAfter
  <2>4. owed' \subseteq Sigs(samples'.value)
    BY <1>1, <2>1 DEF NothingLost
  <2> QED BY <2>2, <2>3, <2>4 DEF NothingLost
<1> QED BY <1>8, <1>9, <1>10, <1>11 DEF SamplesOK

\* Whoever begins alone reads what is owed.
LEMMA ReadsAll ==
    ASSUME TypeOK, SamplesOK, ~raced, ~doubled, \A e \in Editors : edit[e].pc # "open"
    PROVE  owed \subseteq Sigs(Load) /\ \A i, j \in DOMAIN Load : Load[i].id = Load[j].id => i = j
<1>1. Alternate /\ NothingLost /\ DistinctIds
  BY DEF SamplesOK
<1>2. samples.state \in {"absent", "whole"}
  BY <1>1 DEF Alternate, TypeOK, File
<1>3. Load = samples.value
  BY <1>1, <1>2 DEF Load, Alternate
<1> QED BY <1>1, <1>3 DEF NothingLost, DistinctIds

LEMMA BeginsKeepCountInv ==
    ASSUME CountInv, NEW e \in Editors, AppendSample(e) \/ UpdateSample(e) \/ DeleteSample(e)
    PROVE  CountInv'
<1>1. TypeOK /\ SamplesOK
  BY DEF CountInv
<1>2. Editing = {} => \A f \in Editors : edit[f].pc # "open"
  BY DEF Editing
<1>3. ASSUME NEW sig \in Signatures, BeginEdit(e, "append", Stamped(sig, sig), sig, Appended(sig))
      PROVE  TypeOK' /\ SamplesOK'
  <2>1. PICK x \in Sample, items \in Seq(Sample) : x = Stamped(sig, sig) /\ items = Appended(sig)
    BY <1>1, StampedTyped, AppendedIs
  <2>2. Sigs(Load) \union {sig} \subseteq Sigs(items)
    BY <1>1, <2>1, AppendedIs
  <2>3. ~raced /\ ~doubled /\ Editing = {} => owed \union {sig} \subseteq Sigs(items)
    BY <1>1, <1>2, <2>2, ReadsAll
  <2>4. BeginEdit(e, "append", x, sig, items)
    BY <1>3, <2>1
  <2> QED BY <1>1, <2>3, <2>4, BeginKeeps
<1>4. ASSUME NEW x \in Range(Load), NEW sig \in Signatures,
             BeginEdit(e, "update", x, sig, Updated(x.id, sig))
      PROVE  TypeOK' /\ SamplesOK'
  <2>1. PICK items \in Seq(Sample) : items = Updated(x.id, sig)
    BY <1>1, UpdatedIs
  <2>2. (\A i, j \in DOMAIN Load : Load[i].id = Load[j].id => i = j) =>
           (Sigs(Load) \ {x.sig}) \union {sig} \subseteq Sigs(items)
    BY <1>1, <2>1, UpdatedIs
  <2>3. ~raced /\ ~doubled /\ Editing = {} => (owed \ {x.sig}) \union {sig} \subseteq Sigs(items)
    BY <1>1, <1>2, <2>2, ReadsAll
  <2>4. BeginEdit(e, "update", x, sig, items) /\ x \in Sample
    BY <1>1, <1>4, <2>1, LoadTyped
  <2> QED BY <1>1, <2>3, <2>4, BeginKeeps
<1>5. ASSUME NEW x \in Range(Load), BeginEdit(e, "delete", x, x.sig, Remaining(x.id))
      PROVE  TypeOK' /\ SamplesOK'
  <2>1. PICK items \in Seq(Sample) : items = Remaining(x.id)
    BY <1>1, RemainingIs
  <2>2. (\A i, j \in DOMAIN Load : Load[i].id = Load[j].id => i = j) =>
           Sigs(Load) \ {x.sig} \subseteq Sigs(items)
    BY <1>1, <2>1, RemainingIs
  <2>3. ~raced /\ ~doubled /\ Editing = {} => (owed \ {x.sig}) \union {} \subseteq Sigs(items)
    BY <1>1, <1>2, <2>2, ReadsAll
  <2>4. PICK sig \in Signatures : sig = x.sig
    BY <1>1, LoadTyped DEF Sample
  <2>5. BeginEdit(e, "delete", x, sig, items) /\ x \in Sample
    BY <1>1, <1>5, <2>1, <2>4, LoadTyped
  <2> QED BY <1>1, <2>3, <2>5, BeginKeeps
<1>6. run' = run /\ report' = report /\ dataset' = dataset /\ clashed' = clashed /\ before' = before
  BY DEF AppendSample, UpdateSample, DeleteSample, BeginEdit, files
<1>7. TypeOK' /\ SamplesOK'
  BY <1>3, <1>4, <1>5 DEF AppendSample, UpdateSample, DeleteSample
<1> QED BY <1>6, <1>7, EditsLeaveRuns

LEMMA OpenKeepsCountInv ==
    ASSUME CountInv, NEW e \in Editors, OpenSamples(e) PROVE CountInv'
<1>1. TypeOK /\ SamplesOK
  BY DEF CountInv
<1>2. /\ edit[e].pc = "loaded" /\ samples' = [samples EXCEPT !.state = "empty"]
      /\ edit' = [edit EXCEPT ![e].pc = "open"]
      /\ clock' = clock /\ report' = report /\ dataset' = dataset /\ run' = run /\ made' = made
      /\ owed' = owed /\ raced' = raced /\ doubled' = doubled /\ clashed' = clashed
      /\ before' = before
  BY DEF OpenSamples, Opened
<1>3. PICK x : x = [edit[e] EXCEPT !.pc = "open"]
  OBVIOUS
<1>4. edit[e] \in Edit /\ edit \in [Editors -> Edit]
  BY <1>1 DEF TypeOK
<1>5. /\ x \in Edit /\ x.pc = "open" /\ x.kind = edit[e].kind /\ x.sample = edit[e].sample
      /\ x.sig = edit[e].sig /\ x.items = edit[e].items
  BY <1>3, <1>4 DEF Edit
<1>6. /\ edit' \in [Editors -> Edit] /\ edit'[e] = x
      /\ \A f \in Editors : f # e => edit'[f] = edit[f]
  <2>1. edit' = [edit EXCEPT ![e] = x]
    BY <1>2, <1>3
  <2> QED BY <1>4, <1>5, <2>1
<1>7. /\ samples' \in File(Seq(Sample)) /\ samples'.state = "empty"
      /\ samples'.value = samples.value
  BY <1>1, <1>2 DEF TypeOK, File
<1>8. TypeOK'
  BY <1>1, <1>2, <1>6, <1>7 DEF TypeOK
<1>9. doubled' \/ DistinctIds'
  BY <1>1, <1>2, <1>7 DEF SamplesOK, DistinctIds
<1>10. ASSUME ~raced' PROVE Alternate'
  <2>1. Alternate /\ \A f \in Editors : f # e => edit[f].pc = "idle"
    BY <1>1, <1>2, <1>10 DEF SamplesOK, Alternate
  <2>2. \A f \in Editors : edit'[f].pc # "idle" => f = e
    BY <1>6, <2>1
  <2> QED BY <1>5, <1>6, <1>7, <2>2 DEF Alternate
<1>11. ASSUME ~raced', ~doubled' PROVE NothingLost'
  <2>1. NothingLost
    BY <1>1, <1>2, <1>11 DEF SamplesOK
  <2>2. \A f \in Editors : /\ OwedAfter(f)' = OwedAfter(f) /\ edit'[f].items = edit[f].items
                           /\ edit'[f].pc # "idle" => edit[f].pc # "idle"
    BY <1>2, <1>5, <1>6 DEF OwedAfter
  <2>3. owed' \subseteq Sigs(samples'.value)
    BY <1>2, <1>7, <2>1 DEF NothingLost
  <2> QED BY <2>1, <2>2, <2>3 DEF NothingLost
<1> QED BY <1>2, <1>8, <1>9, <1>10, <1>11, EditsLeaveRuns DEF SamplesOK

LEMMA IdleEditTyped == IdleEdit \in Edit /\ IdleEdit.pc = "idle"
<1>1. SomeSignature \in Signatures
  BY EvaluationAssumption DEF SomeSignature
<1>2. NoSample \in Sample
  BY <1>1, EvaluationAssumption DEF NoSample, Sample
<1>3. <<>> \in Seq(Sample)
  OBVIOUS
<1> QED BY <1>1, <1>2, <1>3 DEF IdleEdit, Edit

\* Editor e ends.
LEMMA EditorEnds ==
    ASSUME TypeOK, NEW e \in Editors, edit' = [edit EXCEPT ![e] = IdleEdit]
    PROVE  /\ edit' \in [Editors -> Edit] /\ edit'[e].pc = "idle"
           /\ \A f \in Editors : f # e => edit'[f] = edit[f]
BY IdleEditTyped DEF TypeOK

LEMMA SaveKeepsCountInv ==
    ASSUME CountInv, NEW e \in Editors, SaveSamples(e) PROVE CountInv'
<1>1. TypeOK /\ SamplesOK
  BY DEF CountInv
<1>2. PICK items, owes : items = edit[e].items /\ owes = OwedAfter(e)
  OBVIOUS
<1>3. /\ edit[e].pc = "open" /\ edit' = [edit EXCEPT ![e] = IdleEdit]
      /\ samples' \in Written(samples, items) /\ owed' = owes
      /\ clock' = clock /\ report' = report /\ dataset' = dataset /\ run' = run /\ made' = made
      /\ raced' = raced /\ clashed' = clashed /\ before' = before
      /\ doubled' = (doubled \/ \E i, j \in DOMAIN items : i # j /\ items[i].id = items[j].id)
  BY <1>2 DEF SaveSamples, OwedAfter
<1>4. edit[e] \in Edit /\ items \in Seq(Sample)
  BY <1>1, <1>2 DEF TypeOK, Edit
<1>5. PICK s \in {"whole", "garbled"} : /\ samples' = [state |-> s, value |-> items]
                                        /\ samples.state = "empty" => s = "whole"
  BY <1>3 DEF Written
<1>6. samples' \in File(Seq(Sample)) /\ samples'.state = s /\ samples'.value = items
  BY <1>4, <1>5 DEF File
<1>7. /\ edit' \in [Editors -> Edit] /\ edit'[e].pc = "idle"
      /\ \A f \in Editors : f # e => edit'[f] = edit[f]
  BY <1>1, <1>3, EditorEnds
<1>8. owed' \subseteq Signatures
  BY <1>1, <1>2, <1>3, <1>4 DEF TypeOK, OwedAfter, Edit, Sample
<1>9. doubled' \in BOOLEAN
  BY <1>1, <1>3 DEF TypeOK
<1>10. TypeOK'
  BY <1>1, <1>3, <1>6, <1>7, <1>8, <1>9 DEF TypeOK
<1>11. doubled' \/ DistinctIds'
  BY <1>3, <1>6 DEF DistinctIds
<1>12. ASSUME ~raced' PROVE Alternate' /\ \A f \in Editors : edit'[f].pc = "idle"
  <2>1. Alternate
    BY <1>1, <1>3, <1>12 DEF SamplesOK
  <2>2. s = "whole"
    BY <1>3, <1>5, <2>1 DEF Alternate
  <2>3. \A f \in Editors : edit'[f].pc = "idle"
    BY <1>3, <1>7, <2>1 DEF Alternate
  <2> QED BY <1>6, <2>2, <2>3 DEF Alternate
<1>13. ASSUME ~raced', ~doubled' PROVE NothingLost'
  <2>1. NothingLost
    BY <1>1, <1>3, <1>13 DEF SamplesOK
  <2>2. owes \subseteq Sigs(items)
    BY <1>2, <1>3, <2>1 DEF NothingLost
  <2> QED BY <1>3, <1>6, <1>12, <1>13, <2>2 DEF NothingLost
<1> QED BY <1>3, <1>10, <1>11, <1>12, <1>13, EditsLeaveRuns DEF SamplesOK

LEMMA LoseKeepsCountInv ==
    ASSUME CountInv, NEW e \in Editors, LoseEdit(e) PROVE CountInv'
<1>1. TypeOK /\ SamplesOK
  BY DEF CountInv
<1>2. /\ edit[e].pc # "idle" /\ edit' = [edit EXCEPT ![e] = IdleEdit]
      /\ samples' = samples /\ owed' = owed
      /\ clock' = clock /\ report' = report /\ dataset' = dataset /\ run' = run /\ made' = made
      /\ raced' = (raced \/ edit[e].pc = "open") /\ clashed' = clashed /\ doubled' = doubled
      /\ before' = before
  BY DEF LoseEdit, files
<1>3. /\ edit' \in [Editors -> Edit] /\ edit'[e].pc = "idle"
      /\ \A f \in Editors : f # e => edit'[f] = edit[f]
  BY <1>1, <1>2, EditorEnds
<1>4. raced' \in BOOLEAN
  BY <1>1, <1>2 DEF TypeOK
<1>5. TypeOK'
  BY <1>1, <1>2, <1>3, <1>4 DEF TypeOK
<1>6. doubled' \/ DistinctIds'
  BY <1>1, <1>2 DEF SamplesOK, DistinctIds
<1>7. ASSUME ~raced' PROVE Alternate'
  <2>1. Alternate /\ edit[e].pc # "open"
    BY <1>1, <1>2, <1>7 DEF SamplesOK
  <2> QED BY <1>2, <1>3, <2>1 DEF Alternate
<1>8. ASSUME ~raced', ~doubled' PROVE NothingLost'
  <2>1. NothingLost
    BY <1>1, <1>2, <1>8 DEF SamplesOK
  <2>2. \A f \in Editors : edit'[f].pc # "idle" => f # e /\ OwedAfter(f)' = OwedAfter(f)
    BY <1>2, <1>3 DEF OwedAfter
  <2> QED BY <1>2, <1>3, <2>1, <2>2 DEF NothingLost
<1> QED BY <1>2, <1>5, <1>6, <1>7, <1>8, EditsLeaveRuns DEF SamplesOK

LEMMA TickKeepsCountInv == ASSUME CountInv, Tick PROVE CountInv'
<1>1. /\ clock < MaxClock /\ clock' = clock + 1
      /\ samples' = samples /\ report' = report /\ dataset' = dataset /\ edit' = edit
      /\ run' = run /\ made' = made /\ owed' = owed /\ raced' = raced /\ doubled' = doubled
      /\ clashed' = clashed /\ before' = before
  BY DEF Tick, files
<1>2. clock' \in 0 .. MaxClock
  BY <1>1, EvaluationAssumption DEF CountInv, TypeOK
<1>3. TypeOK'
  BY <1>1, <1>2 DEF CountInv, TypeOK
<1>4. SamplesOK'
  BY <1>1 DEF CountInv, SamplesOK, DistinctIds, Alternate, NothingLost, OwedAfter
<1> QED BY <1>1, <1>3, <1>4, EditsLeaveRuns

----------------------------------------------------------------------------
\* Evaluations

\* They leave the samples.
LEMMA RunsLeaveSamples ==
    ASSUME CountInv, samples' = samples, edit' = edit, owed' = owed, raced' = raced,
           doubled' = doubled
    PROVE  SamplesOK'
BY DEF CountInv, SamplesOK, DistinctIds, Alternate, NothingLost, OwedAfter


\* Evaluation v goes on; when it is scored it is stamped, too.
LEMMA RunMoves ==
    ASSUME TypeOK, NEW v \in Evaluations, NEW pc \in Pc, NEW at \in 0 .. MaxClock,
           NEW passed \in BOOLEAN,
           \/ run' = [run EXCEPT ![v].pc = pc, ![v].at = at, ![v].passed = passed]
           \/ run' = [run EXCEPT ![v].pc = pc]
    PROVE  /\ run' \in [Evaluations -> Run]
           /\ \A w \in Evaluations : w # v => run'[w] = run[w]
           /\ run'[v].pc = pc
           /\ run'[v].entries = run[v].entries /\ run'[v].setting = run[v].setting
           /\ run'[v].manual = run[v].manual /\ run'[v].generated = run[v].generated
           /\ run'[v].sure = run[v].sure /\ run'[v].owed = run[v].owed
<1>1. run \in [Evaluations -> Run] /\ run[v] \in Run
  BY DEF TypeOK
<1>2. PICK x : /\ x \in {[run[v] EXCEPT !.pc = pc, !.at = at, !.passed = passed],
                         [run[v] EXCEPT !.pc = pc]}
               /\ run' = [run EXCEPT ![v] = x]
  BY <1>1
<1>3. /\ x \in Run /\ x.pc = pc /\ x.entries = run[v].entries /\ x.setting = run[v].setting
      /\ x.manual = run[v].manual /\ x.generated = run[v].generated
      /\ x.sure = run[v].sure /\ x.owed = run[v].owed
  BY <1>1, <1>2 DEF Run, Pc
<1> QED BY <1>1, <1>2, <1>3

\* What its samples are does not change any more.
LEMMA MergedStays ==
    ASSUME MergedOK, NEW v \in Evaluations, run[v].pc # "idle",
           \A w \in Evaluations : w # v => run'[w] = run[w],
           run'[v].entries = run[v].entries, run'[v].setting = run[v].setting,
           run'[v].manual = run[v].manual, run'[v].generated = run[v].generated,
           run'[v].sure = run[v].sure, run'[v].owed = run[v].owed
    PROVE  MergedOK'
<1>1. \A w \in Evaluations : run'[w].pc # "idle" => run[w].pc # "idle"
  OBVIOUS
<1> QED BY <1>1 DEF MergedOK

LEMMA IdleRunTyped ==
    /\ IdleRun \in Run /\ IdleRun.pc = "idle"
<1>1. (CHOOSE s \in Settings : TRUE) \in Settings /\ (CHOOSE c \in Corpora : TRUE) \in Corpora
  BY EvaluationAssumption
<1>2. <<>> \in Seq(Sample) /\ <<>> \in Seq(Entry) /\ 0 \in 0 .. MaxClock
  BY EvaluationAssumption
<1> QED BY <1>1, <1>2 DEF IdleRun, Run

LEMMA CountInit == Init => CountInv
<1> SUFFICES ASSUME Init PROVE CountInv
  OBVIOUS
<1>1. \A v \in Evaluations : run[v].pc = "idle"
  BY IdleRunTyped DEF Init
<1>2. \A e \in Editors : edit[e].pc = "idle"
  BY IdleEditTyped DEF Init
<1>3. samples.state = "absent" /\ samples.value = <<>> /\ owed = {} /\ ~raced /\ ~doubled
  BY DEF Init
<1>4. OldReport \in Report /\ OldReport.legacy
  BY EvaluationAssumption DEF OldReport, Report
<1>5. report \in File(Report) /\ report.value.legacy
  <2>1. /\ report.state \in {"absent", "whole"} /\ report.value = OldReport
        /\ report = [state |-> report.state, value |-> report.value]
    BY DEF Init
  <2> QED BY <1>4, <2>1 DEF File
<1>6. samples \in File(Seq(Sample)) /\ dataset \in File(Seq(Entry))
  <2>1. <<>> \in Seq(Sample) /\ <<>> \in Seq(Entry)
    OBVIOUS
  <2> QED BY <2>1 DEF Init, File
<1>7. edit \in [Editors -> Edit] /\ run \in [Evaluations -> Run]
  BY IdleEditTyped, IdleRunTyped DEF Init
<1>8. TypeOK
  <2>1. clock \in 0 .. MaxClock /\ made \in 0 .. MaxMade
    BY EvaluationAssumption DEF Init
  <2>2. owed \subseteq Signatures /\ {raced, doubled, clashed} \subseteq BOOLEAN
    BY DEF Init
  <2>3. before \in [Evaluations -> SUBSET Evaluations]
    BY DEF Init
  <2> QED BY <1>5, <1>6, <1>7, <2>1, <2>2, <2>3 DEF TypeOK
<1>9. SamplesOK
  BY <1>2, <1>3 DEF SamplesOK, DistinctIds, Alternate, NothingLost
<1> QED BY <1>1, <1>5, <1>8, <1>9 DEF CountInv, MergedOK, ReportCounts, OneWrites, Writing

LEMMA CollectKeepsCountInv ==
    ASSUME CountInv, NEW v \in Evaluations, Collect(v) PROVE CountInv'
<1>1. TypeOK /\ SamplesOK /\ MergedOK
  BY DEF CountInv
<1>2. PICK setting \in Settings, generated \in Corpora :
        run' = [run EXCEPT ![v] =
                  [IdleRun EXCEPT !.pc = "score", !.setting = setting,
                                  !.generated = generated, !.manual = Load,
                                  !.entries = Merge(setting, Load, generated),
                                  !.owed = owed,
                                  !.sure = ~raced /\ ~doubled
                                           /\ \A e \in Editors : edit[e].pc # "open"]]
  BY DEF Collect, Generation
<1>3. /\ run[v].pc = "idle" /\ made < MaxMade /\ made' = made + 1
      /\ clock' = clock /\ samples' = samples /\ report' = report /\ dataset' = dataset
      /\ edit' = edit /\ owed' = owed /\ raced' = raced /\ doubled' = doubled
      /\ clashed' = clashed /\ before' = before
  BY DEF Collect, files
<1>4. PICK manual, entries, sure :
        /\ manual = Load /\ entries = Merge(setting, Load, generated)
        /\ sure = (~raced /\ ~doubled /\ \A e \in Editors : edit[e].pc # "open")
  OBVIOUS
<1>5. manual \in Seq(Sample) /\ sure \in BOOLEAN
  BY <1>1, <1>4, LoadTyped
<1>6. Merged(entries, setting, manual, generated)
  BY <1>4, <1>5, MergeMerges
<1>7. entries \in Seq(Entry)
  BY <1>6 DEF Merged
<1>8. PICK x : x = [IdleRun EXCEPT !.pc = "score", !.setting = setting,
                                   !.generated = generated, !.manual = manual,
                                   !.entries = entries, !.owed = owed,
                                   !.sure = sure]
  OBVIOUS
<1>9. /\ x \in Run /\ x.pc = "score" /\ x.setting = setting /\ x.generated = generated
      /\ x.manual = manual /\ x.entries = entries /\ x.owed = owed /\ x.sure = sure
  <2>1. clock \in 0 .. MaxClock /\ owed \in SUBSET Signatures
    BY <1>1 DEF TypeOK
  <2> QED BY <1>5, <1>7, <1>8, <2>1, IdleRunTyped DEF Run
<1>10. run' = [run EXCEPT ![v] = x]
  BY <1>2, <1>4, <1>8
<1>11. /\ run' \in [Evaluations -> Run] /\ run'[v] = x
       /\ \A w \in Evaluations : w # v => run'[w] = run[w]
  <2>1. run \in [Evaluations -> Run]
    BY <1>1 DEF TypeOK
  <2> QED BY <1>9, <1>10, <2>1
<1>12. TypeOK'
  <2>1. made' \in 0 .. MaxMade
    BY <1>1, <1>3, EvaluationAssumption DEF TypeOK
  <2> QED BY <1>1, <1>3, <1>11, <2>1 DEF TypeOK
<1>13. MergedOK'
  <2>1. sure => owed \subseteq Sigs(manual)
    BY <1>1, <1>4, ReadsAll
  <2> QED BY <1>1, <1>6, <1>9, <1>11, <2>1 DEF MergedOK
<1>14. ReportCounts'
  BY <1>3, <1>11 DEF CountInv, ReportCounts
<1>15. clashed' \/ OneWrites'
  <2>1. ASSUME OneWrites, NEW w \in Evaluations PROVE Writing(w)' <=> Writing(w)
    BY <1>3, <1>9, <1>11 DEF Writing
  <2>2. ASSUME OneWrites, ~report.value.legacy
        PROVE  /\ report.value.by \in Evaluations
               /\ run'[report.value.by].entries = run[report.value.by].entries
    BY <1>3, <1>11, <2>2 DEF CountInv, ReportCounts
  <2> QED BY <1>3, <1>9, <1>11, <2>1, <2>2 DEF CountInv, OneWrites
<1>16. SamplesOK'
  BY <1>3, RunsLeaveSamples
<1> QED BY <1>12, <1>13, <1>14, <1>15, <1>16 DEF CountInv

LEMMA ScoreKeepsCountInv ==
    ASSUME CountInv, NEW v \in Evaluations, Score(v) PROVE CountInv'
<1>1. TypeOK /\ MergedOK
  BY DEF CountInv
<1>2. PICK passed \in BOOLEAN :
        run' = [run EXCEPT ![v].pc = "stamped", ![v].at = clock, ![v].passed = passed]
  <2>1. PICK good \in BOOLEAN :
          run' = [run EXCEPT ![v].pc = "stamped", ![v].at = clock,
                             ![v].passed = good /\ Len(run[v].entries) >= MinSize]
    BY DEF Score, Scores
  <2>2. PICK passed \in BOOLEAN : passed = (good /\ Len(run[v].entries) >= MinSize)
    OBVIOUS
  <2> QED BY <2>1, <2>2
<1>3. /\ run[v].pc = "score" /\ report' = report /\ clashed' = clashed /\ before' = before
      /\ clock' = clock /\ samples' = samples /\ dataset' = dataset /\ edit' = edit
      /\ made' = made /\ owed' = owed /\ raced' = raced /\ doubled' = doubled
  BY DEF Score, files
<1>4. clock \in 0 .. MaxClock /\ "stamped" \in Pc
  BY <1>1 DEF TypeOK, Pc
<1>5. /\ run' \in [Evaluations -> Run]
      /\ \A w \in Evaluations : w # v => run'[w] = run[w]
      /\ run'[v].pc = "stamped"
      /\ run'[v].entries = run[v].entries /\ run'[v].setting = run[v].setting
      /\ run'[v].manual = run[v].manual /\ run'[v].generated = run[v].generated
      /\ run'[v].sure = run[v].sure /\ run'[v].owed = run[v].owed
  BY <1>1, <1>2, <1>4, RunMoves
<1>6. TypeOK'
  BY <1>1, <1>3, <1>5 DEF TypeOK
<1>7. MergedOK'
  BY <1>1, <1>3, <1>5, MergedStays
<1>8. ReportCounts'
  BY <1>3, <1>5 DEF CountInv, ReportCounts
<1>9. clashed' \/ OneWrites'
  <2>1. \A w \in Evaluations : /\ Writing(w)' <=> Writing(w)
                               /\ run'[w].entries = run[w].entries
                               /\ run'[w].pc \in {"markdown", "dataset"} => run'[w].pc = run[w].pc
    BY <1>3, <1>5 DEF Writing
  <2>2. ~report.value.legacy => run'[report.value.by].entries = run[report.value.by].entries
    BY <2>1 DEF CountInv, ReportCounts
  <2> QED BY <1>3, <2>1, <2>2 DEF CountInv, OneWrites
<1>10. SamplesOK'
  BY <1>3, RunsLeaveSamples
<1> QED BY <1>6, <1>7, <1>8, <1>9, <1>10 DEF CountInv

LEMMA OpenReportKeepsCountInv ==
    ASSUME CountInv, NEW v \in Evaluations, OpenReport(v) PROVE CountInv'
<1>1. TypeOK /\ MergedOK
  BY DEF CountInv
<1>2. /\ run[v].pc = "stamped" /\ run' = [run EXCEPT ![v].pc = "report"]
      /\ report' = [report EXCEPT !.state = "empty"]
      /\ clashed' = (clashed \/ \E w \in Evaluations : Writing(w))
      /\ clock' = clock /\ samples' = samples /\ dataset' = dataset /\ edit' = edit
      /\ made' = made /\ owed' = owed /\ raced' = raced /\ doubled' = doubled
  BY DEF OpenReport, Opened
<1>3. before' \in [Evaluations -> SUBSET Evaluations]
  BY <1>1 DEF TypeOK, OpenReport
<1>4. "report" \in Pc /\ FALSE \in BOOLEAN /\ 0 \in 0 .. MaxClock
  BY EvaluationAssumption DEF Pc
<1>5. /\ run' \in [Evaluations -> Run]
      /\ \A w \in Evaluations : w # v => run'[w] = run[w]
      /\ run'[v].pc = "report"
      /\ run'[v].entries = run[v].entries /\ run'[v].setting = run[v].setting
      /\ run'[v].manual = run[v].manual /\ run'[v].generated = run[v].generated
      /\ run'[v].sure = run[v].sure /\ run'[v].owed = run[v].owed
  BY <1>1, <1>2, <1>4, RunMoves
<1>6. report' \in File(Report) /\ report'.value = report.value
  BY <1>1, <1>2 DEF TypeOK, File
<1>7. TypeOK'
  <2>1. clashed' \in BOOLEAN
    BY <1>1, <1>2 DEF TypeOK
  <2> QED BY <1>1, <1>2, <1>3, <1>5, <1>6, <2>1 DEF TypeOK
<1>8. MergedOK'
  BY <1>1, <1>2, <1>5, MergedStays
<1>9. ReportCounts'
  BY <1>2, <1>5, <1>6 DEF CountInv, ReportCounts
<1>10. ASSUME ~clashed' PROVE OneWrites'
  <2>1. OneWrites /\ \A w \in Evaluations : ~Writing(w)
    BY <1>2, <1>10 DEF CountInv
  <2>2. Writing(v)' /\ \A w \in Evaluations : w # v => ~Writing(w)'
    BY <1>5, <2>1 DEF Writing
  <2>3. \A w \in Evaluations : run'[w].pc \notin {"markdown", "dataset"}
    BY <1>5, <2>1 DEF Writing
  <2> QED BY <2>2, <2>3 DEF OneWrites
<1>11. SamplesOK'
  BY <1>2, RunsLeaveSamples
<1> QED BY <1>7, <1>8, <1>9, <1>10, <1>11 DEF CountInv

LEMMA WriteReportKeepsCountInv ==
    ASSUME CountInv, NEW v \in Evaluations, WriteReport(v) PROVE CountInv'
<1>1. TypeOK /\ MergedOK
  BY DEF CountInv
<1>2. PICK total, used : total = Len(run[v].manual) /\ used = Used(run[v].entries)
  OBVIOUS
<1>3. PICK s \in {"whole", "garbled"} :
        report' = [state |-> s,
                   value |-> [legacy |-> FALSE, by |-> v, at |-> run[v].at,
                              passed |-> run[v].passed, total |-> total, used |-> used]]
  BY <1>2 DEF WriteReport, Written
<1>4. /\ run[v].pc = "report" /\ run' = [run EXCEPT ![v].pc = "markdown"]
      /\ clock' = clock /\ samples' = samples /\ dataset' = dataset /\ edit' = edit
      /\ made' = made /\ owed' = owed /\ raced' = raced /\ doubled' = doubled
      /\ clashed' = clashed /\ before' = before
  BY DEF WriteReport
<1>5. run[v] \in Run
  BY <1>1 DEF TypeOK
<1>6. /\ run[v].at \in 0 .. MaxClock /\ run[v].passed \in BOOLEAN
      /\ run[v].manual \in Seq(Sample) /\ run[v].entries \in Seq(Entry) /\ "markdown" \in Pc
  BY <1>5 DEF Run, Pc
<1>7. /\ run' \in [Evaluations -> Run]
      /\ \A w \in Evaluations : w # v => run'[w] = run[w]
      /\ run'[v].pc = "markdown"
      /\ run'[v].entries = run[v].entries /\ run'[v].setting = run[v].setting
      /\ run'[v].manual = run[v].manual /\ run'[v].generated = run[v].generated
      /\ run'[v].sure = run[v].sure /\ run'[v].owed = run[v].owed
  BY <1>1, <1>4, <1>6, RunMoves
<1>8. total \in Nat /\ used \in Nat
  BY <1>2, <1>6, ManualFinite
<1>9. /\ report' \in File(Report) /\ report'.value.legacy = FALSE /\ report'.value.by = v
      /\ report'.value.total = total /\ report'.value.used = used
  BY <1>3, <1>6, <1>8 DEF File, Report
<1>10. TypeOK'
  BY <1>1, <1>4, <1>7, <1>9 DEF TypeOK
<1>11. MergedOK'
  BY <1>1, <1>4, <1>7, MergedStays
<1>12. ReportCounts'
  BY <1>2, <1>7, <1>9 DEF ReportCounts
<1>13. ASSUME ~clashed' PROVE OneWrites'
  <2>1. OneWrites
    BY <1>4, <1>13 DEF CountInv
  <2>2. Writing(v)' /\ \A w \in Evaluations : w # v => ~Writing(w)'
    BY <1>4, <1>7, <2>1 DEF OneWrites, Writing
  <2>3. \A w \in Evaluations : w # v => run'[w].pc \notin {"markdown", "dataset"}
    BY <2>2 DEF Writing
  <2> QED BY <1>7, <1>9, <2>2, <2>3 DEF OneWrites
<1>14. SamplesOK'
  BY <1>4, RunsLeaveSamples
<1> QED BY <1>10, <1>11, <1>12, <1>13, <1>14 DEF CountInv

LEMMA OpenDatasetKeepsCountInv ==
    ASSUME CountInv, NEW v \in Evaluations, OpenDataset(v) PROVE CountInv'
<1>1. TypeOK /\ MergedOK
  BY DEF CountInv
<1>2. /\ run[v].pc = "markdown" /\ run' = [run EXCEPT ![v].pc = "dataset"]
      /\ dataset' = [dataset EXCEPT !.state = "empty"]
      /\ clock' = clock /\ samples' = samples /\ report' = report /\ edit' = edit
      /\ made' = made /\ owed' = owed /\ raced' = raced /\ doubled' = doubled
      /\ clashed' = clashed /\ before' = before
  BY DEF OpenDataset, Opened
<1>3. "dataset" \in Pc /\ FALSE \in BOOLEAN /\ 0 \in 0 .. MaxClock
  BY EvaluationAssumption DEF Pc
<1>4. /\ run' \in [Evaluations -> Run]
      /\ \A w \in Evaluations : w # v => run'[w] = run[w]
      /\ run'[v].pc = "dataset"
      /\ run'[v].entries = run[v].entries /\ run'[v].setting = run[v].setting
      /\ run'[v].manual = run[v].manual /\ run'[v].generated = run[v].generated
      /\ run'[v].sure = run[v].sure /\ run'[v].owed = run[v].owed
  BY <1>1, <1>2, <1>3, RunMoves
<1>5. dataset' \in File(Seq(Entry)) /\ dataset'.state = "empty"
  BY <1>1, <1>2 DEF TypeOK, File
<1>6. TypeOK'
  BY <1>1, <1>2, <1>4, <1>5 DEF TypeOK
<1>7. MergedOK'
  BY <1>1, <1>2, <1>4, MergedStays
<1>8. ReportCounts'
  BY <1>2, <1>4 DEF CountInv, ReportCounts
<1>9. ASSUME ~clashed' PROVE OneWrites'
  <2>1. OneWrites
    BY <1>2, <1>9 DEF CountInv
  <2>2. Writing(v)' /\ \A w \in Evaluations : w # v => ~Writing(w)'
    BY <1>2, <1>4, <2>1 DEF OneWrites, Writing
  <2>3. \A w \in Evaluations : w # v => run'[w].pc \notin {"markdown", "dataset"}
    BY <2>2 DEF Writing
  <2> QED BY <1>2, <1>4, <1>5, <2>1, <2>2, <2>3 DEF OneWrites
<1>10. SamplesOK'
  BY <1>2, RunsLeaveSamples
<1> QED BY <1>6, <1>7, <1>8, <1>9, <1>10 DEF CountInv

LEMMA WriteDatasetKeepsCountInv ==
    ASSUME CountInv, NEW v \in Evaluations, WriteDataset(v) PROVE CountInv'
<1>1. TypeOK /\ MergedOK
  BY DEF CountInv
<1>2. PICK entries : entries = run[v].entries
  OBVIOUS
<1>3. /\ run[v].pc = "dataset" /\ run' = [run EXCEPT ![v].pc = "history"]
      /\ clock' = clock /\ samples' = samples /\ report' = report /\ edit' = edit
      /\ made' = made /\ owed' = owed /\ raced' = raced /\ doubled' = doubled
      /\ clashed' = clashed /\ before' = before
  BY DEF WriteDataset
<1>4. PICK s \in {"whole", "garbled"} : /\ dataset' = [state |-> s, value |-> entries]
                                        /\ dataset.state = "empty" => s = "whole"
  BY <1>2 DEF WriteDataset, Written
<1>5. "history" \in Pc /\ FALSE \in BOOLEAN /\ 0 \in 0 .. MaxClock
  BY EvaluationAssumption DEF Pc
<1>6. /\ run' \in [Evaluations -> Run]
      /\ \A w \in Evaluations : w # v => run'[w] = run[w]
      /\ run'[v].pc = "history"
      /\ run'[v].entries = run[v].entries /\ run'[v].setting = run[v].setting
      /\ run'[v].manual = run[v].manual /\ run'[v].generated = run[v].generated
      /\ run'[v].sure = run[v].sure /\ run'[v].owed = run[v].owed
  BY <1>1, <1>3, <1>5, RunMoves
<1>7. entries \in Seq(Entry)
  <2>1. run[v] \in Run
    BY <1>1 DEF TypeOK
  <2> QED BY <1>2, <2>1 DEF Run
<1>8. dataset' \in File(Seq(Entry)) /\ dataset'.state = s /\ dataset'.value = entries
  BY <1>4, <1>7 DEF File
<1>9. TypeOK'
  BY <1>1, <1>3, <1>6, <1>8 DEF TypeOK
<1>10. MergedOK'
  BY <1>1, <1>3, <1>6, MergedStays
<1>11. ReportCounts'
  BY <1>3, <1>6 DEF CountInv, ReportCounts
<1>12. ASSUME ~clashed' PROVE OneWrites'
  <2>1. OneWrites
    BY <1>3, <1>12 DEF CountInv
  <2>2. \A w \in Evaluations : ~Writing(w)'
    BY <1>3, <1>6, <2>1 DEF OneWrites, Writing
  <2>3. report'.value.by = v /\ s = "whole"
    BY <1>3, <1>4, <2>1 DEF OneWrites
  <2>4. \A w \in Evaluations : run'[w].pc \notin {"markdown", "dataset"}
    BY <2>2 DEF Writing
  <2> QED BY <1>2, <1>6, <1>8, <2>2, <2>3, <2>4 DEF OneWrites
<1>13. SamplesOK'
  BY <1>3, RunsLeaveSamples
<1> QED BY <1>9, <1>10, <1>11, <1>12, <1>13 DEF CountInv

LEMMA EndsKeepCountInv ==
    ASSUME CountInv, NEW v \in Evaluations, Conclude(v) \/ FailRun(v) PROVE CountInv'
<1>1. TypeOK /\ MergedOK
  BY DEF CountInv
<1>2. PICK pc \in {"done", "failed"} :
        /\ run' = [run EXCEPT ![v].pc = pc] /\ run[v].pc # "idle"
        /\ run[v].pc \in {"idle", "score", "stamped", "report"} => pc = "failed"
  BY DEF Conclude, FailRun
<1>3. /\ clock' = clock /\ samples' = samples /\ report' = report /\ dataset' = dataset
      /\ edit' = edit /\ made' = made /\ owed' = owed /\ raced' = raced /\ doubled' = doubled
      /\ before' = before /\ clashed' \in {clashed, clashed \/ Writing(v)}
      /\ Writing(v) => clashed'
  BY DEF Conclude, FailRun, files, Writing
<1>4. pc \in Pc /\ FALSE \in BOOLEAN /\ 0 \in 0 .. MaxClock
  BY EvaluationAssumption DEF Pc
<1>5. /\ run' \in [Evaluations -> Run]
      /\ \A w \in Evaluations : w # v => run'[w] = run[w]
      /\ run'[v].pc = pc
      /\ run'[v].entries = run[v].entries /\ run'[v].setting = run[v].setting
      /\ run'[v].manual = run[v].manual /\ run'[v].generated = run[v].generated
      /\ run'[v].sure = run[v].sure /\ run'[v].owed = run[v].owed
  BY <1>1, <1>2, <1>4, RunMoves
<1>6. clashed' \in BOOLEAN
  BY <1>1, <1>3 DEF TypeOK
<1>7. TypeOK'
  BY <1>1, <1>3, <1>5, <1>6 DEF TypeOK
<1>8. MergedOK'
  BY <1>1, <1>2, <1>5, MergedStays
<1>9. ReportCounts'
  BY <1>3, <1>5 DEF CountInv, ReportCounts
<1>10. ASSUME ~clashed' PROVE OneWrites'
  <2>1. OneWrites /\ ~Writing(v)
    BY <1>1, <1>3, <1>10 DEF CountInv, TypeOK
  <2>2. \A w \in Evaluations : /\ Writing(w)' <=> Writing(w)
                               /\ run'[w].entries = run[w].entries
                               /\ run'[w].pc \in {"markdown", "dataset"} => run'[w].pc = run[w].pc
    BY <1>5, <2>1 DEF Writing
  <2>3. ~report.value.legacy => run'[report.value.by].entries = run[report.value.by].entries
    BY <2>2 DEF CountInv, ReportCounts
  <2> QED BY <1>3, <2>1, <2>2, <2>3 DEF OneWrites
<1>11. SamplesOK'
  BY <1>3, RunsLeaveSamples
<1> QED BY <1>7, <1>8, <1>9, <1>10, <1>11 DEF CountInv

LEMMA CountStep == CountInv /\ [Next]_vars => CountInv'
<1>1. ASSUME CountInv, UNCHANGED vars PROVE CountInv'
  <2>1. /\ clock' = clock /\ samples' = samples /\ report' = report /\ dataset' = dataset
        /\ edit' = edit /\ run' = run /\ made' = made /\ owed' = owed /\ raced' = raced
        /\ doubled' = doubled /\ clashed' = clashed /\ before' = before
    BY <1>1 DEF vars, files
  <2>2. TypeOK'
    BY <1>1, <2>1 DEF CountInv, TypeOK
  <2> QED BY <1>1, <2>1, <2>2, RunsLeaveSamples, EditsLeaveRuns
<1>2. ASSUME CountInv, NEW e \in Editors, EditStep(e) PROVE CountInv'
  BY <1>2, BeginsKeepCountInv, OpenKeepsCountInv, SaveKeepsCountInv, LoseKeepsCountInv
     DEF EditStep
<1>3. ASSUME CountInv, NEW v \in Evaluations, RunStep(v) PROVE CountInv'
  BY <1>3, CollectKeepsCountInv, ScoreKeepsCountInv, OpenReportKeepsCountInv,
     WriteReportKeepsCountInv, OpenDatasetKeepsCountInv, WriteDatasetKeepsCountInv,
     EndsKeepCountInv DEF RunStep
<1> QED BY <1>1, <1>2, <1>3, TickKeepsCountInv DEF Next

----------------------------------------------------------------------------
\* What the invariant says of the list

LEMMA MergedIsFair ==
    ASSUME NEW r \in Run, Merged(r.entries, r.setting, r.manual, r.generated)
    PROVE  IsFair(r)
<1>1. PICK entries, generated, manual :
        entries = r.entries /\ manual = r.manual
        /\ generated = {r.generated[i] : i \in DOMAIN r.generated}
  OBVIOUS
<1>2. Cardinality(Sigs(entries)) = Len(entries)
  BY <1>1, DistinctCount DEF Merged
<1>3. /\ Len(entries) <= Limit(r.setting, manual)
      /\ Len(entries) < Limit(r.setting, manual) => Sigs(entries) = Sigs(manual) \union generated
      /\ r.setting.all => Sigs(manual) \subseteq Sigs(entries)
      /\ Used(entries) > Target(r.setting, manual) => generated \subseteq Sigs(entries)
  BY <1>1 DEF Merged
<1> QED BY <1>1, <1>2, <1>3 DEF IsFair

LEMMA CountImpliesSaved == CountInv => SavedCounts
<1> SUFFICES ASSUME CountInv PROVE SavedCounts
  OBVIOUS
<1>1. TypeOK /\ SamplesOK /\ MergedOK
  BY DEF CountInv
<1>2. ~raced /\ ~doubled /\ (\A e \in Editors : edit[e].pc # "open") => owed \subseteq Sigs(Load)
  BY <1>1, ReadsAll
<1>3. ASSUME NEW v \in Evaluations, run[v].pc # "idle"
      PROVE  /\ IsFair(run[v])
             /\ run[v].sure /\ run[v].setting.all => run[v].owed \subseteq Sigs(run[v].entries)
  <2>1. /\ Merged(run[v].entries, run[v].setting, run[v].manual, run[v].generated)
        /\ run[v].sure => run[v].owed \subseteq Sigs(run[v].manual)
    BY <1>1, <1>3 DEF MergedOK
  <2>2. run[v] \in Run
    BY <1>1 DEF TypeOK
  <2>3. IsFair(run[v])
    BY <2>1, <2>2, MergedIsFair
  <2>4. run[v].setting.all => Sigs(run[v].manual) \subseteq Sigs(run[v].entries)
    BY <2>1 DEF Merged
  <2> QED BY <2>1, <2>3, <2>4
<1> QED BY <1>2, <1>3 DEF SavedCounts

\* Whoever uses as many samples as there are uses all: each place holds another signature.
LEMMA AllAreUsed ==
    ASSUME NEW entries \in Seq(Entry), NEW manual \in Seq(Sample), Distinct(entries),
           \A i \in Manual(entries) : entries[i].sig \in Sigs(manual),
           ~(Len(manual) > Used(entries)),
           NEW s \in Sigs(manual)
    PROVE  \E i \in Manual(entries) : entries[i].sig = s
<1>1. PICK n, m \in Nat : n = Len(manual) /\ m = Used(entries)
  BY ManualFinite
<1>2. PICK S, T : S = Manual(entries) /\ T = Sigs(manual)
  OBVIOUS
<1>3. IsFiniteSet(S) /\ Cardinality(S) = m /\ IsFiniteSet(T) /\ Cardinality(T) <= n
  BY <1>1, <1>2, ManualFinite, SigsCount DEF Used
<1>4. PICK f : f = [i \in S |-> entries[i].sig]
  OBVIOUS
<1>5. f \in Injection(S, T)
  <2>1. f \in [S -> T]
    BY <1>2, <1>4
  <2>2. S \subseteq DOMAIN entries
    BY <1>2 DEF Manual
  <2> QED BY <1>4, <2>1, <2>2 DEF Injection, IsInjective, Distinct
<1>6. PICK U : U = T \ {s}
  OBVIOUS
<1> SUFFICES ASSUME \A i \in S : entries[i].sig # s PROVE FALSE
  BY <1>2
<1>7. f \in Injection(S, U)
  <2>1. \A i \in S : f[i] \in U
    BY <1>4, <1>5, <1>6 DEF Injection
  <2> QED BY <1>4, <1>5, <2>1 DEF Injection, IsInjective
<1>8. s \in T /\ IsFiniteSet(U) /\ Cardinality(U) = Cardinality(T) - 1
  BY <1>2, <1>3, <1>6, FS_RemoveElement
<1>9. Cardinality(S) <= Cardinality(U)
  BY <1>7, <1>8, FS_Injection
<1>10. Cardinality(T) \in Nat
  BY <1>3, FS_CardinalityType
<1> QED BY <1>1, <1>3, <1>8, <1>9, <1>10

LEMMA CountImpliesListing == CountInv => ListingIsTrue
<1> SUFFICES ASSUME CountInv, ~clashed, \A v \in Evaluations : ~Writing(v),
                    report.state = "whole", ~report.value.legacy,
                    NEW i \in DOMAIN Load
             PROVE  LET v == report.value.by
                        x == Load[i]
                    IN /\ Reason(x) = "used" =>
                             [sig |-> x.sig, manual |-> TRUE] \in Range(run[v].entries)
                       /\ run[v].sure /\ x.sig \in run[v].owed =>
                             Reason(x) \in {"used", "changed_after_latest_evaluation",
                                            "excluded_by_sample_limit"}
  BY DEF ListingIsTrue
<1>1. PICK v, x, entries, manual :
        /\ v = report.value.by /\ x = Load[i] /\ entries = run[v].entries
        /\ manual = run[v].manual
  OBVIOUS
<1>2. /\ v \in Evaluations /\ run[v].pc # "idle"
      /\ report.value.total = Len(manual) /\ report.value.used = Used(entries)
  BY <1>1 DEF CountInv, ReportCounts
<1>3. dataset.state = "whole" /\ dataset.value = entries
  BY <1>1 DEF CountInv, OneWrites
<1>4. UsedSigs = {entries[j].sig : j \in Manual(entries)}
  BY <1>3 DEF UsedSigs
<1>5. /\ Merged(entries, run[v].setting, manual, run[v].generated)
      /\ run[v].sure => run[v].owed \subseteq Sigs(manual)
  BY <1>1, <1>2 DEF CountInv, MergedOK
<1>6. entries \in Seq(Entry) /\ manual \in Seq(Sample)
  <2>1. run[v] \in Run
    BY <1>2 DEF CountInv, TypeOK
  <2> QED BY <1>1, <2>1 DEF Run
<1>7. Reason(x) = "used" => x.sig \in UsedSigs
  BY DEF Reason
<1>8. ASSUME x.sig \in UsedSigs
      PROVE  [sig |-> x.sig, manual |-> TRUE] \in Range(entries)
  <2>1. PICK j \in Manual(entries) : entries[j].sig = x.sig
    BY <1>4, <1>8
  <2>2. j \in DOMAIN entries /\ entries[j].manual
    BY <2>1 DEF Manual
  <2>3. entries[j] \in Entry
    BY <1>6, <2>2
  <2>4. entries[j] = [sig |-> x.sig, manual |-> TRUE]
    BY <2>1, <2>2, <2>3 DEF Entry
  <2> QED BY <2>2, <2>4 DEF Range
<1>9. ASSUME run[v].sure, x.sig \in run[v].owed
      PROVE  Reason(x) \in {"used", "changed_after_latest_evaluation", "excluded_by_sample_limit"}
  <2>1. x.sig \in Sigs(manual)
    BY <1>5, <1>9
  <2>2. CASE x.sig \in UsedSigs
    BY <2>2 DEF Reason
  <2>3. CASE x.sig \notin UsedSigs
    <3>1. Len(manual) > Used(entries)
      <4>1. Distinct(entries) /\ \A j \in Manual(entries) : entries[j].sig \in Sigs(manual)
        BY <1>5 DEF Merged
      <4>2. ~\E j \in Manual(entries) : entries[j].sig = x.sig
        BY <1>4, <2>3
      <4> QED BY <1>6, <2>1, <4>1, <4>2, AllAreUsed
    <3>2. report.value.total > report.value.used
      BY <1>2, <3>1
    <3> QED BY <2>3, <3>2 DEF Reason
  <2> QED BY <2>2, <2>3
<1> QED BY <1>1, <1>7, <1>8, <1>9

\* Whatever an administrator asks for, has saved and the documents give: a merge takes no
\* sample twice and no more than there is room for, leaves no room while there are others,
\* takes all manual samples if that is asked for and otherwise no more than their share
\* while generated ones are left (_merge_manual_samples).
THEOREM MergeIsFair ==
    ASSUME NEW setting \in Settings, NEW manual \in Seq(Sample), NEW generated \in Corpora
    PROVE  IsFair([IdleRun EXCEPT !.setting = setting, !.manual = manual, !.generated = generated,
                                  !.entries = Merge(setting, manual, generated)])
<1>1. PICK entries : entries = Merge(setting, manual, generated)
  OBVIOUS
<1>2. Merged(entries, setting, manual, generated)
  BY <1>1, MergeMerges
<1>3. PICK r : r = [IdleRun EXCEPT !.setting = setting, !.manual = manual,
                                   !.generated = generated, !.entries = entries]
  OBVIOUS
<1>4. /\ r \in Run /\ r.setting = setting /\ r.manual = manual /\ r.generated = generated
      /\ r.entries = entries
  BY <1>2, <1>3, IdleRunTyped DEF Run, Merged
<1> QED BY <1>1, <1>2, <1>3, <1>4, MergedIsFair

\* What an administrator has been told is saved stays in the file and counts, and the list
\* tells the truth about it, for any number of requests and evaluations that interleave,
\* die and fail (append_manual_sample, update_manual_sample, delete_manual_sample,
\* evaluate, list_manual_samples).
THEOREM SamplesCounted == Spec => []SamplesCount
<1>1. CountInv => SamplesCount
  BY CountImpliesSaved, CountImpliesListing DEF SamplesCount, CountInv
<1> QED BY CountInit, CountStep, <1>1, PTL DEF Spec
=============================================================================
