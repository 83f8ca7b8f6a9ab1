--------------------------- MODULE MCConversation ---------------------------
(***************************************************************************)
(* Small instances of what happens to one question.  The runtime record    *)
(* and the graph touch each other only through the events of the graph,    *)
(* which RuntimeTask takes to be any: a behaviour is one of RuntimeTask or *)
(* one of AgentGraph, as `part` says.                                      *)
(*                                                                         *)
(* One task and two sweeps (the start of an API process may fall into the  *)
(* hourly job) show the races for a record.  Two executions, the original  *)
(* and one that resumes it, show the races for a thread; the intents are   *)
(* one per edge out of query_rewriter that differs.                        *)
(***************************************************************************)
EXTENDS RuntimeTask, Naturals, TLC

CONSTANTS t1, k1, k2, e1, e2, Executions, Original, MaxIterations, MaxLag, Intents

VARIABLES part, native, thread, row, exec, ahead, disturbed

OneTask == {t1}
TwoSweeps == {k1, k2}
TwoExecutions == {e1, e2}

AG == INSTANCE AgentGraph

ASSUME GraphAssumption == AG!GraphConstants

graphVars == <<native, thread, row, exec, ahead, disturbed>>

everything == <<vars, graphVars, part>>

PartsInit ==
    /\ part \in {"task", "graph"}
    /\ Init
    /\ AG!Init
    /\ native \/ part = "graph"

OfTask(Step) == part = "task" /\ Step /\ UNCHANGED <<graphVars, part>>

OfGraph(Step) == part = "graph" /\ Step /\ UNCHANGED <<vars, part>>

TaskNext == OfTask(Next)

GraphNext == OfGraph(AG!Next)

ASSUME OneTaskAssumption == Tasks = {t1}

\* The fairness of RuntimeTask and of AgentGraph.  A behaviour is one of a single
\* part, so a condition on the steps of both is one on those of its own.
PartsSpec ==
    /\ PartsInit
    /\ [][TaskNext \/ GraphNext]_everything
    /\ WF_everything(OfTask(Age(t1)) \/ OfGraph(AG!Progress))
    /\ \A k \in Sweeps : WF_everything(OfTask(SweepStep(k)))

\* The properties of AgentGraph, under their names.
ConversationTypeOK == TypeOK /\ (part = "graph" => AG!TypeOK /\ AG!IterationBound)
DoneIsReviewed == AG!DoneIsReviewed

\* A task in the record and the executions of the graph end: RunningEnds and, since
\* an execution begins once, ExecutionsEnd, in one formula because no behaviour is
\* one of two parts.
Ended ==
    /\ part = "task" => record[t1] # "running"
    /\ part = "graph" => \A e \in Executions : exec[e].pc \in AG!Ended \union {"idle"}

QuestionEnds == ~Ended ~> Ended
=============================================================================
