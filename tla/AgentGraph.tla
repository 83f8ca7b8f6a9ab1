----------------------------- MODULE AgentGraph -----------------------------
(***************************************************************************)
(* The agent graph that answers one question (agent/runtime/               *)
(* langgraph_runner.py, with the nodes of agent/nodes and agent/agents),   *)
(* its checkpoints, and the executions that resume it when a client        *)
(* reconnects.  Two forms, fixed by what is installed: with the native     *)
(* saver the graph stops after every node and its thread is in PostgreSQL; *)
(* without it the graph runs in a task of its own and only the rows of     *)
(* runtime_checkpoints remain, from which it is resumed by hand.           *)
(*                                                                         *)
(*   native   the saver is available                                       *)
(*   thread   the saver's last checkpoint: the next node and its state     *)
(*   row      the latest row of runtime_checkpoints for the trace          *)
(*   exec     an execution: the request that answers or a resumption       *)
(*   ahead    without the saver, the task of the original execution: the   *)
(*            node it runs next, the dictionaries its nodes made, and the  *)
(*            updates its reader has not taken.  A node that does not copy *)
(*            its state changes the dictionary earlier updates refer to    *)
(*   disturbed  history: see Resume                                        *)
(*                                                                         *)
(* Of a state the model has what the edges and the nodes decide by; what a *)
(* language model, a search or a rule says is any of its outcomes.         *)
(***************************************************************************)
EXTENDS Naturals, Sequences

CONSTANTS
    Executions,     \* requests that run the graph of the trace
    Original,       \* the one that answers the question
    MaxIterations,  \* of LangGraphRuntimeRunner
    MaxLag,         \* bound: the updates the original has not taken
    Intents         \* the intents questions have

Intent == {"qa", "compare", "summarize", "graph_query", "statistics"}

GraphConstants ==
    /\ Original \in Executions
    /\ MaxIterations \in Nat \ {0}
    /\ MaxLag \in Nat
    /\ Intents \subseteq Intent

VARIABLES native, thread, row, exec, ahead, disturbed

vars == <<native, thread, row, exec, ahead, disturbed>>

----------------------------------------------------------------------------
\* Types

Node == {"intent_router", "coreference_resolver", "query_rewriter", "query_planner",
         "retriever", "self_correction", "generator", "synthesizer", "critic",
         "compliance", "summary", "graph", "data"}

\* What the critic has said of the text in `answer`, if there is one.
Answer == {"none", "fresh", "rejected", "approved"}

State == [intent     : Intent,
          iteration  : Nat,
          sufficient : BOOLEAN,                            \* retrieval_sufficient
          approved   : BOOLEAN,                            \* critic_approved
          degraded   : BOOLEAN,
          answer     : Answer,
          docs       : BOOLEAN,                            \* retrieved_docs is not empty
          cites      : BOOLEAN,                            \* citations is not empty
          agent      : {"", "compliance", "summary", "graph", "data"},
          decomposed : BOOLEAN,                            \* needs_decomposition
          parts      : BOOLEAN,                            \* sub_results is not empty
          general    : BOOLEAN]  \* generation_source says: nothing found

\* initial_state of AgentRuntime.run.
Fresh == [intent |-> "qa", iteration |-> 0, sufficient |-> FALSE, approved |-> FALSE,
          degraded |-> FALSE, answer |-> "none", docs |-> FALSE, cites |-> FALSE,
          agent |-> "", decomposed |-> FALSE, parts |-> FALSE, general |-> FALSE]

Pc == {"idle", "load", "run", "save", "consume", "hand", "done", "missing", "failed", "stopped"}

Ended == {"done", "missing", "failed", "stopped"}

Execution == [pc : Pc,
              at : Node \union {"none"},   \* the node it ran last, or runs
              st : State]

Idle == [pc |-> "idle", at |-> "none", st |-> Fresh]

NoTask == [at |-> "none", dicts |-> <<>>, queue |-> <<>>, latest |-> 0]

TypeOK ==
    /\ native \in BOOLEAN
    /\ thread \in [next : Node \union {"none", "end"}, st : State]
    /\ row \in [node : Node \union {"none"}, st : State]
    /\ exec \in [Executions -> Execution]
    /\ ahead \in [at     : Node \union {"none", "end"},
                  dicts  : Seq(State),
                  queue  : Seq([node : Node, ref : Nat]),
                  latest : Nat]
    /\ disturbed \subseteq Executions

Init ==
    /\ native \in BOOLEAN
    /\ thread = [next |-> "none", st |-> Fresh]
    /\ row = [node |-> "none", st |-> Fresh]
    /\ exec = [e \in Executions |-> Idle]
    /\ ahead = NoTask
    /\ disturbed = {}

----------------------------------------------------------------------------
\* The nodes: the states each may leave

RouteIntent(s) == {[s EXCEPT !.intent = i] : i \in Intents}

\* They change the query only, whatever the language model or the rules make of it.
ResolveReferences(s) == {s}

Rewrite(s) == {s}

\* A question is split up by the language model, by rules, or not.
Decompositions == BOOLEAN

\* Sub-queries that fail or find nothing count as results of the plan.
Plan(s) ==
    {IF split THEN [s EXCEPT !.decomposed = TRUE, !.parts = TRUE]
              ELSE [s EXCEPT !.decomposed = FALSE] : split \in Decompositions}

\* The citations are those of the documents, whatever the answer cites.
Retrieve(s) == {[s EXCEPT !.docs = found, !.cites = found] : found \in BOOLEAN}

SelfCorrect(s) ==
    {[s EXCEPT !.iteration = @ + 1, !.sufficient = enough] :
        enough \in IF s.docs THEN BOOLEAN ELSE {FALSE}}

\* There is always an answer: where the language model fails or writes what does
\* not pass, rules write one.
Answered(s, cited) == [s EXCEPT !.answer = "fresh", !.cites = cited]

\* _generate_general_knowledge_answer: no documents, or irrelevant ones.
AnswerInGeneral(s) == [Answered(s, FALSE) EXCEPT !.general = TRUE]

AnswerFromDocs(s) == [Answered(s, TRUE) EXCEPT !.general = FALSE]

\* Whether the documents, if there are any, are about the question.
Relevance(s) == IF s.docs THEN BOOLEAN ELSE {FALSE}

\* A state that has an answer is left as it is.
Generate(s) ==
    IF s.answer # "none" THEN {s}
    ELSE {IF relevant THEN AnswerFromDocs(s) ELSE AnswerInGeneral(s) : relevant \in Relevance(s)}

Synthesize(s) ==
    IF s.parts THEN {[Answered(s, found) EXCEPT !.docs = found] : found \in BOOLEAN}
               ELSE {Answered(s, s.cites)}

Comply(s) ==
    {[Answered(s, found) EXCEPT !.docs = found, !.agent = "compliance"] : found \in BOOLEAN}

\* SummaryAgent starts with the search of ComplianceAgent and replaces its answer.
Summarize(s) == {[c EXCEPT !.agent = "summary"] : c \in Comply(s)}

Relate(s) == {[Answered(s, found) EXCEPT !.agent = "graph"] : found \in BOOLEAN}

\* A denied tool answers too.
Analyse(s) == {[Answered(s, FALSE) EXCEPT !.agent = "data"]}

Approve(s) == [s EXCEPT !.approved = TRUE, !.answer = "approved"]

\* Mutant of Reject: the rejection is not counted.
RejectUncounted(s) == [s EXCEPT !.approved = FALSE, !.answer = "rejected"]

\* The rejected text stays, or a placeholder takes its place.
Reject(s) == [s EXCEPT !.approved = FALSE, !.iteration = @ + 1, !.answer = "rejected"]

Unfounded(s) ==
    \/ s.answer = "none"
    \/ s.agent \in {"compliance", "summary", "graph"} /\ ~s.cites

\* Length, structure and the language model decide the rest.
Review(s) ==
    IF s.general THEN {Approve(s)}
    ELSE IF Unfounded(s) THEN {Reject(s)}
    ELSE {Approve(s), Reject(s)}

Outcomes(node, s) ==
    CASE node = "intent_router"        -> RouteIntent(s)
      [] node = "coreference_resolver" -> ResolveReferences(s)
      [] node = "query_rewriter"       -> Rewrite(s)
      [] node = "query_planner"        -> Plan(s)
      [] node = "retriever"            -> Retrieve(s)
      [] node = "self_correction"      -> SelfCorrect(s)
      [] node = "generator"            -> Generate(s)
      [] node = "synthesizer"          -> Synthesize(s)
      [] node = "critic"               -> Review(s)
      [] node = "compliance"           -> Comply(s)
      [] node = "summary"              -> Summarize(s)
      [] node = "graph"                -> Relate(s)
      [] node = "data"                 -> Analyse(s)

\* The nodes the runner gives a copy of the state, with db and current_user.
Copying == {"query_planner", "retriever", "compliance", "summary", "graph", "data"}

----------------------------------------------------------------------------
\* The edges

Specialist(s) ==
    CASE s.intent = "statistics"  -> "data"
      [] s.intent = "summarize"   -> "summary"
      [] s.intent = "graph_query" -> "graph"
      [] OTHER                    -> "compliance"

AfterRewrite(s) == IF s.intent = "qa" THEN "query_planner" ELSE Specialist(s)

Exhausted(s) == s.iteration >= MaxIterations

AfterSelfCorrection(s) ==
    IF s.sufficient \/ Exhausted(s) THEN "generator" ELSE "query_rewriter"

AfterCritic(s) ==
    IF s.approved \/ Exhausted(s) THEN "end"
    ELSE IF s.intent = "qa" THEN "retriever" ELSE Specialist(s)

NextNode(node, s) ==
    CASE node = "intent_router"        -> "coreference_resolver"
      [] node = "coreference_resolver" -> "query_rewriter"
      [] node = "query_rewriter"       -> AfterRewrite(s)
      [] node = "query_planner"        -> IF s.decomposed THEN "synthesizer" ELSE "retriever"
      [] node = "retriever"            -> "self_correction"
      [] node = "self_correction"      -> AfterSelfCorrection(s)
      [] node = "critic"               -> AfterCritic(s)
      [] OTHER                         -> "critic"

\* Mutant of GivenUp: the critic's edge marks nothing.
GivenUpSilently(node, s) == Exhausted(s) /\ node = "self_correction" /\ ~s.sufficient

\* The edges out of self_correction and critic mark the state in place.
GivenUp(node, s) ==
    /\ Exhausted(s)
    /\ \/ node = "self_correction" /\ ~s.sufficient
       \/ node = "critic" /\ ~s.approved

Marked(node, s) == IF GivenUp(node, s) THEN [s EXCEPT !.degraded = TRUE] ELSE s

----------------------------------------------------------------------------
\* Checkpoints

\* _checkpoint_payload, and what json makes of the fields it leaves out.
Payload(s) == [s EXCEPT !.decomposed = FALSE, !.parts = FALSE, !.general = FALSE]

\* The saver's values, updated with those of the row.
Merged(values, saved) ==
    [saved EXCEPT !.decomposed = values.decomposed, !.parts = values.parts,
                  !.general = values.general]

Become(e, x) == exec' = [exec EXCEPT ![e] = x]

Goto(e, pc) == Become(e, [exec[e] EXCEPT !.pc = pc])

\* The execution ends without an answer, and its state goes with it.
Leave(e, pc) == Become(e, [Idle EXCEPT !.pc = pc])

SaveRow(node, s) == row' = [node |-> node, st |-> Payload(s)]

----------------------------------------------------------------------------
\* Executions on the native saver

Begin ==
    /\ exec[Original].pc = "idle"
    /\ IF native THEN /\ Become(Original, [Idle EXCEPT !.pc = "run", !.at = "intent_router"])
                      /\ UNCHANGED ahead
                 ELSE /\ Goto(Original, "consume")
                      /\ ahead' = [NoTask EXCEPT !.at = "intent_router", !.dicts = <<Fresh>>]
    /\ UNCHANGED <<native, thread, row, disturbed>>

\* graph.astream(None): the next node of the thread, as the saver has it.  A
\* thread that has none is at its end, and the last state seen is delivered.
Load(e) ==
    /\ exec[e].pc = "load"
    /\ IF thread.next = "end"
       THEN Goto(e, "done")
       ELSE Become(e, [pc |-> "run", at |-> thread.next, st |-> thread.st])
    /\ UNCHANGED <<native, thread, row, ahead, disturbed>>

\* The node runs; the saver writes what it left.
Run(e) ==
    /\ exec[e].pc = "run"
    /\ \E s \in Outcomes(exec[e].at, exec[e].st) :
          LET left == Marked(exec[e].at, s)
          IN  /\ thread' = [next |-> NextNode(exec[e].at, s), st |-> left]
              /\ Become(e, [exec[e] EXCEPT !.pc = "save", !.st = left])
    /\ UNCHANGED <<native, row, ahead, disturbed>>

\* _emit_node_event: the row, and the event of the node.
Save(e) ==
    /\ exec[e].pc = "save"
    /\ SaveRow(exec[e].at, exec[e].st)
    /\ Goto(e, "load")
    /\ UNCHANGED <<native, thread, ahead, disturbed>>

----------------------------------------------------------------------------
\* The original execution without the saver

\* The graph's task runs a node and puts its update on the queue.
RunAhead ==
    /\ exec[Original].pc = "consume"
    /\ ahead.at \in Node
    /\ Len(ahead.queue) < MaxLag
    /\ LET last == Len(ahead.dicts)
           ref  == IF ahead.at \in Copying THEN last + 1 ELSE last
       IN  \E s \in Outcomes(ahead.at, ahead.dicts[last]) :
              ahead' = [at     |-> NextNode(ahead.at, s),
                        dicts  |-> SubSeq(ahead.dicts, 1, ref - 1)
                                       \o <<Marked(ahead.at, s)>>,
                        queue  |-> Append(ahead.queue, [node |-> ahead.at, ref |-> ref]),
                        latest |-> ahead.latest]
    /\ UNCHANGED <<native, thread, row, exec, disturbed>>

\* The reader takes an update: the row gets what the dictionary holds now.
Consume ==
    /\ exec[Original].pc = "consume"
    /\ ahead.queue # <<>>
    /\ LET update == Head(ahead.queue)
       IN  /\ SaveRow(update.node, ahead.dicts[update.ref])
           /\ Become(Original, [exec[Original] EXCEPT !.at = update.node])
           /\ ahead' = [ahead EXCEPT !.queue = Tail(@), !.latest = update.ref]
    /\ UNCHANGED <<native, thread, disturbed>>

Deliver ==
    /\ exec[Original].pc = "consume"
    /\ ahead.at = "end"
    /\ ahead.queue = <<>>
    /\ Become(Original, [exec[Original] EXCEPT !.pc = "done", !.st = ahead.dicts[ahead.latest]])
    /\ ahead' = NoTask
    /\ UNCHANGED <<native, thread, row, disturbed>>

----------------------------------------------------------------------------
\* Resumption

\* Executions that drive the thread.
Driving == {e \in Executions : exec[e].pc \in {"load", "run", "save"}}

\* The thread is at its end and the last row is not that of its last node: the
\* execution that ran it was stopped before the row, or overtaken.
RowIsBehind == thread.next = "end" /\ row.st # Payload(thread.st)

\* astream_resume: from the latest row, which may be another execution's.  The
\* row's values replace the saver's until a node has run.
Resume(e) ==
    /\ e # Original
    /\ exec[e].pc = "idle"
    /\ exec[Original].pc # "idle"
    /\ IF row.node = "none" THEN Leave(e, "missing") /\ UNCHANGED disturbed
       ELSE IF native
       THEN /\ Become(e, [pc |-> "load", at |-> row.node, st |-> Merged(thread.st, row.st)])
            /\ disturbed' = disturbed
                  \union (IF Driving # {} THEN Driving \union {e} ELSE {})
                  \union (IF RowIsBehind THEN {e} ELSE {})
       ELSE /\ Become(e, [pc |-> "hand", at |-> row.node, st |-> row.st])
            /\ UNCHANGED disturbed
    /\ UNCHANGED <<native, thread, row, ahead>>

\* _next_node_after the node at hand, and its handler.  The handlers of the
\* generator and of the synthesizer take a second argument they are not given.
Uncallable == {"generator", "synthesizer"}

RunByHand(e) ==
    /\ exec[e].pc = "hand"
    /\ LET node == NextNode(exec[e].at, exec[e].st)
           from == Marked(exec[e].at, exec[e].st)
       IN  CASE node = "end"          -> Become(e, [exec[e] EXCEPT !.pc = "done", !.st = from])
                                         /\ UNCHANGED row
             [] node \in Uncallable   -> Leave(e, "failed") /\ UNCHANGED row
             [] node \in Node \ Uncallable ->
                    \E s \in Outcomes(node, from) :
                        /\ Become(e, [pc |-> "hand", at |-> node, st |-> s])
                        /\ SaveRow(node, s)
    /\ UNCHANGED <<native, thread, ahead, disturbed>>

----------------------------------------------------------------------------
\* The client leaves, a timer ends the wait, a node raises, the process dies.
\* The graph's task runs on, unread, and writes no row; the connection of the
\* saver is closed under it.
Stop(e) ==
    /\ exec[e].pc \notin Ended \union {"idle"}
    /\ Leave(e, "stopped")
    /\ ahead' = IF e = Original THEN NoTask ELSE ahead
    /\ UNCHANGED <<native, thread, row, disturbed>>

Step(e) == Load(e) \/ Run(e) \/ Save(e) \/ RunByHand(e)

Read == RunAhead \/ Consume \/ Deliver

Next ==
    \/ Begin
    \/ Read
    \/ \E e \in Executions : Step(e) \/ Resume(e) \/ Stop(e)

Spec == Init /\ [][Next]_vars

\* The event loop does not rest while an execution can go on.
Progress == Read \/ \E e \in Executions : Step(e)

FairSpec == Spec /\ WF_vars(Progress)

----------------------------------------------------------------------------
\* Properties

\* The loops of the graph are bounded whatever row or thread an execution
\* resumes from: an update can be counted twice in a row that a later node
\* has changed, and no oftener.
IterationBound ==
    /\ \A e \in Executions : exec[e].st.iteration <= MaxIterations + 2
    /\ native => thread.st.iteration <= MaxIterations + 1

\* Neither the thread nor an execution ends on an answer the critic did not
\* let pass, unless it says that it is degraded: the request that asks, and a
\* resumption after it has stopped, by hand or on the saver, from wherever the
\* thread is.  Only a disturbed execution may: two that drive one thread at the
\* same time overtake each other, and the slower may deliver a text that only
\* the faster one's critic has seen, or that its own has rejected; and one that
\* finds the thread at its end delivers what the row says, which is the answer
\* before its last review where the row is behind (langgraph_runner.py,
\* astream_resume).
Reviewed(s) == s.answer = "approved" \/ s.degraded

DoneIsReviewed ==
    /\ thread.next = "end" => Reviewed(thread.st)
    /\ \A e \in Executions :
          exec[e].pc = "done" /\ ~Reviewed(exec[e].st) => e \in disturbed

\* Every execution ends, two that drive one thread against each other too.
ExecutionsEnd == <>[](\A e \in Executions : exec[e].pc \in Ended \union {"idle"})

\* "the improvement is handed to the generator for a retry": the critic does
\* not read a text again that it has rejected.
RejectedIsRewritten ==
    \A e \in Executions :
        exec[e].pc = "run" /\ exec[e].at = "critic" => exec[e].st.answer # "rejected"

\* A row is "manual_ready": whoever resumes by hand gets a done event.
ManualResumeEnds == \A e \in Executions : exec[e].pc # "failed"
=============================================================================
