----------------------------- MODULE ChatClient -----------------------------
(***************************************************************************)
(* The chat of one browser tab: the store (stores/chat.ts), the stream     *)
(* reader (composables/useSSE.ts) and what the views let a user do         *)
(* (views/ChatView.vue, layouts/AppLayout.vue).  The answers of the server *)
(* to getHistory, getSessions and streamChat come in any order.            *)
(*                                                                         *)
(*   db         the messages of every session the server has               *)
(*   listed     sessions: what the side bar offers                         *)
(*   starting   calls of initialize that wait for their sessions           *)
(*   active     activeSessionId                                            *)
(*   loaded     historyLoadedSessionId: messages are shown when it is the  *)
(*              active session, a skeleton otherwise                       *)
(*   messages   of the store                                               *)
(*   streaming  isStreaming, which disables the composer                   *)
(*   calls      of getHistory                                              *)
(*   question   questions sent, each with its stream                       *)
(*   inputs     what the user has done: questions, and inputs elsewhere     *)
(*   calm       nobody has left a running stream or sent too early         *)
(*   returned   a stream has ended that the user had left                  *)
(*                                                                         *)
(* reloadActiveSession has no caller and is left out, and so are titles,   *)
(* pins, the runtime events and the local storage, which only initialize   *)
(* of an earlier version read.                                             *)
(***************************************************************************)
EXTENDS Naturals, FiniteSets, SequencesExt

CONSTANTS Threads,     \* identifiers of sessions
          Old,         \* the sessions of the server at the start
          MaxCalls,    \* bound on calls of getHistory at a time
          MaxInputs,   \* bound on what the user does
          Questions,   \* bound on questions of a tab
          None

\* What the constants must be.
ClientConstants ==
    /\ Old \subseteq Threads /\ Threads \ Old # {}
    /\ None \notin Threads
    /\ MaxCalls \in Nat /\ MaxInputs \in Nat /\ Questions \subseteq Nat

VARIABLES db, listed, starting, active, loaded, messages, streaming, calls, question,
          inputs, calm, returned

shown == <<active, loaded, messages, streaming>>
vars == <<db, listed, starting, shown, calls, question, inputs, calm, returned>>

----------------------------------------------------------------------------
\* Types

\* turn: the question a message belongs to, None for those of earlier visits.
\* text: none yet; its own, which is the answer, a part of it or an apology; or
\* that of another turn.
Message == [turn : Questions \union {None}, of : Threads, role : {"user", "assistant"},
            text : {"empty", "own", "foreign"}]

\* of: the session asked for.  removes: the session deleteSession will delete
\* when the history of the next one is there.
Call == [pc : {"asked", "answered"}, of : Threads, rows : Seq(Message),
         removes : Threads \union {None}]

\* content: fullAnswer is not empty.
Question == [pc : {"unsent", "fetch", "open", "done", "ended"},
             of : Threads \union {None}, content : BOOLEAN]

Unsent == [pc |-> "unsent", of |-> None, content |-> FALSE]

TypeOK ==
    /\ db \in [Threads -> Seq(Message)]
    /\ listed \subseteq Threads
    /\ starting \in 0 .. 1
    /\ active \in Threads \union {None}
    /\ loaded \in Threads \union {None}
    /\ messages \in Seq(Message)
    /\ streaming \in BOOLEAN
    /\ \A c \in calls : c \in Call
    /\ question \in [Questions -> Question]
    /\ inputs \in 0 .. MaxInputs
    /\ calm \in BOOLEAN
    /\ returned \in BOOLEAN

Said(t, q, role, text) == [turn |-> q, of |-> t, role |-> role, text |-> text]

Init ==
    /\ db = [t \in Threads |->
                IF t \in Old THEN <<Said(t, None, "user", "own"),
                                    Said(t, None, "assistant", "own")>>
                ELSE <<>>]
    /\ active = CHOOSE t \in Threads : t \notin Old
    /\ loaded = active
    /\ listed = Old \union {active}
    /\ starting = 1
    /\ messages = <<>>
    /\ streaming = FALSE
    /\ calls = {}
    /\ question = [q \in Questions |-> Unsent]
    /\ inputs = 0
    /\ calm = TRUE
    /\ returned = FALSE

----------------------------------------------------------------------------
\* Helpers

Stored == {t \in Threads : db[t] # <<>>}

Fresh == {t \in Threads : t \notin listed \union Stored
                          /\ \A q \in Questions : question[q].of # t}

\* Streams that have delivered neither their done event nor their end.
Running(q) == question[q].pc \in {"fetch", "open"}

Busy == \E q \in Questions : Running(q)

\* isHistoryLoading is false.
IsShown == active = loaded

LastIsAssistant(s) == s # <<>> /\ Last(s).role = "assistant"

\* replaceLastAssistantMessage, with the text of q.
Replaced(s, q) ==
    IF LastIsAssistant(s)
    THEN [s EXCEPT ![Len(s)].text = IF Last(s).turn = q THEN "own" ELSE "foreign"]
    ELSE s

\* removeLastMessage, if the last one is an assistant's without content.
WithoutPlaceholder(s) ==
    IF LastIsAssistant(s) /\ Last(s).text = "empty" THEN Front(s) ELSE s

----------------------------------------------------------------------------
\* Sessions

\* createSession
Activated(t) ==
    /\ active' = t
    /\ loaded' = t
    /\ messages' = <<>>

\* initialize, once its getSessions is answered.  The view and the layout both
\* call it, since initialized is set at the end only.  A first session that still has the
\* default title, which the server replaces by the first question, is reused by the code:
\* here there is none.
Initialize ==
    /\ starting > 0
    /\ Fresh # {}
    /\ LET t == CHOOSE f \in Fresh : TRUE IN
       /\ Activated(t)
       /\ listed' = Stored \union {t}
    /\ starting' = starting - 1
    /\ calm' = (calm /\ ~Busy)
    /\ UNCHANGED <<db, streaming, calls, question, inputs, returned>>

Input == inputs < MaxInputs /\ inputs' = inputs + 1

\* The user goes elsewhere.
Moves ==
    /\ Input
    /\ calm' = (calm /\ ~Busy)
    /\ UNCHANGED <<starting, streaming, question, returned>>

\* setActiveSession up to its await
Ask(t, removes) ==
    /\ Cardinality(calls) < MaxCalls
    /\ active' = t
    /\ messages' = <<>>
    /\ calls' = calls \union {[pc |-> "asked", of |-> t, rows |-> <<>>, removes |-> removes]}

OpenSession(t) ==
    /\ t \in listed
    /\ ~(streaming /\ active = t)
    /\ Ask(t, None)
    /\ Moves
    /\ UNCHANGED <<db, listed, loaded>>

\* The server reads the messages of the session.
AnswerHistory(c) ==
    /\ c.pc = "asked"
    /\ calls' = (calls \ {c}) \union {[c EXCEPT !.pc = "answered", !.rows = db[c.of]]}
    /\ UNCHANGED <<db, listed, starting, shown, question, inputs, calm, returned>>

Deleted(gone) == db' = [t \in Threads |-> IF t \in gone THEN <<>> ELSE db[t]]

\* Mutant of HistoryArrives: it is taken for the history of the active session.
HistoryArrivesUnasked(c) ==
    /\ messages' \in {<<>>, c.rows}
    /\ loaded' = active
    /\ calls' = calls \ {c}
    /\ Deleted({c.removes})
    /\ UNCHANGED <<listed, starting, active, streaming, question, inputs, calm, returned>>

\* setActiveSession after its await: nothing asks whether the session is still
\* the active one.  A failed call leaves no messages.
HistoryArrives(c) ==
    /\ messages' \in {<<>>, c.rows}
    /\ loaded' = c.of
    /\ calls' = calls \ {c}
    /\ Deleted({c.removes})
    /\ UNCHANGED <<listed, starting, active, streaming, question, inputs, calm, returned>>

\* resetToNew
ResetToNew ==
    /\ active' = None
    /\ loaded' = None
    /\ messages' = <<>>
    /\ Moves
    /\ UNCHANGED <<db, listed, calls>>

\* deleteSession of the active session goes to the first of the others; the
\* server hears of it when the history of that one is there.
DeleteSession(t) ==
    /\ t \in listed
    /\ listed' = listed \ {t}
    /\ \/ /\ active # t
          /\ Deleted({t})
          /\ UNCHANGED <<active, messages, calls>>
       \/ /\ active = t /\ listed' = {}
          /\ active' = None /\ messages' = <<>>
          /\ Deleted({t})
          /\ UNCHANGED calls
       \/ /\ active = t
          /\ \E next \in listed' : Ask(next, t)
          /\ UNCHANGED db
    /\ Moves
    /\ UNCHANGED loaded

\* clearAllSessions
ClearAllSessions ==
    /\ listed # {}
    /\ listed' = {}
    /\ active' = None
    /\ messages' = <<>>
    /\ Deleted(Threads)
    /\ Moves
    /\ UNCHANGED <<loaded, calls>>

----------------------------------------------------------------------------
\* Questions

\* Mutant of Sent: no message waits for the answer.
SentAlone(q, t, s) ==
    /\ \A r \in Questions : question[r].pc = "unsent" <=> r >= q
    /\ question' = [question EXCEPT ![q] = [Unsent EXCEPT !.pc = "fetch", !.of = t]]
    /\ messages' = Append(s, Said(t, q, "user", "own"))
    /\ streaming' = TRUE
    /\ calm' = (calm /\ ~Busy /\ calls = {} /\ IsShown)
    /\ Input

\* sendMessage up to its await, to session t, after the messages s.
Sent(q, t, s) ==
    /\ \A r \in Questions : question[r].pc = "unsent" <=> r >= q
    /\ question' = [question EXCEPT ![q] = [Unsent EXCEPT !.pc = "fetch", !.of = t]]
    /\ messages' = s \o <<Said(t, q, "user", "own"), Said(t, q, "assistant", "empty")>>
    /\ streaming' = TRUE
    /\ calm' = (calm /\ ~Busy /\ calls = {} /\ IsShown)
    /\ Input

\* handleSend: the composer asks for isStreaming only, not whether the history of
\* the session is there.
Send(q) ==
    /\ ~streaming
    /\ \/ /\ active # None
          /\ Sent(q, active, messages)
          /\ UNCHANGED <<listed, active, loaded>>
       \/ /\ active = None /\ Fresh # {}
          /\ LET t == CHOOSE f \in Fresh : TRUE IN
             /\ Sent(q, t, <<>>)
             /\ listed' = listed \union {t}
             /\ active' = t /\ loaded' = t
    /\ UNCHANGED <<db, starting, calls, returned>>

\* retryLastPrompt, offered below a message: the failed answer and its question
\* go first.
Retry(q) ==
    /\ ~streaming /\ IsShown /\ active # None
    /\ \E i \in DOMAIN messages : messages[i].role = "user"
    /\ LET s == IF LastIsAssistant(messages) THEN Front(messages) ELSE messages
           cut == LastIsAssistant(messages) /\ s # <<>> /\ Last(s).role = "user"
       IN Sent(q, active, IF cut THEN Front(s) ELSE s)
    /\ UNCHANGED <<db, listed, starting, active, loaded, calls, returned>>

\* The user looks at the session of the question.
Looking(q) == active = question[q].of

Becomes(q, pc) == question' = [question EXCEPT ![q].pc = pc]

\* chat_stream commits the question with an empty answer.
Rows(q) == <<Said(question[q].of, q, "user", "own"),
             Said(question[q].of, q, "assistant", "empty")>>

Accepted(q) ==
    /\ question[q].pc = "fetch"
    /\ Becomes(q, "open")
    /\ db' = [db EXCEPT ![question[q].of] = @ \o Rows(q)]
    /\ UNCHANGED <<listed, starting, shown, calls, calm, inputs, returned>>

\* The session has expired: logout, and the tab goes to the login page with
\* isStreaming as it is.
Unauthorized(q) ==
    /\ question[q].pc = "fetch"
    /\ Becomes(q, "ended")
    /\ calm' = FALSE
    /\ UNCHANGED <<db, listed, starting, shown, calls, inputs, returned>>

\* The request fails, or reading the stream does.
Failed(q) ==
    /\ Running(q)
    /\ Becomes(q, "ended")
    /\ IF Looking(q)
       THEN messages' = WithoutPlaceholder(messages) /\ streaming' = FALSE
       ELSE UNCHANGED <<messages, streaming>>
    /\ UNCHANGED <<db, listed, starting, active, loaded, calls, calm, inputs, returned>>

\* handleEvent of a thinking, searching, reading or tool_call event, and of the
\* streaming event that only announces an answer
StatusEvent(q) ==
    /\ question[q].pc = "open"
    /\ streaming' = (streaming \/ Looking(q))
    /\ UNCHANGED <<db, listed, starting, active, loaded, messages, calls, question, inputs,
                   calm, returned>>

\* handleEvent of a streaming event with a part of the answer
StreamingEvent(q) ==
    /\ question[q].pc = "open"
    /\ question' = [question EXCEPT ![q].content = TRUE]
    /\ IF Looking(q) THEN messages' = Replaced(messages, q) /\ streaming' = TRUE
       ELSE UNCHANGED <<messages, streaming>>
    /\ UNCHANGED <<db, listed, starting, active, loaded, calls, inputs, calm, returned>>

\* handleEvent of an error event, which need not be the last of a stream.
ErrorEvent(q) ==
    /\ question[q].pc = "open"
    /\ Looking(q)
    /\ messages' = Replaced(messages, q)
    /\ streaming' = FALSE
    /\ UNCHANGED <<db, listed, starting, active, loaded, calls, question, inputs, calm,
                   returned>>

\* The server saves the answer, if its row is still there, and says so.
Saved(q) ==
    db' = [db EXCEPT ![question[q].of] =
              [i \in DOMAIN @ |-> IF @[i].turn = q THEN [@[i] EXCEPT !.text = "own"]
                                  ELSE @[i]]]

\* handleEvent of the done event: the session becomes the active one again,
\* whatever the user looks at, and the list is the server's, if it answers.
DoneEvent(q) ==
    /\ question[q].pc = "open"
    /\ Becomes(q, "done")
    /\ Saved(q)
    /\ IF Looking(q) THEN messages' = Replaced(messages, q) /\ streaming' = FALSE
       ELSE UNCHANGED <<messages, streaming>>
    /\ active' = question[q].of
    /\ returned' = (returned \/ ~Looking(q))
    /\ listed' \in {listed \union {question[q].of}, Stored}
    /\ UNCHANGED <<starting, loaded, calls, inputs, calm>>

\* The stream ends without a done event.
StreamEnds(q) ==
    /\ question[q].pc = "open"
    /\ Becomes(q, "ended")
    /\ IF Looking(q)
       THEN /\ messages' = IF question[q].content THEN Replaced(messages, q)
                           ELSE WithoutPlaceholder(messages)
            /\ streaming' = FALSE
       ELSE UNCHANGED <<messages, streaming>>
    /\ UNCHANGED <<db, listed, starting, active, loaded, calls, inputs, calm, returned>>

----------------------------------------------------------------------------
\* Specification

Navigate ==
    \/ Initialize \/ ResetToNew \/ ClearAllSessions
    \/ \E t \in Threads : OpenSession(t) \/ DeleteSession(t)
    \/ \E c \in calls : AnswerHistory(c) \/ HistoryArrives(c)

Converse(q) ==
    \/ Send(q) \/ Retry(q) \/ Accepted(q) \/ Unauthorized(q) \/ Failed(q)
    \/ StatusEvent(q) \/ StreamingEvent(q) \/ ErrorEvent(q) \/ DoneEvent(q)
    \/ StreamEnds(q)

Next == Navigate \/ (\E q \in Questions : Converse(q))

Spec == Init /\ [][Next]_vars

----------------------------------------------------------------------------
\* Properties

\* What is on the screen belongs to the session it is shown under, in whatever
\* order histories arrive and sessions are opened, deleted and asked: a history
\* that comes too late is never displayed under the name of another session.  The
\* end of a stream the user had left breaks this: it makes its session the active
\* one, under the messages of another.
ShownIsOfActive ==
    IsShown /\ ~returned => \A i \in DOMAIN messages : messages[i].of = active

HasAnswer(q) == \E i \in DOMAIN messages : messages[i].turn = q
                                           /\ messages[i].role = "assistant"
                                           /\ messages[i].text = "own"

IsLatest(q) == \A r \in Questions : r > q => question[r].of # question[q].of

\* For a user who waits for the history of a session before asking and for the
\* answer before leaving: no answer overwrites another, the composer is disabled
\* only while a stream of the displayed session runs, and the last answer of a
\* session is on the screen whenever its session is.
AnswersStayPut ==
    calm => /\ \A i \in DOMAIN messages : messages[i].text # "foreign"
            /\ streaming => \E q \in Questions : Running(q) /\ Looking(q)
            /\ \A q \in Questions :
                  /\ question[q].pc = "done" /\ IsLatest(q) /\ question[q].of \in Stored
                  /\ Looking(q) /\ IsShown /\ messages # <<>>
                  => HasAnswer(q)
=============================================================================
