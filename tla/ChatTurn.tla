------------------------------ MODULE ChatTurn ------------------------------
(***************************************************************************)
(* One question and its answer at the edge of the system (api/v1/chat.py,  *)
(* api/v1/ws_chat.py, retrieval/semantic_cache.py): the row of the answer  *)
(* in PostgreSQL, the events the client gets over server-sent events, HTTP *)
(* or a WebSocket, the replay lists in Redis, the semantic cache, and the  *)
(* reconnections of a client that lost its stream.                         *)
(*                                                                         *)
(*   channel   how the client asked                                        *)
(*   row       the text in the answer's ChatMessage, as committed          *)
(*   turn      the handler of the question                                 *)
(*   log       runtime:replay:{trace}: the handler has a trace of its own  *)
(*             until the runtime is done, the runtime has another          *)
(*   client    what has reached it; `last` is its Last-Event-ID            *)
(*   reader    the replay generator of its last reconnection               *)
(*   cache     the entry of the question for this user                     *)
(*                                                                         *)
(* Every event of the runtime is pushed twice: by the runtime, with the    *)
(* number the runtime gave it, and by the handler, which keeps that        *)
(* number; what the handler adds is numbered by its own counter.           *)
(***************************************************************************)
EXTENDS Naturals, Sequences, SequencesExt

CONSTANTS
    MaxEvents,     \* bound: events of the runtime before its done event
    MaxTokens,     \* bound: pieces in which the handler streams an answer
    MaxReconnects  \* bound: reconnections of the client

ChatConstants == {MaxEvents, MaxTokens, MaxReconnects} \subseteq Nat

VARIABLES channel, row, turn, log, client, reader, cache

vars == <<channel, row, turn, log, client, reader, cache>>

----------------------------------------------------------------------------
\* Types

\* raw: the runtime's answer as no guard has seen it, partial: its first
\* tokens, final: what the output guard let pass or put in its place, reason:
\* the input guard's refusal, cached: an answer from the cache.
Text == {"absent", "", "partial", "raw", "final", "reason", "cached"}

Trace == {"handler", "runtime"}

\* answer: the runtime's done event.  done: the handler's, or a resumption's.
Kind == {"status", "token", "answer", "error", "done"}

Event == [trace : Trace, n : Nat, kind : Kind, text : Text]

Terminal == {"answer", "error", "done"}

Turn == [pc       : {"idle", "push", "send", "lookup", "keep", "guard", "refused", "runtime",
                     "engine", "check", "tokens", "save", "put", "commit", "respond", "ended"},
         event    : Event,                      \* at hand
         then     : {"lookup", "keep", "refused", "runtime", "tokens", "ended"},
         count    : Nat,                        \* sequence_num of the handler
         number   : Nat,                        \* _sequence of the runtime
         tokens   : Nat,                        \* pieces streamed by the handler
         got      : {"", "partial", "raw"},     \* final_answer or accumulated_content
         streamed : BOOLEAN,                    \* has_native_stream
         verdict  : {"none", "safe", "blocked", "garbled"}]

Reader == [pc     : {"idle", "replay", "resume", "engine", "push", "send", "refused", "ended"},
           rows   : Seq(Event),                 \* of the list, still to be looked at
           after  : Nat,                        \* last_sequence
           final  : BOOLEAN,                    \* replay_terminal
           trace  : Trace,
           high   : Nat,                        \* highest_sequence
           number : Nat,                        \* _sequence of the resumption
           event  : Event,                      \* at hand
           then   : {"resume", "refused", "ended"}]

NoEvent == [trace |-> "handler", n |-> 0, kind |-> "status", text |-> ""]

IdleTurn == [pc |-> "idle", event |-> NoEvent, then |-> "ended", count |-> 0, number |-> 0,
             tokens |-> 0, got |-> "", streamed |-> FALSE, verdict |-> "none"]

IdleReader == [pc |-> "idle", rows |-> <<>>, after |-> 0, final |-> FALSE, trace |-> "handler",
               high |-> 0, number |-> 0, event |-> NoEvent, then |-> "ended"]

TypeOK ==
    /\ channel \in {"stream", "http", "ws"}
    /\ row \in Text
    /\ turn \in Turn
    /\ log \in [Trace -> Seq(Event)]
    /\ client \in [on         : {"turn", "reader", "off"},  \* the stream it reads
                   last       : [trace : Trace, n : Nat],
                   seen       : SUBSET (Nat \X Kind), \* of the runtime's trace, before it reconnects
                   done       : Text,           \* of the first done event it got
                   reconnects : Nat]
    /\ reader \in Reader
    /\ cache \in [text : {"", "cached", "final"}, verdict : {"none", "safe", "garbled"},
                  degraded : BOOLEAN]

Init ==
    /\ channel \in {"stream", "http", "ws"}
    /\ row = "absent"
    /\ turn = IdleTurn
    /\ log = [t \in Trace |-> <<>>]
    /\ client = [on |-> "turn", last |-> [trace |-> "handler", n |-> 0], seen |-> {},
                 done |-> "absent", reconnects |-> 0]
    /\ reader = IdleReader
    /\ cache \in {[text |-> text, verdict |-> "none", degraded |-> FALSE] :
                     text \in {"", "cached"}}

----------------------------------------------------------------------------
\* Events

TurnBecomes(t) == turn' = t

\* The state of a handler goes with it.
Ended == [IdleTurn EXCEPT !.pc = "ended"]

Goto(pc) ==
    TurnBecomes(IF pc = "ended" THEN Ended
                ELSE [turn EXCEPT !.pc = pc,
                                  !.event = IF pc \in {"send", "commit", "respond"} THEN @ ELSE NoEvent])

\* Mutant of OwnTrace: none before the runtime's.
OwnTraceLate == IF turn.verdict = "none" THEN "" ELSE "runtime"

\* A handler's trace is the runtime's once the runtime is done.
OwnTrace == IF turn.verdict = "none" THEN "handler" ELSE "runtime"

\* Mutant of Emitted: only what the handler adds is counted.
EmittedAlone(t, event, then) ==
    [t EXCEPT !.pc = "push", !.then = then,
              !.count = IF event.n = 0 THEN @ + 1 ELSE @,
              !.event = IF event.n = 0 THEN [event EXCEPT !.n = t.count + 1, !.trace = OwnTrace]
                                       ELSE event]

\* emit: every event is counted; one with a number keeps it.
Emitted(t, event, then) ==
    [t EXCEPT !.pc = "push", !.then = then, !.count = @ + 1,
              !.event = IF event.n = 0 THEN [event EXCEPT !.n = t.count + 1, !.trace = OwnTrace]
                                       ELSE event]

Own(kind, text) == [NoEvent EXCEPT !.kind = kind, !.text = text]

Pushed(event) == log' = [log EXCEPT ![event.trace] = Append(@, event)]

\* What reaches the client: the browser keeps the id of the last event.
Received(event) ==
    [client EXCEPT !.last = [trace |-> event.trace, n |-> event.n],
                   !.seen = IF event.trace = "runtime" /\ client.reconnects = 0
                            THEN @ \union {<<event.n, event.kind>>} ELSE @,
                   !.done = IF @ = "absent" /\ event.kind \in {"answer", "done"}
                            THEN event.text ELSE @]

\* _persist_replay_event.
Push ==
    /\ turn.pc = "push"
    /\ Pushed(turn.event)
    /\ Goto("send")
    /\ UNCHANGED <<channel, row, client, reader, cache>>

\* The generator is suspended while the server sends.
Send ==
    /\ turn.pc = "send"
    /\ client' = IF client.on = "turn" THEN Received(turn.event) ELSE client
    /\ Goto(turn.then)
    /\ UNCHANGED <<channel, row, log, reader, cache>>

----------------------------------------------------------------------------
\* The question, over server-sent events

\* Both messages are committed before the stream begins.
BeginStream ==
    /\ channel = "stream"
    /\ turn.pc = "idle"
    /\ row' = ""
    /\ TurnBecomes(Emitted(turn, Own("status", ""), "lookup"))
    /\ UNCHANGED <<channel, log, client, reader, cache>>

Lookup ==
    /\ channel = "stream"
    /\ turn.pc = "lookup"
    /\ TurnBecomes(IF cache.text # "" THEN Emitted(turn, Own("token", "cached"), "keep")
                                      ELSE [turn EXCEPT !.pc = "guard"])
    /\ UNCHANGED <<channel, row, log, client, reader, cache>>

\* The cached answer is stored, then announced.
Keep ==
    /\ turn.pc = "keep"
    /\ row' = "cached"
    /\ TurnBecomes(Emitted(turn, Own("done", "cached"), "ended"))
    /\ UNCHANGED <<channel, log, client, reader, cache>>

\* InputGuard.check: the sidecar and the phrases it knows let a question pass or not.
Admissions == BOOLEAN

\* The refusal is stored.
Guard ==
    /\ channel = "stream"
    /\ turn.pc = "guard"
    /\ \E admitted \in Admissions :
          IF admitted THEN Goto("runtime") /\ UNCHANGED row
          ELSE TurnBecomes(Emitted(turn, Own("error", ""), "refused")) /\ row' = "reason"
    /\ UNCHANGED <<channel, log, client, reader, cache>>

Refuse ==
    /\ turn.pc = "refused"
    /\ TurnBecomes(Emitted(turn, Own("done", "reason"), "ended"))
    /\ UNCHANGED <<channel, row, log, client, reader, cache>>

\* The runtime numbers an event and pushes it ...
RuntimeEvent(kind) ==
    /\ channel = "stream"
    /\ turn.pc = "runtime"
    /\ kind = "answer" \/ turn.number < MaxEvents
    /\ LET event == [trace |-> "runtime", n |-> turn.number + 1, kind |-> kind,
                     text |-> IF kind = "answer" THEN "raw" ELSE ""]
       IN  /\ Pushed(event)
           /\ TurnBecomes([turn EXCEPT !.pc = "engine", !.event = event, !.number = @ + 1])
    /\ UNCHANGED <<channel, row, client, reader, cache>>

\* ... and the handler emits it too, or stops at the done event.
TakeEvent ==
    /\ turn.pc = "engine"
    /\ IF turn.event.kind = "answer"
       THEN TurnBecomes([turn EXCEPT !.pc = "check", !.got = "raw"])
       ELSE LET token == turn.event.kind = "token"
            IN  TurnBecomes(Emitted([turn EXCEPT !.got = IF token THEN "partial" ELSE @,
                                                 !.streamed = @ \/ token],
                                    turn.event, "runtime"))
    /\ UNCHANGED <<channel, row, log, client, reader, cache>>

\* OutputGuard.check: the sidecar, the test for garbled text, what looks personal.
Verdicts == {"safe", "blocked", "garbled"}

\* The output guard, its audit and the watermark.  What it does not let pass is
\* replaced by a notice, a garbled answer by one made of its citations; the
\* WebSocket knows the notice only.
Check ==
    /\ turn.pc = "check"
    /\ \E verdict \in Verdicts :
          TurnBecomes([turn EXCEPT
              !.verdict = verdict,
              !.pc = IF channel # "stream" THEN "put"
                     ELSE IF turn.streamed /\ verdict = "safe" THEN "save" ELSE "tokens"])
    /\ UNCHANGED <<channel, row, log, client, reader, cache>>

StreamAnswer ==
    /\ turn.pc = "tokens"
    /\ TurnBecomes(IF turn.tokens < MaxTokens
                   THEN Emitted([turn EXCEPT !.tokens = @ + 1], Own("token", ""), "tokens")
                   ELSE [turn EXCEPT !.pc = "save"])
    /\ UNCHANGED <<channel, row, log, client, reader, cache>>

\* Mutant of SaveAnswer: the text as it was before the guard.
SaveUnguarded ==
    /\ turn.pc = "save"
    /\ row' = turn.got
    /\ Goto("put")
    /\ UNCHANGED <<channel, log, client, reader, cache>>

SaveAnswer ==
    /\ turn.pc = "save"
    /\ row' = "final"
    /\ Goto("put")
    /\ UNCHANGED <<channel, log, client, reader, cache>>

\* A refusal has no citations; an answer may have none, and may be degraded.
Cites == turn.verdict = "safe" \/ (turn.verdict = "garbled" /\ channel # "ws")

\* Mutant of ShouldCache: the agent is not looked at.
ShouldCacheAnyAgent(degraded) == Cites /\ (channel = "stream" => ~degraded)

\* _should_cache, as it is called: the stream alone passes the degradation on,
\* the WebSocket does not pass the agent, which names what the guard refused.
ShouldCache(degraded) ==
    /\ Cites
    /\ channel = "stream" => ~degraded
    /\ channel # "ws" => turn.verdict = "safe"

\* An answer over HTTP is committed, then sent; over a WebSocket, the reverse.
Reply(text) ==
    TurnBecomes([turn EXCEPT !.event = Own("done", text),
                             !.pc = IF channel = "http" THEN "commit" ELSE "respond"])

Put ==
    /\ turn.pc = "put"
    /\ \/ \E degraded \in BOOLEAN :
             /\ ShouldCache(degraded)
             /\ cache' = [text |-> "final", verdict |-> turn.verdict, degraded |-> degraded]
       \/ UNCHANGED cache
    /\ IF channel = "stream" THEN TurnBecomes(Emitted(turn, Own("done", "final"), "ended"))
                             ELSE Reply("final")
    /\ UNCHANGED <<channel, row, log, client, reader>>

\* The client leaves.  In an await the generator is cancelled and saves what it
\* has, if it has anything; suspended at an event it is closed and saves nothing.
Cancel ==
    /\ channel = "stream"
    /\ client.on # "turn"
    /\ turn.pc \in {"push", "lookup", "keep", "guard", "refused", "runtime", "engine", "check",
                    "tokens", "save", "put"}
    /\ row' = IF turn.got # "" THEN turn.got ELSE row
    /\ Goto("ended")
    /\ UNCHANGED <<channel, log, client, reader, cache>>

\* So does an exception end it, which rolls back what is not committed.
Break ==
    /\ turn.pc \notin {"idle", "ended"}
    /\ Goto("ended")
    /\ UNCHANGED <<channel, row, log, client, reader, cache>>

----------------------------------------------------------------------------
\* The question, over HTTP and over a WebSocket: one transaction

Direct == channel \in {"http", "ws"}

BeginDirect ==
    /\ Direct
    /\ turn.pc = "idle"
    /\ Goto("lookup")
    /\ UNCHANGED <<channel, row, log, client, reader, cache>>

LookupDirect ==
    /\ Direct
    /\ turn.pc = "lookup"
    /\ IF cache.text # "" THEN Reply("cached") ELSE Goto("guard")
    /\ UNCHANGED <<channel, row, log, client, reader, cache>>

GuardDirect ==
    /\ Direct
    /\ turn.pc = "guard"
    /\ \E admitted \in Admissions : IF admitted THEN Goto("runtime") ELSE Reply("reason")
    /\ UNCHANGED <<channel, row, log, client, reader, cache>>

RunDirect ==
    /\ Direct
    /\ turn.pc = "runtime"
    /\ TurnBecomes([turn EXCEPT !.pc = "check", !.got = "raw"])
    /\ UNCHANGED <<channel, row, log, client, reader, cache>>

Commit ==
    /\ turn.pc = "commit"
    /\ row' = turn.event.text
    /\ Goto(IF channel = "http" THEN "respond" ELSE "ended")
    /\ UNCHANGED <<channel, log, client, reader, cache>>

Respond ==
    /\ turn.pc = "respond"
    /\ client' = [client EXCEPT !.done = turn.event.text]
    /\ Goto(IF channel = "http" THEN "ended" ELSE "commit")
    /\ UNCHANGED <<channel, row, log, reader, cache>>

----------------------------------------------------------------------------
\* Reconnections

ReaderBecomes(r) == reader' = r

EndedReader == [IdleReader EXCEPT !.pc = "ended"]

ReaderEmits(r, event, then) ==
    ReaderBecomes([r EXCEPT !.pc = "push", !.high = @ + 1, !.then = then,
                            !.event = [event EXCEPT !.trace = r.trace, !.n = r.high + 1]])

\* The stream the client reads is lost, or at its end.
Drop ==
    /\ channel = "stream"
    /\ client.on # "off"
    /\ turn.pc # "idle"
    /\ client' = [client EXCEPT !.on = "off"]
    /\ UNCHANGED <<channel, row, turn, log, reader, cache>>

\* The list as it is now.
Reconnect ==
    /\ channel = "stream"
    /\ client.on = "off"
    /\ client.last.n > 0
    /\ client.done = "absent"
    /\ client.reconnects < MaxReconnects
    /\ reader.pc \in {"idle", "ended"}
    /\ client' = [client EXCEPT !.on = "reader", !.reconnects = @ + 1, !.seen = {}]
    /\ LET from == client.last
       IN  ReaderBecomes([IdleReader EXCEPT !.pc = "replay", !.trace = from.trace,
                                            !.after = from.n, !.high = from.n,
                                            !.rows = log[from.trace]])
    /\ UNCHANGED <<channel, row, turn, log, cache>>

\* What comes after the event the client names is sent.
Replay ==
    /\ reader.pc = "replay"
    /\ reader.rows # <<>>
    /\ LET event == Head(reader.rows)
           later == event.n > reader.after
       IN  /\ client' = IF later /\ client.on = "reader" THEN Received(event) ELSE client
           /\ ReaderBecomes([reader EXCEPT !.rows = Tail(@),
                                           !.high = IF event.n > @ THEN event.n ELSE @,
                                           !.final = @ \/ (later /\ event.kind \in Terminal)])
    /\ UNCHANGED <<channel, row, turn, log, cache>>

\* What has no terminal event is resumed, if the input guard lets it.
EndReplay ==
    /\ reader.pc = "replay"
    /\ reader.rows = <<>>
    /\ IF reader.final
       THEN ReaderBecomes(EndedReader)
       ELSE \/ ReaderBecomes([reader EXCEPT !.pc = "resume"])
            \/ ReaderEmits(reader, Own("error", ""), "refused")
    /\ UNCHANGED <<channel, row, turn, log, client, cache>>

RefuseResumption ==
    /\ reader.pc = "refused"
    /\ ReaderEmits(reader, Own("done", "reason"), "ended")
    /\ UNCHANGED <<channel, row, turn, log, client, cache>>

\* A resumption counts its events anew.  The handler's trace has no checkpoint.
ResumeEvent(kind) ==
    /\ reader.pc = "resume"
    /\ reader.trace = "handler" => kind = "error"
    /\ kind = "error" => reader.number = 0
    /\ kind = "status" => reader.number < MaxEvents
    /\ LET event == [trace |-> reader.trace, n |-> reader.number + 1, kind |-> kind,
                     text |-> IF kind = "answer" THEN "raw" ELSE ""]
       IN  /\ Pushed(event)
           /\ ReaderBecomes([reader EXCEPT !.pc = "engine", !.event = event, !.number = @ + 1])
    /\ UNCHANGED <<channel, row, turn, client, cache>>

\* The handler numbers it after what the client has, and guards the answer.
Renumber ==
    /\ reader.pc = "engine"
    /\ LET event == reader.event
       IN  ReaderEmits(reader,
                       IF event.kind = "answer" THEN Own("done", "final") ELSE event,
                       IF event.kind = "status" THEN "resume" ELSE "ended")
    /\ UNCHANGED <<channel, row, turn, log, client, cache>>

ReaderPush ==
    /\ reader.pc = "push"
    /\ Pushed(reader.event)
    /\ ReaderBecomes([reader EXCEPT !.pc = "send"])
    /\ UNCHANGED <<channel, row, turn, client, cache>>

ReaderSend ==
    /\ reader.pc = "send"
    /\ client' = IF client.on = "reader" THEN Received(reader.event) ELSE client
    /\ ReaderBecomes(IF reader.then = "ended" THEN EndedReader
                     ELSE [reader EXCEPT !.pc = reader.then, !.event = NoEvent])
    /\ UNCHANGED <<channel, row, turn, log, cache>>

\* It is cancelled, closed, or fails: it has nothing to save.
ReaderBreaks ==
    /\ reader.pc \notin {"idle", "ended"}
    /\ ReaderBecomes(EndedReader)
    /\ UNCHANGED <<channel, row, turn, log, client, cache>>

----------------------------------------------------------------------------
Next ==
    \/ BeginStream \/ Lookup \/ Keep \/ Guard \/ Refuse
    \/ \E kind \in {"status", "token", "answer"} : RuntimeEvent(kind)
    \/ TakeEvent \/ Push \/ Send \/ Check \/ StreamAnswer \/ SaveAnswer \/ Put
    \/ Cancel \/ Break
    \/ BeginDirect \/ LookupDirect \/ GuardDirect \/ RunDirect \/ Commit \/ Respond
    \/ Drop \/ Reconnect \/ Replay \/ EndReplay \/ RefuseResumption
    \/ \E kind \in {"status", "answer", "error"} : ResumeEvent(kind)
    \/ Renumber \/ ReaderPush \/ ReaderSend \/ ReaderBreaks

Spec == Init /\ [][Next]_vars

----------------------------------------------------------------------------
\* Properties

\* What a client was told is done is what the history shows it later, unless
\* it was told by a replay; over a WebSocket the commit follows and may fail.
ShownIsStored ==
    client.done # "absent" /\ client.reconnects = 0 =>
        row = client.done \/ (channel = "ws" /\ row = "absent")

\* The cache serves no text the output guard replaced, whichever channel put
\* it there, and the stream puts none that is degraded.
CacheIsSafe ==
    cache.text = "final" => cache.verdict = "safe" /\ (channel = "stream" => ~cache.degraded)

\* The numbers and kinds of events.
Numbered(events) == {<<event.n, event.kind>> : event \in events}

\* A first reconnection skips nothing: whatever the handler has pushed in the
\* trace and the client has not got comes after the number the client names,
\* though two counters gave the numbers.  (The runtime's done event has a number
\* and is for the handler.)
NothingIsSkipped ==
    [][client.reconnects = 0 /\ client'.reconnects = 1 /\ client.last.trace = "runtime" =>
         Numbered({event \in ToSet(log["runtime"]) : event.kind # "answer"}) \subseteq
           client.seen \union
             Numbered({event \in ToSet(reader'.rows) : event.n > reader'.after})]_vars

\* "Save the final answer to DB", "Save partial content if the stream is
\* interrupted": what is saved in full stays.
FinalStaysSaved == [][row = "final" => row' = "final"]_row
=============================================================================
