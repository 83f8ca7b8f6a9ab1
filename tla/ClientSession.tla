--------------------------- MODULE ClientSession ---------------------------
(***************************************************************************)
(* Who is signed in at a tab of the web client: stores/auth.ts, the        *)
(* interceptors of api/http.ts, the 401 of a stream (useSSE.ts) and the    *)
(* occasions of main.ts.  Every call is sent with the token of its moment  *)
(* and answered later; a call that is refused asks for new tokens and is   *)
(* sent again, and all that ask at once wait for one refresh.              *)
(*                                                                         *)
(*   token     whose access token the store holds (and localStorage)       *)
(*   refresh   whose refresh token it holds                                *)
(*   user      whose profile it shows                                      *)
(*   flow      what runs: a login, a hydration (single: hydrateInFlight),  *)
(*             a call of a view, a stream                                  *)
(*   renewal   refreshInFlight: whose token has been sent                  *)
(*   inputs    what the user has done so far                               *)
(*   present   history: who has signed in last and has not left            *)
(*   crossed   history: somebody has left while a renewal was under way,   *)
(*             or has signed in while one or a hydration was, and nobody   *)
(*             has signed in since while neither was                       *)
(*   refused   history: the server has refused a refresh token             *)
(*                                                                         *)
(* What the server makes of a token is its choice at every call: tokens    *)
(* expire, people are deactivated and activated.  Push registration, which *)
(* native apps add to login, hydration and logout, is left out.            *)
(***************************************************************************)
EXTENDS Naturals, FiniteSets

CONSTANTS People,
          MaxInputs,  \* bound on logins, logouts, reloads, and calls of views
          None

\* What the constants must be.
SessionConstants == MaxInputs \in Nat

VARIABLES token, refresh, user, flow, renewal, inputs, present, crossed, refused

vars == <<token, refresh, user, flow, renewal, inputs, present, crossed, refused>>

----------------------------------------------------------------------------
\* Types

Holder == People \union {None}

Flows == {"login", "hydrate", "data", "stream"}

\* call: the call in flight; renew: a hydration that asks for new tokens itself.
\* renewed, denied: the renewal has ended, and what follows it is to run.
Flow == [pc : {"idle", "sent", "resent", "waiting", "renewed", "denied"},
         call : {"none", "login", "me", "profile", "data", "stream", "renew"},
         as : Holder, who : Holder]

Renewal == [pc : {"idle", "sent", "stuck"}, of : Holder]

TypeOK ==
    /\ {token, refresh, user, present} \subseteq Holder
    /\ flow \in [Flows -> Flow]
    /\ renewal \in Renewal
    /\ inputs \in 0 .. MaxInputs
    /\ {crossed, refused} \subseteq BOOLEAN

IdleFlow == [pc |-> "idle", call |-> "none", as |-> None, who |-> None]

NoRenewal == [pc |-> "idle", of |-> None]

Init ==
    /\ token = None /\ refresh = None /\ user = None
    /\ flow = [f \in Flows |-> IdleFlow]
    /\ renewal = NoRenewal
    /\ inputs = 0
    /\ present = None
    /\ crossed = FALSE /\ refused = FALSE

----------------------------------------------------------------------------
\* Parts of the handlers

\* Nothing comes between the end of a renewal and what waits for it.
Quiet == \A f \in Flows : flow[f].pc \notin {"renewed", "denied"}

Sent(f, call) == [flow[f] EXCEPT !.pc = "sent", !.call = call, !.as = token]

End(f) == flow' = [flow EXCEPT ![f] = IdleFlow]

Input ==
    /\ Quiet /\ inputs < MaxInputs
    /\ inputs' = inputs + 1

Keep == UNCHANGED <<token, refresh, user, present, crossed>>

\* logout
Leave ==
    /\ token' = None /\ refresh' = None /\ user' = None /\ present' = None
    /\ crossed' = (crossed \/ renewal.pc # "idle")

\* refreshSession for a flow that holds a refresh token: it joins the renewal that
\* is under way, or begins one.
AwaitRenewal(f, call) ==
    /\ flow' = [flow EXCEPT ![f].pc = "waiting", ![f].call = call]
    /\ renewal' = IF renewal.pc = "idle" THEN [pc |-> "sent", of |-> refresh] ELSE renewal

\* The call of a flow fails for good.  A login keeps the name it was given; a
\* hydration asks for new tokens once, and then gives the session up.  gone: the
\* interceptor has just called logout.
Fail(f, gone) ==
    CASE flow[f].call = "me" /\ f = "login" ->
            /\ user' = flow[f].who
            /\ End(f)
            /\ IF gone THEN /\ token' = None /\ refresh' = None /\ present' = None
                            /\ crossed' = (crossed \/ renewal.pc # "idle")
                       ELSE UNCHANGED <<token, refresh, present, crossed>>
            /\ UNCHANGED renewal
      [] flow[f].call = "me" /\ f = "hydrate" /\ refresh # None /\ ~gone ->
            AwaitRenewal(f, "renew") /\ Keep
      [] f = "hydrate" /\ ~(flow[f].call = "me" /\ refresh # None /\ ~gone) ->
            End(f) /\ Leave /\ UNCHANGED renewal
      [] OTHER ->
            /\ End(f) /\ UNCHANGED renewal
            /\ IF gone THEN Leave ELSE Keep

----------------------------------------------------------------------------
\* The user

\* The login page is for those without a token.
Login ==
    /\ Input /\ token = None /\ flow["login"].pc = "idle"
    /\ \E p \in People :
          flow' = [flow EXCEPT !["login"] = [pc |-> "sent", call |-> "login", as |-> None,
                                             who |-> p]]
    /\ Keep /\ UNCHANGED <<renewal, refused>>

Logout ==
    /\ Input /\ token # None /\ flow["login"].pc = "idle"
    /\ Leave
    /\ UNCHANGED <<flow, renewal, refused>>

\* The tab becomes visible, gets the focus, or has been loaded.
Hydrate ==
    /\ Input /\ token # None /\ flow["hydrate"].pc = "idle"
    /\ flow' = [flow EXCEPT !["hydrate"] = Sent("hydrate", "me")]
    /\ Keep /\ UNCHANGED <<renewal, refused>>

\* A view asks for something, or a question is sent.
Ask(f) ==
    /\ Input /\ token # None /\ flow["login"].pc = "idle" /\ flow[f].pc = "idle"
    /\ flow' = [flow EXCEPT ![f] = Sent(f, f)]
    /\ Keep /\ UNCHANGED <<renewal, refused>>

\* A reload: the tokens and the profile are read back from localStorage, and what was
\* under way is gone.  The application is mounted with a hydration.
Reload ==
    /\ Input
    /\ flow' = [f \in Flows |-> IF f = "hydrate" /\ token # None
                                THEN [IdleFlow EXCEPT !.pc = "sent", !.call = "me", !.as = token]
                                ELSE IdleFlow]
    /\ renewal' = NoRenewal
    /\ Keep /\ UNCHANGED refused

----------------------------------------------------------------------------
\* Answers

InFlight(f) == flow[f].pc \in {"sent", "resent"}

Accept(f) ==
    /\ Quiet /\ InFlight(f)
    /\ flow[f].call = "login" \/ flow[f].as # None
    /\ CASE flow[f].call = "login" ->
                /\ token' = flow[f].who /\ refresh' = flow[f].who /\ present' = flow[f].who
                /\ flow' = [flow EXCEPT ![f] = [@ EXCEPT !.pc = "sent", !.call = "me",
                                                         !.as = flow[f].who]]
                /\ crossed' = (renewal.pc # "idle" \/ flow["hydrate"].pc # "idle")
                /\ UNCHANGED user
         [] flow[f].call \in {"me", "profile"} ->
                user' = flow[f].as /\ End(f) /\ UNCHANGED <<token, refresh, present, crossed>>
         [] OTHER -> End(f) /\ Keep
    /\ UNCHANGED <<renewal, inputs, refused>>

\* 401.  A stream ends the session at once; other calls ask for new tokens, the
\* first time and if there is a refresh token, and end the session otherwise.
Refuse(f) ==
    /\ Quiet /\ InFlight(f)
    /\ flow[f].call = "login" \/ flow[f].as # None
    /\ IF f # "stream" /\ flow[f].pc = "sent" /\ refresh # None
       THEN AwaitRenewal(f, flow[f].call) /\ Keep
       ELSE Fail(f, TRUE)
    /\ UNCHANGED <<inputs, refused>>

\* The connection is lost, the time-out of 30 s passes, or the answer is another error
\* (403 without a token).
Break(f) ==
    /\ Quiet /\ InFlight(f)
    /\ Fail(f, FALSE)
    /\ UNCHANGED <<inputs, refused>>

\* Mutant of Told: only a hydration learns how the renewal has ended.
ToldHydration(pc) ==
    IF flow["hydrate"].pc = "waiting" THEN [flow EXCEPT !["hydrate"].pc = pc] ELSE flow

\* Everybody who waits for the renewal learns how it has ended.
Told(pc) == [f \in Flows |-> IF flow[f].pc = "waiting" THEN [flow[f] EXCEPT !.pc = pc] ELSE flow[f]]

\* The new tokens are kept whoever has signed in or left meanwhile.
Renew ==
    /\ Quiet /\ renewal.pc = "sent"
    /\ token' = renewal.of /\ refresh' = renewal.of
    /\ renewal' = NoRenewal
    /\ flow' = Told("renewed")
    /\ UNCHANGED <<user, inputs, present, crossed, refused>>

RenewalBreaks ==
    /\ Quiet /\ renewal.pc = "sent"
    /\ renewal' = NoRenewal
    /\ flow' = Told("denied")
    /\ Keep /\ UNCHANGED <<inputs, refused>>

\* 401 for the refresh token.  The call of the renewal has gone through the same
\* interceptor, which asks for new tokens and so waits for the renewal that waits for
\* it; only when nobody is signed in any more does it end the session and the renewal.
RenewalRefused ==
    /\ Quiet /\ renewal.pc = "sent"
    /\ refused' = TRUE
    /\ IF refresh # None
       THEN renewal' = [renewal EXCEPT !.pc = "stuck"] /\ UNCHANGED flow /\ Keep
       ELSE renewal' = NoRenewal /\ flow' = Told("denied") /\ Leave
    /\ UNCHANGED inputs

\* What follows a renewal: a refused call is sent again, a hydration asks for the
\* profile, with the token of now.
Continue(f) ==
    /\ flow[f].pc = "renewed"
    /\ flow' = [flow EXCEPT ![f] =
                  IF @.call = "renew" THEN [@ EXCEPT !.pc = "sent", !.call = "profile", !.as = token]
                  ELSE [@ EXCEPT !.pc = "resent", !.as = token]]
    /\ Keep /\ UNCHANGED <<renewal, inputs, refused>>

\* A call that stays refused ends the session, and so does a hydration.
GiveUp(f) ==
    /\ flow[f].pc = "denied"
    /\ Fail(f, TRUE)
    /\ UNCHANGED <<inputs, refused>>

UserStep == Login \/ Logout \/ Hydrate \/ Ask("data") \/ Ask("stream") \/ Reload

AnswerStep == \E f \in Flows : Accept(f) \/ Refuse(f) \/ Break(f)

RenewalStep == Renew \/ RenewalBreaks \/ RenewalRefused

FollowUp == \E f \in Flows : Continue(f) \/ GiveUp(f)

Onward == AnswerStep \/ RenewalStep \/ FollowUp

Next == UserStep \/ Onward

\* Every call is answered or times out, and what waits for an answer goes on; what
\* the user does is up to the user.
Fairness == WF_vars(Onward)

Spec == Init /\ [][Next]_vars /\ Fairness

----------------------------------------------------------------------------
\* Properties

\* The tokens and the profile are those of who signed in last, and of nobody after
\* that person has left, in whatever order calls are answered, refused and sent
\* again.  A renewal that ends after somebody has left brings the session back, and
\* one of before a login gives the next person the tokens of the last.
SessionIsOnes ==
    ~crossed => /\ {token, refresh} \subseteq {None, present} /\ refresh = token
                /\ token # None /\ flow["login"].pc = "idle" /\ flow["hydrate"].pc = "idle"
                   => user = present

\* As long as no refresh token has been refused, whoever waits for a renewal waits
\* for one that will be answered.
WaitersAreServed ==
    ~refused => /\ renewal.pc # "stuck"
                /\ (\E f \in Flows : flow[f].pc = "waiting") => renewal.pc = "sent"

\* A hydration ends, and with it the time in which no other one can begin, unless a
\* refresh token has been refused (main.ts:66 stops waiting for one that hangs).
HydrationEnds == flow["hydrate"].pc # "idle" ~> (flow["hydrate"].pc = "idle" \/ refused)
=============================================================================
