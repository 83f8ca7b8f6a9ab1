----------------------------- MODULE MCServices -----------------------------
(***************************************************************************)
(* Small instances of components that share no state: a behaviour is one   *)
(* of TrainingJob, Push or ClientSession, as `part` says.                  *)
(*                                                                         *)
(* TrainingJob    one job whose task is delivered twice and which asks no  *)
(*                human; MCJobs has the others                             *)
(* Push           two devices, one of FCM, two requests beside one sender  *)
(* ClientSession  a tab of the web client that two people use              *)
(***************************************************************************)
EXTENDS Naturals, TLC

CONSTANTS Deliveries,
          Tokens, FcmTokens, PushRequests, MaxRows, None,
          People, MaxInputs

VARIABLES part,
          automatic, jobRow, record, jobRequest, message, worker, active, result,
          reader, disturbed,
          setting, rows, request, sender, event, gone,
          token, refresh, user, flow, renewal, inputs, present, crossed, refused

jobVars == <<automatic, jobRow, record, jobRequest, message, worker, active, result,
             reader, disturbed>>
pushVars == <<setting, rows, request, sender, event, gone>>
sessionVars == <<token, refresh, user, flow, renewal, inputs, present, crossed, refused>>

Job == INSTANCE TrainingJob WITH row <- jobRow, request <- jobRequest
Phone == INSTANCE Push
Tab == INSTANCE ClientSession

ASSUME ServicesAssumption == Phone!PushConstants /\ Tab!SessionConstants

\* Push chooses among its requests by no name.
Symmetry == Permutations(PushRequests)

PartsInit ==
    /\ part \in {"job", "push", "session"}
    /\ Job!Init /\ automatic
    /\ Phone!Init /\ (part = "push" \/ (setting.provider = "log" /\ ~setting.failClosed))
    /\ Tab!Init

JobNext == part = "job" /\ Job!Next /\ UNCHANGED <<part, pushVars, sessionVars>>

PushNext == part = "push" /\ Phone!Next /\ UNCHANGED <<part, jobVars, sessionVars>>

SessionNext == part = "session" /\ Tab!Next /\ UNCHANGED <<part, jobVars, pushVars>>

all == <<part, jobVars, pushVars, sessionVars>>

PartsSpec ==
    PartsInit /\ [][JobNext \/ PushNext \/ SessionNext]_all

\* The properties of the parts, under their names: an instance at rest holds them.
ServicesTypeOK ==
    /\ part = "job" => Job!TypeOK /\ Job!OneActive
    /\ part = "push" => Phone!TypeOK
    /\ part = "session" => Tab!TypeOK

FailureIsReal == part = "job" => Job!FailureIsReal

\* Who has unregistered a device gets nothing on it, and what is recorded of a
\* notification is what became of it.
DevicesAreHeeded == part = "push" => Phone!UnregisteredStaysSilent /\ Phone!ResultsAddUp

\* The safety of the client's session: nobody gets what is another's, and nobody
\* waits for a renewal that is not under way.
SessionHolds == part = "session" => Tab!SessionIsOnes /\ Tab!WaitersAreServed
=============================================================================
