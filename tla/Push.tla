-------------------------------- MODULE Push --------------------------------
(***************************************************************************)
(* The push devices of one user (services/push_notification_service.py,    *)
(* api/v1/notifications.py) and the notifications an execution of the      *)
(* ingestion task sends them.  A token may have several rows: the requests *)
(* look for one before they add one, and nothing makes them unique.        *)
(*                                                                         *)
(*   setting  the provider, how FCM is called, push_notification_fail_     *)
(*            closed and push_auto_deactivate_invalid_tokens               *)
(*   rows     push_devices, as committed                                   *)
(*   request  register, unregister or heartbeat, from what it has read to  *)
(*            its commit, which writes only what it has changed            *)
(*   sender   a notification: `left` has to be sent, `drops` has to be     *)
(*            deactivated, `failed` counts what failed so far              *)
(*   event    the last entry of push:events:{tenant}:{user}                *)
(***************************************************************************)
EXTENDS Naturals, FiniteSets, FiniteSetsExt

CONSTANTS Tokens,
          FcmTokens,      \* those of the platforms in FCM_PLATFORMS
          PushRequests,
          MaxRows,        \* bound: the rows of push_devices
          None

\* What the constants must be.
PushConstants ==
    /\ FcmTokens \subseteq Tokens
    /\ MaxRows \in Nat \ {0}
    /\ None \notin Tokens

VARIABLES setting, rows, request, sender, event,
          gone    \* history: unregistered by a request that met no other, and
                  \* no registration or heartbeat begun since

vars == <<setting, rows, request, sender, event, gone>>

----------------------------------------------------------------------------
\* Types

Ids == 1 .. MaxRows

Settings == [provider : {"log", "webhook", "fcm", "multi"}, fcm : {"none", "legacy", "v1"},
             failClosed : BOOLEAN, deactivates : BOOLEAN]

Row == [token : Tokens \union {None}, active : BOOLEAN]

NoRow == [token |-> None, active |-> FALSE]

\* row: what was found, 0 for nothing; active: as it was read.
Request == [op : {"idle", "register", "unregister", "heartbeat"}, token : Tokens \union {None},
            row : Ids \union {0}, active : BOOLEAN, alone : BOOLEAN]

NoRequest == [op |-> "idle", token |-> None, row |-> 0, active |-> FALSE, alone |-> TRUE]

\* The last three are history.  sent: the tokens it was sent to; refused: those
\* whose device it did not reach; silent: those gone when it read the devices.
Sender == [pc : {"idle", "send", "drop"}, left : SUBSET Ids, drops : SUBSET Tokens,
           failed : 0 .. MaxRows,
           sent : SUBSET Tokens, refused : SUBSET Tokens, silent : SUBSET Tokens]

NoSender == [pc |-> "idle", left |-> {}, drops |-> {}, failed |-> 0,
             sent |-> {}, refused |-> {}, silent |-> {}]

\* complete: every device was reached.
Event == [status : {"ok", "partial_failed"}, complete : BOOLEAN]

TypeOK ==
    /\ setting \in Settings
    /\ rows \in [Ids -> Row]
    /\ request \in [PushRequests -> Request]
    /\ sender \in Sender
    /\ event \in Event
    /\ gone \subseteq Tokens

Init ==
    /\ setting \in Settings
    /\ setting.provider \in {"log", "webhook"} => setting.fcm = "none" /\ ~setting.deactivates
    /\ rows = [i \in Ids |-> NoRow]
    /\ request = [r \in PushRequests |-> NoRequest]
    /\ sender = NoSender
    /\ event = [status |-> "ok", complete |-> TRUE]
    /\ gone = {}

----------------------------------------------------------------------------
\* Requests

RowsOf(t) == {i \in Ids : rows[i].token = t}

\* Mutant of Find: the first row is taken for the device.
FindFirst(t) == IF RowsOf(t) = {} THEN {0} ELSE {Min(RowsOf(t))}

\* scalar_one_or_none, which raises when there are several.
Find(t) == IF RowsOf(t) = {} THEN {0}
           ELSE IF Cardinality(RowsOf(t)) = 1 THEN RowsOf(t) ELSE {}

Meets(t, r) == request[r].op # "idle" /\ request[r].token = t

\* What any of them reads.  Unregister and heartbeat answer 404 to nothing found.
\* A heartbeat makes a device active as a registration does, so either may bring
\* one back that is gone.
Begin(r, op, t) ==
    /\ request[r].op = "idle"
    /\ \E i \in Find(t) :
          /\ i = 0 => op = "register"
          /\ request' = [q \in PushRequests |->
                IF q = r
                THEN [op |-> op, token |-> t, row |-> i,
                      active |-> i # 0 /\ rows[i].active,
                      alone |-> \A p \in PushRequests : ~Meets(t, p)]
                ELSE [request[q] EXCEPT !.alone = @ /\ ~Meets(t, q)]]
    /\ gone' = IF op = "unregister" THEN gone ELSE gone \ {t}
    /\ UNCHANGED <<setting, rows, sender, event>>

End(r) == request' = [request EXCEPT ![r] = NoRequest]

\* is_active is written if it is not what was read.
Assign(r, active) ==
    LET q == request[r]
    IN  rows' = [rows EXCEPT ![q.row].active = IF q.active = active THEN @ ELSE active]

\* register_device and heartbeat_device, of a device that was found.
Refresh(r) ==
    /\ request[r].op \in {"register", "heartbeat"}
    /\ request[r].row # 0
    /\ Assign(r, TRUE)
    /\ End(r)
    /\ UNCHANGED <<setting, sender, event, gone>>

\* register_device, of a device that was not.
Insert(r) ==
    /\ request[r].op = "register"
    /\ request[r].row = 0
    /\ \E i \in RowsOf(None) :
          /\ \A j \in RowsOf(None) : i <= j
          /\ rows' = [rows EXCEPT ![i] = [token |-> request[r].token, active |-> TRUE]]
    /\ End(r)
    /\ UNCHANGED <<setting, sender, event, gone>>

\* unregister_device.
Unregister(r) ==
    /\ request[r].op = "unregister"
    /\ Assign(r, FALSE)
    /\ gone' = IF request[r].alone THEN gone \union {request[r].token} ELSE gone
    /\ End(r)
    /\ UNCHANGED <<setting, sender, event>>

\* The request fails before its commit.
Abandon(r) ==
    /\ request[r].op # "idle"
    /\ End(r)
    /\ UNCHANGED <<setting, rows, sender, event, gone>>

----------------------------------------------------------------------------
\* Notifications

TokensOf(ids) == {rows[i].token : i \in ids}

ByFcm(ids) ==
    IF setting.provider = "multi" THEN {i \in ids : rows[i].token \in FcmTokens}
    ELSE IF setting.provider = "fcm" THEN ids ELSE {}

SenderBecomes(s) == sender' = s

\* _load_active_devices_sync.  What does not go through FCM goes to the log, or
\* in one call to the webhook; a provider that is not configured is replaced by
\* the log unless that is to fail.
BeginSend ==
    /\ sender.pc = "idle"
    /\ LET devices == {i \in Ids : rows[i].active}
           fcm == IF setting.fcm = "none" THEN {} ELSE ByFcm(devices)
           unconfigured == ByFcm(devices) \ fcm
           others == devices \ fcm
           fallback == others \ unconfigured
           lost == IF setting.failClosed THEN unconfigured ELSE {}
           into == [NoSender EXCEPT !.pc = "send", !.left = fcm, !.silent = gone,
                                    !.sent = TokensOf(others \ lost)]
       IN  \/ SenderBecomes([into EXCEPT !.failed = Cardinality(lost),
                                         !.refused = TokensOf(lost)])
           \/ /\ setting.provider = "webhook"
              /\ fallback # {}
              /\ SenderBecomes([into EXCEPT !.failed = Cardinality(fallback),
                                            !.refused = TokensOf(fallback)])
    /\ UNCHANGED <<setting, rows, request, event, gone>>

\* The answers of FCM: an error may name the token invalid, or not.
Answer == {"accepted", "invalid", "error"}

Dropped(tokens) == IF setting.deactivates THEN tokens ELSE {}

\* What is to be deactivated is, before the next device is sent to.
Continue(s) == SenderBecomes(IF s.drops = {} THEN s ELSE [s EXCEPT !.pc = "drop"])

Unsent(i) == sender.left \ {i}

\* _send_fcm_sync in v1: one call for each device.
SendV1 ==
    /\ sender.pc = "send"
    /\ setting.fcm = "v1"
    /\ \E i \in sender.left, a \in Answer :
          LET t == rows[i].token
              s == [sender EXCEPT !.left = Unsent(i), !.sent = @ \union {t}]
          IN  IF a = "accepted"
              THEN Continue(s)
              ELSE Continue([s EXCEPT !.failed = @ + 1, !.refused = @ \union {t},
                                      !.drops = IF a = "invalid" THEN Dropped({t}) ELSE {}])
    /\ UNCHANGED <<setting, rows, request, event, gone>>

\* _collapse_results: under fail_closed the failures of an answer become one that
\* names no device, and none is counted.
Collapsed(n) == IF setting.failClosed THEN 0 ELSE n

AllSent == [sender EXCEPT !.left = {}, !.sent = @ \union TokensOf(sender.left)]

InvalidDevices(answer) == {t \in DOMAIN answer : answer[t] = "invalid"}

\* _handle_fcm_legacy_response_sync.
SendLegacy ==
    /\ sender.pc = "send"
    /\ setting.fcm = "legacy"
    /\ sender.left # {}
    /\ \E answer \in [TokensOf(sender.left) -> Answer] :
          LET failed == {i \in sender.left : answer[rows[i].token] # "accepted"}
          IN  Continue([AllSent EXCEPT
                 !.failed = @ + Collapsed(Cardinality(failed)),
                 !.refused = @ \union TokensOf(failed),
                 !.drops = Dropped(InvalidDevices(answer))])
    /\ UNCHANGED <<setting, rows, request, event, gone>>

\* The call itself fails, or its answer cannot be read: every device counts as not
\* reached, and an error that names a token invalid is taken for all of them.
FailLegacy ==
    /\ sender.pc = "send"
    /\ setting.fcm = "legacy"
    /\ sender.left # {}
    /\ \E a \in Answer \ {"accepted"} :
          Continue([AllSent EXCEPT
             !.failed = @ + Cardinality(sender.left),
             !.refused = @ \union TokensOf(sender.left),
             !.drops = IF a = "invalid" THEN Dropped(TokensOf(sender.left)) ELSE {}])
    /\ UNCHANGED <<setting, rows, request, event, gone>>

\* _deactivate_devices_sync: every row of the tokens, in a transaction of its own.
Deactivate ==
    /\ sender.pc = "drop"
    /\ rows' = [i \in Ids |-> IF rows[i].token \in sender.drops
                              THEN [rows[i] EXCEPT !.active = FALSE] ELSE rows[i]]
    /\ SenderBecomes([sender EXCEPT !.pc = "send", !.drops = {}])
    /\ UNCHANGED <<setting, request, event, gone>>

\* The failures the results add up to: those of the calls in v1 are collapsed.
FailuresCounted == IF setting.fcm = "v1" THEN Collapsed(sender.failed) ELSE sender.failed

\* _summarize_delivery and _record_notification_sync.
Record ==
    /\ sender.pc = "send"
    /\ sender.left = {}
    /\ event' = [status |-> IF FailuresCounted = 0 THEN "ok" ELSE "partial_failed",
                 complete |-> sender.refused = {}]
    /\ SenderBecomes(NoSender)
    /\ UNCHANGED <<setting, rows, request, gone>>

\* The execution is lost, or what nobody catches is raised: the access token
\* cannot be had, or a deactivation or the record fails.
LoseSender ==
    /\ sender.pc # "idle"
    /\ SenderBecomes(NoSender)
    /\ UNCHANGED <<setting, rows, request, event, gone>>

----------------------------------------------------------------------------
Serve(r) ==
    \/ \E op \in {"register", "unregister", "heartbeat"}, t \in Tokens : Begin(r, op, t)
    \/ Refresh(r) \/ Insert(r) \/ Unregister(r) \/ Abandon(r)

Notify ==
    \/ BeginSend \/ SendV1 \/ SendLegacy \/ FailLegacy \/ Deactivate \/ Record \/ LoseSender

Next == (\E r \in PushRequests : Serve(r)) \/ Notify

Spec == Init /\ [][Next]_vars

----------------------------------------------------------------------------
\* Properties

\* A device that was unregistered gets no notification that begins afterwards,
\* whatever rows requests before it have left for its token, until a registration
\* or a heartbeat of it arrives.  A notification that has read the devices when it
\* is unregistered still reaches it, and requests for one token that overlap may
\* leave it either way.
UnregisteredStaysSilent == sender.sent \intersect sender.silent = {}

\* The record of a notification says partial_failed only if some device was not
\* reached, and ok only if all were, but for failures of FCM that are collapsed
\* because they are to be fatal.
ResultsAddUp ==
    /\ event.status = "partial_failed" => ~event.complete
    /\ event.status = "ok" /\ ~event.complete => setting.failClosed /\ setting.fcm # "none"
=============================================================================
