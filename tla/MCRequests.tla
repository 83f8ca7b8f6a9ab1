----------------------------- MODULE MCRequests -----------------------------
(***************************************************************************)
(* Small instances of two kinds of requests to the API that share no       *)
(* state: a behaviour is one of UploadSession or one of ChatTurn, as       *)
(* `part` says.                                                            *)
(*                                                                         *)
(* Upload sessions share nothing but the semaphore, so one session shows   *)
(* the races of its requests: a part more than the file has, to write one  *)
(* again, and two completions for one permit.  One question shows the      *)
(* races of its handler, the client that leaves, and the replay it asks    *)
(* for: two events of the runtime are needed to tell a number that is      *)
(* skipped from one that is repeated.                                      *)
(***************************************************************************)
EXTENDS UploadSession

CONSTANTS s1, u1, u2, u3, c1, c2, MaxEvents, MaxTokens, MaxReconnects

VARIABLES part, channel, answer, turn, log, client, reader, cache

OneSession == {s1}
ThreeUploads == {u1, u2, u3}
TwoCompletions == {c1, c2}

chatVars == <<channel, answer, turn, log, client, reader, cache>>

Chat == INSTANCE ChatTurn WITH row <- answer

ASSUME ChatAssumption == Chat!ChatConstants

PartsInit ==
    /\ part \in {"upload", "chat"}
    /\ Init
    /\ Chat!Init
    /\ part = "chat" \/ (channel = "ws" /\ cache.text = "")

UploadNext == part = "upload" /\ Next /\ UNCHANGED <<part, chatVars>>

ChatNext == part = "chat" /\ Chat!Next /\ UNCHANGED <<part, vars>>

PartsSpec == PartsInit /\ [][UploadNext \/ ChatNext]_<<part, vars, chatVars>>

\* The properties of ChatTurn, under their names; those of the part at rest hold.
RequestsTypeOK == TypeOK /\ (part = "chat" => Chat!TypeOK)
ShownIsStored == part = "chat" => Chat!ShownIsStored
CacheIsSafe == part = "chat" => Chat!CacheIsSafe
NothingIsSkipped == Chat!NothingIsSkipped
FinalStaysSaved == Chat!FinalStaysSaved
=============================================================================
