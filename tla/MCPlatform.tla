----------------------------- MODULE MCPlatform -----------------------------
(***************************************************************************)
(* Small instances of components that share no state: a behaviour is one   *)
(* of IndexSync, Search, ChatClient, MaintenanceJob or Accounts, as `part` *)
(* says.                                                                   *)
(*                                                                         *)
(* IndexSync       one document, an upload and another request             *)
(* Search          two searches for one permit of each kind                *)
(* ChatClient      a tab with one old session and two questions            *)
(* MaintenanceJob  one job whose task is delivered twice                   *)
(* Accounts        two administrators and another person, two invitations, *)
(*                 one secret and two requests                             *)
(***************************************************************************)
EXTENDS MCIngestion, IndexSync

CONSTANTS Deliveries,
          VectorPermits, RemotePermits, VectorEnabled,
          Threads, Old, MaxCalls, MaxInputs, Questions,
          People, FirstAdmins, Secrets, MaxRequests

VARIABLES part,
          redis, search, permits, client, circuit,
          db, listed, starting, active, loaded, messages, streaming, calls, question,
          inputs, calm, returned,
          kind, jobRequest, message, execution, record, result, poll, sweep, settled,
          disturbed,
          setting, user, token, invite, secret, accountRequest, made, uses, outlived,
          crossed

syncVars == <<vars, reindex, touched>>
searchVars == <<redis, search, permits, client, circuit>>
chatVars == <<db, listed, starting, active, loaded, messages, streaming, calls, question,
              inputs, calm, returned>>
jobVars == <<kind, jobRequest, message, execution, record, result, poll, sweep, settled,
             disturbed>>
accountVars == <<setting, user, token, invite, secret, accountRequest, made, uses, outlived,
                 crossed>>
Tab == INSTANCE ChatClient
Job == INSTANCE MaintenanceJob WITH request <- jobRequest, worker <- execution

\* The names of requests and of tasks serve as those of searches, account requests
\* and invitations: renaming them in all components at once changes nothing.
Hybrid == INSTANCE Search WITH milvus <- client, Searches <- Requests
Door == INSTANCE Accounts
             WITH request <- accountRequest, AccountRequests <- Requests,
                  Invitations <- Tasks

ASSUME PlatformAssumption ==
    Hybrid!SearchConstants /\ Tab!ClientConstants /\ Door!AccountConstants

PartsInit ==
    /\ part \in {"sync", "search", "chat", "job", "account"}
    /\ SyncInit
    /\ Hybrid!Init /\ (part = "search" \/ redis)
    /\ Tab!Init
    /\ Job!Init /\ (part = "job" \/ kind = "export")
    /\ Door!Init /\ (part = "account" \/ (setting.stateless /\ setting.public))

SyncStep ==
    /\ part = "sync" /\ SyncNext
    /\ UNCHANGED <<part, searchVars, chatVars, jobVars, accountVars>>

SearchStep ==
    /\ part = "search" /\ Hybrid!Next
    /\ UNCHANGED <<part, syncVars, chatVars, jobVars, accountVars>>

ChatStep ==
    /\ part = "chat" /\ Tab!Next
    /\ UNCHANGED <<part, syncVars, searchVars, jobVars, accountVars>>

JobStep ==
    /\ part = "job" /\ Job!Next
    /\ UNCHANGED <<part, syncVars, searchVars, chatVars, accountVars>>

AccountStep ==
    /\ part = "account" /\ Door!Next
    /\ UNCHANGED <<part, syncVars, searchVars, chatVars, jobVars>>

Step == SyncStep \/ SearchStep \/ ChatStep \/ JobStep \/ AccountStep

PartsSpec ==
    /\ PartsInit
    /\ [][Step]_<<part, syncVars, searchVars, chatVars, jobVars, accountVars>>

\* The properties of the parts, under their names: an instance at rest holds them.
PlatformTypeOK ==
    /\ part = "sync" => SyncTypeOK
    /\ part = "search" => Hybrid!TypeOK
    /\ part = "chat" => Tab!TypeOK
    /\ part = "job" => Job!TypeOK
    /\ part = "account" => Door!TypeOK

\* What a search holds returns, and what is lost costs no more than the code lets it.
SearchRecovers == part = "search" => Hybrid!PermitsReturn /\ Hybrid!LossesAreContained

\* Each session shows its own messages, and each answer follows its question.
ChatShowsItsOwn == part = "chat" => Tab!ShownIsOfActive /\ Tab!AnswersStayPut

OutcomeIsShown == part = "job" => Job!OutcomeIsShown

AdminRemains == part = "account" => Door!AdminRemains
SecretsWorkOnce == part = "account" => Door!SecretsWorkOnce
=============================================================================
