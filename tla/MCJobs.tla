------------------------------- MODULE MCJobs -------------------------------
(***************************************************************************)
(* Small instances of what must come to an end and shares no state: a      *)
(* behaviour is one of Ingestion, TrainingJob, UploadSession or            *)
(* ClientSession, as `part` says.                                          *)
(*                                                                         *)
(* Two requests for one document with one retry and one kill, one training *)
(* job with one delivery of its task, two completions of one session for   *)
(* one permit beside the loss of an API process, and a tab of the web      *)
(* client that two people use.                                             *)
(***************************************************************************)
EXTENDS MCIngestion

CONSTANTS Deliveries,
          s1, u1, c1, c2, Sessions, Uploads, Completions, TotalParts, SemaphoreSize,
          People, MaxInputs, MaxApiCrashes

VARIABLES part,
          automatic, jobRow, record, jobRequest, message, execution, active, result,
          reader, disturbed,
          session, registered, directory, file, merged, permits, object, document,
          upload, completion, apiCrashes, rewritten, overlaps,
          token, refresh, user, flow, renewal, inputs, present, crossed, refused

jobVars == <<automatic, jobRow, record, jobRequest, message, execution, active, result,
             reader, disturbed>>
uploadVars == <<session, registered, directory, file, merged, permits, object, document,
                upload, completion, apiCrashes, rewritten, overlaps>>
sessionVars == <<token, refresh, user, flow, renewal, inputs, present, crossed, refused>>

OneSession == {s1}
OneUpload == {u1}
TwoCompletions == {c1, c2}

Job == INSTANCE TrainingJob
         WITH row <- jobRow, request <- jobRequest, worker <- execution
Up == INSTANCE UploadSession
        WITH row <- document, crashes <- apiCrashes, overlapped <- overlaps,
             MaxCrashes <- MaxApiCrashes
Tab == INSTANCE ClientSession

PartsInit ==
    /\ part \in {"ingestion", "job", "upload", "session"}
    /\ Init
    /\ Job!Init
    /\ Up!Init
    /\ Tab!Init
    /\ part = "job" \/ automatic

OfIngestion(Step) == part = "ingestion" /\ Step /\ UNCHANGED <<part, jobVars, uploadVars, sessionVars>>
OfJob(Step) == part = "job" /\ Step /\ UNCHANGED <<part, vars, uploadVars, sessionVars>>
OfUpload(Step) == part = "upload" /\ Step /\ UNCHANGED <<part, vars, jobVars, sessionVars>>
OfSession(Step) == part = "session" /\ Step /\ UNCHANGED <<part, vars, jobVars, uploadVars>>

IngestionNext == OfIngestion(Next)
JobNext == OfJob(Job!Next)
UploadNext == OfUpload(Up!Next)
SessionNext == OfSession(Tab!Next)

all == <<part, vars, jobVars, uploadVars, sessionVars>>

\* The fairness of Ingestion, TrainingJob, UploadSession and ClientSession.  A behaviour
\* is one of a single part, so a condition on the steps of several parts is one on
\* those of its own, and few conditions serve all of them.
PartsFairness ==
    /\ WF_all(\/ OfIngestion(\E w \in Workers : Take(w))
              \/ OfJob(Job!AgeRow)
              \/ OfUpload(Up!Complete(c1))
              \/ OfSession(Tab!Onward))
    /\ WF_all(\/ OfIngestion(\E w \in Workers : Process(w))
              \/ OfJob(Job!Reconcile)
              \/ OfUpload(Up!Complete(c2)))
    /\ WF_all(\/ OfIngestion(Handle(q1))
              \/ OfJob(\E e \in Job!Executions : Job!Progress(e)))
    /\ WF_all(OfIngestion(Handle(q2)))
    /\ SF_all(OfJob(\E e \in Job!Executions : Job!Finish(e)))

PartsSpec ==
    /\ PartsInit
    /\ [][IngestionNext \/ JobNext \/ UploadNext \/ SessionNext]_all
    /\ PartsFairness

ASSUME Cardinality(Workers) = 1 /\ Requests = {q1, q2} /\ Completions = {c1, c2}
       /\ Deliveries = 1

Begun ==
    \/ part = "job" /\ jobRow.status \in {"pending", "running"}
    \/ part = "upload" /\ Up!CompletionRuns(c1)
    \/ part = "session" /\ flow["hydrate"].pc # "idle"

Ended ==
    \/ part = "job" /\ jobRow.status \in Job!Terminal
    \/ part = "upload" /\ ~Up!CompletionRuns(c1)
    \/ part = "session" /\ (flow["hydrate"].pc = "idle" \/ refused)

\* A training job, a completion of an upload and a hydration of the client all end:
\* JobEnds, CompletionsEnd (c1 stands for all) and HydrationEnds, in one formula
\* because no behaviour is one of two parts.
WorkEnds == Begun ~> Ended
=============================================================================
