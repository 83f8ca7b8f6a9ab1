---------------------------- MODULE MCIngestion ----------------------------
(***************************************************************************)
(* Small instances of Ingestion.  Documents share no store entry, so one   *)
(* document shows every interleaving; the interesting cases need two tasks *)
(* (an upload and a retry, or two retries) and two worker processes.       *)
(***************************************************************************)
EXTENDS Ingestion, TLC

CONSTANTS d1, t1, t2, q1, q2, q3, w1, w2

OneDoc == {d1}
OneTask == {t1}
TwoTasks == {t1, t2}
OneRequest == {q1}
TwoRequests == {q1, q2}
ThreeRequests == {q1, q2, q3}
OneWorker == {w1}
TwoWorkers == {w1, w2}

\* Tasks, requests and workers are interchangeable: no operator of Ingestion
\* chooses among them by name.  Used for safety runs only.
Symmetry == Permutations(Tasks) \union Permutations(Requests)
              \union Permutations(Workers)
=============================================================================
