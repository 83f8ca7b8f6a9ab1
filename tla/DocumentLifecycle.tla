------------------------- MODULE DocumentLifecycle -------------------------
(***************************************************************************)
(* What the ingestion side of DocMind promises to a client that polls      *)
(* GET /documents/{id}/status: the published status of a document is       *)
(* written back stage by stage (docs/ARCHITECTURE.md:59).  An attempt      *)
(* starts at "queued" and moves through the stages one at a time, so that  *)
(* "ready" and "partial_failed" are published by an attempt that published *)
(* "indexing" before.  An attempt may fail at any point.                   *)
(*                                                                         *)
(* "unmanaged" is a document for which the promise is off: it is being     *)
(* deleted, or two executions of the pipeline worked on it at once.        *)
(***************************************************************************)
CONSTANT Docs

VARIABLE published

Stage == {"queued", "parsing", "chunking", "indexing"}

Outcome == {"ready", "partial_failed"}

Setback == {"retrying", "failed"}

Published == {"absent", "unmanaged"} \union Stage \union Outcome \union Setback

\* The stage order of one attempt.
Follows == { <<"queued", "parsing">>, <<"parsing", "chunking">>,
             <<"chunking", "indexing">>, <<"indexing", "ready">>,
             <<"indexing", "partial_failed">> }

Init == published = [d \in Docs |-> "absent"]

Managed(d) == published[d] # "unmanaged"

Publish(d, s) == published' = [published EXCEPT ![d] = s]

\* A new attempt starts, or the announcement of an upload arrives late.
Enqueue(d) == Managed(d) /\ Publish(d, "queued")

Advance(d) == \E step \in Follows : published[d] = step[1] /\ Publish(d, step[2])

\* The attempt under way overwrites a late announcement "queued".
CatchUp(d) == /\ published[d] = "queued"
              /\ \E s \in (Stage \ {"queued"}) \union Outcome : Publish(d, s)

Fail(d) == Managed(d) /\ \E s \in Setback : Publish(d, s)

Release(d) == Managed(d) /\ Publish(d, "unmanaged")

Next == \E d \in Docs : Enqueue(d) \/ Advance(d) \/ CatchUp(d) \/ Fail(d) \/ Release(d)

Spec == Init /\ [][Next]_published
=============================================================================
