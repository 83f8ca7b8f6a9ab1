----------------------------- MODULE IndexSync -----------------------------
(***************************************************************************)
(* The reindexing of a tenant (index_sync_service.py) beside the requests  *)
(* and the workers of Ingestion: one SELECT, then every entry of the       *)
(* tenant is removed from the indexes and what was read is put back.  Each *)
(* access to an index may fail, and the failure is swallowed.              *)
(*                                                                         *)
(*   reindex    the request: its step; the chunks it has read; the         *)
(*              documents its limit has kept; the indexes it has emptied;  *)
(*              those that have taken the chunks; what it reports of       *)
(*              Milvus                                                     *)
(*   touched    history: the documents some other step has changed since   *)
(*              it read them                                               *)
(*                                                                         *)
(* The graph in Neo4j is left out, as in Ingestion.  A limit counts rows   *)
(* of chunks: the document it cuts through counts as not kept.             *)
(***************************************************************************)
EXTENDS Ingestion

VARIABLES reindex, touched

Indexes == {"es", "milvus"}

Reindex == [pc : {"idle", "clear_es", "clear_milvus", "bulk", "upsert", "done"},
            read : [Docs -> SUBSET Nat],
            kept : SUBSET Docs,
            emptied : SUBSET Indexes,
            filled : SUBSET Indexes,
            reported : BOOLEAN]

Nothing == [d \in Docs |-> {}]

NotBegun == [pc |-> "idle", read |-> Nothing, kept |-> {}, emptied |-> {},
             filled |-> {}, reported |-> FALSE]

SyncTypeOK ==
    /\ reindex \in Reindex
    /\ touched \subseteq Docs

SyncInit == Init /\ reindex = NotBegun /\ touched = {}

----------------------------------------------------------------------------
\* reindex_tenant

Stay == UNCHANGED <<row, chunks, stored, progress, rtask, queue, request, worker, lastGen,
                    faults, overlapped, touched>>

\* Mutant of Readable: the query does not look at the status.
ReadableAny(d) == TRUE

Readable(d) == row[d] = "ready"

\* The join of the documents and their chunks.  Its limit cuts the rows, and of the one
\* document that it cuts in two the code puts back a part: here it is not kept.
ReadChunks ==
    /\ reindex.pc = "idle"
    /\ \E kept \in SUBSET {d \in Docs : Readable(d)} :
          reindex' = [NotBegun EXCEPT
                        !.pc = "clear_es", !.kept = kept,
                        !.read = [d \in Docs |-> IF d \in kept THEN chunks[d] ELSE {}]]
    /\ UNCHANGED indexes
    /\ Stay

Put(index) == [d \in Docs |-> index[d] \union reindex.read[d]]

\* The next step, once the index x was emptied or filled unless that was a failure.
\* At the end what was read is forgotten.
After(pc, field, x, worked) ==
    reindex' = [reindex EXCEPT !.pc = pc, ![field] = IF worked THEN @ \union {x} ELSE @,
                               !.read = IF pc = "done" THEN Nothing ELSE @]

\* delete_by_tenant of Elasticsearch
ClearEs ==
    /\ reindex.pc = "clear_es"
    /\ \E worked \in BOOLEAN :
          /\ es' = IF worked THEN Nothing ELSE es
          /\ After("clear_milvus", "emptied", "es", worked)
    /\ UNCHANGED milvus
    /\ Stay

\* delete_by_tenant of Milvus, and the test whether there is a chunk to put back.
ClearMilvus ==
    /\ reindex.pc = "clear_milvus"
    /\ \E worked \in BOOLEAN :
          /\ milvus' = IF worked THEN Nothing ELSE milvus
          /\ After(IF reindex.read = Nothing THEN "done" ELSE "bulk", "emptied", "milvus",
                   worked)
    /\ UNCHANGED es
    /\ Stay

\* bulk_index, whose number does not tell the items that were refused.
BulkIndex ==
    /\ reindex.pc = "bulk"
    /\ \E worked \in BOOLEAN :
          /\ es' = IF worked THEN Put(es) ELSE es
          /\ After("upsert", "filled", "es", worked)
    /\ UNCHANGED milvus
    /\ Stay

\* upsert_chunks says that it has inserted nothing after any failure.
UpsertChunks ==
    /\ reindex.pc = "upsert"
    /\ \E inserted, reported \in BOOLEAN :
          /\ reported => inserted
          /\ milvus' = IF inserted THEN Put(milvus) ELSE milvus
          /\ reindex' = [reindex EXCEPT !.pc = "done", !.reported = reported,
                           !.filled = IF inserted THEN @ \union {"milvus"} ELSE @,
                           !.read = Nothing]
    /\ UNCHANGED es
    /\ Stay

ReindexStep == ReadChunks \/ ClearEs \/ ClearMilvus \/ BulkIndex \/ UpsertChunks

----------------------------------------------------------------------------
\* Beside the ingestion

Of(d) == <<row[d], chunks[d], es[d], milvus[d]>>

Touch ==
    touched' = IF reindex.pc = "idle" THEN {}
               ELSE touched \union {d \in Docs : Of(d)' # Of(d)}

IngestionStep == Next /\ Touch /\ UNCHANGED reindex

SyncNext == ReindexStep \/ IngestionStep

SyncSpec == SyncInit /\ [][SyncNext]_<<vars, reindex, touched>>

----------------------------------------------------------------------------
\* Properties

\* audit_tenant_consistency asks the indexes for the ready documents that have
\* chunks; an entry of an earlier attempt is as good an answer as any.
Missing(index) == {d \in Docs : row[d] = "ready" /\ chunks[d] # {} /\ index[d] = {}}

\* A reindexing mends what retries, failed clean-ups and failed attempts have left
\* behind.  Of a document nobody has touched meanwhile each index it has emptied and
\* filled holds the chunks of PostgreSQL if the document is ready, and nothing
\* otherwise; and where it reports that Milvus has taken the chunks, no kept
\* document is missing there, whatever else has failed.
ReindexRestores ==
    reindex.pc = "done" =>
        \A d \in Docs \ touched :
            LET wanted == IF row[d] = "ready" /\ d \in reindex.kept THEN chunks[d] ELSE {}
                Exact(x, index) == x \in reindex.emptied /\ (x \in reindex.filled \/ wanted = {})
                                   => index[d] = wanted
            IN  /\ Exact("es", es) /\ Exact("milvus", milvus)
                /\ reindex.reported /\ d \in reindex.kept => d \notin Missing(milvus)
=============================================================================
