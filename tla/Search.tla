------------------------------- MODULE Search -------------------------------
(***************************************************************************)
(* HybridSearcher.search (retrieval/hybrid_searcher.py) with the clients   *)
(* it calls and the reranker (retrieval/reranker.py): concurrent searches, *)
(* each of which runs its keyword and its vector path as two tasks.        *)
(*                                                                         *)
(*   redis    whether Redis, where every path records itself, answers      *)
(*   search   what a search is doing, and what its paths have found        *)
(*   permits  _vector_semaphore and _remote_semaphore: what is free        *)
(*   milvus   _degraded_until of the client has not passed                 *)
(*   circuit  _remote_circuit_open_until of the reranker has not passed    *)
(*                                                                         *)
(* The scan of PostgreSQL in _search_vector_path is for exceptions the     *)
(* client keeps to itself, and its wait for a permit cannot time out       *)
(* before the path does: neither happens.                                  *)
(***************************************************************************)
EXTENDS Naturals, FiniteSets

CONSTANTS Searches,
          VectorPermits,   \* VECTOR_CONCURRENCY_LIMIT
          RemotePermits,   \* REMOTE_CONCURRENCY_LIMIT
          VectorEnabled    \* hybrid_vector_enabled

\* What the constants must be.
SearchConstants ==
    /\ VectorPermits \in Nat \ {0}
    /\ RemotePermits \in Nat \ {0}
    /\ VectorEnabled \in BOOLEAN

VARIABLES redis, search, permits, milvus, circuit

vars == <<redis, search, permits, milvus, circuit>>

----------------------------------------------------------------------------
\* Types

Kind == {"hybrid", "keyword", "vector", "graph"}

\* What a path has found.  synthetic: only documents of the load tests, which
\* are dropped later; null: Python's None.
Found == {"hits", "synthetic", "empty", "null", "raised"}

Path == [pc : {"off", "es", "database", "embed", "acquire", "milvus"}, found : Found]

NoPath == [pc |-> "off", found |-> "empty"]

\* titles: the query names documents by their titles.  hits: what is left after
\* the fusion.  unhandled, a history: PostgreSQL, or what a remote model has
\* answered, has raised what nobody catches.
Search == [pc : {"idle", "gather", "graph", "rerank", "acquire", "remote", "ended"},
           kind : Kind, titles : BOOLEAN, keyword : Path, vector : Path, hits : BOOLEAN,
           outcome : {"none", "hits", "empty", "raised"}, unhandled : BOOLEAN]

NoSearch == [pc |-> "idle", kind |-> "hybrid", titles |-> FALSE, keyword |-> NoPath,
             vector |-> NoPath, hits |-> FALSE, outcome |-> "none", unhandled |-> FALSE]

TypeOK ==
    /\ redis \in BOOLEAN
    /\ search \in [Searches -> Search]
    /\ permits \in [vector : 0 .. VectorPermits, remote : 0 .. RemotePermits]
    /\ milvus \in {"available", "degraded"}
    /\ circuit \in {"closed", "open"}

Init ==
    /\ redis \in BOOLEAN
    /\ search = [s \in Searches |-> NoSearch]
    /\ permits = [vector |-> VectorPermits, remote |-> RemotePermits]
    /\ milvus = "available"
    /\ circuit = "closed"

----------------------------------------------------------------------------
\* Steps

Done(found) == [pc |-> "off", found |-> found]

Become(s, v) == search' = [search EXCEPT ![s] = v]

\* Only the paths that run on are kept.
Ended(s, outcome) ==
    [search[s] EXCEPT !.pc = "ended", !.outcome = outcome, !.kind = "hybrid", !.hits = FALSE]

Finish(s, outcome) == Become(s, Ended(s, outcome))

Fail(s) == Become(s, [Ended(s, "raised") EXCEPT !.unhandled = TRUE])

KeywordBecomes(s, p) == Become(s, [search[s] EXCEPT !.keyword = p])

VectorBecomes(s, p) == Become(s, [search[s] EXCEPT !.vector = p])

KeywordFails(s) == Become(s, [search[s] EXCEPT !.keyword = Done("raised"), !.unhandled = TRUE])

VectorFails(s) == Become(s, [search[s] EXCEPT !.vector = Done("raised"), !.unhandled = TRUE])

Running(p) == p.pc # "off"

\* RetrievalObservabilityService.record does not survive the loss of Redis.
Recorded(found) == Done(IF redis THEN found ELSE "raised")

\* Who has cancelled a search may ask again.
BeginSearch(s) ==
    /\ search[s].pc = "idle"
    /\ \E kind \in Kind, titles \in BOOLEAN :
          Become(s, [NoSearch EXCEPT
             !.pc = IF kind = "graph" THEN "graph" ELSE "gather",
             !.kind = kind,
             !.titles = titles,
             !.keyword = IF kind \in {"hybrid", "keyword"} THEN [@ EXCEPT !.pc = "es"] ELSE @,
             !.vector = IF kind = "vector" \/ (kind = "hybrid" /\ VectorEnabled)
                        THEN [@ EXCEPT !.pc = "embed"] ELSE @])
    /\ UNCHANGED <<redis, permits, milvus, circuit>>

----------------------------------------------------------------------------
\* _search_keyword_path

\* Mutant of Elasticsearch: its errors are not handled.
ElasticsearchUnhandled(titles, answer) ==
    IF answer = "raised" \/ ~redis THEN Done("raised")
    ELSE IF answer # "empty" /\ ~titles THEN Done(answer)
    ELSE [pc |-> "database", found |-> answer]

\* What it finds is enough, unless the query names titles.
Elasticsearch(titles, answer) ==
    IF ~redis THEN Done("raised")
    ELSE IF answer \in {"hits", "synthetic"} /\ ~titles THEN Done(answer)
    ELSE [pc |-> "database", found |-> IF answer = "raised" THEN "empty" ELSE answer]

SearchElasticsearch(s) ==
    /\ search[s].keyword.pc = "es"
    /\ \E answer \in {"hits", "synthetic", "empty", "raised"} :
          KeywordBecomes(s, Elasticsearch(search[s].titles, answer))
    /\ UNCHANGED <<redis, permits, milvus, circuit>>

\* What PostgreSQL finds comes before what Elasticsearch has found, if anything;
\* its own failure takes that along.
SearchDatabase(s) ==
    /\ search[s].keyword.pc = "database"
    /\ \/ KeywordBecomes(s, Done("hits"))
       \/ KeywordBecomes(s, Done(search[s].keyword.found))
       \/ KeywordFails(s)
    /\ UNCHANGED <<redis, permits, milvus, circuit>>

\* KEYWORD_TIMEOUT_SECONDS: whatever it has found is lost.
KeywordTimeout(s) ==
    /\ Running(search[s].keyword)
    /\ KeywordBecomes(s, Done("empty"))
    /\ UNCHANGED <<redis, permits, milvus, circuit>>

----------------------------------------------------------------------------
\* _search_vector_path

\* A remote embedder that fails is replaced by the local one, unless its answer is
\* JSON of another shape.
Embed(s) ==
    /\ search[s].vector.pc = "embed"
    /\ \/ VectorBecomes(s, [search[s].vector EXCEPT !.pc = "acquire"])
       \/ VectorFails(s)
    /\ UNCHANGED <<redis, permits, milvus, circuit>>

AcquireVector(s) ==
    /\ search[s].vector.pc = "acquire"
    /\ permits.vector > 0
    /\ permits' = [permits EXCEPT !.vector = @ - 1]
    /\ VectorBecomes(s, [search[s].vector EXCEPT !.pc = "milvus"])
    /\ UNCHANGED <<redis, milvus, circuit>>

\* MilvusClient.search reports its failure as no result, and the path reports no
\* result as None.
SearchMilvus(s) ==
    /\ search[s].vector.pc = "milvus"
    /\ \E answer \in {"hits", "synthetic", "empty", "raised"} :
          /\ milvus = "degraded" => answer = "empty"
          /\ milvus' = IF answer = "raised" THEN "degraded" ELSE milvus
          /\ VectorBecomes(s, Recorded(IF answer \in {"hits", "synthetic"} THEN answer ELSE "null"))
    /\ permits' = [permits EXCEPT !.vector = @ + 1]
    /\ UNCHANGED <<redis, circuit>>

\* Mutant of ReleasedBy: a cancelled path keeps its permit.
ReleasedByNone(p) == 0

\* Mutant of ReleasedBy: a path that still waits for a permit gives one back too.
ReleasedByWaiting(p) == IF p.pc \in {"acquire", "milvus"} THEN 1 ELSE 0

\* The finally of a path that is cancelled.
ReleasedBy(p) == IF p.pc = "milvus" THEN 1 ELSE 0

\* VECTOR_TIMEOUT_SECONDS.
VectorTimeout(s) ==
    /\ Running(search[s].vector)
    /\ VectorBecomes(s, Done("empty"))
    /\ permits' = [permits EXCEPT !.vector = @ + ReleasedBy(search[s].vector)]
    /\ UNCHANGED <<redis, milvus, circuit>>

----------------------------------------------------------------------------
\* The search

\* The first path that raises ends the search, and the other one runs on.
PathRaises(s) ==
    /\ search[s].pc = "gather"
    /\ \E p \in {search[s].keyword, search[s].vector} : ~Running(p) /\ p.found = "raised"
    /\ Finish(s, "raised")
    /\ UNCHANGED <<redis, permits, milvus, circuit>>

\* The lists are filtered, which fails on None, and fused.  Most queries have no
\* word that calls for the graph.
Gather(s) ==
    /\ search[s].pc = "gather"
    /\ \A p \in {search[s].keyword, search[s].vector} : ~Running(p) /\ p.found # "raised"
    /\ IF search[s].vector.found = "null"
       THEN Finish(s, "raised")
       ELSE \E next \in IF search[s].kind = "hybrid" THEN {"graph", "rerank"} ELSE {"rerank"} :
               Become(s, [search[s] EXCEPT
                  !.pc = next,
                  !.hits = "hits" \in {search[s].keyword.found, search[s].vector.found}])
    /\ UNCHANGED <<redis, permits, milvus, circuit>>

\* GraphSearcher.traverse, alone or as a third list, which is recorded: Neo4j's
\* failure is handled, that of PostgreSQL is not.
Traverse(s) ==
    /\ search[s].pc = "graph"
    /\ \/ \E hits \in BOOLEAN :
             IF search[s].kind = "graph" THEN Finish(s, IF hits THEN "hits" ELSE "empty")
             ELSE IF ~redis THEN Finish(s, "raised")
             ELSE Become(s, [search[s] EXCEPT !.pc = "rerank", !.hits = @ \/ hits])
       \/ Fail(s)
    /\ UNCHANGED <<redis, permits, milvus, circuit>>

\* _rerank_local, when the remote reranker is not asked or has no answer.
Locally(s) == IF search[s].hits THEN "hits" ELSE "empty"

\* The tenant may not be one of the reranker's.
Rerank(s) ==
    /\ search[s].pc = "rerank"
    /\ \/ Finish(s, IF search[s].hits THEN "hits" ELSE "empty")
       \/ /\ circuit = "closed"
          /\ IF search[s].hits THEN Become(s, [search[s] EXCEPT !.pc = "acquire"])
             ELSE Finish(s, "empty")
    /\ UNCHANGED <<redis, permits, milvus, circuit>>

AcquireRemote(s) ==
    /\ search[s].pc = "acquire"
    /\ \/ /\ permits.remote > 0
          /\ permits' = [permits EXCEPT !.remote = @ - 1]
          /\ Become(s, [search[s] EXCEPT !.pc = "remote"])
       \/ Finish(s, Locally(s)) /\ UNCHANGED permits
    /\ UNCHANGED <<redis, milvus, circuit>>

\* An answer that names no candidate is none; a failure opens the circuit too.  JSON
\* that is no object is raised, past the finally that gives the permit back.
RerankRemote(s) ==
    /\ search[s].pc = "remote"
    /\ permits' = [permits EXCEPT !.remote = @ + 1]
    /\ \/ Finish(s, "hits") /\ UNCHANGED circuit
       \/ Finish(s, Locally(s)) /\ circuit' \in {circuit, "open"}
       \/ Fail(s) /\ UNCHANGED circuit
    /\ UNCHANGED <<redis, milvus>>

\* The request is cancelled: so is what it waits for.
Cancel(s) ==
    /\ search[s].pc \notin {"idle", "ended"}
    /\ Become(s, NoSearch)
    /\ permits' = [vector |-> permits.vector + ReleasedBy(search[s].vector),
                   remote |-> permits.remote + (IF search[s].pc = "remote" THEN 1 ELSE 0)]
    /\ UNCHANGED <<redis, milvus, circuit>>

\* _degraded_retry_seconds and thirty seconds pass.
Recover ==
    /\ milvus' = "available"
    /\ circuit' = "closed"
    /\ <<milvus, circuit>> # <<"available", "closed">>
    /\ UNCHANGED <<redis, search, permits>>

----------------------------------------------------------------------------
Step(s) ==
    \/ BeginSearch(s)
    \/ SearchElasticsearch(s) \/ SearchDatabase(s) \/ KeywordTimeout(s)
    \/ Embed(s) \/ AcquireVector(s) \/ SearchMilvus(s) \/ VectorTimeout(s)
    \/ PathRaises(s) \/ Gather(s) \/ Traverse(s)
    \/ Rerank(s) \/ AcquireRemote(s) \/ RerankRemote(s) \/ Cancel(s)

Next == (\E s \in Searches : Step(s)) \/ Recover

Spec == Init /\ [][Next]_vars

----------------------------------------------------------------------------
\* Properties

\* Whatever times out, fails or is cancelled, and wherever, a permit is either
\* free or with a path or a search that will give it back.
PermitsReturn ==
    /\ permits.vector + Cardinality({s \in Searches : search[s].vector.pc = "milvus"})
          = VectorPermits
    /\ permits.remote + Cardinality({s \in Searches : search[s].pc = "remote"}) = RemotePermits

\* What is lost costs a search its own part and no more: no hit is lost that a path
\* found in time, whichever other path, or the reranker, fails or is too late; and
\* while Redis answers a search fails only because the vector path has nothing, or
\* of what nobody catches: PostgreSQL, or a remote model's answer of another shape.
\* What nobody catches is in turn never answered as if nothing had been found.
LossesAreContained ==
    \A s \in Searches :
        /\ search[s].outcome = "empty" =>
             "hits" \notin {search[s].keyword.found, search[s].vector.found}
        /\ search[s].outcome = "raised" /\ redis =>
             search[s].vector.found = "null" \/ search[s].unhandled
        /\ search[s].outcome \in {"hits", "empty"} => ~search[s].unhandled
=============================================================================
