--------------------------- MODULE PlatformProofs ---------------------------
(***************************************************************************)
(* Theorems about IndexSync, Search, MaintenanceJob and ChatClient, for    *)
(* every value of their constants: what a reindexing leaves behind when it *)
(* ends, whichever of its accesses to the indexes fail; that the permits of*)
(* a search come back and its losses stay its own; that the record of a    *)
(* background job shows the outcome Celery has; that a browser tab shows   *)
(* the messages of the session it shows.                                   *)
(*                                                                         *)
(* Each component has its inductive invariant, kept by every step from     *)
(* every start; MCPlatform, where a behaviour is one of a component, holds *)
(* what they hold because a step of one leaves the others alone.           *)
(***************************************************************************)
EXTENDS AccountsProofs, IngestionProofs, Sequences

----------------------------------------------------------------------------
\* IndexSync

----------------------------------------------------------------------------
\* Types

SyncTypes == TypeOK /\ SyncTypeOK

LEMMA SyncTypeInit == SyncInit => SyncTypes
<1>1. NotBegun \in Reindex
  BY DEF NotBegun, Reindex, Nothing
<1> QED BY <1>1, TypeInit DEF SyncInit, SyncTypes, SyncTypeOK

\* What a step of the reindexing leaves to be shown.
LEMMA StayKeepsTypes ==
    ASSUME SyncTypes, Stay, reindex' \in Reindex,
           es' \in [Docs -> SUBSET Nat], milvus' \in [Docs -> SUBSET Nat]
    PROVE  SyncTypes'
<1>1. TypeOK'
  BY DEF SyncTypes, TypeOK, StoresOK, RequestsOK, WorkersOK, Stay, faults
<1> QED BY <1>1 DEF SyncTypes, SyncTypeOK, Stay

LEMMA StoresAreTyped ==
    ASSUME SyncTypes
    PROVE  /\ chunks \in [Docs -> SUBSET Nat] /\ es \in [Docs -> SUBSET Nat]
           /\ milvus \in [Docs -> SUBSET Nat] /\ reindex \in Reindex /\ touched \subseteq Docs
           /\ Nothing \in [Docs -> SUBSET Nat]
           /\ Put(es) \in [Docs -> SUBSET Nat] /\ Put(milvus) \in [Docs -> SUBSET Nat]
<1>1. /\ chunks \in [Docs -> SUBSET Nat] /\ es \in [Docs -> SUBSET Nat]
      /\ milvus \in [Docs -> SUBSET Nat] /\ reindex \in Reindex /\ touched \subseteq Docs
  BY DEF SyncTypes, TypeOK, StoresOK, SyncTypeOK
<1>2. reindex.read \in [Docs -> SUBSET Nat]
  BY <1>1 DEF Reindex
<1> QED BY <1>1, <1>2 DEF Nothing, Put

----------------------------------------------------------------------------
\* The inductive invariant

\* How far each step has come.
PlaceOK ==
    /\ reindex.pc \in {"idle", "clear_es"} => reindex.emptied = {}
    /\ reindex.pc = "clear_milvus" => reindex.emptied \subseteq {"es"}
    /\ reindex.pc \in {"idle", "clear_es", "clear_milvus", "bulk"} => reindex.filled = {}
    /\ reindex.pc = "upsert" => reindex.filled \subseteq {"es"}
    /\ reindex.reported => reindex.pc = "done"

Kept(d) == IF d \in reindex.kept THEN chunks[d] ELSE {}

\* What an index that was emptied holds of a document.
Refilled(d, x) == IF x \in reindex.filled THEN Kept(d) ELSE {}

\* Of a document nobody has touched, what was read is what there is.
AsRead(d) ==
    /\ d \in reindex.kept => row[d] = "ready"
    /\ reindex.pc # "done" => reindex.read[d] = Kept(d)
    /\ "es" \in reindex.emptied => es[d] = Refilled(d, "es")
    /\ "milvus" \in reindex.emptied => milvus[d] = Refilled(d, "milvus")
    /\ reindex.reported /\ d \in reindex.kept => chunks[d] \subseteq milvus[d]

SyncInv ==
    /\ SyncTypes
    /\ PlaceOK
    /\ reindex.pc # "idle" => \A d \in Docs \ touched : AsRead(d)

LEMMA SyncInvInit == SyncInit => SyncInv
<1>1. ASSUME SyncInit PROVE PlaceOK /\ reindex.pc = "idle"
  BY <1>1 DEF SyncInit, NotBegun, PlaceOK
<1> QED BY <1>1, SyncTypeInit DEF SyncInv

----------------------------------------------------------------------------
\* The steps of the reindexing

LEMMA ReadKeepsSyncInv ==
    ASSUME SyncInv, ReadChunks PROVE SyncInv'
<1>1. PICK kept \in SUBSET {d \in Docs : Readable(d)} :
        reindex' = [NotBegun EXCEPT
                      !.pc = "clear_es", !.kept = kept,
                      !.read = [d \in Docs |-> IF d \in kept THEN chunks[d] ELSE {}]]
  BY DEF ReadChunks
<1>2. UNCHANGED <<es, milvus, chunks, row>> /\ Stay /\ reindex.pc = "idle"
  BY DEF ReadChunks, indexes, Stay
<1>3. SyncTypes /\ chunks \in [Docs -> SUBSET Nat]
  BY StoresAreTyped DEF SyncInv
<1>4. /\ reindex'.pc = "clear_es" /\ reindex'.kept = kept /\ reindex'.emptied = {}
      /\ reindex'.filled = {} /\ reindex'.reported = FALSE
      /\ reindex'.read = [d \in Docs |-> IF d \in kept THEN chunks[d] ELSE {}]
  BY <1>1 DEF NotBegun
<1>5. reindex' \in Reindex
  <2>1. kept \in SUBSET Docs
    OBVIOUS
  <2>2. [d \in Docs |-> IF d \in kept THEN chunks[d] ELSE {}] \in [Docs -> SUBSET Nat]
    BY <1>3
  <2> QED BY <1>1, <2>1, <2>2 DEF NotBegun, Reindex
<1>6. SyncTypes'
  BY <1>2, <1>3, <1>5, StayKeepsTypes, StoresAreTyped
<1>7. PlaceOK'
  BY <1>4 DEF PlaceOK
<1>8. \A d \in Docs : AsRead(d)'
  BY <1>2, <1>4 DEF AsRead, Kept, Readable
<1> QED BY <1>6, <1>7, <1>8 DEF SyncInv

\* What After writes.
LEMMA AfterWrites ==
    ASSUME reindex \in Reindex, NEW pc \in {"clear_milvus", "done", "bulk", "upsert"},
           NEW field \in {"emptied", "filled"}, NEW x \in Indexes, NEW worked \in BOOLEAN,
           After(pc, field, x, worked)
    PROVE  /\ reindex' \in Reindex
           /\ reindex'.pc = pc /\ reindex'.kept = reindex.kept
           /\ reindex'.reported = reindex.reported
           /\ pc # "done" => reindex'.read = reindex.read
           /\ reindex'.emptied = IF field = "emptied" /\ worked THEN reindex.emptied \union {x}
                                 ELSE reindex.emptied
           /\ reindex'.filled = IF field = "filled" /\ worked THEN reindex.filled \union {x}
                                ELSE reindex.filled
<1>1. Nothing \in [Docs -> SUBSET Nat]
  BY DEF Nothing
<1>2. CASE field = "emptied"
  <2>1. reindex' = [reindex EXCEPT !.pc = pc,
                      !.emptied = IF worked THEN @ \union {x} ELSE @,
                      !.read = IF pc = "done" THEN Nothing ELSE @]
    BY <1>2 DEF After
  <2> QED BY <1>1, <1>2, <2>1 DEF Reindex
<1>3. CASE field = "filled"
  <2>1. reindex' = [reindex EXCEPT !.pc = pc,
                      !.filled = IF worked THEN @ \union {x} ELSE @,
                      !.read = IF pc = "done" THEN Nothing ELSE @]
    BY <1>3 DEF After
  <2> QED BY <1>1, <1>3, <2>1 DEF Reindex
<1> QED BY <1>2, <1>3

LEMMA ClearKeepsSyncInv ==
    ASSUME SyncInv, ClearEs \/ ClearMilvus PROVE SyncInv'
<1>1. /\ SyncTypes /\ PlaceOK /\ reindex \in Reindex
      /\ \A d \in Docs : Nothing[d] = {}
  BY StoresAreTyped DEF SyncInv, Nothing
<1>2. Stay /\ row' = row /\ chunks' = chunks /\ touched' = touched
  BY DEF ClearEs, ClearMilvus, Stay
<1>3. CASE ClearEs
  <2>1. PICK worked \in BOOLEAN :
          /\ es' = IF worked THEN Nothing ELSE es
          /\ After("clear_milvus", "emptied", "es", worked)
    BY <1>3 DEF ClearEs
  <2>2. /\ reindex.pc = "clear_es" /\ milvus' = milvus
        /\ reindex.emptied = {} /\ reindex.filled = {} /\ ~reindex.reported
    BY <1>1, <1>3 DEF ClearEs, PlaceOK
  <2>3. /\ reindex' \in Reindex /\ reindex'.pc = "clear_milvus"
        /\ reindex'.kept = reindex.kept /\ reindex'.reported = reindex.reported
        /\ reindex'.read = reindex.read /\ reindex'.filled = {}
        /\ reindex'.emptied = IF worked THEN {"es"} ELSE {}
    BY <1>1, <2>1, <2>2, AfterWrites DEF Indexes
  <2>4. SyncTypes'
    BY <1>1, <1>2, <2>1, <2>2, <2>3, StayKeepsTypes, StoresAreTyped
  <2>5. PlaceOK'
    BY <2>2, <2>3 DEF PlaceOK
  <2>6. \A d \in Docs \ touched : AsRead(d)'
    BY <1>1, <1>2, <2>1, <2>2, <2>3 DEF SyncInv, AsRead, Kept, Refilled
  <2> QED BY <1>2, <2>4, <2>5, <2>6 DEF SyncInv
<1>4. CASE ClearMilvus
  <2>1. PICK worked \in BOOLEAN :
          /\ milvus' = IF worked THEN Nothing ELSE milvus
          /\ After(IF reindex.read = Nothing THEN "done" ELSE "bulk", "emptied", "milvus",
                   worked)
    BY <1>4 DEF ClearMilvus
  <2>2. PICK pc \in {"done", "bulk"} : After(pc, "emptied", "milvus", worked)
    BY <2>1
  <2>3. /\ reindex.pc = "clear_milvus" /\ es' = es
        /\ reindex.emptied \subseteq {"es"} /\ reindex.filled = {} /\ ~reindex.reported
    BY <1>1, <1>4 DEF ClearMilvus, PlaceOK
  <2>4. /\ reindex' \in Reindex /\ reindex'.pc = pc
        /\ reindex'.kept = reindex.kept /\ reindex'.reported = reindex.reported
        /\ pc # "done" => reindex'.read = reindex.read
        /\ reindex'.filled = {}
        /\ reindex'.emptied = IF worked THEN reindex.emptied \union {"milvus"}
                              ELSE reindex.emptied
    BY <1>1, <2>2, <2>3, AfterWrites DEF Indexes
  <2>5. SyncTypes'
    BY <1>1, <1>2, <2>1, <2>3, <2>4, StayKeepsTypes, StoresAreTyped
  <2>6. PlaceOK'
    BY <2>3, <2>4 DEF PlaceOK
  <2>7. \A d \in Docs \ touched : AsRead(d)'
    BY <1>1, <1>2, <2>1, <2>3, <2>4 DEF SyncInv, AsRead, Kept, Refilled
  <2> QED BY <1>2, <2>5, <2>6, <2>7 DEF SyncInv
<1> QED BY <1>3, <1>4

LEMMA FillKeepsSyncInv ==
    ASSUME SyncInv, BulkIndex \/ UpsertChunks PROVE SyncInv'
<1>1. /\ SyncTypes /\ PlaceOK /\ reindex \in Reindex
      /\ \A d \in Docs : /\ Put(es)[d] = es[d] \union reindex.read[d]
                         /\ Put(milvus)[d] = milvus[d] \union reindex.read[d]
  BY StoresAreTyped DEF SyncInv, Put
<1>2. Stay /\ row' = row /\ chunks' = chunks /\ touched' = touched
  BY DEF BulkIndex, UpsertChunks, Stay
<1>3. CASE BulkIndex
  <2>1. PICK worked \in BOOLEAN :
          /\ es' = IF worked THEN Put(es) ELSE es
          /\ After("upsert", "filled", "es", worked)
    BY <1>3 DEF BulkIndex
  <2>2. /\ reindex.pc = "bulk" /\ milvus' = milvus
        /\ reindex.filled = {} /\ ~reindex.reported
    BY <1>1, <1>3 DEF BulkIndex, PlaceOK
  <2>3. /\ reindex' \in Reindex /\ reindex'.pc = "upsert"
        /\ reindex'.kept = reindex.kept /\ reindex'.reported = reindex.reported
        /\ reindex'.read = reindex.read /\ reindex'.emptied = reindex.emptied
        /\ reindex'.filled = IF worked THEN {"es"} ELSE {}
    BY <1>1, <2>1, <2>2, AfterWrites DEF Indexes
  <2>4. SyncTypes'
    BY <1>1, <1>2, <2>1, <2>2, <2>3, StayKeepsTypes, StoresAreTyped
  <2>5. PlaceOK'
    BY <2>2, <2>3 DEF PlaceOK
  <2>6. ASSUME NEW d \in Docs \ touched PROVE AsRead(d)'
    <3>1. AsRead(d) /\ Kept(d)' = Kept(d) /\ reindex.read[d] = Kept(d)
      BY <1>2, <2>2, <2>3 DEF SyncInv, AsRead, Kept
    <3>2. worked => es'[d] = es[d] \union Kept(d)
      BY <1>1, <2>1, <3>1
    <3>3. "es" \in reindex'.emptied => es'[d] = Refilled(d, "es")'
      BY <2>1, <2>2, <2>3, <3>1, <3>2 DEF AsRead, Refilled
    <3>4. "milvus" \in reindex'.emptied => milvus'[d] = Refilled(d, "milvus")'
      BY <2>2, <2>3, <3>1 DEF AsRead, Refilled
    <3> QED BY <1>2, <2>2, <2>3, <3>1, <3>3, <3>4 DEF AsRead
  <2> QED BY <1>2, <2>4, <2>5, <2>6 DEF SyncInv
<1>4. CASE UpsertChunks
  <2>1. PICK inserted \in BOOLEAN, reported \in BOOLEAN :
          /\ reported => inserted
          /\ milvus' = IF inserted THEN Put(milvus) ELSE milvus
          /\ reindex' = [reindex EXCEPT !.pc = "done", !.reported = reported,
                           !.filled = IF inserted THEN @ \union {"milvus"} ELSE @,
                           !.read = Nothing]
    BY <1>4 DEF UpsertChunks
  <2>2. reindex.pc = "upsert" /\ es' = es /\ reindex.filled \subseteq {"es"}
    BY <1>1, <1>4 DEF UpsertChunks, PlaceOK
  <2>3. /\ reindex' \in Reindex /\ reindex'.pc = "done"
        /\ reindex'.kept = reindex.kept /\ reindex'.reported = reported
        /\ reindex'.emptied = reindex.emptied
        /\ reindex'.filled = IF inserted THEN reindex.filled \union {"milvus"}
                             ELSE reindex.filled
    BY <1>1, <2>1, StoresAreTyped DEF Reindex, Indexes
  <2>4. SyncTypes'
    BY <1>1, <1>2, <2>1, <2>2, <2>3, StayKeepsTypes, StoresAreTyped
  <2>5. PlaceOK'
    BY <2>2, <2>3 DEF PlaceOK
  <2>6. ASSUME NEW d \in Docs \ touched PROVE AsRead(d)'
    <3>1. AsRead(d) /\ Kept(d)' = Kept(d) /\ reindex.read[d] = Kept(d)
      BY <1>2, <2>2, <2>3 DEF SyncInv, AsRead, Kept
    <3>2. inserted => milvus'[d] = milvus[d] \union Kept(d)
      BY <1>1, <2>1, <3>1
    <3>3. "es" \in reindex'.emptied => es'[d] = Refilled(d, "es")'
      BY <2>2, <2>3, <3>1 DEF AsRead, Refilled
    <3>4. "milvus" \in reindex'.emptied => milvus'[d] = Refilled(d, "milvus")'
      BY <2>1, <2>2, <2>3, <3>1, <3>2 DEF AsRead, Refilled
    <3>5. reindex'.reported /\ d \in reindex'.kept => chunks'[d] \subseteq milvus'[d]
      BY <1>2, <2>1, <2>3, <3>2 DEF Kept
    <3> QED BY <1>2, <2>3, <3>1, <3>3, <3>4, <3>5 DEF AsRead
  <2> QED BY <1>2, <2>4, <2>5, <2>6 DEF SyncInv
<1> QED BY <1>3, <1>4

----------------------------------------------------------------------------
\* The steps beside it

LEMMA BesideKeepsSyncInv ==
    ASSUME SyncInv, IngestionStep PROVE SyncInv'
<1>1. TypeOK'
  BY TypeStep DEF SyncInv, SyncTypes, IngestionStep
<1>2. SyncTypes' /\ PlaceOK'
  BY <1>1 DEF SyncInv, SyncTypes, SyncTypeOK, PlaceOK, IngestionStep, Touch
<1>3. ASSUME reindex.pc # "idle", NEW d \in Docs \ touched'
      PROVE  AsRead(d)'
  <2>1. d \notin touched /\ Of(d)' = Of(d) /\ reindex' = reindex
    BY <1>3 DEF IngestionStep, Touch
  <2>2. row'[d] = row[d] /\ chunks'[d] = chunks[d] /\ es'[d] = es[d] /\ milvus'[d] = milvus[d]
    BY <2>1 DEF Of
  <2>3. AsRead(d)
    BY <1>3, <2>1 DEF SyncInv
  <2> QED BY <2>1, <2>2, <2>3 DEF AsRead, Kept, Refilled
<1> QED BY <1>2, <1>3 DEF SyncInv, IngestionStep

LEMMA SyncMoves == SyncInv /\ [SyncNext]_<<vars, reindex, touched>> => SyncInv'
<1>1. ASSUME SyncInv, UNCHANGED <<vars, reindex, touched>> PROVE SyncInv'
  <2>1. TypeOK'
    BY <1>1, TypeStep DEF SyncInv, SyncTypes
  <2>2. UNCHANGED <<row, chunks, es, milvus, reindex, touched>>
    BY <1>1 DEF vars
  <2> QED BY <1>1, <2>1, <2>2
      DEF SyncInv, SyncTypes, SyncTypeOK, PlaceOK, AsRead, Kept, Refilled
<1> QED BY <1>1, ReadKeepsSyncInv, ClearKeepsSyncInv, FillKeepsSyncInv, BesideKeepsSyncInv
    DEF SyncNext, ReindexStep

\* A reindexing and everything beside it keep their types.
THEOREM SyncTypeCorrect == SyncSpec => [](TypeOK /\ SyncTypeOK)
<1>1. SyncInv => TypeOK /\ SyncTypeOK
  BY DEF SyncInv, SyncTypes
<1> QED BY <1>1, SyncInvInit, SyncMoves, PTL DEF SyncSpec

LEMMA RestoredBySyncInv == SyncInv => ReindexRestores
<1>1. ASSUME SyncInv, reindex.pc = "done", NEW d \in Docs \ touched
      PROVE  LET wanted == IF row[d] = "ready" /\ d \in reindex.kept THEN chunks[d] ELSE {}
                 Exact(x, index) == x \in reindex.emptied /\ (x \in reindex.filled \/ wanted = {})
                                    => index[d] = wanted
             IN  /\ Exact("es", es) /\ Exact("milvus", milvus)
                 /\ reindex.reported /\ d \in reindex.kept => d \notin Missing(milvus)
  <2>1. AsRead(d)
    BY <1>1 DEF SyncInv
  <2>2. Kept(d) = IF row[d] = "ready" /\ d \in reindex.kept THEN chunks[d] ELSE {}
    BY <2>1 DEF AsRead, Kept
  <2>3. reindex.reported /\ d \in reindex.kept => d \notin Missing(milvus)
    BY <2>1 DEF AsRead, Missing
  <2> QED BY <2>1, <2>2, <2>3 DEF AsRead, Refilled
<1> QED BY <1>1 DEF ReindexRestores

\* Of every document that nobody touches between the SELECT and the end, an index that
\* was emptied and filled holds what PostgreSQL holds, and a reported number means that
\* no kept document is missing in Milvus (IndexSyncService.reindex_tenant).
THEOREM ReindexingRestores == SyncSpec => []ReindexRestores
BY RestoredBySyncInv, SyncInvInit, SyncMoves, PTL DEF SyncSpec

----------------------------------------------------------------------------
\* Search

----------------------------------------------------------------------------
\* The inductive invariant

InMilvus == {s \in Requests : search[s].vector.pc = "milvus"}

InRemote == {s \in Requests : search[s].pc = "remote"}

\* Few enough searches hold a permit to be counted, however many there are.
HoldersCounted ==
    /\ IsFiniteSet(InMilvus)
    /\ permits.vector + Cardinality(InMilvus) = VectorPermits
    /\ IsFiniteSet(InRemote)
    /\ permits.remote + Cardinality(InRemote) = RemotePermits

HasRaised(p) == ~Hybrid!Running(p) /\ p.found = "raised"

\* What the paths of a search have left by the time it has come so far.
SearchAt(v) ==
    /\ v.pc \in {"idle", "graph", "rerank", "acquire", "remote"} =>
          ~Hybrid!Running(v.keyword) /\ ~Hybrid!Running(v.vector) /\ ~v.unhandled
    /\ v.pc \in {"graph", "rerank", "acquire", "remote"} /\ ~v.hits =>
          "hits" \notin {v.keyword.found, v.vector.found}
    /\ v.pc = "graph" /\ v.kind = "graph" => ~v.hits
    /\ v.pc # "ended" => v.outcome = "none"
    /\ v.outcome \in {"hits", "empty"} =>
          ~Hybrid!Running(v.keyword) /\ ~Hybrid!Running(v.vector) /\ ~v.unhandled
    /\ v.outcome = "empty" => "hits" \notin {v.keyword.found, v.vector.found}
    /\ v.outcome = "raised" /\ redis =>
          v.unhandled \/ (~Hybrid!Running(v.vector) /\ v.vector.found = "null")
    /\ v.unhandled => v.outcome = "raised" \/ HasRaised(v.keyword) \/ HasRaised(v.vector)
    /\ redis /\ "raised" \in {v.keyword.found, v.vector.found} => v.unhandled

SearchInv ==
    /\ Hybrid!TypeOK
    /\ HoldersCounted
    /\ \A s \in Requests : SearchAt(search[s])

LEMMA CardHybrid == \A S : Hybrid!Cardinality(S) = Cardinality(S)
  BY DEF Hybrid!Cardinality, Cardinality

LEMMA SearchSafe == SearchInv => Hybrid!TypeOK /\ Hybrid!PermitsReturn /\ Hybrid!LossesAreContained
  BY CardHybrid DEF SearchInv, HoldersCounted, InMilvus, InRemote, Hybrid!PermitsReturn,
     SearchAt, Hybrid!LossesAreContained

----------------------------------------------------------------------------
\* Permits

\* A count when one search has changed.
LEMMA CountKept ==
    ASSUME NEW A, NEW B, NEW s, IsFiniteSet(A), B \ {s} = A \ {s}
    PROVE  /\ IsFiniteSet(B)
           /\ Cardinality(A) \in Nat /\ Cardinality(B) \in Nat
           /\ (s \in A <=> s \in B) => Cardinality(B) = Cardinality(A)
           /\ s \notin A /\ s \in B => Cardinality(B) = Cardinality(A) + 1
           /\ s \in A /\ s \notin B => Cardinality(B) = Cardinality(A) - 1
<1>1. Cardinality(A) \in Nat
  BY FS_CardinalityType
<1>2. CASE s \in A <=> s \in B
  <2>1. A = B
    BY <1>2
  <2> QED BY <1>1, <1>2, <2>1
<1>3. CASE s \notin A /\ s \in B
  <2>1. B = A \cup {s}
    BY <1>3
  <2>2. IsFiniteSet(B) /\ Cardinality(B) = Cardinality(A) + 1
    BY <1>3, <2>1, FS_AddElement
  <2> QED BY <1>1, <1>3, <2>2
<1>4. CASE s \in A /\ s \notin B
  <2>1. B = A \ {s}
    BY <1>4
  <2>2. IsFiniteSet(B) /\ Cardinality(B) = Cardinality(A) - 1
    BY <1>4, <2>1, FS_RemoveElement
  <2>3. Cardinality(B) \in Nat
    BY <2>2, FS_CardinalityType
  <2> QED BY <1>1, <1>4, <2>2, <2>3
<1> QED BY <1>2, <1>3, <1>4

\* What a search becomes decides about the invariant.
LEMMA Becomes ==
    ASSUME Hybrid!SearchConstants, SearchInv, NEW s \in Requests, NEW v \in Hybrid!Search, Hybrid!Become(s, v), SearchAt(v),
           redis' = redis, client' \in {"available", "degraded"}, circuit' \in {"closed", "open"},
           permits' \in [vector : Int, remote : Int],
           \/ permits'.vector = permits.vector
              /\ (search[s].vector.pc = "milvus" <=> v.vector.pc = "milvus")
           \/ permits'.vector = permits.vector - 1 /\ permits.vector > 0
              /\ search[s].vector.pc # "milvus" /\ v.vector.pc = "milvus"
           \/ permits'.vector = permits.vector + 1
              /\ search[s].vector.pc = "milvus" /\ v.vector.pc # "milvus",
           \/ permits'.remote = permits.remote
              /\ (search[s].pc = "remote" <=> v.pc = "remote")
           \/ permits'.remote = permits.remote - 1 /\ permits.remote > 0
              /\ search[s].pc # "remote" /\ v.pc = "remote"
           \/ permits'.remote = permits.remote + 1
              /\ search[s].pc = "remote" /\ v.pc # "remote"
    PROVE  SearchInv'
<1>1. search \in [Requests -> Hybrid!Search] /\ redis \in BOOLEAN
  BY DEF SearchInv, Hybrid!TypeOK
<1>2. /\ search' \in [Requests -> Hybrid!Search]
      /\ search'[s] = v
      /\ \A r \in Requests : r # s => search'[r] = search[r]
  BY <1>1 DEF Hybrid!Become
<1>3. permits.vector \in Nat /\ permits.remote \in Nat
  BY DEF SearchInv, Hybrid!TypeOK
<1>4. VectorPermits \in Nat /\ RemotePermits \in Nat
  BY DEF Hybrid!SearchConstants
<1>5. /\ IsFiniteSet(InMilvus')
      /\ permits'.vector + Cardinality(InMilvus') = VectorPermits
      /\ permits'.vector \in 0 .. VectorPermits
  <2>1. InMilvus' \ {s} = InMilvus \ {s}
    BY <1>2 DEF InMilvus
  <2>2. s \in InMilvus <=> search[s].vector.pc = "milvus"
    BY DEF InMilvus
  <2>3. s \in InMilvus' <=> v.vector.pc = "milvus"
    BY <1>2 DEF InMilvus
  <2>4. IsFiniteSet(InMilvus) /\ permits.vector + Cardinality(InMilvus) = VectorPermits
    BY DEF SearchInv, HoldersCounted
  <2> DEFINE A == InMilvus
             B == InMilvus'
             n == Cardinality(A)
             m == Cardinality(B)
  <2>5. /\ IsFiniteSet(B) /\ n \in Nat /\ m \in Nat
        /\ (s \in A <=> s \in B) => m = n
        /\ s \notin A /\ s \in B => m = n + 1
        /\ s \in A /\ s \notin B => m = n - 1
    <3>1. IsFiniteSet(A) /\ B \ {s} = A \ {s}
      BY <2>1, <2>4
    <3> HIDE DEF A, B
    <3> QED BY <3>1, CountKept
  <2>6. permits.vector + n = VectorPermits
    BY <2>4
  <2>7. (s \in A <=> search[s].vector.pc = "milvus")
        /\ (s \in B <=> v.vector.pc = "milvus")
    BY <2>2, <2>3
  <2> HIDE DEF A, B, n, m
  <2>8. \/ permits'.vector = permits.vector /\ m = n
        \/ permits'.vector = permits.vector - 1 /\ permits.vector > 0 /\ m = n + 1
        \/ permits'.vector = permits.vector + 1 /\ m = n - 1
    BY <2>5, <2>7
  <2>9. permits'.vector + m = VectorPermits /\ permits'.vector \in 0 .. VectorPermits
    BY <1>3, <1>4, <2>5, <2>6, <2>8
  <2> QED BY <2>5, <2>9 DEF B, m
<1>6. /\ IsFiniteSet(InRemote')
      /\ permits'.remote + Cardinality(InRemote') = RemotePermits
      /\ permits'.remote \in 0 .. RemotePermits
  <2>1. InRemote' \ {s} = InRemote \ {s}
    BY <1>2 DEF InRemote
  <2>2. s \in InRemote <=> search[s].pc = "remote"
    BY DEF InRemote
  <2>3. s \in InRemote' <=> v.pc = "remote"
    BY <1>2 DEF InRemote
  <2>4. IsFiniteSet(InRemote) /\ permits.remote + Cardinality(InRemote) = RemotePermits
    BY DEF SearchInv, HoldersCounted
  <2> DEFINE A == InRemote
             B == InRemote'
             n == Cardinality(A)
             m == Cardinality(B)
  <2>5. /\ IsFiniteSet(B) /\ n \in Nat /\ m \in Nat
        /\ (s \in A <=> s \in B) => m = n
        /\ s \notin A /\ s \in B => m = n + 1
        /\ s \in A /\ s \notin B => m = n - 1
    <3>1. IsFiniteSet(A) /\ B \ {s} = A \ {s}
      BY <2>1, <2>4
    <3> HIDE DEF A, B
    <3> QED BY <3>1, CountKept
  <2>6. permits.remote + n = RemotePermits
    BY <2>4
  <2>7. (s \in A <=> search[s].pc = "remote")
        /\ (s \in B <=> v.pc = "remote")
    BY <2>2, <2>3
  <2> HIDE DEF A, B, n, m
  <2>8. \/ permits'.remote = permits.remote /\ m = n
        \/ permits'.remote = permits.remote - 1 /\ permits.remote > 0 /\ m = n + 1
        \/ permits'.remote = permits.remote + 1 /\ m = n - 1
    BY <2>5, <2>7
  <2>9. permits'.remote + m = RemotePermits /\ permits'.remote \in 0 .. RemotePermits
    BY <1>3, <1>4, <2>5, <2>6, <2>8
  <2> QED BY <2>5, <2>9 DEF B, m
<1>7. permits' \in [vector : 0 .. VectorPermits, remote : 0 .. RemotePermits]
  BY <1>5, <1>6
<1>8. Hybrid!TypeOK'
  BY <1>1, <1>2, <1>7 DEF Hybrid!TypeOK
<1>9. HoldersCounted'
  BY <1>5, <1>6 DEF HoldersCounted
<1>10. ASSUME NEW r \in Requests PROVE SearchAt(search[r])'
  <2>1. SearchAt(search[r])
    BY DEF SearchInv
  <2>2. CASE r = s
    BY <1>2, <2>2 DEF SearchAt, HasRaised, Hybrid!Running
  <2>3. CASE r # s
    BY <1>2, <2>1, <2>3 DEF SearchAt, HasRaised, Hybrid!Running
  <2> QED BY <2>2, <2>3
<1> QED BY <1>8, <1>9, <1>10 DEF SearchInv

\* Where no permit changes hands.
LEMMA BecomesFreely ==
    ASSUME Hybrid!SearchConstants, SearchInv, NEW s \in Requests, NEW v \in Hybrid!Search, Hybrid!Become(s, v), SearchAt(v),
           redis' = redis, permits' = permits, client' = client, circuit' \in {"closed", "open"},
           search[s].vector.pc = "milvus" <=> v.vector.pc = "milvus",
           search[s].pc = "remote" <=> v.pc = "remote"
    PROVE  SearchInv'
<1>1. permits \in [vector : Int, remote : Int] /\ client \in {"available", "degraded"}
  BY DEF SearchInv, Hybrid!TypeOK
<1> QED BY <1>1, Becomes

----------------------------------------------------------------------------
\* Steps

LEMMA DoneFields ==
    ASSUME NEW found \in Hybrid!Found
    PROVE  Hybrid!Done(found) \in Hybrid!Path /\ Hybrid!Done(found).pc = "off" /\ Hybrid!Done(found).found = found
  BY DEF Hybrid!Done, Hybrid!Path

LEMMA EndedFields ==
    ASSUME NEW s \in Requests, search[s] \in Hybrid!Search, NEW outcome \in {"hits", "empty", "raised"}
    PROVE  LET v == Hybrid!Ended(s, outcome)
           IN  /\ v \in Hybrid!Search
               /\ v.pc = "ended" /\ v.outcome = outcome /\ ~v.hits
               /\ v.keyword = search[s].keyword /\ v.vector = search[s].vector
               /\ v.unhandled = search[s].unhandled
  BY DEF Hybrid!Ended, Hybrid!Search, Hybrid!Kind

LEMMA FailFields ==
    ASSUME NEW s \in Requests, search[s] \in Hybrid!Search, Hybrid!Fail(s)
    PROVE  \E v \in Hybrid!Search :
              /\ Hybrid!Become(s, v)
              /\ v.pc = "ended" /\ v.outcome = "raised" /\ ~v.hits
              /\ v.keyword = search[s].keyword /\ v.vector = search[s].vector
              /\ v.unhandled
<1> DEFINE e == Hybrid!Ended(s, "raised")
           v == [e EXCEPT !.unhandled = TRUE]
<1>1. /\ e \in Hybrid!Search
      /\ e.pc = "ended" /\ e.outcome = "raised" /\ ~e.hits
      /\ e.keyword = search[s].keyword /\ e.vector = search[s].vector
  BY EndedFields
<1>2. Hybrid!Become(s, v)
  BY DEF Hybrid!Fail
<1> HIDE DEF e
<1>3. /\ v \in Hybrid!Search
      /\ v.pc = "ended" /\ v.outcome = "raised" /\ ~v.hits
      /\ v.keyword = search[s].keyword /\ v.vector = search[s].vector /\ v.unhandled
  BY <1>1 DEF Hybrid!Search
<1> HIDE DEF v
<1> QED BY <1>2, <1>3

\* What a search keeps that only changes a path.
Stays(v, w) ==
    v.pc = w.pc /\ v.hits = w.hits /\ v.kind = w.kind /\ v.outcome = w.outcome

LEMMA KeywordFields ==
    ASSUME NEW s \in Requests, search[s] \in Hybrid!Search, NEW p \in Hybrid!Path, Hybrid!KeywordBecomes(s, p)
    PROVE  \E v \in Hybrid!Search :
              /\ Hybrid!Become(s, v) /\ Stays(v, search[s])
              /\ v.keyword = p /\ v.vector = search[s].vector
              /\ v.unhandled = search[s].unhandled
<1> DEFINE v == [search[s] EXCEPT !.keyword = p]
<1>1. /\ v \in Hybrid!Search /\ Stays(v, search[s])
      /\ v.keyword = p /\ v.vector = search[s].vector /\ v.unhandled = search[s].unhandled
  BY DEF Hybrid!Search, Stays
<1>2. Hybrid!Become(s, v)
  BY DEF Hybrid!KeywordBecomes
<1> HIDE DEF v
<1> QED BY <1>1, <1>2

LEMMA VectorFields ==
    ASSUME NEW s \in Requests, search[s] \in Hybrid!Search, NEW p \in Hybrid!Path, Hybrid!VectorBecomes(s, p)
    PROVE  \E v \in Hybrid!Search :
              /\ Hybrid!Become(s, v) /\ Stays(v, search[s])
              /\ v.vector = p /\ v.keyword = search[s].keyword
              /\ v.unhandled = search[s].unhandled
<1> DEFINE v == [search[s] EXCEPT !.vector = p]
<1>1. /\ v \in Hybrid!Search /\ Stays(v, search[s])
      /\ v.vector = p /\ v.keyword = search[s].keyword /\ v.unhandled = search[s].unhandled
  BY DEF Hybrid!Search, Stays
<1>2. Hybrid!Become(s, v)
  BY DEF Hybrid!VectorBecomes
<1> HIDE DEF v
<1> QED BY <1>1, <1>2

\* A path that runs stops with what nobody catches.
LEMMA PathFails ==
    ASSUME Hybrid!SearchConstants, SearchInv, NEW s \in Requests,
           \/ Hybrid!KeywordFails(s) /\ Hybrid!Running(search[s].keyword)
           \/ Hybrid!VectorFails(s) /\ Hybrid!Running(search[s].vector)
              /\ search[s].vector.pc # "milvus",
           redis' = redis, permits' = permits, client' = client, circuit' = circuit
    PROVE  SearchInv'
<1>1. search[s] \in Hybrid!Search /\ SearchAt(search[s]) /\ circuit \in {"closed", "open"}
  BY DEF SearchInv, Hybrid!TypeOK
<1> DEFINE p == Hybrid!Done("raised")
<1>2. p \in Hybrid!Path /\ p.pc = "off" /\ p.found = "raised"
  BY DoneFields DEF Hybrid!Found
<1> HIDE DEF p
<1>3. CASE Hybrid!KeywordFails(s) /\ Hybrid!Running(search[s].keyword)
  <2> DEFINE v == [search[s] EXCEPT !.keyword = p, !.unhandled = TRUE]
  <2>1. /\ v \in Hybrid!Search /\ Stays(v, search[s])
        /\ v.keyword = p /\ v.vector = search[s].vector /\ v.unhandled
    BY <1>1, <1>2 DEF Hybrid!Search, Stays
  <2>2. Hybrid!Become(s, v)
    BY <1>3 DEF Hybrid!KeywordFails, p
  <2> HIDE DEF v
  <2>3. SearchAt(v)
    BY <1>1, <1>2, <1>3, <2>1 DEF SearchAt, Stays, HasRaised, Hybrid!Running
  <2> QED BY <1>1, <2>1, <2>2, <2>3, BecomesFreely DEF Stays
<1>4. CASE /\ Hybrid!VectorFails(s) /\ Hybrid!Running(search[s].vector)
           /\ search[s].vector.pc # "milvus"
  <2> DEFINE v == [search[s] EXCEPT !.vector = p, !.unhandled = TRUE]
  <2>1. /\ v \in Hybrid!Search /\ Stays(v, search[s])
        /\ v.vector = p /\ v.keyword = search[s].keyword /\ v.unhandled
    BY <1>1, <1>2 DEF Hybrid!Search, Stays
  <2>2. Hybrid!Become(s, v)
    BY <1>4 DEF Hybrid!VectorFails, p
  <2> HIDE DEF v
  <2>3. SearchAt(v)
    BY <1>1, <1>2, <1>4, <2>1 DEF SearchAt, Stays, HasRaised, Hybrid!Running
  <2> QED BY <1>1, <1>2, <1>4, <2>1, <2>2, <2>3, BecomesFreely DEF Stays
<1> QED BY <1>3, <1>4

\* A path that is handed on, or stops with what it was given: while Redis answers it
\* does not raise.
LEMMA KeywordStep ==
    ASSUME Hybrid!SearchConstants, SearchInv, NEW s \in Requests, NEW p \in Hybrid!Path, Hybrid!KeywordBecomes(s, p),
           Hybrid!Running(search[s].keyword), redis /\ p.found = "raised" => search[s].unhandled,
           redis' = redis, permits' = permits, client' = client, circuit' = circuit
    PROVE  SearchInv'
<1>1. search[s] \in Hybrid!Search /\ SearchAt(search[s]) /\ circuit \in {"closed", "open"}
  BY DEF SearchInv, Hybrid!TypeOK
<1>2. PICK v \in Hybrid!Search :
        /\ Hybrid!Become(s, v) /\ Stays(v, search[s])
        /\ v.keyword = p /\ v.vector = search[s].vector
        /\ v.unhandled = search[s].unhandled
  BY <1>1, KeywordFields
<1>3. SearchAt(v)
  BY <1>1, <1>2 DEF SearchAt, Stays, HasRaised
<1> QED BY <1>1, <1>2, <1>3, BecomesFreely DEF Stays

\* A vector path takes or gives back its permit with Milvus.
LEMMA VectorStep ==
    ASSUME Hybrid!SearchConstants, SearchInv, NEW s \in Requests, NEW p \in Hybrid!Path, Hybrid!VectorBecomes(s, p),
           Hybrid!Running(search[s].vector), redis /\ p.found = "raised" => search[s].unhandled,
           redis' = redis, client' \in {"available", "degraded"}, circuit' = circuit,
           NEW n \in Int, permits' = [permits EXCEPT !.vector = n],
           \/ n = permits.vector /\ (search[s].vector.pc = "milvus" <=> p.pc = "milvus")
           \/ n = permits.vector - 1 /\ permits.vector > 0
              /\ search[s].vector.pc # "milvus" /\ p.pc = "milvus"
           \/ n = permits.vector + 1 /\ search[s].vector.pc = "milvus" /\ p.pc # "milvus"
    PROVE  SearchInv'
<1>1. search[s] \in Hybrid!Search /\ SearchAt(search[s]) /\ circuit \in {"closed", "open"}
  BY DEF SearchInv, Hybrid!TypeOK
<1>2. PICK v \in Hybrid!Search :
        /\ Hybrid!Become(s, v) /\ Stays(v, search[s])
        /\ v.vector = p /\ v.keyword = search[s].keyword
        /\ v.unhandled = search[s].unhandled
  BY <1>1, VectorFields
<1>3. SearchAt(v)
  BY <1>1, <1>2 DEF SearchAt, Stays, HasRaised
<1>4. /\ permits' \in [vector : Int, remote : Int]
      /\ permits'.vector = n /\ permits'.remote = permits.remote
  BY DEF SearchInv, Hybrid!TypeOK
<1> QED BY <1>1, <1>2, <1>3, <1>4, Becomes DEF Stays

LEMMA StepKeyword ==
    ASSUME Hybrid!SearchConstants, SearchInv, NEW s \in Requests,
           Hybrid!SearchElasticsearch(s) \/ Hybrid!SearchDatabase(s) \/ Hybrid!KeywordTimeout(s)
    PROVE  SearchInv'
<1>1. search[s] \in Hybrid!Search /\ search[s].keyword \in Hybrid!Path /\ search[s].keyword.found \in Hybrid!Found
      /\ (redis /\ search[s].keyword.found = "raised" => search[s].unhandled)
  BY DEF SearchInv, Hybrid!TypeOK, Hybrid!Search, Hybrid!Path, SearchAt
<1>2. \A found \in Hybrid!Found : Hybrid!Done(found) \in Hybrid!Path /\ Hybrid!Done(found).found = found
  BY DoneFields
<1>3. CASE Hybrid!SearchElasticsearch(s)
  <2>1. PICK answer \in {"hits", "synthetic", "empty", "raised"} :
           Hybrid!KeywordBecomes(s, Hybrid!Elasticsearch(search[s].titles, answer))
    BY <1>3 DEF Hybrid!SearchElasticsearch
  <2> DEFINE p == Hybrid!Elasticsearch(search[s].titles, answer)
  <2>2. p \in Hybrid!Path /\ (redis => p.found # "raised")
    <3> DEFINE found == IF answer = "raised" THEN "empty" ELSE answer
    <3>1. found \in Hybrid!Found /\ found # "raised" /\ answer \in Hybrid!Found
      BY DEF Hybrid!Found
    <3>2. [pc |-> "database", found |-> found] \in Hybrid!Path
      BY <3>1 DEF Hybrid!Path
    <3>3. \/ ~redis /\ p = Hybrid!Done("raised")
          \/ answer # "raised" /\ p = Hybrid!Done(answer)
          \/ p = [pc |-> "database", found |-> found]
      BY DEF Hybrid!Elasticsearch
    <3> HIDE DEF p
    <3> QED BY <1>2, <3>1, <3>2, <3>3 DEF Hybrid!Found
  <2>3. Hybrid!KeywordBecomes(s, p)
    BY <2>1
  <2> HIDE DEF p
  <2> QED BY <1>3, <2>2, <2>3, KeywordStep DEF Hybrid!SearchElasticsearch, Hybrid!Running
<1>4. CASE Hybrid!SearchDatabase(s)
  <2>1. "hits" \in Hybrid!Found
    BY DEF Hybrid!Found
  <2>2. /\ Hybrid!Running(search[s].keyword)
        /\ redis' = redis /\ permits' = permits /\ client' = client /\ circuit' = circuit
    BY <1>4 DEF Hybrid!SearchDatabase, Hybrid!Running
  <2>3. CASE Hybrid!KeywordFails(s)
    BY <2>2, <2>3, PathFails
  <2>4. ASSUME NEW found \in Hybrid!Found, Hybrid!KeywordBecomes(s, Hybrid!Done(found)),
               redis /\ found = "raised" => search[s].unhandled
        PROVE  SearchInv'
    BY <1>2, <2>2, <2>4, KeywordStep
  <2> QED BY <1>1, <1>4, <2>1, <2>3, <2>4 DEF Hybrid!SearchDatabase
<1>5. CASE Hybrid!KeywordTimeout(s)
  <2>1. "empty" \in Hybrid!Found
    BY DEF Hybrid!Found
  <2> QED BY <1>2, <1>5, <2>1, KeywordStep DEF Hybrid!KeywordTimeout
<1> QED BY <1>3, <1>4, <1>5

LEMMA StepVector ==
    ASSUME Hybrid!SearchConstants, SearchInv, NEW s \in Requests,
           Hybrid!Embed(s) \/ Hybrid!AcquireVector(s) \/ Hybrid!SearchMilvus(s) \/ Hybrid!VectorTimeout(s)
    PROVE  SearchInv'
<1>1. search[s] \in Hybrid!Search /\ search[s].vector \in Hybrid!Path /\ search[s].vector.found \in Hybrid!Found
      /\ (redis /\ search[s].vector.found = "raised" => search[s].unhandled)
  BY DEF SearchInv, Hybrid!TypeOK, Hybrid!Search, Hybrid!Path, SearchAt
<1>2. \A found \in Hybrid!Found : Hybrid!Done(found) \in Hybrid!Path /\ Hybrid!Done(found).found = found /\ Hybrid!Done(found).pc = "off"
  BY DoneFields
<1>3. /\ permits \in [vector : Nat, remote : Nat] /\ permits.vector \in Int
      /\ client \in {"available", "degraded"}
  BY DEF SearchInv, Hybrid!TypeOK
<1>4. permits = [permits EXCEPT !.vector = permits.vector]
  BY <1>3
<1>5. \A pc \in {"acquire", "milvus"} :
         /\ [search[s].vector EXCEPT !.pc = pc] \in Hybrid!Path
         /\ [search[s].vector EXCEPT !.pc = pc].pc = pc
         /\ [search[s].vector EXCEPT !.pc = pc].found = search[s].vector.found
  BY <1>1 DEF Hybrid!Path
<1>6. CASE Hybrid!Embed(s) /\ ~Hybrid!VectorFails(s)
  <2>1. PICK p \in Hybrid!Path : Hybrid!VectorBecomes(s, p) /\ p.pc = "acquire" /\ p.found = search[s].vector.found
    BY <1>5, <1>6 DEF Hybrid!Embed
  <2>2. search[s].vector.pc = "embed" /\ redis' = redis /\ client' = client /\ circuit' = circuit
        /\ permits' = [permits EXCEPT !.vector = permits.vector]
    BY <1>4, <1>6 DEF Hybrid!Embed
  <2> QED BY <1>1, <1>3, <2>1, <2>2, VectorStep DEF Hybrid!Running
<1>7. CASE Hybrid!AcquireVector(s)
  <2>1. PICK p \in Hybrid!Path : Hybrid!VectorBecomes(s, p) /\ p.pc = "milvus" /\ p.found = search[s].vector.found
    BY <1>5, <1>7 DEF Hybrid!AcquireVector
  <2> DEFINE n == permits.vector - 1
  <2>2. /\ search[s].vector.pc = "acquire" /\ redis' = redis /\ client' = client /\ circuit' = circuit
        /\ permits.vector > 0 /\ permits' = [permits EXCEPT !.vector = n]
    BY <1>3, <1>7 DEF Hybrid!AcquireVector
  <2>3. n \in Int /\ n = permits.vector - 1
    BY <1>3
  <2> HIDE DEF n
  <2> QED BY <1>1, <1>3, <2>1, <2>2, <2>3, VectorStep DEF Hybrid!Running
<1>8. CASE Hybrid!SearchMilvus(s)
  <2>1. PICK answer \in {"hits", "synthetic", "empty", "raised"} :
          /\ client' = IF answer = "raised" THEN "degraded" ELSE client
          /\ Hybrid!VectorBecomes(s, Hybrid!Recorded(IF answer \in {"hits", "synthetic"} THEN answer ELSE "null"))
    BY <1>8 DEF Hybrid!SearchMilvus
  <2> DEFINE given == IF answer \in {"hits", "synthetic"} THEN answer ELSE "null"
             found == IF redis THEN given ELSE "raised"
  <2>2. found \in Hybrid!Found /\ (redis => found # "raised")
    BY DEF Hybrid!Found
  <2>3. Hybrid!VectorBecomes(s, Hybrid!Done(found))
    BY <2>1 DEF Hybrid!Recorded
  <2> HIDE DEF found
  <2> DEFINE n == permits.vector + 1
  <2>4. /\ search[s].vector.pc = "milvus" /\ redis' = redis /\ circuit' = circuit
        /\ client' \in {"available", "degraded"} /\ permits' = [permits EXCEPT !.vector = n]
    BY <1>3, <1>8, <2>1 DEF Hybrid!SearchMilvus
  <2>5. n \in Int /\ n = permits.vector + 1
    BY <1>3
  <2> HIDE DEF n
  <2>6. PICK p \in Hybrid!Path : Hybrid!VectorBecomes(s, p) /\ p.pc = "off" /\ p.found = found
    BY <1>2, <2>2, <2>3
  <2> QED BY <2>2, <2>4, <2>5, <2>6, VectorStep DEF Hybrid!Running
<1>9. CASE Hybrid!VectorTimeout(s)
  <2> DEFINE n == permits.vector + Hybrid!ReleasedBy(search[s].vector)
  <2>1. /\ redis' = redis /\ client' = client /\ circuit' = circuit /\ Hybrid!Running(search[s].vector)
        /\ permits' = [permits EXCEPT !.vector = n]
    BY <1>3, <1>9 DEF Hybrid!VectorTimeout
  <2>2. /\ n \in Int
        /\ search[s].vector.pc = "milvus" => n = permits.vector + 1
        /\ search[s].vector.pc # "milvus" => n = permits.vector
    BY <1>3 DEF Hybrid!ReleasedBy
  <2> HIDE DEF n
  <2>3. "empty" \in Hybrid!Found
    BY DEF Hybrid!Found
  <2>4. PICK p \in Hybrid!Path : Hybrid!VectorBecomes(s, p) /\ p.pc = "off" /\ p.found = "empty"
    BY <1>2, <1>9, <2>3 DEF Hybrid!VectorTimeout
  <2> QED BY <1>3, <2>1, <2>2, <2>4, VectorStep
<1>10. CASE Hybrid!Embed(s) /\ Hybrid!VectorFails(s)
  BY <1>10, PathFails DEF Hybrid!Embed, Hybrid!Running
<1> QED BY <1>6, <1>7, <1>8, <1>9, <1>10

\* A search that ends, and keeps no permit of the reranker.
LEMMA FinishStep ==
    ASSUME Hybrid!SearchConstants, SearchInv, NEW s \in Requests, NEW outcome \in {"hits", "empty", "raised"},
           Hybrid!Finish(s, outcome), search[s].pc # "remote",
           outcome \in {"hits", "empty"} =>
              /\ ~Hybrid!Running(search[s].keyword) /\ ~Hybrid!Running(search[s].vector)
              /\ ~search[s].unhandled,
           outcome = "empty" => "hits" \notin {search[s].keyword.found, search[s].vector.found},
           outcome = "raised" /\ redis =>
              \/ search[s].unhandled
              \/ ~Hybrid!Running(search[s].vector) /\ search[s].vector.found = "null",
           redis' = redis, permits' = permits, client' = client, circuit' = circuit
    PROVE  SearchInv'
<1>1. search[s] \in Hybrid!Search /\ SearchAt(search[s]) /\ circuit \in {"closed", "open"}
  BY DEF SearchInv, Hybrid!TypeOK
<1> DEFINE v == Hybrid!Ended(s, outcome)
<1>2. /\ v \in Hybrid!Search
      /\ v.pc = "ended" /\ v.outcome = outcome /\ ~v.hits
      /\ v.keyword = search[s].keyword /\ v.vector = search[s].vector
      /\ v.unhandled = search[s].unhandled
  BY <1>1, EndedFields
<1>3. Hybrid!Become(s, v)
  BY DEF Hybrid!Finish
<1> HIDE DEF v
<1>4. SearchAt(v)
  BY <1>1, <1>2 DEF SearchAt, HasRaised
<1> QED BY <1>1, <1>2, <1>3, <1>4, BecomesFreely

\* A search that is past its paths and fails of what nobody catches.
LEMMA FailStep ==
    ASSUME Hybrid!SearchConstants, SearchInv, NEW s \in Requests, Hybrid!Fail(s),
           search[s].pc \in {"graph", "remote"},
           redis' = redis, client' = client, circuit' = circuit,
           permits' = IF search[s].pc = "remote" THEN [permits EXCEPT !.remote = @ + 1] ELSE permits
    PROVE  SearchInv'
<1>1. /\ search[s] \in Hybrid!Search /\ SearchAt(search[s])
      /\ circuit \in {"closed", "open"} /\ client \in {"available", "degraded"}
      /\ permits \in [vector : Nat, remote : Nat]
  BY DEF SearchInv, Hybrid!TypeOK
<1>2. PICK v \in Hybrid!Search :
        /\ Hybrid!Become(s, v)
        /\ v.pc = "ended" /\ v.outcome = "raised" /\ ~v.hits
        /\ v.keyword = search[s].keyword /\ v.vector = search[s].vector /\ v.unhandled
  BY <1>1, FailFields
<1>3. SearchAt(v)
  BY <1>1, <1>2 DEF SearchAt
<1>4. /\ permits' \in [vector : Int, remote : Int] /\ permits'.vector = permits.vector
      /\ search[s].pc = "remote" => permits'.remote = permits.remote + 1
      /\ search[s].pc # "remote" => permits'.remote = permits.remote
  BY <1>1
<1> QED BY <1>1, <1>2, <1>3, <1>4, Becomes

LEMMA StepGather ==
    ASSUME Hybrid!SearchConstants, SearchInv, NEW s \in Requests, Hybrid!PathRaises(s) \/ Hybrid!Gather(s) \/ Hybrid!Traverse(s)
    PROVE  SearchInv'
<1>1. search[s] \in Hybrid!Search /\ SearchAt(search[s]) /\ circuit \in {"closed", "open"}
  BY DEF SearchInv, Hybrid!TypeOK
<1>2. CASE Hybrid!PathRaises(s)
  <2>1. redis => search[s].unhandled
    BY <1>1, <1>2 DEF Hybrid!PathRaises, SearchAt
  <2> QED BY <1>2, <2>1, FinishStep DEF Hybrid!PathRaises
<1>3. CASE Hybrid!Gather(s)
  <2>1. /\ search[s].pc = "gather"
        /\ ~Hybrid!Running(search[s].keyword) /\ ~Hybrid!Running(search[s].vector)
        /\ search[s].keyword.found # "raised" /\ search[s].vector.found # "raised"
        /\ redis' = redis /\ permits' = permits /\ client' = client /\ circuit' = circuit
    BY <1>3 DEF Hybrid!Gather
  <2>2. CASE search[s].vector.found = "null"
    BY <1>3, <2>1, <2>2, FinishStep DEF Hybrid!Gather
  <2>3. CASE search[s].vector.found # "null"
    <3> DEFINE hits == "hits" \in {search[s].keyword.found, search[s].vector.found}
    <3>1. PICK next \in {"graph", "rerank"} :
             /\ next = "graph" => search[s].kind = "hybrid"
             /\ Hybrid!Become(s, [search[s] EXCEPT !.pc = next, !.hits = hits])
      BY <1>3, <2>3 DEF Hybrid!Gather
    <3> DEFINE v == [search[s] EXCEPT !.pc = next, !.hits = hits]
    <3>2. hits \in BOOLEAN
      OBVIOUS
    <3>3. /\ v \in Hybrid!Search /\ v.pc = next /\ v.hits = hits
          /\ v.keyword = search[s].keyword /\ v.vector = search[s].vector
          /\ v.kind = search[s].kind /\ v.outcome = search[s].outcome
          /\ v.unhandled = search[s].unhandled
      BY <1>1, <3>2 DEF Hybrid!Search
    <3>4. Hybrid!Become(s, v)
      BY <3>1
    <3> HIDE DEF v
    <3>5. SearchAt(v)
      BY <1>1, <2>1, <3>1, <3>3 DEF SearchAt, HasRaised
    <3> QED BY <1>1, <2>1, <3>1, <3>3, <3>4, <3>5, BecomesFreely
  <2> QED BY <2>2, <2>3
<1>4. CASE Hybrid!Traverse(s) /\ Hybrid!Fail(s)
  BY <1>4, FailStep DEF Hybrid!Traverse
<1>5. CASE Hybrid!Traverse(s) /\ ~Hybrid!Fail(s)
  <2>1. PICK hits \in BOOLEAN :
          IF search[s].kind = "graph" THEN Hybrid!Finish(s, IF hits THEN "hits" ELSE "empty")
          ELSE IF ~redis THEN Hybrid!Finish(s, "raised")
          ELSE Hybrid!Become(s, [search[s] EXCEPT !.pc = "rerank", !.hits = @ \/ hits])
    BY <1>5 DEF Hybrid!Traverse
  <2>2. /\ search[s].pc = "graph"
        /\ redis' = redis /\ permits' = permits /\ client' = client /\ circuit' = circuit
    BY <1>5 DEF Hybrid!Traverse
  <2>3. ~Hybrid!Running(search[s].keyword) /\ ~Hybrid!Running(search[s].vector)
        /\ ~search[s].unhandled
    BY <1>1, <2>2 DEF SearchAt
  <2>4. CASE search[s].kind = "graph"
    <3>1. "hits" \notin {search[s].keyword.found, search[s].vector.found}
      BY <1>1, <2>2, <2>4 DEF SearchAt
    <3>2. PICK outcome \in {"hits", "empty"} : Hybrid!Finish(s, outcome)
      BY <2>1, <2>4
    <3> QED BY <2>2, <2>3, <3>1, <3>2, FinishStep
  <2>5. CASE search[s].kind # "graph" /\ ~redis
    BY <2>1, <2>2, <2>5, FinishStep
  <2>6. CASE search[s].kind # "graph" /\ redis
    <3> DEFINE any == search[s].hits \/ hits
               v == [search[s] EXCEPT !.pc = "rerank", !.hits = any]
    <3>1. any \in BOOLEAN
      BY <1>1 DEF Hybrid!Search
    <3>2. /\ v \in Hybrid!Search /\ v.pc = "rerank" /\ v.hits = any
          /\ v.keyword = search[s].keyword /\ v.vector = search[s].vector
          /\ v.kind = search[s].kind /\ v.outcome = search[s].outcome
          /\ v.unhandled = search[s].unhandled
      BY <1>1, <3>1 DEF Hybrid!Search
    <3>3. Hybrid!Become(s, v)
      BY <1>1, <2>1, <2>6 DEF Hybrid!Search
    <3>4. any <=> search[s].hits \/ hits
      OBVIOUS
    <3> HIDE DEF v, any
    <3>5. SearchAt(v)
      BY <1>1, <2>2, <2>3, <3>2, <3>4 DEF SearchAt
    <3> QED BY <1>1, <2>2, <3>2, <3>3, <3>5, BecomesFreely
  <2> QED BY <2>4, <2>5, <2>6
<1> QED BY <1>2, <1>3, <1>4, <1>5

LEMMA StepRerank ==
    ASSUME Hybrid!SearchConstants, SearchInv, NEW s \in Requests, Hybrid!Rerank(s)
    PROVE  SearchInv'
<1>1. search[s] \in Hybrid!Search /\ SearchAt(search[s]) /\ circuit \in {"closed", "open"}
  BY DEF SearchInv, Hybrid!TypeOK
<1>2. /\ search[s].pc = "rerank"
      /\ redis' = redis /\ permits' = permits /\ client' = client /\ circuit' = circuit
  BY DEF Hybrid!Rerank
<1>3. CASE search[s].hits /\ Hybrid!Become(s, [search[s] EXCEPT !.pc = "acquire"])
  <2> DEFINE v == [search[s] EXCEPT !.pc = "acquire"]
  <2>1. /\ v \in Hybrid!Search /\ v.pc = "acquire" /\ v.hits = search[s].hits
        /\ v.keyword = search[s].keyword /\ v.vector = search[s].vector
        /\ v.kind = search[s].kind /\ v.outcome = search[s].outcome
        /\ v.unhandled = search[s].unhandled
    BY <1>1 DEF Hybrid!Search
  <2>2. Hybrid!Become(s, v)
    BY <1>3
  <2> HIDE DEF v
  <2>3. SearchAt(v)
    BY <1>1, <1>2, <2>1 DEF SearchAt
  <2> QED BY <1>1, <1>2, <2>1, <2>2, <2>3, BecomesFreely
<1>4. CASE search[s].hits /\ Hybrid!Finish(s, "hits")
  BY <1>1, <1>2, <1>4, FinishStep DEF SearchAt
<1>5. CASE ~search[s].hits /\ Hybrid!Finish(s, "empty")
  BY <1>1, <1>2, <1>5, FinishStep DEF SearchAt
<1> QED BY <1>3, <1>4, <1>5 DEF Hybrid!Rerank

LEMMA StepAcquireRemote ==
    ASSUME Hybrid!SearchConstants, SearchInv, NEW s \in Requests, Hybrid!AcquireRemote(s)
    PROVE  SearchInv'
<1>1. /\ search[s] \in Hybrid!Search /\ SearchAt(search[s])
      /\ circuit \in {"closed", "open"} /\ client \in {"available", "degraded"}
      /\ permits \in [vector : Nat, remote : Nat]
  BY DEF SearchInv, Hybrid!TypeOK
<1>2. search[s].pc = "acquire" /\ redis' = redis /\ client' = client /\ circuit' = circuit
  BY DEF Hybrid!AcquireRemote
<1>3. CASE /\ permits.remote > 0
           /\ permits' = [permits EXCEPT !.remote = @ - 1]
           /\ Hybrid!Become(s, [search[s] EXCEPT !.pc = "remote"])
  <2> DEFINE v == [search[s] EXCEPT !.pc = "remote"]
  <2>1. /\ v \in Hybrid!Search /\ v.pc = "remote" /\ v.hits = search[s].hits
        /\ v.keyword = search[s].keyword /\ v.vector = search[s].vector
        /\ v.kind = search[s].kind /\ v.outcome = search[s].outcome
        /\ v.unhandled = search[s].unhandled
    BY <1>1 DEF Hybrid!Search
  <2>2. Hybrid!Become(s, v)
    BY <1>3
  <2> HIDE DEF v
  <2>3. SearchAt(v)
    BY <1>1, <1>2, <2>1 DEF SearchAt
  <2>4. /\ permits' \in [vector : Int, remote : Int]
        /\ permits'.vector = permits.vector /\ permits'.remote = permits.remote - 1
    BY <1>1, <1>3
  <2> QED BY <1>1, <1>2, <1>3, <2>1, <2>2, <2>3, <2>4, Becomes
<1>4. CASE Hybrid!Finish(s, Hybrid!Locally(s)) /\ permits' = permits
  <2>1. CASE search[s].hits
    BY <1>1, <1>2, <1>4, <2>1, FinishStep DEF Hybrid!Locally, SearchAt
  <2>2. CASE ~search[s].hits
    BY <1>1, <1>2, <1>4, <2>2, FinishStep DEF Hybrid!Locally, SearchAt
  <2> QED BY <2>1, <2>2
<1> QED BY <1>3, <1>4 DEF Hybrid!AcquireRemote

LEMMA StepRerankRemote ==
    ASSUME Hybrid!SearchConstants, SearchInv, NEW s \in Requests, Hybrid!RerankRemote(s)
    PROVE  SearchInv'
<1>1. /\ search[s] \in Hybrid!Search /\ SearchAt(search[s])
      /\ circuit \in {"closed", "open"} /\ client \in {"available", "degraded"}
      /\ permits \in [vector : Nat, remote : Nat]
  BY DEF SearchInv, Hybrid!TypeOK
<1>2. /\ search[s].pc = "remote" /\ redis' = redis /\ client' = client
      /\ circuit' \in {"closed", "open"}
  BY <1>1 DEF Hybrid!RerankRemote
<1>3. CASE Hybrid!Fail(s) /\ circuit' = circuit
  BY <1>2, <1>3, FailStep DEF Hybrid!RerankRemote
<1>4. ASSUME NEW outcome \in {"hits", "empty"}, Hybrid!Finish(s, outcome),
             outcome = "empty" => ~search[s].hits
      PROVE  SearchInv'
  <2> DEFINE v == Hybrid!Ended(s, outcome)
  <2>1. /\ v \in Hybrid!Search
        /\ v.pc = "ended" /\ v.outcome = outcome /\ ~v.hits
        /\ v.keyword = search[s].keyword /\ v.vector = search[s].vector
        /\ v.unhandled = search[s].unhandled
    BY <1>1, EndedFields
  <2>2. Hybrid!Become(s, v)
    BY <1>4 DEF Hybrid!Finish
  <2> HIDE DEF v
  <2>3. SearchAt(v)
    BY <1>1, <1>2, <1>4, <2>1 DEF SearchAt
  <2>4. /\ permits' \in [vector : Int, remote : Int]
        /\ permits'.vector = permits.vector /\ permits'.remote = permits.remote + 1
    BY <1>1 DEF Hybrid!RerankRemote
  <2> QED BY <1>1, <1>2, <2>1, <2>2, <2>3, <2>4, Becomes
<1> QED BY <1>3, <1>4 DEF Hybrid!RerankRemote, Hybrid!Locally

LEMMA NoSearchFields ==
    /\ Hybrid!NoSearch \in Hybrid!Search /\ SearchAt(Hybrid!NoSearch)
    /\ Hybrid!NoSearch.pc = "idle" /\ Hybrid!NoSearch.vector.pc = "off"
  BY DEF Hybrid!NoSearch, Hybrid!NoPath, Hybrid!Search, Hybrid!Kind, Hybrid!Path,
     Hybrid!Found, SearchAt, HasRaised, Hybrid!Running

LEMMA StepBegin ==
    ASSUME Hybrid!SearchConstants, SearchInv, NEW s \in Requests, Hybrid!BeginSearch(s)
    PROVE  SearchInv'
<1>1. search[s] \in Hybrid!Search /\ SearchAt(search[s]) /\ circuit \in {"closed", "open"}
  BY DEF SearchInv, Hybrid!TypeOK
<1>2. /\ search[s].pc = "idle" /\ search[s].vector.pc # "milvus"
      /\ redis' = redis /\ permits' = permits /\ client' = client /\ circuit' = circuit
  BY <1>1 DEF Hybrid!BeginSearch, SearchAt, Hybrid!Running
<1>3. PICK k \in Hybrid!Kind, titles \in BOOLEAN :
        Hybrid!Become(s, [Hybrid!NoSearch EXCEPT
             !.pc = IF k = "graph" THEN "graph" ELSE "gather",
             !.kind = k,
             !.titles = titles,
             !.keyword = IF k \in {"hybrid", "keyword"} THEN [@ EXCEPT !.pc = "es"] ELSE @,
             !.vector = IF k = "vector" \/ (k = "hybrid" /\ VectorEnabled)
                        THEN [@ EXCEPT !.pc = "embed"] ELSE @])
  BY DEF Hybrid!BeginSearch
<1> DEFINE pc == IF k = "graph" THEN "graph" ELSE "gather"
           keyword == IF k \in {"hybrid", "keyword"}
                      THEN [Hybrid!NoSearch.keyword EXCEPT !.pc = "es"] ELSE Hybrid!NoSearch.keyword
           vector == IF k = "vector" \/ (k = "hybrid" /\ VectorEnabled)
                     THEN [Hybrid!NoSearch.vector EXCEPT !.pc = "embed"] ELSE Hybrid!NoSearch.vector
           v == [Hybrid!NoSearch EXCEPT !.pc = pc, !.kind = k, !.titles = titles,
                                        !.keyword = keyword, !.vector = vector]
<1>4. /\ keyword \in Hybrid!Path /\ keyword.found = "empty"
      /\ k = "graph" => keyword.pc = "off"
  BY DEF Hybrid!NoSearch, Hybrid!NoPath, Hybrid!Path, Hybrid!Found
<1>5. /\ vector \in Hybrid!Path /\ vector.found = "empty" /\ vector.pc # "milvus"
      /\ k = "graph" => vector.pc = "off"
  BY DEF Hybrid!NoSearch, Hybrid!NoPath, Hybrid!Path, Hybrid!Found
<1>6. Hybrid!Become(s, v)
  BY <1>3
<1>7. pc \in {"gather", "graph"} /\ (pc = "graph" <=> k = "graph")
  OBVIOUS
<1> HIDE DEF pc, keyword, vector
<1>8. /\ v \in Hybrid!Search /\ v.pc = pc /\ v.kind = k /\ ~v.hits /\ v.outcome = "none"
      /\ v.keyword = keyword /\ v.vector = vector /\ ~v.unhandled
  BY <1>4, <1>5, <1>7 DEF Hybrid!NoSearch, Hybrid!Search
<1> HIDE DEF v
<1>9. SearchAt(v)
  BY <1>4, <1>5, <1>7, <1>8 DEF SearchAt, Hybrid!Running
<1> QED BY <1>1, <1>2, <1>5, <1>6, <1>7, <1>8, <1>9, BecomesFreely

LEMMA StepCancel ==
    ASSUME Hybrid!SearchConstants, SearchInv, NEW s \in Requests, Hybrid!Cancel(s)
    PROVE  SearchInv'
<1>1. /\ circuit \in {"closed", "open"} /\ client \in {"available", "degraded"}
      /\ permits \in [vector : Nat, remote : Nat]
  BY DEF SearchInv, Hybrid!TypeOK
<1>2. /\ Hybrid!Become(s, Hybrid!NoSearch)
      /\ redis' = redis /\ client' = client /\ circuit' = circuit
  BY DEF Hybrid!Cancel
<1>3. /\ permits' \in [vector : Int, remote : Int]
      /\ permits'.vector = permits.vector + Hybrid!ReleasedBy(search[s].vector)
      /\ permits'.remote = permits.remote + (IF search[s].pc = "remote" THEN 1 ELSE 0)
  BY <1>1 DEF Hybrid!Cancel, Hybrid!ReleasedBy
<1>4. /\ search[s].vector.pc = "milvus" => permits'.vector = permits.vector + 1
      /\ search[s].vector.pc # "milvus" => permits'.vector = permits.vector
      /\ search[s].pc = "remote" => permits'.remote = permits.remote + 1
      /\ search[s].pc # "remote" => permits'.remote = permits.remote
  BY <1>1, <1>3 DEF Hybrid!ReleasedBy
<1> QED BY <1>1, <1>2, <1>3, <1>4, NoSearchFields, Becomes

LEMMA SearchUnchanged ==
    ASSUME SearchInv, redis' = redis, search' = search, permits' = permits,
           client' \in {"available", "degraded"}, circuit' \in {"closed", "open"}
    PROVE  SearchInv'
<1>1. Hybrid!TypeOK'
  BY DEF SearchInv, Hybrid!TypeOK
<1>2. InMilvus' = InMilvus /\ InRemote' = InRemote
  BY DEF InMilvus, InRemote
<1>3. HoldersCounted'
  BY <1>2 DEF SearchInv, HoldersCounted
<1>4. \A s \in Requests : SearchAt(search[s])'
  BY DEF SearchInv, SearchAt, HasRaised, Hybrid!Running
<1> QED BY <1>1, <1>3, <1>4 DEF SearchInv

LEMMA SearchStart ==
    ASSUME Hybrid!SearchConstants, Hybrid!Init
    PROVE  SearchInv
<1>1. \A s \in Requests : search[s] = Hybrid!NoSearch
  BY DEF Hybrid!Init
<1>2. VectorPermits \in Nat /\ RemotePermits \in Nat
  BY DEF Hybrid!SearchConstants
<1>3. Hybrid!TypeOK
  BY <1>2, NoSearchFields DEF Hybrid!Init, Hybrid!TypeOK
<1>4. InMilvus = {} /\ InRemote = {}
  BY <1>1, NoSearchFields DEF InMilvus, InRemote
<1>5. HoldersCounted
  BY <1>2, <1>4, FS_EmptySet DEF Hybrid!Init, HoldersCounted
<1>6. \A s \in Requests : SearchAt(search[s])
  BY <1>1, NoSearchFields
<1> QED BY <1>3, <1>5, <1>6 DEF SearchInv

LEMMA SearchMoves ==
    ASSUME Hybrid!SearchConstants, SearchInv, [Hybrid!Next]_Hybrid!vars
    PROVE  SearchInv'
<1>1. ASSUME NEW s \in Requests, Hybrid!Step(s)
      PROVE  SearchInv'
  BY <1>1, StepBegin, StepKeyword, StepVector, StepGather, StepRerank, StepAcquireRemote,
     StepRerankRemote, StepCancel DEF Hybrid!Step
<1>2. CASE Hybrid!Recover
  BY <1>2, SearchUnchanged DEF Hybrid!Recover
<1>3. CASE UNCHANGED Hybrid!vars
  BY <1>3, SearchUnchanged DEF Hybrid!vars, SearchInv, Hybrid!TypeOK
<1> QED BY <1>1, <1>2, <1>3 DEF Hybrid!Next

----------------------------------------------------------------------------
\* MaintenanceJob

----------------------------------------------------------------------------
\* The inductive invariant

\* Celery's side: the message, the executions and the result.
Delivered ==
    /\ jobRequest = "idle" => message = "none"
    /\ message \in {"none", "queued"} => \A e \in Job!Executions : execution[e].pc = "idle"
    /\ message = "gone" => result # "none"
    /\ poll.pc = "heal" => result # "none"
    /\ \A e \in Job!Executions : execution[e].pc = "return" => execution[e].outcome # "none"

\* One execution, whose result ends it.
ExecutedOnce ==
    /\ \A e, f \in Job!Executions : execution[e].pc # "idle" /\ execution[f].pc # "idle" => e = f
    /\ message = "gone" => \A e \in Job!Executions : ~Job!Alive(e)
    /\ message # "gone" => result = "none"

\* What the record may say while an execution is about to return.
RecordFollows(w) ==
    /\ w.pc = "work" => record.status \notin Job!Terminal
    /\ w.pc = "audit" \/ (w.pc = "return" /\ w.outcome = "ok") => record.status # "failed"
    /\ w.pc = "audit_failure" \/ (w.pc = "return" /\ w.outcome # "ok") =>
          record.status # "completed"

RecordAgrees ==
    message = "gone" => record.status # (IF result = "ok" THEN "failed" ELSE "completed")

Undisturbed ==
    /\ ExecutedOnce
    /\ \A e \in Job!Executions : RecordFollows(execution[e])
    /\ RecordAgrees

\* A late poll finds an end that nothing undoes.
LatePollSettles ==
    /\ poll.pc # "idle" /\ poll.late =>
          Job!Over /\ (poll.status \in Job!Terminal => record.status \in Job!Terminal)
    /\ settled => Job!Over /\ record.status \in Job!Terminal

JobInv ==
    /\ Job!TypeOK
    /\ Delivered
    /\ ~disturbed => Undisturbed
    /\ LatePollSettles

LEMMA OutcomeSafe == JobInv => Job!TypeOK /\ Job!OutcomeIsShown
  BY DEF JobInv, Job!TypeOK, Undisturbed, RecordAgrees, LatePollSettles,
     Job!OutcomeIsShown, Job!Over,
     Job!Terminal

LEMMA SaysFields ==
    ASSUME NEW status \in Job!Status
    PROVE  /\ Job!Says(status) \in [status : Job!Status, old : BOOLEAN]
           /\ Job!Says(status).status = status
  BY DEF Job!Says

LEMMA BecomeFields ==
    ASSUME Job!TypeOK, NEW e \in Job!Executions, NEW pc, NEW outcome \in Job!Outcome,
           pc \in {"work", "audit", "failed", "audit_failure", "return", "ended"},
           Job!Become(e, pc, outcome)
    PROVE  /\ execution' \in [Job!Executions -> Job!Worker]
           /\ execution'[e].pc = pc /\ execution'[e].outcome = outcome
           /\ \A f \in Job!Executions : f # e => execution'[f] = execution[f]
  BY DEF Job!TypeOK, Job!Become, Job!Worker

\* An upsert is the status, or a disturbance.
LEMMA UpsertFields ==
    ASSUME Job!TypeOK, NEW status \in Job!Status, Job!Upsert(status)
    PROVE  /\ record' \in [status : Job!Status, old : BOOLEAN]
           /\ disturbed' \in BOOLEAN /\ (disturbed => disturbed')
           /\ ~disturbed' => record'.status = status
  BY SaysFields DEF Job!TypeOK, Job!Upsert

----------------------------------------------------------------------------
\* Steps

LEMMA JobStart ==
    ASSUME Job!Init
    PROVE  JobInv
<1>1. Job!TypeOK
  BY DEF Job!Init, Job!TypeOK, Job!Worker, Job!Outcome, Job!Status
<1>2. /\ \A e \in Job!Executions : execution[e].pc = "idle"
      /\ result = "none" /\ message = "none" /\ poll.pc = "idle" /\ ~settled
      /\ record.status = "absent"
  BY DEF Job!Init
<1>3. Delivered /\ LatePollSettles
  BY <1>2 DEF Delivered, LatePollSettles
<1>4. Undisturbed
  BY <1>2 DEF Undisturbed, ExecutedOnce, RecordFollows, RecordAgrees
<1> QED BY <1>1, <1>3, <1>4 DEF JobInv

LEMMA StepRequest ==
    ASSUME JobInv, Job!Publish \/ Job!Seed
    PROVE  JobInv'
<1>1. Job!TypeOK /\ Delivered /\ LatePollSettles /\ (~disturbed => Undisturbed)
  BY DEF JobInv
<1>2. CASE Job!Publish
  <2>1. /\ jobRequest = "idle" /\ message' = "queued" /\ jobRequest' = "published"
        /\ kind' = kind /\ execution' = execution /\ record' = record /\ result' = result
        /\ poll' = poll /\ sweep' = sweep /\ settled' = settled /\ disturbed' = disturbed
    BY <1>2 DEF Job!Publish
  <2>2. ~settled /\ ~(poll.pc # "idle" /\ poll.late)
    BY <1>1, <2>1 DEF LatePollSettles, Job!Over
  <2>3. Job!TypeOK'
    BY <1>1, <2>1 DEF Job!TypeOK
  <2>4. message = "none"
    BY <1>1, <2>1 DEF Delivered
  <2>5. Delivered' /\ LatePollSettles'
    BY <1>1, <2>1, <2>2, <2>4 DEF Delivered, LatePollSettles
  <2>6. ~disturbed' => Undisturbed'
    BY <1>1, <2>1, <2>4 DEF Undisturbed, ExecutedOnce, RecordFollows, RecordAgrees
  <2> QED BY <2>3, <2>5, <2>6 DEF JobInv
<1>3. CASE Job!Seed
  <2>1. /\ jobRequest = "published" /\ message' = message /\ jobRequest' = "ended"
        /\ kind' = kind /\ execution' = execution /\ result' = result
        /\ poll' = poll /\ sweep' = sweep /\ settled' = settled /\ disturbed' = disturbed
        /\ record' \in {record, Job!Says("pending")}
    BY <1>3 DEF Job!Seed
  <2>2. ~settled /\ ~(poll.pc # "idle" /\ poll.late)
    BY <1>1, <2>1 DEF LatePollSettles, Job!Over
  <2>3. "pending" \in Job!Status
    BY DEF Job!Status
  <2>4. /\ record' \in [status : Job!Status, old : BOOLEAN]
        /\ record'.status \in {record.status, "pending"}
    BY <1>1, <2>1, <2>3, SaysFields DEF Job!TypeOK
  <2>5. Job!TypeOK'
    BY <1>1, <2>1, <2>4 DEF Job!TypeOK
  <2>6. Delivered' /\ LatePollSettles'
    BY <1>1, <2>1, <2>2 DEF Delivered, LatePollSettles
  <2>7. ~disturbed' => Undisturbed'
    BY <1>1, <2>1, <2>4 DEF Undisturbed, ExecutedOnce, RecordFollows, RecordAgrees,
       Job!Alive,
       Job!Terminal
  <2> QED BY <2>5, <2>6, <2>7 DEF JobInv
<1> QED BY <1>2, <1>3

LEMMA StepTake ==
    ASSUME JobInv, NEW e \in Job!Executions, Job!Take(e)
    PROVE  JobInv'
<1>1. Job!TypeOK /\ Delivered /\ LatePollSettles /\ (~disturbed => Undisturbed)
  BY DEF JobInv
<1>2. /\ message \in {"queued", "taken"} /\ execution[e].pc = "idle" /\ message' = "taken"
      /\ Job!Become(e, "work", "none")
      /\ kind' = kind /\ jobRequest' = jobRequest /\ result' = result
      /\ poll' = poll /\ sweep' = sweep /\ settled' = settled
  BY DEF Job!Take
<1>3. "none" \in Job!Outcome /\ "running" \in Job!Status /\ "running" \notin Job!Terminal
  BY DEF Job!Outcome, Job!Status, Job!Terminal
<1>4. /\ execution' \in [Job!Executions -> Job!Worker] /\ execution'[e].pc = "work"
      /\ \A f \in Job!Executions : f # e => execution'[f] = execution[f]
  BY <1>1, <1>2, <1>3, BecomeFields
<1>5. /\ record' \in [status : Job!Status, old : BOOLEAN]
      /\ disturbed' \in BOOLEAN /\ (disturbed => disturbed')
      /\ ~disturbed' => message = "queued" /\ record'.status = "running"
  <2>1. record \in [status : Job!Status, old : BOOLEAN] /\ disturbed \in BOOLEAN
    BY <1>1 DEF Job!TypeOK
  <2>2. CASE record' = Job!Says("running") /\ disturbed' = (disturbed \/ message = "taken")
    BY <1>2, <1>3, <2>1, <2>2, SaysFields
  <2>3. CASE record' = record /\ disturbed' = TRUE
    BY <2>1, <2>3
  <2> QED BY <2>2, <2>3 DEF Job!Take
<1>6. ~settled /\ ~(poll.pc # "idle" /\ poll.late)
  BY <1>1, <1>2 DEF LatePollSettles, Job!Over
<1>7. Job!TypeOK'
  BY <1>1, <1>2, <1>4, <1>5 DEF Job!TypeOK
<1>8. Delivered' /\ LatePollSettles'
  BY <1>1, <1>2, <1>4, <1>6 DEF Delivered, LatePollSettles
<1>9. ASSUME ~disturbed' PROVE Undisturbed'
  <2>1. /\ \A f \in Job!Executions : f # e => execution'[f].pc = "idle"
        /\ record'.status = "running" /\ ~disturbed
    BY <1>1, <1>4, <1>5, <1>9 DEF Delivered
  <2> QED BY <1>1, <1>2, <1>3, <1>4, <2>1 DEF Undisturbed, ExecutedOnce, RecordFollows,
     RecordAgrees
<1> QED BY <1>7, <1>8, <1>9 DEF JobInv

\* An execution that goes on has a record that follows it.
LEMMA Works ==
    ASSUME JobInv, NEW e \in Job!Executions, Job!Alive(e),
           execution' \in [Job!Executions -> Job!Worker],
           \A f \in Job!Executions : f # e => execution'[f] = execution[f],
           execution'[e].pc \notin {"idle", "ended"},
           execution'[e].pc = "return" => execution'[e].outcome # "none",
           record' \in [status : Job!Status, old : BOOLEAN],
           disturbed' \in BOOLEAN, disturbed => disturbed',
           ~disturbed' => RecordFollows(execution[e])',
           kind' = kind, jobRequest' = jobRequest, message' = message, result' = result, poll' = poll,
           sweep' = sweep, settled' = settled
    PROVE  JobInv'
<1>1. Job!TypeOK /\ Delivered /\ LatePollSettles /\ (~disturbed => Undisturbed)
  BY DEF JobInv
<1>2. ~settled /\ ~(poll.pc # "idle" /\ poll.late)
  BY <1>1 DEF LatePollSettles, Job!Over
<1>3. execution[e].pc \notin {"idle", "ended"}
  BY DEF Job!Alive
<1>4. Job!TypeOK'
  BY <1>1 DEF Job!TypeOK
<1>5. Delivered' /\ LatePollSettles'
  BY <1>1, <1>2, <1>3 DEF Delivered, LatePollSettles
<1>6. ASSUME ~disturbed' PROVE Undisturbed'
  <2>1. Undisturbed /\ ~disturbed
    BY <1>1, <1>6
  <2>2. \A f \in Job!Executions : f # e => execution'[f].pc = "idle"
    BY <1>3, <2>1 DEF Undisturbed, ExecutedOnce
  <2>3. message # "gone" /\ result = "none"
    BY <2>1 DEF Undisturbed, ExecutedOnce
  <2>4. ExecutedOnce'
    BY <2>2, <2>3 DEF ExecutedOnce
  <2>5. \A f \in Job!Executions : RecordFollows(execution[f])'
    BY <1>6, <2>2 DEF RecordFollows
  <2> QED BY <2>3, <2>4, <2>5 DEF Undisturbed, RecordAgrees
<1> QED BY <1>4, <1>5, <1>6 DEF JobInv

LEMMA StepWork ==
    ASSUME JobInv, NEW e \in Job!Executions,
           \/ Job!Progress(e) \/ Job!Complete(e) \/ Job!WorkFails(e) \/ Job!Audit(e) \/ Job!RecordFailure(e)
           \/ Job!AuditFailure(e)
    PROVE  JobInv'
<1>1. Job!TypeOK /\ (~disturbed => RecordFollows(execution[e]))
  BY DEF JobInv, Undisturbed
<1>2. /\ execution \in [Job!Executions -> Job!Worker] /\ record \in [status : Job!Status, old : BOOLEAN]
      /\ disturbed \in BOOLEAN
      /\ {"none", "ok", "failed", "raised"} \subseteq Job!Outcome
      /\ {"running", "completed", "failed"} \subseteq Job!Status
  BY <1>1 DEF Job!TypeOK, Job!Outcome, Job!Status, Job!Terminal
<1>3. CASE Job!Progress(e)
  <2>1. /\ execution[e].pc = "work" /\ execution' = execution /\ Job!Upsert("running")
        /\ kind' = kind /\ jobRequest' = jobRequest /\ message' = message /\ result' = result
        /\ poll' = poll /\ sweep' = sweep /\ settled' = settled
    BY <1>3 DEF Job!Progress
  <2>2. /\ record' \in [status : Job!Status, old : BOOLEAN]
        /\ disturbed' \in BOOLEAN /\ (disturbed => disturbed')
        /\ ~disturbed' => record'.status = "running"
    BY <1>1, <1>2, <2>1, UpsertFields
  <2>3. ~disturbed' => RecordFollows(execution[e])'
    BY <2>1, <2>2 DEF RecordFollows, Job!Terminal
  <2> QED BY <1>2, <2>1, <2>2, <2>3, Works DEF Job!Alive
<1>4. CASE Job!Complete(e)
  <2>1. /\ execution[e].pc = "work" /\ Job!Upsert("completed")
        /\ Job!Become(e, "audit", "none") \/ Job!Become(e, "return", "ok")
        /\ kind' = kind /\ jobRequest' = jobRequest /\ message' = message /\ result' = result
        /\ poll' = poll /\ sweep' = sweep /\ settled' = settled
    BY <1>4 DEF Job!Complete
  <2>2. /\ record' \in [status : Job!Status, old : BOOLEAN]
        /\ disturbed' \in BOOLEAN /\ (disturbed => disturbed')
        /\ ~disturbed' => record'.status = "completed"
    BY <1>1, <1>2, <2>1, UpsertFields
  <2>3. /\ execution' \in [Job!Executions -> Job!Worker]
        /\ \A f \in Job!Executions : f # e => execution'[f] = execution[f]
        /\ execution'[e].pc = "audit" \/ (execution'[e].pc = "return" /\ execution'[e].outcome = "ok")
    BY <1>1, <1>2, <2>1, BecomeFields
  <2>4. ~disturbed' => RecordFollows(execution[e])'
    BY <2>2, <2>3 DEF RecordFollows
  <2> QED BY <2>1, <2>2, <2>3, <2>4, Works DEF Job!Alive
<1>5. CASE Job!WorkFails(e)
  <2>1. /\ execution[e].pc = "work" /\ Job!Become(e, "failed", "none")
        /\ record' = record /\ disturbed' = disturbed
        /\ kind' = kind /\ jobRequest' = jobRequest /\ message' = message /\ result' = result
        /\ poll' = poll /\ sweep' = sweep /\ settled' = settled
    BY <1>5 DEF Job!WorkFails
  <2>2. /\ execution' \in [Job!Executions -> Job!Worker]
        /\ \A f \in Job!Executions : f # e => execution'[f] = execution[f]
        /\ execution'[e].pc = "failed"
    BY <1>1, <1>2, <2>1, BecomeFields
  <2>3. RecordFollows(execution[e])'
    BY <2>2 DEF RecordFollows
  <2> QED BY <1>2, <2>1, <2>2, <2>3, Works DEF Job!Alive
<1>6. CASE Job!Audit(e)
  <2>1. /\ execution[e].pc = "audit" /\ (Job!Become(e, "return", "ok") \/ Job!Become(e, "failed", "none"))
        /\ record' = record /\ disturbed' = disturbed
        /\ kind' = kind /\ jobRequest' = jobRequest /\ message' = message /\ result' = result
        /\ poll' = poll /\ sweep' = sweep /\ settled' = settled
    BY <1>6 DEF Job!Audit
  <2>2. /\ execution' \in [Job!Executions -> Job!Worker]
        /\ \A f \in Job!Executions : f # e => execution'[f] = execution[f]
        /\ execution'[e].pc = "failed" \/ (execution'[e].pc = "return" /\ execution'[e].outcome = "ok")
    BY <1>1, <1>2, <2>1, BecomeFields
  <2>3. ~disturbed => record.status # "failed"
    BY <1>1, <2>1 DEF RecordFollows
  <2>4. ~disturbed' => RecordFollows(execution[e])'
    BY <2>1, <2>2, <2>3 DEF RecordFollows
  <2> QED BY <1>2, <2>1, <2>2, <2>4, Works DEF Job!Alive
<1>7. CASE Job!RecordFailure(e)
  <2>1. /\ execution[e].pc = "failed" /\ Job!Upsert("failed")
        /\ Job!Become(e, "audit_failure", "none") \/ Job!Become(e, "return", "failed")
        /\ kind' = kind /\ jobRequest' = jobRequest /\ message' = message /\ result' = result
        /\ poll' = poll /\ sweep' = sweep /\ settled' = settled
    BY <1>7 DEF Job!RecordFailure
  <2>2. /\ record' \in [status : Job!Status, old : BOOLEAN]
        /\ disturbed' \in BOOLEAN /\ (disturbed => disturbed')
        /\ ~disturbed' => record'.status = "failed"
    BY <1>1, <1>2, <2>1, UpsertFields
  <2>3. /\ execution' \in [Job!Executions -> Job!Worker]
        /\ \A f \in Job!Executions : f # e => execution'[f] = execution[f]
        /\ \/ execution'[e].pc = "audit_failure"
           \/ execution'[e].pc = "return" /\ execution'[e].outcome = "failed"
    BY <1>1, <1>2, <2>1, BecomeFields
  <2>4. ~disturbed' => RecordFollows(execution[e])'
    BY <2>2, <2>3 DEF RecordFollows
  <2> QED BY <2>1, <2>2, <2>3, <2>4, Works DEF Job!Alive
<1>8. CASE Job!AuditFailure(e)
  <2>1. /\ execution[e].pc = "audit_failure"
        /\ Job!Become(e, "return", "failed") \/ Job!Become(e, "return", "raised")
        /\ record' = record /\ disturbed' = disturbed
        /\ kind' = kind /\ jobRequest' = jobRequest /\ message' = message /\ result' = result
        /\ poll' = poll /\ sweep' = sweep /\ settled' = settled
    BY <1>8 DEF Job!AuditFailure
  <2>2. /\ execution' \in [Job!Executions -> Job!Worker]
        /\ \A f \in Job!Executions : f # e => execution'[f] = execution[f]
        /\ execution'[e].pc = "return" /\ execution'[e].outcome \in {"failed", "raised"}
    BY <1>1, <1>2, <2>1, BecomeFields
  <2>3. ~disturbed => record.status # "completed"
    BY <1>1, <2>1 DEF RecordFollows
  <2>4. ~disturbed' => RecordFollows(execution[e])'
    BY <2>1, <2>2, <2>3 DEF RecordFollows
  <2> QED BY <1>2, <2>1, <2>2, <2>4, Works DEF Job!Alive
<1> QED BY <1>3, <1>4, <1>5, <1>6, <1>7, <1>8

\* A result ends the message.
LEMMA StepEnd ==
    ASSUME JobInv, NEW e \in Job!Executions, Job!Return(e) \/ Job!Kill(e)
    PROVE  JobInv'
<1>1. Job!TypeOK /\ Delivered /\ LatePollSettles /\ (~disturbed => Undisturbed)
  BY DEF JobInv
<1>2. /\ message' = "gone" /\ execution[e].pc \notin {"idle", "ended"}
      /\ kind' = kind /\ jobRequest' = jobRequest /\ record' = record /\ poll' = poll
      /\ sweep' = sweep /\ settled' = settled
  BY DEF Job!Return, Job!Kill
<1>3. /\ result' \in Job!Outcome \ {"none"} /\ Job!Become(e, "ended", result')
      /\ disturbed' \in BOOLEAN /\ (disturbed => disturbed')
      /\ ~disturbed' => record.status # (IF result' = "ok" THEN "failed" ELSE "completed")
  <2>1. CASE Job!Return(e)
    <3>1. execution[e].outcome # "none" /\ execution[e].outcome \in Job!Outcome
      BY <1>1, <2>1 DEF Delivered, Job!Return, Job!TypeOK, Job!Worker
    <3>2. /\ result' = execution[e].outcome /\ execution[e].pc = "return"
          /\ disturbed' = disturbed /\ Job!Become(e, "ended", result')
      BY <2>1 DEF Job!Return
    <3>3. ~disturbed => record.status # (IF result' = "ok" THEN "failed" ELSE "completed")
      BY <1>1, <3>2 DEF Undisturbed, RecordFollows
    <3> QED BY <1>1, <3>1, <3>2, <3>3 DEF Job!TypeOK
  <2>2. CASE Job!Kill(e)
    BY <1>1, <2>2 DEF Job!Kill, Job!TypeOK, Job!Outcome
  <2> QED BY <2>1, <2>2
<1>4. /\ execution' \in [Job!Executions -> Job!Worker] /\ execution'[e].pc = "ended"
      /\ \A f \in Job!Executions : f # e => execution'[f] = execution[f]
  BY <1>1, <1>3, BecomeFields
<1>5. ~settled /\ ~(poll.pc # "idle" /\ poll.late)
  BY <1>1, <1>2 DEF LatePollSettles, Job!Over, Job!Alive
<1>6. Job!TypeOK'
  BY <1>1, <1>2, <1>3, <1>4 DEF Job!TypeOK
<1>7. jobRequest # "idle"
  <2>1. message # "none"
    BY <1>1, <1>2 DEF Delivered
  <2> QED BY <1>1, <2>1 DEF Delivered
<1>8. Delivered' /\ LatePollSettles'
  BY <1>1, <1>2, <1>3, <1>4, <1>5, <1>7 DEF Delivered, LatePollSettles
<1>9. ASSUME ~disturbed' PROVE Undisturbed'
  <2>1. Undisturbed /\ ~disturbed
    BY <1>1, <1>3, <1>9
  <2>2. \A f \in Job!Executions : f # e => execution'[f].pc = "idle"
    BY <1>2, <1>4, <2>1 DEF Undisturbed, ExecutedOnce
  <2>3. ExecutedOnce'
    BY <1>2, <1>4, <2>2 DEF ExecutedOnce, Job!Alive
  <2>4. \A f \in Job!Executions : RecordFollows(execution[f])'
    BY <1>4, <2>2 DEF RecordFollows
  <2> QED BY <1>2, <1>3, <1>9, <2>3, <2>4 DEF Undisturbed, RecordAgrees
<1> QED BY <1>6, <1>8, <1>9 DEF JobInv

LEMMA StepLose ==
    ASSUME JobInv, NEW e \in Job!Executions, Job!Lose(e)
    PROVE  JobInv'
<1>1. Job!TypeOK /\ Delivered /\ LatePollSettles /\ (~disturbed => Undisturbed)
  BY DEF JobInv
<1>2. /\ execution[e].pc \notin {"idle", "ended"} /\ Job!Become(e, "ended", "none")
      /\ message' = message /\ result' = result /\ disturbed' = disturbed
      /\ kind' = kind /\ jobRequest' = jobRequest /\ record' = record /\ poll' = poll
      /\ sweep' = sweep /\ settled' = settled
  BY DEF Job!Lose, Job!Alive
<1>3. "none" \in Job!Outcome
  BY DEF Job!Outcome
<1>4. /\ execution' \in [Job!Executions -> Job!Worker] /\ execution'[e].pc = "ended"
      /\ \A f \in Job!Executions : f # e => execution'[f] = execution[f]
  BY <1>1, <1>2, <1>3, BecomeFields
<1>5. ~settled /\ ~(poll.pc # "idle" /\ poll.late)
  BY <1>1, <1>2 DEF LatePollSettles, Job!Over, Job!Alive
<1>6. Job!TypeOK'
  BY <1>1, <1>2, <1>4 DEF Job!TypeOK
<1>7. Delivered' /\ LatePollSettles'
  BY <1>1, <1>2, <1>4, <1>5 DEF Delivered, LatePollSettles
<1>8. ASSUME ~disturbed' PROVE Undisturbed'
  <2>1. Undisturbed
    BY <1>1, <1>2, <1>8
  <2>2. message # "gone" /\ result = "none"
    BY <1>2, <2>1 DEF Undisturbed, ExecutedOnce, Job!Alive
  <2>3. \A f \in Job!Executions : f # e => execution'[f].pc = "idle"
    BY <1>2, <1>4, <2>1 DEF Undisturbed, ExecutedOnce
  <2>4. ExecutedOnce'
    BY <1>2, <2>2, <2>3 DEF ExecutedOnce
  <2>5. \A f \in Job!Executions : RecordFollows(execution[f])'
    BY <1>4, <2>3 DEF RecordFollows
  <2> QED BY <1>2, <2>2, <2>4, <2>5 DEF Undisturbed, RecordAgrees
<1> QED BY <1>6, <1>7, <1>8 DEF JobInv

LEMMA StepPoll ==
    ASSUME JobInv, Job!PollReads \/ Job!PollCompares
    PROVE  JobInv'
<1>1. Job!TypeOK /\ Delivered /\ LatePollSettles /\ (~disturbed => Undisturbed)
  BY DEF JobInv
<1>2. /\ message' = message /\ result' = result /\ disturbed' = disturbed /\ execution' = execution
      /\ kind' = kind /\ jobRequest' = jobRequest /\ record' = record /\ sweep' = sweep
  BY DEF Job!PollReads, Job!PollCompares
<1>3. /\ Job!Over' <=> Job!Over
      /\ record.status \in Job!Status /\ Job!Over \in BOOLEAN
  BY <1>1, <1>2 DEF Job!Over, Job!Alive, Job!TypeOK
<1>4. /\ poll' \in [pc : {"idle", "read", "heal"}, status : Job!Status, late : BOOLEAN]
      /\ settled' \in BOOLEAN
      /\ poll'.pc = "heal" => result # "none"
      /\ LatePollSettles'
  <2>1. CASE Job!PollReads
    <3>1. /\ poll' = [pc |-> "read", status |-> record.status, late |-> Job!Over /\ sweep = "idle"]
          /\ settled' = settled
      BY <2>1 DEF Job!PollReads
    <3> DEFINE late == Job!Over /\ sweep = "idle"
    <3>2. late \in BOOLEAN /\ (late => Job!Over)
      OBVIOUS
    <3>3. poll' = [pc |-> "read", status |-> record.status, late |-> late]
      BY <3>1
    <3> HIDE DEF late
    <3>4. /\ poll' \in [pc : {"idle", "read", "heal"}, status : Job!Status, late : BOOLEAN]
          /\ poll'.pc = "read" /\ poll'.status = record.status /\ poll'.late = late
      BY <1>3, <3>2, <3>3
    <3>5. LatePollSettles'
      BY <1>1, <1>2, <1>3, <3>1, <3>2, <3>4 DEF LatePollSettles
    <3> QED BY <1>1, <3>1, <3>4, <3>5 DEF Job!TypeOK
  <2>2. CASE Job!PollCompares
    <3>1. poll.pc = "read" /\ poll \in [pc : {"idle", "read", "heal"}, status : Job!Status, late : BOOLEAN]
      BY <1>1, <2>2 DEF Job!PollCompares, Job!TypeOK
    <3>2. CASE result # "none" /\ poll.status \notin Job!Terminal
      <4>1. /\ poll' \in [pc : {"idle", "read", "heal"}, status : Job!Status, late : BOOLEAN]
            /\ poll'.status = poll.status /\ poll'.late = poll.late /\ settled' = settled
        BY <2>2, <3>1, <3>2 DEF Job!PollCompares
      <4>2. LatePollSettles'
        BY <1>1, <1>2, <1>3, <3>1, <4>1 DEF LatePollSettles
      <4> QED BY <1>1, <3>2, <4>1, <4>2 DEF Job!TypeOK
    <3>3. CASE ~(result # "none" /\ poll.status \notin Job!Terminal)
      <4>1. /\ poll' \in [pc : {"idle", "read", "heal"}, status : Job!Status, late : BOOLEAN]
            /\ poll'.pc = "idle" /\ settled' = (settled \/ poll.late)
        BY <2>2, <3>1, <3>3 DEF Job!PollCompares
      <4>2. poll.late => Job!Over /\ record.status \in Job!Terminal
        BY <1>1, <3>1, <3>3 DEF LatePollSettles, Delivered, Job!Over
      <4>3. LatePollSettles'
        BY <1>1, <1>2, <1>3, <4>1, <4>2 DEF LatePollSettles
      <4> QED BY <1>1, <3>1, <4>1, <4>3 DEF Job!TypeOK
    <3> QED BY <3>2, <3>3
  <2> QED BY <2>1, <2>2
<1>5. Job!TypeOK'
  BY <1>1, <1>2, <1>4 DEF Job!TypeOK
<1>6. Delivered'
  BY <1>1, <1>2, <1>4 DEF Delivered
<1>7. ~disturbed' => Undisturbed'
  BY <1>1, <1>2 DEF Undisturbed, ExecutedOnce, RecordFollows, RecordAgrees, Job!Alive
<1> QED BY <1>4, <1>5, <1>6, <1>7 DEF JobInv

\* What a poll or a sweep writes when an execution may still run.
LEMMA RecordWritten ==
    ASSUME JobInv,
           message' = message, result' = result, execution' = execution, kind' = kind,
           jobRequest' = jobRequest,
           record' \in [status : Job!Status, old : BOOLEAN],
           disturbed' \in BOOLEAN, disturbed => disturbed',
           sweep' \in {"idle", "found"},
           ~disturbed' =>
              \/ record'.status = record.status
              \/ /\ message = "gone"
                 /\ record'.status = (IF result = "ok" THEN "completed" ELSE "failed"),
           record'.status = record.status \/ record'.status \in Job!Terminal,
           \/ poll' = poll /\ settled' = settled
           \/ /\ poll.pc = "heal" /\ poll' = [poll EXCEPT !.pc = "idle"]
              /\ settled' = (settled \/ poll.late) /\ record'.status \in Job!Terminal
    PROVE  JobInv'
<1>1. Job!TypeOK /\ Delivered /\ LatePollSettles /\ (~disturbed => Undisturbed)
  BY DEF JobInv
<1>2. /\ Job!Over' <=> Job!Over
      /\ poll \in [pc : {"idle", "read", "heal"}, status : Job!Status, late : BOOLEAN]
      /\ settled \in BOOLEAN
  BY <1>1 DEF Job!Over, Job!Alive, Job!TypeOK
<1>3. /\ poll' \in [pc : {"idle", "read", "heal"}, status : Job!Status, late : BOOLEAN]
      /\ poll'.status = poll.status /\ poll'.late = poll.late
      /\ poll'.pc = poll.pc \/ poll'.pc = "idle"
  BY <1>2
<1>4. Job!TypeOK'
  BY <1>1, <1>2, <1>3 DEF Job!TypeOK
<1>5. Delivered'
  BY <1>1, <1>3 DEF Delivered
<1>6. LatePollSettles'
  BY <1>1, <1>2, <1>3 DEF LatePollSettles
<1>7. ASSUME ~disturbed' PROVE Undisturbed'
  <2>1. Undisturbed /\ ~disturbed
    BY <1>1, <1>7
  <2>2. ExecutedOnce'
    BY <2>1 DEF Undisturbed, ExecutedOnce, Job!Alive
  <2>3. CASE record'.status = record.status
    BY <2>1, <2>2, <2>3 DEF Undisturbed, RecordFollows, RecordAgrees
  <2>4. CASE message = "gone" /\ record'.status = (IF result = "ok" THEN "completed" ELSE "failed")
    BY <2>1, <2>2, <2>4 DEF Undisturbed, ExecutedOnce, RecordFollows, RecordAgrees,
       Job!Alive
  <2> QED BY <1>7, <2>3, <2>4
<1> QED BY <1>4, <1>5, <1>6, <1>7 DEF JobInv

LEMMA StepWrite ==
    ASSUME JobInv, Job!PollHeals \/ Job!Age \/ Job!SweepReads \/ Job!SweepWrites
    PROVE  JobInv'
<1>1. Job!TypeOK /\ Delivered /\ (~disturbed => Undisturbed)
  BY DEF JobInv
<1>2. /\ record \in [status : Job!Status, old : BOOLEAN] /\ disturbed \in BOOLEAN
      /\ sweep \in {"idle", "found"}
      /\ {"completed", "failed"} \subseteq Job!Status /\ {"completed", "failed"} \subseteq Job!Terminal
  BY <1>1 DEF Job!TypeOK, Job!Status, Job!Terminal
<1>3. CASE Job!PollHeals
  <2>1. /\ poll.pc = "heal" /\ record' = Job!Says(Job!StatusOf(result))
        /\ poll' = [poll EXCEPT !.pc = "idle"] /\ settled' = (settled \/ poll.late)
        /\ message' = message /\ result' = result /\ execution' = execution /\ kind' = kind
        /\ jobRequest' = jobRequest /\ sweep' = sweep /\ disturbed' = disturbed
    BY <1>3 DEF Job!PollHeals
  <2>2. Job!StatusOf(result) = (IF result = "ok" THEN "completed" ELSE "failed")
    BY DEF Job!StatusOf
  <2>3. /\ record' \in [status : Job!Status, old : BOOLEAN]
        /\ record'.status = Job!StatusOf(result) /\ record'.status \in Job!Terminal
    BY <1>2, <2>1, <2>2, SaysFields
  <2>4. ~disturbed => message = "gone"
    BY <1>1, <2>1 DEF Delivered, Undisturbed, ExecutedOnce
  <2> QED BY <1>2, <2>1, <2>2, <2>3, <2>4, RecordWritten
<1>4. CASE Job!Age
  <2>1. /\ record' = [record EXCEPT !.old = TRUE]
        /\ poll' = poll /\ settled' = settled
        /\ message' = message /\ result' = result /\ execution' = execution /\ kind' = kind
        /\ jobRequest' = jobRequest /\ sweep' = sweep /\ disturbed' = disturbed
    BY <1>4 DEF Job!Age
  <2>2. record' \in [status : Job!Status, old : BOOLEAN] /\ record'.status = record.status
    BY <1>2, <2>1
  <2> QED BY <1>2, <2>1, <2>2, RecordWritten
<1>5. CASE Job!SweepReads
  <2>1. /\ record' = record /\ sweep' = "found" /\ poll' = poll /\ settled' = settled
        /\ message' = message /\ result' = result /\ execution' = execution /\ kind' = kind
        /\ jobRequest' = jobRequest /\ disturbed' = disturbed
    BY <1>5 DEF Job!SweepReads
  <2> QED BY <1>2, <2>1, RecordWritten
<1>6. CASE Job!SweepWrites
  <2>1. /\ record' = Job!Says("failed") /\ sweep' = "idle" /\ poll' = poll /\ settled' = settled
        /\ disturbed' = (disturbed \/ result = "ok" \/ message # "gone")
        /\ message' = message /\ result' = result /\ execution' = execution /\ kind' = kind
        /\ jobRequest' = jobRequest
    BY <1>6 DEF Job!SweepWrites
  <2>2. record' \in [status : Job!Status, old : BOOLEAN] /\ record'.status = "failed"
    BY <1>2, <2>1, SaysFields
  <2> QED BY <1>2, <2>1, <2>2, RecordWritten
<1> QED BY <1>3, <1>4, <1>5, <1>6

LEMMA JobMoves ==
    ASSUME JobInv, [Job!Next]_Job!vars
    PROVE  JobInv'
<1>1. ASSUME NEW e \in Job!Executions, Job!Execute(e)
      PROVE  JobInv'
  BY <1>1, StepTake, StepWork, StepEnd, StepLose DEF Job!Execute
<1>2. CASE UNCHANGED Job!vars
  <2>1. record \in [status : Job!Status, old : BOOLEAN] /\ disturbed \in BOOLEAN /\ sweep \in {"idle", "found"}
    BY DEF JobInv, Job!TypeOK
  <2> QED BY <1>2, <2>1, RecordWritten DEF Job!vars
<1> QED BY <1>1, <1>2, StepRequest, StepPoll, StepWrite DEF Job!Next

----------------------------------------------------------------------------
\* ChatClient

----------------------------------------------------------------------------
\* The inductive invariant

OfSession(s, t) == \A i \in DOMAIN s : s[i].of = t

Ours(s) == \A i \in DOMAIN s : s[i].text # "foreign"

\* A message of the assistant for a question, and one that answers it.
AnswerRow(s, q) == \E i \in DOMAIN s : s[i].turn = q /\ s[i].role = "assistant"

Answer(s, q) ==
    \E i \in DOMAIN s : s[i].turn = q /\ s[i].role = "assistant" /\ s[i].text = "own"

\* What the server has and says belongs to the session it is asked for.
RowsKeepTheirSession ==
    /\ \A t \in Threads : OfSession(db[t], t) /\ Ours(db[t])
    /\ \A c \in calls : OfSession(c.rows, c.of) /\ Ours(c.rows)
    /\ \A c \in calls : c.pc = "asked" => c.rows = <<>>

QuestionsHaveSessions ==
    \A q \in Questions : question[q].pc = "unsent" <=> question[q].of = None

\* The user waits for the answer of a running question.
Attended(q) ==
    /\ calls = {}
    /\ active = question[q].of /\ loaded = question[q].of
    /\ Tab!LastIsAssistant(messages) /\ Tab!Last(messages).turn = q
    /\ \A r \in Questions : r # q => ~Tab!Running(r)
    /\ \A r \in Questions : r > q => question[r].pc = "unsent"
    /\ question[q].pc = "open" => AnswerRow(db[question[q].of], q)

Latest(q) == question[q].pc = "done" /\ Tab!IsLatest(q) /\ question[q].of \in Tab!Stored

Calm ==
    /\ Ours(messages)
    /\ streaming => \E q \in Questions : Tab!Running(q) /\ Tab!Looking(q)
    /\ \A q \in Questions : Tab!Running(q) => Attended(q)
    /\ \A q \in Questions : Latest(q) => Answer(db[question[q].of], q)
    /\ \A q \in Questions : Latest(q) /\ Tab!Looking(q) /\ Tab!IsShown /\ messages # <<>> =>
          Answer(messages, q)
    /\ \A c \in calls : c.pc = "answered" => db[c.of] = <<>> \/ c.rows = db[c.of]

TabInv ==
    /\ Tab!TypeOK
    /\ RowsKeepTheirSession
    /\ QuestionsHaveSessions
    /\ Tab!ShownIsOfActive
    /\ calm => Calm

LEMMA TabSafe == TabInv => Tab!TypeOK /\ Tab!ShownIsOfActive /\ Tab!AnswersStayPut
<1> SUFFICES ASSUME TabInv PROVE Tab!AnswersStayPut
  BY DEF TabInv
<1>1. calm => Calm
  BY DEF TabInv
<1> QED BY <1>1 DEF Tab!AnswersStayPut, Calm, Ours, Latest, Answer, Tab!HasAnswer

----------------------------------------------------------------------------
\* Messages

LEMMA SaidFields ==
    ASSUME NEW t \in Threads, NEW q \in Questions \union {None}, NEW role \in {"user", "assistant"},
           NEW text \in {"empty", "own", "foreign"}
    PROVE  /\ Tab!Said(t, q, role, text) \in Tab!Message
           /\ Tab!Said(t, q, role, text).turn = q /\ Tab!Said(t, q, role, text).of = t
           /\ Tab!Said(t, q, role, text).role = role /\ Tab!Said(t, q, role, text).text = text
  BY DEF Tab!Said, Tab!Message

LEMMA ReplacedFields ==
    ASSUME NEW s \in Seq(Tab!Message), NEW q \in Questions
    PROVE  /\ Tab!Replaced(s, q) \in Seq(Tab!Message)
           /\ \A t : OfSession(s, t) => OfSession(Tab!Replaced(s, q), t)
           /\ Tab!LastIsAssistant(s) /\ Tab!Last(s).turn = q =>
                /\ Ours(s) => Ours(Tab!Replaced(s, q))
                /\ Tab!LastIsAssistant(Tab!Replaced(s, q)) /\ Tab!Last(Tab!Replaced(s, q)).turn = q
                /\ Answer(Tab!Replaced(s, q), q)
<1>1. CASE ~Tab!LastIsAssistant(s)
  <2>1. Tab!Replaced(s, q) = s
    BY <1>1 DEF Tab!Replaced
  <2> QED BY <1>1, <2>1
<1>2. CASE Tab!LastIsAssistant(s)
  <2> DEFINE n == Len(s)
             text == IF Tab!Last(s).turn = q THEN "own" ELSE "foreign"
             m == [s[n] EXCEPT !.text = text]
             w == [s EXCEPT ![n] = m]
  <2>1. s # <<>> /\ n \in 1 .. n /\ DOMAIN s = 1 .. n /\ s[n] \in Tab!Message /\ Tab!Last(s) = s[n]
        /\ s[n].role = "assistant"
    BY <1>2 DEF Tab!LastIsAssistant, Tab!Last
  <2>2. text \in {"own", "foreign"} /\ (s[n].turn = q => text = "own")
    BY <2>1
  <2>3. Tab!Replaced(s, q) = w
    BY <1>2 DEF Tab!Replaced
  <2> HIDE DEF text
  <2>4. /\ m \in Tab!Message /\ m.turn = s[n].turn /\ m.of = s[n].of /\ m.role = s[n].role
        /\ m.text = text
    BY <2>1, <2>2 DEF Tab!Message
  <2> HIDE DEF m
  <2>5. /\ w \in Seq(Tab!Message) /\ DOMAIN w = 1 .. n /\ Len(w) = n /\ w # <<>>
        /\ w[n] = m /\ \A i \in 1 .. n : i # n => w[i] = s[i]
    <3>1. n \in Nat /\ s \in [1 .. n -> Tab!Message]
      OBVIOUS
    <3>2. w \in [1 .. n -> Tab!Message] /\ w[n] = m /\ \A i \in 1 .. n : i # n => w[i] = s[i]
      BY <2>1, <2>4, <3>1
    <3> HIDE DEF n, w
    <3>3. w \in Seq(Tab!Message) /\ Len(w) = n /\ DOMAIN w = 1 .. n
      BY <3>1, <3>2
    <3>4. w # <<>>
      BY <2>1, <3>3
    <3> QED BY <3>2, <3>3, <3>4
  <2> HIDE DEF w
  <2>6. Tab!Last(w) = m
    BY <2>5 DEF Tab!Last
  <2>7. \A t : OfSession(s, t) => OfSession(w, t)
    BY <2>1, <2>4, <2>5 DEF OfSession
  <2>8. s[n].turn = q /\ Ours(s) => Ours(w)
    BY <2>1, <2>2, <2>4, <2>5 DEF Ours
  <2>9. s[n].turn = q => Tab!LastIsAssistant(w) /\ Tab!Last(w).turn = q /\ Answer(w, q)
    BY <2>1, <2>2, <2>4, <2>5, <2>6 DEF Tab!LastIsAssistant, Answer
  <2> HIDE DEF n
  <2> QED BY <2>1, <2>3, <2>5, <2>7, <2>8, <2>9
<1> QED BY <1>1, <1>2

\* The first messages of others.
Begins(w, s) ==
    w \in Seq(Tab!Message) /\ \A i \in DOMAIN w : i \in DOMAIN s /\ w[i] = s[i]

LEMMA FrontFields ==
    ASSUME NEW s \in Seq(Tab!Message), s # <<>>
    PROVE  Begins(Tab!Front(s), s)
  BY DEF Tab!Front, Begins

LEMMA WithoutFields ==
    ASSUME NEW s \in Seq(Tab!Message)
    PROVE  Begins(Tab!WithoutPlaceholder(s), s)
<1>1. Begins(s, s)
  BY DEF Begins
<1> QED BY <1>1, FrontFields DEF Tab!WithoutPlaceholder, Tab!LastIsAssistant

LEMMA BeginsFields ==
    ASSUME NEW s, NEW w, Begins(w, s)
    PROVE  /\ \A t : OfSession(s, t) => OfSession(w, t)
           /\ Ours(s) => Ours(w)
  BY DEF Begins, OfSession, Ours

LEMMA PairFields ==
    ASSUME NEW s \in Seq(Tab!Message), NEW a \in Tab!Message, NEW b \in Tab!Message
    PROVE  /\ s \o <<a, b>> \in Seq(Tab!Message)
           /\ \A t : OfSession(s, t) /\ a.of = t /\ b.of = t => OfSession(s \o <<a, b>>, t)
           /\ Ours(s) /\ a.text # "foreign" /\ b.text # "foreign" => Ours(s \o <<a, b>>)
           /\ b.role = "assistant" => /\ Tab!LastIsAssistant(s \o <<a, b>>)
                                      /\ AnswerRow(s \o <<a, b>>, b.turn)
           /\ Tab!Last(s \o <<a, b>>) = b
<1> DEFINE n == Len(s)
           w == s \o <<a, b>>
<1>1. /\ n \in Nat /\ DOMAIN s = 1 .. n
      /\ w \in Seq(Tab!Message) /\ Len(w) = n + 2 /\ DOMAIN w = 1 .. n + 2 /\ w # <<>>
      /\ w[n + 1] = a /\ w[n + 2] = b /\ \A i \in 1 .. n : w[i] = s[i]
  OBVIOUS
<1> HIDE DEF w, n
<1>2. \A i \in DOMAIN w : (i \in DOMAIN s /\ w[i] = s[i]) \/ w[i] = a \/ w[i] = b
  <2> TAKE i \in DOMAIN w
  <2>1. i \in 1 .. n \/ i = n + 1 \/ i = n + 2
    BY <1>1
  <2> QED BY <1>1, <2>1
<1>3. Tab!Last(w) = b
  BY <1>1 DEF Tab!Last
<1>4. n + 2 \in DOMAIN w
  BY <1>1
<1>5. b.role = "assistant" => Tab!LastIsAssistant(w) /\ AnswerRow(w, b.turn)
  BY <1>1, <1>3, <1>4 DEF Tab!LastIsAssistant, AnswerRow
<1>6. \A t : OfSession(s, t) /\ a.of = t /\ b.of = t => OfSession(w, t)
  BY <1>2 DEF OfSession
<1>7. Ours(s) /\ a.text # "foreign" /\ b.text # "foreign" => Ours(w)
  BY <1>2 DEF Ours
<1> QED BY <1>1, <1>3, <1>5, <1>6, <1>7 DEF w

----------------------------------------------------------------------------
\* Kinds of steps

\* A user who goes elsewhere, where the old messages are not shown.
LEMMA UserLeaves ==
    ASSUME Tab!ClientConstants, TabInv,
           question' = question, streaming' = streaming, returned' = returned,
           calm' \in BOOLEAN, calm' => calm /\ ~Tab!Busy,
           db' \in [Threads -> Seq(Tab!Message)],
           \A t \in Threads : db'[t] = db[t] \/ db'[t] = <<>>,
           listed' \subseteq Threads, starting' \in 0 .. 1, inputs' \in 0 .. MaxInputs,
           active' \in Threads \union {None}, loaded' \in Threads \union {None},
           \/ messages' = <<>>
           \/ messages' = messages /\ active' = active /\ loaded' = loaded,
           \A c \in calls' : \/ c \in calls
                             \/ c \in Tab!Call /\ c.pc = "asked" /\ c.rows = <<>>
    PROVE  TabInv'
<1>1. Tab!TypeOK /\ RowsKeepTheirSession /\ QuestionsHaveSessions /\ Tab!ShownIsOfActive /\ (calm => Calm)
  BY DEF TabInv
<1>2. Tab!TypeOK'
  <2>1. messages' \in Seq(Tab!Message)
    <3>1. messages \in Seq(Tab!Message) /\ <<>> \in Seq(Tab!Message)
      BY <1>1 DEF Tab!TypeOK
    <3> QED BY <3>1
  <2>2. \A c \in calls' : c \in Tab!Call
    BY <1>1 DEF Tab!TypeOK
  <2> QED BY <1>1, <2>1, <2>2 DEF Tab!TypeOK
<1>3. \A t : OfSession(<<>>, t) /\ Ours(<<>>)
  BY DEF OfSession, Ours
<1>4. RowsKeepTheirSession'
  BY <1>1, <1>3 DEF RowsKeepTheirSession, OfSession, Ours
<1>5. QuestionsHaveSessions'
  BY <1>1 DEF QuestionsHaveSessions
<1>6. Tab!ShownIsOfActive'
  BY <1>1 DEF Tab!ShownIsOfActive, Tab!IsShown
<1>7. ASSUME calm' PROVE Calm'
  <2>1. Calm /\ calm /\ \A q \in Questions : ~Tab!Running(q)
    BY <1>1, <1>7 DEF Tab!Busy
  <2>2. ~streaming'
    BY <2>1 DEF Calm
  <2>3. \A q \in Questions : ~Tab!Running(q)'
    BY <2>1 DEF Tab!Running
  <2>4. \A t \in Tab!Stored' : t \in Tab!Stored /\ db'[t] = db[t]
    BY DEF Tab!Stored
  <2>5. \A q \in Questions : Latest(q)' => Latest(q) /\ db'[question[q].of] = db[question[q].of]
    BY <2>4 DEF Latest, Tab!IsLatest
  <2>6. Ours(messages)'
    BY <1>3, <2>1 DEF Calm, Ours
  <2>7. \A q \in Questions : Latest(q)' => Answer(db[question[q].of], q)'
    BY <2>1, <2>5 DEF Calm, Answer
  <2>8. \A q \in Questions : Latest(q)' /\ Tab!Looking(q)' /\ Tab!IsShown' /\ messages' # <<>> =>
           Answer(messages, q)'
    <3> TAKE q \in Questions
    <3> HAVE Latest(q)' /\ Tab!Looking(q)' /\ Tab!IsShown' /\ messages' # <<>>
    <3>1. Latest(q) /\ messages' = messages /\ messages # <<>>
      BY <2>5
    <3>2. Tab!Looking(q) /\ Tab!IsShown
      BY <3>1 DEF Tab!Looking, Tab!IsShown
    <3>3. Answer(messages, q)
      BY <2>1, <3>1, <3>2 DEF Calm
    <3> QED BY <3>1, <3>3 DEF Answer
  <2>9. \A c \in calls' : c.pc = "answered" => db'[c.of] = <<>> \/ c.rows = db'[c.of]
    <3> TAKE c \in calls'
    <3> HAVE c.pc = "answered"
    <3>1. c \in calls /\ c.of \in Threads
      BY <1>1 DEF Tab!TypeOK, Tab!Call
    <3> QED BY <2>1, <3>1 DEF Calm
  <2> QED BY <2>2, <2>3, <2>6, <2>7, <2>8, <2>9 DEF Calm
<1> QED BY <1>2, <1>4, <1>5, <1>6, <1>7 DEF TabInv

\* A question, below the messages s of its session.
LEMMA Asks ==
    ASSUME Tab!ClientConstants, TabInv, NEW q \in Questions, NEW t \in Threads, NEW s \in Seq(Tab!Message),
           Tab!Sent(q, t, s),
           db' = db, calls' = calls, starting' = starting, returned' = returned,
           listed' \subseteq Threads,
           active' = t, loaded' \in Threads \union {None},
           loaded' = t \/ ~Tab!IsShown,
           loaded' = t /\ ~returned => OfSession(s, t),
           Ours(messages) => Ours(s)
    PROVE  TabInv'
<1>1. Tab!TypeOK /\ RowsKeepTheirSession /\ QuestionsHaveSessions /\ Tab!ShownIsOfActive /\ (calm => Calm)
  BY DEF TabInv
<1> DEFINE a == Tab!Said(t, q, "user", "own")
           b == Tab!Said(t, q, "assistant", "empty")
<1>2. /\ a \in Tab!Message /\ b \in Tab!Message /\ a.of = t /\ b.of = t /\ b.turn = q
      /\ b.role = "assistant" /\ a.text = "own" /\ b.text = "empty"
  BY SaidFields
<1>3. messages' = s \o <<a, b>>
  BY DEF Tab!Sent
<1> HIDE DEF a, b
<1>4. /\ messages' \in Seq(Tab!Message)
      /\ OfSession(s, t) => OfSession(messages', t)
      /\ Ours(s) => Ours(messages')
      /\ Tab!LastIsAssistant(messages') /\ Tab!Last(messages').turn = q
  BY <1>2, <1>3, PairFields
<1>5. /\ \A r \in Questions : question[r].pc = "unsent" <=> r >= q
      /\ streaming' = TRUE
      /\ calm' = (calm /\ ~Tab!Busy /\ calls = {} /\ Tab!IsShown)
      /\ inputs < MaxInputs /\ inputs' = inputs + 1
  BY DEF Tab!Sent, Tab!Input
<1>6. /\ question' \in [Questions -> Tab!Question]
      /\ question'[q].pc = "fetch" /\ question'[q].of = t
      /\ \A r \in Questions : r # q => question'[r] = question[r]
  BY <1>1 DEF Tab!Sent, Tab!TypeOK, Tab!Question, Tab!Unsent
<1>7. Tab!TypeOK'
  <2>1. inputs' \in 0 .. MaxInputs
    BY <1>1, <1>5 DEF Tab!TypeOK, Tab!ClientConstants
  <2>2. calm' \in BOOLEAN
    BY <1>1, <1>5 DEF Tab!TypeOK
  <2> QED BY <1>1, <1>4, <1>5, <1>6, <2>1, <2>2 DEF Tab!TypeOK
<1>8. RowsKeepTheirSession'
  BY <1>1 DEF RowsKeepTheirSession
<1>9. QuestionsHaveSessions'
  BY <1>1, <1>6 DEF QuestionsHaveSessions, Tab!ClientConstants
<1>10. Tab!ShownIsOfActive'
  BY <1>4 DEF Tab!ShownIsOfActive, Tab!IsShown, OfSession
<1>11. ASSUME calm' PROVE Calm'
  <2>1. Calm /\ calm /\ calls = {} /\ loaded' = t /\ \A r \in Questions : ~Tab!Running(r)
    BY <1>1, <1>5, <1>11 DEF Tab!Busy
  <2>2. \A r \in Questions : Tab!Running(r)' => r = q
    BY <1>6, <2>1 DEF Tab!Running
  <2>3. \A r \in Questions : r > q => question'[r].pc = "unsent"
    <3> TAKE r \in Questions
    <3> HAVE r > q
    <3>1. r \in Nat /\ q \in Nat
      BY DEF Tab!ClientConstants
    <3> QED BY <1>5, <1>6, <3>1
  <2>4. Attended(q)'
    BY <1>4, <1>6, <2>1, <2>2, <2>3 DEF Attended
  <2>5. Tab!Running(q)' /\ Tab!Looking(q)'
    BY <1>6 DEF Tab!Running, Tab!Looking
  <2>6. ASSUME NEW r \in Questions, Latest(r)'
        PROVE  r # q /\ Latest(r) /\ ~Tab!Looking(r)' /\ question'[r] = question[r]
    <3>1. question'[r].pc = "done" /\ r # q /\ question'[r] = question[r]
      BY <1>6, <2>6 DEF Latest
    <3>2. r \in Nat /\ q \in Nat /\ ~(r >= q)
      BY <1>5, <3>1 DEF Tab!ClientConstants
    <3>3. q > r
      BY <3>2
    <3>4. question'[r].of # t
      BY <1>6, <2>6, <3>3 DEF Latest, Tab!IsLatest
    <3>5. question[r].of # None
      BY <1>1, <3>1 DEF QuestionsHaveSessions
    <3>6. Tab!IsLatest(r)
      <4> SUFFICES ASSUME NEW x \in Questions, x > r PROVE question[x].of # question[r].of
        BY DEF Tab!IsLatest
      <4>1. CASE x = q
        BY <1>1, <1>5, <3>2, <3>5, <4>1 DEF QuestionsHaveSessions, Tab!ClientConstants
      <4>2. CASE x # q
        BY <1>6, <2>6, <3>1, <4>2 DEF Latest, Tab!IsLatest
      <4> QED BY <4>1, <4>2
    <3>7. Tab!Stored' = Tab!Stored
      BY DEF Tab!Stored
    <3> QED BY <2>6, <3>1, <3>4, <3>6, <3>7 DEF Latest, Tab!Looking
  <2>7. \A r \in Questions : Latest(r)' => Answer(db[question[r].of], r)'
    BY <2>1, <2>6 DEF Calm, Answer
  <2>8. Ours(messages)'
    BY <1>4, <2>1 DEF Calm, Ours
  <2> QED BY <2>1, <2>2, <2>4, <2>5, <2>6, <2>7, <2>8 DEF Calm
<1> QED BY <1>7, <1>8, <1>9, <1>10, <1>11 DEF TabInv

\* What a stream does to its own session.
LEMMA Streams ==
    ASSUME Tab!ClientConstants, TabInv, NEW q \in Questions, Tab!Running(q),
           question' \in [Questions -> Tab!Question],
           question'[q].of = question[q].of, question'[q].pc # "unsent",
           \A r \in Questions : r # q => question'[r] = question[r],
           db' \in [Threads -> Seq(Tab!Message)],
           \A t \in Threads : t # question[q].of => db'[t] = db[t],
           question[q].of \in Threads =>
              OfSession(db'[question[q].of], question[q].of) /\ Ours(db'[question[q].of]),
           calls' = calls, starting' = starting, inputs' = inputs, loaded' = loaded,
           listed' \subseteq Threads, streaming' \in BOOLEAN, returned' \in BOOLEAN,
           messages' \in Seq(Tab!Message),
           \A t : OfSession(messages, t) => OfSession(messages', t),
           \/ active' = active /\ (returned => returned')
           \/ active' = question[q].of /\ returned',
           calm' \in BOOLEAN, calm' => calm,
           calm' =>
              /\ Ours(messages')
              /\ streaming' => Tab!Running(q)'
              /\ Tab!Running(q)' => Tab!LastIsAssistant(messages') /\ Tab!Last(messages').turn = q
              /\ question'[q].pc = "open" => AnswerRow(db'[question[q].of], q)
              /\ question'[q].pc = "done" =>
                    Answer(db'[question[q].of], q) /\ Answer(messages', q)
    PROVE  TabInv'
<1>1. Tab!TypeOK /\ RowsKeepTheirSession /\ QuestionsHaveSessions /\ Tab!ShownIsOfActive /\ (calm => Calm)
  BY DEF TabInv
<1>2. question[q].of \in Threads
  BY <1>1 DEF Tab!TypeOK, Tab!Question, QuestionsHaveSessions, Tab!Running
<1>3. Tab!TypeOK'
  BY <1>1, <1>2 DEF Tab!TypeOK
<1>4. RowsKeepTheirSession'
  BY <1>1, <1>2 DEF RowsKeepTheirSession
<1>5. QuestionsHaveSessions'
  BY <1>1 DEF QuestionsHaveSessions, Tab!Running
<1>6. Tab!ShownIsOfActive'
  BY <1>1 DEF Tab!ShownIsOfActive, Tab!IsShown, OfSession
<1>7. ASSUME calm' PROVE Calm'
  <2>1. Calm /\ Attended(q)
    BY <1>1, <1>7 DEF Calm
  <2>2. /\ calls' = {} /\ active' = question[q].of /\ loaded' = question[q].of
        /\ \A r \in Questions : r # q => ~Tab!Running(r)
        /\ \A r \in Questions : r > q => question[r].pc = "unsent"
    BY <2>1 DEF Attended
  <2>3. \A r \in Questions : r # q => ~Tab!Running(r)'
    BY <2>2 DEF Tab!Running
  <2>4. \A r \in Questions : r > q => question'[r].pc = "unsent"
    <3> TAKE r \in Questions
    <3> HAVE r > q
    <3>1. r # q
      BY DEF Tab!ClientConstants
    <3> QED BY <2>2, <3>1
  <2>5. Tab!Running(q)' => Attended(q)' /\ Tab!Looking(q)'
    BY <1>7, <2>2, <2>3, <2>4 DEF Attended, Tab!Looking
  <2>6. ASSUME NEW r \in Questions, Latest(r)', r # q
        PROVE  Latest(r) /\ ~Tab!Looking(r)' /\ db'[question[r].of] = db[question[r].of]
    <3>1. question[r].pc = "done" /\ question'[r] = question[r]
      BY <2>6 DEF Latest
    <3>2. q \in Nat /\ r \in Nat /\ ~(r > q)
      BY <2>2, <3>1 DEF Tab!ClientConstants
    <3>3. q > r
      BY <2>6, <3>2
    <3>4. question[r].of # question[q].of
      BY <2>6, <3>1, <3>3 DEF Latest, Tab!IsLatest
    <3>5. question[r].of \in Threads
      BY <1>1, <3>1 DEF Tab!TypeOK, Tab!Question, QuestionsHaveSessions
    <3>6. db'[question[r].of] = db[question[r].of]
      BY <3>4, <3>5
    <3>7. \A x \in Questions : question'[x].of = question[x].of
      OBVIOUS
    <3>8. Tab!IsLatest(r)
      BY <2>6, <3>7 DEF Latest, Tab!IsLatest
    <3>9. question[r].of \in Tab!Stored
      BY <2>6, <3>1, <3>5, <3>6 DEF Latest, Tab!Stored
    <3> QED BY <2>2, <3>1, <3>4, <3>6, <3>8, <3>9 DEF Latest, Tab!Looking
  <2>7. \A r \in Questions : Latest(r)' => Answer(db[question[r].of], r)'
    <3> TAKE r \in Questions
    <3> HAVE Latest(r)'
    <3>1. CASE r = q
      <4>1. question'[q].pc = "done"
        BY <3>1 DEF Latest
      <4>2. Answer(db'[question[q].of], q)
        BY <1>7, <4>1
      <4>3. db'[question'[r].of] = db'[question[q].of]
        BY <3>1
      <4> QED BY <3>1, <4>2, <4>3 DEF Answer
    <3>2. CASE r # q
      <4>1. Latest(r) /\ db'[question'[r].of] = db[question[r].of]
        BY <2>6, <3>2
      <4>2. Answer(db[question[r].of], r)
        BY <2>1, <4>1 DEF Calm
      <4> QED BY <4>1, <4>2 DEF Answer
    <3> QED BY <3>1, <3>2
  <2>8. \A r \in Questions : Latest(r)' /\ Tab!Looking(r)' => Answer(messages, r)'
    <3> TAKE r \in Questions
    <3> HAVE Latest(r)' /\ Tab!Looking(r)'
    <3>1. r = q
      BY <2>6
    <3> QED BY <1>7, <3>1 DEF Latest, Answer
  <2>9. Ours(messages)'
    BY <1>7 DEF Ours
  <2>10. streaming' => Tab!Running(q)'
    BY <1>7
  <2> QED BY <2>2, <2>3, <2>5, <2>7, <2>8, <2>9, <2>10 DEF Calm
<1> QED BY <1>3, <1>4, <1>5, <1>6, <1>7 DEF TabInv

----------------------------------------------------------------------------
\* Steps elsewhere

LEMMA MovesCalm ==
    ASSUME TabInv, Tab!Moves \/ calm' = (calm /\ ~Tab!Busy)
    PROVE  calm' \in BOOLEAN /\ (calm' => calm /\ ~Tab!Busy)
  BY DEF Tab!Moves, TabInv, Tab!TypeOK

LEMMA MovesFields ==
    ASSUME Tab!ClientConstants, TabInv, Tab!Moves
    PROVE  /\ inputs' \in 0 .. MaxInputs
           /\ starting' = starting /\ streaming' = streaming /\ question' = question
           /\ returned' = returned
           /\ starting \in 0 .. 1
  BY DEF Tab!Moves, Tab!Input, TabInv, Tab!TypeOK, Tab!ClientConstants

LEMMA AskedIsCall ==
    ASSUME NEW t \in Threads, NEW removes \in Threads \union {None}
    PROVE  /\ [pc |-> "asked", of |-> t, rows |-> <<>>, removes |-> removes] \in Tab!Call
           /\ [pc |-> "asked", of |-> t, rows |-> <<>>, removes |-> removes].pc = "asked"
           /\ [pc |-> "asked", of |-> t, rows |-> <<>>, removes |-> removes].rows = <<>>
<1>1. <<>> \in Seq(Tab!Message)
  OBVIOUS
<1> QED BY <1>1 DEF Tab!Call

LEMMA DeletedFields ==
    ASSUME TabInv, NEW gone, Tab!Deleted(gone)
    PROVE  /\ db' \in [Threads -> Seq(Tab!Message)]
           /\ \A t \in Threads : db'[t] = db[t] \/ db'[t] = <<>>
<1>1. db \in [Threads -> Seq(Tab!Message)] /\ <<>> \in Seq(Tab!Message)
  BY DEF TabInv, Tab!TypeOK
<1> QED BY <1>1 DEF Tab!Deleted

LEMMA FreshFields ==
    ASSUME TabInv, Tab!Fresh # {}
    PROVE  /\ (CHOOSE f \in Tab!Fresh : TRUE) \in Threads
           /\ Tab!Stored \subseteq Threads
  BY DEF Tab!Fresh, Tab!Stored

LEMMA StepInitialize ==
    ASSUME Tab!ClientConstants, TabInv, Tab!Initialize
    PROVE  TabInv'
<1>1. Tab!TypeOK
  BY DEF TabInv
<1>2. PICK t \in Threads : Tab!Activated(t) /\ listed' = Tab!Stored \union {t}
  BY FreshFields DEF Tab!Initialize
<1>3. /\ active' = t /\ loaded' = t /\ messages' = <<>>
      /\ question' = question /\ streaming' = streaming /\ returned' = returned
      /\ db' = db /\ calls' = calls /\ inputs' = inputs
  BY <1>2 DEF Tab!Activated, Tab!Initialize
<1>4. starting' \in 0 .. 1 /\ listed' \subseteq Threads
  BY <1>1, <1>2, FreshFields DEF Tab!Initialize, Tab!TypeOK
<1>5. calm' \in BOOLEAN /\ (calm' => calm /\ ~Tab!Busy)
  BY MovesCalm DEF Tab!Initialize
<1>6. db \in [Threads -> Seq(Tab!Message)] /\ inputs \in 0 .. MaxInputs
  BY <1>1 DEF Tab!TypeOK
<1> QED BY <1>3, <1>4, <1>5, <1>6, UserLeaves

LEMMA StepOpenSession ==
    ASSUME Tab!ClientConstants, TabInv, NEW t \in Threads, Tab!OpenSession(t)
    PROVE  TabInv'
<1>1. Tab!TypeOK
  BY DEF TabInv
<1>2. Tab!Ask(t, None) /\ Tab!Moves /\ db' = db /\ listed' = listed /\ loaded' = loaded
  BY DEF Tab!OpenSession
<1> DEFINE c == [pc |-> "asked", of |-> t, rows |-> <<>>, removes |-> None]
<1>3. active' = t /\ messages' = <<>> /\ calls' = calls \union {c}
  BY <1>2 DEF Tab!Ask
<1>4. c \in Tab!Call /\ c.pc = "asked" /\ c.rows = <<>>
  BY AskedIsCall
<1> HIDE DEF c
<1>5. calm' \in BOOLEAN /\ (calm' => calm /\ ~Tab!Busy)
  BY <1>2, MovesCalm
<1>6. /\ db \in [Threads -> Seq(Tab!Message)] /\ listed \subseteq Threads
      /\ loaded \in Threads \union {None}
  BY <1>1 DEF Tab!TypeOK
<1>7. \A d \in calls' : d \in calls \/ (d \in Tab!Call /\ d.pc = "asked" /\ d.rows = <<>>)
  BY <1>3, <1>4
<1> QED BY <1>2, <1>3, <1>5, <1>6, <1>7, MovesFields, UserLeaves

LEMMA StepResetToNew ==
    ASSUME Tab!ClientConstants, TabInv, Tab!ResetToNew
    PROVE  TabInv'
<1>1. Tab!TypeOK
  BY DEF TabInv
<1>2. /\ Tab!Moves /\ db' = db /\ listed' = listed /\ calls' = calls
      /\ active' = None /\ loaded' = None /\ messages' = <<>>
  BY DEF Tab!ResetToNew
<1>3. calm' \in BOOLEAN /\ (calm' => calm /\ ~Tab!Busy)
  BY <1>2, MovesCalm
<1>4. db \in [Threads -> Seq(Tab!Message)] /\ listed \subseteq Threads
  BY <1>1 DEF Tab!TypeOK
<1> QED BY <1>2, <1>3, <1>4, MovesFields, UserLeaves

LEMMA StepDeleteSession ==
    ASSUME Tab!ClientConstants, TabInv, NEW t \in Threads, Tab!DeleteSession(t)
    PROVE  TabInv'
<1>1. Tab!TypeOK
  BY DEF TabInv
<1>2. Tab!Moves /\ loaded' = loaded /\ listed' = listed \ {t}
  BY DEF Tab!DeleteSession
<1>3. /\ db \in [Threads -> Seq(Tab!Message)] /\ listed' \subseteq Threads
      /\ loaded \in Threads \union {None} /\ active \in Threads \union {None}
  BY <1>1, <1>2 DEF Tab!TypeOK
<1>4. calm' \in BOOLEAN /\ (calm' => calm /\ ~Tab!Busy)
  BY <1>2, MovesCalm
<1>5. CASE Tab!Deleted({t}) /\ active' = active /\ messages' = messages /\ calls' = calls
  <2>1. db' \in [Threads -> Seq(Tab!Message)] /\ \A r \in Threads : db'[r] = db[r] \/ db'[r] = <<>>
    BY <1>5, DeletedFields
  <2> QED BY <1>2, <1>3, <1>4, <1>5, <2>1, MovesFields, UserLeaves
<1>6. CASE Tab!Deleted({t}) /\ active' = None /\ messages' = <<>> /\ calls' = calls
  <2>1. db' \in [Threads -> Seq(Tab!Message)] /\ \A r \in Threads : db'[r] = db[r] \/ db'[r] = <<>>
    BY <1>6, DeletedFields
  <2> QED BY <1>2, <1>3, <1>4, <1>6, <2>1, MovesFields, UserLeaves
<1>7. CASE db' = db /\ \E next \in listed' : Tab!Ask(next, t)
  <2>1. PICK next \in Threads : Tab!Ask(next, t)
    BY <1>3, <1>7
  <2> DEFINE c == [pc |-> "asked", of |-> next, rows |-> <<>>, removes |-> t]
  <2>2. active' = next /\ messages' = <<>> /\ calls' = calls \union {c}
    BY <2>1 DEF Tab!Ask
  <2>3. c \in Tab!Call /\ c.pc = "asked" /\ c.rows = <<>>
    BY AskedIsCall
  <2> HIDE DEF c
  <2>4. \A d \in calls' : d \in calls \/ (d \in Tab!Call /\ d.pc = "asked" /\ d.rows = <<>>)
    BY <2>2, <2>3
  <2> QED BY <1>2, <1>3, <1>4, <1>7, <2>2, <2>4, MovesFields, UserLeaves
<1> QED BY <1>5, <1>6, <1>7 DEF Tab!DeleteSession

LEMMA StepClearAllSessions ==
    ASSUME Tab!ClientConstants, TabInv, Tab!ClearAllSessions
    PROVE  TabInv'
<1>1. Tab!TypeOK
  BY DEF TabInv
<1>2. /\ Tab!Moves /\ Tab!Deleted(Threads) /\ listed' = {} /\ active' = None /\ messages' = <<>>
      /\ loaded' = loaded /\ calls' = calls
  BY DEF Tab!ClearAllSessions
<1>3. calm' \in BOOLEAN /\ (calm' => calm /\ ~Tab!Busy)
  BY <1>2, MovesCalm
<1>4. db' \in [Threads -> Seq(Tab!Message)] /\ \A r \in Threads : db'[r] = db[r] \/ db'[r] = <<>>
  BY <1>2, DeletedFields
<1>5. loaded \in Threads \union {None}
  BY <1>1 DEF Tab!TypeOK
<1> QED BY <1>2, <1>3, <1>4, <1>5, MovesFields, UserLeaves

\* A question runs only while no history is asked for.
LEMMA AskingIsIdle ==
    ASSUME TabInv, calls # {}, calm
    PROVE  Calm /\ \A q \in Questions : ~Tab!Running(q)
  BY DEF TabInv, Calm, Attended

LEMMA StepAnswerHistory ==
    ASSUME Tab!ClientConstants, TabInv, NEW c \in calls, Tab!AnswerHistory(c)
    PROVE  TabInv'
<1>1. Tab!TypeOK /\ RowsKeepTheirSession /\ QuestionsHaveSessions /\ Tab!ShownIsOfActive
  BY DEF TabInv
<1>2. /\ db' = db /\ listed' = listed /\ starting' = starting /\ active' = active
      /\ loaded' = loaded /\ messages' = messages /\ streaming' = streaming
      /\ question' = question /\ inputs' = inputs /\ calm' = calm /\ returned' = returned
  BY DEF Tab!AnswerHistory, Tab!shown
<1> DEFINE d == [c EXCEPT !.pc = "answered", !.rows = db[c.of]]
<1>3. calls' = (calls \ {c}) \union {d}
  BY DEF Tab!AnswerHistory
<1>4. c \in Tab!Call /\ c.of \in Threads /\ db[c.of] \in Seq(Tab!Message)
  BY <1>1 DEF Tab!TypeOK, Tab!Call
<1>5. d \in Tab!Call /\ d.of = c.of /\ d.rows = db[c.of] /\ d.pc = "answered"
  BY <1>4 DEF Tab!Call
<1> HIDE DEF d
<1>6. Tab!TypeOK'
  BY <1>1, <1>2, <1>3, <1>5 DEF Tab!TypeOK
<1>7. RowsKeepTheirSession'
  BY <1>1, <1>2, <1>3, <1>4, <1>5 DEF RowsKeepTheirSession
<1>8. QuestionsHaveSessions' /\ Tab!ShownIsOfActive'
  BY <1>1, <1>2 DEF QuestionsHaveSessions, Tab!ShownIsOfActive, Tab!IsShown
<1>9. ASSUME calm' PROVE Calm'
  <2>1. Calm /\ \A q \in Questions : ~Tab!Running(q)
    BY <1>2, <1>9, AskingIsIdle
  <2>2. \A x \in calls' : x.pc = "answered" => db'[x.of] = <<>> \/ x.rows = db'[x.of]
    BY <1>2, <1>3, <1>5, <2>1 DEF Calm
  <2>3. \A q \in Questions : ~Tab!Running(q)'
    BY <1>2, <2>1 DEF Tab!Running
  <2>4. \A q \in Questions : (Latest(q)' <=> Latest(q)) /\ (Tab!Looking(q)' <=> Tab!Looking(q))
    BY <1>2 DEF Latest, Tab!Looking, Tab!IsLatest, Tab!Stored
  <2>5. ~streaming'
    BY <1>2, <2>1 DEF Calm
  <2> QED BY <1>2, <2>1, <2>2, <2>3, <2>4, <2>5 DEF Calm, Tab!IsShown, Ours, Answer
<1> QED BY <1>6, <1>7, <1>8, <1>9 DEF TabInv

LEMMA StepHistoryArrives ==
    ASSUME Tab!ClientConstants, TabInv, NEW c \in calls, Tab!HistoryArrives(c)
    PROVE  TabInv'
<1>1. Tab!TypeOK /\ RowsKeepTheirSession /\ QuestionsHaveSessions /\ Tab!ShownIsOfActive
  BY DEF TabInv
<1>2. /\ messages' \in {<<>>, c.rows} /\ loaded' = c.of /\ calls' = calls \ {c}
      /\ Tab!Deleted({c.removes})
      /\ listed' = listed /\ starting' = starting /\ active' = active /\ streaming' = streaming
      /\ question' = question /\ inputs' = inputs /\ calm' = calm /\ returned' = returned
  BY DEF Tab!HistoryArrives
<1>3. c \in Tab!Call /\ c.of \in Threads /\ c.rows \in Seq(Tab!Message) /\ <<>> \in Seq(Tab!Message)
  BY <1>1 DEF Tab!TypeOK, Tab!Call
<1>4. db' \in [Threads -> Seq(Tab!Message)] /\ \A r \in Threads : db'[r] = db[r] \/ db'[r] = <<>>
  BY <1>2, DeletedFields
<1>5. Tab!TypeOK'
  BY <1>1, <1>2, <1>3, <1>4 DEF Tab!TypeOK
<1>6. \A t : OfSession(<<>>, t) /\ Ours(<<>>)
  BY DEF OfSession, Ours
<1>7. RowsKeepTheirSession'
  BY <1>1, <1>2, <1>4, <1>6 DEF RowsKeepTheirSession, OfSession, Ours
<1>8. OfSession(messages', c.of) /\ Ours(messages')
  <2>1. OfSession(c.rows, c.of) /\ Ours(c.rows)
    BY <1>1 DEF RowsKeepTheirSession
  <2> QED BY <1>2, <1>6, <2>1
<1>9. QuestionsHaveSessions' /\ Tab!ShownIsOfActive'
  BY <1>1, <1>2, <1>8 DEF QuestionsHaveSessions, Tab!ShownIsOfActive, Tab!IsShown, OfSession
<1>10. ASSUME calm' PROVE Calm'
  <2>1. Calm /\ \A q \in Questions : ~Tab!Running(q)
    BY <1>2, <1>10, AskingIsIdle
  <2>2. ~streaming' /\ \A q \in Questions : ~Tab!Running(q)'
    BY <1>2, <2>1 DEF Calm, Tab!Running
  <2>3. \A t \in Tab!Stored' : t \in Tab!Stored /\ db'[t] = db[t]
    BY <1>4 DEF Tab!Stored
  <2>4. \A q \in Questions : Latest(q)' => Latest(q) /\ db'[question[q].of] = db[question[q].of]
    BY <1>2, <2>3 DEF Latest, Tab!IsLatest
  <2>5. \A x \in calls' : x.pc = "answered" => db'[x.of] = <<>> \/ x.rows = db'[x.of]
    <3> TAKE x \in calls'
    <3> HAVE x.pc = "answered"
    <3>1. x \in calls /\ x.of \in Threads
      BY <1>1, <1>2 DEF Tab!TypeOK, Tab!Call
    <3> QED BY <1>4, <2>1, <3>1 DEF Calm
  <2>6. \A q \in Questions : Latest(q)' => Answer(db[question[q].of], q)'
    BY <1>2, <2>1, <2>4 DEF Calm, Answer
  <2>7. \A q \in Questions : Latest(q)' /\ Tab!Looking(q)' /\ Tab!IsShown' /\ messages' # <<>> =>
           Answer(messages, q)'
    <3> TAKE q \in Questions
    <3> HAVE Latest(q)' /\ Tab!Looking(q)' /\ Tab!IsShown' /\ messages' # <<>>
    <3>1. question[q].of = c.of /\ messages' = c.rows
      BY <1>2 DEF Tab!Looking, Tab!IsShown
    <3>2. Latest(q) /\ db[c.of] # <<>>
      BY <2>4, <3>1 DEF Latest, Tab!Stored
    <3>3. c.pc = "answered"
      <4>1. c.pc \in {"asked", "answered"}
        BY <1>3 DEF Tab!Call
      <4>2. c.pc = "asked" => c.rows = <<>>
        BY <1>1 DEF RowsKeepTheirSession
      <4> QED BY <3>1, <4>1, <4>2
    <3>4. c.rows = db[c.of] /\ Answer(db[c.of], q)
      BY <2>1, <3>1, <3>2, <3>3 DEF Calm
    <3> QED BY <3>1, <3>4 DEF Answer
  <2>8. Ours(messages)'
    BY <1>8 DEF Ours
  <2> QED BY <2>2, <2>5, <2>6, <2>7, <2>8 DEF Calm
<1> QED BY <1>5, <1>7, <1>9, <1>10 DEF TabInv

----------------------------------------------------------------------------
\* Questions and streams

LEMMA StepSend ==
    ASSUME Tab!ClientConstants, TabInv, NEW q \in Questions, Tab!Send(q)
    PROVE  TabInv'
<1>1. Tab!TypeOK /\ Tab!ShownIsOfActive
  BY DEF TabInv
<1>2. /\ messages \in Seq(Tab!Message) /\ listed \subseteq Threads
      /\ active \in Threads \union {None} /\ loaded \in Threads \union {None}
      /\ <<>> \in Seq(Tab!Message)
  BY <1>1 DEF Tab!TypeOK
<1>3. db' = db /\ starting' = starting /\ calls' = calls /\ returned' = returned
  BY DEF Tab!Send
<1>4. CASE active # None
  <2>1. active \in Threads /\ Tab!Sent(q, active, messages)
        /\ listed' = listed /\ active' = active /\ loaded' = loaded
    BY <1>2, <1>4 DEF Tab!Send
  <2>2. loaded' = active \/ ~Tab!IsShown
    BY <2>1 DEF Tab!IsShown
  <2>3. loaded' = active /\ ~returned => OfSession(messages, active)
    BY <1>1, <2>1 DEF Tab!ShownIsOfActive, Tab!IsShown, OfSession
  <2> QED BY <1>2, <1>3, <2>1, <2>2, <2>3, Asks
<1>5. CASE active = None
  <2>1. PICK t \in Threads : /\ Tab!Sent(q, t, <<>>)
                             /\ listed' = listed \union {t}
                             /\ active' = t /\ loaded' = t
    BY <1>5, FreshFields DEF Tab!Send
  <2>2. OfSession(<<>>, t) /\ Ours(<<>>)
    BY DEF OfSession, Ours
  <2> QED BY <1>2, <1>3, <2>1, <2>2, Asks
<1> QED BY <1>4, <1>5

LEMMA StepRetry ==
    ASSUME Tab!ClientConstants, TabInv, NEW q \in Questions, Tab!Retry(q)
    PROVE  TabInv'
<1>1. Tab!TypeOK /\ Tab!ShownIsOfActive
  BY DEF TabInv
<1>2. /\ messages \in Seq(Tab!Message) /\ listed \subseteq Threads
      /\ active \in Threads /\ loaded = active
  BY <1>1 DEF Tab!TypeOK, Tab!Retry, Tab!IsShown
<1>3. /\ db' = db /\ starting' = starting /\ calls' = calls /\ returned' = returned
      /\ listed' = listed /\ active' = active /\ loaded' = loaded
  BY DEF Tab!Retry
<1> DEFINE s == IF Tab!LastIsAssistant(messages) THEN Tab!Front(messages) ELSE messages
           cut == Tab!LastIsAssistant(messages) /\ s # <<>> /\ Tab!Last(s).role = "user"
           w == IF cut THEN Tab!Front(s) ELSE s
<1>4. Tab!Sent(q, active, w)
  BY DEF Tab!Retry
<1>5. Begins(s, messages)
  <2>1. Begins(messages, messages)
    BY <1>2 DEF Begins
  <2> QED BY <1>2, <2>1, FrontFields DEF Tab!LastIsAssistant
<1>6. s \in Seq(Tab!Message) /\ (cut => s # <<>>)
  BY <1>5 DEF Begins
<1> HIDE DEF s, cut
<1>7. Begins(w, s)
  <2>1. Begins(s, s)
    BY <1>6 DEF Begins
  <2> QED BY <1>6, <2>1, FrontFields
<1> HIDE DEF w
<1>8. /\ w \in Seq(Tab!Message)
      /\ \A t : OfSession(messages, t) => OfSession(w, t)
      /\ Ours(messages) => Ours(w)
  BY <1>5, <1>7, BeginsFields DEF Begins
<1>9. ~returned => OfSession(messages, active)
  BY <1>1, <1>2 DEF Tab!ShownIsOfActive, Tab!IsShown, OfSession
<1> QED BY <1>2, <1>3, <1>4, <1>8, <1>9, Asks

\* What is known of a running question.
LEMMA RunningFields ==
    ASSUME TabInv, NEW q \in Questions, Tab!Running(q)
    PROVE  /\ question \in [Questions -> Tab!Question]
           /\ question[q].pc \in {"fetch", "open"} /\ question[q].of \in Threads
           /\ db \in [Threads -> Seq(Tab!Message)] /\ listed \subseteq Threads
           /\ messages \in Seq(Tab!Message) /\ streaming \in BOOLEAN
           /\ calm \in BOOLEAN /\ returned \in BOOLEAN
           /\ OfSession(db[question[q].of], question[q].of) /\ Ours(db[question[q].of])
           /\ calm => /\ Ours(messages) /\ Tab!Looking(q)
                      /\ Tab!LastIsAssistant(messages) /\ Tab!Last(messages).turn = q
                      /\ question[q].pc = "open" => AnswerRow(db[question[q].of], q)
<1>1. Tab!TypeOK /\ RowsKeepTheirSession /\ QuestionsHaveSessions /\ (calm => Calm)
  BY DEF TabInv
<1>2. question[q] \in Tab!Question /\ question[q].of # None
  BY <1>1 DEF Tab!TypeOK, QuestionsHaveSessions, Tab!Running
<1>3. question[q].of \in Threads
  BY <1>2 DEF Tab!Question
<1> QED BY <1>1, <1>3 DEF Tab!TypeOK, RowsKeepTheirSession, Tab!Running, Calm, Attended,
   Tab!Looking

LEMMA BecomesFields ==
    ASSUME TabInv, NEW q \in Questions, NEW pc \in {"fetch", "open", "done", "ended"}, Tab!Becomes(q, pc)
    PROVE  /\ question' \in [Questions -> Tab!Question]
           /\ question'[q].pc = pc /\ question'[q].of = question[q].of
           /\ \A r \in Questions : r # q => question'[r] = question[r]
<1>1. question \in [Questions -> Tab!Question]
  BY DEF TabInv, Tab!TypeOK
<1> QED BY <1>1 DEF Tab!Becomes, Tab!Question

LEMMA StepAccepted ==
    ASSUME Tab!ClientConstants, TabInv, NEW q \in Questions, Tab!Accepted(q)
    PROVE  TabInv'
<1>1. /\ question[q].pc = "fetch" /\ Tab!Becomes(q, "open")
      /\ db' = [db EXCEPT ![question[q].of] = @ \o Tab!Rows(q)]
      /\ listed' = listed /\ starting' = starting /\ active' = active /\ loaded' = loaded
      /\ messages' = messages /\ streaming' = streaming /\ calls' = calls /\ calm' = calm
      /\ inputs' = inputs /\ returned' = returned
  BY DEF Tab!Accepted, Tab!shown
<1>2. Tab!Running(q)
  BY <1>1 DEF Tab!Running
<1>3. /\ question' \in [Questions -> Tab!Question]
      /\ question'[q].pc = "open" /\ question'[q].of = question[q].of
      /\ \A r \in Questions : r # q => question'[r] = question[r]
  BY <1>1, BecomesFields
<1> DEFINE t == question[q].of
           a == Tab!Said(t, q, "user", "own")
           b == Tab!Said(t, q, "assistant", "empty")
<1>4. t \in Threads /\ db \in [Threads -> Seq(Tab!Message)] /\ OfSession(db[t], t) /\ Ours(db[t])
  BY <1>2, RunningFields
<1>5. db' = [db EXCEPT ![t] = db[t] \o <<a, b>>]
  BY <1>1 DEF Tab!Rows
<1>6. /\ a \in Tab!Message /\ b \in Tab!Message /\ a.of = t /\ b.of = t /\ b.turn = q
      /\ b.role = "assistant" /\ a.text = "own" /\ b.text = "empty"
  BY <1>4, SaidFields
<1> HIDE DEF a, b
<1>7. /\ db[t] \o <<a, b>> \in Seq(Tab!Message)
      /\ OfSession(db[t] \o <<a, b>>, t) /\ Ours(db[t] \o <<a, b>>)
      /\ AnswerRow(db[t] \o <<a, b>>, q)
  BY <1>4, <1>6, PairFields
<1>8. /\ db' \in [Threads -> Seq(Tab!Message)]
      /\ \A r \in Threads : r # t => db'[r] = db[r]
      /\ OfSession(db'[t], t) /\ Ours(db'[t]) /\ AnswerRow(db'[t], q)
  BY <1>4, <1>5, <1>7
<1>9. \/ active' = active /\ (returned => returned')
      \/ active' = question[q].of /\ returned'
  BY <1>1
<1>10. calm => Ours(messages) /\ Tab!LastIsAssistant(messages) /\ Tab!Last(messages).turn = q
  BY <1>2, RunningFields
<1>11. /\ messages \in Seq(Tab!Message) /\ streaming \in BOOLEAN /\ calm \in BOOLEAN
       /\ returned \in BOOLEAN /\ listed \subseteq Threads
  BY <1>2, RunningFields
<1>12. Tab!Running(q)'
  BY <1>3 DEF Tab!Running
<1> HIDE DEF t
<1> QED BY <1>1, <1>2, <1>3, <1>8, <1>9, <1>10, <1>11, <1>12, Streams DEF t

LEMMA StepUnauthorized ==
    ASSUME Tab!ClientConstants, TabInv, NEW q \in Questions, Tab!Unauthorized(q)
    PROVE  TabInv'
<1>1. /\ question[q].pc = "fetch" /\ Tab!Becomes(q, "ended") /\ db' = db
      /\ listed' = listed /\ starting' = starting /\ active' = active /\ loaded' = loaded
      /\ messages' = messages /\ streaming' = streaming /\ calls' = calls /\ calm' = FALSE
      /\ inputs' = inputs /\ returned' = returned
  BY DEF Tab!Unauthorized, Tab!shown
<1>2. Tab!Running(q)
  BY <1>1 DEF Tab!Running
<1>3. /\ question' \in [Questions -> Tab!Question]
      /\ question'[q].pc = "ended" /\ question'[q].of = question[q].of
      /\ \A r \in Questions : r # q => question'[r] = question[r]
  BY <1>1, BecomesFields
<1>4. /\ db \in [Threads -> Seq(Tab!Message)]
      /\ OfSession(db[question[q].of], question[q].of) /\ Ours(db[question[q].of])
      /\ messages \in Seq(Tab!Message) /\ streaming \in BOOLEAN
      /\ returned \in BOOLEAN /\ listed \subseteq Threads
  BY <1>2, RunningFields
<1> QED BY <1>1, <1>2, <1>3, <1>4, Streams

LEMMA StepFailed ==
    ASSUME Tab!ClientConstants, TabInv, NEW q \in Questions, Tab!Failed(q)
    PROVE  TabInv'
<1>1. /\ Tab!Running(q) /\ Tab!Becomes(q, "ended") /\ db' = db
      /\ listed' = listed /\ starting' = starting /\ active' = active /\ loaded' = loaded
      /\ calls' = calls /\ calm' = calm /\ inputs' = inputs /\ returned' = returned
  BY DEF Tab!Failed
<1>2. /\ question' \in [Questions -> Tab!Question]
      /\ question'[q].pc = "ended" /\ question'[q].of = question[q].of
      /\ \A r \in Questions : r # q => question'[r] = question[r]
  BY <1>1, BecomesFields
<1>3. /\ db \in [Threads -> Seq(Tab!Message)]
      /\ OfSession(db[question[q].of], question[q].of) /\ Ours(db[question[q].of])
      /\ messages \in Seq(Tab!Message) /\ streaming \in BOOLEAN /\ calm \in BOOLEAN
      /\ returned \in BOOLEAN /\ listed \subseteq Threads
      /\ calm => Ours(messages) /\ Tab!Looking(q)
  BY <1>1, RunningFields
<1>4. ~Tab!Running(q)'
  BY <1>2 DEF Tab!Running
<1>5. /\ messages' \in Seq(Tab!Message) /\ streaming' \in BOOLEAN
      /\ \A t : OfSession(messages, t) => OfSession(messages', t)
      /\ Ours(messages) => Ours(messages')
      /\ Tab!Looking(q) => ~streaming'
  <2>1. CASE Tab!Looking(q)
    <3>1. messages' = Tab!WithoutPlaceholder(messages) /\ streaming' = FALSE
      BY <2>1 DEF Tab!Failed
    <3>2. Begins(messages', messages)
      BY <1>3, <3>1, WithoutFields
    <3> QED BY <3>1, <3>2, BeginsFields DEF Begins
  <2>2. CASE ~Tab!Looking(q)
    BY <1>3, <2>2 DEF Tab!Failed
  <2> QED BY <2>1, <2>2
<1> QED BY <1>1, <1>2, <1>3, <1>4, <1>5, Streams

LEMMA StepStatusEvent ==
    ASSUME Tab!ClientConstants, TabInv, NEW q \in Questions, Tab!StatusEvent(q)
    PROVE  TabInv'
<1>1. /\ question[q].pc = "open" /\ question' = question /\ db' = db
      /\ listed' = listed /\ starting' = starting /\ active' = active /\ loaded' = loaded
      /\ messages' = messages /\ calls' = calls /\ calm' = calm
      /\ inputs' = inputs /\ returned' = returned /\ streaming' = (streaming \/ Tab!Looking(q))
  BY DEF Tab!StatusEvent
<1>2. Tab!Running(q) /\ Tab!Running(q)'
  BY <1>1 DEF Tab!Running
<1>3. /\ question \in [Questions -> Tab!Question] /\ db \in [Threads -> Seq(Tab!Message)]
      /\ OfSession(db[question[q].of], question[q].of) /\ Ours(db[question[q].of])
      /\ messages \in Seq(Tab!Message) /\ streaming \in BOOLEAN /\ calm \in BOOLEAN
      /\ returned \in BOOLEAN /\ listed \subseteq Threads
      /\ calm => /\ Ours(messages) /\ Tab!LastIsAssistant(messages) /\ Tab!Last(messages).turn = q
                 /\ question[q].pc = "open" => AnswerRow(db[question[q].of], q)
  BY <1>2, RunningFields
<1>4. streaming' \in BOOLEAN
  BY <1>1, <1>3
<1> QED BY <1>1, <1>2, <1>3, <1>4, Streams

LEMMA StepStreamingEvent ==
    ASSUME Tab!ClientConstants, TabInv, NEW q \in Questions, Tab!StreamingEvent(q)
    PROVE  TabInv'
<1>1. /\ question[q].pc = "open" /\ question' = [question EXCEPT ![q].content = TRUE] /\ db' = db
      /\ listed' = listed /\ starting' = starting /\ active' = active /\ loaded' = loaded
      /\ calls' = calls /\ calm' = calm /\ inputs' = inputs /\ returned' = returned
  BY DEF Tab!StreamingEvent
<1>2. Tab!Running(q)
  BY <1>1 DEF Tab!Running
<1>3. /\ question \in [Questions -> Tab!Question] /\ db \in [Threads -> Seq(Tab!Message)]
      /\ OfSession(db[question[q].of], question[q].of) /\ Ours(db[question[q].of])
      /\ messages \in Seq(Tab!Message) /\ streaming \in BOOLEAN /\ calm \in BOOLEAN
      /\ returned \in BOOLEAN /\ listed \subseteq Threads
      /\ calm => /\ Ours(messages) /\ Tab!LastIsAssistant(messages) /\ Tab!Last(messages).turn = q
                 /\ Tab!Looking(q) /\ (question[q].pc = "open" => AnswerRow(db[question[q].of], q))
  BY <1>2, RunningFields
<1>4. /\ question' \in [Questions -> Tab!Question]
      /\ question'[q].pc = "open" /\ question'[q].of = question[q].of
      /\ \A r \in Questions : r # q => question'[r] = question[r]
  BY <1>1, <1>3 DEF Tab!Question
<1>5. /\ messages' \in Seq(Tab!Message) /\ streaming' \in BOOLEAN
      /\ \A t : OfSession(messages, t) => OfSession(messages', t)
      /\ calm => Ours(messages') /\ Tab!LastIsAssistant(messages') /\ Tab!Last(messages').turn = q
  <2>1. CASE Tab!Looking(q)
    <3>1. messages' = Tab!Replaced(messages, q) /\ streaming' = TRUE
      BY <2>1 DEF Tab!StreamingEvent
    <3> QED BY <1>3, <3>1, ReplacedFields
  <2>2. CASE ~Tab!Looking(q)
    BY <1>3, <2>2 DEF Tab!StreamingEvent
  <2> QED BY <2>1, <2>2
<1>6. Tab!Running(q)'
  BY <1>4 DEF Tab!Running
<1> QED BY <1>1, <1>2, <1>3, <1>4, <1>5, <1>6, Streams

LEMMA StepErrorEvent ==
    ASSUME Tab!ClientConstants, TabInv, NEW q \in Questions, Tab!ErrorEvent(q)
    PROVE  TabInv'
<1>1. /\ question[q].pc = "open" /\ question' = question /\ db' = db
      /\ messages' = Tab!Replaced(messages, q) /\ streaming' = FALSE
      /\ listed' = listed /\ starting' = starting /\ active' = active /\ loaded' = loaded
      /\ calls' = calls /\ calm' = calm /\ inputs' = inputs /\ returned' = returned
  BY DEF Tab!ErrorEvent
<1>2. Tab!Running(q) /\ Tab!Running(q)'
  BY <1>1 DEF Tab!Running
<1>3. /\ question \in [Questions -> Tab!Question] /\ db \in [Threads -> Seq(Tab!Message)]
      /\ OfSession(db[question[q].of], question[q].of) /\ Ours(db[question[q].of])
      /\ messages \in Seq(Tab!Message) /\ calm \in BOOLEAN
      /\ returned \in BOOLEAN /\ listed \subseteq Threads
      /\ calm => /\ Ours(messages) /\ Tab!LastIsAssistant(messages) /\ Tab!Last(messages).turn = q
                 /\ question[q].pc = "open" => AnswerRow(db[question[q].of], q)
  BY <1>2, RunningFields
<1>4. /\ messages' \in Seq(Tab!Message)
      /\ \A t : OfSession(messages, t) => OfSession(messages', t)
      /\ calm => Ours(messages') /\ Tab!LastIsAssistant(messages') /\ Tab!Last(messages').turn = q
  BY <1>1, <1>3, ReplacedFields
<1> QED BY <1>1, <1>2, <1>3, <1>4, Streams

\* An answer that is saved is in its row.
LEMMA SavedFields ==
    ASSUME TabInv, NEW q \in Questions, Tab!Running(q), Tab!Saved(q)
    PROVE  /\ db' \in [Threads -> Seq(Tab!Message)]
           /\ \A t \in Threads : t # question[q].of => db'[t] = db[t]
           /\ OfSession(db'[question[q].of], question[q].of) /\ Ours(db'[question[q].of])
           /\ AnswerRow(db[question[q].of], q) => Answer(db'[question[q].of], q)
<1> DEFINE t == question[q].of
           s == db[t]
           w == [i \in DOMAIN s |-> IF s[i].turn = q THEN [s[i] EXCEPT !.text = "own"] ELSE s[i]]
<1>1. t \in Threads /\ db \in [Threads -> Seq(Tab!Message)] /\ OfSession(s, t) /\ Ours(s)
  BY RunningFields
<1>2. db' = [db EXCEPT ![t] = w]
  BY DEF Tab!Saved
<1>3. s \in Seq(Tab!Message)
  BY <1>1
<1>4. \A i \in DOMAIN s :
         /\ w[i] \in Tab!Message /\ w[i].turn = s[i].turn /\ w[i].of = s[i].of
         /\ w[i].role = s[i].role
         /\ w[i].text = (IF s[i].turn = q THEN "own" ELSE s[i].text)
  <2> TAKE i \in DOMAIN s
  <2>1. s[i] \in Tab!Message
    BY <1>3
  <2>2. w[i] = IF s[i].turn = q THEN [s[i] EXCEPT !.text = "own"] ELSE s[i]
    OBVIOUS
  <2> HIDE DEF w, s
  <2> QED BY <2>1, <2>2 DEF Tab!Message
<1>5. DOMAIN w = DOMAIN s /\ w = [i \in DOMAIN s |-> w[i]]
  OBVIOUS
<1> HIDE DEF w
<1>6. w \in Seq(Tab!Message)
  <2> DEFINE n == Len(s)
  <2>1. n \in Nat /\ DOMAIN s = 1 .. n
    BY <1>3
  <2> HIDE DEF n, s
  <2>2. w \in [1 .. n -> Tab!Message]
    BY <1>4, <1>5, <2>1
  <2> QED BY <2>1, <2>2
<1>7. OfSession(w, t) /\ Ours(w)
  BY <1>1, <1>4, <1>5 DEF OfSession, Ours
<1>8. AnswerRow(s, q) => Answer(w, q)
  BY <1>4, <1>5 DEF AnswerRow, Answer
<1> HIDE DEF t
<1> QED BY <1>1, <1>2, <1>6, <1>7, <1>8 DEF t

LEMMA StepDoneEvent ==
    ASSUME Tab!ClientConstants, TabInv, NEW q \in Questions, Tab!DoneEvent(q)
    PROVE  TabInv'
<1>1. /\ question[q].pc = "open" /\ Tab!Becomes(q, "done") /\ Tab!Saved(q)
      /\ active' = question[q].of /\ returned' = (returned \/ ~Tab!Looking(q))
      /\ starting' = starting /\ loaded' = loaded
      /\ calls' = calls /\ calm' = calm /\ inputs' = inputs
  BY DEF Tab!DoneEvent
<1>2. Tab!Running(q)
  BY <1>1 DEF Tab!Running
<1>3. /\ question[q].of \in Threads
      /\ messages \in Seq(Tab!Message) /\ streaming \in BOOLEAN /\ calm \in BOOLEAN
      /\ returned \in BOOLEAN /\ listed \subseteq Threads
      /\ calm => /\ Ours(messages) /\ Tab!LastIsAssistant(messages) /\ Tab!Last(messages).turn = q
                 /\ Tab!Looking(q) /\ (question[q].pc = "open" => AnswerRow(db[question[q].of], q))
  BY <1>2, RunningFields
<1>4. /\ question' \in [Questions -> Tab!Question]
      /\ question'[q].pc = "done" /\ question'[q].of = question[q].of
      /\ \A r \in Questions : r # q => question'[r] = question[r]
  BY <1>1, BecomesFields
<1>5. /\ db' \in [Threads -> Seq(Tab!Message)]
      /\ \A t \in Threads : t # question[q].of => db'[t] = db[t]
      /\ OfSession(db'[question[q].of], question[q].of) /\ Ours(db'[question[q].of])
      /\ AnswerRow(db[question[q].of], q) => Answer(db'[question[q].of], q)
  BY <1>1, <1>2, SavedFields
<1>6. /\ messages' \in Seq(Tab!Message) /\ streaming' \in BOOLEAN
      /\ \A t : OfSession(messages, t) => OfSession(messages', t)
      /\ calm => Ours(messages') /\ Answer(messages', q) /\ ~streaming'
  <2>1. CASE Tab!Looking(q)
    <3>1. messages' = Tab!Replaced(messages, q) /\ streaming' = FALSE
      BY <2>1 DEF Tab!DoneEvent
    <3> QED BY <1>3, <3>1, ReplacedFields
  <2>2. CASE ~Tab!Looking(q)
    BY <1>3, <2>2 DEF Tab!DoneEvent
  <2> QED BY <2>1, <2>2
<1>7. listed' \subseteq Threads
  BY <1>3 DEF Tab!DoneEvent, Tab!Stored
<1>8. /\ returned' \in BOOLEAN
      /\ \/ active' = active /\ (returned => returned')
         \/ active' = question[q].of /\ returned'
  BY <1>1, <1>3 DEF Tab!Looking
<1>9. ~Tab!Running(q)'
  BY <1>4 DEF Tab!Running
<1> QED BY <1>1, <1>2, <1>3, <1>4, <1>5, <1>6, <1>7, <1>8, <1>9, Streams

LEMMA StepStreamEnds ==
    ASSUME Tab!ClientConstants, TabInv, NEW q \in Questions, Tab!StreamEnds(q)
    PROVE  TabInv'
<1>1. /\ question[q].pc = "open" /\ Tab!Becomes(q, "ended") /\ db' = db
      /\ listed' = listed /\ starting' = starting /\ active' = active /\ loaded' = loaded
      /\ calls' = calls /\ calm' = calm /\ inputs' = inputs /\ returned' = returned
  BY DEF Tab!StreamEnds
<1>2. Tab!Running(q)
  BY <1>1 DEF Tab!Running
<1>3. /\ question' \in [Questions -> Tab!Question]
      /\ question'[q].pc = "ended" /\ question'[q].of = question[q].of
      /\ \A r \in Questions : r # q => question'[r] = question[r]
  BY <1>1, BecomesFields
<1>4. /\ db \in [Threads -> Seq(Tab!Message)]
      /\ OfSession(db[question[q].of], question[q].of) /\ Ours(db[question[q].of])
      /\ messages \in Seq(Tab!Message) /\ streaming \in BOOLEAN /\ calm \in BOOLEAN
      /\ returned \in BOOLEAN /\ listed \subseteq Threads
      /\ calm => Ours(messages) /\ Tab!Looking(q) /\ Tab!LastIsAssistant(messages) /\ Tab!Last(messages).turn = q
  BY <1>2, RunningFields
<1>5. ~Tab!Running(q)'
  BY <1>3 DEF Tab!Running
<1>6. /\ messages' \in Seq(Tab!Message) /\ streaming' \in BOOLEAN
      /\ \A t : OfSession(messages, t) => OfSession(messages', t)
      /\ calm => Ours(messages') /\ ~streaming'
  <2>1. CASE Tab!Looking(q) /\ question[q].content
    <3>1. messages' = Tab!Replaced(messages, q) /\ streaming' = FALSE
      BY <2>1 DEF Tab!StreamEnds
    <3> QED BY <1>4, <3>1, ReplacedFields
  <2>2. CASE Tab!Looking(q) /\ ~question[q].content
    <3>1. messages' = Tab!WithoutPlaceholder(messages) /\ streaming' = FALSE
      BY <2>2 DEF Tab!StreamEnds
    <3>2. Begins(messages', messages)
      BY <1>4, <3>1, WithoutFields
    <3> QED BY <1>4, <3>1, <3>2, BeginsFields DEF Begins
  <2>3. CASE ~Tab!Looking(q)
    BY <1>4, <2>3 DEF Tab!StreamEnds
  <2> QED BY <2>1, <2>2, <2>3
<1> QED BY <1>1, <1>2, <1>3, <1>4, <1>5, <1>6, Streams

----------------------------------------------------------------------------
\* The tab

LEMMA TabStart ==
    ASSUME Tab!ClientConstants, Tab!Init
    PROVE  TabInv
<1>1. /\ active \in Threads /\ loaded = active /\ messages = <<>> /\ ~streaming /\ calls = {}
      /\ calm = TRUE /\ returned = FALSE /\ inputs = 0 /\ starting = 1
      /\ listed = Old \union {active}
      /\ \A q \in Questions : question[q] = Tab!Unsent
  BY DEF Tab!Init, Tab!ClientConstants
<1>2. \A t \in Threads : /\ db[t] \in Seq(Tab!Message) /\ OfSession(db[t], t) /\ Ours(db[t])
  <2> TAKE t \in Threads
  <2> DEFINE a == Tab!Said(t, None, "user", "own")
             b == Tab!Said(t, None, "assistant", "own")
  <2>1. /\ a \in Tab!Message /\ b \in Tab!Message /\ a.of = t /\ b.of = t /\ a.text = "own"
        /\ b.text = "own"
    BY SaidFields
  <2>2. db[t] = <<a, b>> \/ db[t] = <<>>
    BY DEF Tab!Init
  <2> HIDE DEF a, b
  <2>3. /\ <<a, b>> \in Seq(Tab!Message) /\ DOMAIN <<a, b>> = {1, 2}
        /\ <<a, b>>[1] = a /\ <<a, b>>[2] = b
        /\ <<>> \in Seq(Tab!Message) /\ DOMAIN <<>> = {}
    BY <2>1
  <2> QED BY <2>1, <2>2, <2>3 DEF OfSession, Ours
<1>3. question \in [Questions -> Tab!Question] /\ db \in [Threads -> Seq(Tab!Message)]
  BY <1>2 DEF Tab!Init, Tab!Unsent, Tab!Question
<1>4. <<>> \in Seq(Tab!Message)
  OBVIOUS
<1>5. Tab!TypeOK
  <2>1. /\ \A c \in calls : c \in Tab!Call
        /\ listed \subseteq Threads /\ inputs \in 0 .. MaxInputs /\ starting \in 0 .. 1
    BY <1>1 DEF Tab!ClientConstants
  <2>2. calm \in BOOLEAN /\ returned \in BOOLEAN /\ streaming \in BOOLEAN
    BY <1>1 DEF Tab!Init
  <2> QED BY <1>1, <1>3, <1>4, <2>1, <2>2 DEF Tab!TypeOK
<1>6. RowsKeepTheirSession
  BY <1>1, <1>2 DEF RowsKeepTheirSession
<1>7. QuestionsHaveSessions /\ Tab!ShownIsOfActive
  BY <1>1 DEF QuestionsHaveSessions, Tab!ShownIsOfActive, Tab!Unsent
<1>8. Calm
  BY <1>1 DEF Calm, Ours, Latest, Tab!Running, Tab!Unsent
<1> QED BY <1>5, <1>6, <1>7, <1>8 DEF TabInv

LEMMA TabUnchanged ==
    ASSUME TabInv, UNCHANGED Tab!vars
    PROVE  TabInv'
<1>1. /\ db' = db /\ listed' = listed /\ starting' = starting /\ active' = active
      /\ loaded' = loaded /\ messages' = messages /\ streaming' = streaming /\ calls' = calls
      /\ question' = question /\ inputs' = inputs /\ calm' = calm /\ returned' = returned
  BY DEF Tab!vars, Tab!shown
<1>2. Tab!TypeOK' /\ RowsKeepTheirSession' /\ QuestionsHaveSessions' /\ Tab!ShownIsOfActive'
  BY <1>1 DEF TabInv, Tab!TypeOK, RowsKeepTheirSession, QuestionsHaveSessions,
     Tab!ShownIsOfActive,
     Tab!IsShown
<1>3. \A q \in Questions : /\ Tab!Running(q)' <=> Tab!Running(q)
                           /\ Tab!Looking(q)' <=> Tab!Looking(q)
                           /\ Latest(q)' <=> Latest(q)
                           /\ Attended(q)' <=> Attended(q)
  BY <1>1 DEF Tab!Running, Tab!Looking, Latest, Tab!IsLatest, Tab!Stored, Attended
<1>4. calm' => Calm'
  BY <1>1, <1>3 DEF TabInv, Calm, Tab!IsShown, Ours, Answer
<1> QED BY <1>2, <1>4 DEF TabInv

LEMMA TabStep ==
    ASSUME Tab!ClientConstants, TabInv, [Tab!Next]_Tab!vars
    PROVE  TabInv'
<1>1. CASE Tab!Navigate
  BY <1>1, StepInitialize, StepResetToNew, StepClearAllSessions, StepOpenSession,
     StepDeleteSession, StepAnswerHistory, StepHistoryArrives DEF Tab!Navigate
<1>2. ASSUME NEW q \in Questions, Tab!Converse(q)
      PROVE  TabInv'
  BY <1>2, StepSend, StepRetry, StepAccepted, StepUnauthorized, StepFailed, StepStatusEvent,
     StepStreamingEvent, StepErrorEvent, StepDoneEvent, StepStreamEnds DEF Tab!Converse
<1> QED BY <1>1, <1>2, TabUnchanged DEF Tab!Next

----------------------------------------------------------------------------
\* The components, each on its own

\* Whatever times out, fails or is cancelled, a permit is free or with who will give it
\* back, and no hit is lost that a path has found in time: a search fails only because the
\* vector path has nothing, Redis is lost, or of what nobody catches, as the failure of
\* PostgreSQL or a remote model's answer of another shape (hybrid_searcher.py, reranker.py).
THEOREM SearchesAreSafe ==
    ASSUME Hybrid!SearchConstants
    PROVE  Hybrid!Spec => [](Hybrid!TypeOK /\ Hybrid!PermitsReturn /\ Hybrid!LossesAreContained)
<1>1. Hybrid!Init => SearchInv
  BY SearchStart
<1>2. SearchInv /\ [Hybrid!Next]_Hybrid!vars => SearchInv'
  BY SearchMoves
<1>3. SearchInv => Hybrid!TypeOK /\ Hybrid!PermitsReturn /\ Hybrid!LossesAreContained
  BY SearchSafe
<1> QED BY <1>1, <1>2, <1>3, PTL DEF Hybrid!Spec

\* A record that nothing has disturbed claims the outcome Celery has, and a late poll
\* leaves none pending or running (maintenance/tasks.py, _get_runtime_task_payload).
THEOREM OutcomesAreShown ==
    Job!Spec => [](Job!TypeOK /\ Job!OutcomeIsShown)
<1>1. Job!Init => JobInv
  BY JobStart
<1>2. JobInv /\ [Job!Next]_Job!vars => JobInv'
  BY JobMoves
<1>3. JobInv => Job!TypeOK /\ Job!OutcomeIsShown
  BY OutcomeSafe
<1> QED BY <1>1, <1>2, <1>3, PTL DEF Job!Spec

\* A session shows its own messages, and, for a user who waits, each answer follows its
\* question and no answer overwrites another (stores/chat.ts, useSSE.ts).
THEOREM TabShowsItsOwn ==
    ASSUME Tab!ClientConstants
    PROVE  Tab!Spec => [](Tab!TypeOK /\ Tab!ShownIsOfActive /\ Tab!AnswersStayPut)
<1>1. Tab!Init => TabInv
  BY TabStart
<1>2. TabInv /\ [Tab!Next]_Tab!vars => TabInv'
  BY TabStep
<1>3. TabInv => Tab!TypeOK /\ Tab!ShownIsOfActive /\ Tab!AnswersStayPut
  BY TabSafe
<1> QED BY <1>1, <1>2, <1>3, PTL DEF Tab!Spec

----------------------------------------------------------------------------
\* The components side by side, as MCPlatform checks them

PlatformInv == SyncInv /\ SearchInv /\ TabInv /\ JobInv

LEMMA PlatformStart == PartsInit => PlatformInv
BY PlatformAssumption, SyncInvInit, SearchStart, TabStart, JobStart DEF PartsInit,
   PlatformInv

LEMMA PlatformMoves ==
    ASSUME PlatformInv, [Step]_<<part, syncVars, searchVars, chatVars, jobVars, accountVars>>
    PROVE  PlatformInv'
<1>1. [SyncNext]_<<vars, reindex, touched>>
  BY DEF Step, SyncStep, SearchStep, ChatStep, JobStep, AccountStep, syncVars
<1>2. [Hybrid!Next]_Hybrid!vars
  BY DEF Step, SyncStep, SearchStep, ChatStep, JobStep, AccountStep, searchVars, Hybrid!vars
<1>3. [Tab!Next]_Tab!vars
  BY DEF Step, SyncStep, SearchStep, ChatStep, JobStep, AccountStep, chatVars, Tab!vars,
     Tab!shown
<1>4. [Job!Next]_Job!vars
  BY DEF Step, SyncStep, SearchStep, ChatStep, JobStep, AccountStep, jobVars, Job!vars
<1>5. SyncInv'
  BY <1>1, SyncMoves DEF PlatformInv
<1>6. SearchInv' /\ TabInv' /\ JobInv'
  BY <1>2, <1>3, <1>4, PlatformAssumption, SearchMoves, TabStep, JobMoves DEF PlatformInv
<1> QED BY <1>5, <1>6 DEF PlatformInv

LEMMA PlatformHolds == PartsSpec => []PlatformInv
BY PlatformStart, PlatformMoves, PTL DEF PartsSpec

\* The types of all five components.
THEOREM PlatformTyped == PartsSpec => []PlatformTypeOK
<1>1. PlatformInv /\ Door!TypeOK => PlatformTypeOK
  BY SearchSafe, OutcomeSafe, TabSafe DEF PlatformInv, SyncInv, SyncTypes, PlatformTypeOK
<1> QED BY <1>1, PlatformHolds, AccountsBeside, PTL

\* What a search holds comes back; what is found in time is kept unless the search fails
\* of the vector path, of Redis or of what nobody catches.
THEOREM SearchesRecover == PartsSpec => []SearchRecovers
<1>1. PlatformInv => SearchRecovers
  BY SearchSafe DEF PlatformInv, SearchRecovers
<1> QED BY <1>1, PlatformHolds, PTL

\* Each session shows its own messages and answers.
THEOREM ChatShown == PartsSpec => []ChatShowsItsOwn
<1>1. PlatformInv => ChatShowsItsOwn
  BY TabSafe DEF PlatformInv, ChatShowsItsOwn
<1> QED BY <1>1, PlatformHolds, PTL

\* The record of a job shows the outcome Celery has.
THEOREM OutcomeShown == PartsSpec => []OutcomeIsShown
<1>1. PlatformInv => OutcomeIsShown
  BY OutcomeSafe DEF PlatformInv, OutcomeIsShown
<1> QED BY <1>1, PlatformHolds, PTL

\* Beside the other parts, too, a reindexing restores what nobody has touched.
THEOREM ReindexKept == PartsSpec => []ReindexRestores
<1>1. PlatformInv => ReindexRestores
  BY RestoredBySyncInv DEF PlatformInv
<1> QED BY <1>1, PlatformHolds, PTL
=============================================================================
