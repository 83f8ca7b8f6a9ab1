--------------------------- MODULE RequestsProofs ---------------------------
(***************************************************************************)
(* Theorems about UploadSession and ChatTurn, for every value of their     *)
(* constants.                                                              *)
(*                                                                         *)
(* UploadSession, for any number of sessions, parts and requests: types,   *)
(* the permits of the semaphore, at most one document per session, and     *)
(* that what is stored is the whole file.                                  *)
(*                                                                         *)
(* ChatTurn: its inductive invariant ChatInv says, for each place in the   *)
(* handler, what is stored by then; how the handler's counter and the      *)
(* runtime's number stand to each other (Numbers), and so that whatever is *)
(* in the list of the runtime's trace has reached the client, is at hand,  *)
(* or comes after what the client names (Passed).                          *)
(***************************************************************************)
EXTENDS MCRequests, Sequences, FiniteSetTheorems, TLAPS

----------------------------------------------------------------------------
\* UploadSession

----------------------------------------------------------------------------
\* Permits

Holders == {c \in Completions : HoldsPermit(c)}

PermitsInv == /\ permits \in 0..SemaphoreSize
              /\ PermitsAccounted

\* A set of requests that changes by one request changes its size by one.
LEMMA HoldersFinite == IsFiniteSet(Holders) /\ Cardinality(Holders) \in Nat
  <1>1. IsFiniteSet(Holders)
    BY CompletionsAssumption, FS_Subset DEF Holders
  <1> QED  BY <1>1, FS_CardinalityType

LEMMA HoldersFiniteNext == IsFiniteSet(Holders') /\ Cardinality(Holders') \in Nat
  <1>1. IsFiniteSet(Holders')
    BY CompletionsAssumption, FS_Subset DEF Holders
  <1> QED  BY <1>1, FS_CardinalityType

\* Same holders, same permits.
LEMMA PermitsKept ==
    ASSUME PermitsInv, permits' = permits,
           \A c \in Completions : HoldsPermit(c)' = HoldsPermit(c)
    PROVE  PermitsInv'
  <1>1. Holders' = Holders
    BY DEF Holders
  <1> QED  BY <1>1 DEF PermitsInv, PermitsAccounted, Holders

\* One request takes a permit.
LEMMA PermitTaken ==
    ASSUME PermitsInv, NEW c \in Completions, permits > 0, permits' = permits - 1,
           ~HoldsPermit(c), HoldsPermit(c)',
           \A d \in Completions \ {c} : HoldsPermit(d)' = HoldsPermit(d)
    PROVE  PermitsInv'
  <1>1. c \notin Holders /\ Holders' = Holders \union {c}
    BY DEF Holders
  <1>2. Cardinality(Holders') = Cardinality(Holders) + 1
    BY <1>1, HoldersFinite, FS_AddElement
  <1> QED  BY <1>2, HoldersFinite, SemaphoreAssumption
           DEF PermitsInv, PermitsAccounted, Holders

\* One request gives its permit back.
LEMMA PermitGivenBack ==
    ASSUME PermitsInv, NEW c \in Completions, permits' = permits + 1,
           HoldsPermit(c), ~HoldsPermit(c)',
           \A d \in Completions \ {c} : HoldsPermit(d)' = HoldsPermit(d)
    PROVE  PermitsInv'
  <1>1. c \in Holders /\ Holders' = Holders \ {c}
    BY DEF Holders
  <1>2. Cardinality(Holders') = Cardinality(Holders) - 1
    BY <1>1, HoldersFinite, FS_RemoveElement
  <1> QED  BY <1>2, HoldersFinite, HoldersFiniteNext, SemaphoreAssumption
           DEF PermitsInv, PermitsAccounted, Holders

\* The process is lost: nobody holds a permit, all are free.
LEMMA PermitsRenewed ==
    ASSUME permits' = SemaphoreSize, \A c \in Completions : ~HoldsPermit(c)'
    PROVE  PermitsInv'
  <1>1. Holders' = {}
    BY DEF Holders
  <1> QED  BY <1>1, FS_EmptySet, SemaphoreAssumption
           DEF PermitsInv, PermitsAccounted, Holders

----------------------------------------------------------------------------
\* Types

\* The requests after one of them has become v.
LEMMA UploadTyped ==
    ASSUME TypeOK, NEW u \in Uploads, NEW v \in Upload, v.pc # "idle",
           v.on \in Sessions, v.part \in Parts, UploadBecome(u, v)
    PROVE  /\ upload' \in [Uploads -> Upload]
           /\ \A w \in Uploads : upload'[w].pc # "idle" =>
                 upload'[w].on \in Sessions /\ upload'[w].part \in Parts
           /\ upload'[u] = v
           /\ \A w \in Uploads \ {u} : upload'[w] = upload[w]
  BY DEF TypeOK, UploadBecome

LEMMA CompletionTyped ==
    ASSUME TypeOK, NEW c \in Completions, NEW v \in Completion, v.pc # "idle",
           v.on \in Sessions, Become(c, v)
    PROVE  /\ completion' \in [Completions -> Completion]
           /\ \A d \in Completions : completion'[d].pc # "idle" => completion'[d].on \in Sessions
           /\ completion'[c] = v
           /\ \A d \in Completions \ {c} : completion'[d] = completion[d]
  BY DEF TypeOK, Become

\* A completion that only moves on.
LEMMA GotoTyped ==
    ASSUME TypeOK, NEW c \in Completions, completion[c].pc # "idle",
           NEW pc \in CompletionPc \ {"idle"}, Goto(c, pc)
    PROVE  /\ completion' \in [Completions -> Completion]
           /\ \A d \in Completions : completion'[d].pc # "idle" => completion'[d].on \in Sessions
           /\ completion'[c] = [completion[c] EXCEPT !.pc = pc]
           /\ \A d \in Completions \ {c} : completion'[d] = completion[d]
  <1> DEFINE v == [completion[c] EXCEPT !.pc = pc]
  <1>1. completion[c] \in Completion /\ completion[c].on \in Sessions
    BY DEF TypeOK
  <1>2. v \in Completion /\ v.pc = pc /\ v.on = completion[c].on
    BY <1>1 DEF Completion
  <1>3. Become(c, v)
    BY DEF Goto
  <1> HIDE DEF v
  <1>4. /\ completion' \in [Completions -> Completion]
        /\ \A d \in Completions : completion'[d].pc # "idle" => completion'[d].on \in Sessions
        /\ completion'[c] = v
        /\ \A d \in Completions \ {c} : completion'[d] = completion[d]
    BY <1>1, <1>2, <1>3, CompletionTyped
  <1> QED  BY <1>4 DEF v

\* A request that merges into a file that is still there can add to it.
MergedOpen ==
    \A c \in Completions :
        completion[c].pc # "idle" /\ completion[c].mine => merged[completion[c].on] # None

\* The conjuncts of TypeOK on the requests.
UploadsTyped ==
    /\ upload \in [Uploads -> Upload]
    /\ \A w \in Uploads : upload[w].pc # "idle" =>
            upload[w].on \in Sessions /\ upload[w].part \in Parts

CompletionsTyped ==
    /\ completion \in [Completions -> Completion]
    /\ \A d \in Completions : completion[d].pc # "idle" => completion[d].on \in Sessions

LEMMA TypeKept ==
    ASSUME TypeOK, MergedOpen, permits' \in 0..SemaphoreSize, [Next]_vars
    PROVE  TypeOK'
  <1>1. ASSUME NEW s \in Sessions, CreateSession(s)
        PROVE  TypeOK'
    BY <1>1, TotalPartsAssumption, CrashesAssumption DEF TypeOK, CreateSession, result,
       history
  <1>2. ASSUME NEW s \in Sessions, Expire(s)
        PROVE  TypeOK'
    BY <1>2, TotalPartsAssumption, CrashesAssumption DEF TypeOK, Expire, disk, result,
       history
  <1>3. ASSUME NEW u \in Uploads, NEW s \in Sessions, NEW p \in Parts, BeginPart(u, s, p)
        PROVE  TypeOK'
    <2> DEFINE v == [IdleUpload EXCEPT !.pc = "open", !.on = s, !.part = p]
    <2>1. v \in Upload /\ v.pc # "idle" /\ v.on \in Sessions /\ v.part \in Parts
      BY <1>3 DEF BeginPart, TypeOK, Upload, UploadPc, IdleUpload, UploadRuns
    <2>2. UploadBecome(u, v)
      BY <1>3 DEF BeginPart, UploadGoto
    <2> HIDE DEF v
    <2>3. UploadsTyped'
      BY <2>1, <2>2, UploadTyped DEF UploadsTyped
    <2> QED  BY <2>3, <1>3 DEF UploadsTyped, TypeOK, BeginPart, redis, disk, result, history
  <1>4. ASSUME NEW u \in Uploads, OpenPart(u)
        PROVE  TypeOK'
    <2>1. upload[u].on \in Sessions /\ upload[u].part \in Parts
      BY <1>4 DEF TypeOK, OpenPart
    <2>2. ASSUME NEW w \in Uploads
          PROVE  /\ upload'[w] \in Upload
                 /\ upload'[w].on = upload[w].on /\ upload'[w].part = upload[w].part
                 /\ upload'[w].pc # "idle" => upload[w].pc # "idle"
      BY <1>4 DEF OpenPart, TypeOK, Upload, UploadPc, Writes
    <2>3. UploadsTyped'
      BY <1>4, <2>2 DEF UploadsTyped, TypeOK, OpenPart
    <2> QED  BY <2>1, <2>3, <1>4 DEF UploadsTyped, TypeOK, OpenPart, redis, result
  <1>5. ASSUME NEW u \in Uploads, WritePart(u)
        PROVE  TypeOK'
    <2> DEFINE v == [upload[u] EXCEPT !.pc = "register", !.mine = FALSE]
    <2>1. v \in Upload /\ v.pc # "idle" /\ v.on \in Sessions /\ v.part \in Parts
      BY <1>5 DEF WritePart, TypeOK, Upload, UploadPc, IdleUpload, UploadRuns
    <2>2. UploadBecome(u, v)
      BY <1>5 DEF WritePart, UploadGoto
    <2> HIDE DEF v
    <2>3. UploadsTyped'
      BY <2>1, <2>2, UploadTyped DEF UploadsTyped
    <2> QED  BY <2>3, <1>5 DEF UploadsTyped, TypeOK, WritePart, redis, disk, result, history
  <1>6. ASSUME NEW u \in Uploads, RegisterPart(u)
        PROVE  TypeOK'
    <2> DEFINE v == [upload[u] EXCEPT !.pc = "ended"]
    <2>1. v \in Upload /\ v.pc # "idle" /\ v.on \in Sessions /\ v.part \in Parts
      BY <1>6 DEF RegisterPart, TypeOK, Upload, UploadPc, IdleUpload, UploadRuns
    <2>2. UploadBecome(u, v)
      BY <1>6 DEF RegisterPart, UploadGoto
    <2> HIDE DEF v
    <2>3. UploadsTyped'
      BY <2>1, <2>2, UploadTyped DEF UploadsTyped
    <2> QED  BY <2>3, <1>6 DEF UploadsTyped, TypeOK, RegisterPart, redis, disk, result,
       history
  <1>7. ASSUME NEW u \in Uploads, PartFails(u)
        PROVE  TypeOK'
    <2> DEFINE v == [upload[u] EXCEPT !.pc = "ended", !.mine = FALSE]
    <2>1. v \in Upload /\ v.pc # "idle" /\ v.on \in Sessions /\ v.part \in Parts
      BY <1>7 DEF PartFails, TypeOK, Upload, UploadPc, IdleUpload, UploadRuns
    <2>2. UploadBecome(u, v)
      BY <1>7 DEF PartFails, UploadGoto
    <2> HIDE DEF v
    <2>3. UploadsTyped'
      BY <2>1, <2>2, UploadTyped DEF UploadsTyped
    <2> QED  BY <2>3, <1>7 DEF UploadsTyped, TypeOK, PartFails, redis, disk, result, history
  <1>8. ASSUME NEW c \in Completions, NEW s \in Sessions, BeginCompletion(c, s)
        PROVE  TypeOK'
    <2> DEFINE v == [IdleCompletion EXCEPT !.pc = "count", !.on = s]
    <2>1. 1 \in 1..(TotalParts + 1)
      BY TotalPartsAssumption
    <2>2. IdleCompletion \in Completion
      BY <2>1 DEF IdleCompletion, Completion, CompletionPc
    <2>3. v \in Completion /\ v.pc # "idle" /\ v.on \in Sessions
      BY <2>2 DEF Completion, CompletionPc
    <2>4. Become(c, v)
      BY <1>8 DEF BeginCompletion
    <2> HIDE DEF v
    <2>5. CompletionsTyped'
      BY <2>3, <2>4, CompletionTyped DEF CompletionsTyped
    <2> QED  BY <2>5, <1>8 DEF CompletionsTyped, TypeOK, BeginCompletion, redis, disk,
       result
  <1>9. ASSUME NEW c \in Completions, CountParts(c)
        PROVE  TypeOK'
    <2>1. CompletionsTyped'
      BY <1>9, GotoTyped DEF CountParts, CompletionPc, CompletionsTyped
    <2> QED  BY <2>1, <1>9 DEF CompletionsTyped, TypeOK, CountParts, redis, disk, result,
       history
  <1>10. ASSUME NEW c \in Completions, StartMerge(c)
        PROVE  TypeOK'
    <2> DEFINE v == [completion[c] EXCEPT !.pc = "merge", !.mine = TRUE]
    <2>1. v \in Completion /\ v.pc # "idle" /\ v.on \in Sessions
      <3>1. /\ completion[c] \in Completion /\ completion[c].pc # "idle"
            /\ completion[c].on \in Sessions
        BY <1>10 DEF StartMerge, TypeOK
      <3> QED  BY <3>1 DEF Completion, CompletionPc
    <2>2. Become(c, v)
      BY <1>10 DEF StartMerge
    <2> HIDE DEF v
    <2>3. CompletionsTyped'
      BY <2>1, <2>2, CompletionTyped DEF CompletionsTyped
    <2> QED  BY <2>3, <1>10 DEF CompletionsTyped, TypeOK, StartMerge, Content, redis, disk,
       result, history
  <1>11. ASSUME NEW c \in Completions, CopyPart(c)
        PROVE  TypeOK'
    <2>1. PICK s \in Sessions, n \in Parts, torn \in BOOLEAN :
             /\ s = completion[c].on /\ n = completion[c].next
             /\ completion[c].pc = "merge"
             /\ merged' = IF completion[c].mine
                            THEN [merged EXCEPT ![s] = merged[s] \union {IF torn THEN Torn ELSE n}]
                            ELSE merged
             /\ Become(c, [completion[c] EXCEPT !.next = n + 1, !.shifted = torn])
             /\ UNCHANGED <<redis, directory, file, permits, result, upload, crashes, history>>
      <3>1. completion[c].on \in Sessions /\ completion[c].next \in Parts
        BY <1>11 DEF CopyPart, TypeOK
      <3>2. (completion[c].shifted \/ file[completion[c].on][completion[c].next] = "partial")
            \in BOOLEAN
        OBVIOUS
      <3> QED  BY <3>1, <3>2, <1>11 DEF CopyPart
    <2> DEFINE v == [completion[c] EXCEPT !.next = n + 1, !.shifted = torn]
    <2>2. n + 1 \in 1..(TotalParts + 1) /\ completion[c] \in Completion
      BY TotalPartsAssumption DEF Parts, TypeOK
    <2>3. v \in Completion /\ v.pc # "idle" /\ v.on \in Sessions
      BY <2>1, <2>2 DEF Completion
    <2>4. Become(c, v)
      BY <2>1
    <2> HIDE DEF v
    <2>5. CompletionsTyped'
      BY <2>3, <2>4, CompletionTyped DEF CompletionsTyped
    <2>6. merged' \in [Sessions -> Content \union {None}]
      <3>1. CASE completion[c].mine
        <4>1. merged[s] \in Content
          BY <2>1, <3>1, <1>11 DEF MergedOpen, TypeOK
        <4>2. merged[s] \union {IF torn THEN Torn ELSE n} \in Content
          BY <4>1 DEF Content
        <4> QED  BY <2>1, <3>1, <4>2 DEF TypeOK
      <3>2. CASE ~completion[c].mine
        BY <2>1, <3>2 DEF TypeOK
      <3> QED  BY <3>1, <3>2
    <2> QED  BY <2>1, <2>5, <2>6 DEF CompletionsTyped, TypeOK, redis, result, history
  <1>12. ASSUME NEW c \in Completions, EndMerge(c)
        PROVE  TypeOK'
    <2>1. CompletionsTyped'
      BY <1>12, GotoTyped DEF EndMerge, CompletionPc, CompletionsTyped
    <2> QED  BY <2>1, <1>12 DEF CompletionsTyped, TypeOK, EndMerge, redis, disk, result,
       history
  <1>13. ASSUME NEW c \in Completions, InspectMerged(c)
        PROVE  TypeOK'
    <2>1. CompletionsTyped'
      BY <1>13, GotoTyped DEF InspectMerged, CompletionPc, CompletionsTyped
    <2> QED  BY <2>1, <1>13 DEF CompletionsTyped, TypeOK, InspectMerged, redis, disk,
       result, history
  <1>14. ASSUME NEW c \in Completions, StoreObject(c)
        PROVE  TypeOK'
    <2>1. CompletionsTyped'
      BY <1>14, GotoTyped DEF StoreObject, CompletionPc, CompletionsTyped
    <2> QED  BY <2>1, <1>14 DEF CompletionsTyped, TypeOK, StoreObject, redis, disk, result,
       history
  <1>15. ASSUME NEW c \in Completions, EnqueueDocument(c)
        PROVE  TypeOK'
    <2>1. CompletionsTyped'
      BY <1>15, GotoTyped DEF EnqueueDocument, CompletionPc, CompletionsTyped
    <2> QED  BY <2>1, <1>15 DEF CompletionsTyped, TypeOK, EnqueueDocument, redis, disk,
       result, history
  <1>16. ASSUME NEW c \in Completions, CompletionFails(c)
        PROVE  TypeOK'
    <2> DEFINE v == [completion[c] EXCEPT !.pc = "drop_session", !.good = FALSE]
    <2>1. v \in Completion /\ v.pc # "idle" /\ v.on \in Sessions
      <3>1. /\ completion[c] \in Completion /\ completion[c].pc # "idle"
            /\ completion[c].on \in Sessions
        BY <1>16 DEF CompletionFails, TypeOK
      <3> QED  BY <3>1 DEF Completion, CompletionPc
    <2>2. Become(c, v)
      BY <1>16 DEF CompletionFails
    <2> HIDE DEF v
    <2>3. CompletionsTyped'
      BY <2>1, <2>2, CompletionTyped DEF CompletionsTyped
    <2> QED  BY <2>3, <1>16 DEF CompletionsTyped, TypeOK, CompletionFails, redis, disk,
       result, history
  <1>17. ASSUME NEW c \in Completions, DropSession(c)
        PROVE  TypeOK'
    <2>1. CompletionsTyped'
      BY <1>17, GotoTyped DEF DropSession, CompletionPc, CompletionsTyped
    <2> QED  BY <2>1, <1>17 DEF CompletionsTyped, TypeOK, DropSession, redis, disk, result,
       history
  <1>18. ASSUME NEW c \in Completions, DropParts(c)
        PROVE  TypeOK'
    <2>1. completion[c].on \in Sessions
      BY <1>18 DEF TypeOK, DropParts
    <2>2. ASSUME NEW d \in Completions
          PROVE  /\ completion'[d] \in Completion
                 /\ completion'[d].on = completion[d].on
                 /\ completion'[d].pc # "idle" => completion[d].pc # "idle"
      <3> DEFINE pc == IF d = c THEN IF completion[c].good THEN "commit" ELSE "failed"
                       ELSE completion[d].pc
                 mine == completion[d].mine /\ completion[d].on # completion[c].on
      <3>1. completion[d] \in Completion /\ mine \in BOOLEAN /\ pc \in CompletionPc
            /\ (pc # "idle" => completion[d].pc # "idle")
        BY <1>18 DEF TypeOK, Completion, CompletionPc, DropParts
      <3>2. completion'[d] = [completion[d] EXCEPT !.mine = mine, !.pc = pc]
        BY <1>18 DEF DropParts
      <3> HIDE DEF pc, mine
      <3> QED  BY <3>1, <3>2 DEF Completion
    <2>3. CompletionsTyped'
      BY <1>18, <2>2 DEF CompletionsTyped, TypeOK, DropParts
    <2>4. ASSUME NEW w \in Uploads
          PROVE  /\ upload'[w] \in Upload
                 /\ upload'[w].on = upload[w].on /\ upload'[w].part = upload[w].part
                 /\ upload'[w].pc = upload[w].pc
      BY <1>18 DEF DropParts, TypeOK, Upload
    <2>5. UploadsTyped'
      BY <1>18, <2>4 DEF UploadsTyped, TypeOK, DropParts
    <2> QED  BY <2>1, <2>3, <2>5, <1>18
             DEF UploadsTyped, CompletionsTyped, TypeOK, DropParts, NoFiles, result, history
  <1>19. ASSUME NEW c \in Completions, CommitDocument(c)
        PROVE  TypeOK'
    <2>1. CompletionsTyped'
      BY <1>19, GotoTyped DEF CommitDocument, CompletionPc, CompletionsTyped
    <2> QED  BY <2>1, <1>19 DEF CompletionsTyped, TypeOK, CommitDocument, redis, disk,
       result, history
  <1>20. ASSUME NEW c \in Completions, CompletionBreaksOff(c)
        PROVE  TypeOK'
    <2>1. CompletionsTyped'
      BY <1>20, GotoTyped DEF CompletionBreaksOff, CompletionPc, CompletionsTyped
    <2> QED  BY <2>1, <1>20 DEF CompletionsTyped, TypeOK, CompletionBreaksOff, redis, disk,
       result, history
  <1>21. ASSUME CrashApi
        PROVE  TypeOK'
    <2>1. ASSUME NEW d \in Completions
          PROVE  /\ completion'[d] \in Completion
                 /\ completion'[d].on = completion[d].on
                 /\ completion'[d].pc # "idle" => completion[d].pc # "idle"
      <3>1. completion[d] \in Completion
        BY DEF TypeOK
      <3>2. completion'[d] = IF CompletionRuns(d)
                               THEN [completion[d] EXCEPT !.pc = "failed", !.mine = FALSE]
                               ELSE completion[d]
        BY <1>21 DEF CrashApi
      <3>3. CASE CompletionRuns(d)
        BY <3>1, <3>2, <3>3 DEF CompletionRuns, Completion, CompletionPc
      <3>4. CASE ~CompletionRuns(d)
        BY <3>1, <3>2, <3>4
      <3> QED  BY <3>3, <3>4
    <2>2. CompletionsTyped'
      BY <1>21, <2>1 DEF CompletionsTyped, TypeOK, CrashApi
    <2>3. ASSUME NEW w \in Uploads
          PROVE  /\ upload'[w] \in Upload
                 /\ upload'[w].on = upload[w].on /\ upload'[w].part = upload[w].part
                 /\ upload'[w].pc # "idle" => upload[w].pc # "idle"
      BY <1>21 DEF CrashApi, UploadRuns, TypeOK, Upload, UploadPc
    <2>4. UploadsTyped'
      BY <1>21, <2>3 DEF UploadsTyped, TypeOK, CrashApi
    <2>5. UNCHANGED <<session, registered, directory, file, merged, object, row,
                      rewritten, overlapped>>
      BY <1>21 DEF CrashApi, redis, disk, result, history
    <2>6. crashes' \in 0..MaxCrashes
      <3>1. crashes \in 0..MaxCrashes /\ crashes < MaxCrashes /\ crashes' = crashes + 1
        BY <1>21 DEF CrashApi, TypeOK
      <3> QED  BY <3>1, CrashesAssumption
    <2> QED  BY <2>2, <2>4, <2>5, <2>6 DEF UploadsTyped, CompletionsTyped, TypeOK
  <1>22. ASSUME UNCHANGED vars
        PROVE  TypeOK'
    BY <1>22, TotalPartsAssumption, CrashesAssumption DEF TypeOK, vars
  <1> QED
    BY <1>1, <1>2, <1>3, <1>4, <1>5, <1>6, <1>7, <1>8, <1>9, <1>10, <1>11,
       <1>12, <1>13, <1>14, <1>15, <1>16, <1>17, <1>18, <1>19, <1>20, <1>21, <1>22
    DEF Next, UploadStep, CompletionStep, Complete

----------------------------------------------------------------------------
\* Steps of a completion

Running == CompletionPc \ {"idle", "done", "failed"}

\* c, which has begun, moves to pc on its session; the others stay as they are.
Moves(c, pc) ==
    /\ completion[c].pc \in Running
    /\ completion'[c].pc = pc
    /\ completion'[c].on = completion[c].on
    /\ \A d \in Completions \ {c} : completion'[d] = completion[d]

\* What it has copied stays too.
Keeps(c) ==
    /\ completion'[c].next = completion[c].next
    /\ completion'[c].shifted = completion[c].shifted
    /\ completion'[c].mine = completion[c].mine

LEMMA GotoMoves ==
    ASSUME TypeOK, NEW c \in Completions, completion[c].pc \in Running,
           NEW pc \in CompletionPc \ {"idle"}, Goto(c, pc)
    PROVE  Moves(c, pc) /\ Keeps(c)
  <1>1. completion[c] \in Completion
    BY DEF TypeOK
  <1>2. /\ completion'[c] = [completion[c] EXCEPT !.pc = pc]
        /\ \A d \in Completions \ {c} : completion'[d] = completion[d]
    BY GotoTyped DEF Running
  <1> QED  BY <1>1, <1>2 DEF Moves, Keeps, Completion

LEMMA BecomeMoves ==
    ASSUME TypeOK, NEW c \in Completions, completion[c].pc \in Running,
           NEW v, v.on = completion[c].on, Become(c, v)
    PROVE  Moves(c, v.pc) /\ completion'[c] = v
  BY DEF TypeOK, Become, Moves

\* CompletionFails keeps what has been copied.
LEMMA FailsMoves ==
    ASSUME TypeOK, NEW c \in Completions, CompletionFails(c)
    PROVE  Moves(c, "drop_session") /\ Keeps(c)
  <1> DEFINE v == [completion[c] EXCEPT !.pc = "drop_session", !.good = FALSE]
  <1>1. completion[c] \in Completion /\ completion[c].pc \in Running
    BY DEF TypeOK, CompletionFails, Running, CompletionPc
  <1>2. /\ v.pc = "drop_session" /\ v.on = completion[c].on /\ v.next = completion[c].next
        /\ v.shifted = completion[c].shifted /\ v.mine = completion[c].mine
    BY <1>1 DEF Completion
  <1>3. Become(c, v)
    BY DEF CompletionFails
  <1> HIDE DEF v
  <1> QED  BY <1>1, <1>2, <1>3, BecomeMoves DEF Keeps

\* StartMerge makes merged.bin the file of the request.
LEMMA StartMoves ==
    ASSUME TypeOK, NEW c \in Completions, StartMerge(c)
    PROVE  /\ Moves(c, "merge")
           /\ completion'[c].next = completion[c].next
           /\ completion'[c].shifted = completion[c].shifted
           /\ completion'[c].mine
  <1> DEFINE v == [completion[c] EXCEPT !.pc = "merge", !.mine = TRUE]
  <1>1. completion[c] \in Completion /\ completion[c].pc \in Running
    BY DEF TypeOK, StartMerge, Running, CompletionPc
  <1>2. /\ v.pc = "merge" /\ v.on = completion[c].on /\ v.next = completion[c].next
        /\ v.shifted = completion[c].shifted /\ v.mine
    BY <1>1 DEF Completion
  <1>3. Become(c, v)
    BY DEF StartMerge
  <1> HIDE DEF v
  <1> QED  BY <1>1, <1>2, <1>3, BecomeMoves

\* CopyPart goes on to the next part.
LEMMA CopyMoves ==
    ASSUME TypeOK, NEW c \in Completions, CopyPart(c)
    PROVE  /\ Moves(c, "merge")
           /\ completion'[c].next = completion[c].next + 1
           /\ completion'[c].shifted <=>
                 completion[c].shifted
                 \/ file[completion[c].on][completion[c].next] = "partial"
           /\ completion'[c].mine = completion[c].mine
  <1> DEFINE torn == completion[c].shifted
                     \/ file[completion[c].on][completion[c].next] = "partial"
             v == [completion[c] EXCEPT !.next = completion[c].next + 1, !.shifted = torn]
  <1>1. completion[c] \in Completion /\ completion[c].pc \in Running /\ torn \in BOOLEAN
    BY DEF TypeOK, CopyPart, Running, CompletionPc
  <1>2. Become(c, v)
    BY DEF CopyPart
  <1> HIDE DEF torn
  <1>3. /\ v.pc = completion[c].pc /\ v.on = completion[c].on /\ v.next = completion[c].next + 1
        /\ v.shifted = torn /\ v.mine = completion[c].mine
    BY <1>1 DEF Completion
  <1> HIDE DEF v
  <1>4. Moves(c, v.pc) /\ completion'[c] = v
    BY <1>1, <1>2, <1>3, BecomeMoves
  <1>5. completion[c].pc = "merge"
    BY DEF CopyPart
  <1> QED  BY <1>3, <1>4, <1>5 DEF torn

\* A new request.
LEMMA BeginMoves ==
    ASSUME TypeOK, NEW c \in Completions, NEW s \in Sessions, BeginCompletion(c, s)
    PROVE  /\ completion'[c].pc = "count" /\ completion'[c].on = s
           /\ completion'[c].next = 1 /\ ~completion'[c].shifted /\ ~completion'[c].mine
           /\ \A d \in Completions \ {c} : completion'[d] = completion[d]
  <1> DEFINE v == [IdleCompletion EXCEPT !.pc = "count", !.on = s]
  <1>1. v.pc = "count" /\ v.on = s /\ v.next = 1 /\ ~v.shifted /\ ~v.mine
    BY DEF IdleCompletion
  <1>2. Become(c, v)
    BY DEF BeginCompletion
  <1> HIDE DEF v
  <1> QED  BY <1>1, <1>2 DEF Become, TypeOK

\* The clean-up takes merged.bin from every request on the session.
LEMMA DropMoves ==
    ASSUME TypeOK, NEW c \in Completions, DropParts(c)
    PROVE  /\ completion[c].pc = "drop_parts" /\ completion'[c].pc \in {"commit", "failed"}
           /\ \A d \in Completions :
                 /\ completion'[d].on = completion[d].on
                 /\ completion'[d].next = completion[d].next
                 /\ completion'[d].shifted = completion[d].shifted
                 /\ completion'[d].mine
                       <=> completion[d].mine /\ completion[d].on # completion[c].on
                 /\ d # c => completion'[d].pc = completion[d].pc
  <1> SUFFICES ASSUME NEW d \in Completions
               PROVE  /\ completion'[d].on = completion[d].on
                      /\ completion'[d].next = completion[d].next
                      /\ completion'[d].shifted = completion[d].shifted
                      /\ completion'[d].mine
                            <=> completion[d].mine /\ completion[d].on # completion[c].on
                      /\ d # c => completion'[d].pc = completion[d].pc
                      /\ completion[c].pc = "drop_parts"
                      /\ d = c => completion'[d].pc \in {"commit", "failed"}
    OBVIOUS
  <1> DEFINE pc == IF d = c THEN IF completion[c].good THEN "commit" ELSE "failed"
                   ELSE completion[d].pc
             mine == completion[d].mine /\ completion[d].on # completion[c].on
  <1>1. /\ completion[d] \in Completion /\ mine \in BOOLEAN
        /\ d # c => pc = completion[d].pc
        /\ d = c => pc \in {"commit", "failed"}
        /\ mine <=> completion[d].mine /\ completion[d].on # completion[c].on
    BY DEF TypeOK, DropParts
  <1>2. completion'[d] = [completion[d] EXCEPT !.mine = mine, !.pc = pc]
    BY DEF DropParts
  <1>3. completion[c].pc = "drop_parts"
    BY DEF DropParts
  <1> HIDE DEF pc, mine
  <1> QED  BY <1>1, <1>2, <1>3 DEF Completion

\* A lost process leaves no request running.
LEMMA CrashMoves ==
    ASSUME TypeOK, CrashApi
    PROVE  \A c \in Completions :
              /\ completion'[c].on = completion[c].on
              /\ completion'[c].next = completion[c].next
              /\ completion'[c].shifted = completion[c].shifted
              /\ completion'[c].mine => completion[c].mine
              /\ completion'[c].pc = IF CompletionRuns(c) THEN "failed" ELSE completion[c].pc
  <1> TAKE c \in Completions
  <1>1. completion[c] \in Completion
    BY DEF TypeOK
  <1>2. completion'[c] = IF CompletionRuns(c)
                           THEN [completion[c] EXCEPT !.pc = "failed", !.mine = FALSE]
                           ELSE completion[c]
    BY DEF CrashApi
  <1> QED  BY <1>1, <1>2 DEF Completion

----------------------------------------------------------------------------
\* Permits and merged.bin through every step

\* Steps that neither take nor give back a permit.
LEMMA MoveKeepsPermits ==
    ASSUME PermitsInv, NEW c \in Completions, NEW pc, Moves(c, pc), permits' = permits,
           HoldsPermit(c) <=> pc \in {"merge", "inspect"}
    PROVE  PermitsInv'
  <1>1. \A d \in Completions : HoldsPermit(d)' = HoldsPermit(d)
    BY DEF Moves, HoldsPermit
  <1> QED  BY <1>1, PermitsKept

LEMMA MovesPermits ==
    ASSUME NEW c \in Completions, NEW pc, Moves(c, pc)
    PROVE  /\ HoldsPermit(c)' <=> pc \in {"merge", "inspect"}
           /\ \A d \in Completions \ {c} : HoldsPermit(d)' = HoldsPermit(d)
  BY DEF Moves, HoldsPermit

LEMMA SamePermits ==
    ASSUME PermitsInv, permits' = permits, completion' = completion
    PROVE  PermitsInv'
  BY PermitsKept DEF HoldsPermit

LEMMA PermitsStep ==
    ASSUME TypeOK, PermitsInv, [Next]_vars
    PROVE  PermitsInv'
  <1>1. ASSUME NEW s \in Sessions, CreateSession(s) \/ Expire(s)
        PROVE  PermitsInv'
    <2>1. permits' = permits /\ completion' = completion
      BY <1>1 DEF CreateSession, Expire
    <2> QED  BY <2>1, SamePermits
  <1>2. ASSUME NEW u \in Uploads, UploadStep(u)
        PROVE  PermitsInv'
    BY <1>2, SamePermits
    DEF UploadStep, BeginPart, OpenPart, WritePart, RegisterPart, PartFails
  <1>3. ASSUME NEW c \in Completions, NEW s \in Sessions, BeginCompletion(c, s)
        PROVE  PermitsInv'
    <2>1. ~HoldsPermit(c) /\ permits' = permits
      BY <1>3 DEF BeginCompletion, HoldsPermit
    <2>2. \A d \in Completions : HoldsPermit(d)' = HoldsPermit(d)
      BY <1>3, <2>1, BeginMoves DEF HoldsPermit
    <2> QED  BY <2>1, <2>2, PermitsKept
  <1>4. ASSUME NEW c \in Completions, CountParts(c)
        PROVE  PermitsInv'
    <2>1. PICK pc \in {"wait", "failed"} : Goto(c, pc)
      BY <1>4 DEF CountParts
    <2>2. Moves(c, pc) /\ ~HoldsPermit(c) /\ permits' = permits
      BY <1>4, <2>1, GotoMoves DEF CountParts, Running, CompletionPc, HoldsPermit
    <2> QED  BY <2>2, MoveKeepsPermits
  <1>5. ASSUME NEW c \in Completions, StartMerge(c)
        PROVE  PermitsInv'
    <2>1. Moves(c, "merge") /\ ~HoldsPermit(c) /\ permits > 0 /\ permits' = permits - 1
      BY <1>5, StartMoves DEF StartMerge, HoldsPermit
    <2> QED  BY <2>1, MovesPermits, PermitTaken
  <1>6. ASSUME NEW c \in Completions, CopyPart(c)
        PROVE  PermitsInv'
    <2>1. Moves(c, "merge") /\ HoldsPermit(c) /\ permits' = permits
      BY <1>6, CopyMoves DEF CopyPart, HoldsPermit
    <2> QED  BY <2>1, MoveKeepsPermits
  <1>7. ASSUME NEW c \in Completions, EndMerge(c)
        PROVE  PermitsInv'
    <2>1. Moves(c, "inspect") /\ HoldsPermit(c) /\ permits' = permits
      BY <1>7, GotoMoves DEF EndMerge, Running, CompletionPc, HoldsPermit
    <2> QED  BY <2>1, MoveKeepsPermits
  <1>8. ASSUME NEW c \in Completions, InspectMerged(c)
        PROVE  PermitsInv'
    <2>1. Moves(c, "store") /\ HoldsPermit(c) /\ permits' = permits + 1
      BY <1>8, GotoMoves DEF InspectMerged, Running, CompletionPc, HoldsPermit
    <2> QED  BY <2>1, MovesPermits, PermitGivenBack
  <1>9. ASSUME NEW c \in Completions,
               StoreObject(c) \/ EnqueueDocument(c) \/ DropSession(c) \/ CommitDocument(c)
                 \/ CompletionBreaksOff(c)
        PROVE  PermitsInv'
    <2>1. PICK pc \in {"enqueue", "drop_session", "drop_parts", "done", "failed"} : Goto(c, pc)
      BY <1>9
      DEF StoreObject, EnqueueDocument, DropSession, CommitDocument, CompletionBreaksOff
    <2>2. Moves(c, pc) /\ ~HoldsPermit(c) /\ permits' = permits
      BY <1>9, <2>1, GotoMoves
      DEF StoreObject, EnqueueDocument, DropSession, CommitDocument, CompletionBreaksOff,
          Running, CompletionPc, HoldsPermit
    <2> QED  BY <2>2, MoveKeepsPermits
  <1>10. ASSUME NEW c \in Completions, CompletionFails(c)
         PROVE  PermitsInv'
    <2>1. Moves(c, "drop_session")
          /\ permits' = IF HoldsPermit(c) THEN permits + 1 ELSE permits
      BY <1>10, FailsMoves DEF CompletionFails
    <2>2. CASE HoldsPermit(c)
      BY <2>1, <2>2, MovesPermits, PermitGivenBack
    <2>3. CASE ~HoldsPermit(c)
      BY <2>1, <2>3, MoveKeepsPermits
    <2> QED  BY <2>2, <2>3
  <1>11. ASSUME NEW c \in Completions, DropParts(c)
         PROVE  PermitsInv'
    <2>1. permits' = permits
      BY <1>11 DEF DropParts
    <2>2. \A d \in Completions : HoldsPermit(d)' = HoldsPermit(d)
      BY <1>11, DropMoves DEF HoldsPermit
    <2> QED  BY <2>1, <2>2, PermitsKept
  <1>12. ASSUME CrashApi
         PROVE  PermitsInv'
    <2>1. permits' = SemaphoreSize
      BY <1>12 DEF CrashApi
    <2>2. \A c \in Completions : completion'[c].pc \in {"idle", "done", "failed"}
      BY <1>12, CrashMoves DEF CompletionRuns
    <2>3. \A c \in Completions : ~HoldsPermit(c)'
      BY <2>2 DEF HoldsPermit
    <2> QED  BY <2>1, <2>3, PermitsRenewed
  <1>13. ASSUME UNCHANGED vars
         PROVE  PermitsInv'
    BY <1>13, SamePermits DEF vars
  <1> QED
    BY <1>1, <1>2, <1>3, <1>4, <1>5, <1>6, <1>7, <1>8, <1>9, <1>10, <1>11, <1>12, <1>13
    DEF Next, CompletionStep, Complete

\* merged.bin is only taken away together with the claim to it.
LEMMA MergedOpenStep ==
    ASSUME TypeOK, MergedOpen, [Next]_vars
    PROVE  MergedOpen'
  <1>1. ASSUME UNCHANGED <<merged, completion>>
        PROVE  MergedOpen'
    BY <1>1 DEF MergedOpen
  <1>2. ASSUME NEW c \in Completions, NEW pc, Moves(c, pc), Keeps(c), merged' = merged
        PROVE  MergedOpen'
    BY <1>2 DEF MergedOpen, Moves, Keeps, Running
  <1>3. ASSUME NEW s \in Sessions, CreateSession(s) \/ Expire(s)
        PROVE  MergedOpen'
    <2>1. UNCHANGED <<merged, completion>>
      BY <1>3, SMTT(30) DEF CreateSession, Expire, disk
    <2> QED  BY <1>1, <2>1
  <1>4. ASSUME NEW u \in Uploads, UploadStep(u)
        PROVE  MergedOpen'
    BY <1>1, <1>4
    DEF UploadStep, BeginPart, OpenPart, WritePart, RegisterPart, PartFails, disk
  <1>5. ASSUME NEW c \in Completions, NEW s \in Sessions, BeginCompletion(c, s)
        PROVE  MergedOpen'
    <2>1. merged' = merged
      BY <1>5 DEF BeginCompletion, disk
    <2> QED  BY <1>5, <2>1, BeginMoves DEF MergedOpen
  <1>6. ASSUME NEW c \in Completions,
               CountParts(c) \/ EndMerge(c) \/ InspectMerged(c) \/ StoreObject(c)
                 \/ EnqueueDocument(c) \/ DropSession(c) \/ CommitDocument(c)
                 \/ CompletionBreaksOff(c)
        PROVE  MergedOpen'
    <2>1. PICK pc \in CompletionPc \ {"idle"} : Goto(c, pc)
      BY <1>6
      DEF CountParts, EndMerge, InspectMerged, StoreObject, EnqueueDocument, DropSession,
          CommitDocument, CompletionBreaksOff, CompletionPc
    <2>2. completion[c].pc \in Running /\ merged' = merged
      BY <1>6
      DEF CountParts, EndMerge, InspectMerged, StoreObject, EnqueueDocument, DropSession,
          CommitDocument, CompletionBreaksOff, CompletionPc, Running, disk
    <2> QED  BY <1>2, <2>1, <2>2, GotoMoves
  <1>7. ASSUME NEW c \in Completions, CompletionFails(c)
        PROVE  MergedOpen'
    <2>1. merged' = merged
      BY <1>7 DEF CompletionFails, disk
    <2> QED  BY <1>2, <1>7, <2>1, FailsMoves
  <1>8. ASSUME NEW c \in Completions, StartMerge(c)
        PROVE  MergedOpen'
    <2>1. {} # None
      BY ContentAssumption DEF Content
    <2>2. completion[c].on \in Sessions /\ merged' = [merged EXCEPT ![completion[c].on] = {}]
      BY <1>8 DEF StartMerge, TypeOK
    <2>3. \A s \in Sessions : merged[s] # None => merged'[s] # None
      BY <2>1, <2>2 DEF TypeOK
    <2>4. merged'[completion[c].on] # None
      BY <2>1, <2>2 DEF TypeOK
    <2> QED  BY <1>8, <2>3, <2>4, StartMoves DEF MergedOpen, Moves, TypeOK
  <1>9. ASSUME NEW c \in Completions, CopyPart(c)
        PROVE  MergedOpen'
    <2>1. completion[c].on \in Sessions /\ completion[c].pc = "merge"
      BY <1>9 DEF CopyPart, TypeOK
    <2>2. CASE ~completion[c].mine
      <3>1. merged' = merged
        BY <1>9, <2>2 DEF CopyPart
      <3> QED  BY <1>9, <2>1, <2>2, <3>1, CopyMoves DEF MergedOpen, Moves
    <2>3. CASE completion[c].mine
      <3>1. merged[completion[c].on] \in Content
        BY <2>1, <2>3 DEF MergedOpen, TypeOK
      <3>2. PICK n \in Content :
               merged' = [merged EXCEPT ![completion[c].on] = merged[completion[c].on] \union n]
        <4> DEFINE n == {IF completion[c].shifted
                              \/ file[completion[c].on][completion[c].next] = "partial"
                           THEN Torn ELSE completion[c].next}
        <4>1. n \in Content
          BY <1>9 DEF CopyPart, Content
        <4>2. merged' = [merged EXCEPT ![completion[c].on] = merged[completion[c].on] \union n]
          BY <1>9, <2>3 DEF CopyPart
        <4> QED  BY <4>1, <4>2
      <3>3. merged[completion[c].on] \union n \in Content
        BY <3>1 DEF Content
      <3>4. merged'[completion[c].on] # None
        BY <2>1, <3>2, <3>3, ContentAssumption DEF TypeOK
      <3>5. \A s \in Sessions : merged[s] # None => merged'[s] # None
        BY <2>1, <3>2, <3>3, ContentAssumption DEF TypeOK
      <3> QED  BY <1>9, <3>4, <3>5, CopyMoves DEF MergedOpen, Moves, TypeOK
    <2> QED  BY <2>2, <2>3
  <1>10. ASSUME NEW c \in Completions, DropParts(c)
         PROVE  MergedOpen'
    <2>1. merged' = [merged EXCEPT ![completion[c].on] = None]
      BY <1>10 DEF DropParts
    <2>2. \A d \in Completions : completion'[d].pc # "idle" => completion[d].pc # "idle"
      BY <1>10, DropMoves
    <2>3. ASSUME NEW d \in Completions, completion'[d].pc # "idle", completion'[d].mine
          PROVE  merged'[completion'[d].on] # None
      <3>1. /\ completion[d].pc # "idle" /\ completion[d].mine
            /\ completion'[d].on = completion[d].on /\ completion[d].on # completion[c].on
        BY <1>10, <2>2, <2>3, DropMoves
      <3>2. merged[completion[d].on] # None /\ completion[d].on \in Sessions
        BY <3>1 DEF MergedOpen, TypeOK
      <3> QED  BY <2>1, <3>1, <3>2 DEF TypeOK
    <2> QED  BY <2>3 DEF MergedOpen
  <1>11. ASSUME CrashApi
         PROVE  MergedOpen'
    <2>1. merged' = merged
      BY <1>11 DEF CrashApi, disk
    <2>2. \A c \in Completions :
             /\ completion'[c].pc # "idle" => completion[c].pc # "idle"
             /\ completion'[c].mine => completion[c].mine
             /\ completion'[c].on = completion[c].on
      BY <1>11, CrashMoves DEF CompletionRuns
    <2> QED  BY <2>1, <2>2 DEF MergedOpen
  <1>12. ASSUME UNCHANGED vars
         PROVE  MergedOpen'
    BY <1>1, <1>12 DEF vars
  <1> QED
    BY <1>3, <1>4, <1>5, <1>6, <1>7, <1>8, <1>9, <1>10, <1>11, <1>12
    DEF Next, CompletionStep, Complete

TypeInv == TypeOK /\ PermitsInv /\ MergedOpen

LEMMA TypeInvInit == Init => TypeInv
  <1> SUFFICES ASSUME Init PROVE TypeInv
    OBVIOUS
  <1>1. IdleUpload \in Upload /\ IdleUpload.pc = "idle"
    BY DEF IdleUpload, Upload, UploadPc
  <1>2. 1 \in 1..(TotalParts + 1)
    BY TotalPartsAssumption
  <1>3. IdleCompletion \in Completion /\ IdleCompletion.pc = "idle" /\ ~IdleCompletion.mine
    BY <1>2 DEF IdleCompletion, Completion, CompletionPc
  <1>4. NoFiles \in [Parts -> {"absent", "partial", "whole"}]
    BY DEF NoFiles
  <1>5. permits \in 0..SemaphoreSize /\ crashes \in 0..MaxCrashes
    BY SemaphoreAssumption, CrashesAssumption DEF Init
  <1>6. \A c \in Completions : completion[c] = IdleCompletion
    BY DEF Init
  <1>7. \A u \in Uploads : upload[u] = IdleUpload
    BY DEF Init
  <1>8. TypeOK
    BY <1>1, <1>3, <1>4, <1>5, <1>6, <1>7 DEF Init, TypeOK, Content
  <1>9. Holders = {}
    BY <1>3, <1>6 DEF Holders, HoldsPermit
  <1>10. PermitsInv
    BY <1>9, FS_EmptySet, SemaphoreAssumption DEF Init, PermitsInv, PermitsAccounted,
       Holders
  <1>11. MergedOpen
    BY <1>3, <1>6 DEF MergedOpen
  <1> QED  BY <1>8, <1>10, <1>11 DEF TypeInv

LEMMA TypeInvStep == TypeInv /\ [Next]_vars => TypeInv'
  <1> SUFFICES ASSUME TypeInv, [Next]_vars PROVE TypeInv'
    OBVIOUS
  <1>1. PermitsInv'
    BY PermitsStep DEF TypeInv
  <1>2. TypeOK'
    BY <1>1, TypeKept DEF TypeInv, PermitsInv
  <1> QED  BY <1>1, <1>2, MergedOpenStep DEF TypeInv

LEMMA TypeInvHolds == Spec => []TypeInv
  BY TypeInvInit, TypeInvStep, PTL DEF Spec

\* The variables of the upload sessions have their types in every reachable state.
THEOREM TypeCorrect == Spec => []TypeOK
  <1>1. TypeInv => TypeOK
    BY DEF TypeInv
  <1> QED  BY <1>1, TypeInvHolds, PTL

\* The semaphore of documents.py:31 never loses a permit and never hands out
\* one too many, for any number of requests, failures and restarts.
THEOREM PermitsHold == Spec => []PermitsAccounted
  <1>1. TypeInv => PermitsAccounted
    BY DEF TypeInv, PermitsInv
  <1> QED  BY <1>1, TypeInvHolds, PTL

----------------------------------------------------------------------------
\* One document per session

\* Clean-up follows the removal of the key, the commit the clean-up.
Dropped ==
    \A c \in Completions :
        /\ completion[c].pc \in {"drop_parts", "commit"} => session[completion[c].on] = "removed"
        /\ row[c] => completion[c].pc = "done" /\ session[completion[c].on] = "removed"

\* Without overlap a request has its session to itself, and nothing was
\* committed for it before.
Alone ==
    \A c, d \in Completions :
        /\ completion[c].pc \in Running /\ completion[d].on = completion[c].on
        /\ ~overlapped[completion[c].on]
        => (completion[d].pc \in Running => c = d) /\ ~row[d]

BeforeDrop == {"count", "wait", "merge", "inspect", "store", "enqueue", "drop_session"}

\* The key of a session stays until its request removes it.
KeyStays ==
    \A c \in Completions :
        completion[c].pc \in BeforeDrop /\ ~overlapped[completion[c].on]
            => session[completion[c].on] # "removed"

OneInv == Dropped /\ Alone /\ KeyStays /\ OneDocument

\* A request moves on without touching the key or the row.
LEMMA MoveKeepsOne ==
    ASSUME TypeOK, OneInv, NEW c \in Completions, NEW pc, Moves(c, pc),
           UNCHANGED <<session, row, overlapped>>,
           \/ completion[c].pc \in BeforeDrop /\ pc \in BeforeDrop \union {"done", "failed"}
           \/ pc \in {"commit", "drop_parts"} /\ session[completion[c].on] = "removed"
           \/ pc = "failed"
    PROVE  OneInv'
  <1>1. Dropped'
    BY DEF OneInv, Dropped, Moves, Running, CompletionPc, BeforeDrop
  <1>2. Alone'
    BY DEF OneInv, Alone, Moves
  <1>3. KeyStays'
    BY DEF OneInv, KeyStays, Moves, BeforeDrop
  <1>4. OneDocument'
    BY DEF OneInv, OneDocument, Of, Moves
  <1> QED  BY <1>1, <1>2, <1>3, <1>4 DEF OneInv

LEMMA OneStep ==
    ASSUME TypeOK, OneInv, [Next]_vars
    PROVE  OneInv'
  <1>1. ASSUME UNCHANGED <<session, row, overlapped, completion>>
        PROVE  OneInv'
    BY <1>1 DEF OneInv, Dropped, Alone, KeyStays, OneDocument, Of
  <1>2. ASSUME NEW s \in Sessions, CreateSession(s) \/ Expire(s)
        PROVE  OneInv'
    <2>1. UNCHANGED <<row, overlapped, completion>>
      BY <1>2 DEF CreateSession, Expire, result, history
    <2>2. \A t \in Sessions : session'[t] = "removed" <=> session[t] = "removed"
      <3>1. \/ session[s] = "none" /\ session' = [session EXCEPT ![s] = "open"]
            \/ session[s] = "open" /\ session' = [session EXCEPT ![s] = "expired"]
        BY <1>2 DEF CreateSession, Expire
      <3> QED  BY <3>1 DEF TypeOK
    <2>3. \A c \in Completions : row[c] => completion[c].on \in Sessions
      BY DEF OneInv, Dropped, TypeOK
    <2>4. \A c \in Completions : completion[c].pc # "idle" => completion[c].on \in Sessions
      BY DEF TypeOK
    <2>5. Dropped' /\ KeyStays'
      BY <2>1, <2>2, <2>3, <2>4 DEF OneInv, Dropped, KeyStays, BeforeDrop
    <2>6. Alone' /\ OneDocument'
      BY <2>1 DEF OneInv, Alone, OneDocument, Of
    <2> QED  BY <2>5, <2>6 DEF OneInv
  <1>3. ASSUME NEW u \in Uploads, UploadStep(u)
        PROVE  OneInv'
    BY <1>1, <1>3
    DEF UploadStep, BeginPart, OpenPart, WritePart, RegisterPart, PartFails, redis, result, history
  <1>4. ASSUME NEW c \in Completions, NEW s \in Sessions, BeginCompletion(c, s)
        PROVE  OneInv'
    <2>1. /\ completion[c].pc = "idle" /\ session[s] = "open" /\ UNCHANGED <<session, row>>
      BY <1>4 DEF BeginCompletion, redis, result
    <2>2. ~row[c] /\ \A d \in Completions : row[d] => completion[d].on # s
      BY <2>1 DEF OneInv, Dropped
    <2>3. \A t \in Sessions : overlapped[t] => overlapped'[t]
      BY <1>4 DEF BeginCompletion, TypeOK
    <2>4. \A d \in Completions :
             ~overlapped'[s] /\ completion[d].on = s => completion[d].pc \notin Running
      BY <1>4 DEF BeginCompletion, TypeOK, CompletionRuns, Running
    <2>5. Dropped'
      BY <1>4, <2>1, <2>2, BeginMoves DEF OneInv, Dropped
    <2>6. /\ completion'[c].pc = "count" /\ completion'[c].on = s
          /\ \A d \in Completions \ {c} : completion'[d] = completion[d]
      BY <1>4, BeginMoves
    <2>7. \A d \in Completions : completion[d].pc \in Running => completion[d].on \in Sessions
      BY DEF TypeOK, Running
    <2>8. KeyStays'
      BY <2>1, <2>3, <2>6, <2>7 DEF OneInv, KeyStays, BeforeDrop, Running, CompletionPc
    <2>9. Alone'
      <3> SUFFICES ASSUME NEW d \in Completions, NEW e \in Completions,
                          completion'[d].pc \in Running, completion'[e].on = completion'[d].on,
                          ~overlapped'[completion'[d].on]
                   PROVE  (completion'[e].pc \in Running => d = e) /\ ~row'[e]
        BY DEF Alone
      <3>1. CASE d = c
        BY <2>1, <2>2, <2>4, <2>6, <3>1
      <3>2. CASE d # c /\ e = c
        BY <2>4, <2>6, <3>2
      <3>3. CASE d # c /\ e # c
        BY <2>1, <2>3, <2>6, <2>7, <3>3 DEF OneInv, Alone
      <3> QED  BY <3>1, <3>2, <3>3
    <2>10. OneDocument'
      BY <1>4, <2>1, <2>2, <2>3, BeginMoves DEF OneInv, OneDocument, Of
    <2> QED  BY <2>5, <2>8, <2>9, <2>10 DEF OneInv
  <1>5. ASSUME NEW c \in Completions,
               CountParts(c) \/ EndMerge(c) \/ InspectMerged(c) \/ StoreObject(c)
                 \/ EnqueueDocument(c)
        PROVE  OneInv'
    <2>1. PICK pc \in {"wait", "failed", "inspect", "store", "enqueue", "drop_session"} :
             Goto(c, pc)
      BY <1>5 DEF CountParts, EndMerge, InspectMerged, StoreObject, EnqueueDocument
    <2>2. completion[c].pc \in BeforeDrop /\ UNCHANGED <<session, row, overlapped>>
      BY <1>5
      DEF CountParts, EndMerge, InspectMerged, StoreObject, EnqueueDocument, BeforeDrop,
          redis, result, history
    <2>3. Moves(c, pc) /\ pc \in BeforeDrop \union {"failed"}
      BY <2>1, <2>2, GotoMoves DEF BeforeDrop, Running, CompletionPc
    <2> QED  BY <2>2, <2>3, MoveKeepsOne
  <1>6. ASSUME NEW c \in Completions, StartMerge(c) \/ CopyPart(c) \/ CompletionFails(c)
        PROVE  OneInv'
    <2>1. PICK pc \in {"merge", "drop_session"} : Moves(c, pc)
      BY <1>6, StartMoves, CopyMoves, FailsMoves
    <2>2. completion[c].pc \in BeforeDrop /\ UNCHANGED <<session, row, overlapped>>
      BY <1>6
      DEF StartMerge, CopyPart, CompletionFails, BeforeDrop, redis, result, history
    <2> QED  BY <2>1, <2>2, MoveKeepsOne DEF BeforeDrop
  <1>7. ASSUME NEW c \in Completions, DropSession(c)
        PROVE  OneInv'
    <2>1. Moves(c, "drop_parts") /\ completion[c].pc = "drop_session"
      BY <1>7, GotoMoves DEF DropSession, Running, CompletionPc
    <2>2. /\ completion[c].on \in Sessions /\ UNCHANGED <<row, overlapped>>
          /\ session' = [session EXCEPT ![completion[c].on] = "removed"]
      BY <1>7 DEF DropSession, TypeOK, result, history
    <2>3. /\ session'[completion[c].on] = "removed"
          /\ \A s \in Sessions \ {completion[c].on} : session'[s] = session[s]
      BY <2>2 DEF TypeOK
    <2>4. \A d \in Completions : row[d] => completion[d].on \in Sessions
      BY DEF OneInv, Dropped, TypeOK
    <2>5. \A d \in Completions : completion[d].pc # "idle" => completion[d].on \in Sessions
      BY DEF TypeOK
    <2>6. Dropped'
      BY <2>1, <2>2, <2>3, <2>4, <2>5 DEF OneInv, Dropped, Moves
    <2>7. \A d \in Completions \ {c} :
             completion[d].pc \in BeforeDrop /\ ~overlapped[completion[d].on]
                => completion[d].on \in Sessions \ {completion[c].on}
      BY <2>1, <2>5 DEF OneInv, Alone, BeforeDrop, Running, CompletionPc
    <2>8. KeyStays'
      BY <2>1, <2>2, <2>3, <2>7 DEF OneInv, KeyStays, Moves, BeforeDrop
    <2>9. Alone'
      BY <2>1, <2>2 DEF OneInv, Alone, Moves
    <2>10. OneDocument'
      BY <2>1, <2>2 DEF OneInv, OneDocument, Of, Moves
    <2> QED  BY <2>6, <2>8, <2>9, <2>10 DEF OneInv
  <1>8. ASSUME NEW c \in Completions, DropParts(c)
        PROVE  OneInv'
    <2>1. UNCHANGED <<session, row, overlapped>>
      BY <1>8 DEF DropParts, result, history
    <2>2. /\ completion[c].pc = "drop_parts" /\ completion'[c].pc \in {"commit", "failed"}
          /\ \A d \in Completions : completion'[d].on = completion[d].on
          /\ \A d \in Completions \ {c} : completion'[d].pc = completion[d].pc
      BY <1>8, DropMoves
    <2>3. Dropped'
      BY <2>1, <2>2 DEF OneInv, Dropped
    <2>4. KeyStays'
      BY <2>1, <2>2 DEF OneInv, KeyStays, BeforeDrop
    <2>5. Alone'
      BY <2>1, <2>2 DEF OneInv, Alone, Running, CompletionPc
    <2>6. OneDocument'
      BY <2>1, <2>2 DEF OneInv, OneDocument, Of
    <2> QED  BY <2>3, <2>4, <2>5, <2>6 DEF OneInv
  <1>9. ASSUME NEW c \in Completions, CommitDocument(c)
        PROVE  OneInv'
    <2>1. Moves(c, "done") /\ completion[c].pc = "commit" /\ completion[c].on \in Sessions
      BY <1>9, GotoMoves DEF CommitDocument, Running, CompletionPc, TypeOK
    <2>2. /\ UNCHANGED <<session, overlapped>> /\ row'[c]
          /\ \A d \in Completions \ {c} : row'[d] = row[d]
      BY <1>9 DEF CommitDocument, redis, history, TypeOK
    <2>3. session[completion[c].on] = "removed"
      BY <2>1 DEF OneInv, Dropped
    <2>4. ~overlapped[completion[c].on] =>
             \A d \in Completions \ {c} :
                completion[d].on = completion[c].on => completion[d].pc \notin Running /\ ~row[d]
      BY <2>1 DEF OneInv, Alone, Moves
    <2>5. Dropped'
      BY <2>1, <2>2, <2>3 DEF OneInv, Dropped, Moves
    <2>6. KeyStays'
      BY <2>1, <2>2 DEF OneInv, KeyStays, BeforeDrop, Moves
    <2>7. Alone'
      BY <2>1, <2>2, <2>4 DEF OneInv, Alone, Moves, Running, CompletionPc
    <2>8. OneDocument'
      BY <2>1, <2>2, <2>4 DEF OneInv, OneDocument, Of, Moves
    <2> QED  BY <2>5, <2>6, <2>7, <2>8 DEF OneInv
  <1>10. ASSUME NEW c \in Completions, CompletionBreaksOff(c)
         PROVE  OneInv'
    <2>1. Moves(c, "failed") /\ UNCHANGED <<session, row, overlapped>>
      BY <1>10, GotoMoves
      DEF CompletionBreaksOff, Running, CompletionPc, redis, result, history
    <2> QED  BY <2>1, MoveKeepsOne
  <1>11. ASSUME CrashApi
         PROVE  OneInv'
    <2>1. UNCHANGED <<session, row, overlapped>>
      BY <1>11 DEF CrashApi, redis, result, history
    <2>2. \A c \in Completions :
             /\ completion'[c].on = completion[c].on /\ completion'[c].pc \notin Running
             /\ completion[c].pc = "done" => completion'[c].pc = "done"
      BY <1>11, CrashMoves DEF CompletionRuns, Running, TypeOK
    <2>3. Dropped'
      BY <2>1, <2>2 DEF OneInv, Dropped, Running, CompletionPc
    <2>4. KeyStays'
      BY <2>1, <2>2 DEF OneInv, KeyStays, BeforeDrop, Running, CompletionPc
    <2>5. Alone'
      BY <2>1, <2>2 DEF OneInv, Alone
    <2>6. OneDocument'
      BY <2>1, <2>2 DEF OneInv, OneDocument, Of
    <2> QED  BY <2>3, <2>4, <2>5, <2>6 DEF OneInv
  <1>12. ASSUME UNCHANGED vars
         PROVE  OneInv'
    BY <1>1, <1>12 DEF vars
  <1> QED
    BY <1>2, <1>3, <1>4, <1>5, <1>6, <1>7, <1>8, <1>9, <1>10, <1>11, <1>12
    DEF Next, CompletionStep, Complete

LEMMA OneInit == Init => OneInv
  BY DEF Init, OneInv, Dropped, Alone, KeyStays, OneDocument, Of, IdleCompletion, Running,
         CompletionPc, BeforeDrop

LEMMA OneHolds == Spec => []OneInv
  <1>1. TypeInv => TypeOK
    BY DEF TypeInv
  <1>2. TypeInv /\ OneInv /\ [Next]_vars => OneInv'
    BY <1>1, OneStep
  <1> QED  BY OneInit, <1>2, TypeInvHolds, PTL DEF Spec

\* A session yields at most one document, however its requests fail, are
\* repeated or are lost with the process, as long as no two completions of it
\* are under way at once.
THEOREM OneDoc == Spec => []OneDocument
  <1>1. OneInv => OneDocument
    BY DEF OneInv
  <1> QED  BY <1>1, OneHolds, PTL

----------------------------------------------------------------------------
\* The parts that count are whole

\* No part of the session was written twice and its files are there.
Unwritten(s) == ~rewritten[s] /\ session[s] # "removed"

RegisteredWhole ==
    \A s \in Sessions : Unwritten(s) =>
        \A p \in registered[s] : file[s][p] = "whole"

WrittenWhole ==
    \A u \in Uploads : upload[u].pc = "register" /\ Unwritten(upload[u].on)
        => file[upload[u].on][upload[u].part] = "whole"

\* A request that writes a part is the only one to do so.
WritesAlone ==
    \A u \in Uploads : upload[u].pc = "write" /\ Unwritten(upload[u].on) =>
        /\ upload[u].mine
        /\ upload[u].part \notin registered[upload[u].on]
        /\ \A w \in Uploads \ {u} :
              upload[w].pc \in {"write", "register"} /\ upload[w].on = upload[u].on
                 => upload[w].part # upload[u].part

PartsInv == RegisteredWhole /\ WrittenWhole /\ WritesAlone

\* Steps that leave uploads and parts alone and bring no session back.
LEMMA PartsKept ==
    ASSUME TypeOK, PartsInv, UNCHANGED <<registered, file, upload, rewritten>>,
           \A s \in Sessions : session'[s] # "removed" => session[s] # "removed"
    PROVE  PartsInv'
  <1>1. \A s \in Sessions : Unwritten(s)' => Unwritten(s)
    BY DEF Unwritten
  <1>2. \A u \in Uploads : upload[u].pc # "idle" => upload[u].on \in Sessions
    BY DEF TypeOK
  <1>3. RegisteredWhole'
    BY <1>1 DEF PartsInv, RegisteredWhole
  <1>4. WrittenWhole'
    BY <1>1, <1>2 DEF PartsInv, WrittenWhole
  <1>5. WritesAlone'
    BY <1>1, <1>2 DEF PartsInv, WritesAlone
  <1> QED  BY <1>3, <1>4, <1>5 DEF PartsInv

\* An upload that writes nothing: v is what it becomes.
LEMMA UploadKeepsParts ==
    ASSUME TypeOK, PartsInv, NEW u \in Uploads, NEW v, UploadBecome(u, v),
           v.pc \in {"open", "ended"},
           UNCHANGED <<session, registered, file, rewritten>>
    PROVE  PartsInv'
  <1>1. upload'[u] = v /\ \A w \in Uploads \ {u} : upload'[w] = upload[w]
    BY DEF UploadBecome, TypeOK
  <1>2. RegisteredWhole'
    BY DEF PartsInv, RegisteredWhole, Unwritten
  <1>3. WrittenWhole'
    BY <1>1 DEF PartsInv, WrittenWhole, Unwritten
  <1>4. WritesAlone'
    BY <1>1 DEF PartsInv, WritesAlone, Unwritten
  <1> QED  BY <1>2, <1>3, <1>4 DEF PartsInv

LEMMA PartsStep ==
    ASSUME TypeOK, OneInv, PartsInv, [Next]_vars
    PROVE  PartsInv'
  <1>1. ASSUME NEW s \in Sessions, CreateSession(s) \/ Expire(s)
        PROVE  PartsInv'
    <2>1. UNCHANGED <<registered, file, upload, rewritten>>
      BY <1>1 DEF CreateSession, Expire, disk, history
    <2>2. \A t \in Sessions : session'[t] # "removed" => session[t] # "removed"
      BY <1>1 DEF CreateSession, Expire, TypeOK
    <2> QED  BY <2>1, <2>2, PartsKept
  <1>2. ASSUME NEW u \in Uploads, NEW s \in Sessions, NEW p \in Parts, BeginPart(u, s, p)
        PROVE  PartsInv'
    <2> DEFINE v == [IdleUpload EXCEPT !.pc = "open", !.on = s, !.part = p]
    <2>1. v.pc = "open"
      BY DEF IdleUpload
    <2>2. UploadBecome(u, v) /\ UNCHANGED <<session, registered, file, rewritten>>
      BY <1>2 DEF BeginPart, redis, disk, history
    <2> HIDE DEF v
    <2> QED  BY <2>1, <2>2, UploadKeepsParts
  <1>3. ASSUME NEW u \in Uploads, OpenPart(u)
        PROVE  PartsInv'
    <2>1. PICK s \in Sessions, p \in Parts :
             s = upload[u].on /\ p = upload[u].part /\ upload[u].pc = "open"
      BY <1>3 DEF OpenPart, TypeOK
    <2>2. /\ UNCHANGED <<session, registered>>
          /\ file' = [file EXCEPT ![s][p] = "partial"]
      BY <1>3, <2>1 DEF OpenPart, redis
    <2>3. \A t \in Sessions : rewritten[t] => rewritten'[t]
      BY <1>3 DEF OpenPart, TypeOK
    <2>4. ~rewritten'[s] =>
             /\ p \notin registered[s]
             /\ \A w \in Uploads \ {u} : upload[w].on = s /\ upload[w].part = p
                                            => upload[w].pc \notin {"write", "register"}
      BY <1>3, <2>1 DEF OpenPart, TypeOK
    <2>5. /\ upload'[u].pc = "write" /\ upload'[u].mine
          /\ upload'[u].on = s /\ upload'[u].part = p
      <3>1. upload'[u] = [upload[u] EXCEPT !.pc = "write", !.mine = TRUE]
        BY <1>3 DEF OpenPart
      <3>2. upload[u] \in Upload
        BY DEF TypeOK
      <3> QED  BY <2>1, <3>1, <3>2 DEF Upload
    <2>6. ASSUME NEW w \in Uploads \ {u}
          PROVE  /\ upload'[w].pc = upload[w].pc
                 /\ upload'[w].on = upload[w].on /\ upload'[w].part = upload[w].part
                 /\ upload'[w].mine <=> upload[w].mine /\ ~Writes(w, s, p)
      <3> DEFINE mine == upload[w].mine /\ ~Writes(w, s, p)
      <3>1. upload'[w] = [upload[w] EXCEPT !.mine = mine]
        BY <1>3, <2>1 DEF OpenPart
      <3>2. upload[w] \in Upload /\ mine \in BOOLEAN
        BY DEF TypeOK, Upload, Writes
      <3> HIDE DEF mine
      <3>3. /\ upload'[w].pc = upload[w].pc
            /\ upload'[w].on = upload[w].on /\ upload'[w].part = upload[w].part
            /\ upload'[w].mine = mine
        BY <3>1, <3>2 DEF Upload
      <3> QED  BY <3>3 DEF mine
    <2>7. \A t \in Sessions : Unwritten(t)' => Unwritten(t)
      BY <2>2, <2>3 DEF Unwritten
    <2>8. \A t \in Sessions : \A q \in Parts :
             t # s \/ q # p => file'[t][q] = file[t][q]
      BY <2>1, <2>2 DEF TypeOK
    <2>9. RegisteredWhole'
      <3> SUFFICES ASSUME NEW t \in Sessions, Unwritten(t)', NEW q \in registered'[t]
                   PROVE  file'[t][q] = "whole"
        BY DEF RegisteredWhole
      <3>1. Unwritten(t) /\ q \in registered[t] /\ q \in Parts
        BY <2>2, <2>7 DEF TypeOK
      <3>2. t # s \/ q # p
        BY <2>2, <2>4, <3>1 DEF Unwritten
      <3> QED  BY <2>8, <3>1, <3>2 DEF PartsInv, RegisteredWhole
    <2>10. WrittenWhole'
      <3> SUFFICES ASSUME NEW w \in Uploads \ {u}, upload[w].pc = "register",
                          NEW t \in Sessions, NEW q \in Parts,
                          upload[w].on = t, upload[w].part = q, Unwritten(t)'
                   PROVE  file'[t][q] = "whole"
        BY <2>5, <2>6 DEF WrittenWhole, Unwritten, TypeOK
      <3>1. file[t][q] = "whole"
        BY <2>7 DEF PartsInv, WrittenWhole
      <3>2. t # s \/ q # p
        BY <2>4 DEF Unwritten
      <3> QED  BY <2>8, <3>1, <3>2
    <2>11. WritesAlone'
      <3> SUFFICES ASSUME NEW w \in Uploads, upload'[w].pc = "write",
                          NEW t \in Sessions, upload'[w].on = t, Unwritten(t)'
                   PROVE  /\ upload'[w].mine
                          /\ upload'[w].part \notin registered'[t]
                          /\ \A x \in Uploads \ {w} :
                                upload'[x].pc \in {"write", "register"} /\ upload'[x].on = t
                                   => upload'[x].part # upload'[w].part
        <4>1. \A w \in Uploads : upload'[w].pc = "write" => upload'[w].on \in Sessions
          BY <2>1, <2>5, <2>6 DEF TypeOK
        <4> QED  BY <4>1 DEF WritesAlone, Unwritten
      <3>1. CASE w = u
        <4>1. t = s /\ ~rewritten'[s]
          BY <2>5, <3>1 DEF Unwritten
        <4> QED  BY <2>2, <2>4, <2>5, <2>6, <3>1, <4>1
      <3>2. CASE w # u
        <4>1. /\ upload[w].pc = "write" /\ upload[w].on = t
              /\ upload'[w].part = upload[w].part /\ Unwritten(t)
          BY <2>6, <2>7, <3>2
        <4>2. ~(t = s /\ upload[w].part = p)
          BY <2>4, <3>2, <4>1 DEF Unwritten
        <4>3. upload'[w].mine /\ upload[w].part \notin registered[t]
          BY <2>6, <3>2, <4>1, <4>2 DEF PartsInv, WritesAlone, Writes
        <4>4. ASSUME NEW x \in Uploads \ {w}, upload'[x].pc \in {"write", "register"},
                     upload'[x].on = t
              PROVE  upload'[x].part # upload[w].part
          <5>1. CASE x = u
            BY <2>5, <4>2, <4>4, <5>1
          <5>2. CASE x # u
            BY <2>6, <4>1, <4>4, <5>2 DEF PartsInv, WritesAlone
          <5> QED  BY <5>1, <5>2
        <4> QED  BY <2>2, <4>1, <4>3, <4>4
      <3> QED  BY <3>1, <3>2
    <2> QED  BY <2>9, <2>10, <2>11 DEF PartsInv
  <1>4. ASSUME NEW u \in Uploads, WritePart(u)
        PROVE  PartsInv'
    <2> DEFINE v == [upload[u] EXCEPT !.pc = "register", !.mine = FALSE]
    <2>1. PICK s \in Sessions, p \in Parts :
             s = upload[u].on /\ p = upload[u].part /\ upload[u].pc = "write"
      BY <1>4 DEF WritePart, TypeOK
    <2>2. /\ UNCHANGED <<session, registered, rewritten>>
          /\ file' = IF upload[u].mine THEN [file EXCEPT ![s][p] = "whole"] ELSE file
      BY <1>4, <2>1 DEF WritePart, redis, history
    <2>3. v.pc = "register" /\ v.on = s /\ v.part = p
      BY <2>1 DEF TypeOK, Upload
    <2>4. UploadBecome(u, v)
      BY <1>4 DEF WritePart
    <2> HIDE DEF v
    <2>5. upload'[u] = v /\ \A w \in Uploads \ {u} : upload'[w] = upload[w]
      BY <2>4 DEF UploadBecome, TypeOK
    <2>6. \A t \in Sessions : Unwritten(t)' <=> Unwritten(t)
      BY <2>2 DEF Unwritten
    <2>7. \A t \in Sessions : \A q \in Parts :
             file[t][q] = "whole" => file'[t][q] = "whole"
      BY <2>1, <2>2 DEF TypeOK
    <2>8. Unwritten(s) => file'[s][p] = "whole"
      <3>1. Unwritten(s) => upload[u].mine
        BY <2>1 DEF PartsInv, WritesAlone
      <3> QED  BY <2>1, <2>2, <3>1 DEF TypeOK
    <2>9. RegisteredWhole'
      BY <2>2, <2>6, <2>7 DEF PartsInv, RegisteredWhole, TypeOK
    <2>10. WrittenWhole'
      <3> SUFFICES ASSUME NEW w \in Uploads, upload'[w].pc = "register",
                          NEW t \in Sessions, NEW q \in Parts,
                          upload'[w].on = t, upload'[w].part = q, Unwritten(t)'
                   PROVE  file'[t][q] = "whole"
        <4>1. \A w \in Uploads : upload'[w].pc = "register" =>
                 upload'[w].on \in Sessions /\ upload'[w].part \in Parts
          BY <2>1, <2>3, <2>5 DEF TypeOK
        <4> QED  BY <4>1 DEF WrittenWhole, Unwritten
      <3>1. Unwritten(t)
        BY <2>6
      <3>2. CASE w = u
        BY <2>3, <2>5, <2>8, <3>1, <3>2
      <3>3. CASE w # u
        BY <2>5, <2>7, <3>1, <3>3 DEF PartsInv, WrittenWhole
      <3> QED  BY <3>2, <3>3
    <2>11. WritesAlone'
      <3> SUFFICES ASSUME NEW w \in Uploads, w # u, upload[w].pc = "write",
                          Unwritten(upload[w].on), upload'[w] = upload[w]
                   PROVE  /\ upload[w].mine
                          /\ upload[w].part \notin registered[upload[w].on]
                          /\ \A x \in Uploads \ {w} :
                                upload'[x].pc \in {"write", "register"}
                                /\ upload'[x].on = upload[w].on
                                   => upload'[x].part # upload[w].part
        BY <2>2, <2>3, <2>5 DEF WritesAlone, Unwritten
      <3> QED  BY <2>1, <2>3, <2>5 DEF PartsInv, WritesAlone
    <2> QED  BY <2>9, <2>10, <2>11 DEF PartsInv
  <1>5. ASSUME NEW u \in Uploads, RegisterPart(u)
        PROVE  PartsInv'
    <2> DEFINE v == [upload[u] EXCEPT !.pc = "ended"]
    <2>1. PICK s \in Sessions, p \in Parts :
             s = upload[u].on /\ p = upload[u].part /\ upload[u].pc = "register"
      BY <1>5 DEF RegisterPart, TypeOK
    <2>2. /\ UNCHANGED <<session, file, rewritten>>
          /\ registered' = [registered EXCEPT ![s] = registered[s] \union {p}]
      BY <1>5, <2>1 DEF RegisterPart, disk, history
    <2>3. v.pc = "ended"
      BY DEF TypeOK, Upload
    <2>4. UploadBecome(u, v)
      BY <1>5 DEF RegisterPart, UploadGoto
    <2> HIDE DEF v
    <2>5. upload'[u].pc = "ended" /\ \A w \in Uploads \ {u} : upload'[w] = upload[w]
      BY <2>3, <2>4 DEF UploadBecome, TypeOK
    <2>6. \A t \in Sessions : \A q \in registered'[t] : q \in registered[t] \/ (t = s /\ q = p)
      BY <2>2 DEF TypeOK
    <2>7. Unwritten(s) => file[s][p] = "whole"
      BY <2>1 DEF PartsInv, WrittenWhole
    <2>8. RegisteredWhole'
      BY <2>2, <2>6, <2>7 DEF PartsInv, RegisteredWhole, Unwritten
    <2>9. WrittenWhole'
      BY <2>2, <2>5 DEF PartsInv, WrittenWhole, Unwritten
    <2>10. WritesAlone'
      <3> SUFFICES ASSUME NEW w \in Uploads, w # u, upload[w].pc = "write",
                          Unwritten(upload[w].on), upload'[w] = upload[w]
                   PROVE  /\ upload[w].mine
                          /\ upload[w].part \notin registered'[upload[w].on]
                          /\ \A x \in Uploads \ {w} :
                                upload'[x].pc \in {"write", "register"}
                                /\ upload'[x].on = upload[w].on
                                   => upload'[x].part # upload[w].part
        BY <2>2, <2>5 DEF WritesAlone, Unwritten
      <3>1. upload[w].on = s => upload[w].part # p
        BY <2>1 DEF PartsInv, WritesAlone
      <3>2. upload[w].on \in Sessions
        BY DEF TypeOK
      <3> QED  BY <2>5, <2>6, <3>1, <3>2 DEF PartsInv, WritesAlone
    <2> QED  BY <2>8, <2>9, <2>10 DEF PartsInv
  <1>6. ASSUME NEW u \in Uploads, PartFails(u)
        PROVE  PartsInv'
    <2> DEFINE v == [upload[u] EXCEPT !.pc = "ended", !.mine = FALSE]
    <2>1. v.pc = "ended"
      BY DEF TypeOK, Upload
    <2>2. UploadBecome(u, v) /\ UNCHANGED <<session, registered, file, rewritten>>
      BY <1>6 DEF PartFails, redis, disk, history
    <2> HIDE DEF v
    <2> QED  BY <2>1, <2>2, UploadKeepsParts
  <1>7. ASSUME NEW c \in Completions, DropSession(c)
        PROVE  PartsInv'
    <2>1. UNCHANGED <<registered, file, upload, rewritten>>
      BY <1>7 DEF DropSession, disk, history
    <2>2. \A s \in Sessions : session'[s] # "removed" => session[s] # "removed"
      BY <1>7 DEF DropSession, TypeOK
    <2> QED  BY <2>1, <2>2, PartsKept
  <1>8. ASSUME NEW c \in Completions, DropParts(c)
        PROVE  PartsInv'
    <2>1. PICK s \in Sessions : s = completion[c].on /\ session[s] = "removed"
      BY <1>8 DEF DropParts, TypeOK, OneInv, Dropped
    <2>2. /\ UNCHANGED <<session, rewritten>>
          /\ \A t \in Sessions \ {s} : registered'[t] = registered[t] /\ file'[t] = file[t]
      BY <1>8, <2>1 DEF DropParts, TypeOK, history
    <2>3. ASSUME NEW u \in Uploads
          PROVE  /\ upload'[u].pc = upload[u].pc
                 /\ upload'[u].on = upload[u].on /\ upload'[u].part = upload[u].part
                 /\ upload[u].on # s => upload'[u].mine = upload[u].mine
      <3> DEFINE mine == upload[u].mine /\ upload[u].on # completion[c].on
      <3>1. upload'[u] = [upload[u] EXCEPT !.mine = mine]
        BY <1>8 DEF DropParts
      <3>2. /\ upload[u] \in Upload /\ mine \in BOOLEAN
            /\ upload[u].on # s => mine = upload[u].mine
        BY <2>1 DEF TypeOK, Upload
      <3> HIDE DEF mine
      <3> QED  BY <3>1, <3>2 DEF Upload
    <2>4. ~Unwritten(s)' /\ \A t \in Sessions : Unwritten(t)' => Unwritten(t)
      BY <2>1, <2>2 DEF Unwritten
    <2>5. RegisteredWhole'
      BY <2>2, <2>4 DEF PartsInv, RegisteredWhole
    <2>6. WrittenWhole'
      <3> SUFFICES ASSUME NEW u \in Uploads, upload[u].pc = "register",
                          NEW t \in Sessions, upload[u].on = t, Unwritten(t)'
                   PROVE  file'[t][upload[u].part] = "whole"
        <4>1. \A u \in Uploads : upload[u].pc = "register" => upload[u].on \in Sessions
          BY DEF TypeOK
        <4> QED  BY <2>3, <4>1 DEF WrittenWhole, Unwritten
      <3> QED  BY <2>2, <2>4 DEF PartsInv, WrittenWhole
    <2>7. WritesAlone'
      <3> SUFFICES ASSUME NEW u \in Uploads, upload[u].pc = "write",
                          NEW t \in Sessions, upload[u].on = t, Unwritten(t)'
                   PROVE  /\ upload'[u].mine
                          /\ upload[u].part \notin registered'[t]
                          /\ \A w \in Uploads \ {u} :
                                upload[w].pc \in {"write", "register"} /\ upload[w].on = t
                                   => upload[w].part # upload[u].part
        <4>1. \A u \in Uploads : upload[u].pc = "write" => upload[u].on \in Sessions
          BY DEF TypeOK
        <4> QED  BY <2>3, <4>1 DEF WritesAlone, Unwritten
      <3> QED  BY <2>2, <2>3, <2>4 DEF PartsInv, WritesAlone
    <2> QED  BY <2>5, <2>6, <2>7 DEF PartsInv
  <1>9. ASSUME NEW c \in Completions,
               \/ \E s \in Sessions : BeginCompletion(c, s)
               \/ CountParts(c) \/ StartMerge(c) \/ CopyPart(c) \/ EndMerge(c)
                  \/ InspectMerged(c) \/ StoreObject(c) \/ EnqueueDocument(c)
                  \/ CompletionFails(c) \/ CommitDocument(c) \/ CompletionBreaksOff(c)
        PROVE  PartsInv'
    <2>1. UNCHANGED <<session, registered, file, upload, rewritten>>
      BY <1>9
      DEF BeginCompletion, CountParts, StartMerge, CopyPart, EndMerge, InspectMerged, StoreObject,
          EnqueueDocument, CompletionFails, CommitDocument, CompletionBreaksOff,
          redis, disk, history
    <2>2. \A s \in Sessions : session'[s] # "removed" => session[s] # "removed"
      BY <2>1
    <2> QED  BY <2>1, <2>2, PartsKept
  <1>10. ASSUME CrashApi
         PROVE  PartsInv'
    <2>1. UNCHANGED <<session, registered, file, rewritten>>
      BY <1>10 DEF CrashApi, redis, disk, history
    <2>2. \A u \in Uploads : upload'[u].pc \notin {"write", "register"}
      BY <1>10 DEF CrashApi, UploadRuns, TypeOK, Upload
    <2> QED  BY <2>1, <2>2 DEF PartsInv, RegisteredWhole, WrittenWhole, WritesAlone,
       Unwritten
  <1>11. ASSUME UNCHANGED vars
         PROVE  PartsInv'
    BY <1>11, PartsKept DEF vars
  <1> QED
    BY <1>1, <1>2, <1>3, <1>4, <1>5, <1>6, <1>7, <1>8, <1>9, <1>10, <1>11
    DEF Next, UploadStep, CompletionStep, Complete

----------------------------------------------------------------------------
\* What is stored is whole

Clean(s) == ~rewritten[s] /\ ~overlapped[s]

\* How far a completion has come, in a session with a clean history.
MergeOf(c) ==
    LET s == completion[c].on
        pc == completion[c].pc
    IN
    /\ pc \in {"idle", "count", "wait"} =>
          completion[c].next = 1 /\ ~completion[c].shifted /\ object[c] = None
    /\ pc \in {"wait", "merge", "inspect", "store"} /\ Clean(s) => registered[s] = Parts
    /\ pc = "merge" /\ Clean(s) =>
          /\ completion[c].mine /\ ~completion[c].shifted
          /\ merged[s] = 1..(completion[c].next - 1)
    /\ pc \in {"inspect", "store"} /\ Clean(s) => merged[s] = Parts
    /\ object[c] # None /\ Clean(s) => object[c] = Parts

MergeInv == \A c \in Completions : MergeOf(c)

\* A step of c disturbs no other completion: if it shares the session, the
\* history is not clean.
LEMMA OthersKeepMerge ==
    ASSUME TypeOK, OneInv, MergeInv, NEW c \in Completions, completion[c].pc \in Running,
           \A d \in Completions \ {c} :
              /\ object'[d] = object[d] /\ completion'[d].pc = completion[d].pc
              /\ completion'[d].on = completion[d].on
              /\ completion'[d].next = completion[d].next
              /\ completion'[d].shifted = completion[d].shifted
              /\ completion[d].on # completion[c].on => completion'[d].mine = completion[d].mine,
           UNCHANGED <<rewritten, overlapped>>,
           \A t \in Sessions \ {completion[c].on} :
              registered'[t] = registered[t] /\ merged'[t] = merged[t]
    PROVE  \A d \in Completions \ {c} : MergeOf(d)'
  <1> SUFFICES ASSUME NEW d \in Completions \ {c} PROVE MergeOf(d)'
    OBVIOUS
  <1>1. MergeOf(d)
    BY DEF MergeInv
  <1>2. CASE completion[d].pc \in {"wait", "merge", "inspect", "store"} /\ Clean(completion[d].on)
    <2>1. completion[d].on # completion[c].on
      BY <1>2 DEF OneInv, Alone, Clean, Running, CompletionPc
    <2>2. completion[d].on \in Sessions \ {completion[c].on}
      BY <1>2, <2>1 DEF TypeOK
    <2> QED  BY <1>1, <2>1, <2>2 DEF MergeOf, Clean
  <1>3. CASE ~(completion[d].pc \in {"wait", "merge", "inspect", "store"}
               /\ Clean(completion[d].on))
    BY <1>1, <1>3 DEF MergeOf, Clean
  <1> QED  BY <1>2, <1>3

\* So it is enough to look at the completion that moves.
LEMMA MoveKeepsMerge ==
    ASSUME TypeOK, OneInv, MergeInv, NEW c \in Completions, NEW pc, Moves(c, pc),
           \A d \in Completions \ {c} : object'[d] = object[d],
           UNCHANGED <<rewritten, overlapped, registered>>,
           \A t \in Sessions \ {completion[c].on} : merged'[t] = merged[t],
           MergeOf(c)'
    PROVE  MergeInv'
  <1>1. \A d \in Completions \ {c} : MergeOf(d)'
    BY OthersKeepMerge DEF Moves
  <1> QED  BY <1>1 DEF MergeInv

\* Nothing that MergeOf speaks of becomes less.
LEMMA GrowthKeepsMerge ==
    ASSUME TypeOK, TypeOK', MergeInv, UNCHANGED <<completion, merged, object>>,
           \A s \in Sessions : /\ registered[s] \subseteq registered'[s]
                               /\ rewritten[s] => rewritten'[s]
                               /\ overlapped[s] => overlapped'[s]
    PROVE  MergeInv'
  <1> SUFFICES ASSUME NEW c \in Completions PROVE MergeOf(c)'
    BY DEF MergeInv
  <1>1. MergeOf(c)
    BY DEF MergeInv
  <1>2. CASE completion[c].pc = "idle"
    BY <1>1, <1>2 DEF MergeOf
  <1>3. CASE completion[c].pc # "idle"
    <2>1. completion[c].on \in Sessions
      BY <1>3 DEF TypeOK
    <2>2. Clean(completion[c].on)' => Clean(completion[c].on)
      BY <2>1 DEF Clean
    <2>3. registered[completion[c].on] = Parts => registered'[completion[c].on] = Parts
      BY <2>1 DEF TypeOK
    <2> QED  BY <1>1, <2>2, <2>3 DEF MergeOf
  <1> QED  BY <1>2, <1>3

LEMMA MergeStep ==
    ASSUME TypeOK, TypeOK', OneInv, PartsInv, MergeInv, [Next]_vars
    PROVE  MergeInv'
  <1>1. ASSUME NEW s \in Sessions, CreateSession(s) \/ Expire(s)
        PROVE  MergeInv'
    <2>1. UNCHANGED <<completion, merged, object, registered, rewritten, overlapped>>
      BY <1>1 DEF CreateSession, Expire, disk, result, history
    <2> QED  BY <2>1, GrowthKeepsMerge
  <1>2. ASSUME NEW u \in Uploads, UploadStep(u)
        PROVE  MergeInv'
    <2>1. UNCHANGED <<completion, merged, object, overlapped>>
      BY <1>2, ZenonT(30)
      DEF UploadStep, BeginPart, OpenPart, WritePart, RegisterPart, PartFails, disk, result, history
    <2>2. \A s \in Sessions : registered[s] \subseteq registered'[s]
      <3>1. CASE RegisterPart(u)
        BY <3>1 DEF RegisterPart, TypeOK
      <3>2. CASE ~RegisterPart(u)
        <4>1. registered' = registered
          BY <1>2, <3>2, ZenonT(30)
          DEF UploadStep, BeginPart, OpenPart, WritePart, PartFails, redis
        <4> QED  BY <4>1
      <3> QED  BY <3>1, <3>2
    <2>3. \A s \in Sessions : rewritten[s] => rewritten'[s]
      <3>1. CASE OpenPart(u)
        BY <3>1 DEF OpenPart, TypeOK
      <3>2. CASE ~OpenPart(u)
        <4>1. rewritten' = rewritten
          BY <1>2, <3>2, ZenonT(30)
          DEF UploadStep, BeginPart, WritePart, RegisterPart, PartFails, history
        <4> QED  BY <4>1
      <3> QED  BY <3>1, <3>2
    <2> QED  BY <2>1, <2>2, <2>3, GrowthKeepsMerge
  <1>3. ASSUME NEW c \in Completions, NEW s \in Sessions, BeginCompletion(c, s)
        PROVE  MergeInv'
    <2>1. /\ completion[c].pc = "idle"
          /\ UNCHANGED <<merged, object, registered, rewritten>>
          /\ \A t \in Sessions : overlapped[t] => overlapped'[t]
      BY <1>3 DEF BeginCompletion, redis, disk, result, TypeOK
    <2>2. MergeOf(c)'
      <3>1. object[c] = None
        BY <2>1 DEF MergeInv, MergeOf
      <3> QED  BY <1>3, <2>1, <3>1, BeginMoves DEF MergeOf
    <2>3. ASSUME NEW d \in Completions \ {c}
          PROVE  MergeOf(d)'
      <3>1. completion'[d] = completion[d] /\ MergeOf(d)
        BY <1>3, BeginMoves DEF MergeInv
      <3>2. completion[d].pc # "idle" => (Clean(completion[d].on)' => Clean(completion[d].on))
        BY <2>1, <3>1 DEF Clean, TypeOK
      <3> QED  BY <2>1, <3>1, <3>2 DEF MergeOf, Clean
    <2> QED  BY <2>2, <2>3 DEF MergeInv
  <1>4. ASSUME NEW c \in Completions, CountParts(c)
        PROVE  MergeInv'
    <2>1. PICK pc \in {"wait", "failed"} : Goto(c, pc)
      BY <1>4 DEF CountParts
    <2>2. /\ completion[c].pc = "count"
          /\ UNCHANGED <<rewritten, overlapped, registered, merged, object>>
      BY <1>4 DEF CountParts, redis, disk, result, history
    <2>3. Moves(c, pc) /\ Keeps(c)
      BY <2>1, <2>2, GotoMoves DEF Running, CompletionPc
    <2>4. pc = "wait" => registered[completion[c].on] = Parts
      <3>1. completion'[c].pc = pc
        BY <2>3 DEF Moves
      <3>2. CASE registered[completion[c].on] = Parts
        BY <3>2
      <3>3. CASE registered[completion[c].on] # Parts
        <4>1. Goto(c, "failed")
          BY <1>4, <3>3 DEF CountParts
        <4>2. completion'[c].pc = "failed"
          BY <2>2, <4>1, GotoMoves DEF Moves, Running, CompletionPc
        <4> QED  BY <3>1, <4>2
      <3> QED  BY <3>2, <3>3
    <2>5. MergeOf(c)'
      BY <2>2, <2>3, <2>4 DEF MergeInv, MergeOf, Moves, Keeps, Clean
    <2> QED  BY <2>2, <2>3, <2>5, MoveKeepsMerge
  <1>5. ASSUME NEW c \in Completions, StartMerge(c)
        PROVE  MergeInv'
    <2>1. /\ completion[c].pc = "wait" /\ completion[c].on \in Sessions
          /\ merged' = [merged EXCEPT ![completion[c].on] = {}]
          /\ UNCHANGED <<rewritten, overlapped, registered, object>>
      BY <1>5 DEF StartMerge, TypeOK, redis, result, history
    <2>2. /\ merged'[completion[c].on] = {}
          /\ \A t \in Sessions \ {completion[c].on} : merged'[t] = merged[t]
      BY <2>1 DEF TypeOK
    <2>3. /\ completion[c].next = 1 /\ ~completion[c].shifted /\ object[c] = None
          /\ Clean(completion[c].on) => registered[completion[c].on] = Parts
      BY <2>1 DEF MergeInv, MergeOf
    <2>4. /\ completion'[c].pc = "merge" /\ completion'[c].on = completion[c].on
          /\ completion'[c].next = 1 /\ ~completion'[c].shifted /\ completion'[c].mine
      BY <1>5, <2>3, StartMoves DEF Moves
    <2>5. 1..(1 - 1) = {}
      OBVIOUS
    <2>6. MergeOf(c)'
      BY <2>1, <2>2, <2>3, <2>4, <2>5 DEF MergeOf, Clean
    <2> QED  BY <1>5, <2>1, <2>2, <2>6, StartMoves, MoveKeepsMerge
  <1>6. ASSUME NEW c \in Completions, CopyPart(c)
        PROVE  MergeInv'
    <2>1. PICK s \in Sessions, n \in Parts :
             /\ s = completion[c].on /\ n = completion[c].next
             /\ completion[c].pc = "merge" /\ file[s][n] # "absent"
      BY <1>6 DEF CopyPart, TypeOK
    <2>2. UNCHANGED <<rewritten, overlapped, registered, object>>
      BY <1>6 DEF CopyPart, redis, result, history
    <2>3. \A t \in Sessions \ {s} : merged'[t] = merged[t]
      BY <1>6, <2>1 DEF CopyPart, TypeOK
    <2>4. Clean(s) =>
             /\ registered[s] = Parts /\ completion[c].mine /\ ~completion[c].shifted
             /\ merged[s] = 1..(n - 1)
      BY <2>1 DEF MergeInv, MergeOf
    <2>5. Clean(s) => file[s][n] = "whole"
      <3>1. Clean(s) => session[s] # "removed"
        BY <2>1 DEF OneInv, KeyStays, BeforeDrop, Clean
      <3> QED  BY <2>1, <2>4, <3>1 DEF PartsInv, RegisteredWhole, Unwritten, Clean
    <2>6. Clean(s) => merged'[s] = 1..n /\ ~completion'[c].shifted
      <3> SUFFICES ASSUME Clean(s) PROVE merged'[s] = 1..n /\ ~completion'[c].shifted
        OBVIOUS
      <3>1. completion[c].mine /\ ~completion[c].shifted /\ file[s][n] # "partial"
        BY <2>4, <2>5
      <3>2. merged'[s] = merged[s] \union {n}
        BY <1>6, <2>1, <3>1 DEF CopyPart, TypeOK
      <3>3. n \in Nat /\ n >= 1
        BY DEF Parts
      <3>4. 1..n = (1..(n - 1)) \union {n}
        BY <3>3
      <3> QED  BY <1>6, <2>1, <2>4, <3>1, <3>2, <3>4, CopyMoves
    <2>7. completion'[c].next = n + 1 /\ (n + 1) - 1 = n
      BY <1>6, <2>1, CopyMoves DEF Parts
    <2>8. completion'[c].pc = "merge" /\ completion'[c].on = s
          /\ completion'[c].mine = completion[c].mine
      BY <1>6, <2>1, CopyMoves DEF Moves
    <2>9. MergeOf(c)'
      BY <2>1, <2>2, <2>4, <2>6, <2>7, <2>8 DEF MergeInv, MergeOf, Clean
    <2> QED  BY <1>6, <2>1, <2>2, <2>3, <2>9, CopyMoves, MoveKeepsMerge
  <1>7. ASSUME NEW c \in Completions, EndMerge(c)
        PROVE  MergeInv'
    <2>1. /\ completion[c].pc = "merge" /\ completion[c].next = TotalParts + 1
          /\ UNCHANGED <<rewritten, overlapped, registered, merged, object>>
      BY <1>7 DEF EndMerge, redis, disk, result, history
    <2>2. Moves(c, "inspect") /\ Keeps(c)
      BY <1>7, <2>1, GotoMoves DEF EndMerge, Running, CompletionPc
    <2>3. 1..(completion[c].next - 1) = Parts
      BY <2>1, TotalPartsAssumption DEF Parts
    <2>4. MergeOf(c)'
      BY <2>1, <2>2, <2>3 DEF MergeInv, MergeOf, Moves, Keeps, Clean
    <2> QED  BY <2>1, <2>2, <2>4, MoveKeepsMerge
  <1>8. ASSUME NEW c \in Completions, InspectMerged(c)
        PROVE  MergeInv'
    <2>1. /\ completion[c].pc = "inspect"
          /\ UNCHANGED <<rewritten, overlapped, registered, merged, object>>
      BY <1>8 DEF InspectMerged, redis, disk, result, history
    <2>2. Moves(c, "store") /\ Keeps(c)
      BY <1>8, <2>1, GotoMoves DEF InspectMerged, Running, CompletionPc
    <2>3. MergeOf(c)'
      BY <2>1, <2>2 DEF MergeInv, MergeOf, Moves, Keeps, Clean
    <2> QED  BY <2>1, <2>2, <2>3, MoveKeepsMerge
  <1>9. ASSUME NEW c \in Completions, StoreObject(c)
        PROVE  MergeInv'
    <2>1. /\ completion[c].pc = "store"
          /\ object' = [object EXCEPT ![c] = merged[completion[c].on]]
          /\ UNCHANGED <<rewritten, overlapped, registered, merged>>
      BY <1>9 DEF StoreObject, redis, disk, history
    <2>2. Moves(c, "enqueue")
      BY <1>9, <2>1, GotoMoves DEF StoreObject, Running, CompletionPc
    <2>3. /\ object'[c] = merged[completion[c].on]
          /\ \A d \in Completions \ {c} : object'[d] = object[d]
      BY <2>1 DEF TypeOK
    <2>4. MergeOf(c)'
      BY <2>1, <2>2, <2>3 DEF MergeInv, MergeOf, Moves, Clean
    <2> QED  BY <2>1, <2>2, <2>3, <2>4, MoveKeepsMerge
  <1>10. ASSUME NEW c \in Completions,
                EnqueueDocument(c) \/ DropSession(c) \/ CommitDocument(c) \/ CompletionBreaksOff(c)
         PROVE  MergeInv'
    <2>1. PICK pc \in {"drop_session", "drop_parts", "done", "failed"} : Goto(c, pc)
      BY <1>10 DEF EnqueueDocument, DropSession, CommitDocument, CompletionBreaksOff
    <2>2. /\ completion[c].pc \in Running
          /\ UNCHANGED <<rewritten, overlapped, registered, merged, object>>
      BY <1>10
      DEF EnqueueDocument, DropSession, CommitDocument, CompletionBreaksOff, Running, CompletionPc,
          redis, disk, result, history
    <2>3. Moves(c, pc)
      BY <2>1, <2>2, GotoMoves DEF CompletionPc
    <2>4. MergeOf(c)'
      BY <2>2, <2>3 DEF MergeInv, MergeOf, Moves, Clean
    <2> QED  BY <2>2, <2>3, <2>4, MoveKeepsMerge
  <1>11. ASSUME NEW c \in Completions, CompletionFails(c)
         PROVE  MergeInv'
    <2>1. UNCHANGED <<rewritten, overlapped, registered, merged, object>>
      BY <1>11 DEF CompletionFails, redis, disk, result, history
    <2>2. Moves(c, "drop_session")
      BY <1>11, FailsMoves
    <2>3. completion'[c].pc = "drop_session" /\ completion'[c].on = completion[c].on
      BY <2>2 DEF Moves
    <2>4. object[c] # None /\ Clean(completion[c].on) => object[c] = Parts
      BY DEF MergeInv, MergeOf
    <2>5. MergeOf(c)'
      BY <2>1, <2>3, <2>4 DEF MergeOf, Clean
    <2> QED  BY <2>1, <2>2, <2>5, MoveKeepsMerge
  <1>12. ASSUME NEW c \in Completions, DropParts(c)
         PROVE  MergeInv'
    <2>1. /\ UNCHANGED <<rewritten, overlapped, object>>
          /\ \A t \in Sessions \ {completion[c].on} :
                registered'[t] = registered[t] /\ merged'[t] = merged[t]
      <3>1. /\ registered' = [registered EXCEPT ![completion[c].on] = {}]
            /\ merged' = [merged EXCEPT ![completion[c].on] = None]
            /\ UNCHANGED <<rewritten, overlapped, object>>
        BY <1>12 DEF DropParts, result, history
      <3>2. registered \in [Sessions -> SUBSET Parts] /\ merged \in [Sessions -> Content \union {None}]
        BY DEF TypeOK
      <3> QED  BY <3>1, <3>2
    <2>2. /\ completion[c].pc = "drop_parts" /\ completion'[c].pc \in {"commit", "failed"}
          /\ completion'[c].on = completion[c].on
      BY <1>12, DropMoves
    <2>3. MergeOf(c)'
      BY <2>1, <2>2 DEF MergeInv, MergeOf, Clean
    <2>4. \A d \in Completions \ {c} :
             /\ object'[d] = object[d] /\ completion'[d].pc = completion[d].pc
             /\ completion'[d].on = completion[d].on
             /\ completion'[d].next = completion[d].next
             /\ completion'[d].shifted = completion[d].shifted
             /\ completion[d].on # completion[c].on => completion'[d].mine = completion[d].mine
      <3> TAKE d \in Completions \ {c}
      <3>1. completion[d] \in Completion /\ completion'[d] \in Completion
        BY DEF TypeOK
      <3>2. completion[d].mine \in BOOLEAN /\ completion'[d].mine \in BOOLEAN
        BY <3>1 DEF Completion
      <3> QED  BY <1>12, <2>1, <3>2, DropMoves
    <2>5. \A d \in Completions \ {c} : MergeOf(d)'
      BY <2>1, <2>2, <2>4, OthersKeepMerge DEF Running, CompletionPc
    <2> QED  BY <2>3, <2>5 DEF MergeInv
  <1>13. ASSUME CrashApi
         PROVE  MergeInv'
    <2>1. UNCHANGED <<rewritten, overlapped, registered, merged, object>>
      BY <1>13 DEF CrashApi, redis, disk, result, history
    <2> SUFFICES ASSUME NEW c \in Completions PROVE MergeOf(c)'
      BY DEF MergeInv
    <2>2. /\ completion'[c].on = completion[c].on
          /\ completion'[c].next = completion[c].next
          /\ completion'[c].shifted = completion[c].shifted
          /\ completion'[c].pc \in {"idle", "done", "failed"}
          /\ completion'[c].pc = "idle" => completion[c].pc = "idle"
      BY <1>13, CrashMoves DEF CompletionRuns
    <2> QED  BY <2>1, <2>2 DEF MergeInv, MergeOf, Clean
  <1>14. ASSUME UNCHANGED vars
         PROVE  MergeInv'
    BY <1>14, GrowthKeepsMerge DEF vars
  <1> QED
    BY <1>1, <1>2, <1>3, <1>4, <1>5, <1>6, <1>7, <1>8, <1>9, <1>10, <1>11, <1>12, <1>13,
       <1>14
    DEF Next, CompletionStep, Complete

UploadInv == TypeInv /\ OneInv /\ PartsInv /\ MergeInv

LEMMA UploadInvInit == Init => UploadInv
  <1> SUFFICES ASSUME Init PROVE UploadInv
    OBVIOUS
  <1>1. PartsInv
    BY DEF Init, PartsInv, RegisteredWhole, WrittenWhole, WritesAlone, IdleUpload
  <1>2. \A c \in Completions :
           completion[c] = IdleCompletion /\ object[c] = None
    BY DEF Init
  <1>3. IdleCompletion.pc = "idle" /\ IdleCompletion.next = 1 /\ ~IdleCompletion.shifted
    BY DEF IdleCompletion
  <1>4. MergeInv
    BY <1>2, <1>3 DEF MergeInv, MergeOf
  <1> QED  BY <1>1, <1>4, TypeInvInit, OneInit DEF UploadInv

LEMMA UploadInvStep == UploadInv /\ [Next]_vars => UploadInv'
  <1> SUFFICES ASSUME UploadInv, [Next]_vars PROVE UploadInv'
    OBVIOUS
  <1>1. TypeInv' /\ TypeOK /\ TypeOK'
    BY TypeInvStep DEF UploadInv, TypeInv
  <1> QED  BY <1>1, OneStep, PartsStep, MergeStep DEF UploadInv

LEMMA UploadInvHolds == Spec => []UploadInv
  BY UploadInvInit, UploadInvStep, PTL DEF Spec

\* What a completion stores is the whole file, for any number of sessions, parts
\* and requests, as long as no part is written twice and no two completions of the
\* session overlap.
THEOREM StoredWhole == Spec => []StoredIsWhole
  <1>1. UploadInv => StoredIsWhole
    BY DEF UploadInv, MergeInv, MergeOf, StoredIsWhole, Clean, Whole
  <1> QED  BY <1>1, UploadInvHolds, PTL

----------------------------------------------------------------------------
\* ChatTurn

----------------------------------------------------------------------------
\* The inductive invariant

\* The handler of a stream: what is stored where it is, and where a done event is sent.
StreamHandler ==
    channel = "stream" =>
        /\ turn.pc \notin {"commit", "respond"}
        /\ turn.pc \in {"push", "send"} =>
              /\ turn.event.kind # "answer"
              /\ turn.event.kind = "done" => turn.then = "ended" /\ answer = turn.event.text
              /\ turn.then = "refused" => answer = "reason"
        /\ turn.pc = "refused" => answer = "reason"
        /\ turn.pc = "put" => answer = "final"
        /\ client.done # "absent" /\ client.reconnects = 0 =>
              turn.pc = "ended" /\ answer = client.done

\* The handler over HTTP and over a WebSocket: the order of commit and answer.
DirectHandler ==
    channel # "stream" =>
        /\ turn.pc \in {"idle", "lookup", "guard", "runtime", "check", "put", "commit",
                        "respond", "ended"}
        /\ client.on = "turn"
        /\ channel = "http" =>
              /\ turn.pc = "respond" => answer = turn.event.text
              /\ client.done # "absent" => turn.pc = "ended" /\ answer = client.done
        /\ channel = "ws" =>
              /\ turn.pc # "ended" => answer = "absent"
              /\ turn.pc \notin {"commit", "ended"} => client.done = "absent"
              /\ turn.pc = "commit" => turn.event.text = client.done
              /\ answer # "absent" => answer = client.done

\* Only a client that has reconnected reads a replay.
ReaderFollows ==
    client.reconnects = 0 => client.on # "reader" /\ reader.pc = "idle"

\* The counter of a stream's handler and the runtime's number, place by place: an
\* event keeps the number of the runtime until the guard has given its verdict, and
\* the counter is ahead of that number by the event which opened the stream.
Numbers ==
    channel = "stream" =>
        /\ turn.pc = "idle" => turn.count = 0
        /\ turn.pc \in {"idle", "lookup", "guard"} => turn.number = 0
        /\ turn.pc \in {"lookup", "guard"} => turn.count = 1
        /\ turn.pc = "runtime" => turn.count = turn.number + 1
        /\ turn.pc = "engine" =>
              /\ turn.event.kind \in {"status", "token", "answer"}
              /\ turn.event.trace = "runtime"
              /\ turn.event.n = turn.number
              /\ turn.count = turn.number
              /\ turn.number > 0
        /\ turn.pc \in {"push", "send"} =>
              /\ turn.then = "runtime" =>
                    /\ turn.event.trace = "runtime"
                    /\ turn.event.n = turn.number
                    /\ turn.count = turn.number + 1
              /\ turn.then = "lookup" => turn.count = 1 /\ turn.number = 0
              /\ turn.then \in {"lookup", "keep", "refused"} => turn.event.trace = "handler"
              /\ turn.then # "runtime" => turn.event.n = turn.count
        /\ turn.pc \in {"idle", "lookup", "keep", "guard", "refused", "runtime", "engine", "check"} =>
              turn.verdict = "none"
        /\ turn.pc \in {"push", "send"} /\ turn.then \in {"lookup", "keep", "refused", "runtime"} =>
              turn.verdict = "none"
        /\ turn.pc \in {"tokens", "save", "put"} => turn.verdict # "none"
        /\ turn.pc \in {"push", "send"} /\ turn.then = "tokens" => turn.verdict # "none"

\* What the client names in the trace of the runtime, against those numbers.
LastIsPassed ==
    /\ turn.pc \in {"idle", "lookup", "keep", "guard", "refused"} =>
          log["runtime"] = <<>> /\ client.last.trace = "handler"
    /\ turn.pc \in {"push", "send"} /\ turn.event.trace = "handler" =>
          log["runtime"] = <<>> /\ client.last.trace = "handler"
    /\ client.last.trace = "runtime" =>
          /\ turn.pc \in {"engine", "push", "send"} => client.last.n < turn.event.n
          /\ turn.pc = "runtime" => client.last.n <= turn.number
          /\ turn.pc \in {"check", "tokens", "save", "put"} => client.last.n <= turn.count

\* The client has an event of the runtime's trace, or it is at hand.
AtHand(e) ==
    /\ turn.pc \in {"engine", "push", "send"}
    /\ e.n = turn.event.n
    /\ e.kind = turn.event.kind

Passed(e) ==
    \/ e.kind = "answer"
    \/ <<e.n, e.kind>> \in client.seen
    \/ /\ client.last.trace = "runtime" => client.last.n < e.n
       /\ client.on = "turn" /\ turn.pc # "ended" => AtHand(e)

NothingSkippedYet ==
    channel = "stream" /\ client.reconnects = 0 =>
        LastIsPassed /\ \A i \in 1..Len(log["runtime"]) : Passed(log["runtime"][i])

ChatInv ==
    /\ Chat!TypeOK
    /\ StreamHandler
    /\ DirectHandler
    /\ ReaderFollows
    /\ Chat!CacheIsSafe
    /\ Numbers
    /\ NothingSkippedYet

----------------------------------------------------------------------------
\* The records

TurnPlaces == {"idle", "push", "send", "lookup", "keep", "guard", "refused", "runtime",
               "engine", "check", "tokens", "save", "put", "commit", "respond", "ended"}

Continuations == {"lookup", "keep", "refused", "runtime", "tokens", "ended"}

ClientRecord == [on : {"turn", "reader", "off"}, last : [trace : Chat!Trace, n : Nat],
                 seen : SUBSET (Nat \X Chat!Kind), done : Chat!Text, reconnects : Nat]

\* What the handler adds has no number yet.
LEMMA OwnFields ==
    ASSUME NEW kind \in Chat!Kind, NEW text \in Chat!Text
    PROVE  /\ Chat!Own(kind, text) \in Chat!Event
           /\ Chat!Own(kind, text).kind = kind
           /\ Chat!Own(kind, text).text = text
           /\ Chat!Own(kind, text).n = 0
  BY DEF Chat!Own, Chat!NoEvent, Chat!Event, Chat!Trace, Chat!Kind, Chat!Text

\* emit counts an event, and numbers it where it has no number.
LEMMA EmittedFields ==
    ASSUME NEW t \in Chat!Turn, NEW event \in Chat!Event, NEW then \in Continuations, turn \in Chat!Turn
    PROVE  /\ Chat!Emitted(t, event, then) \in Chat!Turn
           /\ Chat!Emitted(t, event, then).pc = "push"
           /\ Chat!Emitted(t, event, then).then = then
           /\ Chat!Emitted(t, event, then).count = t.count + 1
           /\ Chat!Emitted(t, event, then).number = t.number
           /\ Chat!Emitted(t, event, then).verdict = t.verdict
           /\ Chat!Emitted(t, event, then).event.kind = event.kind
           /\ Chat!Emitted(t, event, then).event.text = event.text
           /\ event.n # 0 => Chat!Emitted(t, event, then).event = event
           /\ event.n = 0 => /\ Chat!Emitted(t, event, then).event.n = t.count + 1
                             /\ Chat!Emitted(t, event, then).event.trace = Chat!OwnTrace
<1> DEFINE next == t.count + 1
           own == Chat!OwnTrace
           numbered == [event EXCEPT !.n = next, !.trace = own]
<1> DEFINE given == IF event.n = 0 THEN numbered ELSE event
<1>1. Chat!OwnTrace \in Chat!Trace
  BY DEF Chat!OwnTrace, Chat!Trace
<1>2. t.count \in Nat
  BY DEF Chat!Turn
<1>3. /\ numbered \in Chat!Event
      /\ numbered.n = t.count + 1
      /\ numbered.trace = Chat!OwnTrace
      /\ numbered.kind = event.kind
      /\ numbered.text = event.text
  <2>1. next \in Nat /\ own \in Chat!Trace
    BY <1>1, <1>2
  <2> HIDE DEF next, own
  <2>2. numbered \in Chat!Event /\ numbered.n = next /\ numbered.trace = own
    BY <2>1 DEF Chat!Event
  <2>3. numbered.kind = event.kind /\ numbered.text = event.text
    BY DEF Chat!Event
  <2> QED BY <2>2, <2>3 DEF next, own
<1>4. given \in Chat!Event
  BY <1>3
<1>5. Chat!Emitted(t, event, then) =
        [t EXCEPT !.pc = "push", !.then = then, !.count = t.count + 1, !.event = given]
  BY DEF Chat!Emitted, Chat!Turn
<1> HIDE DEF numbered
<1>6. /\ given.kind = event.kind
      /\ given.text = event.text
      /\ event.n # 0 => given = event
      /\ event.n = 0 => given.n = t.count + 1 /\ given.trace = Chat!OwnTrace
  BY <1>3
<1> HIDE DEF given
<1>7. Chat!Emitted(t, event, then) \in Chat!Turn
  <2>1. next \in Nat /\ given \in Chat!Event
    BY <1>2, <1>4
  <2> HIDE DEF next
  <2>2. [t EXCEPT !.pc = "push", !.then = then, !.count = next, !.event = given] \in Chat!Turn
    BY <2>1 DEF Chat!Turn, Continuations
  <2> QED BY <1>5, <2>2 DEF next
<1>8. /\ Chat!Emitted(t, event, then).pc = "push"
      /\ Chat!Emitted(t, event, then).then = then
      /\ Chat!Emitted(t, event, then).count = t.count + 1
      /\ Chat!Emitted(t, event, then).number = t.number
      /\ Chat!Emitted(t, event, then).verdict = t.verdict
      /\ Chat!Emitted(t, event, then).event = given
  BY <1>5 DEF Chat!Turn
<1> QED BY <1>6, <1>7, <1>8

LEMMA GotoFields ==
    ASSUME turn \in Chat!Turn, NEW pc \in TurnPlaces, Chat!Goto(pc)
    PROVE  /\ turn' \in Chat!Turn
           /\ turn'.pc = pc
           /\ pc # "ended" =>
                 /\ turn'.then = turn.then
                 /\ turn'.count = turn.count
                 /\ turn'.number = turn.number
                 /\ turn'.verdict = turn.verdict
                 /\ pc \in {"send", "commit", "respond"} => turn'.event = turn.event
<1>1. Chat!NoEvent \in Chat!Event
  BY DEF Chat!NoEvent, Chat!Event, Chat!Trace, Chat!Kind, Chat!Text
<1>2. Chat!Ended \in Chat!Turn /\ Chat!Ended.pc = "ended"
  BY <1>1 DEF Chat!Ended, Chat!IdleTurn, Chat!Turn
<1>3. turn.event \in Chat!Event
  BY DEF Chat!Turn
<1>4. CASE pc = "ended"
  BY <1>2, <1>4 DEF Chat!Goto, Chat!TurnBecomes
<1>5. CASE pc # "ended"
  BY <1>1, <1>3, <1>5 DEF Chat!Goto, Chat!TurnBecomes, Chat!Turn, TurnPlaces
<1> QED BY <1>4, <1>5

\* Over a direct channel the answer is at hand, and committed or sent first.
LEMMA ReplyFields ==
    ASSUME turn \in Chat!Turn, NEW text \in Chat!Text, Chat!Reply(text)
    PROVE  /\ turn' \in Chat!Turn
           /\ turn'.pc = IF channel = "http" THEN "commit" ELSE "respond"
           /\ turn'.event.text = text
<1>1. "done" \in Chat!Kind
  BY DEF Chat!Kind
<1>2. Chat!Own("done", text) \in Chat!Event /\ Chat!Own("done", text).text = text
  BY <1>1, OwnFields
<1> QED BY <1>2 DEF Chat!Reply, Chat!TurnBecomes, Chat!Turn

\* What the client knows of an event that has reached it.
LEMMA ReceivedFields ==
    ASSUME client \in ClientRecord, NEW event \in Chat!Event
    PROVE  /\ Chat!Received(event) \in ClientRecord
           /\ Chat!Received(event).on = client.on
           /\ Chat!Received(event).reconnects = client.reconnects
           /\ Chat!Received(event).last.trace = event.trace
           /\ Chat!Received(event).last.n = event.n
           /\ client.seen \subseteq Chat!Received(event).seen
           /\ event.trace = "runtime" /\ client.reconnects = 0 =>
                 <<event.n, event.kind>> \in Chat!Received(event).seen
           /\ Chat!Received(event).done =
                 IF client.done = "absent" /\ event.kind \in {"answer", "done"}
                 THEN event.text ELSE client.done
<1> DEFINE seen == IF event.trace = "runtime" /\ client.reconnects = 0
                   THEN client.seen \union {<<event.n, event.kind>>} ELSE client.seen
           done == IF client.done = "absent" /\ event.kind \in {"answer", "done"}
                   THEN event.text ELSE client.done
           last == [trace |-> event.trace, n |-> event.n]
<1>1. event.n \in Nat /\ event.kind \in Chat!Kind /\ event.trace \in Chat!Trace /\ event.text \in Chat!Text
  BY DEF Chat!Event
<1>2. client.seen \in SUBSET (Nat \X Chat!Kind) /\ client.done \in Chat!Text
  BY DEF ClientRecord
<1>3. seen \in SUBSET (Nat \X Chat!Kind)
  BY <1>1, <1>2
<1>4. done \in Chat!Text
  BY <1>1, <1>2
<1>5. last \in [trace : Chat!Trace, n : Nat] /\ last.trace = event.trace /\ last.n = event.n
  BY <1>1
<1>6. /\ client.seen \subseteq seen
      /\ event.trace = "runtime" /\ client.reconnects = 0 => <<event.n, event.kind>> \in seen
  OBVIOUS
<1>7. Chat!Received(event) = [client EXCEPT !.last = last, !.seen = seen, !.done = done]
  BY DEF Chat!Received, ClientRecord
<1> HIDE DEF seen, last, done
<1>8. Chat!Received(event) \in ClientRecord
  BY <1>3, <1>4, <1>5, <1>7 DEF ClientRecord
<1>9. /\ Chat!Received(event).on = client.on
      /\ Chat!Received(event).reconnects = client.reconnects
      /\ Chat!Received(event).last = last
      /\ Chat!Received(event).seen = seen
      /\ Chat!Received(event).done = done
  BY <1>7 DEF ClientRecord
<1> QED BY <1>5, <1>6, <1>8, <1>9 DEF done

\* A list in Redis grows at its end.
LEMMA PushedGrows ==
    ASSUME log \in [Chat!Trace -> Seq(Chat!Event)], NEW event \in Chat!Event, Chat!Pushed(event)
    PROVE  /\ log' \in [Chat!Trace -> Seq(Chat!Event)]
           /\ \A t \in Chat!Trace : t # event.trace => log'[t] = log[t]
           /\ Len(log'[event.trace]) = Len(log[event.trace]) + 1
           /\ \A i \in 1..Len(log[event.trace]) : log'[event.trace][i] = log[event.trace][i]
           /\ log'[event.trace][Len(log[event.trace]) + 1] = event
<1>1. event.trace \in Chat!Trace
  BY DEF Chat!Event
<1> DEFINE list == log[event.trace]
<1>2. list \in Seq(Chat!Event)
  BY <1>1
<1>3. /\ Append(list, event) \in Seq(Chat!Event)
      /\ Len(Append(list, event)) = Len(list) + 1
      /\ \A i \in 1..Len(list) : Append(list, event)[i] = list[i]
      /\ Append(list, event)[Len(list) + 1] = event
  BY <1>2
<1>4. log' = [log EXCEPT ![event.trace] = Append(list, event)]
  BY DEF Chat!Pushed
<1>5. log'[event.trace] = Append(list, event)
  BY <1>1, <1>4
<1> QED BY <1>1, <1>3, <1>4, <1>5

----------------------------------------------------------------------------
\* The steps of the handler

\* It emits an event of its own ...
Emits(kind, text, then) ==
    /\ turn' \in Chat!Turn
    /\ turn'.pc = "push"
    /\ turn'.then = then
    /\ turn'.count = turn.count + 1
    /\ turn'.number = turn.number
    /\ turn'.verdict = turn.verdict
    /\ turn'.event.kind = kind
    /\ turn'.event.text = text
    /\ turn'.event.n = turn.count + 1
    /\ turn'.event.trace = Chat!OwnTrace

\* ... or goes on.
TurnMoves(pc) ==
    /\ turn' \in Chat!Turn
    /\ turn'.pc = pc
    /\ turn'.count = turn.count
    /\ turn'.number = turn.number
    /\ turn'.verdict = turn.verdict

\* It ends, or its answer over a direct channel is at hand.
Stops == turn' \in Chat!Turn /\ turn'.pc = "ended"

Answers(text) ==
    /\ turn' \in Chat!Turn
    /\ turn'.pc = IF channel = "http" THEN "commit" ELSE "respond"
    /\ turn'.event.text = text

LEMMA OwnEmitted ==
    ASSUME turn \in Chat!Turn, NEW t \in Chat!Turn, NEW kind \in Chat!Kind, NEW text \in Chat!Text,
           NEW then \in Continuations, turn' = Chat!Emitted(t, Chat!Own(kind, text), then),
           t.count = turn.count, t.number = turn.number, t.verdict = turn.verdict
    PROVE  Emits(kind, text, then)
<1> DEFINE event == Chat!Own(kind, text)
<1>1. event \in Chat!Event /\ event.kind = kind /\ event.text = text /\ event.n = 0
  BY OwnFields
<1>2. turn' = Chat!Emitted(t, event, then)
  OBVIOUS
<1> HIDE DEF event
<1> QED BY <1>1, <1>2, EmittedFields DEF Emits

LEMMA GotoTurn ==
    ASSUME turn \in Chat!Turn, NEW pc \in TurnPlaces, pc # "ended", Chat!Goto(pc)
    PROVE  TurnMoves(pc)
  BY GotoFields DEF TurnMoves

LEMMA StreamSteps ==
    ASSUME turn \in Chat!Turn
    PROVE  /\ Chat!BeginStream => Emits("status", "", "lookup")
           /\ Chat!Lookup => Emits("token", "cached", "keep") \/ TurnMoves("guard")
           /\ Chat!Keep => Emits("done", "cached", "ended")
           /\ Chat!Guard => \/ TurnMoves("runtime") /\ answer' = answer
                            \/ Emits("error", "", "refused") /\ answer' = "reason"
           /\ Chat!Refuse => Emits("done", "reason", "ended")
           /\ Chat!StreamAnswer => Emits("token", "", "tokens") \/ TurnMoves("save")
           /\ Chat!SaveAnswer => TurnMoves("put")
           /\ Chat!Put => IF channel = "stream" THEN Emits("done", "final", "ended")
                                                ELSE Answers("final")
<1> USE DEF Chat!Kind, Chat!Text, Continuations, TurnPlaces
<1>1. Chat!BeginStream => Emits("status", "", "lookup")
  BY OwnEmitted DEF Chat!BeginStream, Chat!TurnBecomes
<1>2. Chat!Lookup => Emits("token", "cached", "keep") \/ TurnMoves("guard")
  <2>1. ASSUME turn' = [turn EXCEPT !.pc = "guard"]
        PROVE  TurnMoves("guard")
    BY <2>1 DEF TurnMoves, Chat!Turn
  <2> QED BY <2>1, OwnEmitted DEF Chat!Lookup, Chat!TurnBecomes
<1>3. Chat!Keep => Emits("done", "cached", "ended")
  BY OwnEmitted DEF Chat!Keep, Chat!TurnBecomes
<1>4. Chat!Guard => \/ TurnMoves("runtime") /\ answer' = answer
                    \/ Emits("error", "", "refused") /\ answer' = "reason"
  BY OwnEmitted, GotoTurn DEF Chat!Guard, Chat!TurnBecomes
<1>5. Chat!Refuse => Emits("done", "reason", "ended")
  BY OwnEmitted DEF Chat!Refuse, Chat!TurnBecomes
<1>6. Chat!StreamAnswer => Emits("token", "", "tokens") \/ TurnMoves("save")
  <2> DEFINE t == [turn EXCEPT !.tokens = @ + 1]
  <2>1. t \in Chat!Turn /\ t.count = turn.count /\ t.number = turn.number /\ t.verdict = turn.verdict
    <3> DEFINE next == turn.tokens + 1
    <3>1. turn.tokens \in Nat
      BY DEF Chat!Turn
    <3>2. next \in Nat
      BY <3>1
    <3>3. t = [turn EXCEPT !.tokens = next]
      BY DEF Chat!Turn
    <3> HIDE DEF next, t
    <3> QED BY <3>2, <3>3 DEF Chat!Turn
  <2>2. ASSUME turn' = [turn EXCEPT !.pc = "save"]
        PROVE  TurnMoves("save")
    BY <2>2 DEF TurnMoves, Chat!Turn
  <2>3. Chat!StreamAnswer => \/ turn' = Chat!Emitted(t, Chat!Own("token", ""), "tokens")
                             \/ turn' = [turn EXCEPT !.pc = "save"]
    BY DEF Chat!StreamAnswer, Chat!TurnBecomes
  <2> HIDE DEF t
  <2> QED BY <2>1, <2>2, <2>3, OwnEmitted
<1>7. Chat!SaveAnswer => TurnMoves("put")
  BY GotoTurn DEF Chat!SaveAnswer
<1>8. Chat!Put => IF channel = "stream" THEN Emits("done", "final", "ended")
                                        ELSE Answers("final")
  BY OwnEmitted, ReplyFields DEF Chat!Put, Chat!TurnBecomes, Answers
<1> QED BY <1>1, <1>2, <1>3, <1>4, <1>5, <1>6, <1>7, <1>8

\* The runtime numbers its event; the handler keeps that number, and stops at the answer.
LEMMA RuntimeSteps ==
    ASSUME turn \in Chat!Turn
    PROVE  /\ \A kind \in {"status", "token", "answer"} :
                 Chat!RuntimeEvent(kind) =>
                    /\ turn' \in Chat!Turn
                    /\ turn'.pc = "engine"
                    /\ turn'.count = turn.count
                    /\ turn'.number = turn.number + 1
                    /\ turn'.verdict = turn.verdict
                    /\ turn'.event \in Chat!Event
                    /\ turn'.event.trace = "runtime"
                    /\ turn'.event.n = turn.number + 1
                    /\ turn'.event.kind = kind
                    /\ Chat!Pushed(turn'.event)
           /\ Chat!TakeEvent =>
                 \/ turn.event.kind = "answer" /\ TurnMoves("check")
                 \/ /\ turn.event.kind # "answer"
                    /\ turn' \in Chat!Turn
                    /\ turn'.pc = "push"
                    /\ turn'.then = "runtime"
                    /\ turn'.count = turn.count + 1
                    /\ turn'.number = turn.number
                    /\ turn'.verdict = turn.verdict
                    /\ turn'.event.kind = turn.event.kind
                    /\ turn.event.n # 0 => turn'.event = turn.event
           /\ Chat!Check =>
                 /\ turn' \in Chat!Turn
                 /\ turn'.pc \in IF channel = "stream" THEN {"save", "tokens"} ELSE {"put"}
                 /\ turn'.count = turn.count
                 /\ turn'.verdict # "none"
<1>1. ASSUME NEW kind \in {"status", "token", "answer"}, Chat!RuntimeEvent(kind)
      PROVE  /\ turn' \in Chat!Turn
             /\ turn'.pc = "engine"
             /\ turn'.count = turn.count
             /\ turn'.number = turn.number + 1
             /\ turn'.verdict = turn.verdict
             /\ turn'.event \in Chat!Event
             /\ turn'.event.trace = "runtime"
             /\ turn'.event.n = turn.number + 1
             /\ turn'.event.kind = kind
             /\ Chat!Pushed(turn'.event)
  <2> DEFINE next == turn.number + 1
             event == [trace |-> "runtime", n |-> next, kind |-> kind,
                       text |-> IF kind = "answer" THEN "raw" ELSE ""]
  <2>1. turn.number \in Nat
    BY DEF Chat!Turn
  <2>2. next \in Nat
    BY <2>1
  <2>3. /\ Chat!Pushed(event)
        /\ turn' = [turn EXCEPT !.pc = "engine", !.event = event, !.number = next]
    BY <1>1 DEF Chat!RuntimeEvent, Chat!TurnBecomes, Chat!Turn
  <2> HIDE DEF next
  <2>4. /\ event \in Chat!Event
        /\ event.trace = "runtime"
        /\ event.n = next
        /\ event.kind = kind
    BY <2>2 DEF Chat!Event, Chat!Trace, Chat!Kind, Chat!Text
  <2> HIDE DEF event
  <2>5. /\ turn' \in Chat!Turn
        /\ turn'.pc = "engine"
        /\ turn'.count = turn.count
        /\ turn'.number = next
        /\ turn'.verdict = turn.verdict
        /\ turn'.event = event
    BY <2>2, <2>3, <2>4 DEF Chat!Turn
  <2> QED BY <2>3, <2>4, <2>5 DEF next
<1>2. ASSUME Chat!TakeEvent
      PROVE  \/ turn.event.kind = "answer" /\ TurnMoves("check")
             \/ /\ turn.event.kind # "answer"
                /\ turn' \in Chat!Turn
                /\ turn'.pc = "push"
                /\ turn'.then = "runtime"
                /\ turn'.count = turn.count + 1
                /\ turn'.number = turn.number
                /\ turn'.verdict = turn.verdict
                /\ turn'.event.kind = turn.event.kind
                /\ turn.event.n # 0 => turn'.event = turn.event
  <2>1. CASE turn.event.kind = "answer"
    <3>1. turn' = [turn EXCEPT !.pc = "check", !.got = "raw"]
      BY <1>2, <2>1 DEF Chat!TakeEvent, Chat!TurnBecomes
    <3>2. TurnMoves("check")
      BY <3>1 DEF TurnMoves, Chat!Turn
    <3> QED BY <2>1, <3>2
  <2>2. CASE turn.event.kind # "answer"
    <3> DEFINE t == [turn EXCEPT !.got = IF turn.event.kind = "token" THEN "partial" ELSE @,
                                 !.streamed = @ \/ turn.event.kind = "token"]
    <3>1. turn' = Chat!Emitted(t, turn.event, "runtime")
      BY <1>2, <2>2 DEF Chat!TakeEvent, Chat!TurnBecomes
    <3>2. turn.streamed \in BOOLEAN /\ turn.event \in Chat!Event
      BY DEF Chat!Turn
    <3>3. (turn.streamed \/ turn.event.kind = "token") \in BOOLEAN
      OBVIOUS
    <3>4. t \in Chat!Turn
      BY <3>2, <3>3 DEF Chat!Turn
    <3>5. t.count = turn.count /\ t.number = turn.number /\ t.verdict = turn.verdict
      BY DEF Chat!Turn
    <3> HIDE DEF t
    <3> DEFINE event == turn.event
    <3>6. event \in Chat!Event /\ "runtime" \in Continuations
      BY <3>2 DEF Continuations
    <3>7. turn' = Chat!Emitted(t, event, "runtime")
      BY <3>1
    <3> HIDE DEF event
    <3>8. /\ turn' \in Chat!Turn
          /\ turn'.pc = "push"
          /\ turn'.then = "runtime"
          /\ turn'.count = turn.count + 1
          /\ turn'.number = turn.number
          /\ turn'.verdict = turn.verdict
          /\ turn'.event.kind = event.kind
          /\ event.n # 0 => turn'.event = event
      BY <3>4, <3>5, <3>6, <3>7, EmittedFields
    <3> QED BY <2>2, <3>8 DEF event
  <2> QED BY <2>1, <2>2
<1>3. ASSUME Chat!Check
      PROVE  /\ turn' \in Chat!Turn
             /\ turn'.pc \in IF channel = "stream" THEN {"save", "tokens"} ELSE {"put"}
             /\ turn'.count = turn.count
             /\ turn'.verdict # "none"
  <2>1. PICK verdict \in Chat!Verdicts :
           turn' = [turn EXCEPT
              !.verdict = verdict,
              !.pc = IF channel # "stream" THEN "put"
                     ELSE IF turn.streamed /\ verdict = "safe" THEN "save" ELSE "tokens"]
    BY <1>3 DEF Chat!Check, Chat!TurnBecomes
  <2> DEFINE pc == IF channel # "stream" THEN "put"
                   ELSE IF turn.streamed /\ verdict = "safe" THEN "save" ELSE "tokens"
  <2>2. turn' = [turn EXCEPT !.verdict = verdict, !.pc = pc]
    BY <2>1
  <2>3. pc \in IF channel = "stream" THEN {"save", "tokens"} ELSE {"put"}
    OBVIOUS
  <2> HIDE DEF pc
  <2>4. turn' \in Chat!Turn /\ turn'.pc = pc /\ turn'.count = turn.count /\ turn'.verdict = verdict
    BY <2>2, <2>3 DEF Chat!Turn, Chat!Verdicts
  <2> QED BY <2>3, <2>4 DEF Chat!Verdicts
<1> QED BY <1>1, <1>2, <1>3

\* Whatever ends a handler ends it everywhere; an answer is sent and committed in
\* the order of its channel.
LEMMA OtherSteps ==
    ASSUME turn \in Chat!Turn
    PROVE  /\ Chat!Push => TurnMoves("send") /\ turn'.event = turn.event /\ turn'.then = turn.then
           /\ Chat!Send => IF turn.then = "ended" THEN Stops
                           ELSE TurnMoves(turn.then)
           /\ Chat!Cancel => Stops
           /\ Chat!Break => Stops
           /\ Chat!BeginDirect => TurnMoves("lookup")
           /\ Chat!LookupDirect => Answers("cached") \/ TurnMoves("guard")
           /\ Chat!GuardDirect => Answers("reason") \/ TurnMoves("runtime")
           /\ Chat!RunDirect => TurnMoves("check")
           /\ Chat!Commit => IF channel = "http"
                             THEN TurnMoves("respond") /\ turn'.event = turn.event
                             ELSE Stops
           /\ Chat!Respond => IF channel = "http" THEN Stops
                              ELSE TurnMoves("commit") /\ turn'.event = turn.event
<1> USE DEF TurnPlaces, Chat!Text
<1>1. turn.then \in Continuations
  BY DEF Chat!Turn, Continuations
<1>2. Chat!Push => TurnMoves("send") /\ turn'.event = turn.event /\ turn'.then = turn.then
  BY GotoFields, GotoTurn DEF Chat!Push
<1>3. Chat!Send => IF turn.then = "ended" THEN Stops
                   ELSE TurnMoves(turn.then)
  BY <1>1, GotoFields, GotoTurn DEF Chat!Send, Continuations, Stops
<1>4. (Chat!Cancel => Stops) /\ (Chat!Break => Stops)
  BY GotoFields DEF Chat!Cancel, Chat!Break, Stops
<1>5. Chat!BeginDirect => TurnMoves("lookup")
  BY GotoTurn DEF Chat!BeginDirect
<1>6. Chat!LookupDirect => Answers("cached") \/ TurnMoves("guard")
  BY ReplyFields, GotoTurn DEF Chat!LookupDirect, Answers
<1>7. Chat!GuardDirect => Answers("reason") \/ TurnMoves("runtime")
  BY ReplyFields, GotoTurn DEF Chat!GuardDirect, Answers
<1>8. Chat!RunDirect => TurnMoves("check")
  <2>1. ASSUME turn' = [turn EXCEPT !.pc = "check", !.got = "raw"]
        PROVE  TurnMoves("check")
    BY <2>1 DEF TurnMoves, Chat!Turn
  <2> QED BY <2>1 DEF Chat!RunDirect, Chat!TurnBecomes
<1>9. Chat!Commit => IF channel = "http"
                     THEN TurnMoves("respond") /\ turn'.event = turn.event
                     ELSE Stops
  BY GotoFields, GotoTurn DEF Chat!Commit, Stops
<1>10. Chat!Respond => IF channel = "http" THEN Stops
                       ELSE TurnMoves("commit") /\ turn'.event = turn.event
  BY GotoFields, GotoTurn DEF Chat!Respond, Stops
<1> QED BY <1>2, <1>3, <1>4, <1>5, <1>6, <1>7, <1>8, <1>9, <1>10

----------------------------------------------------------------------------
\* The steps of a replay

LEMMA ReaderEmitsFields ==
    ASSUME reader \in Chat!Reader, NEW event \in Chat!Event, NEW then \in {"resume", "refused", "ended"},
           Chat!ReaderEmits(reader, event, then)
    PROVE  reader' \in Chat!Reader
<1> DEFINE next == reader.high + 1
           numbered == [event EXCEPT !.trace = reader.trace, !.n = next]
<1>1. reader.high \in Nat /\ reader.trace \in Chat!Trace
  BY DEF Chat!Reader
<1>2. next \in Nat
  BY <1>1
<1>3. reader' = [reader EXCEPT !.pc = "push", !.high = next, !.then = then, !.event = numbered]
  BY DEF Chat!ReaderEmits, Chat!ReaderBecomes, Chat!Reader
<1> HIDE DEF next
<1>4. numbered \in Chat!Event
  BY <1>1, <1>2 DEF Chat!Event
<1> HIDE DEF numbered
<1> QED BY <1>2, <1>3, <1>4 DEF Chat!Reader

LEMMA ReaderTyped ==
    ASSUME reader \in Chat!Reader, client \in ClientRecord, log \in [Chat!Trace -> Seq(Chat!Event)]
    PROVE  /\ Chat!Reconnect => reader' \in Chat!Reader
           /\ Chat!Replay => reader' \in Chat!Reader /\ Head(reader.rows) \in Chat!Event
           /\ Chat!EndReplay => reader' \in Chat!Reader
           /\ Chat!RefuseResumption => reader' \in Chat!Reader
           /\ \A kind \in {"status", "answer", "error"} :
                 Chat!ResumeEvent(kind) =>
                    reader' \in Chat!Reader /\ reader'.event \in Chat!Event /\ Chat!Pushed(reader'.event)
           /\ Chat!Renumber => reader' \in Chat!Reader
           /\ Chat!ReaderPush => reader' \in Chat!Reader
           /\ Chat!ReaderSend => reader' \in Chat!Reader
           /\ Chat!ReaderBreaks => reader' \in Chat!Reader
<1>1. Chat!NoEvent \in Chat!Event
  BY DEF Chat!NoEvent, Chat!Event, Chat!Trace, Chat!Kind, Chat!Text
<1>2. Chat!IdleReader \in Chat!Reader /\ Chat!EndedReader \in Chat!Reader
  <2> DEFINE none == Chat!NoEvent
             rows == <<>>
  <2>1. none \in Chat!Event /\ rows \in Seq(Chat!Event)
    BY <1>1
  <2>2. /\ Chat!IdleReader = [pc |-> "idle", rows |-> rows, after |-> 0, final |-> FALSE,
                              trace |-> "handler", high |-> 0, number |-> 0, event |-> none,
                              then |-> "ended"]
        /\ Chat!EndedReader = [Chat!IdleReader EXCEPT !.pc = "ended"]
    BY DEF Chat!IdleReader, Chat!EndedReader
  <2> HIDE DEF none, rows
  <2> QED BY <2>1, <2>2 DEF Chat!Reader, Chat!Trace
<1>3. Chat!Reconnect => reader' \in Chat!Reader
  <2> SUFFICES ASSUME Chat!Reconnect PROVE reader' \in Chat!Reader
    OBVIOUS
  <2> DEFINE trace == client.last.trace
             n == client.last.n
             rows == log[trace]
  <2>1. trace \in Chat!Trace /\ n \in Nat
    BY DEF ClientRecord
  <2>2. rows \in Seq(Chat!Event)
    BY <2>1
  <2>3. reader' = [Chat!IdleReader EXCEPT !.pc = "replay", !.trace = trace, !.after = n, !.high = n,
                                          !.rows = rows]
    BY DEF Chat!Reconnect, Chat!ReaderBecomes
  <2> HIDE DEF trace, n, rows
  <2> QED BY <1>2, <2>1, <2>2, <2>3 DEF Chat!Reader
<1>4. Chat!Replay => reader' \in Chat!Reader /\ Head(reader.rows) \in Chat!Event
  <2> SUFFICES ASSUME Chat!Replay PROVE reader' \in Chat!Reader /\ Head(reader.rows) \in Chat!Event
    OBVIOUS
  <2> DEFINE event == Head(reader.rows)
             rows == Tail(reader.rows)
             high == IF event.n > reader.high THEN event.n ELSE reader.high
             final == reader.final \/ (event.n > reader.after /\ event.kind \in Chat!Terminal)
  <2>1. /\ reader.rows \in Seq(Chat!Event) /\ reader.rows # <<>>
        /\ reader.high \in Nat /\ reader.final \in BOOLEAN
    BY DEF Chat!Reader, Chat!Replay
  <2>2. event \in Chat!Event /\ rows \in Seq(Chat!Event)
    BY <2>1
  <2>3. high \in Nat /\ final \in BOOLEAN
    BY <2>1, <2>2 DEF Chat!Event
  <2>4. reader' = [reader EXCEPT !.rows = rows, !.high = high, !.final = final]
    BY DEF Chat!Replay, Chat!ReaderBecomes, Chat!Reader
  <2> HIDE DEF rows, high, final
  <2>5. reader' \in Chat!Reader
    BY <2>2, <2>3, <2>4 DEF Chat!Reader
  <2> QED BY <2>2, <2>5
<1>5. Chat!EndReplay => reader' \in Chat!Reader
  <2>1. Chat!Own("error", "") \in Chat!Event
    BY OwnFields DEF Chat!Kind, Chat!Text
  <2>2. [reader EXCEPT !.pc = "resume"] \in Chat!Reader
    BY DEF Chat!Reader
  <2> QED BY <1>2, <2>1, <2>2, ReaderEmitsFields DEF Chat!EndReplay, Chat!ReaderBecomes
<1>6. Chat!RefuseResumption => reader' \in Chat!Reader
  <2>1. Chat!Own("done", "reason") \in Chat!Event
    BY OwnFields DEF Chat!Kind, Chat!Text
  <2> QED BY <2>1, ReaderEmitsFields DEF Chat!RefuseResumption
<1>7. ASSUME NEW kind \in {"status", "answer", "error"}, Chat!ResumeEvent(kind)
      PROVE  reader' \in Chat!Reader /\ reader'.event \in Chat!Event /\ Chat!Pushed(reader'.event)
  <2> DEFINE next == reader.number + 1
             event == [trace |-> reader.trace, n |-> next, kind |-> kind,
                       text |-> IF kind = "answer" THEN "raw" ELSE ""]
  <2>1. reader.number \in Nat /\ reader.trace \in Chat!Trace
    BY DEF Chat!Reader
  <2>2. next \in Nat
    BY <2>1
  <2>3. /\ Chat!Pushed(event)
        /\ reader' = [reader EXCEPT !.pc = "engine", !.event = event, !.number = next]
    BY <1>7 DEF Chat!ResumeEvent, Chat!ReaderBecomes, Chat!Reader
  <2> HIDE DEF next
  <2>4. event \in Chat!Event
    BY <2>1, <2>2 DEF Chat!Event, Chat!Kind, Chat!Text
  <2> HIDE DEF event
  <2>5. reader' \in Chat!Reader /\ reader'.event = event
    BY <2>2, <2>3, <2>4 DEF Chat!Reader
  <2> QED BY <2>3, <2>4, <2>5
<1>8. Chat!Renumber => reader' \in Chat!Reader
  <2>1. Chat!Own("done", "final") \in Chat!Event
    BY OwnFields DEF Chat!Kind, Chat!Text
  <2>2. reader.event \in Chat!Event
    BY DEF Chat!Reader
  <2> DEFINE event == IF reader.event.kind = "answer" THEN Chat!Own("done", "final") ELSE reader.event
             then == IF reader.event.kind = "status" THEN "resume" ELSE "ended"
  <2>3. event \in Chat!Event /\ then \in {"resume", "refused", "ended"}
    BY <2>1, <2>2
  <2>4. Chat!Renumber => Chat!ReaderEmits(reader, event, then)
    BY DEF Chat!Renumber
  <2> HIDE DEF event, then
  <2> QED BY <2>3, <2>4, ReaderEmitsFields
<1>9. Chat!ReaderPush => reader' \in Chat!Reader
  <2>1. [reader EXCEPT !.pc = "send"] \in Chat!Reader
    BY DEF Chat!Reader
  <2> QED BY <2>1 DEF Chat!ReaderPush, Chat!ReaderBecomes
<1>10. Chat!ReaderSend => reader' \in Chat!Reader
  <2>1. [reader EXCEPT !.pc = reader.then, !.event = Chat!NoEvent] \in Chat!Reader
    BY <1>1 DEF Chat!Reader
  <2> QED BY <1>2, <2>1 DEF Chat!ReaderSend, Chat!ReaderBecomes
<1>11. Chat!ReaderBreaks => reader' \in Chat!Reader
  BY <1>2 DEF Chat!ReaderBreaks, Chat!ReaderBecomes
<1> QED BY <1>3, <1>4, <1>5, <1>6, <1>7, <1>8, <1>9, <1>10, <1>11

----------------------------------------------------------------------------
\* Types

LEMMA TypeStart == Chat!Init => Chat!TypeOK
<1> SUFFICES ASSUME Chat!Init PROVE Chat!TypeOK
  OBVIOUS
<1>1. Chat!NoEvent \in Chat!Event
  BY DEF Chat!NoEvent, Chat!Event, Chat!Trace, Chat!Kind, Chat!Text
<1>2. turn \in Chat!Turn
  BY <1>1 DEF Chat!Init, Chat!IdleTurn, Chat!Turn
<1>3. reader \in Chat!Reader
  <2> DEFINE none == Chat!NoEvent
             rows == <<>>
  <2>1. none \in Chat!Event /\ rows \in Seq(Chat!Event)
    BY <1>1
  <2>2. reader = [pc |-> "idle", rows |-> rows, after |-> 0, final |-> FALSE,
                  trace |-> "handler", high |-> 0, number |-> 0, event |-> none,
                  then |-> "ended"]
    BY DEF Chat!Init, Chat!IdleReader
  <2> HIDE DEF none, rows
  <2> QED BY <2>1, <2>2 DEF Chat!Reader, Chat!Trace
<1>4. log \in [Chat!Trace -> Seq(Chat!Event)]
  <2> DEFINE none == <<>>
  <2>1. none \in Seq(Chat!Event)
    OBVIOUS
  <2>2. log = [t \in Chat!Trace |-> none]
    BY DEF Chat!Init
  <2> HIDE DEF none
  <2> QED BY <2>1, <2>2
<1>5. client \in ClientRecord
  BY DEF Chat!Init, ClientRecord, Chat!Trace, Chat!Text
<1>6. cache \in [text : {"", "cached", "final"}, verdict : {"none", "safe", "garbled"},
                degraded : BOOLEAN]
  <2>1. PICK text \in {"", "cached"} : cache = [text |-> text, verdict |-> "none", degraded |-> FALSE]
    BY DEF Chat!Init
  <2> QED BY <2>1
<1>7. channel \in {"stream", "http", "ws"} /\ answer \in Chat!Text
  BY DEF Chat!Init, Chat!Text
<1> QED BY <1>2, <1>3, <1>4, <1>5, <1>6, <1>7 DEF Chat!TypeOK, ClientRecord

LEMMA TypeStep ==
    ASSUME Chat!TypeOK, Chat!Next
    PROVE  Chat!TypeOK'
<1>1. /\ turn \in Chat!Turn /\ reader \in Chat!Reader /\ client \in ClientRecord
      /\ log \in [Chat!Trace -> Seq(Chat!Event)]
  BY DEF Chat!TypeOK, ClientRecord
<1>2. turn.event \in Chat!Event /\ reader.event \in Chat!Event
  BY <1>1 DEF Chat!Turn, Chat!Reader
<1>3. turn' \in Chat!Turn
  <2>1. CASE \/ Chat!BeginStream \/ Chat!Lookup \/ Chat!Keep \/ Chat!Guard \/ Chat!Refuse \/ Chat!StreamAnswer \/ Chat!SaveAnswer
             \/ Chat!Put
    BY <1>1, <2>1, StreamSteps DEF Emits, TurnMoves, Answers
  <2>2. CASE \/ \E kind \in {"status", "token", "answer"} : Chat!RuntimeEvent(kind)
             \/ Chat!TakeEvent \/ Chat!Check
    BY <1>1, <2>2, RuntimeSteps DEF TurnMoves
  <2>3. CASE \/ Chat!Push \/ Chat!Send \/ Chat!Cancel \/ Chat!Break \/ Chat!BeginDirect \/ Chat!LookupDirect \/ Chat!GuardDirect
             \/ Chat!RunDirect \/ Chat!Commit \/ Chat!Respond
    BY <1>1, <2>3, OtherSteps DEF TurnMoves, Answers, Stops
  <2>4. CASE \/ Chat!Drop \/ Chat!Reconnect \/ Chat!Replay \/ Chat!EndReplay \/ Chat!RefuseResumption
             \/ \E kind \in {"status", "answer", "error"} : Chat!ResumeEvent(kind)
             \/ Chat!Renumber \/ Chat!ReaderPush \/ Chat!ReaderSend \/ Chat!ReaderBreaks
    BY <1>1, <2>4 DEF Chat!Drop, Chat!Reconnect, Chat!Replay, Chat!EndReplay,
       Chat!RefuseResumption, Chat!ResumeEvent,
       Chat!Renumber, Chat!ReaderPush, Chat!ReaderSend, Chat!ReaderBreaks
  <2> QED BY <2>1, <2>2, <2>3, <2>4 DEF Chat!Next
<1>4. reader' \in Chat!Reader
  <2>1. CASE \/ Chat!Reconnect \/ Chat!Replay \/ Chat!EndReplay \/ Chat!RefuseResumption
             \/ \E kind \in {"status", "answer", "error"} : Chat!ResumeEvent(kind)
             \/ Chat!Renumber \/ Chat!ReaderPush \/ Chat!ReaderSend \/ Chat!ReaderBreaks
    BY <1>1, <2>1, ReaderTyped
  <2>2. CASE reader' = reader
    BY <1>1, <2>2
  <2> QED BY <2>1, <2>2 DEF Chat!Next, Chat!BeginStream, Chat!Lookup, Chat!Keep,
     Chat!Guard, Chat!Refuse, Chat!StreamAnswer,
          Chat!SaveAnswer, Chat!Put, Chat!RuntimeEvent, Chat!TakeEvent, Chat!Check, Chat!Push, Chat!Send, Chat!Cancel, Chat!Break, Chat!BeginDirect,
          Chat!LookupDirect, Chat!GuardDirect, Chat!RunDirect, Chat!Commit, Chat!Respond, Chat!Drop
<1>5. log' \in [Chat!Trace -> Seq(Chat!Event)]
  <2>1. CASE log' = log
    BY <1>1, <2>1
  <2>2. CASE \E event \in Chat!Event : Chat!Pushed(event)
    BY <1>1, <2>2, PushedGrows
  <2>3. \A kind \in {"status", "token", "answer"} :
           Chat!RuntimeEvent(kind) => \E event \in Chat!Event : Chat!Pushed(event)
    BY <1>1, RuntimeSteps
  <2>4. \A kind \in {"status", "answer", "error"} :
           Chat!ResumeEvent(kind) => \E event \in Chat!Event : Chat!Pushed(event)
    BY <1>1, ReaderTyped
  <2>5. Chat!Push \/ Chat!ReaderPush => \E event \in Chat!Event : Chat!Pushed(event)
    BY <1>2 DEF Chat!Push, Chat!ReaderPush
  <2> QED BY <2>1, <2>2, <2>3, <2>4, <2>5 DEF Chat!Next, Chat!BeginStream, Chat!Lookup,
     Chat!Keep, Chat!Guard, Chat!Refuse,
          Chat!StreamAnswer, Chat!SaveAnswer, Chat!Put, Chat!TakeEvent, Chat!Check, Chat!Send, Chat!Cancel, Chat!Break, Chat!BeginDirect,
          Chat!LookupDirect, Chat!GuardDirect, Chat!RunDirect, Chat!Commit, Chat!Respond, Chat!Drop, Chat!Reconnect, Chat!Replay, Chat!EndReplay,
          Chat!RefuseResumption, Chat!Renumber, Chat!ReaderSend, Chat!ReaderBreaks
<1>6. client' \in ClientRecord
  <2>1. CASE client' = client
    BY <1>1, <2>1
  <2>2. CASE \E event \in Chat!Event : client' = Chat!Received(event)
    BY <1>1, <2>2, ReceivedFields
  <2>3. Chat!Send => client' = client \/ \E event \in Chat!Event : client' = Chat!Received(event)
    BY <1>2 DEF Chat!Send
  <2>4. Chat!ReaderSend => client' = client \/ \E event \in Chat!Event : client' = Chat!Received(event)
    BY <1>2 DEF Chat!ReaderSend
  <2>5. Chat!Replay => client' = client \/ \E event \in Chat!Event : client' = Chat!Received(event)
    BY <1>1, ReaderTyped DEF Chat!Replay
  <2>6. Chat!Respond => client' \in ClientRecord
    <3>1. turn.event.text \in Chat!Text
      BY <1>2 DEF Chat!Event
    <3>2. [client EXCEPT !.done = turn.event.text] \in ClientRecord
      BY <1>1, <3>1 DEF ClientRecord
    <3> QED BY <3>2 DEF Chat!Respond
  <2>7. Chat!Drop => client' \in ClientRecord
    <3>1. [client EXCEPT !.on = "off"] \in ClientRecord
      BY <1>1 DEF ClientRecord
    <3> QED BY <3>1 DEF Chat!Drop
  <2>8. Chat!Reconnect => client' \in ClientRecord
    <3> DEFINE next == client.reconnects + 1
               none == {}
    <3>1. client.reconnects \in Nat
      BY <1>1 DEF ClientRecord
    <3>2. next \in Nat /\ none \in SUBSET (Nat \X Chat!Kind)
      BY <3>1
    <3>3. Chat!Reconnect => client' = [client EXCEPT !.on = "reader", !.reconnects = next,
                                                     !.seen = none]
      BY <1>1 DEF Chat!Reconnect, ClientRecord
    <3> HIDE DEF next, none
    <3> QED BY <1>1, <3>2, <3>3 DEF ClientRecord
  <2> QED BY <2>1, <2>2, <2>3, <2>4, <2>5, <2>6, <2>7, <2>8 DEF Chat!Next,
     Chat!BeginStream, Chat!Lookup, Chat!Keep,
          Chat!Guard, Chat!Refuse, Chat!StreamAnswer, Chat!SaveAnswer, Chat!Put, Chat!RuntimeEvent, Chat!TakeEvent, Chat!Check, Chat!Push,
          Chat!Cancel, Chat!Break, Chat!BeginDirect, Chat!LookupDirect, Chat!GuardDirect, Chat!RunDirect, Chat!Commit, Chat!EndReplay,
          Chat!RefuseResumption, Chat!ResumeEvent, Chat!Renumber, Chat!ReaderPush, Chat!ReaderBreaks
<1>7. answer' \in Chat!Text
  <2>1. answer \in Chat!Text /\ turn.got \in Chat!Text /\ turn.event.text \in Chat!Text
    BY <1>1, <1>2 DEF Chat!TypeOK, Chat!Turn, Chat!Text, Chat!Event
  <2>2. (Chat!Guard => answer' \in Chat!Text) /\ (Chat!Cancel => answer' \in Chat!Text) /\ (Chat!Commit => answer' \in Chat!Text)
    BY <2>1 DEF Chat!Guard, Chat!Cancel, Chat!Commit, Chat!Text
  <2>3. Chat!BeginStream \/ Chat!Keep \/ Chat!SaveAnswer => answer' \in Chat!Text
    BY DEF Chat!BeginStream, Chat!Keep, Chat!SaveAnswer, Chat!Text
  <2>4. CASE answer' = answer
    BY <2>1, <2>4
  <2> QED BY <2>2, <2>3, <2>4 DEF Chat!Next, Chat!Lookup, Chat!Refuse, Chat!StreamAnswer,
     Chat!Put, Chat!RuntimeEvent, Chat!TakeEvent,
          Chat!Check, Chat!Push, Chat!Send, Chat!Break, Chat!BeginDirect, Chat!LookupDirect, Chat!GuardDirect, Chat!RunDirect, Chat!Respond, Chat!Drop,
          Chat!Reconnect, Chat!Replay, Chat!EndReplay, Chat!RefuseResumption, Chat!ResumeEvent, Chat!Renumber, Chat!ReaderPush,
          Chat!ReaderSend, Chat!ReaderBreaks
<1>8. /\ cache' \in [text : {"", "cached", "final"}, verdict : {"none", "safe", "garbled"},
                     degraded : BOOLEAN]
      /\ channel' = channel
  <2>1. Chat!Put => /\ cache' \in [text : {"", "cached", "final"}, verdict : {"none", "safe", "garbled"},
                                   degraded : BOOLEAN]
                    /\ channel' = channel
    <3>1. CASE cache' = cache
      BY <3>1 DEF Chat!Put, Chat!TypeOK
    <3>2. CASE \E degraded \in BOOLEAN :
                  /\ Chat!ShouldCache(degraded)
                  /\ cache' = [text |-> "final", verdict |-> turn.verdict, degraded |-> degraded]
      <4>1. PICK degraded \in BOOLEAN :
               /\ Chat!ShouldCache(degraded)
               /\ cache' = [text |-> "final", verdict |-> turn.verdict, degraded |-> degraded]
        BY <3>2
      <4>2. turn.verdict \in {"none", "safe", "garbled"}
        BY <4>1 DEF Chat!ShouldCache, Chat!Cites
      <4>3. cache' \in [text : {"", "cached", "final"}, verdict : {"none", "safe", "garbled"},
                        degraded : BOOLEAN]
        BY <4>1, <4>2
      <4> QED BY <4>3 DEF Chat!Put
    <3> QED BY <3>1, <3>2 DEF Chat!Put
  <2>2. CASE cache' = cache /\ channel' = channel
    BY <2>2 DEF Chat!TypeOK
  <2> QED BY <2>1, <2>2 DEF Chat!Next, Chat!BeginStream, Chat!Lookup, Chat!Keep,
     Chat!Guard, Chat!Refuse, Chat!StreamAnswer,
          Chat!SaveAnswer, Chat!RuntimeEvent, Chat!TakeEvent, Chat!Check, Chat!Push, Chat!Send, Chat!Cancel, Chat!Break, Chat!BeginDirect,
          Chat!LookupDirect, Chat!GuardDirect, Chat!RunDirect, Chat!Commit, Chat!Respond, Chat!Drop, Chat!Reconnect, Chat!Replay, Chat!EndReplay,
          Chat!RefuseResumption, Chat!ResumeEvent, Chat!Renumber, Chat!ReaderPush, Chat!ReaderSend, Chat!ReaderBreaks
<1> QED BY <1>3, <1>4, <1>5, <1>6, <1>7, <1>8 DEF Chat!TypeOK, ClientRecord

----------------------------------------------------------------------------
\* What a client is told, and what is stored

LEMMA Apart ==
    ASSUME Chat!Next
    PROVE  /\ channel' = channel
           /\ \/ cache' = cache
              \/ \E degraded \in BOOLEAN :
                    /\ Chat!ShouldCache(degraded)
                    /\ cache' = [text |-> "final", verdict |-> turn.verdict, degraded |-> degraded]
  BY DEF Chat!Next, Chat!BeginStream, Chat!Lookup, Chat!Keep, Chat!Guard, Chat!Refuse,
     Chat!StreamAnswer, Chat!SaveAnswer, Chat!Put, Chat!RuntimeEvent,
     Chat!TakeEvent, Chat!Check, Chat!Push, Chat!Send, Chat!Cancel, Chat!Break, Chat!BeginDirect, Chat!LookupDirect, Chat!GuardDirect, Chat!RunDirect,
     Chat!Commit, Chat!Respond, Chat!Drop, Chat!Reconnect, Chat!Replay, Chat!EndReplay, Chat!RefuseResumption, Chat!ResumeEvent, Chat!Renumber,
     Chat!ReaderPush, Chat!ReaderSend, Chat!ReaderBreaks

LEMMA CacheStep ==
    ASSUME Chat!CacheIsSafe, Chat!Next
    PROVE  Chat!CacheIsSafe'
<1>1. CASE cache' = cache
  BY <1>1, Apart DEF Chat!CacheIsSafe
<1>2. CASE \E degraded \in BOOLEAN :
              /\ Chat!ShouldCache(degraded)
              /\ cache' = [text |-> "final", verdict |-> turn.verdict, degraded |-> degraded]
  <2>1. PICK degraded \in BOOLEAN :
           /\ Chat!ShouldCache(degraded)
           /\ cache' = [text |-> "final", verdict |-> turn.verdict, degraded |-> degraded]
    BY <1>2
  <2>2. turn.verdict = "safe" /\ (channel = "stream" => ~degraded)
    BY <2>1 DEF Chat!ShouldCache, Chat!Cites
  <2>3. cache'.verdict = turn.verdict /\ cache'.degraded = degraded
    BY <2>1
  <2> QED BY <2>2, <2>3, Apart DEF Chat!CacheIsSafe
<1> QED BY <1>1, <1>2, Apart

\* The replay of a client that has reconnected touches neither the row nor the handler,
\* nor what a client knows that has not.
ReplayStep ==
    \/ Chat!EndReplay \/ Chat!RefuseResumption
    \/ \E kind \in {"status", "answer", "error"} : Chat!ResumeEvent(kind)
    \/ Chat!Renumber \/ Chat!ReaderPush \/ Chat!ReaderSend \/ Chat!ReaderBreaks \/ Chat!Replay

LEMMA ReplayApart ==
    ASSUME Chat!TypeOK, ReaderFollows, ReplayStep
    PROVE  /\ answer' = answer
           /\ turn' = turn
           /\ channel' = channel
           /\ client.reconnects # 0
           /\ client'.reconnects = client.reconnects
           /\ client'.on = client.on
<1>1. answer' = answer /\ turn' = turn /\ channel' = channel /\ reader.pc # "idle"
  BY DEF ReplayStep, Chat!Replay, Chat!EndReplay, Chat!RefuseResumption, Chat!ResumeEvent,
     Chat!Renumber, Chat!ReaderPush,
     Chat!ReaderSend, Chat!ReaderBreaks
<1>2. client.reconnects # 0
  BY <1>1 DEF ReaderFollows
<1>3. client \in ClientRecord /\ reader \in Chat!Reader /\ log \in [Chat!Trace -> Seq(Chat!Event)]
  BY DEF Chat!TypeOK, ClientRecord
<1>4. client' = client \/ \E event \in Chat!Event : client' = Chat!Received(event)
  <2>1. reader.event \in Chat!Event
    BY <1>3 DEF Chat!Reader
  <2> QED BY <1>3, <2>1, ReaderTyped DEF ReplayStep, Chat!Replay, Chat!EndReplay,
     Chat!RefuseResumption, Chat!ResumeEvent,
          Chat!Renumber, Chat!ReaderPush, Chat!ReaderSend, Chat!ReaderBreaks
<1>5. client'.reconnects = client.reconnects /\ client'.on = client.on
  BY <1>3, <1>4, ReceivedFields
<1> QED BY <1>1, <1>2, <1>5

LEMMA FollowStep ==
    ASSUME Chat!TypeOK, ReaderFollows, Chat!Next
    PROVE  ReaderFollows'
<1>1. client \in ClientRecord
  BY DEF Chat!TypeOK, ClientRecord
<1>2. CASE ReplayStep
  BY <1>2, ReplayApart DEF ReaderFollows
<1>3. CASE Chat!Reconnect
  <2>1. client'.reconnects = client.reconnects + 1 /\ client.reconnects \in Nat
    BY <1>1, <1>3 DEF Chat!Reconnect, ClientRecord
  <2>2. client'.reconnects # 0
    BY <2>1
  <2> QED BY <2>2 DEF ReaderFollows
<1>4. CASE Chat!Drop
  <2>1. client'.reconnects = client.reconnects /\ client'.on = "off" /\ reader' = reader
    BY <1>1, <1>4 DEF Chat!Drop, ClientRecord
  <2> QED BY <2>1 DEF ReaderFollows
<1>5. CASE Chat!Send
  <2>1. turn.event \in Chat!Event
    BY DEF Chat!TypeOK, Chat!Turn
  <2>2. client'.reconnects = client.reconnects /\ client'.on = client.on /\ reader' = reader
    BY <1>1, <1>5, <2>1, ReceivedFields DEF Chat!Send
  <2> QED BY <2>2 DEF ReaderFollows
<1>6. CASE Chat!Respond
  <2>1. client'.reconnects = client.reconnects /\ client'.on = client.on /\ reader' = reader
    BY <1>1, <1>6 DEF Chat!Respond, ClientRecord
  <2> QED BY <2>1 DEF ReaderFollows
<1>7. CASE client' = client /\ reader' = reader
  BY <1>7 DEF ReaderFollows
<1> QED BY <1>2, <1>3, <1>4, <1>5, <1>6, <1>7 DEF Chat!Next, ReplayStep, Chat!BeginStream,
   Chat!Lookup, Chat!Keep, Chat!Guard,
        Chat!Refuse, Chat!StreamAnswer, Chat!SaveAnswer, Chat!Put, Chat!RuntimeEvent, Chat!TakeEvent, Chat!Check, Chat!Push, Chat!Cancel, Chat!Break,
        Chat!BeginDirect, Chat!LookupDirect, Chat!GuardDirect, Chat!RunDirect, Chat!Commit

\* Stored before the done event is sent: a handler of a stream.
LEMMA StreamHandlerStep ==
    ASSUME Chat!TypeOK, StreamHandler, ReaderFollows, Numbers, Chat!Next
    PROVE  StreamHandler'
<1> SUFFICES ASSUME channel = "stream" PROVE StreamHandler'
  BY Apart DEF StreamHandler
<1>1. /\ turn \in Chat!Turn /\ reader \in Chat!Reader /\ client \in ClientRecord
      /\ log \in [Chat!Trace -> Seq(Chat!Event)] /\ turn.event \in Chat!Event
  BY DEF Chat!TypeOK, ClientRecord, Chat!Turn
<1>2. channel' = "stream"
  BY Apart
<1>3. client.done # "absent" /\ client.reconnects = 0 => turn.pc = "ended" /\ answer = client.done
  BY DEF StreamHandler
<1>4. CASE Chat!BeginStream \/ Chat!Lookup \/ Chat!Keep \/ Chat!Guard \/ Chat!Refuse \/ Chat!StreamAnswer \/ Chat!SaveAnswer \/ Chat!Put
  <2>1. client' = client /\ turn.pc # "ended"
    BY <1>4 DEF Chat!BeginStream, Chat!Lookup, Chat!Keep, Chat!Guard, Chat!Refuse,
       Chat!StreamAnswer, Chat!SaveAnswer, Chat!Put
  <2>2. client.done # "absent" => client.reconnects # 0
    BY <1>3, <2>1
  <2>3. CASE Chat!BeginStream
    <3>1. Emits("status", "", "lookup")
      BY <1>1, <2>3, StreamSteps
    <3> QED BY <1>2, <2>1, <2>2, <3>1 DEF StreamHandler, Emits
  <2>4. CASE Chat!Lookup
    <3>1. Emits("token", "cached", "keep") \/ TurnMoves("guard")
      BY <1>1, <2>4, StreamSteps
    <3> QED BY <1>2, <2>1, <2>2, <3>1 DEF StreamHandler, Emits, TurnMoves
  <2>5. CASE Chat!Keep
    <3>1. Emits("done", "cached", "ended") /\ answer' = "cached"
      BY <1>1, <2>5, StreamSteps DEF Chat!Keep
    <3> QED BY <1>2, <2>1, <2>2, <3>1 DEF StreamHandler, Emits
  <2>6. CASE Chat!Guard
    <3>1. TurnMoves("runtime") \/ (Emits("error", "", "refused") /\ answer' = "reason")
      BY <1>1, <2>6, StreamSteps
    <3> QED BY <1>2, <2>1, <2>2, <3>1 DEF StreamHandler, Emits, TurnMoves
  <2>7. CASE Chat!Refuse
    <3>1. Emits("done", "reason", "ended") /\ answer' = "reason"
      BY <1>1, <2>7, StreamSteps DEF Chat!Refuse, StreamHandler
    <3> QED BY <1>2, <2>1, <2>2, <3>1 DEF StreamHandler, Emits
  <2>8. CASE Chat!StreamAnswer
    <3>1. Emits("token", "", "tokens") \/ TurnMoves("save")
      BY <1>1, <2>8, StreamSteps
    <3> QED BY <1>2, <2>1, <2>2, <3>1 DEF StreamHandler, Emits, TurnMoves
  <2>9. CASE Chat!SaveAnswer
    <3>1. TurnMoves("put") /\ answer' = "final"
      BY <1>1, <2>9, StreamSteps DEF Chat!SaveAnswer
    <3> QED BY <1>2, <2>1, <2>2, <3>1 DEF StreamHandler, TurnMoves
  <2>10. CASE Chat!Put
    <3>1. Emits("done", "final", "ended") /\ answer' = "final"
      BY <1>1, <2>10, StreamSteps DEF Chat!Put, StreamHandler
    <3> QED BY <1>2, <2>1, <2>2, <3>1 DEF StreamHandler, Emits
  <2> QED BY <1>4, <2>3, <2>4, <2>5, <2>6, <2>7, <2>8, <2>9, <2>10
<1>5. CASE \/ \E kind \in {"status", "token", "answer"} : Chat!RuntimeEvent(kind)
           \/ Chat!TakeEvent \/ Chat!Check
  <2>1. client' = client /\ turn.pc # "ended"
    BY <1>5 DEF Chat!RuntimeEvent, Chat!TakeEvent, Chat!Check
  <2>2. client.done # "absent" => client.reconnects # 0
    BY <1>3, <2>1
  <2>3. CASE \E kind \in {"status", "token", "answer"} : Chat!RuntimeEvent(kind)
    <3>1. turn'.pc = "engine"
      BY <1>1, <2>3, RuntimeSteps
    <3> QED BY <1>2, <2>1, <2>2, <3>1 DEF StreamHandler
  <2>4. CASE Chat!TakeEvent
    <3>1. turn.event.kind \in {"status", "token", "answer"}
      BY <2>4 DEF Chat!TakeEvent, Numbers
    <3>2. CASE TurnMoves("check")
      BY <1>2, <2>1, <2>2, <3>2 DEF StreamHandler, TurnMoves
    <3>3. CASE /\ turn.event.kind # "answer"
               /\ turn'.pc = "push"
               /\ turn'.then = "runtime"
               /\ turn'.event.kind = turn.event.kind
      <4>1. turn'.event.kind # "answer" /\ turn'.event.kind # "done"
        BY <3>1, <3>3
      <4> QED BY <1>2, <2>1, <2>2, <3>3, <4>1 DEF StreamHandler
    <3> QED BY <1>1, <2>4, <3>2, <3>3, RuntimeSteps
  <2>5. CASE Chat!Check
    <3>1. turn'.pc \in {"save", "tokens"}
      BY <1>1, <2>5, RuntimeSteps
    <3> QED BY <1>2, <2>1, <2>2, <3>1 DEF StreamHandler
  <2> QED BY <1>5, <2>3, <2>4, <2>5
<1>6. CASE Chat!Push
  <2>1. /\ TurnMoves("send") /\ turn'.event = turn.event /\ turn'.then = turn.then
        /\ turn.pc = "push" /\ client' = client /\ answer' = answer
    BY <1>1, <1>6, OtherSteps DEF Chat!Push
  <2> QED BY <1>2, <2>1 DEF StreamHandler, TurnMoves
<1>7. CASE Chat!Send
  <2>1. answer' = answer /\ turn.pc = "send" /\ turn'.pc = turn.then
    BY <1>1, <1>7, OtherSteps DEF Chat!Send, TurnMoves, Stops
  <2>2. turn.then \in Continuations
    BY <1>1 DEF Chat!Turn, Continuations
  <2>3. turn.event.kind # "answer" /\ (turn.event.kind = "done" => turn.then = "ended" /\ answer = turn.event.text)
    BY <2>1 DEF StreamHandler
  <2>4. turn.then = "refused" => answer = "reason"
    BY <2>1 DEF StreamHandler
  <2>5. client.done = "absent" \/ client.reconnects # 0
    BY <1>3, <2>1
  <2>6. /\ client'.reconnects = client.reconnects
        /\ \/ client'.done = client.done
           \/ turn.event.kind = "done" /\ client'.done = turn.event.text
    BY <1>1, <1>7, <2>3, ReceivedFields DEF Chat!Send
  <2>7. client'.done # "absent" /\ client'.reconnects = 0 => turn'.pc = "ended" /\ answer' = client'.done
    BY <2>1, <2>3, <2>5, <2>6
  <2> QED BY <1>2, <2>1, <2>2, <2>4, <2>7 DEF StreamHandler, Continuations
<1>8. CASE Chat!Cancel
  <2>1. Stops /\ client' = client /\ turn.pc # "ended"
    BY <1>1, <1>8, OtherSteps DEF Chat!Cancel
  <2> QED BY <1>2, <1>3, <2>1 DEF StreamHandler, Stops
<1>9. CASE Chat!Break
  <2>1. Stops /\ client' = client /\ turn.pc # "ended"
    BY <1>1, <1>9, OtherSteps DEF Chat!Break
  <2> QED BY <1>2, <1>3, <2>1 DEF StreamHandler, Stops
<1>10. CASE Chat!BeginDirect \/ Chat!LookupDirect \/ Chat!GuardDirect \/ Chat!RunDirect \/ Chat!Commit \/ Chat!Respond
  <2>1. Chat!Commit \/ Chat!Respond
    BY <1>10 DEF Chat!BeginDirect, Chat!LookupDirect, Chat!GuardDirect, Chat!RunDirect,
       Chat!Direct
  <2>2. turn.pc \in {"commit", "respond"}
    BY <2>1 DEF Chat!Commit, Chat!Respond
  <2> QED BY <2>2 DEF StreamHandler
<1>11. CASE Chat!Drop
  <2>1. /\ client'.done = client.done /\ client'.reconnects = client.reconnects
        /\ turn' = turn /\ answer' = answer
    BY <1>1, <1>11 DEF Chat!Drop, ClientRecord
  <2> QED BY <1>2, <2>1 DEF StreamHandler
<1>12. CASE Chat!Reconnect
  <2>1. /\ client'.reconnects = client.reconnects + 1 /\ client.reconnects \in Nat
        /\ turn' = turn /\ answer' = answer
    BY <1>1, <1>12 DEF Chat!Reconnect, ClientRecord
  <2>2. client'.reconnects # 0
    BY <2>1
  <2> QED BY <1>2, <2>1, <2>2 DEF StreamHandler
<1>13. CASE ReplayStep
  <2>1. answer' = answer /\ turn' = turn /\ client'.reconnects # 0
    BY <1>13, ReplayApart
  <2> QED BY <1>2, <2>1 DEF StreamHandler
<1> QED BY <1>4, <1>5, <1>6, <1>7, <1>8, <1>9, <1>10, <1>11, <1>12, <1>13 DEF Chat!Next,
   ReplayStep

\* Committed before it is sent, over HTTP; after it, over a WebSocket.
LEMMA DirectHandlerStep ==
    ASSUME Chat!TypeOK, DirectHandler, ReaderFollows, Chat!Next
    PROVE  DirectHandler'
<1> SUFFICES ASSUME channel # "stream" PROVE DirectHandler'
  BY Apart DEF DirectHandler
<1>1. turn \in Chat!Turn /\ client \in ClientRecord /\ turn.event \in Chat!Event
  BY DEF Chat!TypeOK, ClientRecord, Chat!Turn
<1>2. channel' = channel /\ channel \in {"http", "ws"}
  BY Apart DEF Chat!TypeOK
<1>3. turn.pc \in {"idle", "lookup", "guard", "runtime", "check", "put", "commit", "respond", "ended"}
  BY DEF DirectHandler
<1>4. CASE Chat!Put \/ Chat!LookupDirect \/ Chat!GuardDirect
  <2>1. /\ client' = client /\ answer' = answer /\ turn.pc \in {"put", "lookup", "guard"}
        /\ (\E text \in Chat!Text : Answers(text)) \/ TurnMoves("guard") \/ TurnMoves("runtime")
    BY <1>1, <1>4, StreamSteps, OtherSteps DEF Chat!Put, Chat!LookupDirect,
       Chat!GuardDirect, Chat!Text
  <2>2. channel = "http" => client.done = "absent"
    BY <2>1 DEF DirectHandler
  <2>3. channel = "ws" => answer = "absent" /\ client.done = "absent"
    BY <2>1 DEF DirectHandler
  <2>4. turn'.pc \in {"guard", "runtime"} \/ turn'.pc = IF channel = "http" THEN "commit" ELSE "respond"
    BY <2>1 DEF Answers, TurnMoves
  <2> QED BY <1>2, <2>1, <2>2, <2>3, <2>4 DEF DirectHandler
<1>5. CASE Chat!Check \/ Chat!BeginDirect \/ Chat!RunDirect
  <2>1. /\ client' = client /\ answer' = answer /\ turn.pc \in {"check", "idle", "runtime"}
        /\ turn'.pc \in {"put", "lookup", "check"}
    BY <1>1, <1>5, RuntimeSteps, OtherSteps DEF Chat!Check, Chat!BeginDirect,
       Chat!RunDirect, TurnMoves
  <2> QED BY <1>2, <2>1 DEF DirectHandler
<1>6. CASE Chat!Commit
  <2>1. /\ client' = client /\ answer' = turn.event.text /\ turn.pc = "commit"
        /\ IF channel = "http" THEN turn'.pc = "respond" /\ turn'.event = turn.event
                               ELSE turn'.pc = "ended"
    BY <1>1, <1>6, OtherSteps DEF Chat!Commit, TurnMoves, Stops
  <2> QED BY <1>2, <2>1 DEF DirectHandler
<1>7. CASE Chat!Respond
  <2>1. /\ client'.done = turn.event.text /\ client'.on = client.on
        /\ answer' = answer /\ turn.pc = "respond"
        /\ IF channel = "http" THEN turn'.pc = "ended"
           ELSE turn'.pc = "commit" /\ turn'.event = turn.event
    BY <1>1, <1>7, OtherSteps DEF Chat!Respond, TurnMoves, Stops, ClientRecord
  <2> QED BY <1>2, <2>1 DEF DirectHandler
<1>8. CASE Chat!Break
  <2>1. Stops /\ client' = client /\ answer' = answer /\ turn.pc # "ended"
    BY <1>1, <1>8, OtherSteps DEF Chat!Break
  <2> QED BY <1>2, <2>1 DEF DirectHandler, Stops
<1>9. CASE ReplayStep
  <2>1. answer' = answer /\ turn' = turn /\ channel' = channel /\ reader.pc # "idle"
    BY <1>9, ReplayApart DEF ReplayStep, Chat!Replay, Chat!EndReplay,
       Chat!RefuseResumption, Chat!ResumeEvent, Chat!Renumber,
       Chat!ReaderPush, Chat!ReaderSend, Chat!ReaderBreaks
  <2>2. client' = client
    BY <1>9 DEF ReplayStep, DirectHandler, Chat!Replay, Chat!EndReplay,
       Chat!RefuseResumption, Chat!ResumeEvent, Chat!Renumber,
       Chat!ReaderPush, Chat!ReaderSend, Chat!ReaderBreaks
  <2> QED BY <2>1, <2>2 DEF DirectHandler
<1>10. \/ Chat!Put \/ Chat!LookupDirect \/ Chat!GuardDirect \/ Chat!Check \/ Chat!BeginDirect \/ Chat!RunDirect
       \/ Chat!Commit \/ Chat!Respond \/ Chat!Break \/ ReplayStep
  BY <1>2, <1>3 DEF Chat!Next, ReplayStep, Chat!BeginStream, Chat!Lookup, Chat!Keep,
     Chat!Guard, Chat!Refuse, Chat!StreamAnswer, Chat!SaveAnswer,
     Chat!RuntimeEvent, Chat!TakeEvent, Chat!Push, Chat!Send, Chat!Cancel, Chat!Drop, Chat!Reconnect
<1> QED BY <1>4, <1>5, <1>6, <1>7, <1>8, <1>9, <1>10

----------------------------------------------------------------------------
\* The numbers of events, and what a reconnection skips

\* Every step but those of the direct channels, of the client and of its replay.
Stepped ==
    \/ Chat!BeginStream \/ Chat!Lookup \/ Chat!Keep \/ Chat!Guard \/ Chat!Refuse
    \/ \E kind \in {"status", "token", "answer"} : Chat!RuntimeEvent(kind)
    \/ Chat!TakeEvent \/ Chat!Push \/ Chat!Send \/ Chat!Check \/ Chat!StreamAnswer \/ Chat!SaveAnswer \/ Chat!Put
    \/ Chat!Cancel \/ Chat!Break

LEMMA StreamCases ==
    ASSUME Chat!TypeOK, StreamHandler, ReaderFollows, Chat!Next, channel = "stream"
    PROVE  Stepped \/ Chat!Drop \/ Chat!Reconnect \/ ReplayStep
<1>1. turn.pc \notin {"commit", "respond"}
  BY DEF StreamHandler
<1> QED BY <1>1 DEF Chat!Next, Stepped, ReplayStep, Chat!BeginDirect, Chat!LookupDirect,
   Chat!GuardDirect, Chat!RunDirect,
        Chat!Commit, Chat!Respond, Chat!Direct

LEMMA NumbersStep ==
    ASSUME Chat!TypeOK, StreamHandler, ReaderFollows, Numbers, Chat!Next
    PROVE  Numbers'
<1> SUFFICES ASSUME channel = "stream" PROVE Numbers'
  BY Apart DEF Numbers
<1>1. turn \in Chat!Turn /\ turn.event \in Chat!Event /\ turn.count \in Nat /\ turn.number \in Nat
  BY DEF Chat!TypeOK, Chat!Turn
<1>2. channel' = "stream"
  BY Apart
<1>3. CASE turn' = turn
  BY <1>2, <1>3 DEF Numbers
<1>4. CASE Chat!BeginStream
  <2>1. Emits("status", "", "lookup") /\ turn.pc = "idle"
    BY <1>1, <1>4, StreamSteps DEF Chat!BeginStream
  <2>2. turn.count = 0 /\ turn.number = 0 /\ turn.verdict = "none"
    BY <2>1 DEF Numbers
  <2>3. /\ turn'.pc = "push" /\ turn'.then = "lookup" /\ turn'.verdict = "none"
        /\ turn'.count = 1 /\ turn'.number = 0
        /\ turn'.event.n = 1 /\ turn'.event.trace = "handler"
    <3>1. /\ turn'.pc = "push" /\ turn'.then = "lookup" /\ turn'.verdict = "none"
          /\ turn'.event.trace = "handler" /\ turn'.number = 0
      BY <2>1, <2>2 DEF Emits, Chat!OwnTrace
    <3>2. turn'.count = turn.count + 1 /\ turn'.event.n = turn.count + 1
      BY <2>1 DEF Emits
    <3>3. turn.count + 1 = 1
      BY <2>2
    <3> QED BY <3>1, <3>2, <3>3
  <2> QED BY <1>2, <2>3 DEF Numbers
<1>5. CASE Chat!Lookup
  <2>1. Emits("token", "cached", "keep") \/ TurnMoves("guard")
    BY <1>1, <1>5, StreamSteps
  <2>2. turn.pc = "lookup"
    BY <1>5 DEF Chat!Lookup
  <2> QED BY <1>1, <1>2, <2>1, <2>2 DEF Numbers, Emits, TurnMoves, Chat!OwnTrace
<1>6. CASE Chat!Keep
  <2>1. Emits("done", "cached", "ended") /\ turn.pc = "keep"
    BY <1>1, <1>6, StreamSteps DEF Chat!Keep
  <2> QED BY <1>1, <1>2, <2>1 DEF Numbers, Emits, Chat!OwnTrace
<1>7. CASE Chat!Guard
  <2>1. TurnMoves("runtime") \/ Emits("error", "", "refused")
    BY <1>1, <1>7, StreamSteps
  <2>2. turn.pc = "guard"
    BY <1>7 DEF Chat!Guard
  <2>3. turn.count = 1 /\ turn.number = 0 /\ turn.verdict = "none"
    BY <2>2 DEF Numbers
  <2>4. CASE TurnMoves("runtime")
    BY <1>2, <2>3, <2>4 DEF Numbers, TurnMoves
  <2>5. CASE Emits("error", "", "refused")
    BY <1>1, <1>2, <2>3, <2>5 DEF Numbers, Emits, Chat!OwnTrace
  <2> QED BY <2>1, <2>4, <2>5
<1>8. CASE Chat!Refuse
  <2>1. Emits("done", "reason", "ended") /\ turn.pc = "refused"
    BY <1>1, <1>8, StreamSteps DEF Chat!Refuse
  <2> QED BY <1>1, <1>2, <2>1 DEF Numbers, Emits, Chat!OwnTrace
<1>9. CASE \E kind \in {"status", "token", "answer"} : Chat!RuntimeEvent(kind)
  <2>1. turn.pc = "runtime"
    BY <1>9 DEF Chat!RuntimeEvent
  <2>2. /\ turn'.pc = "engine"
        /\ turn'.count = turn.count
        /\ turn'.number = turn.number + 1
        /\ turn'.verdict = turn.verdict
        /\ turn'.event.trace = "runtime"
        /\ turn'.event.n = turn.number + 1
        /\ turn'.event.kind \in {"status", "token", "answer"}
    BY <1>1, <1>9, RuntimeSteps
  <2> QED BY <1>1, <1>2, <2>1, <2>2 DEF Numbers
<1>10. CASE Chat!TakeEvent
  <2>1. turn.pc = "engine"
    BY <1>10 DEF Chat!TakeEvent
  <2>2. /\ turn.event.n = turn.number /\ turn.count = turn.number /\ turn.number > 0
        /\ turn.event.trace = "runtime" /\ turn.verdict = "none"
    BY <2>1 DEF Numbers
  <2>3. turn.event.n # 0
    BY <1>1, <2>2
  <2>4. CASE TurnMoves("check")
    BY <1>2, <2>2, <2>4 DEF Numbers, TurnMoves
  <2>5. CASE /\ turn'.pc = "push"
             /\ turn'.then = "runtime"
             /\ turn'.count = turn.count + 1
             /\ turn'.number = turn.number
             /\ turn'.verdict = turn.verdict
             /\ turn'.event = turn.event
    BY <1>2, <2>2, <2>5 DEF Numbers
  <2> QED BY <1>1, <1>10, <2>3, <2>4, <2>5, RuntimeSteps
<1>11. CASE Chat!Push
  <2>1. TurnMoves("send") /\ turn'.event = turn.event /\ turn'.then = turn.then /\ turn.pc = "push"
    BY <1>1, <1>11, OtherSteps DEF Chat!Push
  <2> QED BY <1>2, <2>1 DEF Numbers, TurnMoves
<1>12. CASE Chat!Send
  <2>1. turn.pc = "send" /\ turn.then \in Continuations
    BY <1>1, <1>12 DEF Chat!Send, Chat!Turn, Continuations
  <2>2. CASE turn.then = "ended"
    <3>1. turn'.pc = "ended"
      BY <1>1, <1>12, <2>2, OtherSteps DEF Stops
    <3> QED BY <1>2, <3>1 DEF Numbers
  <2>3. CASE turn.then # "ended"
    <3>1. TurnMoves(turn.then)
      BY <1>1, <1>12, <2>3, OtherSteps
    <3> QED BY <1>2, <2>1, <2>3, <3>1 DEF Numbers, TurnMoves, Continuations
  <2> QED BY <2>2, <2>3
<1>13. CASE Chat!Check
  <2>1. turn'.pc \in {"save", "tokens"} /\ turn'.verdict # "none"
    BY <1>1, <1>13, RuntimeSteps
  <2> QED BY <1>2, <2>1 DEF Numbers
<1>14. CASE Chat!StreamAnswer
  <2>1. Emits("token", "", "tokens") \/ TurnMoves("save")
    BY <1>1, <1>14, StreamSteps
  <2>2. turn.pc = "tokens" /\ turn.verdict # "none"
    BY <1>14 DEF Chat!StreamAnswer, Numbers
  <2> QED BY <1>1, <1>2, <2>1, <2>2 DEF Numbers, Emits, TurnMoves
<1>15. CASE Chat!SaveAnswer
  <2>1. TurnMoves("put") /\ turn.pc = "save" /\ turn.verdict # "none"
    BY <1>1, <1>15, StreamSteps DEF Chat!SaveAnswer, Numbers
  <2> QED BY <1>2, <2>1 DEF Numbers, TurnMoves
<1>16. CASE Chat!Put
  <2>1. Emits("done", "final", "ended")
    BY <1>1, <1>16, StreamSteps
  <2> QED BY <1>1, <1>2, <2>1 DEF Numbers, Emits
<1>17. CASE Chat!Cancel \/ Chat!Break
  <2>1. turn'.pc = "ended"
    BY <1>1, <1>17, OtherSteps DEF Stops
  <2> QED BY <1>2, <2>1 DEF Numbers
<1>18. Stepped \/ turn' = turn
  BY StreamCases, ReplayApart DEF Chat!Drop, Chat!Reconnect
<1> QED BY <1>3, <1>4, <1>5, <1>6, <1>7, <1>8, <1>9, <1>10, <1>11, <1>12, <1>13, <1>14,
   <1>15,
        <1>16, <1>17, <1>18 DEF Stepped


LEMMA ClientStays ==
    ASSUME client \in ClientRecord, Chat!Drop
    PROVE  /\ client'.last = client.last
           /\ client'.seen = client.seen
           /\ client'.reconnects = client.reconnects
           /\ client'.on = "off"
  BY DEF Chat!Drop, ClientRecord

\* What the client names comes before what it has yet to get.
LEMMA LastStep ==
    ASSUME Chat!TypeOK, StreamHandler, ReaderFollows, Numbers, Chat!Next,
           channel = "stream", client.reconnects = 0, LastIsPassed, Stepped \/ Chat!Drop
    PROVE  LastIsPassed'
<1>1. /\ turn \in Chat!Turn /\ turn.event \in Chat!Event /\ turn.count \in Nat /\ turn.number \in Nat
      /\ client \in ClientRecord /\ client.last.n \in Nat /\ turn.event.n \in Nat
      /\ log \in [Chat!Trace -> Seq(Chat!Event)]
  BY DEF Chat!TypeOK, Chat!Turn, ClientRecord, Chat!Event
<1> DEFINE Early == {"idle", "lookup", "keep", "guard", "refused"}
<1>2. ASSUME turn.pc \in Early, turn'.pc \in Early \cup {"push"}, client' = client, log' = log,
             turn'.event.trace = Chat!OwnTrace \/ turn'.pc \in Early
      PROVE  LastIsPassed'
  <2>1. log["runtime"] = <<>> /\ client.last.trace = "handler"
    BY <1>2 DEF LastIsPassed
  <2> QED BY <1>2, <2>1 DEF LastIsPassed
<1>3. CASE Chat!BeginStream
  <2>1. Emits("status", "", "lookup") /\ turn.pc = "idle" /\ client' = client /\ log' = log
    BY <1>1, <1>3, StreamSteps DEF Chat!BeginStream
  <2> QED BY <1>2, <2>1 DEF Emits
<1>4. CASE Chat!Lookup
  <2>1. /\ Emits("token", "cached", "keep") \/ TurnMoves("guard")
        /\ turn.pc = "lookup" /\ client' = client /\ log' = log
    BY <1>1, <1>4, StreamSteps DEF Chat!Lookup
  <2> QED BY <1>2, <2>1 DEF Emits, TurnMoves
<1>5. CASE Chat!Keep
  <2>1. Emits("done", "cached", "ended") /\ turn.pc = "keep" /\ client' = client /\ log' = log
    BY <1>1, <1>5, StreamSteps DEF Chat!Keep
  <2> QED BY <1>2, <2>1 DEF Emits
<1>6. CASE Chat!Guard
  <2>1. /\ TurnMoves("runtime") \/ Emits("error", "", "refused")
        /\ turn.pc = "guard" /\ client' = client /\ log' = log
    BY <1>1, <1>6, StreamSteps DEF Chat!Guard
  <2>2. CASE Emits("error", "", "refused")
    BY <1>2, <2>1, <2>2 DEF Emits
  <2>3. CASE TurnMoves("runtime")
    <3>1. client.last.trace = "handler"
      BY <2>1 DEF LastIsPassed
    <3> QED BY <2>1, <2>3, <3>1 DEF LastIsPassed, TurnMoves
  <2> QED BY <2>1, <2>2, <2>3
<1>7. CASE Chat!Refuse
  <2>1. Emits("done", "reason", "ended") /\ turn.pc = "refused" /\ client' = client /\ log' = log
    BY <1>1, <1>7, StreamSteps DEF Chat!Refuse
  <2> QED BY <1>2, <2>1 DEF Emits
<1>8. CASE \E kind \in {"status", "token", "answer"} : Chat!RuntimeEvent(kind)
  <2>1. turn.pc = "runtime" /\ client' = client
    BY <1>8 DEF Chat!RuntimeEvent
  <2>2. turn'.pc = "engine" /\ turn'.event.n = turn.number + 1
    BY <1>1, <1>8, RuntimeSteps
  <2>3. client.last.trace = "runtime" => client.last.n <= turn.number
    BY <2>1 DEF LastIsPassed
  <2>4. client.last.trace = "runtime" => client.last.n < turn'.event.n
    BY <1>1, <2>2, <2>3
  <2> QED BY <2>1, <2>2, <2>4 DEF LastIsPassed
<1>9. CASE Chat!TakeEvent
  <2>1. turn.pc = "engine" /\ client' = client /\ log' = log
    BY <1>9 DEF Chat!TakeEvent
  <2>2. /\ turn.event.n = turn.number /\ turn.count = turn.number /\ turn.number > 0
        /\ turn.event.trace = "runtime"
    BY <2>1 DEF Numbers
  <2>3. client.last.trace = "runtime" => client.last.n < turn.event.n
    BY <2>1 DEF LastIsPassed
  <2>4. CASE TurnMoves("check")
    <3>1. client.last.trace = "runtime" => client.last.n <= turn'.count
      BY <1>1, <2>2, <2>3, <2>4 DEF TurnMoves
    <3> QED BY <2>1, <2>4, <3>1 DEF LastIsPassed, TurnMoves
  <2>5. CASE turn'.pc = "push" /\ turn'.event = turn.event
    BY <2>1, <2>2, <2>3, <2>5 DEF LastIsPassed
  <2>6. turn.event.n # 0
    BY <1>1, <2>2
  <2> QED BY <1>1, <1>9, <2>4, <2>5, <2>6, RuntimeSteps
<1>10. CASE Chat!Push
  <2>1. /\ turn'.pc = "send" /\ turn'.event = turn.event /\ turn.pc = "push"
        /\ client' = client /\ Chat!Pushed(turn.event)
    BY <1>1, <1>10, OtherSteps DEF Chat!Push, TurnMoves
  <2>2. turn.event.trace = "handler" => log'["runtime"] = log["runtime"]
    BY <1>1, <2>1, PushedGrows DEF Chat!Trace
  <2> QED BY <2>1, <2>2 DEF LastIsPassed
<1>11. CASE Chat!Send
  <2>1. turn.pc = "send" /\ log' = log /\ turn.then \in Continuations
    BY <1>1, <1>11 DEF Chat!Send, Chat!Turn, Continuations
  <2>2. \/ client' = client
        \/ client'.last.trace = turn.event.trace /\ client'.last.n = turn.event.n
    BY <1>1, <1>11, ReceivedFields DEF Chat!Send
  <2>3. CASE turn.then = "ended"
    <3>1. turn'.pc = "ended"
      BY <1>1, <1>11, <2>3, OtherSteps DEF Stops
    <3> QED BY <3>1 DEF LastIsPassed
  <2>4. CASE turn.then # "ended" /\ turn.event.trace = "handler"
    <3>1. log["runtime"] = <<>> /\ client.last.trace = "handler"
      BY <2>1, <2>4 DEF LastIsPassed
    <3>2. client'.last.trace = "handler" /\ turn'.pc = turn.then
      BY <1>1, <1>11, <2>2, <2>4, <3>1, OtherSteps DEF TurnMoves
    <3> QED BY <2>1, <3>1, <3>2 DEF LastIsPassed, Continuations
  <2>5. CASE turn.then # "ended" /\ turn.event.trace # "handler"
    <3>1. TurnMoves(turn.then) /\ turn.then \in {"runtime", "tokens"}
      BY <1>1, <1>11, <2>1, <2>5, OtherSteps DEF Numbers, Continuations
    <3>2. client'.last.trace = "runtime" => client'.last.n <= turn.event.n
      BY <1>1, <2>1, <2>2 DEF LastIsPassed
    <3>3. /\ turn.then = "runtime" => turn.event.n = turn'.number
          /\ turn.then = "tokens" => turn.event.n = turn'.count
      BY <2>1, <3>1 DEF Numbers, TurnMoves
    <3> QED BY <3>1, <3>2, <3>3 DEF LastIsPassed, TurnMoves
  <2> QED BY <2>3, <2>4, <2>5
<1>12. CASE Chat!Check
  <2>1. /\ turn'.pc \in {"save", "tokens"} /\ turn'.count = turn.count
        /\ turn.pc = "check" /\ client' = client
    BY <1>1, <1>12, RuntimeSteps DEF Chat!Check
  <2> QED BY <2>1 DEF LastIsPassed
<1>13. CASE Chat!StreamAnswer \/ Chat!SaveAnswer \/ Chat!Put
  <2>1. turn.pc \in {"tokens", "save", "put"} /\ client' = client
    BY <1>13 DEF Chat!StreamAnswer, Chat!SaveAnswer, Chat!Put
  <2>2. client.last.trace = "runtime" => client.last.n <= turn.count
    BY <2>1 DEF LastIsPassed
  <2>3. Chat!OwnTrace = "runtime"
    BY <2>1 DEF Numbers, Chat!OwnTrace
  <2>4. \/ turn'.pc \in {"save", "put"} /\ turn'.count = turn.count
        \/ /\ turn'.pc = "push"
           /\ turn'.event.n = turn.count + 1
           /\ turn'.event.trace = Chat!OwnTrace
    BY <1>1, <1>13, StreamSteps DEF Emits, TurnMoves
  <2> QED BY <1>1, <2>1, <2>2, <2>3, <2>4 DEF LastIsPassed
<1>14. CASE Chat!Cancel \/ Chat!Break
  <2>1. turn'.pc = "ended"
    BY <1>1, <1>14, OtherSteps DEF Stops
  <2> QED BY <2>1 DEF LastIsPassed
<1>15. CASE Chat!Drop
  <2>1. turn' = turn /\ log' = log /\ client'.last = client.last
    BY <1>1, <1>15, ClientStays DEF Chat!Drop
  <2> QED BY <2>1 DEF LastIsPassed
<1> QED BY <1>3, <1>4, <1>5, <1>6, <1>7, <1>8, <1>9, <1>10, <1>11, <1>12, <1>13, <1>14,
   <1>15
        DEF Stepped

\* What is in the list stays known to the client, or ahead of it.
LEMMA PassedStays ==
    ASSUME Chat!TypeOK, StreamHandler, ReaderFollows, Numbers, Chat!Next,
           channel = "stream", client.reconnects = 0, LastIsPassed, Stepped \/ Chat!Drop,
           log["runtime"] # <<>>, NEW e \in Chat!Event, Passed(e)
    PROVE  Passed(e)'
<1>1. turn \in Chat!Turn /\ turn.event \in Chat!Event /\ turn.number \in Nat /\ client \in ClientRecord
  BY DEF Chat!TypeOK, Chat!Turn, ClientRecord
<1>2. CASE e.kind = "answer"
  BY <1>2 DEF Passed
<1>3. CASE Chat!Drop
  <2>1. turn' = turn /\ client'.last = client.last /\ client'.seen = client.seen /\ client'.on = "off"
    BY <1>1, <1>3, ClientStays DEF Chat!Drop
  <2> QED BY <2>1 DEF Passed
<1>4. CASE Chat!Send
  <2>1. turn.pc = "send" /\ turn.event.trace = "runtime"
    BY <1>1, <1>4 DEF Chat!Send, LastIsPassed, Chat!Event, Chat!Trace
  <2>2. CASE client.on = "turn"
    <3>1. client' = Chat!Received(turn.event)
      BY <1>4, <2>2 DEF Chat!Send
    <3>2. /\ client.seen \subseteq client'.seen
          /\ <<turn.event.n, turn.event.kind>> \in client'.seen
      BY <1>1, <2>1, <3>1, ReceivedFields
    <3>3. e.kind = "answer" \/ <<e.n, e.kind>> \in client.seen \/ AtHand(e)
      BY <2>1, <2>2 DEF Passed
    <3> QED BY <3>2, <3>3 DEF Passed, AtHand
  <2>3. CASE client.on # "turn"
    <3>1. client' = client
      BY <1>4, <2>3 DEF Chat!Send
    <3> QED BY <2>3, <3>1 DEF Passed
  <2> QED BY <2>2, <2>3
<1>5. CASE Chat!Push
  <2>1. /\ turn.pc = "push" /\ turn'.pc = "send" /\ turn'.event = turn.event
        /\ client' = client
    BY <1>1, <1>5, OtherSteps DEF Chat!Push, TurnMoves
  <2> QED BY <2>1 DEF Passed, AtHand
<1>6. CASE Chat!TakeEvent
  <2>1. turn.pc = "engine" /\ client' = client
    BY <1>6 DEF Chat!TakeEvent
  <2>2. turn.event.n # 0
    BY <1>1, <2>1 DEF Numbers
  <2>3. turn.event.kind = "answer" \/ (turn'.pc = "push" /\ turn'.event = turn.event)
    BY <1>1, <1>6, <2>2, RuntimeSteps
  <2> QED BY <2>1, <2>3 DEF Passed, AtHand
<1>7. CASE Chat!Cancel \/ Chat!Break
  <2>1. turn'.pc = "ended" /\ client' = client
    BY <1>1, <1>7, OtherSteps DEF Stops, Chat!Cancel, Chat!Break
  <2> QED BY <2>1 DEF Passed
<1>8. CASE turn.pc \notin {"engine", "push", "send", "ended"} /\ client' = client
  BY <1>8 DEF Passed, AtHand
<1> QED BY <1>3, <1>4, <1>5, <1>6, <1>7, <1>8 DEF Stepped, Chat!BeginStream, Chat!Lookup,
   Chat!Keep, Chat!Guard, Chat!Refuse,
        Chat!RuntimeEvent, Chat!Check, Chat!StreamAnswer, Chat!SaveAnswer, Chat!Put

\* What joins the list is at hand, and ahead of the client.
LEMMA PassedNew ==
    ASSUME Chat!TypeOK, StreamHandler, ReaderFollows, Numbers, Chat!Next,
           channel = "stream", client.reconnects = 0, LastIsPassed, Stepped \/ Chat!Drop
    PROVE  \/ log' = log
           \/ \E event \in Chat!Event : Chat!Pushed(event) /\ Passed(event)'
<1>1. turn \in Chat!Turn /\ turn.event \in Chat!Event /\ turn.number \in Nat /\ client \in ClientRecord
      /\ client.last.n \in Nat
  BY DEF Chat!TypeOK, Chat!Turn, ClientRecord
<1>2. CASE Chat!Push
  <2>1. /\ turn.pc = "push" /\ turn'.pc = "send" /\ turn'.event = turn.event
        /\ client' = client /\ Chat!Pushed(turn.event)
    BY <1>1, <1>2, OtherSteps DEF Chat!Push, TurnMoves
  <2> DEFINE event == turn.event
  <2>2. Passed(event)'
    BY <2>1 DEF Passed, AtHand, LastIsPassed
  <2>3. PICK e \in Chat!Event : e = turn.event
    BY <1>1
  <2>4. Passed(e)'
    BY <2>1, <2>3 DEF Passed, AtHand, LastIsPassed
  <2> QED BY <2>1, <2>3, <2>4
<1>3. CASE \E kind \in {"status", "token", "answer"} : Chat!RuntimeEvent(kind)
  <2>1. turn.pc = "runtime" /\ client' = client
    BY <1>3 DEF Chat!RuntimeEvent
  <2>2. /\ turn'.pc = "engine" /\ turn'.event.n = turn.number + 1
        /\ turn'.event \in Chat!Event /\ Chat!Pushed(turn'.event)
    BY <1>1, <1>3, RuntimeSteps
  <2>3. PICK e \in Chat!Event : e = turn'.event
    BY <2>2
  <2>4. client.last.trace = "runtime" => client.last.n < e.n
    BY <1>1, <2>1, <2>2, <2>3 DEF LastIsPassed
  <2>5. Passed(e)'
    BY <2>1, <2>2, <2>3, <2>4 DEF Passed, AtHand
  <2> QED BY <2>2, <2>3, <2>5
<1>4. CASE log' = log
  BY <1>4
<1> QED BY <1>2, <1>3, <1>4 DEF Stepped, Chat!Drop, Chat!BeginStream, Chat!Lookup,
   Chat!Keep, Chat!Guard, Chat!Refuse, Chat!TakeEvent, Chat!Send,
        Chat!Check, Chat!StreamAnswer, Chat!SaveAnswer, Chat!Put, Chat!Cancel, Chat!Break

LEMMA SkipStep ==
    ASSUME Chat!TypeOK, StreamHandler, ReaderFollows, Numbers, NothingSkippedYet, Chat!Next
    PROVE  NothingSkippedYet'
<1> SUFFICES ASSUME channel = "stream", client'.reconnects = 0
             PROVE  /\ LastIsPassed'
                    /\ \A i \in 1..Len(log'["runtime"]) : (Passed(log["runtime"][i]))'
  BY Apart DEF NothingSkippedYet
<1>1. client \in ClientRecord /\ log \in [Chat!Trace -> Seq(Chat!Event)] /\ client.reconnects \in Nat
  BY DEF Chat!TypeOK, ClientRecord
<1>2. Stepped \/ Chat!Drop
  <2>1. ~Chat!Reconnect
    <3>1. Chat!Reconnect => client'.reconnects = client.reconnects + 1
      BY <1>1 DEF Chat!Reconnect, ClientRecord
    <3> QED BY <1>1, <3>1
  <2>2. ~ReplayStep
    BY ReplayApart
  <2> QED BY <2>1, <2>2, StreamCases
<1>3. client.reconnects = 0
  <2>1. CASE client' = client
    BY <2>1
  <2>2. CASE Chat!Drop
    BY <1>1, <2>2, ClientStays
  <2>3. CASE Chat!Send
    <3>1. turn.event \in Chat!Event
      BY DEF Chat!TypeOK, Chat!Turn
    <3> QED BY <1>1, <2>3, <3>1, ReceivedFields DEF Chat!Send
  <2> QED BY <1>2, <2>1, <2>2, <2>3 DEF Stepped, Chat!BeginStream, Chat!Lookup, Chat!Keep,
     Chat!Guard, Chat!Refuse, Chat!RuntimeEvent,
          Chat!TakeEvent, Chat!Push, Chat!Check, Chat!StreamAnswer, Chat!SaveAnswer, Chat!Put, Chat!Cancel, Chat!Break
<1>4. LastIsPassed /\ \A i \in 1..Len(log["runtime"]) : Passed(log["runtime"][i])
  BY <1>3 DEF NothingSkippedYet
<1>5. LastIsPassed'
  BY <1>2, <1>3, <1>4, LastStep
<1>6. log["runtime"] \in Seq(Chat!Event)
  BY <1>1 DEF Chat!Trace
<1>7. ASSUME NEW i \in 1..Len(log["runtime"])
      PROVE  Passed(log["runtime"][i]) /\ \E e \in Chat!Event : e = log["runtime"][i] /\ Passed(e)'
  <2>1. PICK e \in Chat!Event : e = log["runtime"][i]
    BY <1>6
  <2>2. log["runtime"] # <<>>
    BY <1>6
  <2>3. Passed(e)
    BY <1>4, <2>1
  <2> QED BY <1>2, <1>3, <1>4, <2>1, <2>2, <2>3, PassedStays
<1>8. ASSUME NEW i \in 1..Len(log'["runtime"])
      PROVE  (Passed(log["runtime"][i]))'
  <2>1. \E e \in Chat!Event : e = log'["runtime"][i] /\ Passed(e)'
    <3>1. CASE log' = log
      BY <1>7, <1>8, <3>1
    <3>2. CASE \E event \in Chat!Event : Chat!Pushed(event) /\ Passed(event)'
      <4>1. PICK event \in Chat!Event : Chat!Pushed(event) /\ Passed(event)'
        BY <3>2
      <4>2. CASE event.trace # "runtime"
        <5>1. log'["runtime"] = log["runtime"]
          BY <1>1, <4>1, <4>2, PushedGrows DEF Chat!Trace
        <5> QED BY <1>7, <1>8, <5>1
      <4>3. CASE event.trace = "runtime"
        <5>1. /\ Len(log'["runtime"]) = Len(log["runtime"]) + 1
              /\ \A k \in 1..Len(log["runtime"]) : log'["runtime"][k] = log["runtime"][k]
              /\ log'["runtime"][Len(log["runtime"]) + 1] = event
          BY <1>1, <4>1, <4>3, PushedGrows
        <5>2. Len(log["runtime"]) \in Nat
          BY <1>6
        <5>3. CASE i = Len(log["runtime"]) + 1
          BY <4>1, <5>1, <5>3
        <5>4. CASE i \in 1..Len(log["runtime"])
          BY <1>7, <5>1, <5>4
        <5> QED BY <1>8, <5>1, <5>2, <5>3, <5>4
      <4> QED BY <4>2, <4>3
    <3> QED BY <1>2, <1>3, <1>4, <3>1, <3>2, PassedNew
  <2> QED BY <2>1 DEF Passed, AtHand
<1> QED BY <1>5, <1>8

----------------------------------------------------------------------------
\* The invariant, and what it gives

LEMMA ChatStart == Chat!Init => ChatInv
<1> SUFFICES ASSUME Chat!Init PROVE ChatInv
  OBVIOUS
<1>1. /\ answer = "absent" /\ turn.pc = "idle" /\ turn.count = 0 /\ turn.number = 0
      /\ turn.verdict = "none" /\ reader.pc = "idle"
  BY DEF Chat!Init, Chat!IdleTurn, Chat!IdleReader
<1>2. client.on = "turn" /\ client.done = "absent" /\ client.last.trace = "handler"
  BY DEF Chat!Init
<1>3. log["runtime"] = <<>>
  BY DEF Chat!Init, Chat!Trace
<1>4. Chat!CacheIsSafe
  <2>1. PICK text \in {"", "cached"} : cache = [text |-> text, verdict |-> "none", degraded |-> FALSE]
    BY DEF Chat!Init
  <2> QED BY <2>1 DEF Chat!CacheIsSafe
<1>5. Len(log["runtime"]) = 0
  BY <1>3
<1>6. NothingSkippedYet
  BY <1>1, <1>2, <1>3, <1>5 DEF NothingSkippedYet, LastIsPassed
<1>7. Numbers
  BY <1>1 DEF Numbers
<1>8. StreamHandler /\ DirectHandler /\ ReaderFollows
  BY <1>1, <1>2 DEF StreamHandler, DirectHandler, ReaderFollows
<1> QED BY <1>4, <1>6, <1>7, <1>8, TypeStart DEF ChatInv

LEMMA ChatStutter ==
    ASSUME ChatInv, UNCHANGED Chat!vars
    PROVE  ChatInv'
<1> USE DEF Chat!vars
<1>1. Chat!TypeOK' /\ Chat!CacheIsSafe'
  BY DEF ChatInv, Chat!TypeOK, Chat!CacheIsSafe
<1>2. StreamHandler' /\ DirectHandler' /\ ReaderFollows'
  BY DEF ChatInv, StreamHandler, DirectHandler, ReaderFollows
<1>3. Numbers'
  BY DEF ChatInv, Numbers
<1>4. NothingSkippedYet'
  BY DEF ChatInv, NothingSkippedYet, LastIsPassed, Passed, AtHand
<1> QED BY <1>1, <1>2, <1>3, <1>4 DEF ChatInv

LEMMA ChatStep == ChatInv /\ [Chat!Next]_Chat!vars => ChatInv'
<1>1. ASSUME ChatInv, Chat!Next PROVE ChatInv'
  BY <1>1, TypeStep, StreamHandlerStep, DirectHandlerStep, FollowStep, CacheStep,
     NumbersStep,
     SkipStep DEF ChatInv
<1> QED BY <1>1, ChatStutter

LEMMA ChatSafe == ChatInv => Chat!TypeOK /\ Chat!ShownIsStored /\ Chat!CacheIsSafe
<1> SUFFICES ASSUME ChatInv PROVE Chat!ShownIsStored
  BY DEF ChatInv
<1>1. CASE channel = "stream"
  BY <1>1 DEF ChatInv, StreamHandler, Chat!ShownIsStored
<1>2. CASE channel = "http"
  BY <1>2 DEF ChatInv, DirectHandler, Chat!ShownIsStored
<1>3. CASE channel = "ws"
  BY <1>3 DEF ChatInv, DirectHandler, Chat!ShownIsStored
<1> QED BY <1>1, <1>2, <1>3 DEF ChatInv, Chat!TypeOK

\* A first reconnection is given the list as it is, in which Passed leaves nothing out.
LEMMA SkipsNothing ==
    ASSUME ChatInv, [Chat!Next]_Chat!vars, client.reconnects = 0, client'.reconnects = 1,
           client.last.trace = "runtime"
    PROVE  Chat!Numbered({event \in Chat!ToSet(log["runtime"]) : event.kind # "answer"}) \subseteq
             client.seen \union
               Chat!Numbered({event \in Chat!ToSet(reader'.rows) : event.n > reader'.after})
<1>1. /\ Chat!TypeOK /\ StreamHandler /\ DirectHandler /\ ReaderFollows
      /\ Numbers /\ NothingSkippedYet
  BY DEF ChatInv
<1>2. client \in ClientRecord /\ log \in [Chat!Trace -> Seq(Chat!Event)] /\ turn.event \in Chat!Event
  BY <1>1 DEF Chat!TypeOK, ClientRecord, Chat!Turn
<1>3. Chat!Reconnect
  <2>1. client' # client
    OBVIOUS
  <2>2. ~ReplayStep
    BY <1>1, ReplayApart
  <2>3. ~Chat!Drop
    BY <1>2, ClientStays
  <2>4. ~Chat!Send
    <3>1. Chat!Send => client'.reconnects = client.reconnects
      BY <1>2, ReceivedFields DEF Chat!Send
    <3> QED BY <3>1
  <2>5. ~Chat!Respond
    BY <1>2 DEF Chat!Respond, ClientRecord
  <2>6. Chat!Next
    BY <2>1 DEF Chat!vars
  <2> QED BY <2>1, <2>2, <2>3, <2>4, <2>5, <2>6 DEF Chat!Next, ReplayStep,
     Chat!BeginStream, Chat!Lookup, Chat!Keep, Chat!Guard,
          Chat!Refuse, Chat!RuntimeEvent, Chat!TakeEvent, Chat!Push, Chat!Check, Chat!StreamAnswer, Chat!SaveAnswer, Chat!Put, Chat!Cancel, Chat!Break,
          Chat!BeginDirect, Chat!LookupDirect, Chat!GuardDirect, Chat!RunDirect, Chat!Commit
<1>4. channel = "stream" /\ client.on = "off"
  BY <1>3 DEF Chat!Reconnect
<1>5. reader'.rows = log["runtime"] /\ reader'.after = client.last.n
  BY <1>3 DEF Chat!Reconnect, Chat!ReaderBecomes, Chat!IdleReader
<1>6. SUFFICES ASSUME NEW e \in Chat!ToSet(log["runtime"]), e.kind # "answer"
               PROVE  <<e.n, e.kind>> \in client.seen \/ e.n > client.last.n
  BY <1>5 DEF Chat!Numbered
<1>7. PICK i \in 1..Len(log["runtime"]) : e = log["runtime"][i]
  BY DEF Chat!ToSet
<1>8. Passed(log["runtime"][i])
  BY <1>1, <1>4, <1>7 DEF NothingSkippedYet
<1>9. e.n \in Nat /\ client.last.n \in Nat
  <2>1. log["runtime"] \in Seq(Chat!Event) /\ client.last.n \in Nat
    BY <1>2 DEF Chat!Trace, ClientRecord
  <2>2. e \in Chat!Event
    BY <1>7, <2>1
  <2> QED BY <2>1, <2>2 DEF Chat!Event
<1> QED BY <1>6, <1>7, <1>8, <1>9 DEF Passed

----------------------------------------------------------------------------
\* The question on its own, and both parts as MCRequests checks them.

\* On every channel, whatever fails or is cancelled, the client is shown what the
\* history holds (but over a WebSocket, where the commit comes second), and the cache
\* keeps nothing the output guard replaced (chat.py, ws_chat.py, semantic_cache.py).
THEOREM AnswersAreStored == Chat!Spec => [](Chat!TypeOK /\ Chat!ShownIsStored /\ Chat!CacheIsSafe)
<1>1. ChatInv => Chat!TypeOK /\ Chat!ShownIsStored /\ Chat!CacheIsSafe
  BY ChatSafe
<1> QED BY <1>1, ChatStart, ChatStep, PTL DEF Chat!Spec

LEMMA PartsHold == PartsSpec => [](UploadInv /\ ChatInv)
<1>1. PartsInit => UploadInv /\ ChatInv
  BY UploadInvInit, ChatStart DEF PartsInit
<1>2. [UploadNext \/ ChatNext]_<<part, vars, chatVars>> => [Next]_vars /\ [Chat!Next]_Chat!vars
  BY DEF UploadNext, ChatNext, chatVars, Chat!vars
<1>3. (UploadInv /\ ChatInv) /\ [UploadNext \/ ChatNext]_<<part, vars, chatVars>> =>
        (UploadInv /\ ChatInv)'
  BY <1>2, UploadInvStep, ChatStep
<1> QED BY <1>1, <1>3, PTL DEF PartsSpec

\* The types of both parts.
THEOREM RequestsTyped == PartsSpec => []RequestsTypeOK
<1>1. UploadInv /\ ChatInv => RequestsTypeOK
  BY ChatSafe DEF UploadInv, TypeInv, RequestsTypeOK
<1> QED BY <1>1, PartsHold, PTL

\* What a client is told is done is what the history shows it later.
THEOREM ShownStored == PartsSpec => []ShownIsStored
<1>1. ChatInv => ShownIsStored
  BY ChatSafe DEF ShownIsStored
<1> QED BY <1>1, PartsHold, PTL

\* The cache serves no text the output guard replaced, whichever channel put it there.
THEOREM CacheSafe == PartsSpec => []CacheIsSafe
<1>1. ChatInv => CacheIsSafe
  BY ChatSafe DEF CacheIsSafe
<1> QED BY <1>1, PartsHold, PTL

\* A client that loses its stream names an event, and what it has not got comes
\* after that one, however many events of either counter there are.
THEOREM NothingSkipped == PartsSpec => NothingIsSkipped
<1> DEFINE Skips == client.reconnects = 0 /\ client'.reconnects = 1 /\ client.last.trace = "runtime" =>
                      Chat!Numbered({event \in Chat!ToSet(log["runtime"]) : event.kind # "answer"})
                        \subseteq client.seen \union
                          Chat!Numbered({event \in Chat!ToSet(reader'.rows) : event.n > reader'.after})
<1>1. ChatInv /\ [UploadNext \/ ChatNext]_<<part, vars, chatVars>> => [Skips]_Chat!vars
  <2>1. [UploadNext \/ ChatNext]_<<part, vars, chatVars>> => [Chat!Next]_Chat!vars
    BY DEF UploadNext, ChatNext, chatVars, Chat!vars
  <2> QED BY <2>1, SkipsNothing
<1>2. NothingIsSkipped <=> [][Skips]_Chat!vars
  BY DEF NothingIsSkipped, Chat!NothingIsSkipped
<1> HIDE DEF Skips
<1> QED BY <1>1, <1>2, PartsHold, PTL DEF PartsSpec
=============================================================================
