--------------------------- MODULE DocumentService ---------------------------
(***************************************************************************)
(* The document handlers of core-go-rpc's gRPC server, running             *)
(* concurrently: UploadDocument, DeleteDocument, GetDocument and           *)
(* DownloadDocument, and the part of a question (CreateTurn and            *)
(* CreateTurnStream) that selects documents, repairs their chunks and      *)
(* retrieves from them.  A handler holds no lock between its calls to the  *)
(* state store, MinIO, Qdrant, the audit log and the Python service, so    *)
(* each such call is an action of its own; a call that reads or writes     *)
(* nothing the handlers share (text extraction, embedding) is merged into  *)
(* a neighbouring action.                                                  *)
(*                                                                         *)
(* A request is served once.  An upload's name is also the id of the       *)
(* document it creates (types.NewID never repeats an id), and a request's  *)
(* name also stands for the fresh ids of the chunks it cuts.               *)
(*                                                                         *)
(* Every outside call may fail.  A failing write to MinIO or Qdrant may    *)
(* still have been applied: the answer can be lost or the deadline of the  *)
(* gateway's call can expire after the write.                              *)
(***************************************************************************)
EXTENDS DocumentStore

CONSTANTS
    Deletes,          \* DeleteDocument requests
    Reads,            \* GetDocument and DownloadDocument requests
    User,             \* request -> user its token authenticates
    Target,           \* delete or read -> the document_id it names
    Garbled,          \* PDFs whose extracted text never looks readable
    VectorSearch,     \* whether WithVectorSearch was configured
    MaxCrashes        \* bound: how many times the process may die

Requests == Uploads \cup Deletes \cup Reads \cup Asks

ASSUME RequestKinds ==
    /\ Uploads \cap (Deletes \cup Reads \cup Asks) = {}
    /\ Deletes \cap (Reads \cup Asks) = {}
    /\ Reads \cap Asks = {}
ASSUME Targets == Target \in [Deletes \cup Reads -> Uploads]
ASSUME Config == Garbled \subseteq Uploads /\ VectorSearch \in BOOLEAN
ASSUME CrashBound == MaxCrashes \in Nat

VARIABLES
    objects,   \* documents whose file is in MinIO
    vectors,   \* Qdrant: document -> batches with points in the collection
    audit,     \* audit.log: <<event, actor, document>>
    pc,        \* where each request stands, or how it was answered
    scope,     \* ask -> the documents retrieval was restricted to
    todo,      \* ask -> documents of the scope not yet looked at
    at,        \* ask -> {the document being repaired}, or {}
    chunkMap,  \* ask -> document -> the chunk list it will search
    cited,     \* ask -> <<document, batch>> pairs it retrieved
    crashes    \* process deaths so far

askVars == <<scope, todo, at, chunkMap, cited>>
vars == <<storeVars, objects, vectors, audit, pc, askVars, crashes>>

-----------------------------------------------------------------------------
(* Where a request can be.  The answers a caller can receive:              *)
Answers == {"ok", "invalid", "notfound", "denied", "missing", "internal",
            "rejected", "failed"}
(* Requests the process died under: "dropped" had reached no outside       *)
(* system yet, "lost" had.                                                 *)
Ended == Answers \cup {"lost", "dropped"}
UploadSteps == {"stored", "registered", "extracted", "unparsed", "unindexed",
                "indexed"}
DeleteSteps == {"owned", "unstored", "unlinked", "removed"}
AskSteps == {"scanning", "repairing", "parsed", "cleared", "reindexed"}
InFlight == UploadSteps \cup DeleteSteps \cup {"opening"} \cup AskSteps

\* MinIO, Qdrant, audit.log, and the bound on restarts.
ServicesOK ==
    /\ objects \subseteq Uploads
    /\ vectors \in [Uploads -> SUBSET Batches]
    /\ audit \subseteq {"document.delete", "auth.unauthorized"}
                       \X {User[r] : r \in Deletes \cup Reads} \X Uploads
    /\ crashes \in 0 .. MaxCrashes

PlacesOK ==
    /\ pc \in [Requests -> {"new"} \cup InFlight \cup Ended]
    /\ \A u \in Uploads : pc[u] \in {"new"} \cup UploadSteps \cup Ended
    /\ \A x \in Deletes : pc[x] \in {"new"} \cup DeleteSteps \cup Ended
    /\ \A r \in Reads : pc[r] \in {"new", "opening"} \cup Ended
    /\ \A q \in Asks : pc[q] \in {"new"} \cup AskSteps \cup Ended

AsksOK ==
    /\ scope \in [Asks -> SUBSET Uploads]
    /\ todo \in [Asks -> SUBSET Uploads]
    /\ at \in [Asks -> SUBSET Uploads]
    /\ chunkMap \in [Asks -> [Uploads -> Batches \cup {NoChunks}]]
    /\ cited \in [Asks -> SUBSET (Uploads \X Batches)]

\* The type invariant.
TypeOK == StoreTypeOK /\ ServicesOK /\ PlacesOK /\ AsksOK

EmptyMap == [d \in Uploads |-> NoChunks]

Init ==
    /\ StoreInit
    /\ objects = {}
    /\ vectors = [d \in Uploads |-> {}]
    /\ audit = {}
    /\ pc = [r \in Requests |-> "new"]
    /\ scope = [q \in Asks |-> {}]
    /\ todo = [q \in Asks |-> {}]
    /\ at = [q \in Asks |-> {}]
    /\ chunkMap = [q \in Asks |-> EmptyMap]
    /\ cited = [q \in Asks |-> {}]
    /\ crashes = 0

\* Request r moves from one place to another.
Go(r, from, to) ==
    /\ pc[r] = from
    /\ pc' = [pc EXCEPT ![r] = to]

-----------------------------------------------------------------------------
(* Pieces the handlers share.                                              *)

\* appendAuditLocked is best effort: an event that cannot be written is lost.
Audit(event, r) ==
    \/ audit' = audit \cup {<<event, User[r], Target[r]>>}
    \/ UNCHANGED audit

\* A request turned away before it touches anything: no session, a bad file
\* name or size, confirm not set, a malformed scope.
Refuse(r) ==
    /\ Go(r, "new", "invalid")
    /\ UNCHANGED <<storeVars, objects, vectors, audit, askVars, crashes>>

\* Mutant: the owner is not compared.
LookupAnyOwner(r, next) ==
    /\ \/ docs[Target[r]] = "absent" /\ Go(r, "new", "notfound")
       \/ docs[Target[r]] # "absent" /\ \E place \in next : Go(r, "new", place)
    /\ UNCHANGED <<storeVars, objects, vectors, audit, askVars, crashes>>

\* getOwnedDocument for a delete or a read: found and owned, it goes on at
\* one of the places in next.
Lookup(r, next) ==
    /\ \/ /\ docs[Target[r]] = "absent"
          /\ Go(r, "new", "notfound")
          /\ UNCHANGED audit
       \/ /\ docs[Target[r]] # "absent"
          /\ User[Target[r]] # User[r]
          /\ Go(r, "new", "denied")
          /\ Audit("auth.unauthorized", r)
       \/ /\ docs[Target[r]] # "absent"
          /\ User[Target[r]] = User[r]
          /\ \E place \in next : Go(r, "new", place)
          /\ UNCHANGED audit
    /\ UNCHANGED <<storeVars, objects, vectors, askVars, crashes>>

\* indexDocumentVectors for batch b of document d, and whether it returned an
\* error: embedding can fail before anything is written, the upsert can fail
\* before or after Qdrant applied it.  Without vector search it does nothing.
IndexVectors(d, b, failed) ==
    IF VectorSearch
    THEN \/ vectors' = [vectors EXCEPT ![d] = @ \cup {b}]
         \/ failed /\ UNCHANGED vectors
    ELSE ~failed /\ UNCHANGED vectors

\* vectorIndexer.DeleteDocument with its error only logged.
UnindexVectors(d) ==
    \/ VectorSearch /\ vectors' = [vectors EXCEPT ![d] = {}]
    \/ UNCHANGED vectors

-----------------------------------------------------------------------------
(* UploadDocument.                                                         *)

\* Mutant: an error of PutObject is only logged.
UploadPutUnchecked(u) ==
    /\ Go(u, "new", "stored")
    /\ objects' \in {objects, objects \cup {u}}
    /\ UNCHANGED <<storeVars, vectors, audit, askVars, crashes>>

\* PutObject; on an error the object may be there all the same.
UploadPut(u) ==
    /\ \/ /\ Go(u, "new", "stored")
          /\ objects' = objects \cup {u}
       \/ /\ Go(u, "new", "internal")
          /\ objects' \in {objects, objects \cup {u}}
    /\ UNCHANGED <<storeVars, vectors, audit, askVars, crashes>>

\* The record appears, "indexing".  When the save fails the handler gives up
\* and leaves the record in memory.
UploadRegister(u) ==
    /\ PutRecord(u, "indexing")
    /\ \/ Saved /\ Go(u, "stored", "registered")
       \/ SaveFailed /\ Go(u, "stored", "internal")
    /\ UNCHANGED <<objects, vectors, audit, askVars, crashes>>

\* Mutant: an extraction error returns without marking the record.
UploadExtractUnmarked(u) ==
    /\ \E outcome \in {"extracted", "rejected"} : Go(u, "registered", outcome)
    /\ UNCHANGED <<storeVars, objects, vectors, audit, askVars, crashes>>

\* The Python service extracts the text, or fails.
UploadExtract(u) ==
    /\ \E outcome \in {"extracted", "unparsed"} : Go(u, "registered", outcome)
    /\ UNCHANGED <<storeVars, objects, vectors, audit, askVars, crashes>>

\* Chunk, embed and write the vectors.
UploadIndex(u) ==
    /\ \/ IndexVectors(u, u, FALSE) /\ Go(u, "extracted", "indexed")
       \/ IndexVectors(u, u, TRUE) /\ Go(u, "extracted", "unindexed")
    /\ UNCHANGED <<storeVars, objects, audit, askVars, crashes>>

\* Mutant: a status outside the lifecycle.
UploadFailOtherStatus(u) ==
    /\ PutRecord(u, "error")
    /\ Saved \/ SaveFailed
    /\ Go(u, "unparsed", "rejected") \/ Go(u, "unindexed", "failed")
    /\ UNCHANGED <<objects, vectors, audit, askVars, crashes>>

\* Either failure marks the record "failed", ignoring the save's own error,
\* and keeps whatever chunk list is stored.
UploadFail(u) ==
    /\ PutRecord(u, "failed")
    /\ Saved \/ SaveFailed
    /\ \/ Go(u, "unparsed", "rejected")
       \/ Go(u, "unindexed", "failed")
    /\ UNCHANGED <<objects, vectors, audit, askVars, crashes>>

\* Mutant: the error of the last save is ignored.
UploadPublishUnsaved(u) ==
    /\ PutRecordAndChunks(u, "ready", u)
    /\ Saved \/ SaveFailed
    /\ Go(u, "indexed", "ok")
    /\ UNCHANGED <<objects, vectors, audit, askVars, crashes>>

\* The record becomes "ready" together with its chunks.  Nothing checks that
\* the document still exists.
UploadPublish(u) ==
    /\ PutRecordAndChunks(u, "ready", u)
    /\ \/ Saved /\ Go(u, "indexed", "ok")
       \/ SaveFailed /\ Go(u, "indexed", "internal")
    /\ UNCHANGED <<objects, vectors, audit, askVars, crashes>>

UploadProceeds(u) ==
    UploadRegister(u) \/ UploadExtract(u) \/ UploadIndex(u)
    \/ UploadFail(u) \/ UploadPublish(u)

-----------------------------------------------------------------------------
(* DeleteDocument.                                                         *)

DeleteLookup(x) == Lookup(x, {"owned"})

\* Mutant: an error of DeleteObject is only logged.
DeleteObjectUnchecked(x) ==
    /\ Go(x, "owned", "unstored")
    /\ objects' \in {objects, objects \ {Target[x]}}
    /\ UNCHANGED <<storeVars, vectors, audit, askVars, crashes>>

\* The file goes first, and an error here stops the deletion.
DeleteObject(x) ==
    /\ \/ /\ Go(x, "owned", "unstored")
          /\ objects' = objects \ {Target[x]}
       \/ /\ Go(x, "owned", "internal")
          /\ objects' \in {objects, objects \ {Target[x]}}
    /\ UNCHANGED <<storeVars, vectors, audit, askVars, crashes>>

DeleteVectors(x) ==
    /\ UnindexVectors(Target[x])
    /\ Go(x, "unstored", "unlinked")
    /\ UNCHANGED <<storeVars, objects, audit, askVars, crashes>>

\* Mutant: the error of the save is ignored.
DeleteRecordUnsaved(x) ==
    /\ DropRecord(Target[x])
    /\ Saved \/ SaveFailed
    /\ Go(x, "unlinked", "removed")
    /\ UNCHANGED <<objects, vectors, audit, askVars, crashes>>

\* The record and its chunk list go; a failing save is reported.
DeleteRecord(x) ==
    /\ DropRecord(Target[x])
    /\ \/ Saved /\ Go(x, "unlinked", "removed")
       \/ SaveFailed /\ Go(x, "unlinked", "internal")
    /\ UNCHANGED <<objects, vectors, audit, askVars, crashes>>

DeleteAudit(x) ==
    /\ Audit("document.delete", x)
    /\ Go(x, "removed", "ok")
    /\ UNCHANGED <<storeVars, objects, vectors, askVars, crashes>>

DeleteProceeds(x) ==
    DeleteObject(x) \/ DeleteVectors(x) \/ DeleteRecord(x) \/ DeleteAudit(x)

-----------------------------------------------------------------------------
(* GetDocument answers from the record; DownloadDocument goes on to MinIO. *)

ReadLookup(r) == Lookup(r, {"ok", "opening"})

\* "missing" is the Internal error of a file that is not there.
ReadObject(r) ==
    /\ \/ Target[r] \in objects /\ Go(r, "opening", "ok")
       \/ Target[r] \notin objects /\ Go(r, "opening", "missing")
       \/ Go(r, "opening", "internal")
    /\ UNCHANGED <<storeVars, objects, vectors, audit, askVars, crashes>>

-----------------------------------------------------------------------------
(* A question.                                                             *)

\* Mutant: the listing is not restricted to the asking user.
OwnedByAnyone(q) == {d \in Uploads : docs[d] # "absent"}

\* ListDocumentsByOwner: any status counts.
Owned(q) == {d \in Uploads : docs[d] # "absent" /\ User[d] = User[q]}

\* ResolveScope and resolveSelectedDocs pick documents of that list, then
\* decideRetrieval may skip retrieval: an empty scope stands for both.
AskSelect(q) ==
    /\ \E selected \in SUBSET Owned(q) :
          /\ scope' = [scope EXCEPT ![q] = selected]
          /\ todo' = [todo EXCEPT ![q] = selected]
          /\ Go(q, "new", IF selected = {} THEN "ok" ELSE "scanning")
    /\ UNCHANGED <<storeVars, objects, vectors, audit, at, chunkMap, cited,
                   crashes>>

\* retrieveForScope looks at one more document, in no fixed order: its chunk
\* list is used as it is, or is to be repaired when there is none or when it
\* is a PDF's and unreadable.
AskInspect(q, d) ==
    /\ d \in todo[q]
    /\ todo' = [todo EXCEPT ![q] = @ \ {d}]
    /\ chunkMap' = [chunkMap EXCEPT ![q][d] = chunks[d]]
    /\ \/ /\ chunks[d] # NoChunks /\ d \notin Garbled
          /\ Go(q, "scanning", "scanning")
          /\ UNCHANGED at
       \/ /\ chunks[d] = NoChunks \/ d \in Garbled
          /\ Go(q, "scanning", "repairing")
          /\ at' = [at EXCEPT ![q] = {d}]
    /\ UNCHANGED <<storeVars, objects, vectors, audit, scope, cited, crashes>>

\* GetObject and ExtractDocumentText; an error of either gives the repair up.
RepairParse(q, d) ==
    /\ d \in at[q]
    /\ \/ /\ d \in objects
          /\ Go(q, "repairing", "parsed")
          /\ UNCHANGED at
       \/ /\ Go(q, "repairing", "scanning")
          /\ at' = [at EXCEPT ![q] = {}]
    /\ UNCHANGED <<storeVars, objects, vectors, audit, scope, todo, chunkMap,
                   cited, crashes>>

RepairUnindex(q, d) ==
    /\ d \in at[q]
    /\ UnindexVectors(d)
    /\ Go(q, "parsed", "cleared")
    /\ UNCHANGED <<storeVars, objects, audit, askVars, crashes>>

\* A failure to index the rebuilt chunks is only logged.
RepairIndex(q, d) ==
    /\ d \in at[q]
    /\ \E failed \in BOOLEAN : IndexVectors(d, q, failed)
    /\ Go(q, "cleared", "reindexed")
    /\ UNCHANGED <<storeVars, objects, audit, askVars, crashes>>

\* The copy of the record listed at the start is written back as "ready".
RepairPublish(q, d) ==
    /\ d \in at[q]
    /\ PutRecordAndChunks(d, "ready", q)
    /\ \/ Saved /\ chunkMap' = [chunkMap EXCEPT ![q][d] = q]
       \/ SaveFailed /\ UNCHANGED chunkMap
    /\ Go(q, "reindexed", "scanning")
    /\ at' = [at EXCEPT ![q] = {}]
    /\ UNCHANGED <<objects, vectors, audit, scope, todo, cited, crashes>>

\* What SearchChunks returns (the owner filter of the Qdrant query) of the
\* documents in scope.
Hits(q) == {c \in Uploads \X Batches :
               User[c[1]] = User[q] /\ c[1] \in scope[q] /\ c[2] \in vectors[c[1]]}

\* The chunks RetrieveTopChunks ranks.
Lexical(q) == {c \in scope[q] \X Batches : chunkMap[q][c[1]] = c[2]}

\* retrieveChunks: the best in-scope hits of the vector search, or the
\* lexically best chunks when the search fails or finds nothing in scope.
AskSearch(q) ==
    /\ todo[q] = {}
    /\ \E best \in (IF VectorSearch THEN SUBSET Hits(q) \ {{}} ELSE {})
                    \cup SUBSET Lexical(q) :
          cited' = [cited EXCEPT ![q] = best]
    /\ chunkMap' = [chunkMap EXCEPT ![q] = EmptyMap]
    /\ Go(q, "scanning", "ok")
    /\ UNCHANGED <<storeVars, objects, vectors, audit, scope, todo, at, crashes>>

AskProceeds(q) ==
    \/ \E d \in Uploads :
          \/ AskInspect(q, d) \/ RepairParse(q, d) \/ RepairUnindex(q, d)
          \/ RepairIndex(q, d) \/ RepairPublish(q, d)
    \/ AskSearch(q)

-----------------------------------------------------------------------------
\* The process dies: memory and every handler go, MinIO, Qdrant, state.json
\* and audit.log stay.  The next process loads state.json.
Crash ==
    /\ crashes < MaxCrashes
    /\ crashes' = crashes + 1
    /\ Reload
    /\ pc' = [r \in Requests |->
                 IF pc[r] \notin InFlight THEN pc[r]
                 ELSE IF pc[r] \in {"owned", "opening"} THEN "dropped"
                 ELSE "lost"]
    /\ todo' = [q \in Asks |-> {}]
    /\ at' = [q \in Asks |-> {}]
    /\ chunkMap' = [q \in Asks |-> EmptyMap]
    /\ UNCHANGED <<objects, vectors, audit, scope, cited>>

\* Every request has been served; the server waits.
Idle ==
    /\ \A r \in Requests : pc[r] \in Ended
    /\ UNCHANGED vars

Next ==
    \/ \E r \in Requests : Refuse(r)
    \/ \E u \in Uploads : UploadPut(u) \/ UploadProceeds(u)
    \/ \E x \in Deletes : DeleteLookup(x) \/ DeleteProceeds(x)
    \/ \E r \in Reads : ReadLookup(r) \/ ReadObject(r)
    \/ \E q \in Asks : AskSelect(q) \/ AskProceeds(q)
    \/ Crash
    \/ Idle

Spec == Init /\ [][Next]_vars

\* An upload, a deletion or a download that was started goes on: it is a
\* goroutine that waits only for calls under the gateway's deadline, and for
\* a mutex held across one file write.  Nobody has to send a request, and
\* questions are left out: a streamed one runs without any deadline.
FairSpec ==
    /\ Spec
    /\ \A u \in Uploads : WF_vars(UploadProceeds(u))
    /\ \A x \in Deletes : WF_vars(DeleteProceeds(x))
    /\ \A r \in Reads : WF_vars(ReadObject(r))

-----------------------------------------------------------------------------
(* Properties.                                                             *)

\* An owner's deletion of d has called DeleteObject.
DeletionBegun(d) ==
    \E x \in Deletes :
        /\ Target[x] = d
        /\ User[x] = User[d]
        /\ pc[x] \in {"unstored", "unlinked", "removed", "ok", "internal", "lost"}

\* A handler holds a copy of d's record that it may still write back.
Held(d) ==
    \/ pc[d] \in UploadSteps
    \/ \E q \in Asks : d \in todo[q] \cup at[q]

\* Whatever interleaving of uploads, repairs and deletions led here, in memory
\* and in state.json alike a "ready" document has its chunk list, and no
\* chunk list is left behind without a record (UpsertDocument and
\* DeleteDocument touch both maps in one critical section).
ReadyMeansChunked ==
    \A d \in Uploads :
        /\ docs[d] = "ready" => chunks[d] # NoChunks
        /\ chunks[d] # NoChunks => docs[d] # "absent"
        /\ diskDocs[d] = "ready" => diskChunks[d] # NoChunks
        /\ diskChunks[d] # NoChunks => diskDocs[d] # "absent"

\* An upload answered with success survives everything but its owner's
\* deletion: memory and state.json list it as "ready" and its file is stored,
\* across concurrent repairs, other requests' failed saves and restarts.
AckedUploadKept ==
    \A d \in Uploads :
        pc[d] = "ok" /\ ~DeletionBegun(d) =>
            /\ docs[d] = "ready"
            /\ diskDocs[d] = "ready"
            /\ d \in objects

\* A document that a user can see, now or after a restart, has lost its file
\* only if its owner's deletion removed it: another user's deletion, a failing
\* upload or save, a repair and a restart leave no record without a file.  So
\* a download that finds the file missing means that a deletion has begun.
FileLostOnlyByOwner ==
    \A d \in Uploads :
        /\ docs[d] # "absent" \/ diskDocs[d] # "absent" =>
               d \in objects \/ DeletionBegun(d)
        /\ \A r \in Reads :
               Target[r] = d /\ pc[r] = "missing" => DeletionBegun(d)

\* The deletion is in the audit trail only if it is true: the actor owned the
\* document and the file is gone, although a save, the vector deletion or the
\* process may have failed on the way and an upload may still be running.
AuditedDeletionIsReal ==
    \A u \in {User[x] : x \in Deletes}, d \in Uploads :
        <<"document.delete", u, d>> \in audit => u = User[d] /\ d \notin objects

\* Every chunk an answer may cite was cut from a document of the asking user
\* that was in the scope of the question, by the upload or by a repair that
\* the same user's question made, even when the index is stale.
CitationsInScope ==
    \A q \in Asks : \A c \in cited[q] :
        /\ c[1] \in scope[q]
        /\ User[c[1]] = User[q]
        /\ c[2] = c[1] \/ (c[2] \in Asks /\ User[c[2]] = User[q])

\* The record of d is gone, a deletion said so, none failed half way, and no
\* handler holds an old copy.
Gone(d) ==
    /\ docs[d] = "absent"
    /\ \E x \in Deletes : Target[x] = d /\ pc[x] = "ok"
    /\ \A x \in Deletes : Target[x] = d => pc[x] # "internal"
    /\ ~Held(d)

\* A deletion that nothing raced with is final: no later question, upload,
\* failed save or restart brings the document back.
DeletionIsFinal ==
    [][\A d \in Uploads : Gone(d) => docs'[d] = "absent"]_vars

\* The service implements its promise: what it owes for d is read off the
\* answers it has given and the deletions it has begun.
PromiseFor(d) ==
    IF \E x \in Deletes : Target[x] = d /\ pc[x] = "ok" THEN "erased"
    ELSE IF DeletionBegun(d) THEN "withdrawn"
    ELSE IF pc[d] = "ok" THEN "kept"
    ELSE "none"

Promise == INSTANCE DocumentPromise WITH
    Document <- Uploads,
    promise <- [d \in Uploads |-> PromiseFor(d)],
    file <- objects,
    listed <- {d \in Uploads : diskDocs[d] = "ready"}

KeepsPromise == Promise!Spec

\* While the process lives, every upload leaves "indexing", on every error
\* path but one: extraction, embedding, vector writes and the later saves may
\* all fail, but when the first save of the record fails the handler answers
\* "internal" at once and nothing it does changes the record that stays in
\* memory.
IndexingEnds ==
    \A d \in Uploads :
        (docs[d] = "indexing" /\ pc[d] # "internal") ~> (docs[d] # "indexing")

\* The documented lifecycle, indexing -> ready or failed: no document shows
\* "indexing" for ever.
IndexingResolved ==
    \A d \in Uploads : (docs[d] = "indexing") ~> (docs[d] # "indexing")

\* What the product specification says of a deletion: the document's metadata
\* is removed.
DeletedStaysDeleted ==
    \A x \in Deletes : pc[x] = "ok" => docs[Target[x]] = "absent"

=============================================================================
