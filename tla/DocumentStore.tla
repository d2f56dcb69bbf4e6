---------------------------- MODULE DocumentStore ----------------------------
(***************************************************************************)
(* The document half of core-go-rpc's state store (internal/store): one    *)
(* process-wide map of document records and one of chunk lists, guarded by *)
(* a mutex and mirrored in state.json.  Every mutator changes the memory   *)
(* maps first and then rewrites the whole file through a temporary file    *)
(* and a rename; when that fails the caller gets an error and the memory   *)
(* keeps the change, so a later save of anything writes it after all.      *)
(*                                                                         *)
(* A record is abstracted to its status: the owner, name and storage path  *)
(* never change, and ChunkCount is 0 in every "indexing" or "failed"       *)
(* record and len(chunks) in every "ready" one.  A chunk list is           *)
(* abstracted to the request that cut it (an upload, or a question that    *)
(* repairs), which stands for the fresh chunk ids of that request; NoChunks *)
(* is the absent list.  ChunkText never yields an empty list here, because *)
(* ExtractDocumentText turns blank text into an error.                     *)
(***************************************************************************)
EXTENDS Naturals

CONSTANTS
    Uploads,          \* UploadDocument requests, and so document ids
    Asks,             \* questions, which may cut a document's chunks anew
    NoChunks,         \* no chunk list stored
    MaxSaveFailures   \* bound: how many times writing state.json may fail

Batches == Uploads \cup Asks

ASSUME NoChunksIsNoBatch == NoChunks \notin Batches
ASSUME SaveFailureBound == MaxSaveFailures \in Nat

VARIABLES
    docs,          \* memory: document id -> status, "absent" without a record
    chunks,        \* memory: document id -> stored chunk list
    diskDocs,      \* state.json's documents
    diskChunks,    \* state.json's chunks
    saveFailures   \* failed writes so far

storeVars == <<docs, chunks, diskDocs, diskChunks, saveFailures>>

Statuses == {"absent", "indexing", "ready", "failed"}

StoreTypeOK ==
    /\ docs \in [Uploads -> Statuses]
    /\ diskDocs \in [Uploads -> Statuses]
    /\ chunks \in [Uploads -> Batches \cup {NoChunks}]
    /\ diskChunks \in [Uploads -> Batches \cup {NoChunks}]
    /\ saveFailures \in 0 .. MaxSaveFailures

\* A first start: no state.json, so load() writes the default state.
StoreInit ==
    /\ docs = [d \in Uploads |-> "absent"]
    /\ chunks = [d \in Uploads |-> NoChunks]
    /\ diskDocs = docs
    /\ diskChunks = chunks
    /\ saveFailures = 0

\* saveLocked returns nil: state.json is exactly the memory.
Saved ==
    /\ diskDocs' = docs'
    /\ diskChunks' = chunks'
    /\ UNCHANGED saveFailures

\* saveLocked returns an error: the old state.json survives.
SaveFailed ==
    /\ saveFailures < MaxSaveFailures
    /\ saveFailures' = saveFailures + 1
    /\ UNCHANGED <<diskDocs, diskChunks>>

\* The memory effect of UpsertDocument(doc, nil): the chunk list is kept.
PutRecord(d, status) ==
    /\ docs' = [docs EXCEPT ![d] = status]
    /\ UNCHANGED chunks

\* The memory effect of UpsertDocument(doc, chunks).
PutRecordAndChunks(d, status, batch) ==
    /\ docs' = [docs EXCEPT ![d] = status]
    /\ chunks' = [chunks EXCEPT ![d] = batch]

\* Mutant: DeleteDocument forgets the chunk list.
DropRecordKeepChunks(d) ==
    /\ docs' = [docs EXCEPT ![d] = "absent"]
    /\ UNCHANGED chunks

\* The memory effect of DeleteDocument: record and chunk list go together.
DropRecord(d) ==
    /\ docs' = [docs EXCEPT ![d] = "absent"]
    /\ chunks' = [chunks EXCEPT ![d] = NoChunks]

\* A new process loads state.json; what was never saved is gone.
Reload ==
    /\ docs' = diskDocs
    /\ chunks' = diskChunks
    /\ UNCHANGED <<diskDocs, diskChunks, saveFailures>>

=============================================================================
