------------------------ MODULE DocumentServiceProofs ------------------------
(***************************************************************************)
(* Theorems about DocumentService, for any number of uploads, deletions,   *)
(* reads, questions, users, failing saves and restarts.                    *)
(***************************************************************************)
EXTENDS DocumentService, TLAPS

-----------------------------------------------------------------------------
(* Typing, part by part.                                                   *)

\* A request moves only among the places of its kind.
LEMMA PlacesStep ==
    ASSUME PlacesOK, NEW r \in Requests, NEW from, NEW to, Go(r, from, to),
           to \in InFlight \cup Ended,
           r \in Uploads => to \in UploadSteps \cup Ended,
           r \in Deletes => to \in DeleteSteps \cup Ended,
           r \in Reads => to \in {"opening"} \cup Ended,
           r \in Asks => to \in AskSteps \cup Ended
    PROVE  PlacesOK'
BY DEF PlacesOK, Go, Requests

\* A save, whether it succeeds or fails, keeps the store well typed.
LEMMA SaveStep ==
    ASSUME StoreTypeOK, Saved \/ SaveFailed,
           docs' \in [Uploads -> Statuses],
           chunks' \in [Uploads -> Batches \cup {NoChunks}]
    PROVE  StoreTypeOK'
BY SaveFailureBound DEF StoreTypeOK, Saved, SaveFailed

\* The types of the store last while it does not change.
LEMMA StoreStutter ==
    ASSUME StoreTypeOK, UNCHANGED storeVars
    PROVE  StoreTypeOK'
BY DEF StoreTypeOK, storeVars

\* The types of the questions last while they do not change.
LEMMA AsksStutter ==
    ASSUME AsksOK, UNCHANGED askVars
    PROVE  AsksOK'
BY DEF AsksOK, askVars

\* The vector index stays well typed under both of its operations.
LEMMA VectorsStep ==
    ASSUME ServicesOK, NEW d \in Uploads, NEW b \in Batches, NEW failed,
           IndexVectors(d, b, failed) \/ UnindexVectors(d)
    PROVE  vectors' \in [Uploads -> SUBSET Batches]
BY DEF ServicesOK, IndexVectors, UnindexVectors

\* The start has the types.
LEMMA InitType == Init => TypeOK
<1> SUFFICES ASSUME Init PROVE TypeOK
  OBVIOUS
<1>1. StoreTypeOK
  BY SaveFailureBound DEF Init, StoreInit, StoreTypeOK, Statuses
<1>2. ServicesOK
  BY CrashBound DEF Init, ServicesOK
<1>3. PlacesOK
  BY DEF Init, PlacesOK, Requests
<1>4. AsksOK
  BY DEF Init, AsksOK, EmptyMap
<1> QED
  BY <1>1, <1>2, <1>3, <1>4 DEF TypeOK

\* Refusing a request keeps the types.
LEMMA RefuseType ==
    ASSUME TypeOK, NEW r \in Requests, Refuse(r)
    PROVE  TypeOK'
<1>1. PlacesOK'
  BY PlacesStep DEF TypeOK, Refuse, Ended, Answers
<1> QED
  BY <1>1, StoreStutter, AsksStutter DEF TypeOK, Refuse, ServicesOK

\* Looking up a document, for a deletion or a download, keeps the types.
LEMMA LookupType ==
    ASSUME TypeOK, NEW r \in Deletes \cup Reads, NEW next, Lookup(r, next),
           r \in Deletes => next \subseteq DeleteSteps,
           r \in Reads => next \subseteq {"ok", "opening"}
    PROVE  TypeOK'
<1>1. PlacesOK'
  <2>1. PICK to \in {"notfound", "denied"} \cup next : Go(r, "new", to)
    BY DEF Lookup
  <2>2. r \in Requests /\ r \notin Uploads \cup Asks
    BY RequestKinds DEF Requests
  <2> QED
    BY <2>1, <2>2, PlacesStep, RequestKinds
    DEF TypeOK, InFlight, Ended, Answers, DeleteSteps
<1>2. audit' \subseteq audit \cup
        ({"auth.unauthorized"} \X {User[x] : x \in Deletes \cup Reads} \X Uploads)
  BY Targets DEF Lookup, Audit
<1> QED
  BY <1>1, <1>2, StoreStutter, AsksStutter DEF TypeOK, Lookup, ServicesOK

\* The steps of an upload keep the types.
LEMMA UploadType ==
    ASSUME TypeOK, NEW u \in Uploads, UploadPut(u) \/ UploadProceeds(u)
    PROVE  TypeOK'
<1> USE DEF TypeOK
<1>1. u \in Requests /\ u \notin Deletes \cup Reads \cup Asks /\ u \in Batches
  BY RequestKinds DEF Requests, Batches
<1>2. PlacesOK'
  <2>1. PICK from \in {"new"} \cup UploadSteps, to \in UploadSteps \cup Answers :
           Go(u, from, to)
    BY DEF UploadPut, UploadProceeds, UploadRegister, UploadExtract, UploadIndex,
           UploadFail, UploadPublish, UploadSteps, Answers
  <2> QED
    BY <2>1, <1>1, PlacesStep DEF InFlight, Ended
<1>3. StoreTypeOK'
  <2>1. CASE UNCHANGED storeVars
    BY <2>1, StoreStutter
  <2>2. CASE \/ PutRecord(u, "indexing")
             \/ PutRecord(u, "failed")
             \/ PutRecordAndChunks(u, "ready", u)
    <3>1. docs' \in [Uploads -> Statuses]
      BY <2>2 DEF PutRecord, PutRecordAndChunks, StoreTypeOK, Statuses
    <3>2. chunks' \in [Uploads -> Batches \cup {NoChunks}]
      BY <2>2, <1>1 DEF PutRecord, PutRecordAndChunks, StoreTypeOK
    <3>3. (Saved \/ SaveFailed) \/ UNCHANGED storeVars
      BY DEF UploadPut, UploadProceeds, UploadRegister, UploadExtract,
             UploadIndex, UploadFail, UploadPublish
    <3> QED
      BY <3>1, <3>2, <3>3, SaveStep, <2>1
  <2> QED
    BY <2>1, <2>2 DEF UploadPut, UploadProceeds, UploadRegister, UploadExtract,
                      UploadIndex, UploadFail, UploadPublish
<1>4. ServicesOK'
  <2>1. CASE UploadIndex(u)
    BY <2>1, <1>1, VectorsStep DEF UploadIndex, ServicesOK
  <2>2. CASE UploadPut(u)
    BY <2>2 DEF UploadPut, ServicesOK
  <2>3. CASE \/ UploadRegister(u) \/ UploadExtract(u) \/ UploadFail(u)
             \/ UploadPublish(u)
    BY <2>3 DEF UploadRegister, UploadExtract, UploadFail, UploadPublish, ServicesOK
  <2> QED
    BY <2>1, <2>2, <2>3 DEF UploadProceeds
<1>5. AsksOK'
  BY AsksStutter DEF UploadPut, UploadProceeds, UploadRegister, UploadExtract,
                     UploadIndex, UploadFail, UploadPublish
<1> QED
  BY <1>2, <1>3, <1>4, <1>5

\* The steps of a deletion keep the types.
LEMMA DeleteType ==
    ASSUME TypeOK, NEW x \in Deletes, DeleteProceeds(x)
    PROVE  TypeOK'
<1> USE DEF TypeOK
<1>1. x \in Requests /\ x \notin Uploads \cup Reads \cup Asks /\ Target[x] \in Uploads
  BY RequestKinds, Targets DEF Requests
<1>2. PlacesOK'
  <2>1. PICK from \in DeleteSteps, to \in DeleteSteps \cup Answers : Go(x, from, to)
    BY DEF DeleteProceeds, DeleteObject, DeleteVectors, DeleteRecord, DeleteAudit,
           DeleteSteps, Answers
  <2> QED
    BY <2>1, <1>1, PlacesStep DEF InFlight, Ended
<1>3. StoreTypeOK'
  <2>1. CASE DeleteRecord(x)
    <3>1. /\ docs' \in [Uploads -> Statuses]
          /\ chunks' \in [Uploads -> Batches \cup {NoChunks}]
      BY <2>1 DEF DeleteRecord, DropRecord, StoreTypeOK, Statuses
    <3> QED
      BY <2>1, <3>1, SaveStep DEF DeleteRecord
  <2>2. CASE DeleteObject(x) \/ DeleteVectors(x) \/ DeleteAudit(x)
    BY <2>2, StoreStutter DEF DeleteObject, DeleteVectors, DeleteAudit
  <2> QED
    BY <2>1, <2>2 DEF DeleteProceeds
<1>4. ServicesOK'
  <2>1. CASE DeleteVectors(x)
    <3>1. vectors' \in [Uploads -> SUBSET Batches]
      BY <2>1, <1>1, VectorsStep DEF DeleteVectors, Batches
    <3> QED
      BY <2>1, <3>1 DEF DeleteVectors, ServicesOK
  <2>2. CASE DeleteAudit(x)
    <3>1. audit' \subseteq audit \cup
            ({"document.delete"} \X {User[r] : r \in Deletes \cup Reads} \X Uploads)
      BY <2>2, <1>1 DEF DeleteAudit, Audit
    <3> QED
      BY <2>2, <3>1 DEF DeleteAudit, ServicesOK
  <2>3. CASE DeleteObject(x) \/ DeleteRecord(x)
    BY <2>3 DEF DeleteObject, DeleteRecord, ServicesOK
  <2> QED
    BY <2>1, <2>2, <2>3 DEF DeleteProceeds
<1>5. AsksOK'
  BY AsksStutter DEF DeleteProceeds, DeleteObject, DeleteVectors, DeleteRecord,
                     DeleteAudit
<1> QED
  BY <1>2, <1>3, <1>4, <1>5

\* Reading an object keeps the types.
LEMMA ReadType ==
    ASSUME TypeOK, NEW r \in Reads, ReadObject(r)
    PROVE  TypeOK'
<1>1. r \in Requests /\ r \notin Uploads \cup Deletes \cup Asks
  BY RequestKinds DEF Requests
<1>2. PICK to \in {"ok", "missing", "internal"} : Go(r, "opening", to)
  BY DEF ReadObject
<1>3. PlacesOK'
  BY <1>1, <1>2, PlacesStep DEF TypeOK, Ended, Answers
<1> QED
  BY <1>3, StoreStutter, AsksStutter DEF TypeOK, ReadObject, ServicesOK

\* The steps of a question, and of the repairs it makes, keep the types.
LEMMA AskType ==
    ASSUME TypeOK, NEW q \in Asks, AskSelect(q) \/ AskProceeds(q)
    PROVE  TypeOK'
<1> USE DEF TypeOK
<1>1. q \in Requests /\ q \notin Uploads \cup Deletes \cup Reads /\ q \in Batches
  BY RequestKinds DEF Requests, Batches
<1>2. PlacesOK'
  <2>1. PICK from \in {"new"} \cup AskSteps, to \in AskSteps \cup {"ok"} :
           Go(q, from, to)
    BY DEF AskSelect, AskProceeds, AskInspect, RepairParse, RepairUnindex,
           RepairIndex, RepairPublish, AskSearch, AskSteps
  <2> QED
    BY <2>1, <1>1, PlacesStep DEF InFlight, Ended, Answers
<1>3. ASSUME AskSelect(q) PROVE TypeOK'
  <2>1. AsksOK'
    BY <1>3 DEF AskSelect, AsksOK, Owned
  <2> QED
    BY <1>2, <1>3, <2>1, StoreStutter DEF AskSelect, ServicesOK
<1>4. ASSUME NEW d \in Uploads, AskInspect(q, d) PROVE TypeOK'
  <2>1. AsksOK'
    <3>1. /\ todo' \in [Asks -> SUBSET Uploads]
          /\ at' \in [Asks -> SUBSET Uploads]
      BY <1>4 DEF AskInspect, AsksOK
    <3>2. chunkMap' \in [Asks -> [Uploads -> Batches \cup {NoChunks}]]
      <4>1. chunks[d] \in Batches \cup {NoChunks}
        BY DEF StoreTypeOK
      <4> QED
        BY <1>4, <4>1 DEF AskInspect, AsksOK
    <3> QED
      BY <1>4, <3>1, <3>2 DEF AskInspect, AsksOK
  <2> QED
    BY <1>2, <1>4, <2>1, StoreStutter DEF AskInspect, ServicesOK
<1>5. ASSUME NEW d \in Uploads, RepairParse(q, d) PROVE TypeOK'
  <2>1. AsksOK'
    BY <1>5 DEF RepairParse, AsksOK
  <2> QED
    BY <1>2, <1>5, <2>1, StoreStutter DEF RepairParse, ServicesOK
<1>6. ASSUME NEW d \in Uploads, RepairUnindex(q, d) PROVE TypeOK'
  BY <1>1, <1>2, <1>6, StoreStutter, AsksStutter, VectorsStep
  DEF RepairUnindex, ServicesOK
<1>7. ASSUME NEW d \in Uploads, RepairIndex(q, d) PROVE TypeOK'
  BY <1>1, <1>2, <1>7, StoreStutter, AsksStutter, VectorsStep
  DEF RepairIndex, ServicesOK
<1>8. ASSUME NEW d \in Uploads, RepairPublish(q, d) PROVE TypeOK'
  <2>1. StoreTypeOK'
    <3>1. /\ docs' \in [Uploads -> Statuses]
          /\ chunks' \in [Uploads -> Batches \cup {NoChunks}]
      BY <1>1, <1>8 DEF RepairPublish, PutRecordAndChunks, StoreTypeOK, Statuses
    <3> QED
      BY <1>8, <3>1, SaveStep DEF RepairPublish
  <2>2. AsksOK'
    <3>1. chunkMap' \in [Asks -> [Uploads -> Batches \cup {NoChunks}]]
      BY <1>1, <1>8 DEF RepairPublish, AsksOK
    <3> QED
      BY <1>8, <3>1 DEF RepairPublish, AsksOK
  <2> QED
    BY <1>2, <1>8, <2>1, <2>2 DEF RepairPublish, ServicesOK
<1>9. ASSUME AskSearch(q) PROVE TypeOK'
  <2>1. AsksOK'
    <3>1. PICK best \in (SUBSET Hits(q)) \cup (SUBSET Lexical(q)) :
             cited' = [cited EXCEPT ![q] = best]
      BY <1>9 DEF AskSearch
    <3>2. best \subseteq Uploads \X Batches
      BY DEF Hits, Lexical, AsksOK
    <3>3. chunkMap' \in [Asks -> [Uploads -> Batches \cup {NoChunks}]]
      BY <1>9 DEF AskSearch, AsksOK, EmptyMap
    <3> QED
      BY <1>9, <3>1, <3>2, <3>3 DEF AskSearch, AsksOK
  <2> QED
    BY <1>2, <1>9, <2>1, StoreStutter DEF AskSearch, ServicesOK
<1> QED
  BY <1>3, <1>4, <1>5, <1>6, <1>7, <1>8, <1>9 DEF AskProceeds

\* A crash, which reloads the file, keeps the types.
LEMMA CrashType ==
    ASSUME TypeOK, Crash
    PROVE  TypeOK'
<1> USE DEF TypeOK
<1>1. StoreTypeOK'
  BY DEF Crash, Reload, StoreTypeOK
<1>2. ServicesOK'
  BY CrashBound DEF Crash, ServicesOK
<1>3. PlacesOK'
  <2>1. \A r \in Requests : pc'[r] \in {pc[r], "dropped", "lost"}
    BY DEF Crash
  <2> QED
    BY <2>1 DEF Crash, PlacesOK, Requests, Ended
<1>4. AsksOK'
  BY DEF Crash, AsksOK, EmptyMap
<1> QED
  BY <1>1, <1>2, <1>3, <1>4

\* Every step keeps the types.
LEMMA NextType ==
    ASSUME TypeOK, [Next]_vars
    PROVE  TypeOK'
<1>1. CASE UNCHANGED vars
  BY <1>1, StoreStutter, AsksStutter DEF vars, TypeOK, ServicesOK, PlacesOK
<1>2. ASSUME NEW x \in Deletes, DeleteLookup(x) PROVE TypeOK'
  BY <1>2, LookupType, RequestKinds DEF DeleteLookup, DeleteSteps
<1>3. ASSUME NEW r \in Reads, ReadLookup(r) PROVE TypeOK'
  BY <1>3, LookupType, RequestKinds DEF ReadLookup
<1> QED
  BY <1>1, <1>2, <1>3, RefuseType, UploadType, DeleteType, ReadType, AskType,
     CrashType DEF Next, Idle

\* Every variable keeps its type: in particular every request stays among the
\* places of its own kind and every status among those of the lifecycle.
THEOREM TypeCorrect == Spec => []TypeOK
BY InitType, NextType, PTL DEF Spec

-----------------------------------------------------------------------------
(* The inductive invariant.                                                *)

\* Only its owner's deletion of a document gets past getOwnedDocument.
DeletersOwn ==
    \A x \in Deletes :
        pc[x] \in DeleteSteps \cup {"ok", "internal", "lost"} =>
            User[x] = User[Target[x]]

\* Nobody knows a document whose upload has not stored its file.
UploadStarted ==
    \A d \in Uploads :
        \/ docs[d] # "absent"
        \/ diskDocs[d] # "absent"
        \/ \E q \in Asks : d \in todo[q] \cup at[q]
        \/ \E x \in Deletes : Target[x] = d /\ pc[x] \in DeleteSteps \cup {"ok"}
        => pc[d] # "new"

\* Where a document can still be reached from.
Reachable(d) ==
    \/ docs[d] # "absent"
    \/ diskDocs[d] # "absent"
    \/ pc[d] \in UploadSteps
    \/ \E q \in Asks : d \in todo[q] \cup at[q]
    \/ \E r \in Reads : Target[r] = d /\ pc[r] = "opening"

FileKept ==
    \A d \in Uploads : Reachable(d) => d \in objects \/ DeletionBegun(d)

MissingMeansDeleted ==
    \A r \in Reads : pc[r] = "missing" => DeletionBegun(Target[r])

\* DeleteObject's effect lasts: no other step stores that file again.
FileErased ==
    \A x \in Deletes :
        pc[x] \in {"unstored", "unlinked", "removed", "ok"} =>
            Target[x] \notin objects

AckedListed ==
    \A d \in Uploads :
        pc[d] = "ok" /\ ~DeletionBegun(d) =>
            docs[d] = "ready" /\ diskDocs[d] = "ready"

\* Only a document whose file was once stored is ever deleted.
AuditedWereStored ==
    \A e \in audit : e[1] = "document.delete" => pc[e[3]] # "new"

\* A record that is only in state.json is one whose deletion could not be
\* saved, and that deletion answered with an error.
UnsavedDeletionReported ==
    \A d \in Uploads :
        docs[d] = "absent" /\ diskDocs[d] # "absent" =>
            \E x \in Deletes : Target[x] = d /\ pc[x] = "internal"

IInv ==
    /\ TypeOK
    /\ DeletersOwn
    /\ UploadStarted
    /\ FileKept
    /\ MissingMeansDeleted
    /\ FileErased
    /\ AckedListed
    /\ UnsavedDeletionReported
    /\ AuditedWereStored
    /\ AuditedDeletionIsReal

-----------------------------------------------------------------------------
(* What a step does to the store, and to what the invariant looks at.      *)

\* One handler's change of the memory maps.
Rewritten(d) ==
    \/ PutRecord(d, "indexing")
    \/ PutRecord(d, "failed")
    \/ \E b \in Batches : PutRecordAndChunks(d, "ready", b)
    \/ DropRecord(d)

\* Every step leaves the store alone, reloads it, or changes one document in
\* memory and tries to save.
LEMMA StoreMoves ==
    ASSUME [Next]_vars
    PROVE  \/ UNCHANGED storeVars
           \/ Reload
           \/ (Saved \/ SaveFailed) /\ \E d \in Uploads : Rewritten(d)
<1> USE DEF Rewritten
<1>1. ASSUME NEW r \in Requests, Refuse(r) PROVE UNCHANGED storeVars
  BY <1>1 DEF Refuse
<1>2. ASSUME NEW u \in Uploads, UploadPut(u) \/ UploadExtract(u) \/ UploadIndex(u)
      PROVE  UNCHANGED storeVars
  BY <1>2 DEF UploadPut, UploadExtract, UploadIndex
<1>3. ASSUME NEW u \in Uploads, UploadRegister(u) \/ UploadFail(u) \/ UploadPublish(u)
      PROVE  (Saved \/ SaveFailed) /\ Rewritten(u)
  BY <1>3 DEF UploadRegister, UploadFail, UploadPublish, Batches
<1>4. ASSUME NEW x \in Deletes,
             DeleteLookup(x) \/ DeleteObject(x) \/ DeleteVectors(x) \/ DeleteAudit(x)
      PROVE  UNCHANGED storeVars
  BY <1>4 DEF DeleteLookup, Lookup, DeleteObject, DeleteVectors, DeleteAudit
<1>5. ASSUME NEW x \in Deletes, DeleteRecord(x)
      PROVE  (Saved \/ SaveFailed) /\ Rewritten(Target[x])
  BY <1>5 DEF DeleteRecord
<1>6. ASSUME NEW r \in Reads, ReadLookup(r) \/ ReadObject(r) PROVE UNCHANGED storeVars
  BY <1>6 DEF ReadLookup, Lookup, ReadObject
<1>7. ASSUME NEW q \in Asks, AskSelect(q) \/ AskSearch(q) PROVE UNCHANGED storeVars
  BY <1>7 DEF AskSelect, AskSearch
<1>8. ASSUME NEW q \in Asks, NEW d \in Uploads,
             \/ AskInspect(q, d) \/ RepairParse(q, d)
             \/ RepairUnindex(q, d) \/ RepairIndex(q, d)
      PROVE  UNCHANGED storeVars
  BY <1>8 DEF AskInspect, RepairParse, RepairUnindex, RepairIndex
<1>9. ASSUME NEW q \in Asks, NEW d \in Uploads, RepairPublish(q, d)
      PROVE  (Saved \/ SaveFailed) /\ Rewritten(d)
  BY <1>9 DEF RepairPublish, Batches
<1>10. Crash => Reload
  BY DEF Crash
<1>11. UNCHANGED vars => UNCHANGED storeVars
  BY DEF vars
<1>12. \A x \in Deletes : Target[x] \in Uploads
  BY Targets
<1> QED
  BY <1>1, <1>2, <1>3, <1>4, <1>5, <1>6, <1>7, <1>8, <1>9, <1>10, <1>11, <1>12
  DEF Next, Idle, UploadProceeds, DeleteProceeds, AskProceeds

\* Memory and state.json never hold a "ready" document without chunks, nor
\* chunks without a document, for every interleaving, crash and failed save.
THEOREM ReadyAlwaysChunked == Spec => []ReadyMeansChunked
<1>1. Init => ReadyMeansChunked
  <2> SUFFICES ASSUME Init, NEW d \in Uploads
               PROVE  /\ docs[d] = "absent" /\ diskDocs[d] = "absent"
                      /\ chunks[d] = NoChunks /\ diskChunks[d] = NoChunks
    BY DEF ReadyMeansChunked
  <2> QED
    BY DEF Init, StoreInit
<1>2. TypeOK /\ ReadyMeansChunked /\ [Next]_vars => ReadyMeansChunked'
  <2> SUFFICES ASSUME TypeOK, ReadyMeansChunked, [Next]_vars
               PROVE  ReadyMeansChunked'
    OBVIOUS
  <2>1. CASE UNCHANGED storeVars
    BY <2>1 DEF ReadyMeansChunked, storeVars
  <2>2. CASE Reload
    BY <2>2 DEF ReadyMeansChunked, Reload
  <2>3. ASSUME NEW d \in Uploads, Rewritten(d), Saved \/ SaveFailed
        PROVE  ReadyMeansChunked'
    <3>1. \A b \in Batches : b # NoChunks
      BY NoChunksIsNoBatch
    <3>2. \A c \in Uploads :
             /\ docs'[c] = "ready" => chunks'[c] # NoChunks
             /\ chunks'[c] # NoChunks => docs'[c] # "absent"
      BY <2>3, <3>1 DEF ReadyMeansChunked, Rewritten, PutRecord,
         PutRecordAndChunks, DropRecord, TypeOK, StoreTypeOK
    <3> QED
      BY <2>3, <3>2 DEF ReadyMeansChunked, Saved, SaveFailed
  <2> QED
    BY <2>1, <2>2, <2>3, StoreMoves
<1> QED
  BY <1>1, <1>2, TypeCorrect, PTL DEF Spec

\* Where a deletion is once it has called DeleteObject.
Begun == {"unstored", "unlinked", "removed", "ok", "internal", "lost"}

\* A request of another kind moves, or a deletion goes no way back: every
\* deletion that has begun stays so.
LEMMA DeletionStays ==
    ASSUME PlacesOK, NEW r \in Requests, NEW from, NEW to, Go(r, from, to),
           r \in Deletes => from \notin Begun \/ to \in Begun
    PROVE  \A d \in Uploads : DeletionBegun(d) => DeletionBegun(d)'
BY DEF DeletionBegun, Go, PlacesOK, Begun

\* The start has the inductive invariant.
LEMMA InitIInv == Init => IInv
<1> SUFFICES ASSUME Init PROVE IInv
  OBVIOUS
<1>1. TypeOK
  BY InitType
<1>2. /\ \A r \in Requests : pc[r] = "new"
      /\ \A d \in Uploads : docs[d] = "absent" /\ diskDocs[d] = "absent"
      /\ \A q \in Asks : todo[q] = {} /\ at[q] = {}
      /\ audit = {}
  BY DEF Init, StoreInit
<1>3. DeletersOwn /\ UploadStarted
  BY <1>2 DEF DeletersOwn, UploadStarted, DeleteSteps, Requests
<1>4. FileKept /\ MissingMeansDeleted
  BY <1>2 DEF FileKept, Reachable, MissingMeansDeleted, UploadSteps, Requests
<1>5. FileErased /\ AckedListed /\ UnsavedDeletionReported /\ AuditedDeletionIsReal
  BY <1>2 DEF FileErased, AckedListed, UnsavedDeletionReported,
              AuditedDeletionIsReal, Requests
<1>6. AuditedWereStored
  BY <1>2 DEF AuditedWereStored
<1> QED
  BY <1>1, <1>3, <1>4, <1>5, <1>6 DEF IInv

\* Refusing a request preserves the inductive invariant.
LEMMA RefuseIInv ==
    ASSUME IInv, NEW r \in Requests, Refuse(r)
    PROVE  IInv'
<1> USE DEF IInv
<1>1. TypeOK'
  BY RefuseType
<1>2. \A d \in Uploads : DeletionBegun(d) => DeletionBegun(d)'
  BY DeletionStays DEF Refuse, TypeOK, Begun
<1>3. /\ Go(r, "new", "invalid")
      /\ UNCHANGED <<docs, diskDocs, todo, at, objects, audit>>
  BY DEF Refuse, storeVars, askVars
<1>4. DeletersOwn' /\ UploadStarted'
  BY <1>3 DEF DeletersOwn, UploadStarted, DeleteSteps, TypeOK, PlacesOK, Go
<1>5. FileKept' /\ MissingMeansDeleted'
  BY <1>2, <1>3, Targets DEF FileKept, Reachable, MissingMeansDeleted,
     UploadSteps, TypeOK, PlacesOK, Go
<1>6. FileErased' /\ AckedListed' /\ UnsavedDeletionReported' /\ AuditedDeletionIsReal'
  BY <1>2, <1>3 DEF FileErased, AckedListed, UnsavedDeletionReported,
     AuditedDeletionIsReal, TypeOK, PlacesOK, Go
<1>7. AuditedWereStored'
  BY <1>3 DEF AuditedWereStored, TypeOK, PlacesOK, Go
<1> QED
  BY <1>1, <1>4, <1>5, <1>6, <1>7

\* getOwnedDocument lets only the owner through, and only to a document that
\* somebody has uploaded.
LEMMA LookupIInv ==
    ASSUME IInv, NEW r \in Deletes \cup Reads, NEW next, Lookup(r, next),
           r \in Deletes => next = {"owned"},
           r \in Reads => next = {"ok", "opening"}
    PROVE  IInv'
<1> USE DEF IInv
<1>1. TypeOK'
  BY LookupType DEF DeleteSteps
<1>2. PICK to : Go(r, "new", to) /\ to \in {"notfound", "denied"} \cup next
  BY DEF Lookup
<1>3. to \in next => docs[Target[r]] # "absent" /\ User[Target[r]] = User[r]
  <2>1. to \in {"notfound", "denied"} => to \notin next
    BY RequestKinds
  <2>2. pc[r] = "new" /\ pc'[r] = to
    BY <1>2 DEF Go, TypeOK, PlacesOK, Requests
  <2> QED
    BY <2>1, <2>2 DEF Lookup, Go, TypeOK, PlacesOK, Requests
<1>4. \A d \in Uploads : DeletionBegun(d) => DeletionBegun(d)'
  BY <1>2, DeletionStays DEF TypeOK, Begun, Requests
<1>5. /\ UNCHANGED <<docs, diskDocs, todo, at, objects>>
      /\ \A e \in audit' : e \in audit \/ e[1] = "auth.unauthorized"
  BY DEF Lookup, Audit, storeVars, askVars
<1>6. Target[r] \in Uploads /\ \A u \in Uploads : u # r
  BY Targets, RequestKinds
<1>7. DeletersOwn'
  BY <1>2, <1>3, RequestKinds DEF DeletersOwn, DeleteSteps, TypeOK, PlacesOK, Go
<1>8. UploadStarted'
  BY <1>2, <1>3, <1>5, <1>6, RequestKinds
  DEF UploadStarted, DeleteSteps, TypeOK, PlacesOK, Go
<1>9. FileKept'
  BY <1>2, <1>3, <1>4, <1>5, <1>6, RequestKinds
  DEF FileKept, Reachable, TypeOK, PlacesOK, Go
<1>10. MissingMeansDeleted'
  BY <1>2, <1>4, Targets, RequestKinds DEF MissingMeansDeleted, TypeOK, PlacesOK, Go
<1>11. FileErased' /\ AckedListed' /\ UnsavedDeletionReported'
  BY <1>2, <1>4, <1>5, <1>6, RequestKinds
  DEF FileErased, AckedListed, UnsavedDeletionReported, TypeOK, PlacesOK, Go
<1>12. AuditedDeletionIsReal'
  BY <1>5 DEF AuditedDeletionIsReal
<1>13. AuditedWereStored'
  BY <1>2, <1>5, <1>6 DEF AuditedWereStored, TypeOK, PlacesOK, Go
<1> QED
  BY <1>1, <1>7, <1>8, <1>9, <1>10, <1>11, <1>12, <1>13

\* The upload is the only request that stores the document's file, and it
\* does so before anybody can know the document.
LEMMA UploadPutIInv ==
    ASSUME IInv, NEW u \in Uploads, UploadPut(u)
    PROVE  IInv'
<1> USE DEF IInv
<1>1. TypeOK'
  BY UploadType
<1>2. PICK to \in {"stored", "internal"} : Go(u, "new", to)
  BY DEF UploadPut
<1>3. u \in Requests /\ u \notin Deletes \cup Reads \cup Asks
  BY RequestKinds DEF Requests
<1>4. \A d \in Uploads : DeletionBegun(d) => DeletionBegun(d)'
  BY <1>2, <1>3, DeletionStays DEF TypeOK
<1>5. /\ UNCHANGED <<docs, diskDocs, todo, at, audit>>
      /\ objects \subseteq objects' /\ objects' \subseteq objects \cup {u}
      /\ to = "stored" => u \in objects'
  BY <1>2, <1>3 DEF UploadPut, storeVars, askVars, Go, TypeOK, PlacesOK
<1>6. DeletersOwn' /\ UploadStarted'
  BY <1>2, <1>3, <1>5 DEF DeletersOwn, UploadStarted, TypeOK, PlacesOK, Go
<1>7. FileKept' /\ MissingMeansDeleted'
  BY <1>2, <1>3, <1>4, <1>5, Targets
  DEF FileKept, Reachable, MissingMeansDeleted, UploadSteps, TypeOK, PlacesOK, Go
<1>8. FileErased'
  BY <1>2, <1>3, <1>5 DEF FileErased, UploadStarted, DeleteSteps, TypeOK, PlacesOK, Go
<1>9. AckedListed' /\ UnsavedDeletionReported'
  BY <1>2, <1>3, <1>4, <1>5
  DEF AckedListed, UnsavedDeletionReported, TypeOK, PlacesOK, Go
<1>10. AuditedDeletionIsReal'
  BY <1>2, <1>3, <1>5 DEF AuditedDeletionIsReal, AuditedWereStored, TypeOK,
              PlacesOK, Go
<1>11. AuditedWereStored'
  BY <1>2, <1>3, <1>5 DEF AuditedWereStored, TypeOK, PlacesOK, Go
<1> QED
  BY <1>1, <1>6, <1>7, <1>8, <1>9, <1>10, <1>11

\* An upload goes on: its file was stored, and it only adds knowledge of the
\* document.  It answers "ok" with memory and state.json both "ready".
LEMMA UploadIInv ==
    ASSUME IInv, NEW u \in Uploads, UploadProceeds(u)
    PROVE  IInv'
<1> USE DEF IInv
<1>1. TypeOK'
  BY UploadType
<1>2. u \in Requests /\ u \notin Deletes \cup Reads \cup Asks
  BY RequestKinds DEF Requests
<1>3. PICK from \in UploadSteps,
           to \in UploadSteps \cup {"ok", "internal", "rejected", "failed"} :
         /\ Go(u, from, to)
         /\ to = "ok" => docs'[u] = "ready" /\ diskDocs'[u] = "ready"
  <2>1. UploadPublish(u) =>
          \/ Go(u, "indexed", "ok") /\ docs'[u] = "ready" /\ diskDocs'[u] = "ready"
          \/ Go(u, "indexed", "internal")
    BY DEF UploadPublish, PutRecordAndChunks, Saved, TypeOK, StoreTypeOK
  <2>2. UploadRegister(u) =>
          \E to \in {"registered", "internal"} : Go(u, "stored", to)
    BY DEF UploadRegister
  <2>3. UploadExtract(u) \/ UploadIndex(u) =>
          \E from \in {"registered", "extracted"} :
             \E to \in {"extracted", "unparsed", "unindexed", "indexed"} : Go(u, from, to)
    BY DEF UploadExtract, UploadIndex
  <2>4. UploadFail(u) =>
          Go(u, "unparsed", "rejected") \/ Go(u, "unindexed", "failed")
    BY DEF UploadFail
  <2> QED
    BY <2>1, <2>2, <2>3, <2>4 DEF UploadProceeds, UploadSteps
<1>4. \A d \in Uploads : DeletionBegun(d) => DeletionBegun(d)'
  BY <1>2, <1>3, DeletionStays DEF TypeOK
<1>5. /\ UNCHANGED <<todo, at, objects, audit>>
      /\ \A d \in Uploads \ {u} : docs'[d] = docs[d]
      /\ \/ diskDocs' = docs'
         \/ diskDocs' = diskDocs /\ (docs' = docs \/ docs'[u] # "absent")
  BY DEF UploadProceeds, UploadRegister, UploadExtract, UploadIndex, UploadFail,
         UploadPublish, PutRecord, PutRecordAndChunks, Saved, SaveFailed, storeVars,
         askVars, TypeOK, StoreTypeOK
<1>6. pc[u] \in UploadSteps /\ pc'[u] # "new"
  BY <1>2, <1>3 DEF Go, TypeOK, PlacesOK, UploadSteps
<1>7. DeletersOwn' /\ MissingMeansDeleted'
  BY <1>2, <1>3, <1>4, Targets
  DEF DeletersOwn, MissingMeansDeleted, TypeOK, PlacesOK, Go
<1>8. UploadStarted'
  BY <1>2, <1>3, <1>5, <1>6 DEF UploadStarted, TypeOK, PlacesOK, Go
<1>9. FileKept'
  BY <1>2, <1>3, <1>4, <1>5, <1>6 DEF FileKept, Reachable, TypeOK, PlacesOK, Go
<1>10. FileErased' /\ AuditedDeletionIsReal' /\ AuditedWereStored'
  BY <1>2, <1>3, <1>5, <1>6
  DEF FileErased, AuditedDeletionIsReal, AuditedWereStored, TypeOK, PlacesOK, Go
<1>11. AckedListed'
  BY <1>2, <1>3, <1>4, <1>5 DEF AckedListed, UploadSteps, TypeOK, PlacesOK, Go
<1>12. UnsavedDeletionReported'
  BY <1>2, <1>3, <1>5 DEF UnsavedDeletionReported, TypeOK, PlacesOK, Go
<1> QED
  BY <1>1, <1>7, <1>8, <1>9, <1>10, <1>11, <1>12

\* A deletion goes on: from DeleteObject on it has begun, and only that step
\* removes a file.
LEMMA DeleteIInv ==
    ASSUME IInv, NEW x \in Deletes, DeleteProceeds(x)
    PROVE  IInv'
<1> USE DEF IInv
<1>1. TypeOK'
  BY DeleteType
<1>2. /\ x \in Requests /\ x \notin Uploads \cup Reads \cup Asks
      /\ Target[x] \in Uploads
  BY RequestKinds, Targets DEF Requests
<1>3. PICK from \in DeleteSteps, to \in (DeleteSteps \ {"owned"}) \cup {"ok", "internal"} :
         /\ Go(x, from, to)
         /\ to # "internal" => Target[x] \notin objects'
         /\ from # "owned" => objects' = objects
         /\ to = "ok" => from = "removed"
         /\ to # "ok" => audit' = audit
         /\ diskDocs' = docs' \/ (diskDocs' = diskDocs /\ (docs' = docs \/ to = "internal"))
  <2>1. pc[x] \in {"unstored", "unlinked", "removed"} => Target[x] \notin objects
    BY DEF FileErased
  <2>2. CASE DeleteObject(x)
    <3>1. /\ UNCHANGED <<docs, diskDocs, audit>>
          /\ \/ Go(x, "owned", "unstored") /\ Target[x] \notin objects'
             \/ Go(x, "owned", "internal")
      BY <2>2 DEF DeleteObject, storeVars
    <3> QED
      BY <3>1 DEF DeleteSteps
  <2>3. CASE DeleteVectors(x)
    <3>1. UNCHANGED <<docs, diskDocs, audit, objects>> /\ Go(x, "unstored", "unlinked")
      BY <2>3 DEF DeleteVectors, storeVars
    <3> QED
      BY <2>1, <3>1 DEF DeleteSteps, Go
  <2>4. CASE DeleteRecord(x)
    <3>1. /\ UNCHANGED <<audit, objects>>
          /\ \/ Go(x, "unlinked", "removed") /\ diskDocs' = docs'
             \/ Go(x, "unlinked", "internal") /\ diskDocs' = diskDocs
      BY <2>4 DEF DeleteRecord, Saved, SaveFailed
    <3>2. Target[x] \notin objects'
      BY <2>1, <3>1 DEF Go
    <3>3. CASE Go(x, "unlinked", "removed") /\ diskDocs' = docs'
      BY <3>1, <3>2, <3>3 DEF DeleteSteps
    <3>4. CASE Go(x, "unlinked", "internal") /\ diskDocs' = diskDocs
      BY <3>1, <3>2, <3>4 DEF DeleteSteps
    <3> QED
      BY <3>1, <3>3, <3>4
  <2>5. CASE DeleteAudit(x)
    <3>1. UNCHANGED <<docs, diskDocs, objects>> /\ Go(x, "removed", "ok")
      BY <2>5 DEF DeleteAudit, storeVars
    <3> QED
      BY <2>1, <3>1 DEF DeleteSteps, Go
  <2> QED
    BY <2>2, <2>3, <2>4, <2>5 DEF DeleteProceeds
<1>4. User[x] = User[Target[x]]
  BY <1>3 DEF DeletersOwn, Go
<1>5. \A d \in Uploads : DeletionBegun(d) => DeletionBegun(d)'
  BY <1>2, <1>3, DeletionStays DEF TypeOK, Begun, DeleteSteps
<1>6. DeletionBegun(Target[x])'
  BY <1>2, <1>3, <1>4 DEF DeletionBegun, DeleteSteps, Go, TypeOK, PlacesOK
<1>7. /\ UNCHANGED <<todo, at>>
      /\ \A d \in Uploads \ {Target[x]} : docs'[d] = docs[d] /\ (d \in objects' <=> d \in objects)
      /\ objects' \subseteq objects
      /\ docs'[Target[x]] \in {docs[Target[x]], "absent"}
      /\ audit' \subseteq audit \cup {<<"document.delete", User[x], Target[x]>>}
  BY <1>2 DEF DeleteProceeds, DeleteObject, DeleteVectors, DeleteRecord, DeleteAudit,
     Audit, DropRecord, storeVars, askVars, TypeOK, StoreTypeOK, ServicesOK
<1>8. pc[Target[x]] # "new"
  BY <1>2, <1>3 DEF UploadStarted, Go
<1>9. DeletersOwn' /\ UploadStarted'
  BY <1>2, <1>3, <1>4, <1>7, <1>8 DEF DeletersOwn, UploadStarted, TypeOK, PlacesOK, Go
<1>10. FileKept' /\ MissingMeansDeleted'
  BY <1>2, <1>3, <1>5, <1>6, <1>7, Targets
  DEF FileKept, Reachable, MissingMeansDeleted, TypeOK, PlacesOK, Go
<1>11. FileErased'
  BY <1>2, <1>3, <1>7 DEF FileErased, TypeOK, PlacesOK, Go
<1>12. AckedListed'
  BY <1>2, <1>3, <1>5, <1>6, <1>7 DEF AckedListed, TypeOK, PlacesOK, Go
<1>13. UnsavedDeletionReported'
  BY <1>2, <1>3, <1>7 DEF UnsavedDeletionReported, DeleteSteps, TypeOK, PlacesOK, Go
<1>14. AuditedDeletionIsReal'
  BY <1>2, <1>3, <1>4, <1>7 DEF AuditedDeletionIsReal
<1>15. AuditedWereStored'
  <2>1. \A d \in Uploads : pc'[d] = pc[d]
    BY <1>2, <1>3 DEF Go, TypeOK, PlacesOK
  <2> SUFFICES ASSUME NEW e \in audit', e[1] = "document.delete"
               PROVE  pc'[e[3]] # "new"
    BY DEF AuditedWereStored
  <2>2. CASE e \in audit
    <3>1. e[3] \in Uploads
      BY <2>2 DEF TypeOK, ServicesOK
    <3> QED
      BY <2>1, <2>2, <3>1 DEF AuditedWereStored
  <2>3. CASE e = <<"document.delete", User[x], Target[x]>>
    BY <1>2, <1>8, <2>1, <2>3
  <2> QED
    BY <1>7, <2>2, <2>3
<1> QED
  BY <1>1, <1>9, <1>10, <1>11, <1>12, <1>13, <1>14, <1>15

\* A download finds the file missing only after a deletion has begun.
LEMMA ReadIInv ==
    ASSUME IInv, NEW r \in Reads, ReadObject(r)
    PROVE  IInv'
<1> USE DEF IInv
<1>1. TypeOK'
  BY ReadType
<1>2. /\ r \in Requests /\ r \notin Uploads \cup Deletes \cup Asks
      /\ Target[r] \in Uploads
  BY RequestKinds, Targets DEF Requests
<1>3. PICK to \in {"ok", "missing", "internal"} :
         Go(r, "opening", to) /\ (to = "missing" => Target[r] \notin objects)
  BY DEF ReadObject
<1>4. \A d \in Uploads : DeletionBegun(d) => DeletionBegun(d)'
  BY <1>2, <1>3, DeletionStays DEF TypeOK
<1>5. UNCHANGED <<docs, diskDocs, todo, at, objects, audit>>
  BY DEF ReadObject, storeVars, askVars
<1>6. to = "missing" => DeletionBegun(Target[r])
  BY <1>2, <1>3 DEF FileKept, Reachable, Go
<1>7. DeletersOwn' /\ UploadStarted'
  BY <1>2, <1>3, <1>5 DEF DeletersOwn, UploadStarted, TypeOK, PlacesOK, Go
<1>8. FileKept'
  BY <1>2, <1>3, <1>4, <1>5 DEF FileKept, Reachable, TypeOK, PlacesOK, Go
<1>9. MissingMeansDeleted'
  BY <1>2, <1>3, <1>4, <1>6, Targets DEF MissingMeansDeleted, TypeOK, PlacesOK, Go
<1>10. FileErased' /\ AckedListed' /\ UnsavedDeletionReported'
  BY <1>2, <1>3, <1>4, <1>5
  DEF FileErased, AckedListed, UnsavedDeletionReported, TypeOK, PlacesOK, Go
<1>11. AuditedDeletionIsReal'
  BY <1>5 DEF AuditedDeletionIsReal
<1>12. AuditedWereStored'
  BY <1>2, <1>3, <1>5 DEF AuditedWereStored, TypeOK, ServicesOK, PlacesOK, Go
<1> QED
  BY <1>1, <1>7, <1>8, <1>9, <1>10, <1>11, <1>12

\* A question only ever looks at documents that exist or existed when it
\* listed them, and writes nothing back but a "ready" record.
LEMMA AskIInv ==
    ASSUME IInv, NEW q \in Asks, AskSelect(q) \/ AskProceeds(q)
    PROVE  IInv'
<1> USE DEF IInv
<1>1. TypeOK'
  BY AskType
<1>2. q \in Requests /\ q \notin Uploads \cup Deletes \cup Reads
  BY RequestKinds DEF Requests
<1>3. PICK from, to : Go(q, from, to)
  BY DEF AskSelect, AskProceeds, AskInspect, RepairParse, RepairUnindex,
         RepairIndex, RepairPublish, AskSearch
<1>4. \A d \in Uploads : DeletionBegun(d) => DeletionBegun(d)'
  BY <1>2, <1>3, DeletionStays DEF TypeOK
<1>5. \A d \in Uploads :
         d \in todo'[q] \cup at'[q] => d \in todo[q] \cup at[q] \/ docs[d] # "absent"
  BY DEF AskSelect, Owned, AskProceeds, AskInspect, RepairParse, RepairUnindex,
         RepairIndex, RepairPublish, AskSearch, askVars, TypeOK, AsksOK
<1>6. /\ \A p \in Asks \ {q} : todo'[p] = todo[p] /\ at'[p] = at[p]
      /\ UNCHANGED <<objects, audit>>
  BY DEF AskSelect, AskProceeds, AskInspect, RepairParse, RepairUnindex,
         RepairIndex, RepairPublish, AskSearch, askVars, TypeOK, AsksOK
<1>7. \/ UNCHANGED <<docs, diskDocs>>
      \/ \E d \in Uploads :
            /\ d \in at[q]
            /\ docs' = [docs EXCEPT ![d] = "ready"]
            /\ diskDocs' \in {docs', diskDocs}
  BY DEF AskSelect, AskProceeds, AskInspect, RepairParse, RepairUnindex,
         RepairIndex, RepairPublish, AskSearch, PutRecordAndChunks, Saved,
         SaveFailed, storeVars
<1>8. \A d \in Uploads : docs'[d] # "absent" \/ diskDocs'[d] # "absent" =>
         docs[d] # "absent" \/ diskDocs[d] # "absent" \/ d \in at[q]
  BY <1>7 DEF TypeOK, StoreTypeOK
<1>9. DeletersOwn' /\ UploadStarted'
  BY <1>2, <1>3, <1>5, <1>6, <1>8
  DEF DeletersOwn, UploadStarted, TypeOK, PlacesOK, Go
<1>10. FileKept' /\ MissingMeansDeleted'
  BY <1>2, <1>3, <1>4, <1>5, <1>6, <1>8, Targets
  DEF FileKept, Reachable, MissingMeansDeleted, TypeOK, PlacesOK, Go
<1>11. FileErased'
  BY <1>2, <1>3, <1>6 DEF FileErased, TypeOK, PlacesOK, Go
<1>12. AckedListed'
  BY <1>2, <1>3, <1>4, <1>7 DEF AckedListed, TypeOK, StoreTypeOK, PlacesOK, Go
<1>13. UnsavedDeletionReported'
  BY <1>2, <1>3, <1>7 DEF UnsavedDeletionReported, TypeOK, StoreTypeOK, PlacesOK, Go
<1>14. AuditedDeletionIsReal'
  BY <1>6 DEF AuditedDeletionIsReal
<1>15. AuditedWereStored'
  BY <1>2, <1>3, <1>6 DEF AuditedWereStored, TypeOK, ServicesOK, PlacesOK, Go
<1> QED
  BY <1>1, <1>9, <1>10, <1>11, <1>12, <1>13, <1>14, <1>15

\* A restart forgets no deletion that has begun and brings back a record only
\* from state.json.
LEMMA CrashIInv ==
    ASSUME IInv, Crash
    PROVE  IInv'
<1> USE DEF IInv
<1>1. TypeOK'
  BY CrashType
<1>2. \A r \in Requests :
         /\ pc[r] \in Ended \cup {"new"} => pc'[r] = pc[r]
         /\ pc[r] \in InFlight => pc'[r] \in {"dropped", "lost"}
         /\ pc'[r] = "lost" => pc[r] \notin {"owned", "opening", "new"}
         /\ pc[r] \in InFlight \ {"owned", "opening"} => pc'[r] = "lost"
         /\ pc'[r] = "new" => pc[r] = "new"
  BY DEF Crash, InFlight, Ended, Answers, UploadSteps, DeleteSteps, AskSteps,
         TypeOK, PlacesOK
<1>3. /\ \A x \in Deletes : x \in Requests /\ Target[x] \in Uploads
      /\ \A r \in Reads : r \in Requests /\ Target[r] \in Uploads
      /\ \A u \in Uploads : u \in Requests
  BY Targets DEF Requests
<1>4. \A d \in Uploads : DeletionBegun(d) => DeletionBegun(d)'
  BY <1>2, <1>3 DEF DeletionBegun, InFlight, DeleteSteps, Ended, Answers
<1>5. /\ UNCHANGED <<objects, audit, diskDocs>>
      /\ docs' = diskDocs
      /\ \A q \in Asks : todo'[q] = {} /\ at'[q] = {}
  BY DEF Crash, Reload
<1>6. \A r \in Requests : pc'[r] \notin InFlight
  BY <1>2 DEF InFlight, UploadSteps, DeleteSteps, AskSteps, Ended, Answers,
     TypeOK, PlacesOK
<1>7. DeletersOwn'
  <2> SUFFICES ASSUME NEW x \in Deletes,
                      pc'[x] \in DeleteSteps \cup {"ok", "internal", "lost"}
               PROVE  User[x] = User[Target[x]]
    BY DEF DeletersOwn
  <2>1. pc[x] \in DeleteSteps \cup {"ok", "internal", "lost"}
    BY <1>2, <1>3, <1>6 DEF TypeOK, PlacesOK, InFlight, DeleteSteps, Ended, Answers
  <2> QED
    BY <2>1 DEF DeletersOwn
<1>8. UploadStarted'
  BY <1>2, <1>3, <1>5, <1>6
  DEF UploadStarted, TypeOK, PlacesOK, InFlight, DeleteSteps, Ended, Answers
<1>9. FileKept' /\ MissingMeansDeleted'
  BY <1>2, <1>3, <1>4, <1>5, <1>6
  DEF FileKept, Reachable, MissingMeansDeleted, InFlight, TypeOK, PlacesOK,
      Ended, Answers
<1>10. FileErased'
  BY <1>2, <1>3, <1>5, <1>6
  DEF FileErased, InFlight, DeleteSteps, TypeOK, PlacesOK, Ended, Answers
<1>11. AckedListed' /\ UnsavedDeletionReported'
  BY <1>2, <1>3, <1>4, <1>5, <1>6
  DEF AckedListed, UnsavedDeletionReported, InFlight, TypeOK, PlacesOK, Ended, Answers
<1>12. AuditedDeletionIsReal'
  BY <1>5 DEF AuditedDeletionIsReal
<1>13. AuditedWereStored'
  BY <1>2, <1>3, <1>5 DEF AuditedWereStored, TypeOK, ServicesOK
<1> QED
  BY <1>1, <1>7, <1>8, <1>9, <1>10, <1>11, <1>12, <1>13

\* Every step preserves the inductive invariant.
LEMMA IInvStep == IInv /\ [Next]_vars => IInv'
<1> SUFFICES ASSUME IInv, [Next]_vars PROVE IInv'
  OBVIOUS
<1>1. CASE UNCHANGED vars
  <2>1. UNCHANGED <<docs, diskDocs, pc, todo, at, objects, audit>>
    BY <1>1 DEF vars, storeVars, askVars
  <2>2. TypeOK'
    BY <1>1, StoreStutter, AsksStutter DEF IInv, vars, TypeOK, ServicesOK, PlacesOK
  <2>3. \A d \in Uploads : DeletionBegun(d)' <=> DeletionBegun(d)
    BY <2>1 DEF DeletionBegun
  <2> QED
    BY <2>1, <2>2, <2>3, Targets
    DEF IInv, DeletersOwn, UploadStarted, FileKept, Reachable, MissingMeansDeleted,
        FileErased, AckedListed, UnsavedDeletionReported, AuditedWereStored,
        AuditedDeletionIsReal
<1>2. ASSUME NEW x \in Deletes, DeleteLookup(x) PROVE IInv'
  BY <1>2, LookupIInv, RequestKinds DEF DeleteLookup
<1>3. ASSUME NEW r \in Reads, ReadLookup(r) PROVE IInv'
  BY <1>3, LookupIInv, RequestKinds DEF ReadLookup
<1> QED
  BY <1>1, <1>2, <1>3, RefuseIInv, UploadPutIInv, UploadIInv, DeleteIInv, ReadIInv,
     AskIInv, CrashIInv
  DEF Next, Idle

\* IInv is an invariant: the stages of uploads, deletions and repairs agree with
\* records, objects and vectors, through failures and crashes.
THEOREM Inductive == Spec => []IInv
BY InitIInv, IInvStep, PTL DEF Spec

-----------------------------------------------------------------------------
(* What follows from it.                                                   *)

\* An acknowledged upload is kept until its owner deletes it.
THEOREM AckedUploadIsKept == Spec => []AckedUploadKept
<1>1. IInv => AckedUploadKept
  <2> SUFFICES ASSUME IInv, NEW d \in Uploads, pc[d] = "ok", ~DeletionBegun(d)
               PROVE  docs[d] = "ready" /\ diskDocs[d] = "ready" /\ d \in objects
    BY DEF AckedUploadKept
  <2>1. docs[d] = "ready" /\ diskDocs[d] = "ready"
    BY DEF IInv, AckedListed
  <2>2. d \in objects
    BY <2>1 DEF IInv, FileKept, Reachable
  <2> QED
    BY <2>1, <2>2
<1> QED
  BY <1>1, Inductive, PTL

\* A record without a file, or a download that finds none, means that the
\* owner's deletion of the document has begun.
THEOREM FileLossIsDeletion == Spec => []FileLostOnlyByOwner
<1>1. IInv => FileLostOnlyByOwner
  BY DEF IInv, FileKept, Reachable, MissingMeansDeleted, FileLostOnlyByOwner
<1> QED
  BY <1>1, Inductive, PTL

\* A deletion in the audit trail is its owner's, and the file is gone.
THEOREM AuditIsTrue == Spec => []AuditedDeletionIsReal
<1>1. IInv => AuditedDeletionIsReal
  BY DEF IInv
<1> QED
  BY <1>1, Inductive, PTL

\* No step brings back a document whose deletion nothing raced with: an upload
\* past PutObject or a repair would hold a copy, and a restart would find the
\* record in state.json only after a deletion that answered with an error.
THEOREM FinalDeletion == Spec => DeletionIsFinal
<1>1. ASSUME IInv, [Next]_vars, NEW d \in Uploads, Gone(d)
      PROVE  docs'[d] = "absent"
  <2>1. /\ docs[d] = "absent" /\ diskDocs[d] = "absent"
        /\ pc[d] \notin UploadSteps
        /\ \A q \in Asks : d \notin at[q]
    BY <1>1 DEF Gone, Held, IInv, UnsavedDeletionReported
  <2>2. CASE UNCHANGED storeVars
    BY <2>1, <2>2 DEF storeVars
  <2>3. CASE Crash
    BY <2>1, <2>3 DEF Crash, Reload
  <2>4. ASSUME NEW u \in Uploads, UploadProceeds(u) PROVE docs'[d] = "absent"
    <3>1. u # d
      BY <2>1, <2>4 DEF UploadProceeds, UploadRegister, UploadExtract, UploadIndex,
         UploadFail, UploadPublish, Go, UploadSteps
    <3> QED
      BY <1>1, <2>1, <2>4, <3>1 DEF UploadProceeds, UploadRegister, UploadExtract,
         UploadIndex, UploadFail, UploadPublish, PutRecord, PutRecordAndChunks,
         storeVars, IInv, TypeOK, StoreTypeOK
  <2>5. ASSUME NEW x \in Deletes, DeleteRecord(x) PROVE docs'[d] = "absent"
    BY <1>1, <2>1, <2>5 DEF DeleteRecord, DropRecord, IInv, TypeOK, StoreTypeOK
  <2>6. ASSUME NEW q \in Asks, NEW c \in Uploads, RepairPublish(q, c)
        PROVE  docs'[d] = "absent"
    BY <1>1, <2>1, <2>6 DEF RepairPublish, PutRecordAndChunks, IInv, TypeOK, StoreTypeOK
  <2> QED
    BY <1>1, <2>2, <2>3, <2>4, <2>5, <2>6
    DEF Next, Idle, vars, Refuse, UploadPut, DeleteLookup, Lookup, DeleteProceeds,
        DeleteObject, DeleteVectors, DeleteAudit, ReadLookup, ReadObject, AskSelect,
        AskProceeds, AskInspect, RepairParse, RepairUnindex, RepairIndex, AskSearch
<1>2. IInv /\ [Next]_vars => [\A d \in Uploads : Gone(d) => docs'[d] = "absent"]_vars
  BY <1>1
<1> QED
  BY <1>2, Inductive, PTL DEF Spec, DeletionIsFinal

-----------------------------------------------------------------------------
(* The refinement of DocumentPromise.                                      *)

\* What a step owes for d changes as DocumentPromise allows.
Advances(d) ==
    \/ PromiseFor(d) = "none" /\ PromiseFor(d)' = "kept"
    \/ PromiseFor(d) \in {"none", "kept"} /\ PromiseFor(d)' = "withdrawn"
    \/ PromiseFor(d) = "withdrawn" /\ PromiseFor(d)' = "erased"

\* A step that only moves an upload.
LEMMA UploadOwes ==
    ASSUME TypeOK, NEW u \in Uploads, NEW from, NEW to, Go(u, from, to), from # "ok"
    PROVE  \A d \in Uploads :
              PromiseFor(d)' = PromiseFor(d) \/ (d = u /\ Advances(d))
<1>1. /\ pc' = [pc EXCEPT ![u] = to] /\ pc[u] # "ok" /\ u \in DOMAIN pc
      /\ \A x \in Deletes : pc'[x] = pc[x]
      /\ \A d \in Uploads \ {u} : pc'[d] = pc[d]
  BY RequestKinds DEF Go, TypeOK, PlacesOK, Requests
<1>2. \A d \in Uploads : DeletionBegun(d)' <=> DeletionBegun(d)
  BY <1>1 DEF DeletionBegun
<1> QED
  BY <1>1, <1>2 DEF PromiseFor, Advances

\* A step that only moves a deletion, in the order of DeleteDocument.
LEMMA DeleteOwes ==
    ASSUME TypeOK, NEW x \in Deletes, NEW from, NEW to, Go(x, from, to), from # "ok",
           to \in Begun => User[x] = User[Target[x]],
           from \in Begun => to \in Begun,
           to = "ok" => from \in Begun
    PROVE  \A d \in Uploads :
              PromiseFor(d)' = PromiseFor(d) \/ (d = Target[x] /\ Advances(d))
<1>1. /\ pc[x] = from /\ pc'[x] = to
      /\ \A y \in Deletes \ {x} : pc'[y] = pc[y]
      /\ \A d \in Uploads : pc'[d] = pc[d]
  BY RequestKinds DEF Go, TypeOK, PlacesOK, Requests
<1> DEFINE Erased(d) == \E y \in Deletes : Target[y] = d /\ pc[y] = "ok"
<1>2. ASSUME NEW d \in Uploads, d # Target[x]
      PROVE  (DeletionBegun(d)' <=> DeletionBegun(d)) /\ (Erased(d)' <=> Erased(d))
  BY <1>1, <1>2 DEF DeletionBegun
<1>3. /\ DeletionBegun(Target[x]) => DeletionBegun(Target[x])'
      /\ Erased(Target[x]) => Erased(Target[x])'
      /\ Erased(Target[x])' => Erased(Target[x]) \/ DeletionBegun(Target[x])
      /\ Erased(Target[x])' /\ ~Erased(Target[x]) => DeletionBegun(Target[x])'
  BY <1>1 DEF DeletionBegun, Begun
<1> QED
  BY <1>1, <1>2, <1>3 DEF PromiseFor, Advances

\* A step that moves neither.
LEMMA NothingOwed ==
    ASSUME \A x \in Deletes : /\ pc'[x] = "ok" <=> pc[x] = "ok"
                              /\ pc'[x] \in Begun <=> pc[x] \in Begun,
           \A d \in Uploads : pc'[d] = "ok" <=> pc[d] = "ok"
    PROVE  \A d \in Uploads : PromiseFor(d)' = PromiseFor(d)
<1>1. \A d \in Uploads : DeletionBegun(d)' <=> DeletionBegun(d)
  BY DEF DeletionBegun, Begun
<1> QED
  BY <1>1 DEF PromiseFor

\* Every step changes what is owed for at most one document.
LEMMA OwesStep ==
    ASSUME IInv, [Next]_vars
    PROVE  \/ \A d \in Uploads : PromiseFor(d)' = PromiseFor(d)
           \/ \E c \in Uploads :
                 /\ Advances(c)
                 /\ \A d \in Uploads \ {c} : PromiseFor(d)' = PromiseFor(d)
<1> USE DEF IInv
<1>1. ASSUME NEW u \in Uploads, Refuse(u) \/ UploadPut(u) \/ UploadProceeds(u)
      PROVE  \A d \in Uploads :
                PromiseFor(d)' = PromiseFor(d) \/ (d = u /\ Advances(d))
  <2>1. PICK from \in {"new"} \cup UploadSteps : \E to : Go(u, from, to)
    <3>1. Refuse(u) \/ UploadPut(u) => \E to : Go(u, "new", to)
      BY DEF Refuse, UploadPut
    <3>2. UploadProceeds(u) => \E from \in UploadSteps : \E to : Go(u, from, to)
      BY DEF UploadProceeds, UploadRegister, UploadExtract, UploadIndex, UploadFail,
         UploadPublish, UploadSteps
    <3> QED
      BY <1>1, <3>1, <3>2
  <2>2. PICK to : Go(u, from, to)
    BY <2>1
  <2> QED
    BY <2>2, UploadOwes DEF UploadSteps
<1>2. ASSUME NEW x \in Deletes, Refuse(x) \/ DeleteLookup(x) \/ DeleteProceeds(x)
      PROVE  \A d \in Uploads :
                PromiseFor(d)' = PromiseFor(d) \/ (d = Target[x] /\ Advances(d))
  <2>1. CASE Refuse(x) \/ DeleteLookup(x)
    <3>1. PICK to \in {"invalid", "notfound", "denied", "owned"} : Go(x, "new", to)
      BY <2>1 DEF Refuse, DeleteLookup, Lookup
    <3> QED
      BY <3>1, DeleteOwes DEF Begun
  <2>2. CASE DeleteProceeds(x)
    <3>1. PICK from \in DeleteSteps, to \in Begun :
             Go(x, from, to) /\ (to = "ok" => from = "removed")
      BY <2>2 DEF DeleteProceeds, DeleteObject, DeleteVectors, DeleteRecord,
         DeleteAudit, DeleteSteps, Begun
    <3>2. User[x] = User[Target[x]]
      BY <3>1 DEF DeletersOwn, Go
    <3> QED
      BY <3>1, <3>2, DeleteOwes DEF Begun, DeleteSteps
  <2> QED
    BY <1>2, <2>1, <2>2
<1>3. ASSUME NEW r \in Reads \cup Asks,
             Refuse(r) \/ ReadLookup(r) \/ ReadObject(r) \/ AskSelect(r) \/ AskProceeds(r)
      PROVE  \A d \in Uploads : PromiseFor(d)' = PromiseFor(d)
  <2>1. PICK from, to : Go(r, from, to)
    BY <1>3 DEF Refuse, ReadLookup, Lookup, ReadObject, AskSelect, AskProceeds,
       AskInspect, RepairParse, RepairUnindex, RepairIndex, RepairPublish, AskSearch
  <2>2. \A s \in Deletes \cup Uploads : pc'[s] = pc[s]
    BY <1>3, <2>1, RequestKinds DEF Go, TypeOK, PlacesOK, Requests
  <2> QED
    BY <2>2, NothingOwed
<1>4. ASSUME Crash PROVE \A d \in Uploads : PromiseFor(d)' = PromiseFor(d)
  <2>1. \A r \in Requests :
           pc'[r] = (IF pc[r] \notin InFlight THEN pc[r]
                     ELSE IF pc[r] \in {"owned", "opening"} THEN "dropped" ELSE "lost")
    BY <1>4 DEF Crash
  <2>2. \A x \in Deletes : x \in Requests /\ pc[x] \in {"new"} \cup DeleteSteps \cup Ended
    BY DEF TypeOK, PlacesOK, Requests
  <2>3. \A d \in Uploads : d \in Requests
    BY DEF Requests
  <2>4. \A x \in Deletes : /\ pc'[x] = "ok" <=> pc[x] = "ok"
                           /\ pc'[x] \in Begun <=> pc[x] \in Begun
    BY <2>1, <2>2 DEF InFlight, DeleteSteps, UploadSteps, AskSteps, Begun, Ended, Answers
  <2>5. \A d \in Uploads : pc'[d] = "ok" <=> pc[d] = "ok"
    BY <2>1, <2>3 DEF InFlight, DeleteSteps, UploadSteps, AskSteps
  <2> QED
    BY <2>4, <2>5, NothingOwed
<1>5. ASSUME UNCHANGED vars PROVE \A d \in Uploads : PromiseFor(d)' = PromiseFor(d)
  BY <1>5, NothingOwed DEF vars
<1>6. \A x \in Deletes : Target[x] \in Uploads
  BY Targets
<1> QED
  BY <1>1, <1>2, <1>3, <1>4, <1>5, <1>6 DEF Next, Idle, Requests

\* In every reachable state the service's debts are honoured.
LEMMA DebtsHonoured ==
    ASSUME IInv
    PROVE  \A d \in Uploads :
              /\ PromiseFor(d) = "kept" => d \in objects /\ diskDocs[d] = "ready"
              /\ PromiseFor(d) = "erased" => d \notin objects
<1> TAKE d \in Uploads
<1>1. PromiseFor(d) = "kept" => pc[d] = "ok" /\ ~DeletionBegun(d)
  BY DEF PromiseFor
<1>2. pc[d] = "ok" /\ ~DeletionBegun(d) => docs[d] = "ready" /\ diskDocs[d] = "ready"
  BY DEF IInv, AckedListed
<1>3. docs[d] = "ready" => d \in objects \/ DeletionBegun(d)
  BY DEF IInv, FileKept, Reachable
<1>4. PromiseFor(d) = "erased" => \E x \in Deletes : Target[x] = d /\ pc[x] = "ok"
  BY DEF PromiseFor
<1>5. PromiseFor(d) = "erased" => d \notin objects
  BY <1>4 DEF IInv, FileErased
<1> QED
  BY <1>1, <1>2, <1>3, <1>5

\* The service keeps the promise of DocumentPromise to every uploader.
THEOREM ServiceKeepsPromise == Spec => KeepsPromise
<1>1. Init => Promise!Init
  <2> SUFFICES ASSUME Init PROVE Promise!Init
    OBVIOUS
  <2>1. /\ \A r \in Requests : pc[r] = "new"
        /\ \A d \in Uploads : diskDocs[d] = "absent"
        /\ objects = {}
    BY DEF Init, StoreInit
  <2>2. \A d \in Uploads : PromiseFor(d) = "none"
    BY <2>1 DEF PromiseFor, DeletionBegun, Requests
  <2> QED
    BY <2>1, <2>2 DEF Promise!Init
<1>2. IInv /\ IInv' /\ [Next]_vars =>
        [Promise!Next]_<<[d \in Uploads |-> PromiseFor(d)], objects,
                         {d \in Uploads : diskDocs[d] = "ready"}>>
  <2> SUFFICES ASSUME IInv, IInv', [Next]_vars PROVE Promise!Next
    OBVIOUS
  <2>1. objects' \subseteq Uploads
    BY DEF IInv, TypeOK, ServicesOK
  <2>2. \A d \in Uploads :
           /\ PromiseFor(d)' = "kept" => d \in objects' /\ diskDocs'[d] = "ready"
           /\ PromiseFor(d)' = "erased" => d \notin objects'
    <3>1. IInv' => (\A d \in Uploads :
              /\ PromiseFor(d) = "kept" => d \in objects /\ diskDocs[d] = "ready"
              /\ PromiseFor(d) = "erased" => d \notin objects)'
      BY DebtsHonoured, PTL
    <3> QED
      BY <3>1
  <2>3. \/ UNCHANGED [d \in Uploads |-> PromiseFor(d)]
        \/ \E d \in Uploads :
              Promise!Acknowledge(d) \/ Promise!Withdraw(d) \/ Promise!Erase(d)
    <3>1. CASE \A d \in Uploads : PromiseFor(d)' = PromiseFor(d)
      BY <3>1
    <3>2. ASSUME NEW c \in Uploads, Advances(c),
                 \A d \in Uploads \ {c} : PromiseFor(d)' = PromiseFor(d)
          PROVE  Promise!Acknowledge(c) \/ Promise!Withdraw(c) \/ Promise!Erase(c)
      BY <3>2 DEF Advances, Promise!Acknowledge, Promise!Withdraw, Promise!Erase,
         Promise!Move
    <3> QED
      BY <3>1, <3>2, OwesStep
  <2> QED
    BY <2>1, <2>2, <2>3 DEF Promise!Next, Promise!Honoured
<1> QED
  BY <1>1, <1>2, Inductive, PTL DEF Spec, KeepsPromise, Promise!Spec

-----------------------------------------------------------------------------
(* What a question cites.                                                  *)

\* Who may have cut a chunk list of d: its upload, or a question of its owner.
CutBy(d) == {d} \cup {q \in Asks : User[q] = User[d]}

\* A question looks only at documents of its scope, which are its user's, and
\* at none before it has one.
ScopeOwned ==
    \A q \in Asks :
        /\ \A d \in scope[q] : User[d] = User[q]
        /\ todo[q] \cup at[q] \subseteq scope[q]
        /\ pc[q] = "new" => at[q] = {} /\ cited[q] = {}

\* Wherever chunks of d are kept, they were cut by one who may: in memory, in
\* state.json, in the index, and in the maps of the questions under way.
ChunksOwned ==
    \A d \in Uploads :
        /\ chunks[d] \in CutBy(d) \cup {NoChunks}
        /\ diskChunks[d] \in CutBy(d) \cup {NoChunks}
        /\ vectors[d] \subseteq CutBy(d)

MapsOwned ==
    \A q \in Asks, d \in Uploads : chunkMap[q][d] \in CutBy(d) \cup {NoChunks}

AsksOwned == ScopeOwned /\ MapsOwned /\ CitationsInScope

OwnedInv == TypeOK /\ ChunksOwned /\ AsksOwned

\* A step that cuts no chunks, except those of d, by one who may.
Cuts(d) ==
    /\ \A c \in Uploads \ {d} : chunks'[c] = chunks[c]
    /\ chunks'[d] \in CutBy(d) \cup {NoChunks, chunks[d]}
    /\ \A c \in Uploads : diskChunks'[c] \in {chunks'[c], diskChunks[c]}
    /\ \A c \in Uploads \ {d} : vectors'[c] = vectors[c]
    /\ vectors'[d] \subseteq vectors[d] \cup CutBy(d)

\* Chunks stay their owner's if a step only cuts them from an upload of his.
LEMMA CutsOwned ==
    ASSUME TypeOK, ChunksOwned, NEW d \in Uploads, Cuts(d)
    PROVE  ChunksOwned'
BY DEF Cuts, ChunksOwned

\* Indexing and clearing the vectors of a document does no more than that.
LEMMA IndexCuts ==
    ASSUME TypeOK, NEW d \in Uploads, NEW b \in CutBy(d), NEW failed,
           IndexVectors(d, b, failed) \/ UnindexVectors(d), UNCHANGED storeVars
    PROVE  Cuts(d)
<1>1. \/ vectors' = [vectors EXCEPT ![d] = @ \cup {b}]
      \/ vectors' = [vectors EXCEPT ![d] = {}]
      \/ vectors' = vectors
  BY DEF IndexVectors, UnindexVectors
<1>2. vectors \in [Uploads -> SUBSET Batches]
  BY DEF TypeOK, ServicesOK
<1>3. \A c \in Uploads \ {d} : vectors'[c] = vectors[c]
  BY <1>1, <1>2
<1>4. vectors'[d] \subseteq vectors[d] \cup CutBy(d)
  BY <1>1, <1>2
<1> QED BY <1>3, <1>4 DEF Cuts, storeVars

\* Storing and dropping records and chunks does no more than that.
LEMMA StoreCuts ==
    ASSUME TypeOK, NEW d \in Uploads, NEW b \in CutBy(d), NEW status,
           PutRecord(d, status) \/ PutRecordAndChunks(d, status, b) \/ DropRecord(d),
           Saved \/ SaveFailed, UNCHANGED vectors
    PROVE  Cuts(d)
<1>1. chunks \in [Uploads -> Batches \cup {NoChunks}]
  BY DEF TypeOK, StoreTypeOK
<1>2. chunks' \in {chunks, [chunks EXCEPT ![d] = b], [chunks EXCEPT ![d] = NoChunks]}
  BY DEF PutRecord, PutRecordAndChunks, DropRecord
<1>3. diskChunks' \in {chunks', diskChunks}
  BY DEF Saved, SaveFailed
<1>4. /\ \A c \in Uploads \ {d} : chunks'[c] = chunks[c]
      /\ chunks'[d] \in CutBy(d) \cup {NoChunks, chunks[d]}
  BY <1>1, <1>2
<1> QED BY <1>3, <1>4 DEF Cuts

\* Chunks that do not change stay their owner's.
LEMMA SameChunksOwned ==
    ASSUME ChunksOwned, UNCHANGED <<chunks, diskChunks, vectors>>
    PROVE  ChunksOwned'
BY DEF ChunksOwned

\* No request is ever new again.
LEMMA NewBefore ==
    ASSUME TypeOK, [Next]_vars, NEW r \in Requests, pc'[r] = "new"
    PROVE  pc[r] = "new"
<1>1. ASSUME NEW x, NEW from, NEW to \in InFlight \cup Ended, Go(x, from, to)
      PROVE  pc[r] = "new"
  <2>1. to # "new"
    BY DEF InFlight, Ended, Answers, UploadSteps, DeleteSteps, AskSteps
  <2> QED BY <1>1, <2>1 DEF Go, TypeOK, PlacesOK
<1>2. CASE Crash
  BY <1>2 DEF Crash
<1>3. CASE UNCHANGED vars
  BY <1>3 DEF vars
<1>4. ASSUME NEW x \in Requests, Refuse(x) PROVE pc[r] = "new"
  BY <1>1, <1>4 DEF Refuse, Ended, Answers
<1>5. ASSUME NEW u \in Uploads, UploadPut(u) \/ UploadProceeds(u) PROVE pc[r] = "new"
  <2>1. CASE UploadPut(u)
    BY <1>1, <2>1 DEF UploadPut, InFlight, UploadSteps, Ended, Answers
  <2>2. CASE UploadRegister(u)
    BY <1>1, <2>2 DEF UploadRegister, InFlight, UploadSteps, Ended, Answers
  <2>3. CASE UploadExtract(u)
    BY <1>1, <2>3 DEF UploadExtract, InFlight, UploadSteps
  <2>4. CASE UploadIndex(u)
    BY <1>1, <2>4 DEF UploadIndex, InFlight, UploadSteps
  <2>5. CASE UploadFail(u)
    BY <1>1, <2>5 DEF UploadFail, Ended, Answers
  <2>6. CASE UploadPublish(u)
    BY <1>1, <2>6 DEF UploadPublish, Ended, Answers
  <2> QED BY <1>5, <2>1, <2>2, <2>3, <2>4, <2>5, <2>6 DEF UploadProceeds
<1>6. ASSUME NEW x \in Deletes \cup Reads, NEW next \in SUBSET (InFlight \cup Ended), Lookup(x, next)
      PROVE  pc[r] = "new"
  <2>1. PICK to \in {"notfound", "denied"} \cup next : Go(x, "new", to)
    BY <1>6 DEF Lookup
  <2>2. to \in InFlight \cup Ended
    BY <2>1 DEF Ended, Answers
  <2> QED BY <1>1, <2>1, <2>2
<1>7. ASSUME NEW x \in Deletes, DeleteLookup(x) PROVE pc[r] = "new"
  <2>1. {"owned"} \in SUBSET (InFlight \cup Ended)
    BY DEF InFlight, DeleteSteps
  <2> QED BY <1>6, <1>7, <2>1 DEF DeleteLookup
<1>8. ASSUME NEW x \in Deletes, DeleteProceeds(x) PROVE pc[r] = "new"
  <2>1. PICK from, to \in DeleteSteps \cup Answers : Go(x, from, to)
    BY <1>8 DEF DeleteProceeds, DeleteObject, DeleteVectors, DeleteRecord, DeleteAudit,
                DeleteSteps, Answers
  <2> QED BY <1>1, <2>1 DEF InFlight, Ended
<1>9. ASSUME NEW x \in Reads, ReadLookup(x) \/ ReadObject(x) PROVE pc[r] = "new"
  <2>1. {"ok", "opening"} \in SUBSET (InFlight \cup Ended)
    BY DEF InFlight, Ended, Answers
  <2>2. CASE ReadLookup(x)
    BY <1>6, <2>1, <2>2 DEF ReadLookup
  <2>3. CASE ReadObject(x)
    BY <1>1, <2>3 DEF ReadObject, Ended, Answers
  <2> QED BY <1>9, <2>2, <2>3
<1>10. ASSUME NEW q \in Asks, AskSelect(q) \/ AskProceeds(q) PROVE pc[r] = "new"
  <2>1. CASE AskSelect(q)
    <3>1. PICK to \in {"ok", "scanning"} : Go(q, "new", to)
      BY <2>1 DEF AskSelect
    <3> QED BY <1>1, <3>1 DEF InFlight, AskSteps, Ended, Answers
  <2>2. CASE AskSearch(q)
    BY <1>1, <2>2 DEF AskSearch, Ended, Answers
  <2>3. ASSUME NEW d \in Uploads, AskInspect(q, d) \/ RepairParse(q, d) PROVE pc[r] = "new"
    BY <1>1, <2>3 DEF AskInspect, RepairParse, InFlight, AskSteps
  <2>4. ASSUME NEW d \in Uploads,
               RepairUnindex(q, d) \/ RepairIndex(q, d) \/ RepairPublish(q, d)
        PROVE  pc[r] = "new"
    BY <1>1, <2>4 DEF RepairUnindex, RepairIndex, RepairPublish, InFlight, AskSteps
  <2> QED BY <1>10, <2>1, <2>2, <2>3, <2>4 DEF AskProceeds
<1> QED BY <1>2, <1>3, <1>4, <1>5, <1>7, <1>8, <1>9, <1>10 DEF Next, Idle

\* What a question found stays in its scope while the question waits.
LEMMA SameAsksOwned ==
    ASSUME TypeOK, AsksOwned, [Next]_vars, UNCHANGED askVars
    PROVE  AsksOwned'
<1>1. \A q \in Asks : pc'[q] = "new" => pc[q] = "new"
  BY NewBefore DEF Requests
<1> QED BY <1>1 DEF AsksOwned, ScopeOwned, MapsOwned, CitationsInScope, askVars

\* An upload makes chunks of its user only.
LEMMA UploadOwned ==
    ASSUME TypeOK, ChunksOwned, NEW u \in Uploads, UploadPut(u) \/ UploadProceeds(u)
    PROVE  ChunksOwned' /\ UNCHANGED askVars
<1>1. u \in CutBy(u) /\ UNCHANGED askVars
  BY DEF CutBy, UploadPut, UploadProceeds, UploadRegister, UploadExtract, UploadIndex,
     UploadFail, UploadPublish
<1>2. CASE UploadPut(u) \/ UploadExtract(u)
  BY <1>1, <1>2, SameChunksOwned DEF UploadPut, UploadExtract, storeVars
<1>3. CASE UploadRegister(u) \/ UploadFail(u) \/ UploadPublish(u)
  <2>1. /\ \E status : PutRecord(u, status) \/ PutRecordAndChunks(u, status, u)
        /\ Saved \/ SaveFailed
        /\ UNCHANGED vectors
    BY <1>3 DEF UploadRegister, UploadFail, UploadPublish
  <2> QED BY <1>1, <2>1, StoreCuts, CutsOwned
<1>4. CASE UploadIndex(u)
  <2>1. /\ \E failed \in BOOLEAN : IndexVectors(u, u, failed)
        /\ UNCHANGED storeVars
    BY <1>4 DEF UploadIndex
  <2> QED BY <1>1, <2>1, IndexCuts, CutsOwned
<1> QED BY <1>1, <1>2, <1>3, <1>4 DEF UploadProceeds

\* A deletion makes no chunk of somebody else.
LEMMA DeleteOwned ==
    ASSUME TypeOK, ChunksOwned, NEW x \in Deletes, DeleteProceeds(x)
    PROVE  ChunksOwned' /\ UNCHANGED askVars
<1> DEFINE d == Target[x]
<1>1. d \in Uploads /\ d \in CutBy(d) /\ UNCHANGED askVars
  BY Targets DEF CutBy, DeleteProceeds, DeleteObject, DeleteVectors, DeleteRecord, DeleteAudit
<1>2. CASE DeleteObject(x) \/ DeleteAudit(x)
  BY <1>1, <1>2, SameChunksOwned DEF DeleteObject, DeleteAudit, storeVars
<1>3. CASE DeleteVectors(x)
  <2>1. UnindexVectors(d) /\ UNCHANGED storeVars
    BY <1>3 DEF DeleteVectors
  <2> QED BY <1>1, <2>1, IndexCuts, CutsOwned
<1>4. CASE DeleteRecord(x)
  <2>1. DropRecord(d) /\ (Saved \/ SaveFailed) /\ UNCHANGED vectors
    BY <1>4 DEF DeleteRecord
  <2> QED BY <1>1, <2>1, StoreCuts, CutsOwned
<1> QED BY <1>1, <1>2, <1>3, <1>4 DEF DeleteProceeds

\* What a question finds: hits of the index, or chunks of its map.
LEMMA FoundInScope ==
    ASSUME TypeOK, ChunksOwned, AsksOwned, NEW q \in Asks, NEW c \in Hits(q) \cup Lexical(q)
    PROVE  c[1] \in scope[q] /\ User[c[1]] = User[q] /\ c[2] \in CutBy(c[1])
<1>1. scope[q] \subseteq Uploads
  BY DEF TypeOK, AsksOK
<1>2. CASE c \in Hits(q)
  BY <1>2 DEF Hits, ChunksOwned
<1>3. CASE c \in Lexical(q)
  <2>1. c[1] \in scope[q] /\ c[2] \in Batches /\ chunkMap[q][c[1]] = c[2]
    BY <1>3 DEF Lexical
  <2> QED BY <1>1, <2>1, NoChunksIsNoBatch DEF AsksOwned, ScopeOwned, MapsOwned
<1> QED BY <1>2, <1>3

\* A repair cuts chunks for the document's owner.
LEMMA RepairOwned ==
    ASSUME TypeOK, ChunksOwned, AsksOwned, [Next]_vars, NEW q \in Asks, NEW d \in Uploads,
           RepairUnindex(q, d) \/ RepairIndex(q, d) \/ RepairPublish(q, d)
    PROVE  ChunksOwned' /\ AsksOwned'
<1>1. q \in CutBy(d)
  <2>1. d \in at[q]
    BY DEF RepairUnindex, RepairIndex, RepairPublish
  <2> QED BY <2>1 DEF AsksOwned, ScopeOwned, CutBy
<1>2. CASE RepairUnindex(q, d) \/ RepairIndex(q, d)
  <2>1. /\ UnindexVectors(d) \/ \E failed \in BOOLEAN : IndexVectors(d, q, failed)
        /\ UNCHANGED <<storeVars, askVars>>
    BY <1>2 DEF RepairUnindex, RepairIndex
  <2>2. UNCHANGED storeVars /\ UNCHANGED askVars
    BY <2>1
  <2> QED BY <1>1, <2>1, <2>2, IndexCuts, CutsOwned, SameAsksOwned
<1>3. CASE RepairPublish(q, d)
  <2>1. /\ PutRecordAndChunks(d, "ready", q) /\ (Saved \/ SaveFailed)
        /\ chunkMap' \in {chunkMap, [chunkMap EXCEPT ![q][d] = q]}
        /\ at' = [at EXCEPT ![q] = {}]
        /\ pc' = [pc EXCEPT ![q] = "scanning"]
        /\ UNCHANGED <<vectors, scope, todo, cited>>
    BY <1>3 DEF RepairPublish, Go
  <2>2. ChunksOwned'
    BY <1>1, <2>1, StoreCuts, CutsOwned
  <2>3. MapsOwned'
    BY <1>1, <2>1 DEF AsksOwned, MapsOwned, TypeOK, AsksOK
  <2>4. ScopeOwned' /\ CitationsInScope'
    BY <2>1 DEF AsksOwned, ScopeOwned, CitationsInScope, TypeOK, AsksOK, PlacesOK
  <2> QED BY <2>2, <2>3, <2>4 DEF AsksOwned
<1> QED BY <1>2, <1>3

\* A question finds chunks of its scope and its user only.
LEMMA AskOwned ==
    ASSUME TypeOK, ChunksOwned, AsksOwned, [Next]_vars,
           NEW q \in Asks, AskSelect(q) \/ AskProceeds(q)
    PROVE  ChunksOwned' /\ AsksOwned'
<1>0. /\ scope \in [Asks -> SUBSET Uploads] /\ todo \in [Asks -> SUBSET Uploads]
      /\ at \in [Asks -> SUBSET Uploads] /\ cited \in [Asks -> SUBSET (Uploads \X Batches)]
      /\ chunkMap \in [Asks -> [Uploads -> Batches \cup {NoChunks}]]
      /\ \A p \in Asks : pc'[p] = "new" => pc[p] = "new"
      /\ ScopeOwned /\ MapsOwned /\ CitationsInScope
  BY NewBefore DEF TypeOK, AsksOK, Requests, AsksOwned
<1>1. CASE AskSelect(q)
  <2>1. PICK selected \in SUBSET Owned(q) :
            /\ scope' = [scope EXCEPT ![q] = selected]
            /\ todo' = [todo EXCEPT ![q] = selected]
            /\ Go(q, "new", IF selected = {} THEN "ok" ELSE "scanning")
    BY <1>1 DEF AskSelect
  <2>2. pc[q] = "new" /\ UNCHANGED <<storeVars, vectors, at, chunkMap, cited>>
    BY <1>1, <2>1 DEF AskSelect, Go
  <2>3. ChunksOwned'
    BY <2>2, SameChunksOwned DEF storeVars
  <2>4. \A d \in selected : User[d] = User[q]
    BY DEF Owned
  <2>5. ScopeOwned'
    BY <1>0, <2>1, <2>2, <2>4 DEF ScopeOwned
  <2>6. CitationsInScope'
    BY <1>0, <2>1, <2>2 DEF ScopeOwned, CitationsInScope
  <2> QED BY <1>0, <2>2, <2>3, <2>5, <2>6 DEF AsksOwned, MapsOwned
<1>2. ASSUME NEW d \in Uploads, AskInspect(q, d) PROVE ChunksOwned' /\ AsksOwned'
  <2>1. /\ d \in todo[q] /\ pc'[q] # "new"
        /\ todo' = [todo EXCEPT ![q] = @ \ {d}]
        /\ chunkMap' = [chunkMap EXCEPT ![q][d] = chunks[d]]
        /\ at' = at \/ at' = [at EXCEPT ![q] = {d}]
        /\ UNCHANGED <<storeVars, vectors, scope, cited>>
    BY <1>2 DEF AskInspect, Go, TypeOK, PlacesOK, Requests
  <2>2. ChunksOwned'
    BY <2>1, SameChunksOwned DEF storeVars
  <2>3. MapsOwned'
    BY <1>0, <2>1 DEF MapsOwned, ChunksOwned
  <2>4. ScopeOwned' /\ CitationsInScope'
    BY <1>0, <2>1 DEF ScopeOwned, CitationsInScope
  <2> QED BY <2>2, <2>3, <2>4 DEF AsksOwned
<1>3. ASSUME NEW d \in Uploads, RepairParse(q, d) PROVE ChunksOwned' /\ AsksOwned'
  <2>1. /\ at' = at \/ at' = [at EXCEPT ![q] = {}]
        /\ UNCHANGED <<storeVars, vectors, scope, todo, chunkMap, cited>>
    BY <1>3 DEF RepairParse
  <2>2. ChunksOwned'
    BY <2>1, SameChunksOwned DEF storeVars
  <2> QED BY <1>0, <2>1, <2>2 DEF AsksOwned, ScopeOwned, MapsOwned, CitationsInScope
<1>4. CASE AskSearch(q)
  <2>1. PICK best \in (SUBSET Hits(q)) \cup (SUBSET Lexical(q)) : cited' = [cited EXCEPT ![q] = best]
    BY <1>4 DEF AskSearch
  <2>2. /\ chunkMap' = [chunkMap EXCEPT ![q] = EmptyMap] /\ pc'[q] # "new"
        /\ UNCHANGED <<storeVars, vectors, scope, todo, at>>
    BY <1>4 DEF AskSearch, Go, TypeOK, PlacesOK, Requests
  <2>3. ChunksOwned'
    BY <2>2, SameChunksOwned DEF storeVars
  <2>4. \A c \in best : c[1] \in scope[q] /\ User[c[1]] = User[q] /\ c[2] \in CutBy(c[1])
    BY <2>1, FoundInScope
  <2>5. CitationsInScope'
    BY <1>0, <2>1, <2>2, <2>4 DEF CitationsInScope, CutBy
  <2>6. ScopeOwned'
    BY <1>0, <2>1, <2>2 DEF ScopeOwned
  <2>7. MapsOwned'
    BY <1>0, <2>2 DEF MapsOwned, EmptyMap
  <2> QED BY <2>3, <2>5, <2>6, <2>7 DEF AsksOwned
<1> QED BY <1>1, <1>2, <1>3, <1>4, RepairOwned DEF AskProceeds

\* Chunks that a crash brings back from the file are their owner's.
LEMMA CrashOwned ==
    ASSUME TypeOK, ChunksOwned, AsksOwned, [Next]_vars, Crash
    PROVE  ChunksOwned' /\ AsksOwned'
<1>1. \A q \in Asks : pc'[q] = "new" => pc[q] = "new"
  BY NewBefore DEF Requests
<1>2. ChunksOwned'
  BY DEF Crash, Reload, ChunksOwned
<1>3. MapsOwned'
  BY DEF Crash, MapsOwned, EmptyMap
<1>4. ScopeOwned' /\ CitationsInScope'
  BY <1>1 DEF Crash, AsksOwned, ScopeOwned, CitationsInScope
<1> QED BY <1>2, <1>3, <1>4 DEF AsksOwned

\* An answer cites only chunks of the asking user's documents in the scope of
\* the question, cut by an upload or a repair of the same user, however stale
\* the index and the maps read before an await are.
THEOREM CitationsHold == Spec => []CitationsInScope
<1>1. Init => OwnedInv
  BY InitType DEF Init, StoreInit, OwnedInv, ChunksOwned, AsksOwned, ScopeOwned, MapsOwned,
                  CitationsInScope, EmptyMap
<1>2. OwnedInv /\ [Next]_vars => OwnedInv'
  <2> SUFFICES ASSUME TypeOK, ChunksOwned, AsksOwned, [Next]_vars
               PROVE  ChunksOwned' /\ AsksOwned'
    BY NextType DEF OwnedInv
  <2>1. ASSUME UNCHANGED <<storeVars, vectors, askVars>> PROVE ChunksOwned' /\ AsksOwned'
    <3>1. UNCHANGED <<chunks, diskChunks, vectors>> /\ UNCHANGED askVars
      BY <2>1 DEF storeVars
    <3> QED BY <3>1, SameChunksOwned, SameAsksOwned
  <2>2. CASE UNCHANGED vars \/ Idle
    BY <2>1, <2>2 DEF Idle, vars
  <2>3. ASSUME NEW r \in Requests, Refuse(r) PROVE ChunksOwned' /\ AsksOwned'
    BY <2>1, <2>3 DEF Refuse
  <2>4. ASSUME NEW u \in Uploads, UploadPut(u) \/ UploadProceeds(u)
        PROVE  ChunksOwned' /\ AsksOwned'
    BY <2>4, UploadOwned, SameAsksOwned
  <2>5. ASSUME NEW x \in Deletes, DeleteProceeds(x) PROVE ChunksOwned' /\ AsksOwned'
    BY <2>5, DeleteOwned, SameAsksOwned
  <2>6. ASSUME NEW x \in Deletes, DeleteLookup(x) PROVE ChunksOwned' /\ AsksOwned'
    BY <2>1, <2>6 DEF DeleteLookup, Lookup
  <2>7. ASSUME NEW r \in Reads, ReadLookup(r) \/ ReadObject(r) PROVE ChunksOwned' /\ AsksOwned'
    BY <2>1, <2>7 DEF ReadLookup, Lookup, ReadObject
  <2> QED BY <2>2, <2>3, <2>4, <2>5, <2>6, <2>7, AskOwned, CrashOwned DEF Next
<1>3. OwnedInv => CitationsInScope
  BY DEF OwnedInv, AsksOwned
<1> QED BY <1>1, <1>2, <1>3, PTL DEF Spec

==============================================================================
