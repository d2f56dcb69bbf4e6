# A verification development for llm-doc-qa-assistant

TLA+ models of the document question-answering system in this repository, the
TLC runs that check them on small instances, and proofs that TLAPS checks for
every instance. Paths below are relative to the repository root; `core` stands
for `backend/apps/core-go-rpc`, `gateway` for `backend/apps/api-go`, `agent` for
`backend/apps/agent-python-rpc`.

## 1. The system

    browser (frontend) --HTTP/SSE--> gateway --gRPC--> core --+-- state store
    (memory + state.json) +-- audit.log +-- MySQL (users, sessions) +-- MinIO
    (files) +-- Qdrant (chunk vectors) +-- agent (gRPC: LLM, embeddings, text
    extraction)

| component | state it keeps | operations | talks to |
|---|---|---|---|
| document handlers, `core/internal/rpc/server.go` | none of their own; locals across calls | UploadDocument, ListDocuments, GetDocument, DownloadDocument, DeleteDocument | store, MinIO, Qdrant, agent, audit |
| turn runtime, same file | none of its own | CreateThread, ListThreads, CreateTurn, CreateTurnStream, GetTurn, ListTurns | store, agent, Qdrant, MinIO (repair) |
| state store, `core/internal/store` | documents, chunks, threads, turns, items, provider; mirrored in `state.json`, audit events appended to `audit.log` | load, save, the mutators, RecordAudit | file system |
| authentication, `core/internal/application/auth` | users, sessions (MySQL, or memory) | Register, Login, Logout, Authenticate | repositories, audit |
| scope and retrieval, `core/internal/qa` | none | ResolveScope, RetrieveTopChunks | |
| ingest, `core/internal/ingest` | none | ChunkText, normalisation, readability tests | |
| Qdrant client | whether the collection was ensured, its vector size, a lock | UpsertDocumentChunks, SearchChunks, DeleteDocument | Qdrant |
| start and settings, `core/cmd/server`, `gateway/internal/svc` | the settings; tables and bucket made once | loadConfig, LoadConfig, opening every dependency | environment, .env, api.yaml, all of the above |
| LLM client | gRPC connection | GenerateAnswer(Stream), EmbedTexts, ExtractDocumentText | agent |
| gateway | none | HTTP handlers with deadlines, SSE relay | core |
| agent | none | generation with provider clients and retries, embedding, extraction | Ollama, SiliconFlow, ... |
| frontend | session token, cached turns per thread, active thread | pages | gateway |

How they interact. gRPC runs every request in a goroutine of its own. The store
has one mutex, held for one operation at a time; a handler takes it several
times and calls MinIO, Qdrant and the agent in between with no lock held, so
handlers interleave at every such call. The gateway gives most calls a deadline
(upload 45 s, question 40 s, deletion 6 s, lists 6 to 20 s). A streamed
question has none, but the gateway stops writing to a browser 60 s after it
read the request (`WriteTimeout`).

What is hard:

* *interleaving*: an upload, a deletion and the repair a question makes write
  the same record, each from a copy taken earlier;
* *partial failure*: an upload and a deletion each touch four systems in
  sequence and give up or go on after an error, step by step differently;
* *crashes*: memory goes, MinIO, Qdrant and `state.json` stay, and nothing
  resumes what was running;
* *the store's save*: memory changes first and is not rolled back when the file
  cannot be written;
* *lost and late requests*: a call whose deadline expires may have been applied,
  or may still be;
* *the Qdrant client's memory*: what it knows of the collection is that of its
  first call, and its lock is held across requests;
* *limits that do not fit together*: of a file, a message and a connection.

What makes each component correct:

* documents: a record that users see has its chunks when it says "ready", and
  its file until its owner deletes it; an acknowledged upload survives; an
  acknowledged deletion is true; nobody reads another user's chunks;
* turns: a stored turn is complete, the stream shows items in the documented
  order, the answer belongs to the question and its thread;
* sessions: an e-mail names one user; a token works from login until expiry or
  logout and never for anybody else;
* store: what was saved is what a restart finds;
* Qdrant client: a call fails only for a reason outside it, does what it says,
  and ends;
* start: no request is served before tables and bucket are there;
* gateway: what reaches the core is what the sender may ask for, and the status
  tells what became of it;
* retrieval, scope, chunking: the operators agree with what the product
  specification says of them;
* stream retries: nothing is emitted twice;
* QA page: a thread's cached turns are that thread's.

## 2. The document service

### Modules

* `DocumentStore` is the store's document half. `docs` and `chunks` are
  `state.Documents` and `state.DocChunks` in memory, `diskDocs` and `diskChunks`
  the same in `state.json`. A record is reduced to its status; a chunk list to
  the request that cut it. Each mutator of the code is a memory effect
  (`PutRecord`, `PutRecordAndChunks`, `DropRecord`) conjoined with `Saved` or
  `SaveFailed`; `Reload` is `load` in a new process.
* `DocumentService` extends it with the handlers. A request is a constant; `pc`
  says where it stands or how it was answered. Each call a handler makes to
  something shared is one action:

  | handler | actions, in order | places (`pc`) |
  |---|---|---|
  | UploadDocument | `UploadPut`, `UploadRegister`, `UploadExtract`, `UploadIndex`, `UploadPublish`, or `UploadFail` after either failure | stored, registered, extracted or unparsed, indexed or unindexed |
  | DeleteDocument | `DeleteLookup`, `DeleteObject`, `DeleteVectors`, `DeleteRecord`, `DeleteAudit` | owned, unstored, unlinked, removed |
  | GetDocument, DownloadDocument | `ReadLookup`, `ReadObject` | opening |
  | CreateTurn(Stream), document side | `AskSelect`, per document `AskInspect` and `RepairParse`, `RepairUnindex`, `RepairIndex`, `RepairPublish`, then `AskSearch` | scanning, repairing, parsed, cleared, reindexed |

  `Refuse` is every early return before anything is touched, `Crash` a death of
  the process followed by a start. `objects`, `vectors` and `audit` are MinIO,
  Qdrant and `audit.log`. Each outside call can fail, and a failing write may
  have been applied. Extraction and embedding touch nothing shared, so they are
  part of a neighbouring action.
* `DocumentPromise` is the abstract specification: what the service owes the
  uploader of a document. `DocumentService!KeepsPromise` states that the service
  implements it; the debt is computed from the answers given (`PromiseFor`).
* `MCDocumentService` names the requests, their users and targets for TLC.
* `DocumentServiceProofs` holds the theorems.

### Runs

| run | instance | what it shows |
|---|---|---|
| `documents` | one document, two deletions by its owner and one by another user, a download, a question that may repair, any five of these six requests, one failing save, one crash | typing; `ReadyMeansChunked`, `AckedUploadKept`, `AuditedDeletionIsReal`; `FileLostOnlyByOwner`: neither another user's deletion nor a failing save nor a restart loses a file; the action property `DeletionIsFinal`; the refinement `KeepsPromise` |
| `tenants` | two users with a document each, one a PDF that never reads well, a deletion, a question, one failing save, no crash, weak fairness | `CitationsInScope`; `IndexingEnds`: no document stays "indexing" unless its first save failed, which its uploader was told |
| `stuck_indexing` | one upload, one crash, weak fairness | violation: nothing resumes an upload after a restart |
| `undone_deletion` | one upload, one deletion | violation: a running upload brings a deleted document back |

Bounds. Documents interact only through a question's scope and ownership, so one
document suffices for the invariants of a single record and two, of different
users, for the others. Three deletions cover a deletion that races with another,
repeats a failed one, and is refused. One failing save and one crash suffice to
make memory and disk differ at any point and to reload at any point;
`MaxSaveFailures` and `MaxCrashes` name these bounds. In `documents` a state
constraint (`Served`) keeps the requests that are sent to `MaxServed`, whichever
they are, and the owner's two deletions count as alike (symmetry); both are sound
there, since a constraint cuts off longer behaviours only and the run checks
safety only. `tenants` has neither: as many requests are allowed as there are.
The theorems hold without any of these bounds.

Fairness (`FairSpec`). An upload, a deletion or a download that has started
goes on: it is a goroutine that waits only for calls under a deadline and for a
mutex held across one file write. Nobody must send a request. A question gets no
fairness, since a streamed one has no deadline. `stuck_indexing` fails under the
same fairness, so it is not the scheduler that lets the document down.

The two violations are disagreements with
`docs/product-specs/document-management.md` (lines 20 and 35); `PROJECT.json`
quotes them. The lifecycle documented there has no way from "ready" back to
"failed" either, but a question whose repair fails takes it; `ReadyMeansChunked`
is what holds. What holds in their place: a deletion is final when nothing raced
with it (`DeletionIsFinal`), whatever happened its file stays gone
(`AuditedDeletionIsReal`, `KeepsPromise`), and without crashes "indexing" ends
for every record that was saved once (`IndexingEnds`). The record whose first
save failed stays "indexing" in memory (server.go:232-235), and the next save of
anything writes it to the file; it is the one exception in `tenants`, where the
save fails at every point. A restart leaves two records more: one whose upload
it interrupted (`stuck_indexing`), and one that had failed but whose "failed"
was not saved. Of all three, only a question that repairs the document takes
the status away (server.go:1366-1369).

### Proofs

Assumptions: the request kinds are disjoint (they are different RPCs and fresh
ids), `Target` names documents, `NoChunks` is no chunk list, the bounds are
natural numbers. Everything else is arbitrary: any number of requests and users.

* `TypeCorrect`: typing, one lemma per handler.
* `ReadyAlwaysChunked`: with `StoreMoves`, which says that a step leaves the
  store alone, reloads it, or changes one document in memory and tries to save.
* `Inductive`: `IInv` is an inductive invariant. The safety properties are not
  inductive by themselves. That an acknowledged upload keeps its file needs that
  whoever removes a file has passed the ownership test (`DeletersOwn`) and that
  a repair that may still write the record back holds a document that had its
  file (`FileKept` over `Reachable`). That an audited deletion is true needs
  that no step stores the file again (`FileErased`), hence that nobody can know
  a document before its upload has stored it (`UploadStarted`,
  `AuditedWereStored`). That a restart cannot undo a clean deletion needs that
  memory lacks a record that the disk has only after a deletion that answered
  with an error (`UnsavedDeletionReported`). One lemma per handler; each shows
  first what the step does to the few variables the parts look at.
* `AckedUploadIsKept`, `FileLossIsDeletion`, `AuditIsTrue`, `FinalDeletion` are
  consequences, and `ServiceKeepsPromise` proves the refinement: every step
  changes what is owed for at most one document, in the allowed direction
  (`OwesStep`), and the debts are honoured in every reachable state
  (`DebtsHonoured`).
* `CitationsHold`: what a question may cite. `CitationsInScope` alone is not
  inductive: a chunk that is cited was read from memory, from the index or from
  the map the question took earlier, and was put there by somebody. `OwnedInv`
  therefore says of every place that keeps chunks of a document (memory,
  `state.json`, Qdrant, the maps of the questions under way) that they were cut
  by the document's upload or by a question of the same user (`CutBy`), and that
  a question looks at its scope only, which is its user's.

## 3. Questions and answers

### Modules

* `TurnRuntime` follows a question from the browser to the store and back. A
  request is a constant whose name is also the id of the thread or turn it
  creates. `threads`, `turns` and `provider` are the store's maps and active
  provider in memory, `diskThreads`, `diskTurns` and `diskProvider` the same in
  `state.json`.

  | code | actions |
  |---|---|
  | CreateThread | `CreateThread` |
  | SetConfig (SetProvider) | `SetConfig` |
  | early returns of all three calls | `Refuse`, and `TurnBegin` for a thread that is absent or somebody else's |
  | CreateTurn, CreateTurnStream | `TurnBegin` (lookup, previous turns, provider), `TurnDecide` (decision and retrieval are over, CreatedAt is taken), `SendHeader` three times, the answer, `StoreTurn`, `SendFinal`; `SendFails` once the client has gone |
  | LLM client, agent, Ollama client | `AgentToken`, `AgentRetry`, `AgentFails`, `AgentDone` |
  | gateway, browser | `Relay`, `RelayEnd`, `Leave` |
  | core | `Crash` |

  A plain question uses the same actions without the sends; it builds all its
  items at the end, and its answer comes in one piece. A stored turn is reduced
  to its items, an item to its kind, a delta to the provider attempt it came
  from. `draft` is the handler's `streamItems`, `wire` the items under way to
  the gateway, `shown` the events the browser has received. A blank delta is
  neither sent nor stored but stays in the answer, as in the code. What
  retrieval reads is the subject of `DocumentService`; it never fails a
  question, so here it is no more than the time it takes.
* `TurnPromise` is the abstract specification of a streamed question: the events
  only grow, the items shown are the beginning of the stored turn, "final" is
  shown only of a turn in `state.json`, and "done" only after it.
  `TurnRuntime!KeepsTurnPromise` states that `shown` and `diskTurns` keep it.
* `MCTurnRuntime` puts every question in one thread and names the users and the
  provider a change asks for. `TurnRuntimeProofs` holds the theorems.

### Runs

| run | instance | what it shows |
|---|---|---|
| `streams` | a thread, a streamed and a plain question, at most two tokens, one failing save, one crash, fairness | typing; `StoredTurnsWhole`: only complete turns of one provider attempt are ever in memory or on disk; the refinement `KeepsTurnPromise`; `StreamsEnd` |
| `followups` | a thread, three plain questions of its user and one of another, a change of provider, one failing save, one crash | `FollowUpKnowsAnswer`: a question asked after an answer was seen goes to the model with a previous turn at least as recent; `HistoryStaysPrivate`; `ChangeHolds`: a provider that was set stays in use, and a question keeps the one it began with |

Bounds. Two tokens are one from each provider attempt, or a blank and a spoken
one. Three questions of one thread are one that was seen, one that is older or
concurrent, and one that follows up. A turn that failed to be saved stays in
memory, is used as a previous turn, and is persisted by the next save; one
failing save and one crash reach all of this. One change from the default is
enough to tell a provider that was kept from one that was lost; a change whose
save failed is in use until a restart, or for good once anything else is saved.
A second change that replaces the first does not occur in `followups`; the
theorem `ChangeLasts` has any number of them.
`followups` takes the plain questions of one user as alike (symmetry), which is
sound since it checks safety only. Only the Ollama client retries (`Retrying`),
so `streams` runs with that provider. The clock is assumed to run
forward and to tell two turns apart; with a clock that is set back,
`FollowUpKnowsAnswer` would not hold.

Fairness. A streamed question that was let in goes on, and so does the
gateway's loop over Recv. What the handler waits for ends: the providers' calls
run under timeouts (Ollama's under 15 s, then at least 180 s) and an answer has
at most 2048 tokens. Nobody must ask, leave or crash. A network that silently
drops a connection between core and agent is outside the model: the handler
would wait until the gateway's 60 s for the browser are over. That the user
leaves and that these 60 s pass are one action, `Leave`.

### Proofs

`TurnRuntimeProofs`, for any number of threads, questions, provider changes and
users, answers of any length, and any bounds on failing saves and crashes.
Assumptions: ids of threads, turns and changes are different, every question
has a thread, `NoTurn` is no turn.

* `TypeCorrect`: typing. That the previous turn is a turn needs that no turn is
  dated after the clock, since `Latest` chooses by date (`LatestExists`: the
  least distance to the clock is attained).
* `Inductive`: `IInv`. A stored turn is whole only because its draft was, so
  every draft is followed from the header to the final item: it has the whole
  header before the first token, and all tokens are of the attempt under way
  (`DraftTrue`); what is stored is a finished draft, in memory before the file
  (`StoredTrue`). Who was let in owns the thread, and what was looked up for a
  question stays true of it (`ThreadsTrue`, `HistoryTrue`). Memory and file have
  a provider that a change asked for (`ProviderTrue`). For streams, what is
  shown and what is under way are together the first items of the draft
  (`FlowTrue`).
* `StoredWholeHolds`, `HistoryHolds`, `FollowUpHolds`, `ChangeLasts` are
  consequences, and `KeepsPromise` proves the refinement of `TurnPromise`.

The deltas of an answer are one for each token that is not blank; the model says
so by the positions of the spoken tokens (`Spoken`), and `DeltasOfAppend` is
the fact the proof needs: one more token adds one delta or none.

## 4. The question page

### Modules

* `QAPage` is `pages/QAPage.jsx` with what it keeps in localStorage and what it
  asks of the backend. A row is its turn, and whether it came from listTurns or
  was put together from a stream.

  | code | actions |
  |---|---|
  | mounting and unmounting the page (`App.jsx`), the thread list, the button for a new thread | `Enter`, `Leave`, `Select`, `CreateThread` |
  | bootstrap | `BootServed`, `Booted`, `BootFails` |
  | the effects on the active thread and on the rows | inside `Activate` and `Show`, which every action uses that sets that state |
  | loadTurns | `ListServed`, `ListReturns`, `ListFails` |
  | ask and its stream | `Ask`, `StreamEvent`, `Stores` (backend), `StreamDone`, `StreamFails` |

  A render and its effects are one step, in the order in which the component
  declares them; this is React's production build, which mounts a component
  once. The call of createThread is one step with its answer. That a history is
  taken by the backend (`ListServed`) and that it arrives (`ListReturns`) are
  two steps, so that answers overtake one another and grow old. The order in
  which questions are asked stands for the order of CreatedAt.
* `MCQAPage` gives it two old threads with a turn each. `QAPageProofs` holds the
  theorems.

### Runs

| run | instance | what it shows |
|---|---|---|
| `qa_page` | two old threads, one new, two questions, four moves, one failing call | typing; `HistoryIsOfThread`: late histories never show in another thread; `CacheMirrorsScreen`; `ShownTurnsStored`; `ShownTurnsStay` |
| `qa_cache` | two old threads, one question | violation: an answer that ends after a switch is cached for another thread |

Bounds. A cache of two rows stands for 100: three turns of one thread exceed it.
Four moves are a visit, a switch away, a switch back and one more, or a visit,
a return and two switches. The user may stop at any time, so deadlock is not
checked.

The violation is a disagreement with the documentation that `PROJECT.json`
quotes. The page is also meant to restore the thread it was left with and its
cached turns; it does neither, since its effects write the empty state of the
new page over both before they are read (`Enter`, `Activate`).

`ShownTurnsStay` claims something only after the thread's history has been
answered: a history that was taken before a turn was stored may arrive after the
turn was shown, and hides it until the next switch.

### Proofs

`QAPageProofs`, for any number of threads and questions, any history at the
start, any size of the cache, and any clicks, answers and failures in any order.
Assumptions: the old threads and turns are threads and turns, `NoThread` is no
thread and `NoCache` is no list of rows, the cache has room for a row.

* `TypeCorrect`: typing. What ListTurns returns is a recursive function over the
  questions asked (`History`); that it exists and returns rows (`HistoryExists`,
  `HistoryType`) is proved by induction over their number, by `SetInduction` of
  `OrderingProofs`, which derives it from the well-founded order of the natural
  numbers.
* `Inductive`: `IInv`. The page is right only if the calls under way are: of the
  calls of listTurns only the one that is not cancelled counts, it is for the
  active thread, and as long as there is one the thread's history is not
  `fresh`; the rows of an answer that was served are stored and of its thread
  (`LoadsTrue`). With it, that what is shown, cached or on its way is stored
  (`ShownTrue`), that the history is the thread's (`HistoryTrue`) and that the
  cache is the screen cut to size (`MirrorTrue`) are preserved. `StepKinds`
  sorts the actions by what they do to the screen: leave it, show another
  thread, show other rows, or nothing.
* `HistoryHolds`, `StoredHolds`, `CacheHolds` and the action property
  `StaysHolds` are consequences.

## 5. Users and sessions

### Modules

* `AuthSessions` is `core/internal/application/auth` over the repositories.
  `users` and `sessions` are the two tables; a user's id is the registration
  that made it and a token is the login that generated it.

  | code | actions |
  |---|---|
  | Register | `RegisterInsert`, `RegisterAnswer` |
  | Login | `LoginVerify` or `LoginReject`, `LoginOpen`, `LoginAnswer` |
  | Authenticate, at the start of every other call | `FindSession` or `NoValidSession`, `FindUser` |
  | Logout | the same, then `LogoutClose`, `LogoutAnswer` |
  | malformed requests | `Refuse` |
  | the clock, the process | `Tick`, `Crash` |

  Each repository call is one step. It may fail, and a statement that writes may
  have been applied all the same. An audit event may be lost. With the memory
  repositories no call fails, which is a special case.
* `MCAuthSessions` gives two registrations one address and different passwords.
  `AuthSessionsProofs` holds the theorems.

### Run

| run | instance | what it shows |
|---|---|---|
| `auth` | two registrations, two logins, a logout and two calls with the first token, one failing call, one crash | typing; `OneUserPerEmail`, `AdmittedAsOneself`, `AuditIsTrue`; the action property `RevokedStaysRevoked` |

Bounds. A session lives for one tick of a clock with two, so it is used before,
at and after its end. One failing call and one crash can hit any step.
Everything may have been answered, so deadlock is not checked. A session is
valid at the very instant it ends, as in the code.

### Proofs

`AuthSessionsProofs`, for any number of requests, users, addresses and
passwords, any time to live, and any number of failing statements and crashes.
Assumptions: the kinds of requests are disjoint, a call's token is that of some
login (the model has no invented tokens), `NoUser` and `NoSession` are no rows.

* `TypeCorrect`: typing; a request that needs the user it looked up has one.
* `Inductive`: `IInv`. That whoever is admitted is the one who logged in needs
  that a login has looked up the owner of its address before, and that a session
  is there only once the password was verified for that owner (`LoginsTrue`),
  and that a call took the user from its token's session (`CallsTrue`). That a
  revoked session stays revoked needs that the login which could insert it again
  has ended (`RevokedGone`), since an insertion whose answer was lost may have
  been applied.
* `OneUserHolds`, `AdmittedHolds`, `AuditHolds` and the action property
  `RevokedHolds` are consequences.

## 6. Functions

* `Ordering` puts a finite set in order, as sort.Slice does: the member with
  i - 1 others before it is the i-th. It says what a sorted list is without
  saying how it is sorted, so that it can be reasoned about.
* `Algorithms` has ChunkText and the pages of ListDocuments; a text is a
  sequence of characters that are blank or not. The loop of ChunkText is the set
  of the windows it comes to before one reaches the end of the text, in
  ascending order.
* `Ingest` extends it with the verdict on a text (readable, corrupted), the
  chunks of a document and shouldRepairChunks; its characters are of the kinds
  these tests tell apart. A "letter" is an ASCII letter or digit or one of the
  punctuation marks parser.go:202 lists; ASCII symbols it does not list, such
  as $ = or |, count as little as an accented letter ("other").
* `Retrieval` has the way from a request to its evidence: scope, selected
  documents, decision, score, ranking, and the choice between the vector index
  and the store. `Route` is what CreateTurn and CreateTurnStream compute before
  they retrieve.
* `Gateway` has the way from an HTTP request to a call of core (`Dispatch`:
  CORS, authentication, routes, bodies, files) and from the call's end to a
  status (`Response`). The core's side is the steps of each handler in order
  (`Steps`), each with the errors that find nothing done and those after which
  its change may have been made. From them follow how a call may end
  (`Endings`) and what it may have changed by then (`Effect`); a deletion goes
  on when its vectors could not be removed (`Tolerated`). `CodeOf` is the table
  of the codes. Audit entries, the repair a question makes in passing and the
  removal of an expired session are not counted as changes.
* `Settings` has the settings of both Go processes as functions of environment
  and file, and the deadlines of the gateway's calls. A few settings
  stand for the others, which are read by the same functions.
* `MCAlgorithms` calls them with all inputs up to a small size, one call per
  behaviour. Its properties are reference definitions that do not use the ones
  they check, except for the score of a chunk and the table of `Gateway`.
* `OrderingProofs` has the lemmas about data, `ChunkProofs` the theorems about
  `ChunkText` and `Ingest`, `AlgorithmsProofs` the others.

| run | what it shows |
|---|---|
| `algorithms` | `PassagesUnsplit`: a passage of one character more than two chunks share is whole in some chunk, for every size and overlap; `RepairSettles`: what an upload accepted is not repaired again and again, unless it is a PDF with characters that are not counted as readable, uncommon Han characters or PDF keywords; `PagesShowAll`; `ScopeHonoured`: a request that names documents is answered from exactly those of them its user owns, always with retrieval; `SkippedWithReason`; `BestEvidence`; `CallsAreSound`: tokens and methods of the calls, and that the core can take exactly the files that are not empty and fit in a message, of those the gateway lets pass; `AnswersTellOutcome`: success means that every change was made, the sender's fault that none was, each with its exceptions (below); `SettingsUsable`: usable timeouts whatever the settings say, and a gateway that can answer in time |
| `upload_limit` | violation: a file of 4 to 10 MB is refused |

Bounds. The constants 600, 120, 50, 100, 5 and 4 of the code become 4, 2, 2, 3,
3 and 2, which keeps their order; texts of 8 characters have up to eight
windows, sizes and overlaps go from -1 beyond the default, so every replacement
of a senseless value is met, also an overlap replaced by one that is larger
than the size. Three chunks with every combination of five scores meet every
tie. For `Ingest`, 16 readable characters become 2, 20 Han characters 2, and
700 and 120 characters of a chunk 3 and 1: texts of 6 characters have up to
three chunks, of which the first alone may be unreadable. The ratios are the
code's. File sizes are 0, 1, 3, 4, 10 and 11 MiB with the limits as they are.
Settings are unset, blank, positive, zero, negative, with a unit behind, and no
number.

What the runs show besides. A reference of @doc that matches nothing is ignored
as long as another one matches, and explicit ids are stored with the turn
without being compared with the user's documents (they are not searched). The
keywords of the rules are found inside other words. A PDF that mentions
"endobj" in its first chunk is repaired at every question, and so may be one
whose first chunks are mostly symbols such as = or |, plain ASCII though they
are (`RepairSettles`). `AnswersTellOutcome` has four exceptions. Three are
answered as the sender's fault although something may have been changed
(`Blamed`): a provider that could not be saved and is in use all the same, and
the record of a file whose text could not be extracted, for want of text or of
a model. One is answered as a success with something left undone (`Unnoticed`):
a deletion whose vectors could not be removed, which is only logged
(server.go:366-370), although document-management.md:35 counts the vector
entries among what a deletion removes. What they can do is bounded by
`CitationsInScope`. An upload that takes all of its 45 s after a slow body
is the one call the gateway cannot answer in time. A blank variable hides the
line of `.env` that sets it, and a number below one in the environment discards
that of `api.yaml`.

`upload_limit` disagrees with `docs/generated/openapi.yaml`: neither side raises
gRPC's limit of 4 MiB for a received message. `ListTurns` and `ListThreads` meet
the same limit with a long history.

### Proofs

All nine properties are proved for every input instead of the enumerated ones.
They are about one call, so they need no inductive invariant; the hypothesis of
each theorem says which calls are meant, and `RunHolds` shows that every call
the run makes is one of them and so that the properties are invariants of its
specification for any bounds. The assumptions on the constants are those of the
modules: the default overlap is less than the default size, the default page is
no longer than the longest one, 16 readable characters fit into a chunk of 700
that overlaps the next by 120.

`ChunkProofs`:

* `PassagesHold` (`ChunkCall`): any text, chunk size and overlap. The trimmed
  text goes from the first to the last character that is not blank
  (`SpaceTrimmed`, `TrimmedText`); two neighbours share `size - step`
  characters, whatever senseless value was replaced (`StepShared`). For a
  passage from `a` to `b` the window taken is the *last* one that starts before
  `a` and that the loop still comes to (`PassageReached`): either the next one
  starts at `a` or later, so this one reaches `b`, or this one reaches the end
  of the text. Trimming cannot tear the passage, whose ends are not blank
  (`WindowKeeps`), and so the window is a chunk (`KeptListed`).
* `RepairHolds` (`IngestCall`): any normalised text of a PDF or another file. A
  text no longer than a chunk is its only chunk, and the first chunk of a longer
  one lacks at most one blank (`FirstWindow`, `ChunksBuilt`), hence is as long
  as a readable text has to be: this is where `MinReadable < ChunkRunes` is
  needed. The sample consists of the text's characters and blanks and begins
  with the first chunk (`SampleOf`), and a sample of letters, common characters
  and blanks is no reason for a repair (`PlainSample`).

`AlgorithmsProofs`:

* `PagesHold` (`ListCall`): any finite set of documents and any page size. The
  list is the set in order (`NewestLists`), a page is what lies between two cuts
  of it (`PageCut`), the pages joined are the list up to the last cut
  (`PagesJoin`, an induction), and the pages that are not empty are the first
  ones, up to the one that reaches the end (`PagesUsed`).
* `EvidenceHolds` (`RetrieveCall`): any stored chunks, of which a document and
  an index identify one, any hits, any scope, any topK from 0. The ranking is a
  strict total order (`BestFirst`), so the first k of the list leave out none
  that scores better (`BestOfStore`); hits are taken once each
  (`AdmittedOnce`).
* `SettingsHold` (`SettingsCall`): any environment and any file, with variables
  of any names. By what a line of the file is allowed to set (`LoadedCases`) and
  which of two names counts (`GivenCases`).
* `ScopeHolds` (`RouteCall`): any library and any request, provided that ids
  identify documents and that no document is *named* like an id that is asked
  for. By the cases of ResolveScope (`ScopeCases`) and the fact that a
  restricted scope selects what the request names (`NamedSelected`).
* `SkippedHolds` (`DecisionCall`): any question and any answer of the model. By
  the cases of DecideRetrieval (`DecisionCases`).
* `CallsHold` and `AnswersHold` (`GatewayCall`): any path, method and body, any
  words in the header, a file of any size, any way such a call may end. By the
  table of routes (`RoutesSound`) and the way through `Dispatch`
  (`Dispatched`). Of each handler it is shown that nothing it changes comes
  before a step that can find a fault of the sender, but for the text of an
  upload (`HandlersInOrder`, from `UploadInOrder`, `DeleteInOrder`,
  `TurnInOrder` and `ShortHandlers`). Hence a call that ends with such a fault
  changed nothing (`FaultsChangeNothing`), and one that came to its end changed
  everything (`DoneChangesAll`); `EndingsKnown` and `CodesOfEndings` give the
  codes.

`OrderingProofs` has what these share: induction on a set of natural numbers
(`SetInduction`), least and greatest members, and `InOrderLists`, which shows
for any strict total order on a finite set that counting the members before each one
numbers them without gaps. A sequence joined of others is a recursive function,
whose equation is proved by the same induction (`JoinExists`, `FlattenDef`).

## 7. The vector index and the start

### Modules

* `CoreStartup` is `main` of core-go-rpc up to the listener: state file, MySQL
  and its two tables (`schema`), MinIO and its bucket, the connection to the
  agent, by address and then by socket. Each step may fail after it was applied;
  the process then exits and is started again.
* `VectorIndex` extends it with the Qdrant client, which exists while the
  process is up. `ensured` and `lock` are the client's fields, `collection` and
  `points` are Qdrant's, `wire` the requests it has not served. `model` is the
  size of the vectors of the embedding model in use.

  | code | actions |
  |---|---|
  | EmbedTexts | `Embed`, `EmbedFails` |
  | ensureCollection | `Ensure` (lock), `Create`, `Ensured` (unlock), or `Finish` after a conflict |
  | upsert, search, deletion and their statuses | the request "effect", `Finish` |
  | timeouts, broken connections | `GiveUp`; the request stays under way, and is served (`Serve`) or lost (`Vanish`) |
  | Qdrant, agent, operator, process | `Serve`, `ChangeModel`, `Drop`, `Crash`, `StartUp` |

* `IndexPromise` is the abstract specification of a call: it takes effect at
  most once, success means that it did, and points come and go with effects
  only. `VectorIndex!KeepsIndexPromise` is the refinement.
* `MCVectorIndex` names an upsert, a search and a deletion of one document.
  `VectorIndexProofs` holds the theorems.

### Run

| run | instance | what it shows |
|---|---|---|
| `vectors` | the three calls, two sizes of vectors, any number of restarts, changes of the model and dropped collections, fairness | typing, with the lock held exactly by a call between its first request and its result; `ServesPrepared`: no request before tables and bucket are there; `FailsWithReason`; the refinement `KeepsIndexPromise`; `CallsEnd` |

Bounds. Three calls are one that holds the lock, one that waits for it and one
that needs no collection. Nothing else is bounded: `trouble` remembers what has
gone wrong, not how often.

Fairness. A call that has begun goes on. Goroutines run, a `sync.Mutex` goes to
every waiter in the end, and the HTTP client's timeout (10 s) ends every
request; that the timeout may pass is `GiveUp`, which is always possible, so
nothing is assumed of Qdrant.

What the model shows besides: points may appear after their deletion was
answered with success, when an upsert the client has given up on is served
late. `DocumentService` has the outcome of each call at the call; that a write
is applied after the call has ended is in `VectorIndex` only. A client that has
seen one size of vectors refuses every other until the process is restarted,
and a restarted one writes what Qdrant then refuses (`FailsWithReason` has both
under "model"); a dropped collection is not created again before a restart.

### Proofs

`VectorIndexProofs`, for any number of calls of any kind about any documents,
any sizes of vectors, and any order of requests, answers, losses and restarts.
Assumptions: sizes are positive, `NoCall` is no call, and those of the start.

* `TypeCorrect`: typing, with the lock held by the call that is ensuring the
  collection and by nobody while the process is down.
* `Inductive`: `IInv`. Each stage of the start finds what the earlier ones made
  (`Prepared`). That a call fails only for a reason is five facts about what
  could go wrong otherwise: a request is under way only while its call waits or
  has ended (`RequestsTrue`); whoever asks about vectors has them
  (`SizesKnown`); without a change of the model there is one size (`OneSize`); a
  collection that was seen is there until it is dropped (`SeenStays`); and as
  long as no call was cut short, the lock's holder alone creates the collection,
  which is then missing (`OneCreator`).
* `PreparedHolds` and `ReasonHolds` are consequences, and `ClientKeepsPromise`
  proves the refinement: a request takes effect at the step in which Qdrant
  serves it, also when its call has ended.

## 8. Plan

In this order, the most important first. Each module has its constants with
named assumptions, one action per operation, and no RECURSIVE operator.

| module | component | composes | abstract specification | runs and bounds | theorems worth proving |
|---|---|---|---|---|---|
| `DocumentStore`, `DocumentService` (done) | documents | the service extends the store | `DocumentPromise` (done) | section 2 | all safety properties and the refinement (done) |
| `TurnRuntime` (done) | questions, agent stream, gateway relay | | `TurnPromise` (done) | section 3 | all safety properties and the refinement (done) |
| `QAPage` (done) | the question page | takes the stream's events as `TurnPromise` allows them | | section 4 | all properties that hold (done) |
| `AuthSessions` (done) | Register, Login, Logout, Authenticate over the two repositories | | | section 5 | all properties (done) |
| `CoreStartup`, `VectorIndex` (done) | start of core-go-rpc, Qdrant client | the client lives in the process that started | `IndexPromise` (done) | section 7 | all safety properties and the refinement (done) |
| `Retrieval`, `Gateway` (done) | scope, decision, retrieval, routes and statuses | with the next in `MCAlgorithms` | reference definitions by sets and quantifiers | section 6 | `ScopeHonoured`, `SkippedWithReason`, `CallsAreSound`, `AnswersTellOutcome`, `BestEvidence` (done) |
| `Algorithms`, `Settings`, `Ingest` (done) | ChunkText, ListDocuments' pages, settings, repair | | reference definitions | section 6 | `PassagesUnsplit`, `RepairSettles`, `PagesShowAll`, `SettingsUsable` (done) |
| `AgentPool` | the agent's worker threads against the gateway's deadlines | | | two workers, three questions | |
| `BrowserSession` | `App.jsx`: the token, the answers of `me` | takes the sessions of `AuthSessions` as valid or not | | two logins, a logout, late answers | |

## 9. What is not shown

Only model-checked: the liveness properties `IndexingEnds`, `StreamsEnd` and
`CallsEnd`, as liveness under fairness is beyond the prover. Every other
property of the passing runs is stated by a theorem.

The four violations are counterexamples and have nothing to prove.

Not modelled, beyond what the plan still has:

* PDF extraction and the decoding of texts: character-level data, no control
  that interacts with anything else; that they fail, and the verdict on what
  they return, are modelled. `ParseDocumentText` of core is called by tests
  only;
* how a text falls into tokens, and the text of answers; `DocumentService` keeps
  which chunks may be returned, `Retrieval` ranks them by a given score;
* an unreadable `state.json` at the start and errors of `audit.log` itself: the
  first stops the program, the second is logged and ignored (a lost event);
* SQL, generated protobuf code, Nginx and deployment;
* what the read-only calls GetTurn, ListTurns and ListThreads return: they look
  at one state of the store and change nothing; `Gateway` has their ends;
* the hashing of passwords, and the start of the agent;
* the documents and settings pages, and `App.jsx`: the answer of a call of `me`
  made for an earlier token may arrive after another login and show that user's
  name until the page is loaded again.
