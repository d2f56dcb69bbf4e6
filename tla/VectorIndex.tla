----------------------------- MODULE VectorIndex -----------------------------
(***************************************************************************)
(* core-go-rpc's client of Qdrant, from the embedding of the texts to the  *)
(* answer of the request, with the process that holds it.                  *)
(*                                                                         *)
(* Calls run concurrently.  The first one of a process that needs the      *)
(* collection looks for it and creates it, holding the client's lock       *)
(* across both requests.  Qdrant serves a request some time after it was   *)
(* sent, also when the client has given up on it by then.  The points of a *)
(* document are one, since they travel in one request; a vector is reduced *)
(* to its size, which is that of the embedding model in use.               *)
(***************************************************************************)
EXTENDS CoreStartup

CONSTANTS
    Calls,     \* calls of the client, in any order and at any time
    Kind,      \* call -> "upsert", "search" or "delete"
    Doc,       \* call -> the document it is about
    Sizes,     \* sizes of the vectors of the embedding models
    NoCall     \* nobody, as the lock's holder

ASSUME SizesPositive == Sizes \subseteq Nat \ {0}
ASSUME NoCallIsNoCall == NoCall \notin Calls

VARIABLES
    model,       \* size of the vectors of the embedding model in use
    collection,  \* size of the vectors of the collection, 0 without one
    points,      \* documents with points in the collection
    ensured,     \* the client: ensuredVector, 0 until the collection is ensured
    lock,        \* the client: who holds mu
    pc,          \* where each call stands, or how it ended
    size,        \* call -> size of its vectors
    wire,        \* requests Qdrant has not served yet
    reply,       \* call -> status of its last request, with its step
    trouble      \* what has gone wrong so far, of Troubles

qdrantVars == <<collection, points>>
clientVars == <<ensured, lock>>
callVars == <<pc, size, wire, reply>>
vars == <<startupVars, model, qdrantVars, clientVars, callVars, trouble>>

-----------------------------------------------------------------------------

\* The steps of a call that wait for Qdrant.
Requests == {"get", "create", "effect"}
Running == {"embedded"} \cup Requests
Failures == {"failed", "mismatch", "missing", "refused", "conflict"}
Ended == Failures \cup {"ok", "lost"}

Troubles == {"fault", "crash", "model", "dropped"}

Request(c, step) == [call |-> c, step |-> step]
NoReply == [step |-> "none", status |-> 0]
Reply(step, status) == [step |-> step, status |-> status]

TypeOK ==
    /\ StartupTypeOK
    /\ model \in Sizes
    /\ {collection, ensured} \subseteq Sizes \cup {0}
    /\ points \subseteq {Doc[c] : c \in Calls}
    /\ collection = 0 => points = {}
    /\ lock \in Calls \cup {NoCall}
    /\ \A c \in Calls : pc[c] \in {"get", "create"} <=> lock = c
    /\ stage # "up" => ensured = 0 /\ lock = NoCall
    /\ pc \in [Calls -> {"new"} \cup Running \cup Ended]
    /\ size \in [Calls -> Sizes \cup {0}]
    /\ wire \subseteq [call : Calls, step : Requests]
    /\ reply \in [Calls -> {NoReply} \cup
                           [step : Requests, status : {200, 400, 404, 409}]]
    /\ trouble \subseteq Troubles

Init ==
    /\ StartupInit
    /\ model \in Sizes
    /\ collection = 0 /\ points = {}
    /\ ensured = 0 /\ lock = NoCall
    /\ pc = [c \in Calls |-> "new"]
    /\ size = [c \in Calls |-> 0]
    /\ wire = {}
    /\ reply = [c \in Calls |-> NoReply]
    /\ trouble = {}

Go(c, from, to) ==
    /\ stage = "up"
    /\ pc[c] = from
    /\ pc' = [pc EXCEPT ![c] = to]

\* The call goes on with a request.
Send(c, from, step) ==
    /\ Go(c, from, step)
    /\ wire' = wire \cup {Request(c, step)}
    /\ reply' = [reply EXCEPT ![c] = NoReply]

-----------------------------------------------------------------------------
(* The client.                                                             *)

\* EmbedTexts, which the client's callers call first; a deletion goes to
\* Qdrant at once.
Embed(c) ==
    /\ IF Kind[c] = "delete"
         THEN Send(c, "new", "effect") /\ UNCHANGED size
         ELSE /\ Go(c, "new", "embedded")
              /\ size' = [size EXCEPT ![c] = model]
              /\ UNCHANGED <<wire, reply>>
    /\ UNCHANGED <<startupVars, model, qdrantVars, clientVars, trouble>>

\* It fails, or returns an empty vector or too few of them.
EmbedFails(c) ==
    /\ Kind[c] # "delete"
    /\ Go(c, "new", "failed")
    /\ trouble' = trouble \cup {"fault"}
    /\ UNCHANGED <<startupVars, model, qdrantVars, clientVars, size, wire, reply>>

\* Mutant: the lock protects the fields only, not the requests between.
LockAnytime == TRUE

\* c.mu.Lock() succeeds.
Unlocked == lock = NoCall

\* ensureCollection, with the lock, up to its first request.
Ensure(c) ==
    /\ Unlocked
    /\ \/ /\ ensured = 0
          /\ Send(c, "embedded", "get")
          /\ lock' = c
       \/ /\ ensured = size[c]
          /\ Send(c, "embedded", "effect")
          /\ UNCHANGED lock
       \/ /\ ensured \notin {0, size[c]}
          /\ Go(c, "embedded", "mismatch")
          /\ UNCHANGED <<lock, wire, reply>>
    /\ UNCHANGED <<startupVars, model, qdrantVars, ensured, size, trouble>>

Answered(c, step, status) == pc[c] = step /\ reply[c] = Reply(step, status)

\* The collection is there, of whatever size, or has just been created.
Ensured(c) ==
    /\ Answered(c, "get", 200) \/ Answered(c, "create", 200)
    /\ Send(c, pc[c], "effect")
    /\ ensured' = size[c]
    /\ lock' = NoCall
    /\ UNCHANGED <<startupVars, model, qdrantVars, size, trouble>>

\* Mutant: the collection counts as ensured before it is created.
CreateRemembered(c) ==
    /\ Answered(c, "get", 404)
    /\ Send(c, "get", "create")
    /\ ensured' = size[c]
    /\ lock' = NoCall
    /\ UNCHANGED <<startupVars, model, qdrantVars, size, trouble>>

Create(c) ==
    /\ Answered(c, "get", 404)
    /\ Send(c, "get", "create")
    /\ UNCHANGED <<startupVars, model, qdrantVars, clientVars, size, trouble>>

\* Mutant: an upsert into a collection that is gone succeeds, as a deletion does.
OutcomeMissingIsOk(c) ==
    CASE reply[c].status \in {200, 404} -> "ok"
      [] reply[c].status = 400 -> "refused"
      [] OTHER -> "conflict"

\* How a call ends that Qdrant answered with status.
Outcome(c) ==
    CASE reply[c].status = 200 -> "ok"
      [] reply[c].status = 404 -> IF Kind[c] = "delete" THEN "ok" ELSE "missing"
      [] reply[c].status = 400 -> "refused"
      [] OTHER -> "conflict"

\* The collection could not be created, or the request itself was answered.
Finish(c) ==
    /\ \/ Answered(c, "create", 409)
       \/ pc[c] = "effect" /\ reply[c].step = "effect"
    /\ Go(c, pc[c], Outcome(c))
    /\ lock' = IF lock = c THEN NoCall ELSE lock
    /\ UNCHANGED <<startupVars, model, qdrantVars, ensured, size, wire, reply,
                   trouble>>

\* Mutant: the lock is released only where ensureCollection succeeds.
GiveUpLocked(c) ==
    /\ pc[c] \in Requests
    /\ Go(c, pc[c], "failed")
    /\ trouble' = trouble \cup {"fault"}
    /\ UNCHANGED <<startupVars, model, qdrantVars, clientVars, size, wire, reply>>

\* The connection breaks, the client's timeout passes, or the caller's context
\* is cancelled; the request may be served all the same, now or later.
GiveUp(c) ==
    /\ pc[c] \in Requests
    /\ Go(c, pc[c], "failed")
    /\ lock' = IF lock = c THEN NoCall ELSE lock
    /\ reply' = [reply EXCEPT ![c] = IF pc[c] = "effect" THEN @ ELSE NoReply]
    /\ trouble' = trouble \cup {"fault"}
    /\ UNCHANGED <<startupVars, model, qdrantVars, ensured, size, wire>>

CallProceeds(c) ==
    \/ Embed(c) \/ EmbedFails(c) \/ Ensure(c) \/ Ensured(c)
    \/ Create(c) \/ Finish(c) \/ GiveUp(c)

-----------------------------------------------------------------------------
(* Qdrant and the rest of the world.                                       *)

\* The status of request r, and what it leaves behind.
Status(r) ==
    CASE r.step = "create" -> IF collection = 0 THEN 200 ELSE 409
      [] r.step = "get" \/ Kind[r.call] = "delete" ->
            IF collection = 0 THEN 404 ELSE 200
      [] OTHER -> IF collection = 0 THEN 404
                  ELSE IF collection = size[r.call] THEN 200 ELSE 400

Collection(r) ==
    IF r.step = "create" /\ collection = 0 THEN size[r.call] ELSE collection

Points(r) ==
    IF r.step # "effect" \/ Status(r) # 200 THEN points
    ELSE CASE Kind[r.call] = "upsert" -> points \cup {Doc[r.call]}
           [] Kind[r.call] = "delete" -> points \ {Doc[r.call]}
           [] OTHER -> points

Serve(r) ==
    /\ wire' = wire \ {r}
    /\ collection' = Collection(r)
    /\ points' = Points(r)
    /\ IF pc[r.call] = r.step \/ r.step = "effect"
         THEN reply' = [reply EXCEPT ![r.call] = Reply(r.step, Status(r))]
         ELSE UNCHANGED reply
    /\ UNCHANGED <<startupVars, model, clientVars, pc, size, trouble>>

\* A request nobody waits for any more never reaches Qdrant.
Vanish(r) ==
    /\ pc[r.call] \in Ended
    /\ wire' = wire \ {r}
    /\ UNCHANGED <<startupVars, model, qdrantVars, clientVars, pc, size, reply,
                   trouble>>

\* The Python service comes back with another embedding model.
ChangeModel ==
    /\ model' \in Sizes \ {model}
    /\ trouble' = trouble \cup {"model"}
    /\ UNCHANGED <<startupVars, qdrantVars, clientVars, callVars>>

\* Somebody drops the collection.
Drop ==
    /\ collection # 0
    /\ collection' = 0 /\ points' = {}
    /\ trouble' = trouble \cup {"dropped"}
    /\ UNCHANGED <<startupVars, model, clientVars, callVars>>

\* The process dies with its client and its calls, at any stage.
Crash ==
    /\ stage = "up" /\ stage' = "down"
    /\ ensured' = 0 /\ lock' = NoCall
    /\ pc' = [c \in Calls |-> IF pc[c] \in Running THEN "lost" ELSE pc[c]]
    /\ reply' = [c \in Calls |-> IF pc[c] \in {"get", "create"} THEN NoReply ELSE reply[c]]
    /\ trouble' = trouble \cup {"crash"}
    /\ UNCHANGED <<schema, bucket, model, qdrantVars, size, wire>>

StartUp ==
    /\ Start \/ Opens \/ OpenFails
    /\ UNCHANGED <<model, qdrantVars, clientVars, callVars, trouble>>

Next ==
    \/ \E c \in Calls : CallProceeds(c)
    \/ \E r \in wire : Serve(r) \/ Vanish(r)
    \/ ChangeModel \/ Drop \/ Crash \/ StartUp

Spec == Init /\ [][Next]_vars

\* A call that has begun goes on: goroutines run, a sync.Mutex goes to each
\* waiter in the end, and the HTTP client's timeout bounds every request.
\* Nothing is assumed of Qdrant, and no call must begin.
FairSpec ==
    Spec /\ \A c \in Calls : WF_vars(pc[c] # "new" /\ CallProceeds(c))

-----------------------------------------------------------------------------
(* Properties.                                                             *)

\* A call fails only for a reason outside the client: concurrent first calls
\* never collide over the creation of the collection, a vector is turned away
\* for its size only if the embedding model has changed, and the collection is
\* missing only if somebody dropped it.  A conflict needs a creation that was
\* served after its call had ended.
FailsWithReason ==
    \A c \in Calls :
        /\ pc[c] = "failed" => "fault" \in trouble
        /\ pc[c] \in {"mismatch", "refused"} => "model" \in trouble
        /\ pc[c] = "missing" => "dropped" \in trouble
        /\ pc[c] = "conflict" => {"fault", "crash"} \cap trouble # {}

\* Calls keep the promise of IndexPromise: success means that the points were
\* written or removed, a failure that they were, are going to be, or not.
Effective(c) ==
    /\ reply[c].step = "effect"
    /\ reply[c].status = 200 \/ Kind[c] = "delete"

Open(c) ==
    \/ pc[c] \in {"new", "embedded", "get", "create"}
    \/ Request(c, "effect") \in wire

Promise == INSTANCE IndexPromise WITH
    Call <- Calls,
    Gains <- [c \in Calls |-> IF Kind[c] = "upsert" THEN {Doc[c]} ELSE {}],
    Loses <- [c \in Calls |-> IF Kind[c] = "delete" THEN {Doc[c]} ELSE {}],
    held <- points,
    standing <- [c \in Calls |-> CASE Effective(c) -> "done"
                                   [] Open(c) -> "open"
                                   [] OTHER -> "closed"],
    answered <- [c \in Calls |-> CASE pc[c] = "ok" -> "ok"
                                   [] pc[c] \in Ended -> "failed"
                                   [] OTHER -> "none"]

KeepsIndexPromise == Promise!Spec

\* Every call ends: the lock is released on every path out of
\* ensureCollection, also when Qdrant never answers the call that holds it.
CallsEnd == \A c \in Calls : pc[c] \in Running ~> pc[c] \in Ended

=============================================================================
