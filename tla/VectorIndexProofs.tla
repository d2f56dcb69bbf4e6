-------------------------- MODULE VectorIndexProofs --------------------------
(***************************************************************************)
(* Theorems about VectorIndex and the start of core-go-rpc below it, for   *)
(* any number of calls of any kind about any documents, any sizes of       *)
(* vectors, and any order of requests, answers, losses and restarts.       *)
(***************************************************************************)
EXTENDS VectorIndex, TLAPS

-----------------------------------------------------------------------------
(* The inductive invariant.                                                *)

\* What a stage of the start finds in place.
Prepared ==
    /\ stage \in {"make bucket", "find bucket", "agent", "agent socket", "listener", "up"}
           => schema = Tables
    /\ stage \in {"agent", "agent socket", "listener", "up"} => bucket

\* A request travels, or its answer is kept, only while its call waits for it
\* or after the call has ended, and never both.
RequestsTrue ==
    \A c \in Calls, s \in Requests :
        /\ Request(c, s) \in wire \/ reply[c].step = s => pc[c] \in {s} \cup Ended
        /\ Request(c, s) \in wire => reply[c].step # s

\* Whoever asks for the collection, or about vectors, has embedded them.
SizesKnown ==
    \A c \in Calls :
        /\ pc[c] \in {"embedded", "get", "create"} =>
               Kind[c] # "delete" /\ size[c] \in Sizes
        /\ \A s \in Requests :
               Request(c, s) \in wire /\ (s # "effect" \/ Kind[c] # "delete") =>
                   size[c] \in Sizes

\* As long as the model stays, every size is that of its vectors.
OneSize ==
    "model" \notin trouble =>
        /\ {ensured, collection} \subseteq {0, model}
        /\ \A c \in Calls : size[c] \in {0, model} /\ reply[c].status # 400

\* As long as nobody drops it, a collection that was seen is there.
SeenStays ==
    "dropped" \notin trouble =>
        /\ ensured # 0 => collection # 0
        /\ \A c \in Calls :
               /\ reply[c].step \in {"get", "create"} /\ reply[c].status = 200 =>
                      collection # 0
               /\ Kind[c] # "delete" /\ Request(c, "effect") \in wire => collection # 0
               /\ Kind[c] # "delete" /\ reply[c].step = "effect" => reply[c].status # 404

\* As long as no call is cut short, only the lock's holder asks for the
\* collection, which is then not there.
OneCreator ==
    {"fault", "crash"} \cap trouble = {} =>
        \A c \in Calls :
            /\ Request(c, "create") \in wire => pc[c] = "create" /\ collection = 0
            /\ Answered(c, "get", 404) => collection = 0
            /\ reply[c].status # 409

IInv ==
    /\ Prepared /\ RequestsTrue /\ SizesKnown /\ OneSize /\ SeenStays /\ OneCreator
    /\ FailsWithReason

-----------------------------------------------------------------------------
(* Typing.                                                                 *)

\* A step of the start keeps its types and leaves "up" alone.
LEMMA StartupStep ==
    ASSUME StartupTypeOK, StartUp
    PROVE  StartupTypeOK' /\ stage # "up"
<1> USE DEF StartupTypeOK, Proceed, Opening, Tables
<1>1. CASE Start \/ OpenStore \/ OpenMySQL \/ Dial \/ Listen
  BY <1>1 DEF Start, OpenStore, OpenMySQL, Dial, Listen
<1>2. CASE CreateTable \/ CreateTableFails
  BY <1>2 DEF CreateTable, CreateTableFails
<1>3. CASE MakeBucket \/ MakeBucketFails \/ FindBucket \/ DialFails
  BY <1>3 DEF MakeBucket, MakeBucketFails, FindBucket, DialFails
<1>4. ASSUME NEW at \in Opening \ {"tables", "make bucket", "agent"}, Fatal(at)
      PROVE  StartupTypeOK' /\ stage # "up"
  BY <1>4 DEF Fatal
<1> QED
  BY <1>1, <1>2, <1>3, <1>4 DEF StartUp, Opens, OpenFails

\* A call moves alone.
LEMMA GoMoves ==
    ASSUME TypeOK, NEW c \in Calls, NEW from, NEW to \in Running \cup Ended,
           Go(c, from, to)
    PROVE  /\ stage = "up"
           /\ pc' \in [Calls -> {"new"} \cup Running \cup Ended]
           /\ pc[c] = from /\ pc'[c] = to
           /\ \A d \in Calls : d # c => pc'[d] = pc[d]
BY DEF TypeOK, Go

\* A request and an answer that is not there yet.
LEMMA SendType ==
    ASSUME TypeOK, NEW c \in Calls, NEW from, NEW step \in Requests, Send(c, from, step)
    PROVE  /\ Go(c, from, step) /\ step \in Running
           /\ wire' \subseteq [call : Calls, step : Requests]
           /\ reply' \in [Calls -> {NoReply} \cup
                              [step : Requests, status : {200, 400, 404, 409}]]
<1>1. Request(c, step) \in [call : Calls, step : Requests]
  BY DEF Request
<1> QED
  BY <1>1 DEF TypeOK, Send, Running

\* The lock follows the call that is about to ensure the collection.
LEMMA LockFollows ==
    ASSUME TypeOK, NEW c \in Calls, NEW from, NEW to \in Running \cup Ended,
           Go(c, from, to),
           lock' = IF to \in {"get", "create"} THEN c
                   ELSE IF lock = c THEN NoCall ELSE lock,
           to \in {"get", "create"} => lock \in {c, NoCall}
    PROVE  /\ lock' \in Calls \cup {NoCall}
           /\ \A d \in Calls : pc'[d] \in {"get", "create"} <=> lock' = d
<1>1. /\ pc'[c] = to
      /\ \A d \in Calls : d # c => pc'[d] = pc[d]
  BY GoMoves
<1> QED
  BY <1>1, NoCallIsNoCall DEF TypeOK

\* What a call's step has to show for the rest of its state.
LEMMA CallType ==
    ASSUME TypeOK, NEW c \in Calls, NEW from, NEW to \in Running \cup Ended,
           Go(c, from, to),
           lock' = IF to \in {"get", "create"} THEN c
                   ELSE IF lock = c THEN NoCall ELSE lock,
           to \in {"get", "create"} => lock \in {c, NoCall},
           ensured' \in Sizes \cup {0},
           size' \in [Calls -> Sizes \cup {0}],
           wire' \subseteq [call : Calls, step : Requests],
           reply' \in [Calls -> {NoReply} \cup
                           [step : Requests, status : {200, 400, 404, 409}]],
           trouble' \subseteq Troubles,
           UNCHANGED <<startupVars, model, qdrantVars>>
    PROVE  TypeOK'
<1>1. /\ stage = "up"
      /\ pc' \in [Calls -> {"new"} \cup Running \cup Ended]
  BY GoMoves
<1>2. /\ lock' \in Calls \cup {NoCall}
      /\ \A d \in Calls : pc'[d] \in {"get", "create"} <=> lock' = d
  BY LockFollows
<1> QED
  BY <1>1, <1>2 DEF TypeOK, StartupTypeOK, startupVars, qdrantVars

\* The same of a call that goes on with a request.
LEMMA SendStepType ==
    ASSUME TypeOK, NEW c \in Calls, NEW from, NEW step \in Requests, Send(c, from, step),
           lock' = IF step \in {"get", "create"} THEN c
                   ELSE IF lock = c THEN NoCall ELSE lock,
           step \in {"get", "create"} => lock \in {c, NoCall},
           ensured' \in Sizes \cup {0},
           UNCHANGED <<startupVars, model, qdrantVars, size, trouble>>
    PROVE  TypeOK'
<1>1. size \in [Calls -> Sizes \cup {0}] /\ trouble \subseteq Troubles
  BY DEF TypeOK
<1> QED
  BY <1>1, SendType, CallType

\* The client's steps keep the types.
LEMMA CallStepType ==
    ASSUME TypeOK, NEW c \in Calls, CallProceeds(c)
    PROVE  TypeOK'
<1>1. /\ ensured \in Sizes \cup {0} /\ model \in Sizes
      /\ size \in [Calls -> Sizes \cup {0}]
      /\ wire \subseteq [call : Calls, step : Requests]
      /\ reply \in [Calls -> {NoReply} \cup
                           [step : Requests, status : {200, 400, 404, 409}]]
      /\ trouble \subseteq Troubles
      /\ \A d \in Calls : pc[d] \in {"get", "create"} <=> lock = d
  BY DEF TypeOK
<1>2. "embedded" \in Running /\ Requests \subseteq Running /\ Failures \subseteq Ended
  BY DEF Running, Ended
<1>3. trouble \cup {"fault"} \subseteq Troubles
  BY <1>1 DEF Troubles
<1>4. CASE Embed(c)
  <2>1. lock # c
    BY <1>1, <1>4 DEF Embed, Send, Go
  <2>2. CASE Kind[c] = "delete"
    BY <1>1, <1>4, <2>1, <2>2, SendStepType DEF Embed, clientVars, Requests
  <2>3. CASE Kind[c] # "delete"
    <3>1. size' \in [Calls -> Sizes \cup {0}]
      BY <1>1, <1>4, <2>3 DEF Embed
    <3> QED
      BY <1>1, <1>2, <1>4, <2>1, <2>3, <3>1, CallType DEF Embed, clientVars
  <2> QED
    BY <2>2, <2>3
<1>5. CASE EmbedFails(c)
  <2>1. lock # c /\ Go(c, "new", "failed") /\ "failed" \in Failures
    BY <1>1, <1>5 DEF EmbedFails, Go, Failures
  <2> QED
    BY <1>1, <1>2, <1>3, <1>5, <2>1, CallType DEF EmbedFails, clientVars
<1>6. CASE Ensure(c)
  <2>1. /\ UNCHANGED <<startupVars, model, qdrantVars, ensured, size, trouble>>
        /\ lock = NoCall /\ lock # c
    BY <1>6, NoCallIsNoCall DEF Ensure, Unlocked
  <2>2. CASE Send(c, "embedded", "get") /\ lock' = c
    BY <1>1, <2>1, <2>2, SendStepType DEF Requests
  <2>3. CASE Send(c, "embedded", "effect") /\ UNCHANGED lock
    BY <1>1, <2>1, <2>3, SendStepType DEF Requests
  <2>4. CASE Go(c, "embedded", "mismatch") /\ UNCHANGED <<lock, wire, reply>>
    <3>1. "mismatch" \in Failures
      BY DEF Failures
    <3> QED
      BY <1>1, <1>2, <2>1, <2>4, <3>1, CallType
  <2> QED
    BY <1>6, <2>2, <2>3, <2>4 DEF Ensure
<1>7. CASE Ensured(c)
  <2>1. lock = c
    BY <1>1, <1>7 DEF Ensured, Answered
  <2> QED
    BY <1>1, <1>7, <2>1, SendStepType DEF Ensured, qdrantVars, Requests
<1>8. CASE Create(c)
  <2>1. lock = c
    BY <1>1, <1>8 DEF Create, Answered
  <2> QED
    BY <1>1, <1>8, <2>1, SendStepType DEF Create, clientVars, Requests
<1>9. CASE Finish(c)
  <2>1. Outcome(c) \in Ended \ {"get", "create"}
    BY DEF Outcome, Ended, Failures
  <2> QED
    BY <1>1, <1>9, <2>1, CallType DEF Finish
<1>10. CASE GiveUp(c)
  <2>1. reply' \in [Calls -> {NoReply} \cup
                           [step : Requests, status : {200, 400, 404, 409}]]
    BY <1>1, <1>10 DEF GiveUp
  <2>2. "failed" \in Failures
    BY DEF Failures
  <2> QED
    BY <1>1, <1>2, <1>3, <1>10, <2>1, <2>2, CallType DEF GiveUp
<1> QED
  BY <1>4, <1>5, <1>6, <1>7, <1>8, <1>9, <1>10 DEF CallProceeds

\* What Qdrant does with a request.
LEMMA ServeMoves ==
    ASSUME TypeOK, NEW r \in wire
    PROVE  /\ r.call \in Calls /\ r.step \in Requests
           /\ Status(r) \in {200, 400, 404, 409}
           /\ Collection(r) \in Sizes \cup {0}
           /\ Points(r) \subseteq {Doc[c] : c \in Calls}
           /\ Collection(r) = 0 => Points(r) = {}
<1>1. r \in [call : Calls, step : Requests]
  BY DEF TypeOK
<1>2. r.call \in Calls /\ r.step \in Requests
  BY <1>1
<1>3. Status(r) \in {200, 400, 404, 409}
  BY DEF Status
<1>4. Collection(r) \in Sizes \cup {0}
  BY <1>2 DEF Collection, TypeOK
<1>5. Points(r) \in {points, points \cup {Doc[r.call]}, points \ {Doc[r.call]}}
  BY DEF Points
<1>6. Points(r) \subseteq {Doc[c] : c \in Calls}
  BY <1>2, <1>5 DEF TypeOK
<1>7. Collection(r) = 0 => collection = 0
  BY DEF Collection
<1>8. collection = 0 => Points(r) = points \/ Points(r) = points \ {Doc[r.call]}
  BY DEF Points, Status
<1> QED
  BY <1>2, <1>3, <1>4, <1>6, <1>7, <1>8 DEF TypeOK

\* The steps of Qdrant, the agent, the operator and the process keep the types.
LEMMA WorldStepType ==
    ASSUME TypeOK,
           \/ \E r \in wire : Serve(r) \/ Vanish(r)
           \/ ChangeModel \/ Drop \/ Crash \/ StartUp
    PROVE  TypeOK'
<1> USE DEF TypeOK, StartupTypeOK, startupVars, qdrantVars, clientVars, callVars, Troubles
<1>1. ASSUME NEW r \in wire, Serve(r) PROVE TypeOK'
  <2>1. reply' \in [Calls -> {NoReply} \cup
                           [step : Requests, status : {200, 400, 404, 409}]]
    BY <1>1, ServeMoves DEF Serve, Reply
  <2> QED
    BY <1>1, <2>1, ServeMoves DEF Serve
<1>2. ASSUME NEW r \in wire, Vanish(r) PROVE TypeOK'
  BY <1>2 DEF Vanish
<1>3. CASE ChangeModel
  BY <1>3 DEF ChangeModel
<1>4. CASE Drop
  BY <1>4 DEF Drop
<1>5. CASE Crash
  <2>1. pc' \in [Calls -> {"new"} \cup Running \cup Ended]
    BY <1>5 DEF Crash, Running, Ended
  <2>2. \A c \in Calls : pc'[c] \notin {"get", "create"}
    BY <1>5 DEF Crash, Running, Requests
  <2>3. reply' \in [Calls -> {NoReply} \cup
                           [step : Requests, status : {200, 400, 404, 409}]]
    BY <1>5 DEF Crash
  <2> QED
    BY <1>5, <2>1, <2>2, <2>3, NoCallIsNoCall DEF Crash
<1>6. CASE StartUp
  <2>1. StartupTypeOK' /\ stage # "up"
    BY <1>6, StartupStep
  <2> QED
    BY <1>6, <2>1 DEF StartUp
<1> QED
  BY <1>1, <1>2, <1>3, <1>4, <1>5, <1>6

\* Every variable keeps its type, the lock is held by the call that is ensuring
\* the collection and by nobody while the process is down, and a collection
\* that is not there has no points.
THEOREM TypeCorrect == Spec => []TypeOK
<1>1. Init => TypeOK
  BY NoCallIsNoCall DEF Init, TypeOK, StartupInit, StartupTypeOK, Tables
<1>2. TypeOK /\ [Next]_vars => TypeOK'
  <2>1. TypeOK /\ UNCHANGED vars => TypeOK'
    BY DEF vars, TypeOK, StartupTypeOK, startupVars, qdrantVars, clientVars, callVars
  <2> QED
    BY <2>1, CallStepType, WorldStepType DEF Next
<1> QED
  BY <1>1, <1>2, PTL DEF Spec

-----------------------------------------------------------------------------
(* The inductive invariant is kept, part by part.                          *)

\* The start has the inductive invariant.
LEMMA InitIInv == Init => IInv
<1> SUFFICES ASSUME Init PROVE IInv
  OBVIOUS
<1>1. Prepared
  BY DEF Init, StartupInit, Prepared
<1>2. RequestsTrue /\ SizesKnown /\ OneSize /\ SeenStays /\ OneCreator
  BY DEF Init, RequestsTrue, SizesKnown, OneSize, SeenStays, OneCreator, Requests,
         NoReply, Answered, Reply, Request
<1>3. FailsWithReason
  BY DEF Init, FailsWithReason
<1> QED
  BY <1>1, <1>2, <1>3 DEF IInv

\* The steps of the start bring about what later stages rely on.
LEMMA PreparedStep ==
    ASSUME TypeOK, Prepared, [Next]_vars
    PROVE  Prepared'
<1> USE DEF Prepared
<1>1. CASE StartUp
  <2> USE DEF Proceed, Tables
  <2>1. CASE Start \/ OpenStore \/ OpenMySQL \/ Dial \/ Listen
    BY <2>1 DEF Start, OpenStore, OpenMySQL, Dial, Listen
  <2>2. CASE CreateTable \/ CreateTableFails
    BY <2>2 DEF CreateTable, CreateTableFails
  <2>3. CASE MakeBucket \/ MakeBucketFails \/ FindBucket \/ DialFails
    BY <2>3 DEF MakeBucket, MakeBucketFails, FindBucket, DialFails
  <2>4. ASSUME NEW at, Fatal(at) PROVE Prepared'
    BY <2>4 DEF Fatal
  <2> QED
    BY <1>1, <2>1, <2>2, <2>3, <2>4 DEF StartUp, Opens, OpenFails
<1>2. CASE Crash
  BY <1>2 DEF Crash
<1>3. ASSUME UNCHANGED startupVars PROVE Prepared'
  BY <1>3 DEF startupVars
<1>4. ASSUME NEW c \in Calls, CallProceeds(c) PROVE UNCHANGED startupVars
  BY <1>4 DEF CallProceeds, Embed, EmbedFails, Ensure, Ensured, Create, Finish, GiveUp
<1>5. ASSUME NEW r \in wire, Serve(r) \/ Vanish(r) PROVE UNCHANGED startupVars
  BY <1>5 DEF Serve, Vanish
<1>6. CASE ChangeModel \/ Drop \/ UNCHANGED vars
  BY <1>6, <1>3 DEF ChangeModel, Drop, vars
<1> QED
  BY <1>1, <1>2, <1>3, <1>4, <1>5, <1>6 DEF Next

\* A call's step is about that call alone; it leaves Qdrant to Qdrant.
LEMMA CallAlone ==
    ASSUME TypeOK, NEW c \in Calls, CallProceeds(c)
    PROVE  /\ UNCHANGED <<model, collection, points>> /\ trouble \subseteq trouble'
           /\ \A d \in Calls \ {c} :
                 /\ pc'[d] = pc[d] /\ size'[d] = size[d] /\ reply'[d] = reply[d]
                 /\ \A s : Request(d, s) \in wire' <=> Request(d, s) \in wire
<1> USE DEF TypeOK, Go, Send, Request, qdrantVars
<1>1. CASE Embed(c)
  BY <1>1 DEF Embed
<1>2. CASE EmbedFails(c)
  BY <1>2 DEF EmbedFails
<1>3. CASE Ensure(c)
  BY <1>3 DEF Ensure
<1>4. CASE Ensured(c)
  BY <1>4 DEF Ensured
<1>5. CASE Create(c)
  BY <1>5 DEF Create
<1>6. CASE Finish(c)
  BY <1>6 DEF Finish
<1>7. CASE GiveUp(c)
  BY <1>7 DEF GiveUp
<1> QED
  BY <1>1, <1>2, <1>3, <1>4, <1>5, <1>6, <1>7 DEF CallProceeds

\* A reply names its step and its status.
LEMMA ReplyFields ==
    /\ \A step, status : Reply(step, status).step = step
    /\ \A step, status : Reply(step, status).status = status
BY DEF Reply

\* What a call does to its own state.
LEMMA CallMoves ==
    ASSUME TypeOK, NEW c \in Calls, CallProceeds(c)
    PROVE  \/ \E step \in Requests :
                 /\ Send(c, pc[c], step) /\ pc'[c] = step /\ reply'[c] = NoReply
                 /\ \A s : Request(c, s) \in wire' <=> Request(c, s) \in wire \/ s = step
                 /\ UNCHANGED size
                 /\ \/ pc[c] = "new" /\ Kind[c] = "delete" /\ step = "effect"
                       /\ UNCHANGED ensured
                    \/ pc[c] = "embedded" /\ step = "get" /\ UNCHANGED ensured
                    \/ pc[c] = "embedded" /\ step = "effect" /\ ensured = size[c]
                       /\ UNCHANGED ensured
                    \/ Answered(c, pc[c], 200) /\ pc[c] \in {"get", "create"}
                       /\ step = "effect" /\ ensured' = size[c]
                    \/ Answered(c, "get", 404) /\ step = "create" /\ UNCHANGED ensured
           \/ /\ UNCHANGED <<wire, ensured>> /\ pc'[c] = "embedded" /\ pc[c] = "new"
              /\ Kind[c] # "delete" /\ size'[c] = model /\ UNCHANGED reply
           \/ /\ UNCHANGED <<wire, ensured, size>> /\ pc'[c] \in Ended
              /\ \/ reply'[c] = reply[c] /\ pc[c] \notin {"get", "create"}
                 \/ reply'[c] = NoReply /\ pc[c] \in {"get", "create"}
                 \/ reply'[c] = reply[c] /\ Answered(c, "create", 409)
<1> USE DEF TypeOK, Go, Request
<1>1. CASE Embed(c)
  BY <1>1 DEF Embed, Send, clientVars, Requests
<1>2. CASE EmbedFails(c)
  BY <1>2 DEF EmbedFails, clientVars, Ended, Failures
<1>3. CASE Ensure(c)
  BY <1>3 DEF Ensure, Send, Requests, Ended, Failures
<1>4. CASE Ensured(c)
  BY <1>4 DEF Ensured, Send, Requests, Answered
<1>5. CASE Create(c)
  BY <1>5 DEF Create, Send, Requests, Answered, clientVars
<1>6. CASE Finish(c)
  BY <1>6 DEF Finish, Outcome, Ended, Failures, Answered
<1>7. CASE GiveUp(c)
  BY <1>7 DEF GiveUp, Ended, Failures, Requests
<1> QED
  BY <1>1, <1>2, <1>3, <1>4, <1>5, <1>6, <1>7 DEF CallProceeds

\* How an answer reaches a call, and whom it leaves alone.
LEMMA ServeAlone ==
    ASSUME TypeOK, NEW r \in wire, Serve(r)
    PROVE  /\ r.call \in Calls /\ r.step \in Requests /\ r = Request(r.call, r.step)
           /\ UNCHANGED <<model, ensured, lock, pc, size, trouble>>
           /\ wire' = wire \ {r}
           /\ \/ reply'[r.call] = Reply(r.step, Status(r))
                 /\ (pc[r.call] = r.step \/ r.step = "effect")
              \/ reply'[r.call] = reply[r.call] /\ r.step # "effect"
           /\ \A d \in Calls \ {r.call} : reply'[d] = reply[d]
BY DEF TypeOK, Serve, Request, clientVars

\* Every step keeps requests under way and replies those of the calls that wait.
LEMMA RequestsStep ==
    ASSUME TypeOK, RequestsTrue, [Next]_vars
    PROVE  RequestsTrue'
<1> DEFINE True(d) == \A s \in Requests :
        /\ Request(d, s) \in wire \/ reply[d].step = s => pc[d] \in {s} \cup Ended
        /\ Request(d, s) \in wire => reply[d].step # s
<1> SUFFICES ASSUME NEW d \in Calls, True(d) PROVE True(d)'
  BY DEF RequestsTrue
<1>1. ASSUME CallProceeds(d) PROVE True(d)'
  <2>1. pc[d] \in {"new"} \cup Running \cup Ended /\ pc[d] \notin Ended
    BY <1>1 DEF TypeOK, CallProceeds, Embed, EmbedFails, Ensure, Ensured, Create, Finish,
                GiveUp, Send, Go, Ended, Failures, Requests, Answered
  <2>2. ASSUME NEW s \in Requests, Request(d, s) \in wire
        PROVE  pc[d] = s /\ reply[d].step # s
    BY <2>1, <2>2
  <2>3. ASSUME NEW step \in Requests, pc'[d] = step, reply'[d] = NoReply,
               \A s : Request(d, s) \in wire' <=> Request(d, s) \in wire \/ s = step,
               \A s \in Requests : Request(d, s) \notin wire
        PROVE  True(d)'
    BY <2>3 DEF NoReply, Requests
  <2>4. ASSUME wire' = wire, pc'[d] \in Ended, reply'[d] \in {reply[d], NoReply}
        PROVE  True(d)'
    BY <2>2, <2>4 DEF NoReply, Requests
  <2>5. ASSUME wire' = wire, reply' = reply, pc[d] = "new", pc'[d] = "embedded"
        PROVE  True(d)'
    BY <2>5 DEF Requests, Ended, Failures
  <2>6. ASSUME NEW step \in Requests, pc'[d] = step, reply'[d] = NoReply,
               \A s : Request(d, s) \in wire' <=> Request(d, s) \in wire \/ s = step,
               \/ pc[d] \in {"new", "embedded"}
               \/ \E status : Answered(d, pc[d], status)
        PROVE  True(d)'
    <3>1. pc[d] \notin Requests \/ reply[d].step = pc[d]
      BY <2>6, ReplyFields DEF Requests, Answered
    <3>2. \A s \in Requests : Request(d, s) \notin wire
      BY <2>2, <3>1
    <3> QED
      BY <2>3, <2>6, <3>2
  <2>7. CASE \E step \in Requests :
                /\ pc'[d] = step /\ reply'[d] = NoReply
                /\ \A s : Request(d, s) \in wire' <=> Request(d, s) \in wire \/ s = step
                /\ \/ pc[d] \in {"new", "embedded"}
                   \/ \E status : Answered(d, pc[d], status)
    BY <2>6, <2>7
  <2> QED
    BY <1>1, <2>4, <2>5, <2>7, CallMoves DEF Answered
<1>2. ASSUME NEW c \in Calls, CallProceeds(c), c # d PROVE True(d)'
  BY <1>2, CallAlone
<1>3. ASSUME NEW r \in wire, Serve(r) PROVE True(d)'
  <2>1. CASE d = r.call
    <3>1. /\ r = Request(d, r.step) /\ r.step \in Requests
          /\ wire' = wire \ {r} /\ pc' = pc
          /\ reply'[d] = reply[d] \/ reply'[d].step = r.step
      BY <1>3, <2>1, ServeAlone, ReplyFields
    <3>2. ASSUME NEW s \in Requests, Request(d, s) \in wire'
          PROVE  s # r.step /\ Request(d, s) \in wire
      BY <3>1, <3>2
    <3>3. pc[d] \in {r.step} \cup Ended
      BY <3>1
    <3>4. ASSUME NEW s \in Requests, reply'[d].step = s
          PROVE  pc[d] \in {s} \cup Ended
      BY <3>1, <3>3, <3>4
    <3>5. ASSUME NEW s \in Requests, Request(d, s) \in wire'
          PROVE  pc[d] \in {s} \cup Ended /\ reply'[d].step # s
      BY <3>1, <3>2, <3>5
    <3> QED
      BY <3>1, <3>4, <3>5
  <2>2. CASE d # r.call
    BY <1>3, <2>2, ServeAlone
  <2> QED
    BY <2>1, <2>2
<1>4. ASSUME NEW r \in wire, Vanish(r) PROVE True(d)'
  BY <1>4 DEF Vanish
<1>5. CASE Crash
  BY <1>5 DEF Crash, TypeOK, NoReply, Running, Ended, Requests
<1>6. CASE ChangeModel \/ Drop \/ StartUp \/ UNCHANGED vars
  BY <1>6 DEF ChangeModel, Drop, StartUp, vars, callVars
<1> QED
  BY <1>1, <1>2, <1>3, <1>4, <1>5, <1>6 DEF Next

\* Every step keeps that whoever asks about vectors has embedded them.
LEMMA SizesStep ==
    ASSUME TypeOK, RequestsTrue, SizesKnown, [Next]_vars
    PROVE  SizesKnown'
<1> DEFINE Known(d) ==
        /\ pc[d] \in {"embedded", "get", "create"} => Kind[d] # "delete" /\ size[d] \in Sizes
        /\ \A s \in Requests :
               Request(d, s) \in wire /\ (s # "effect" \/ Kind[d] # "delete") =>
                   size[d] \in Sizes
<1> SUFFICES ASSUME NEW d \in Calls, Known(d) PROVE Known(d)'
  BY DEF SizesKnown
<1>1. ASSUME NEW c \in Calls, CallProceeds(c), c = d PROVE Known(d)'
  <2>1. model \in Sizes
    BY DEF TypeOK
  <2> QED
    BY <1>1, <2>1, CallMoves DEF RequestsTrue, Requests, Ended, Failures, Answered
<1>2. ASSUME NEW c \in Calls, CallProceeds(c), c # d PROVE Known(d)'
  BY <1>2, CallAlone
<1>3. ASSUME NEW r \in wire, Serve(r) PROVE Known(d)'
  BY <1>3, ServeAlone
<1>4. ASSUME NEW r \in wire, Vanish(r) PROVE Known(d)'
  BY <1>4 DEF Vanish
<1>5. CASE Crash
  BY <1>5 DEF Crash, TypeOK
<1>6. CASE ChangeModel \/ Drop \/ StartUp \/ UNCHANGED vars
  BY <1>6 DEF ChangeModel, Drop, StartUp, vars, callVars
<1> QED
  BY <1>1, <1>2, <1>3, <1>4, <1>5, <1>6 DEF Next

\* Nothing but the deaths of the process and the losses of its calls is ever
\* taken off the list of troubles, and only a change of the model changes it.
LEMMA TroublesGrow ==
    ASSUME TypeOK, [Next]_vars
    PROVE  /\ trouble \subseteq trouble'
           /\ "model" \in trouble' \/ model' = model
<1>1. ASSUME NEW c \in Calls, CallProceeds(c)
      PROVE  trouble \subseteq trouble' /\ model' = model
  BY <1>1, CallAlone
<1>2. ASSUME NEW r \in wire, Serve(r) \/ Vanish(r)
      PROVE  trouble \subseteq trouble' /\ model' = model
  BY <1>2 DEF Serve, Vanish
<1>3. CASE Drop \/ Crash \/ StartUp \/ UNCHANGED vars
  BY <1>3 DEF Drop, Crash, StartUp, vars
<1>4. CASE ChangeModel
  BY <1>4 DEF ChangeModel
<1> QED
  BY <1>1, <1>2, <1>3, <1>4 DEF Next

\* A vector is turned away for its size only after the model has changed.
LEMMA OneSizeStep ==
    ASSUME TypeOK, SizesKnown, OneSize, [Next]_vars
    PROVE  OneSize'
<1> SUFFICES ASSUME "model" \notin trouble'
             PROVE  /\ {ensured', collection'} \subseteq {0, model'}
                    /\ \A d \in Calls : size'[d] \in {0, model'} /\ reply'[d].status # 400
  BY DEF OneSize
<1>1. /\ model' = model /\ {ensured, collection} \subseteq {0, model}
      /\ \A d \in Calls : size[d] \in {0, model} /\ reply[d].status # 400
  BY TroublesGrow DEF OneSize
<1>2. ASSUME NEW c \in Calls, CallProceeds(c)
      PROVE  /\ {ensured', collection'} \subseteq {0, model'}
             /\ \A d \in Calls : size'[d] \in {0, model'} /\ reply'[d].status # 400
  <2>1. collection' = collection /\ ensured' \in {ensured, size[c]}
    BY <1>2, CallAlone, CallMoves
  <2>2. size'[c] \in {size[c], model} /\ reply'[c] \in {reply[c], NoReply}
    BY <1>2, CallMoves
  <2>3. NoReply.status # 400
    BY DEF NoReply
  <2> QED
    BY <1>1, <1>2, <2>1, <2>2, <2>3, CallAlone
<1>3. ASSUME NEW r \in wire, Serve(r)
      PROVE  /\ {ensured', collection'} \subseteq {0, model'}
             /\ \A d \in Calls : size'[d] \in {0, model'} /\ reply'[d].status # 400
  <2>1. collection' \in {collection, size[r.call]}
    BY <1>3 DEF Serve, Collection
  <2>2. r.call \in Calls /\ r.step \in Requests /\ r = Request(r.call, r.step)
    BY <1>3, ServeAlone
  <2>3. r.step = "effect" /\ Kind[r.call] # "delete" => size[r.call] = model
    BY <2>2, <1>1, SizesPositive DEF SizesKnown
  <2>4. Status(r) # 400
    BY <1>1, <2>2, <2>3 DEF Status, Requests
  <2>5. \A d \in Calls : reply'[d].status # 400
    BY <1>1, <1>3, <2>4, ServeAlone, ReplyFields
  <2> QED
    BY <1>1, <1>3, <2>1, <2>2, <2>5, ServeAlone
<1>4. ASSUME NEW r \in wire, Vanish(r) PROVE UNCHANGED <<ensured, collection, size, reply>>
  BY <1>4 DEF Vanish, clientVars, qdrantVars
<1>5. CASE Crash
  BY <1>1, <1>5 DEF Crash, TypeOK, NoReply, qdrantVars
<1>6. CASE Drop
  BY <1>1, <1>6 DEF Drop, clientVars, callVars
<1>7. CASE ChangeModel \/ StartUp \/ UNCHANGED vars
  BY <1>1, <1>7 DEF ChangeModel, StartUp, vars, clientVars, qdrantVars, callVars
<1> QED
  BY <1>1, <1>2, <1>3, <1>4, <1>5, <1>6, <1>7 DEF Next

\* A collection that was found or created is missed only after it was dropped.
LEMMA SeenStep ==
    ASSUME TypeOK, RequestsTrue, SizesKnown, SeenStays, [Next]_vars
    PROVE  SeenStays'
<1> DEFINE Seen(d) ==
        /\ reply[d].step \in {"get", "create"} /\ reply[d].status = 200 => collection # 0
        /\ Kind[d] # "delete" /\ Request(d, "effect") \in wire => collection # 0
        /\ Kind[d] # "delete" /\ reply[d].step = "effect" => reply[d].status # 404
<1> SUFFICES ASSUME "dropped" \notin trouble'
             PROVE  /\ ensured' # 0 => collection' # 0
                    /\ \A d \in Calls : Seen(d)'
  BY DEF SeenStays
<1>1. /\ ensured # 0 => collection # 0
      /\ \A d \in Calls : Seen(d)
  BY TroublesGrow DEF SeenStays
<1>2. ASSUME NEW c \in Calls, CallProceeds(c)
      PROVE  (ensured' # 0 => collection' # 0) /\ \A d \in Calls : Seen(d)'
  <2>1. collection' = collection
    BY <1>2, CallAlone
  <2>2. \A d \in Calls \ {c} : Seen(d)'
    BY <1>1, <1>2, CallAlone
  <2>3. CASE /\ wire' = wire /\ ensured' = ensured
             /\ reply'[c] = reply[c] \/ reply'[c] = NoReply
    BY <1>1, <2>1, <2>2, <2>3 DEF NoReply
  <2>4. ASSUME NEW step \in Requests, reply'[c] = NoReply,
               \A s : Request(c, s) \in wire' <=> Request(c, s) \in wire \/ s = step,
               ensured' # 0 => collection # 0,
               step = "effect" /\ Kind[c] # "delete" => collection # 0
        PROVE  (ensured' # 0 => collection' # 0) /\ \A d \in Calls : Seen(d)'
    BY <1>1, <2>1, <2>2, <2>4 DEF NoReply
  <2>5. pc[c] = "embedded" => size[c] # 0
    BY SizesPositive DEF SizesKnown
  <2>6. Answered(c, pc[c], 200) /\ pc[c] \in {"get", "create"} => collection # 0
    BY <1>1, ReplyFields DEF Answered
  <2> QED
    BY <1>1, <1>2, <2>3, <2>4, <2>5, <2>6, CallMoves
<1>3. ASSUME NEW r \in wire, Serve(r)
      PROVE  (ensured' # 0 => collection' # 0) /\ \A d \in Calls : Seen(d)'
  <2>1. /\ r.call \in Calls /\ r.step \in Requests /\ r = Request(r.call, r.step)
        /\ ensured' = ensured /\ wire' \subseteq wire
        /\ \A d \in Calls \ {r.call} : reply'[d] = reply[d]
        /\ \/ reply'[r.call] = reply[r.call]
           \/ reply'[r.call] = Reply(r.step, Status(r))
    BY <1>3, ServeAlone
  <2>2. /\ collection # 0 => collection' # 0
        /\ r.step = "create" => collection' # 0
    <3>1. r.step = "create" => size[r.call] # 0
      BY <2>1, SizesPositive DEF SizesKnown, Requests
    <3> QED
      BY <1>3, <3>1 DEF Serve, Collection
  <2>3. r.step = "get" /\ Status(r) = 200 => collection # 0
    BY DEF Status
  <2>4. r.step = "effect" /\ Kind[r.call] # "delete" => Status(r) # 404
    BY <1>1, <2>1 DEF Status
  <2>5. Reply(r.step, Status(r)).step = r.step /\ Reply(r.step, Status(r)).status = Status(r)
    BY ReplyFields
  <2>6. \A d \in Calls \ {r.call} : Seen(d)'
    BY <1>1, <2>1, <2>2
  <2>7. CASE reply'[r.call] = reply[r.call]
    BY <1>1, <2>1, <2>2, <2>6, <2>7
  <2>8. CASE reply'[r.call] = Reply(r.step, Status(r))
    BY <1>1, <2>1, <2>2, <2>3, <2>4, <2>5, <2>6, <2>8
  <2> QED
    BY <2>1, <2>7, <2>8
<1>4. ASSUME NEW r \in wire, Vanish(r)
      PROVE  (ensured' # 0 => collection' # 0) /\ \A d \in Calls : Seen(d)'
  BY <1>1, <1>4 DEF Vanish, clientVars, qdrantVars
<1>5. CASE Crash
  <2>1. ensured' = 0 /\ UNCHANGED <<collection, wire>>
    BY <1>5 DEF Crash, qdrantVars
  <2>2. \A d \in Calls : reply'[d] = reply[d] \/ reply'[d] = NoReply
    BY <1>5 DEF Crash
  <2> QED
    BY <1>1, <2>1, <2>2 DEF NoReply
<1>6. CASE ChangeModel \/ StartUp \/ UNCHANGED vars
  BY <1>1, <1>6 DEF ChangeModel, StartUp, vars, clientVars, qdrantVars, callVars
<1>7. ~Drop
  BY DEF Drop
<1> QED
  BY <1>2, <1>3, <1>4, <1>5, <1>6, <1>7 DEF Next

\* While no call is cut short, whoever creates the collection holds the lock,
\* and so found it missing after every other creation.
LEMMA OneCreatorStep ==
    ASSUME TypeOK, RequestsTrue, OneCreator, [Next]_vars
    PROVE  OneCreator'
<1> DEFINE Alone(d) ==
        /\ Request(d, "create") \in wire => pc[d] = "create" /\ collection = 0
        /\ Answered(d, "get", 404) => collection = 0
        /\ reply[d].status # 409
<1> SUFFICES ASSUME {"fault", "crash"} \cap trouble' = {} PROVE \A d \in Calls : Alone(d)'
  BY DEF OneCreator
<1>1. \A d \in Calls : Alone(d)
  BY TroublesGrow DEF OneCreator
<1>2. ASSUME NEW c \in Calls, CallProceeds(c) PROVE \A d \in Calls : Alone(d)'
  <2>1. collection' = collection
    BY <1>2, CallAlone
  <2>2. \A d \in Calls \ {c} : Alone(d)'
    BY <1>1, <1>2, <2>1, CallAlone DEF Answered
  <2>3. ~EmbedFails(c) /\ ~GiveUp(c)
    BY DEF EmbedFails, GiveUp
  <2>4. pc[c] = "create" /\ Request(c, "create") \in wire => reply[c].step # "create"
    BY DEF RequestsTrue, Requests
  <2>5. ASSUME pc'[c] # "create" PROVE Request(c, "create") \notin wire'
    <3>1. Request(c, "create") \in wire' => Request(c, "create") \in wire /\ pc[c] = "create"
      BY <1>1, <1>2, <2>5, CallMoves
    <3>2. pc[c] = "create" => reply[c].step = "create"
      BY <1>2, <2>3, ReplyFields
      DEF CallProceeds, Embed, Ensure, Ensured, Create, Finish, Send, Go, Answered
    <3> QED
      BY <2>4, <3>1, <3>2
  <2>6. pc'[c] = "create" => collection = 0
    BY <1>1, <1>2, CallMoves DEF Requests, Ended, Failures
  <2>7. reply'[c] \in {reply[c], NoReply}
    BY <1>2, CallMoves
  <2>8. NoReply.status \notin {404, 409}
    BY DEF NoReply
  <2>9. ~Answered(c, "get", 404)'
    BY <1>2, <2>8, CallMoves, ReplyFields DEF Answered, Ended, Failures
  <2> QED
    BY <1>1, <2>1, <2>2, <2>5, <2>6, <2>7, <2>8, <2>9
<1>3. ASSUME NEW r \in wire, Serve(r) PROVE \A d \in Calls : Alone(d)'
  <2>1. /\ r.call \in Calls /\ r.step \in Requests /\ r = Request(r.call, r.step)
        /\ pc' = pc /\ wire' = wire \ {r}
        /\ \A d \in Calls \ {r.call} : reply'[d] = reply[d]
        /\ \/ reply'[r.call] = reply[r.call]
           \/ reply'[r.call] = Reply(r.step, Status(r))
    BY <1>3, ServeAlone
  <2>2. r.step = "create" => pc[r.call] = "create" /\ collection = 0
    BY <1>1, <2>1
  <2>3. Status(r) # 409
    BY <2>2 DEF Status
  <2>4. ASSUME NEW d \in Calls, r.step = "create", d # r.call
        PROVE  pc[d] \notin {"get", "create"}
    BY <2>1, <2>2, <2>4 DEF TypeOK
  <2>5. r.step # "create" => collection' = collection
    BY <1>3 DEF Serve, Collection
  <2>6. r.step = "get" /\ Status(r) = 404 => collection = 0
    BY DEF Status
  <2>7. ASSUME NEW d \in Calls PROVE reply'[d].status # 409
    BY <1>1, <2>1, <2>3, ReplyFields
  <2>8. ASSUME NEW d \in Calls, Request(d, "create") \in wire'
        PROVE  pc'[d] = "create" /\ collection' = 0
    <3>1. Request(d, "create") \in wire /\ Request(d, "create") # r
      BY <2>1, <2>8
    <3>2. pc[d] = "create" /\ collection = 0
      BY <1>1, <3>1
    <3>3. r.step # "create"
      BY <2>1, <2>4, <3>1, <3>2
    <3> QED
      BY <2>1, <2>5, <3>2, <3>3
  <2>9. ASSUME NEW d \in Calls, Answered(d, "get", 404)'
        PROVE  collection' = 0
    <3>1. pc[d] = "get" /\ reply'[d].step = "get" /\ reply'[d].status = 404
      BY <2>1, <2>9, ReplyFields DEF Answered
    <3>2. r.step # "create"
      BY <2>2, <2>4, <3>1
    <3>3. CASE reply'[d] = reply[d]
      BY <1>1, <2>1, <2>5, <2>9, <3>2, <3>3 DEF Answered
    <3>4. CASE d = r.call /\ reply'[d] = Reply(r.step, Status(r))
      BY <2>5, <2>6, <3>1, <3>2, <3>4, ReplyFields
    <3> QED
      BY <2>1, <3>3, <3>4
  <2> QED
    BY <2>7, <2>8, <2>9
<1>4. ASSUME NEW r \in wire, Vanish(r) PROVE \A d \in Calls : Alone(d)'
  BY <1>1, <1>4 DEF Vanish, qdrantVars, Answered
<1>5. CASE Drop
  BY <1>1, <1>5 DEF Drop, callVars, Answered
<1>6. CASE ChangeModel \/ StartUp \/ UNCHANGED vars
  BY <1>1, <1>6 DEF ChangeModel, StartUp, vars, qdrantVars, callVars, Answered
<1>7. ~Crash
  BY DEF Crash
<1> QED
  BY <1>2, <1>3, <1>4, <1>5, <1>6, <1>7 DEF Next

\* No step fails a call without a reason outside it.
LEMMA ReasonStep ==
    ASSUME TypeOK, IInv, [Next]_vars
    PROVE  FailsWithReason'
<1> DEFINE Reason(d) ==
        /\ pc[d] = "failed" => "fault" \in trouble
        /\ pc[d] \in {"mismatch", "refused"} => "model" \in trouble
        /\ pc[d] = "missing" => "dropped" \in trouble
        /\ pc[d] = "conflict" => {"fault", "crash"} \cap trouble # {}
<1> SUFFICES ASSUME NEW d \in Calls, Reason(d) PROVE Reason(d)'
  BY DEF IInv, FailsWithReason
<1>1. trouble \subseteq trouble'
  BY TroublesGrow
<1>2. pc'[d] = pc[d] => Reason(d)'
  BY <1>1
<1>3. ASSUME CallProceeds(d) PROVE Reason(d)'
  <2>1. CASE EmbedFails(d) \/ GiveUp(d)
    BY <2>1 DEF EmbedFails, GiveUp, Go, TypeOK
  <2>2. CASE Embed(d) \/ Ensured(d) \/ Create(d)
    BY <2>2 DEF Embed, Ensured, Create, Send, Go, TypeOK
  <2>3. CASE Ensure(d)
    <3>1. pc[d] = "embedded" /\ size[d] # 0
      BY <2>3, SizesPositive DEF Ensure, Send, Go, IInv, SizesKnown
    <3>2. ensured \notin {0, size[d]} => "model" \in trouble
      BY <3>1 DEF IInv, OneSize
    <3> QED
      BY <1>1, <2>3, <3>2 DEF Ensure, Send, Go, TypeOK
  <2>4. CASE Finish(d)
    <3>1. pc'[d] = Outcome(d) /\ trouble' = trouble
      BY <2>4 DEF Finish, Go, TypeOK
    <3>2. /\ reply[d].status = 400 => "model" \in trouble
          /\ reply[d].status = 409 => {"fault", "crash"} \cap trouble # {}
      BY DEF IInv, OneSize, OneCreator
    <3>3. reply[d].step \in Requests /\ reply[d].status \in {200, 400, 404, 409}
      <4>1. reply[d].step \in Requests
        BY <2>4, ReplyFields DEF Finish, Answered, Requests
      <4>2. reply[d] # NoReply
        BY <4>1 DEF NoReply, Requests
      <4> QED
        BY <4>1, <4>2 DEF TypeOK
    <3>4. reply[d].status = 404 => reply[d].step = "effect"
      BY <2>4, ReplyFields DEF Finish, Answered
    <3>5. reply[d].status = 404 /\ Kind[d] # "delete" => "dropped" \in trouble
      BY <3>4 DEF IInv, SeenStays
    <3> QED
      BY <3>1, <3>2, <3>3, <3>5 DEF Outcome
  <2> QED
    BY <1>3, <2>1, <2>2, <2>3, <2>4 DEF CallProceeds
<1>4. ASSUME NEW c \in Calls, CallProceeds(c), c # d PROVE pc'[d] = pc[d]
  BY <1>4, CallAlone
<1>5. ASSUME NEW r \in wire, Serve(r) \/ Vanish(r) PROVE pc'[d] = pc[d]
  BY <1>5 DEF Serve, Vanish
<1>6. ASSUME Crash PROVE pc'[d] = pc[d] \/ pc'[d] = "lost"
  BY <1>6 DEF Crash
<1>7. ASSUME ChangeModel \/ Drop \/ StartUp \/ UNCHANGED vars PROVE pc'[d] = pc[d]
  BY <1>7 DEF ChangeModel, Drop, StartUp, vars, callVars
<1> QED
  BY <1>2, <1>3, <1>4, <1>5, <1>6, <1>7 DEF Next

\* IInv is an invariant: requests under way, remembered sizes and the collection
\* agree, through late requests, lost answers and restarts.
THEOREM Inductive == Spec => []IInv
<1>1. TypeOK /\ IInv /\ [Next]_vars => IInv'
  BY PreparedStep, RequestsStep, SizesStep, OneSizeStep, SeenStep, OneCreatorStep, ReasonStep
  DEF IInv
<1> QED
  BY InitIInv, TypeCorrect, <1>1, PTL DEF Spec

-----------------------------------------------------------------------------
(* The properties.                                                         *)

\* Requests are served only with both tables and the bucket in place, whatever
\* failed half way in earlier starts and whichever answers were lost.
THEOREM PreparedHolds == Spec => []ServesPrepared
<1>1. IInv => ServesPrepared
  BY DEF IInv, Prepared, ServesPrepared
<1> QED
  BY <1>1, Inductive, PTL

\* Concurrent first calls of any number never collide, and every failure of a
\* call has its reason outside the client.
THEOREM ReasonHolds == Spec => []FailsWithReason
BY Inductive, PTL DEF IInv

-----------------------------------------------------------------------------
(* The client keeps the promise of IndexPromise.                           *)

Standing(c) == CASE Effective(c) -> "done" [] Open(c) -> "open" [] OTHER -> "closed"

Answer(c) ==
    CASE pc[c] = "ok" -> "ok" [] pc[c] \in Ended -> "failed" [] OTHER -> "none"

\* Where a call's request stands, told from where the call does.
LEMMA StandingOf ==
    ASSUME RequestsTrue, NEW c \in Calls
    PROVE  /\ Effective(c) => pc[c] \in {"effect"} \cup Ended
           /\ Request(c, "effect") \in wire => ~Effective(c) /\ Standing(c) = "open"
           /\ pc[c] \in {"new", "embedded", "get", "create"} => Standing(c) = "open"
<1>1. /\ reply[c].step = "effect" => pc[c] \in {"effect"} \cup Ended
      /\ Request(c, "effect") \in wire => reply[c].step # "effect"
  BY DEF RequestsTrue, Requests
<1> QED
  BY <1>1 DEF Effective, Open, Standing, Ended, Failures

\* A step that lets requests vanish or answers calls.
LEMMA AnswersStep ==
    ASSUME points' = points,
           \A c \in Calls :
              /\ Standing(c)' = Standing(c)
                    \/ (Standing(c) = "open" /\ Standing(c)' = "closed")
              /\ \/ Answer(c)' = Answer(c)
                 \/ Answer(c) = "none" /\ Answer(c)' = "failed"
                 \/ Answer(c) = "none" /\ Answer(c)' = "ok" /\ Standing(c) = "done"
    PROVE  Promise!Answers
BY DEF Promise!Answers, Standing, Answer

\* A step in which the request of one call takes effect.
LEMMA EffectStep ==
    ASSUME NEW c \in Calls, Standing(c) = "open", Standing(c)' = "done",
           \A d \in Calls \ {c} : Standing(d)' = Standing(d),
           \A d \in Calls : Answer(d)' = Answer(d),
           points' = (points \cup (IF Kind[c] = "upsert" THEN {Doc[c]} ELSE {}))
                         \ (IF Kind[c] = "delete" THEN {Doc[c]} ELSE {})
    PROVE  Promise!TakesEffect(c)
BY DEF Promise!TakesEffect, Standing, Answer

\* A call is answered with success only when its request has taken effect.
LEMMA OkIsEffective ==
    ASSUME TypeOK, NEW c \in Calls, CallProceeds(c), pc'[c] = "ok"
    PROVE  Effective(c)
<1>1. Finish(c)
  BY DEF CallProceeds, Embed, EmbedFails, Ensure, Ensured, Create, GiveUp, Send, Go, TypeOK
<1>2. Outcome(c) = "ok"
  BY <1>1 DEF Finish, Go, TypeOK
<1>3. reply[c].status = 200 \/ (reply[c].status = 404 /\ Kind[c] = "delete")
  BY <1>2 DEF Outcome
<1> QED
  BY <1>1, <1>3, ReplyFields DEF Finish, Answered, Effective

\* The client's steps are answers of IndexPromise, or stutter.
LEMMA CallPromise ==
    ASSUME TypeOK, RequestsTrue, NEW c \in Calls, CallProceeds(c)
    PROVE  Promise!Answers
<1>1. \A d \in Calls \ {c} : Standing(d)' = Standing(d) /\ Answer(d)' = Answer(d)
  BY CallAlone DEF Standing, Answer, Effective, Open
<1>2. pc[c] \notin Ended /\ Answer(c) = "none"
  BY DEF CallProceeds, Embed, EmbedFails, Ensure, Ensured, Create, Finish, GiveUp, Send, Go,
         Answer, Ended, Failures, Requests, Answered
<1>3. CASE pc'[c] \in Ended
  <2>1. /\ wire' = wire
        /\ reply'[c] = reply[c] \/ (reply'[c] = NoReply /\ pc[c] \in {"get", "create"})
    BY <1>3, CallMoves DEF Ended, Failures, Requests
  <2>2. Effective(c)' = Effective(c)
    BY <2>1, StandingOf DEF Effective, NoReply, Ended, Failures
  <2>3. Open(c)' => Open(c)
    BY <1>3, <2>1 DEF Open, Ended, Failures
  <2>4. Standing(c)' = Standing(c) \/ (Standing(c) = "open" /\ Standing(c)' = "closed")
    BY <2>2, <2>3 DEF Standing
  <2>5. Answer(c)' \in {"ok", "failed"} /\ (Answer(c)' = "ok" => Standing(c) = "done")
    BY <1>3, OkIsEffective DEF Answer, Standing
  <2> QED
    BY <1>1, <1>2, <2>4, <2>5, AnswersStep, CallAlone
<1>4. CASE pc'[c] \notin Ended
  <2>1. pc'[c] # "ok" /\ Answer(c)' = "none"
    BY <1>4 DEF Answer, Ended
  <2>2. pc[c] \in {"new", "embedded", "get", "create"}
    BY <1>4, CallMoves DEF Answered
  <2>3. reply'[c] = NoReply \/ reply' = reply
    BY <1>4, CallMoves
  <2>4. ~Effective(c) /\ ~Effective(c)'
    BY <2>2, <2>3, StandingOf DEF Effective, NoReply, Ended, Failures
  <2>5. Open(c)'
    BY <1>4, CallMoves DEF Open, Requests
  <2>6. Standing(c) = "open" /\ Standing(c)' = "open"
    BY <2>2, <2>4, <2>5, StandingOf DEF Standing
  <2> QED
    BY <1>1, <1>2, <2>1, <2>6, AnswersStep, CallAlone
<1> QED
  BY <1>3, <1>4

\* A request that is served is a call taking effect, or stutters.
LEMMA ServePromise ==
    ASSUME TypeOK, RequestsTrue, NEW r \in wire, Serve(r)
    PROVE  Promise!Answers \/ \E c \in Calls : Promise!TakesEffect(c)
<1> DEFINE c == r.call
<1>1. /\ c \in Calls /\ r.step \in Requests /\ r = Request(c, r.step)
      /\ UNCHANGED <<model, ensured, lock, pc, size, trouble>>
      /\ wire' = wire \ {r}
      /\ \/ reply'[c] = Reply(r.step, Status(r)) /\ (pc[c] = r.step \/ r.step = "effect")
         \/ reply'[c] = reply[c] /\ r.step # "effect"
      /\ \A d \in Calls \ {c} : reply'[d] = reply[d]
  BY ServeAlone
<1>2. \A d \in Calls : Answer(d)' = Answer(d)
  BY <1>1 DEF Answer
<1>3. \A d \in Calls : d # c \/ r.step # "effect" =>
          (Request(d, "effect") \in wire' <=> Request(d, "effect") \in wire)
  BY <1>1 DEF Request
<1>4. \A d \in Calls \ {c} : Standing(d)' = Standing(d)
  BY <1>1, <1>3 DEF Standing, Effective, Open
<1>5. CASE r.step # "effect"
  <2>1. Effective(c)' <=> Effective(c)
    BY <1>1, <1>5, StandingOf, ReplyFields DEF Effective, Requests, Ended, Failures
  <2>2. Standing(c)' = Standing(c)
    BY <1>1, <1>3, <1>5, <2>1 DEF Standing, Open
  <2>3. points' = points
    BY <1>5 DEF Serve, Points
  <2> QED
    BY <1>1, <1>2, <1>4, <2>2, <2>3, AnswersStep
<1>6. CASE r.step = "effect"
  <2>1. Standing(c) = "open" /\ pc[c] \in {"effect"} \cup Ended
    BY <1>1, <1>6, StandingOf DEF RequestsTrue
  <2>2. reply'[c].step = "effect" /\ reply'[c].status = Status(r)
    BY <1>1, <1>6, ReplyFields
  <2>3. CASE Status(r) = 200 \/ Kind[c] = "delete"
    <3>1. Standing(c)' = "done"
      <4>1. Effective(c)'
        BY <2>2, <2>3 DEF Effective
      <4>2. ~Open(c)'
        BY <1>1, <1>6, <2>1 DEF Open, Ended, Failures
      <4> QED
        BY <4>1, <4>2 DEF Standing
    <3>2. points' = (points \cup (IF Kind[c] = "upsert" THEN {Doc[c]} ELSE {}))
                        \ (IF Kind[c] = "delete" THEN {Doc[c]} ELSE {})
      <4>1. CASE Status(r) = 200
        BY <1>6, <4>1 DEF Serve, Points
      <4>2. CASE Status(r) # 200
        <5>1. Kind[c] = "delete" /\ collection = 0
          BY <1>6, <2>3, <4>2 DEF Status
        <5>2. points = {} /\ points' = points
          BY <1>6, <4>2, <5>1 DEF TypeOK, Serve, Points
        <5> QED
          BY <5>1, <5>2
      <4> QED
        BY <4>1, <4>2
    <3> QED
      BY <1>1, <1>2, <1>4, <2>1, <3>1, <3>2, EffectStep
  <2>4. CASE Status(r) # 200 /\ Kind[c] # "delete"
    <3>1. points' = points
      BY <2>4 DEF Serve, Points
    <3>2. Standing(c)' = "closed"
      BY <1>1, <1>6, <2>1, <2>2, <2>4 DEF Standing, Effective, Open, Ended, Failures
    <3> QED
      BY <1>1, <1>2, <1>4, <2>1, <3>1, <3>2, AnswersStep
  <2> QED
    BY <2>3, <2>4
<1> QED
  BY <1>5, <1>6

\* A crash ends calls as IndexPromise allows.
LEMMA CrashPromise ==
    ASSUME TypeOK, RequestsTrue, Crash
    PROVE  Promise!Answers
<1> SUFFICES ASSUME NEW c \in Calls
             PROVE  /\ Standing(c)' = Standing(c)
                          \/ (Standing(c) = "open" /\ Standing(c)' = "closed")
                    /\ \/ Answer(c)' = Answer(c)
                       \/ Answer(c) = "none" /\ Answer(c)' = "failed"
  BY AnswersStep DEF Crash, qdrantVars
<1>1. /\ pc'[c] = (IF pc[c] \in Running THEN "lost" ELSE pc[c]) /\ wire' = wire
      /\ reply'[c] = reply[c] \/ (reply'[c] = NoReply /\ pc[c] \in {"get", "create"})
  BY DEF Crash
<1>2. Effective(c)' = Effective(c)
  BY <1>1, StandingOf DEF Effective, NoReply, Ended, Failures
<1>3. Open(c)' => Open(c)
  BY <1>1 DEF Open
<1>4. Standing(c)' = Standing(c) \/ (Standing(c) = "open" /\ Standing(c)' = "closed")
  BY <1>2, <1>3 DEF Standing
<1>5. \/ Answer(c)' = Answer(c)
      \/ Answer(c) = "none" /\ Answer(c)' = "failed"
  BY <1>1 DEF Answer, Running, Requests, Ended, Failures
<1> QED
  BY <1>4, <1>5

\* A lost request leaves a call as it is or closes it, as IndexPromise allows.
LEMMA VanishPromise ==
    ASSUME TypeOK, RequestsTrue, NEW r \in wire, Vanish(r)
    PROVE  Promise!Answers
<1> SUFFICES ASSUME NEW c \in Calls
             PROVE  Standing(c)' = Standing(c)
                          \/ (Standing(c) = "open" /\ Standing(c)' = "closed")
  BY AnswersStep DEF Vanish, qdrantVars, Answer
<1>1. Effective(c)' = Effective(c)
  BY DEF Vanish, Effective
<1>2. Open(c)' => Open(c)
  BY DEF Vanish, Open
<1> QED
  BY <1>1, <1>2 DEF Standing

\* A call of the client takes effect at most once, before it is answered with
\* success, and never without its request, however late Qdrant serves it.
THEOREM ClientKeepsPromise == Spec => KeepsIndexPromise
<1>1. Init => Promise!Init
  <2> SUFFICES ASSUME Init PROVE Promise!Init
    OBVIOUS
  <2>1. \A c \in Calls : pc[c] = "new" /\ ~Effective(c)
    BY DEF Init, Effective, NoReply
  <2> QED
    BY <2>1 DEF Promise!Init, Init, Open, Ended, Failures
<1>2. TypeOK /\ IInv /\ [Next]_vars => [Promise!Next]_<<points,
          [c \in Calls |-> CASE Effective(c) -> "done" [] Open(c) -> "open"
                             [] OTHER -> "closed"],
          [c \in Calls |-> CASE pc[c] = "ok" -> "ok" [] pc[c] \in Ended -> "failed"
                             [] OTHER -> "none"]>>
  <2> SUFFICES ASSUME TypeOK, RequestsTrue, [Next]_vars
               PROVE  Promise!Next
    BY DEF IInv
  <2>1. ASSUME NEW c \in Calls, CallProceeds(c) PROVE Promise!Next
    BY <2>1, CallPromise DEF Promise!Next
  <2>2. ASSUME NEW r \in wire, Serve(r) \/ Vanish(r) PROVE Promise!Next
    BY <2>2, ServePromise, VanishPromise DEF Promise!Next
  <2>3. ASSUME Crash PROVE Promise!Next
    BY <2>3, CrashPromise DEF Promise!Next
  <2>4. ASSUME Drop PROVE Promise!Next
    <3>1. UNCHANGED <<pc, wire, reply>> /\ points' = {}
      BY <2>4 DEF Drop, callVars
    <3> QED
      BY <3>1 DEF Promise!Next, Promise!Dropped, Effective, Open
  <2>5. ASSUME ChangeModel \/ StartUp \/ UNCHANGED vars PROVE Promise!Next
    <3>1. UNCHANGED <<points, pc, wire, reply>>
      BY <2>5 DEF ChangeModel, StartUp, vars, qdrantVars, callVars
    <3>2. Promise!Answers
      BY <3>1, AnswersStep DEF Standing, Answer, Effective, Open
    <3> QED
      BY <3>2 DEF Promise!Next
  <2> QED
    BY <2>1, <2>2, <2>3, <2>4, <2>5 DEF Next
<1> QED
  BY <1>1, <1>2, TypeCorrect, Inductive, PTL DEF Spec, KeepsIndexPromise, Promise!Spec

==============================================================================
