----------------------------- MODULE TurnRuntime -----------------------------
(***************************************************************************)
(* Questions and answers: CreateThread, CreateTurn and CreateTurnStream of *)
(* core-go-rpc, the answer stream of the Python service that feeds a       *)
(* streamed turn, the gateway that relays its items as server-sent events, *)
(* and the browser at the other end.                                       *)
(*                                                                         *)
(* A turn is created from one request, whose name is also its id.  Its     *)
(* documents are DocumentService's subject; here retrieval is a step that  *)
(* always succeeds, as it does in the code.  What a turn stores is reduced *)
(* to its items, an item to its kind and, for a delta, the provider        *)
(* attempt that produced it, and the answer to the tokens it was joined    *)
(* from, a token to its attempt and whether it is blank.  The wall clock   *)
(* is assumed not to run backwards and to tell two turns apart.            *)
(***************************************************************************)
EXTENDS Naturals, Sequences, SequencesExt

CONSTANTS
    Threads,          \* CreateThread requests, and so thread ids
    Turns,            \* CreateTurn and CreateTurnStream requests
    Streamed,         \* those of Turns that are streamed
    Changes,          \* SetConfig requests for a provider that is supported
    Wants,            \* change -> the provider it asks for
    DefaultProvider,  \* the provider of a new state.json
    Retrying,         \* the providers whose client is the Ollama one
    ThreadOf,         \* turn -> the thread_id it names
    User,             \* thread or turn -> user its token authenticates
    NoTurn,           \* no previous turn
    MaxTokens,        \* bound: tokens of one answer
    MaxSaveFailures,  \* bound: how many times writing state.json may fail
    MaxCrashes        \* bound: how many times core-go-rpc may die

Requests == Threads \cup Turns \cup Changes
Providers == {DefaultProvider} \cup {Wants[c] : c \in Changes}

ASSUME TurnKinds ==
    /\ Streamed \subseteq Turns
    /\ Turns \cap Threads = {} /\ Changes \cap (Turns \cup Threads) = {}
ASSUME ChangesWant == DOMAIN Wants = Changes
ASSUME TurnThreads == ThreadOf \in [Turns -> Threads]
ASSUME NoTurnIsNoTurn == NoTurn \notin Turns
ASSUME Bounds == {MaxTokens, MaxSaveFailures, MaxCrashes} \subseteq Nat

VARIABLES
    threads,       \* memory: the threads that exist
    turns,         \* memory: turn -> its stored items, <<>> without a turn
    provider,      \* memory: the active provider
    diskThreads,   \* state.json's threads
    diskTurns,     \* state.json's turns and items
    diskProvider,  \* state.json's active provider
    saveFailures,  \* failed writes so far
    pc,            \* where each request stands, or how it was answered
    prev,          \* turn -> the turn given to the model as the previous one
    uses,          \* turn -> the provider of its model calls
    created,       \* turn -> its CreatedAt, 0 before
    clock,         \* the last CreatedAt
    draft,         \* turn -> the items it has produced so far
    answer,        \* turn -> the tokens received for it
    attempt,       \* turn -> the provider attempt under way
    wire,          \* turn -> items sent but not yet relayed
    shown,         \* turn -> events written to the browser
    away,          \* turns whose browser has gone or given up waiting
    crashes        \* process deaths so far

storeVars == <<threads, turns, provider, diskThreads, diskTurns, diskProvider,
               saveFailures>>
draftVars == <<prev, uses, created, clock, draft, answer, attempt>>
pipeVars == <<wire, shown, away>>
vars == <<storeVars, pc, draftVars, pipeVars, crashes>>

-----------------------------------------------------------------------------
Item(kind) == [kind |-> kind, attempt |-> 0]
Delta(n) == [kind |-> "delta", attempt |-> n]
Token(n, blank) == [attempt |-> n, blank |-> blank]

\* What precedes the answer in every turn.
Header == <<Item("message"), Item("retrieval_decision"), Item("retrieval")>>
Final == Item("final")
\* The gateway's own events.
Done == Item("done")
Error == Item("error")

Items == {Item(k) : k \in {"message", "retrieval_decision", "retrieval", "final"}}
         \cup {Delta(n) : n \in 1 .. 2}
Tokens == {Token(n, b) : n \in 1 .. 2, b \in BOOLEAN}

Refused == {"invalid", "notfound", "denied"}
Ended == Refused \cup {"ok", "failed", "lost"}
TurnSteps == {"listed", "generating", "answered", "stored"}

TypeOK ==
    /\ threads \subseteq Threads /\ diskThreads \subseteq Threads
    /\ turns \in [Turns -> Seq(Items)] /\ diskTurns \in [Turns -> Seq(Items)]
    /\ saveFailures \in 0 .. MaxSaveFailures
    /\ {provider, diskProvider} \subseteq Providers
    /\ pc \in [Requests -> {"new"} \cup TurnSteps \cup Ended]
    /\ prev \in [Turns -> Turns \cup {NoTurn}]
    /\ uses \in [Turns -> Providers]
    /\ created \in [Turns -> Nat] /\ clock \in Nat
    /\ draft \in [Turns -> Seq(Items)]
    /\ answer \in [Turns -> Seq(Tokens)]
    /\ attempt \in [Turns -> 1 .. 2]
    /\ wire \in [Turns -> Seq(Items)]
    /\ shown \in [Turns -> Seq(Items \cup {Done, Error})]
    /\ away \subseteq Turns
    /\ crashes \in 0 .. MaxCrashes

Init ==
    /\ threads = {} /\ diskThreads = {}
    /\ turns = [t \in Turns |-> <<>>] /\ diskTurns = turns
    /\ provider = DefaultProvider /\ diskProvider = DefaultProvider
    /\ saveFailures = 0
    /\ pc = [r \in Requests |-> "new"]
    /\ prev = [t \in Turns |-> NoTurn]
    /\ uses = [t \in Turns |-> DefaultProvider]
    /\ created = [t \in Turns |-> 0] /\ clock = 0
    /\ draft = [t \in Turns |-> <<>>]
    /\ answer = [t \in Turns |-> <<>>]
    /\ attempt = [t \in Turns |-> 1]
    /\ wire = draft /\ shown = draft
    /\ away = {}
    /\ crashes = 0

Go(r, from, to) ==
    /\ pc[r] = from
    /\ pc' = [pc EXCEPT ![r] = to]

\* saveLocked: the file becomes the memory, or stays as it is.
Saved ==
    /\ diskThreads' = threads'
    /\ diskTurns' = turns'
    /\ diskProvider' = provider'
    /\ UNCHANGED saveFailures

SaveFailed ==
    /\ saveFailures < MaxSaveFailures
    /\ saveFailures' = saveFailures + 1
    /\ UNCHANGED <<diskThreads, diskTurns, diskProvider>>

-----------------------------------------------------------------------------
(* The provider, threads and the start of a turn.                          *)

\* Mutant: the provider is changed in memory only.
SetConfigUnsaved(c) ==
    /\ provider' = Wants[c]
    /\ Go(c, "new", "ok")
    /\ UNCHANGED <<threads, turns, diskThreads, diskTurns, diskProvider, saveFailures,
                   draftVars, pipeVars, crashes>>

\* SetProvider.  A save that fails leaves the new provider in memory.
SetConfig(c) ==
    /\ provider' = Wants[c]
    /\ UNCHANGED <<threads, turns>>
    /\ \/ Saved /\ Go(c, "new", "ok")
       \/ SaveFailed /\ Go(c, "new", "failed")
    /\ UNCHANGED <<draftVars, pipeVars, crashes>>

CreateThread(h) ==
    /\ threads' = threads \cup {h}
    /\ UNCHANGED <<turns, provider>>
    /\ \/ Saved /\ Go(h, "new", "ok")
       \/ SaveFailed /\ Go(h, "new", "failed")
    /\ UNCHANGED <<draftVars, pipeVars, crashes>>

\* No session, an empty message, a malformed scope, or a scope that names no
\* document of the user.
Refuse(r) ==
    /\ Go(r, "new", "invalid")
    /\ UNCHANGED <<storeVars, draftVars, pipeVars, crashes>>

\* Turns listed by ListTurnsByThread.
Stored(h) == {t \in Turns : turns[t] # <<>> /\ ThreadOf[t] = h}

\* Mutant: the turns come newest first, as ListTurns returns them.
LatestOfNewestFirst(h) ==
    IF Stored(h) = {} THEN NoTurn
    ELSE CHOOSE t \in Stored(h) : \A u \in Stored(h) : created[t] <= created[u]

\* The last of the listed turns in the order of CreatedAt.
Latest(h) ==
    IF Stored(h) = {} THEN NoTurn
    ELSE CHOOSE t \in Stored(h) : \A u \in Stored(h) : created[u] <= created[t]

\* Mutant: the thread is looked up whoever owns it.
TurnBeginAnyThread(t) ==
    /\ ThreadOf[t] \in threads
    /\ Go(t, "new", "listed")
    /\ prev' = [prev EXCEPT ![t] = Latest(ThreadOf[t])]
    /\ uses' = [uses EXCEPT ![t] = provider]
    /\ UNCHANGED <<storeVars, created, clock, draft, answer, attempt, pipeVars,
                   crashes>>

\* getOwnedThread, the listing of the turns that precede this one and, right
\* after it, the provider for all model calls of the turn.
TurnBegin(t) ==
    LET h == ThreadOf[t] IN
    /\ \/ /\ h \notin threads
          /\ Go(t, "new", "notfound")
          /\ UNCHANGED <<prev, uses>>
       \/ /\ h \in threads /\ User[h] # User[t]
          /\ Go(t, "new", "denied")
          /\ UNCHANGED <<prev, uses>>
       \/ /\ h \in threads /\ User[h] = User[t]
          /\ Go(t, "new", "listed")
          /\ prev' = [prev EXCEPT ![t] = Latest(h)]
          /\ uses' = [uses EXCEPT ![t] = provider]
    /\ UNCHANGED <<storeVars, created, clock, draft, answer, attempt, pipeVars,
                   crashes>>

\* The retrieval decision and the retrieval are over, and the turn gets its
\* id and its CreatedAt.  A turn that is not streamed builds all its items at
\* the end, so its header can be drafted here.
TurnDecide(t) ==
    /\ Go(t, "listed", "generating")
    /\ clock' = clock + 1
    /\ created' = [created EXCEPT ![t] = clock + 1]
    /\ draft' = [draft EXCEPT ![t] = IF t \in Streamed THEN <<>> ELSE Header]
    /\ UNCHANGED <<storeVars, prev, uses, answer, attempt, pipeVars, crashes>>

\* stream.Send fails only once the stream's context is gone.
SendFails(t, from) ==
    /\ t \in Streamed \cap away
    /\ Go(t, from, "failed")
    /\ UNCHANGED <<storeVars, draftVars, pipeVars, crashes>>

\* The three items before the answer are sent one by one.
SendHeader(t) ==
    /\ t \in Streamed
    /\ Len(draft[t]) < Len(Header)
    /\ LET item == Header[Len(draft[t]) + 1] IN
          /\ draft' = [draft EXCEPT ![t] = Append(@, item)]
          /\ wire' = [wire EXCEPT ![t] = Append(@, item)]
    /\ Go(t, "generating", "generating")
    /\ UNCHANGED <<storeVars, prev, uses, created, clock, answer, attempt, shown, away,
                   crashes>>

-----------------------------------------------------------------------------
(* The answer.                                                             *)

Generating(t) == pc[t] = "generating" /\ Len(draft[t]) >= Len(Header)

\* The model's next token passes the Python service and becomes a delta item,
\* unless it is blank; the answer keeps it either way.
AgentToken(t) ==
    /\ t \in Streamed /\ Generating(t)
    /\ Len(answer[t]) < MaxTokens
    /\ \E blank \in BOOLEAN :
          /\ answer' = [answer EXCEPT ![t] = Append(@, Token(attempt[t], blank))]
          /\ IF blank THEN UNCHANGED <<draft, wire>>
             ELSE /\ draft' = [draft EXCEPT ![t] = Append(@, Delta(attempt[t]))]
                  /\ wire' = [wire EXCEPT ![t] = Append(@, Delta(attempt[t]))]
    /\ UNCHANGED <<storeVars, pc, prev, uses, created, clock, attempt, shown, away,
                   crashes>>

\* Mutant: a timeout is retried again and again.
AgentRetryUnbounded(t) ==
    /\ Generating(t)
    /\ uses[t] \in Retrying /\ answer[t] = <<>>
    /\ attempt' = [attempt EXCEPT ![t] = @ + 1]
    /\ UNCHANGED <<storeVars, pc, prev, uses, created, clock, draft, answer, pipeVars,
                   crashes>>

\* Mutant: a timeout is retried whatever was emitted.
AgentRetryAlways(t) ==
    /\ Generating(t)
    /\ uses[t] \in Retrying /\ attempt[t] = 1
    /\ attempt' = [attempt EXCEPT ![t] = 2]
    /\ UNCHANGED <<storeVars, pc, prev, uses, created, clock, draft, answer, pipeVars,
                   crashes>>

\* The Ollama client retries a timeout once, and only if nothing was emitted.
AgentRetry(t) ==
    /\ Generating(t)
    /\ uses[t] \in Retrying /\ attempt[t] = 1 /\ answer[t] = <<>>
    /\ attempt' = [attempt EXCEPT ![t] = 2]
    /\ UNCHANGED <<storeVars, pc, prev, uses, created, clock, draft, answer, pipeVars,
                   crashes>>

\* The call ends without an answer: a provider error, a second timeout, a
\* timeout in the middle, a cancelled context.
AgentFails(t) ==
    /\ Generating(t)
    /\ Go(t, "generating", "failed")
    /\ UNCHANGED <<storeVars, draftVars, pipeVars, crashes>>

\* The positions of the tokens that are not blank.
Spoken(tokens) == {i \in 1 .. Len(tokens) : ~tokens[i].blank}

\* It ends with an answer, which must not be blank; a plain call returns it
\* whole, here as one token.
AgentDone(t) ==
    /\ Generating(t)
    /\ IF t \in Streamed
       THEN UNCHANGED answer
       ELSE answer' = [answer EXCEPT ![t] = <<Token(attempt[t], FALSE)>>]
    /\ Spoken(answer'[t]) # {}
    /\ Go(t, "generating", "answered")
    /\ UNCHANGED <<storeVars, prev, uses, created, clock, draft, attempt, pipeVars,
                   crashes>>

-----------------------------------------------------------------------------
(* The end of a turn.                                                      *)

\* The turn is stored with its items; a plain call then answers.
StoreTurn(t) ==
    /\ draft' = [draft EXCEPT ![t] = Append(@, Final)]
    /\ turns' = [turns EXCEPT ![t] = draft'[t]]
    /\ UNCHANGED <<threads, provider>>
    /\ \/ Saved /\ Go(t, "answered", IF t \in Streamed THEN "stored" ELSE "ok")
       \/ SaveFailed /\ Go(t, "answered", "failed")
    /\ UNCHANGED <<prev, uses, created, clock, answer, attempt, pipeVars, crashes>>

\* The final item follows, and the call ends.
SendFinal(t) ==
    /\ wire' = [wire EXCEPT ![t] = Append(@, Final)]
    /\ Go(t, "stored", "ok")
    /\ UNCHANGED <<storeVars, draftVars, shown, away, crashes>>

TurnProceeds(t) ==
    \/ TurnDecide(t) \/ SendHeader(t) \/ AgentToken(t) \/ AgentRetry(t)
    \/ AgentFails(t) \/ AgentDone(t) \/ StoreTurn(t) \/ SendFinal(t)
    \/ SendFails(t, "generating") \/ SendFails(t, "stored")

-----------------------------------------------------------------------------
(* The gateway and the browser.                                            *)

Over(t) == shown[t] # <<>> /\ Last(shown[t]) \in {Done, Error}
Listening(t) == t \in Streamed \ away /\ ~Over(t)

\* The gateway writes the next item as an event.
Relay(t) ==
    /\ Listening(t) /\ wire[t] # <<>>
    /\ shown' = [shown EXCEPT ![t] = Append(@, Head(wire[t]))]
    /\ wire' = [wire EXCEPT ![t] = Tail(@)]
    /\ UNCHANGED <<storeVars, pc, draftVars, away, crashes>>

\* Mutant: an error of Recv is taken for the end of the stream.
RelayEndAsDone(t) ==
    /\ Listening(t) /\ pc[t] \in Ended
    /\ shown' = [shown EXCEPT ![t] = Append(@, Done)]
    /\ wire' = [wire EXCEPT ![t] = <<>>]
    /\ UNCHANGED <<storeVars, pc, draftVars, away, crashes>>

\* Mutant: the relay loop just ends when the call failed.
RelayEndSilent(t) ==
    /\ Listening(t) /\ pc[t] = "ok" /\ wire[t] = <<>>
    /\ shown' = [shown EXCEPT ![t] = Append(@, Done)]
    /\ UNCHANGED <<storeVars, pc, draftVars, wire, away, crashes>>

\* The stream is over: "done" after a call that succeeded, "error" after one
\* that failed.  Items in transit are lost when the process died.
RelayEnd(t) ==
    /\ Listening(t)
    /\ \/ /\ pc[t] \in Ended /\ wire[t] = <<>>
          /\ shown' = [shown EXCEPT ![t] = Append(@, IF pc[t] = "ok" THEN Done ELSE Error)]
          /\ UNCHANGED wire
       \/ /\ pc[t] = "lost" /\ wire[t] # <<>>
          /\ shown' = [shown EXCEPT ![t] = Append(@, Error)]
          /\ wire' = [wire EXCEPT ![t] = <<>>]
    /\ UNCHANGED <<storeVars, pc, draftVars, away, crashes>>

\* The user leaves, the gateway dies, or the time is over that the gateway has
\* for it, the 60 s of WriteTimeout for a stream and the 40 s of its deadline
\* for a plain call: its context is cancelled, and whatever the core still does
\* is not seen.
Leave(t) ==
    /\ pc[t] # "new" /\ ~Over(t)
    /\ t \in Streamed \/ pc[t] \notin Ended
    /\ t \notin away
    /\ away' = away \cup {t}
    /\ UNCHANGED <<storeVars, pc, draftVars, wire, shown, crashes>>

\* core-go-rpc dies and starts again from state.json.
Crash ==
    /\ crashes < MaxCrashes
    /\ crashes' = crashes + 1
    /\ threads' = diskThreads /\ turns' = diskTurns /\ provider' = diskProvider
    /\ pc' = [r \in Requests |->
                 IF pc[r] \in TurnSteps THEN "lost" ELSE pc[r]]
    /\ UNCHANGED <<diskThreads, diskTurns, diskProvider, saveFailures, draftVars, pipeVars>>

\* Every request has been answered and every stream has ended.
Idle ==
    /\ \A r \in Requests : pc[r] \in Ended
    /\ \A t \in Streamed : t \in away \/ Over(t)
    /\ UNCHANGED vars

Next ==
    \/ \E c \in Changes : SetConfig(c) \/ Refuse(c)
    \/ \E h \in Threads : CreateThread(h) \/ Refuse(h)
    \/ \E t \in Turns : Refuse(t) \/ TurnBegin(t) \/ TurnProceeds(t)
    \/ \E t \in Turns : Relay(t) \/ RelayEnd(t) \/ Leave(t)
    \/ Crash
    \/ Idle

Spec == Init /\ [][Next]_vars

\* A streamed call goes on once it has begun, and so does the gateway's loop
\* over Recv.  Nobody must ask a question, nobody leaves, no process dies.
FairSpec ==
    Spec /\ \A t \in Streamed :
               WF_vars(TurnProceeds(t)) /\ WF_vars(Relay(t) \/ RelayEnd(t))

-----------------------------------------------------------------------------
(* Properties.                                                             *)

\* The deltas that tokens of attempt n give rise to.
DeltasOf(tokens, n) == [i \in 1 .. Cardinality(Spoken(tokens)) |-> Delta(n)]

\* The turn whose items these are is complete: its answer is of one provider
\* attempt, and its items are the header, the deltas of the whole answer if it
\* was streamed, and the final item.
Whole(t, items) ==
    \E n \in 1 .. 2 :
        /\ \A i \in 1 .. Len(answer[t]) : answer[t][i].attempt = n
        /\ items = Header \o (IF t \in Streamed THEN DeltasOf(answer[t], n) ELSE <<>>)
                          \o <<Final>>

\* No half turn is ever in the history, in memory or in state.json: it is
\* stored in one piece after its answer is complete, and a process that dies,
\* a client that leaves or a provider that times out in the middle of the
\* answer leaves nothing; the thread it belongs to is stored with it.
StoredTurnsWhole ==
    \A t \in Turns :
        /\ turns[t] # <<>> => Whole(t, turns[t]) /\ ThreadOf[t] \in threads
        /\ diskTurns[t] # <<>> =>
               Whole(t, diskTurns[t]) /\ ThreadOf[t] \in diskThreads

\* The user has been given the whole answer.
Seen(t) ==
    IF t \in Streamed THEN Contains(shown[t], Final)
    ELSE pc[t] = "ok" /\ t \notin away

\* A question asked in a thread after an answer was seen there is put to the
\* model with a previous turn at least as recent, even when core-go-rpc was
\* restarted or a save failed in between, or other turns of the thread ran
\* concurrently.
FollowUpKnowsAnswer ==
    [][\A t \in Turns : Go(t, "new", "listed") =>
          \A u \in Turns : Seen(u) /\ ThreadOf[u] = ThreadOf[t] =>
              prev'[t] # NoTurn /\ created[u] <= created[prev'[t]]]_vars

\* What the model is given as the previous turn is a turn of the same user in
\* the same thread, complete and decided before this one, also when a turn of
\* another user names the thread or ends between the lookup and the answer.
HistoryStaysPrivate ==
    \A t \in Turns : prev[t] # NoTurn =>
        LET p == prev[t] IN
        /\ User[p] = User[t] /\ ThreadOf[p] = ThreadOf[t]
        /\ p # t /\ pc[p] \notin {"new", "listed", "generating", "answered"}
        /\ created[t] # 0 => created[p] < created[t]

\* Once a change of the provider was acknowledged, every question that begins
\* later is put to a provider that an acknowledged change has asked for, or one
\* whose save failed, whatever else was saved or failed to be, and never again
\* to the default one, not even after a restart; a question that was under way
\* keeps the provider it began with.
ChangeHolds ==
    [][\A t \in Turns :
          /\ Go(t, "new", "listed") /\ (\E c \in Changes : pc[c] = "ok") =>
                \E c \in Changes : pc[c] \in {"ok", "failed"} /\ uses'[t] = Wants[c]
          /\ uses'[t] # uses[t] => pc[t] = "new"]_vars

\* Streamed questions keep the promise of TurnPromise.
Promise == INSTANCE TurnPromise WITH
    Turn <- Streamed,
    shown <- [t \in Streamed |-> shown[t]],
    durable <- [t \in Streamed |-> diskTurns[t]]

KeepsTurnPromise == Promise!Spec

\* A streamed question that was let in ends with "done" or "error" in the
\* browser, if it is still there: after refusals and provider errors, after a
\* failed save, and when core-go-rpc dies with items still in transit.
StreamsEnd ==
    \A t \in Streamed : (pc[t] # "new") ~> (t \in away \/ Over(t))

=============================================================================
