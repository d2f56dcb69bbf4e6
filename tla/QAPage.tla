------------------------------- MODULE QAPage -------------------------------
(***************************************************************************)
(* The question page of the frontend: which turns it shows for which       *)
(* thread, the cache of turns it keeps per thread in localStorage, and the *)
(* calls that are under way while the user switches threads, leaves the    *)
(* page and comes back.                                                    *)
(*                                                                         *)
(* A question is a constant whose name is also its turn's id.  A row of    *)
(* the page is reduced to its turn and to whether it came from listTurns   *)
(* (with items) or was put together from a stream (items: []).  A render   *)
(* and the effects it triggers are one step: React runs them before it     *)
(* handles the next event.  The cache functions never throw here, and the  *)
(* token stays the same.                                                   *)
(***************************************************************************)
EXTENDS Naturals, Sequences, SequencesExt

CONSTANTS
    Thread,         \* threads
    Question,       \* questions
    OldThreads,     \* threads that exist at the start, newest first
    OldTurns,       \* turns that are stored at the start, oldest first
    OldThreadOf,    \* their threads
    NoThread,       \* the empty thread id
    NoCache,        \* no entry in the cache
    CacheSize,      \* rows the cache keeps of a thread, 100 in the code
    MaxMoves,       \* bound: thread switches and visits of the user
    MaxFailures     \* bound: calls that fail

ASSUME OldThreadsAreThreads == OldThreads \in Seq(Thread)
ASSUME OldTurnsAreTurns ==
    /\ OldTurns \in Seq(Question)
    /\ OldThreadOf \in [ToSet(OldTurns) -> ToSet(OldThreads)]
ASSUME Nothing ==
    NoThread \notin Thread /\ NoCache \notin Seq([turn : Question, items : BOOLEAN])
ASSUME Sizes == CacheSize \in Nat \ {0} /\ {MaxMoves, MaxFailures} \subseteq Nat

VARIABLES
    \* The backend.
    threads,     \* ListThreads: newest first
    asked,       \* questions in the order they were asked
    askedIn,     \* question -> the thread it was asked in
    stored,      \* questions whose turns are stored
    \* localStorage.
    cache,       \* thread -> its cached rows
    activeKey,   \* the stored active thread
    \* The page.
    mounted,     \* the page is on the screen
    active,      \* activeThreadId
    known,       \* the threads it can select
    turns,       \* the rows it shows, newest first
    streaming,   \* the question of streamingTurn
    loading,     \* a question is under way
    \* Calls under way.
    boot,        \* bootstrap: "no", "sent" or the threads it was answered
    loads,       \* listTurns calls, at most one of which is not cancelled
    pc,          \* question -> where its stream stands
    attached,    \* questions whose page is still the mounted one
    \* What the properties look back to.
    fresh,       \* the last listTurns of the active thread has been answered
    left,        \* the thread that was active when the page was left
    moves,       \* moves of the user so far
    failures     \* failed calls so far

backend == <<threads, asked, askedIn, stored>>
storage == <<cache, activeKey>>
page == <<mounted, active, known, turns, streaming, loading>>
calls == <<boot, loads, pc, attached>>
seen == <<fresh, left, moves, failures>>
vars == <<backend, storage, page, calls, seen>>

-----------------------------------------------------------------------------
Listed(q) == [turn |-> q, items |-> TRUE]
Streamed(q) == [turn |-> q, items |-> FALSE]
Rows == [turn : Question, items : BOOLEAN]

NoQuestion == "none"

\* A call of listTurns: cancelled is its effect's flag, cached tells whether
\* the cache had rows, answer is <<rows>> once the backend has served it.
Load(h, cached) ==
    [thread |-> h, cached |-> cached, cancelled |-> FALSE, answer |-> <<>>]

TypeOK ==
    /\ threads \in Seq(Thread) /\ asked \in Seq(Question)
    /\ askedIn \in [Question -> Thread \cup {NoThread}]
    /\ stored \subseteq ToSet(asked)
    /\ cache \in [Thread -> Seq(Rows) \cup {NoCache}]
    /\ \A h \in Thread : cache[h] # NoCache => Len(cache[h]) <= CacheSize
    /\ activeKey \in Thread \cup {NoThread}
    /\ {mounted, loading, fresh} \subseteq BOOLEAN
    /\ active \in Thread \cup {NoThread}
    /\ known \subseteq Thread
    /\ turns \in Seq(Rows)
    /\ streaming \in Question \cup {NoQuestion}
    /\ pc \in [Question -> {"new", "asked", "done", "failed"}]
    /\ attached \subseteq Question
    /\ boot \in {<<"no">>, <<"sent">>} \cup ({"served"} \X Seq(Thread))
    /\ loads \subseteq [thread : Thread, cached : BOOLEAN, cancelled : BOOLEAN,
                        answer : Seq(Seq(Rows))]
    /\ \A l, m \in loads : ~l.cancelled /\ ~m.cancelled => l = m
    /\ left \in Thread \cup {NoThread}

Init ==
    /\ threads = OldThreads
    /\ asked = OldTurns
    /\ askedIn = [q \in Question |->
                     IF q \in ToSet(OldTurns) THEN OldThreadOf[q] ELSE NoThread]
    /\ stored = ToSet(OldTurns)
    /\ cache = [h \in Thread |-> NoCache] /\ activeKey = NoThread
    /\ mounted = FALSE /\ active = NoThread /\ known = {}
    /\ turns = <<>> /\ streaming = NoQuestion /\ loading = FALSE
    /\ boot = <<"no">> /\ loads = {}
    /\ pc = [q \in Question |-> IF q \in ToSet(OldTurns) THEN "done" ELSE "new"]
    /\ attached = {}
    /\ fresh = FALSE /\ left = NoThread /\ moves = 0 /\ failures = 0

Moves == moves < MaxMoves /\ moves' = moves + 1
Fails == failures < MaxFailures /\ failures' = failures + 1

-----------------------------------------------------------------------------
(* Effects.                                                                *)

\* Mutant: the rows are cached as they are.
CacheRowsAll(h, rows) ==
    IF h = NoThread THEN cache ELSE [cache EXCEPT ![h] = rows]

\* saveCachedTurns of the effect on [activeThreadId, turns].
CacheRows(h, rows) ==
    IF h = NoThread THEN cache
    ELSE [cache EXCEPT ![h] = SubSeq(rows, 1, IF Len(rows) < CacheSize
                                               THEN Len(rows) ELSE CacheSize)]

\* The page shows other rows for the same thread.
Show(rows) ==
    /\ turns' = rows
    /\ cache' = CacheRows(active, rows)

Cancelled == {[l EXCEPT !.cancelled = TRUE] : l \in loads}

\* A render with another active thread and these rows: the effects store the
\* thread, cache the rows under it, cancel the call for the last one, paint
\* what the cache has of it, and call listTurns.
Activate(h, rows) ==
    LET saved == CacheRows(h, rows)
        cached == saved[h]
    IN
    /\ active' = h
    /\ activeKey' = h
    /\ cache' = saved
    /\ streaming' = NoQuestion
    /\ fresh' = FALSE
    /\ IF h = NoThread
       THEN turns' = <<>> /\ loads' = Cancelled
       ELSE /\ turns' = IF cached = NoCache THEN <<>> ELSE cached
            /\ loads' = Cancelled \cup {Load(h, cached # NoCache)}

-----------------------------------------------------------------------------
(* The user.                                                               *)

\* The first render: bootstrap is called, and the effects store the empty
\* active thread.
Enter ==
    /\ ~mounted /\ Moves
    /\ mounted' = TRUE
    /\ boot' = <<"sent">>
    /\ activeKey' = NoThread
    /\ UNCHANGED <<backend, cache, active, known, turns, streaming, loading, loads,
                   pc, attached, fresh, left, failures>>

\* Another tab: the page and its state are gone, its calls have no effect.
Leave ==
    /\ mounted
    /\ mounted' = FALSE
    /\ active' = NoThread /\ known' = {} /\ turns' = <<>>
    /\ streaming' = NoQuestion /\ loading' = FALSE
    /\ boot' = <<"no">> /\ loads' = {} /\ attached' = {}
    /\ fresh' = FALSE
    /\ left' = active
    /\ UNCHANGED <<backend, storage, pc, moves, failures>>

Select(h) ==
    /\ mounted /\ Moves
    /\ h \in known \cup {NoThread} /\ h # active
    /\ Activate(h, turns)
    /\ UNCHANGED <<backend, mounted, known, loading, boot, pc, attached, left,
                   failures>>

\* createThread, whose call is one step with its answer.
CreateThread(h) ==
    /\ mounted /\ Moves
    /\ h \notin ToSet(threads)
    /\ threads' = <<h>> \o threads
    /\ known' = known \cup {h}
    /\ Activate(h, <<>>)
    /\ UNCHANGED <<asked, askedIn, stored, mounted, loading, boot, pc, attached,
                   left, failures>>

Ask(q) ==
    /\ mounted /\ ~loading /\ active # NoThread
    /\ pc[q] = "new"
    /\ pc' = [pc EXCEPT ![q] = "asked"]
    /\ asked' = Append(asked, q)
    /\ askedIn' = [askedIn EXCEPT ![q] = active]
    /\ attached' = attached \cup {q}
    /\ loading' = TRUE
    /\ streaming' = q
    /\ UNCHANGED <<threads, stored, storage, mounted, active, known, turns, boot,
                   loads, seen>>

-----------------------------------------------------------------------------
(* Answers of the backend.                                                 *)

BootServed ==
    /\ boot = <<"sent">>
    /\ boot' = <<"served", threads>>
    /\ UNCHANGED <<backend, storage, page, loads, pc, attached, seen>>

\* The thread bootstrap makes the active one.
Chosen(existing) ==
    IF activeKey # NoThread /\ activeKey \in ToSet(existing) THEN activeKey
    ELSE IF existing # <<>> THEN Head(existing) ELSE NoThread

Booted ==
    /\ boot[1] = "served"
    /\ boot' = <<"no">>
    /\ known' = ToSet(boot[2])
    /\ LET h == Chosen(boot[2])
           rows == IF h = NoThread THEN <<>> ELSE turns
       IN  IF h # active
           THEN Activate(h, rows)
           ELSE Show(rows) /\ UNCHANGED <<active, activeKey, streaming, fresh, loads>>
    /\ UNCHANGED <<backend, mounted, loading, pc, attached, left, moves, failures>>

BootFails ==
    /\ boot[1] # "no" /\ Fails
    /\ boot' = <<"no">>
    /\ UNCHANGED <<backend, storage, page, loads, pc, attached, fresh, left, moves>>

\* ListTurns: the stored turns of a thread, newest first.
History(h) ==
    LET rows[n \in 0 .. Len(asked)] ==
            IF n = 0 THEN <<>>
            ELSE IF asked[n] \in stored /\ askedIn[asked[n]] = h
                 THEN <<Listed(asked[n])>> \o rows[n - 1]
                 ELSE rows[n - 1]
    IN  rows[Len(asked)]

ListServed(l) ==
    /\ l.answer = <<>>
    /\ loads' = (loads \ {l}) \cup {[l EXCEPT !.answer = <<History(l.thread)>>]}
    /\ UNCHANGED <<backend, storage, page, boot, pc, attached, seen>>

\* Mutant: the flag of a cancelled effect is not looked at.
ListReturnsUnchecked(l) ==
    /\ l.answer # <<>>
    /\ loads' = loads \ {l}
    /\ Show(l.answer[1]) /\ fresh' = TRUE
    /\ UNCHANGED <<backend, activeKey, mounted, active, known, streaming, loading,
                   boot, pc, attached, left, moves, failures>>

\* The rows replace those shown, unless the effect was cancelled.
ListReturns(l) ==
    /\ l.answer # <<>>
    /\ loads' = loads \ {l}
    /\ IF l.cancelled
       THEN UNCHANGED <<turns, cache, fresh>>
       ELSE Show(l.answer[1]) /\ fresh' = TRUE
    /\ UNCHANGED <<backend, activeKey, mounted, active, known, streaming, loading,
                   boot, pc, attached, left, moves, failures>>

ListFails(l) ==
    /\ Fails
    /\ loads' = loads \ {l}
    /\ IF l.cancelled \/ l.cached THEN UNCHANGED <<turns, cache>> ELSE Show(<<>>)
    /\ UNCHANGED <<backend, activeKey, mounted, active, known, streaming, loading,
                   boot, pc, attached, fresh, left, moves>>

\* The backend stores the turn; its final event follows.
Stores(q) ==
    /\ pc[q] = "asked" /\ q \notin stored
    /\ stored' = stored \cup {q}
    /\ UNCHANGED <<threads, asked, askedIn, storage, page, calls, seen>>

\* Any event but "error" is drawn, whatever the active thread.
StreamEvent(q) ==
    /\ pc[q] = "asked" /\ q \in attached
    /\ streaming' = q
    /\ UNCHANGED <<backend, storage, mounted, active, known, turns, loading, calls,
                   seen>>

\* The end of ask: the page that asked is ready for another question.
Asked(q) ==
    IF q \in attached THEN streaming' = NoQuestion /\ loading' = FALSE
    ELSE UNCHANGED <<streaming, loading>>

\* Mutant: the new row replaces the others.
StreamDoneAlone(q) ==
    /\ pc[q] = "asked" /\ q \in stored
    /\ pc' = [pc EXCEPT ![q] = "done"]
    /\ Asked(q)
    /\ IF q \in attached THEN Show(<<Streamed(q)>>)
       ELSE UNCHANGED <<turns, cache>>
    /\ UNCHANGED <<backend, activeKey, mounted, active, known, boot, loads,
                   attached, seen>>

\* Mutant: the new row is shown but the cache is not updated.
StreamDoneUncached(q) ==
    /\ pc[q] = "asked" /\ q \in stored
    /\ pc' = [pc EXCEPT ![q] = "done"]
    /\ Asked(q)
    /\ turns' = IF q \in attached THEN <<Streamed(q)>> \o turns ELSE turns
    /\ UNCHANGED <<backend, cache, activeKey, mounted, active, known, boot, loads,
                   attached, seen>>

\* The stream is done: its turn is put before the rows the page shows now.
StreamDone(q) ==
    /\ pc[q] = "asked" /\ q \in stored
    /\ pc' = [pc EXCEPT ![q] = "done"]
    /\ Asked(q)
    /\ IF q \in attached THEN Show(<<Streamed(q)>> \o turns)
       ELSE UNCHANGED <<turns, cache>>
    /\ UNCHANGED <<backend, activeKey, mounted, active, known, boot, loads,
                   attached, seen>>

\* Mutant: an error event does not keep the draft from the list.
StreamFailsShown(q) ==
    /\ pc[q] = "asked" /\ Fails
    /\ pc' = [pc EXCEPT ![q] = "failed"]
    /\ Asked(q)
    /\ IF q \in attached THEN Show(<<Streamed(q)>> \o turns)
       ELSE UNCHANGED <<turns, cache>>
    /\ UNCHANGED <<backend, activeKey, mounted, active, known, boot, loads,
                   attached, fresh, left, moves>>

\* An error event, or a broken connection; the turn may have been stored.
StreamFails(q) ==
    /\ pc[q] = "asked" /\ Fails
    /\ pc' = [pc EXCEPT ![q] = "failed"]
    /\ Asked(q)
    /\ UNCHANGED <<backend, storage, mounted, active, known, turns, boot, loads,
                   attached, fresh, left, moves>>

Next ==
    \/ Enter \/ Leave
    \/ \E h \in Thread \cup {NoThread} : Select(h)
    \/ \E h \in Thread : CreateThread(h)
    \/ BootServed \/ Booted \/ BootFails
    \/ \E l \in loads : ListServed(l) \/ ListReturns(l) \/ ListFails(l)
    \/ \E q \in Question : Ask(q) \/ Stores(q) \/ StreamEvent(q) \/ StreamDone(q)
                           \/ StreamFails(q)

Spec == Init /\ [][Next]_vars

-----------------------------------------------------------------------------
(* Properties.                                                             *)

\* A row that came from the backend's history belongs to the thread on the
\* screen as soon as that thread's history has been answered, however many
\* calls for other threads are still to be answered.
HistoryIsOfThread ==
    fresh => \A i \in DOMAIN turns :
        turns[i].items => askedIn[turns[i].turn] = active

\* The cache of the active thread holds the rows on the screen, the newest of
\* them if there are too many, whichever call or click changed them last.
CacheMirrorsScreen ==
    active # NoThread =>
        /\ cache[active] # NoCache
        /\ IsPrefix(cache[active], turns)
        /\ Len(cache[active]) = CacheSize \/ cache[active] = turns

\* Every finished turn that is shown or cached is stored in the backend: a
\* stream that broke off or ended in an error leaves none, nor does one whose
\* page was left.
ShownTurnsStored ==
    LET rows == ToSet(turns) \cup
                UNION {ToSet(cache[h]) : h \in {g \in Thread : cache[g] # NoCache}}
    IN  \A r \in rows : r.turn \in stored

\* Once the history of a thread is shown, nothing that is shown disappears
\* while the user stays in the thread: new answers only come before it.
ShownTurnsStay ==
    [][fresh /\ fresh' /\ active' = active => IsSuffix(turns, turns')]_vars

\* The turns cached for a thread are that thread's, once nothing is under way
\* and its history has been answered.
CacheIsOfThread ==
    fresh /\ loads = {} /\ streaming = NoQuestion =>
        \A i \in DOMAIN cache[active] : askedIn[cache[active][i].turn] = active

=============================================================================
