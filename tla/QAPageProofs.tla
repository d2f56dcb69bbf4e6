----------------------------- MODULE QAPageProofs -----------------------------
(***************************************************************************)
(* Theorems about QAPage, for any number of threads and questions, any     *)
(* history at the start, any size of the cache, and any clicks, answers    *)
(* and failures in any order.                                              *)
(***************************************************************************)
EXTENDS QAPage, OrderingProofs

-----------------------------------------------------------------------------
(* What ListTurns returns.                                                 *)

\* The rows of the first n questions, from those of the ones before.
Further(h, n, rows) ==
    IF asked[n] \in stored /\ askedIn[asked[n]] = h
    THEN <<Listed(asked[n])>> \o rows
    ELSE rows

Unfolds(h, k, f) == f = [n \in 0 .. k |-> IF n = 0 THEN <<>> ELSE Further(h, n, f[n - 1])]

\* The recursive function that History is defined with exists.
LEMMA HistoryExists ==
    ASSUME NEW h, NEW k \in Nat
    PROVE  \E f : Unfolds(h, k, f)
<1> DEFINE S == {j \in Nat : \E f : Unfolds(h, j, f)}
<1>1. 0 \in S
  <2> DEFINE f == [n \in 0 .. 0 |-> <<>>]
  <2>1. Unfolds(h, 0, f)
    BY DEF Unfolds
  <2> QED BY <2>1
<1>2. ASSUME NEW j \in Nat, j \in S PROVE j + 1 \in S
  <2> PICK f : Unfolds(h, j, f)
    BY <1>2
  <2> DEFINE g == [n \in 0 .. j + 1 |-> IF n = j + 1 THEN Further(h, n, f[j]) ELSE f[n]]
  <2>0. /\ \A n \in 0 .. j + 1 : n = j + 1 \/ n \in 0 .. j
        /\ \A n \in 0 .. j + 1 : n # 0 => n - 1 \in 0 .. j /\ n - 1 \in 0 .. j + 1 /\ n - 1 # j + 1
        /\ (j + 1) - 1 = j
    BY <1>2
  <2>1. \A n \in 0 .. j + 1 : g[n] = IF n = 0 THEN <<>> ELSE Further(h, n, g[n - 1])
    <3> SUFFICES ASSUME NEW n \in 0 .. j + 1
                 PROVE  g[n] = IF n = 0 THEN <<>> ELSE Further(h, n, g[n - 1])
      OBVIOUS
    <3>1. n # 0 => g[n - 1] = f[n - 1]
      BY <2>0
    <3>2. CASE n = j + 1
      BY <1>2, <2>0, <3>1, <3>2
    <3>3. CASE n \in 0 .. j /\ n # j + 1
      <4>1. f[n] = IF n = 0 THEN <<>> ELSE Further(h, n, f[n - 1])
        BY <3>3 DEF Unfolds
      <4> QED BY <3>1, <3>3, <4>1
    <3> QED BY <1>2, <2>0, <3>2, <3>3
  <2>2. Unfolds(h, j + 1, g)
    BY <2>1 DEF Unfolds
  <2> QED BY <2>2
<1>3. Nat \subseteq S
  BY <1>1, <1>2, SetInduction
<1> QED BY <1>3

\* The rows that ListTurns may return for a thread.
Mine(h) == {Listed(q) : q \in {p \in Question : p \in stored /\ askedIn[p] = h}}

\* What ListTurns returns are rows of the thread that are stored.
LEMMA HistoryType ==
    ASSUME asked \in Seq(Question), NEW h
    PROVE  History(h) \in Seq(Mine(h))
<1> DEFINE k == Len(asked)
           f == CHOOSE g : Unfolds(h, k, g)
<1>1. k \in Nat
  OBVIOUS
<1>2. Unfolds(h, k, f)
  BY <1>1, HistoryExists
<1>3. History(h) = f[k]
  BY DEF History, Unfolds, Further
<1> HIDE DEF f
<1> DEFINE S == {n \in Nat : n \in 0 .. k => f[n] \in Seq(Mine(h))}
<1>4. 0 \in S
  BY <1>1, <1>2 DEF Unfolds
<1>5. ASSUME NEW n \in Nat, n \in S PROVE n + 1 \in S
  <2> SUFFICES ASSUME n + 1 \in 0 .. k PROVE f[n + 1] \in Seq(Mine(h))
    BY <1>5
  <2>1. n \in 0 .. k /\ n + 1 \in 1 .. k /\ n + 1 # 0 /\ (n + 1) - 1 = n
    BY <1>1, <1>5
  <2>2. f[n] \in Seq(Mine(h))
    BY <1>5, <2>1
  <2>3. f[n + 1] = Further(h, n + 1, f[n])
    BY <1>2, <2>1 DEF Unfolds
  <2>4. asked[n + 1] \in Question
    BY <2>1, ElementOfSeq
  <2>5. CASE asked[n + 1] \in stored /\ askedIn[asked[n + 1]] = h
    <3>1. Listed(asked[n + 1]) \in Mine(h)
      BY <2>4, <2>5 DEF Mine
    <3>2. <<Listed(asked[n + 1])>> \o f[n] \in Seq(Mine(h))
      BY <2>2, <3>1
    <3> QED BY <2>3, <2>5, <3>2 DEF Further
  <2>6. CASE ~(asked[n + 1] \in stored /\ askedIn[asked[n + 1]] = h)
    BY <2>2, <2>3, <2>6 DEF Further
  <2> QED BY <2>5, <2>6
<1>6. Nat \subseteq S
  BY <1>4, <1>5, SetInduction
<1> QED BY <1>1, <1>3, <1>6

-----------------------------------------------------------------------------
(* Typing.                                                                 *)

Loads == [thread : Thread, cached : BOOLEAN, cancelled : BOOLEAN, answer : Seq(Seq(Rows))]

OneCurrent == \A l, m \in loads : ~l.cancelled /\ ~m.cancelled => l = m

\* A row has the question it was made for, with its items or without.
LEMMA RowTypes ==
    ASSUME NEW q \in Question
    PROVE  /\ Listed(q) \in Rows /\ Listed(q).turn = q /\ Listed(q).items = TRUE
           /\ Streamed(q) \in Rows /\ Streamed(q).turn = q /\ Streamed(q).items = FALSE
BY DEF Rows, Listed, Streamed

\* The rows of a thread are rows, stored and asked in it.
LEMMA MineType ==
    ASSUME NEW h
    PROVE  /\ Mine(h) \subseteq Rows
           /\ \A r \in Mine(h) : r.turn \in stored /\ askedIn[r.turn] = h
BY RowTypes DEF Mine

\* A new call of listTurns is for its thread, not cancelled and not answered.
LEMMA LoadTypes ==
    ASSUME NEW h \in Thread, NEW cached \in BOOLEAN
    PROVE  /\ Load(h, cached) \in Loads /\ Load(h, cached).thread = h
           /\ ~Load(h, cached).cancelled /\ Load(h, cached).answer = <<>>
<1>1. <<>> \in Seq(Seq(Rows))
  OBVIOUS
<1> QED BY <1>1 DEF Load, Loads

\* Cancelling the calls changes neither their threads nor their answers.
LEMMA CancelledTypes ==
    ASSUME loads \subseteq Loads
    PROVE  /\ Cancelled \subseteq Loads
           /\ \A m \in Cancelled : m.cancelled
           /\ \A m \in Cancelled : \E l \in loads : m.thread = l.thread /\ m.answer = l.answer
<1> SUFFICES ASSUME NEW l \in loads
             PROVE  LET m == [l EXCEPT !.cancelled = TRUE] IN
                    m \in Loads /\ m.cancelled /\ m.thread = l.thread /\ m.answer = l.answer
  BY DEF Cancelled
<1> QED BY DEF Loads

\* What the cache keeps of the rows of a thread.
LEMMA CacheRowsOf ==
    ASSUME TypeOK, NEW h \in Thread, NEW rows \in Seq(Rows)
    PROVE  LET kept == CacheRows(h, rows)[h] IN
           /\ CacheRows(h, rows) \in [Thread -> Seq(Rows) \cup {NoCache}]
           /\ kept \in Seq(Rows) /\ kept # NoCache
           /\ Len(kept) <= CacheSize /\ Len(kept) <= Len(rows)
           /\ \A i \in 1 .. Len(kept) : kept[i] = rows[i]
           /\ Len(kept) = CacheSize \/ kept = rows
           /\ \A g \in Thread \ {h} : CacheRows(h, rows)[g] = cache[g]
<1> DEFINE n == IF Len(rows) < CacheSize THEN Len(rows) ELSE CacheSize
           kept == SubSeq(rows, 1, n)
<1>1. /\ Len(rows) \in Nat /\ CacheSize \in Nat \ {0} /\ n \in Nat
      /\ n <= Len(rows) /\ n <= CacheSize /\ (n = CacheSize \/ n = Len(rows))
  BY Sizes
<1>2. CacheRows(h, rows) = [cache EXCEPT ![h] = kept]
  BY Nothing DEF CacheRows
<1> HIDE DEF n
<1>3. \A i \in 1 .. n : rows[i] \in Rows
  <2>1. \A i \in 1 .. n : i \in 1 .. Len(rows)
    BY <1>1
  <2> QED BY <2>1, ElementOfSeq
<1>4. /\ kept \in Seq(Rows)
      /\ Len(kept) = IF 1 <= n THEN n - 1 + 1 ELSE 0
      /\ \A i \in 1 .. n - 1 + 1 : kept[i] = rows[1 + i - 1]
  BY <1>1, <1>3, SubSeqProperties
<1>5. /\ n - 1 + 1 = n /\ (IF 1 <= n THEN n - 1 + 1 ELSE 0) = n
      /\ \A i \in 1 .. n : 1 + i - 1 = i
  BY <1>1
<1> HIDE DEF kept
<1>6. Len(kept) = n /\ \A i \in 1 .. n : kept[i] = rows[i]
  BY <1>4, <1>5
<1>7. n = Len(rows) => kept = rows
  BY <1>4, <1>6, SeqEqual
<1>8. kept # NoCache
  BY <1>4, Nothing DEF Rows
<1>9. /\ CacheRows(h, rows) \in [Thread -> Seq(Rows) \cup {NoCache}]
      /\ CacheRows(h, rows)[h] = kept
      /\ \A g \in Thread \ {h} : CacheRows(h, rows)[g] = cache[g]
  BY <1>2, <1>4 DEF TypeOK
<1> QED BY <1>1, <1>4, <1>6, <1>7, <1>8, <1>9

\* What Show does.
LEMMA Shown ==
    ASSUME TypeOK, NEW rows \in Seq(Rows), Show(rows)
    PROVE  /\ turns' = rows
           /\ cache' \in [Thread -> Seq(Rows) \cup {NoCache}]
           /\ \A h \in Thread : cache'[h] # NoCache => Len(cache'[h]) <= CacheSize
           /\ \A h \in Thread : h # active => cache'[h] = cache[h]
           /\ active # NoThread =>
                  /\ cache'[active] \in Seq(Rows) /\ cache'[active] # NoCache
                  /\ Len(cache'[active]) <= Len(rows)
                  /\ \A i \in 1 .. Len(cache'[active]) : cache'[active][i] = rows[i]
                  /\ Len(cache'[active]) = CacheSize \/ cache'[active] = rows
<1>1. turns' = rows /\ cache' = CacheRows(active, rows)
  BY DEF Show
<1>2. CASE active = NoThread
  BY <1>1, <1>2 DEF CacheRows, TypeOK
<1>3. CASE active # NoThread
  <2>1. active \in Thread
    BY <1>3 DEF TypeOK
  <2>2. \A h \in Thread : cache[h] # NoCache => Len(cache[h]) <= CacheSize
    BY DEF TypeOK
  <2> QED BY <1>1, <1>3, <2>1, <2>2, CacheRowsOf
<1> QED BY <1>2, <1>3

\* What Activate does: another thread, whose cached rows are painted and are
\* what was on the screen, as far as the cache keeps it, and one more call.
LEMMA Activated ==
    ASSUME TypeOK, NEW h \in Thread \cup {NoThread}, NEW rows \in Seq(Rows), Activate(h, rows)
    PROVE  /\ active' = h /\ activeKey' = h /\ streaming' = NoQuestion /\ fresh' = FALSE
           /\ h = NoThread => turns' = <<>> /\ cache' = cache /\ loads' = Cancelled
           /\ h \in Thread =>
                  /\ turns' \in Seq(Rows) /\ cache'[h] = turns' /\ turns' # NoCache
                  /\ Len(turns') <= CacheSize /\ Len(turns') <= Len(rows)
                  /\ \A i \in 1 .. Len(turns') : turns'[i] = rows[i]
                  /\ cache' \in [Thread -> Seq(Rows) \cup {NoCache}]
                  /\ \A g \in Thread \ {h} : cache'[g] = cache[g]
                  /\ loads' = Cancelled \cup {Load(h, TRUE)}
<1>1. CASE h = NoThread
  BY <1>1, Nothing DEF Activate, CacheRows
<1>2. CASE h \in Thread
  <2> DEFINE kept == CacheRows(h, rows)[h]
  <2>1. h # NoThread
    BY <1>2, Nothing
  <2>2. kept \in Seq(Rows) /\ kept # NoCache
    BY <1>2, CacheRowsOf
  <2>3. turns' = kept /\ loads' = Cancelled \cup {Load(h, TRUE)}
    BY <2>1, <2>2 DEF Activate
  <2>4. /\ active' = h /\ activeKey' = h /\ streaming' = NoQuestion /\ fresh' = FALSE
        /\ cache' = CacheRows(h, rows)
    BY DEF Activate
  <2> QED BY <1>2, <2>1, <2>2, <2>3, <2>4, CacheRowsOf
<1> QED BY <1>1, <1>2

\* Showing another thread keeps the types.
LEMMA ActivateTypes ==
    ASSUME TypeOK, NEW h \in Thread \cup {NoThread}, NEW rows \in Seq(Rows), Activate(h, rows)
    PROVE  /\ active' \in Thread \cup {NoThread} /\ activeKey' \in Thread \cup {NoThread}
           /\ cache' \in [Thread -> Seq(Rows) \cup {NoCache}]
           /\ \A g \in Thread : cache'[g] # NoCache => Len(cache'[g]) <= CacheSize
           /\ turns' \in Seq(Rows) /\ streaming' = NoQuestion /\ fresh' = FALSE
           /\ loads' \subseteq Loads /\ OneCurrent'
<1>0. loads \subseteq Loads
  BY DEF TypeOK, Loads
<1>1. CASE h = NoThread
  <2>1. /\ active' = h /\ activeKey' = h /\ streaming' = NoQuestion /\ fresh' = FALSE
        /\ turns' = <<>> /\ cache' = cache /\ loads' = Cancelled
    BY <1>1, Activated
  <2>2. turns' \in Seq(Rows)
    BY <2>1
  <2>3. loads' \subseteq Loads /\ OneCurrent'
    BY <1>0, <2>1, CancelledTypes DEF OneCurrent
  <2> QED BY <2>1, <2>2, <2>3 DEF TypeOK
<1>2. CASE h \in Thread
  <2>1. Load(h, TRUE) \in Loads
    BY <1>2, LoadTypes
  <2>2. loads' = Cancelled \cup {Load(h, TRUE)}
    BY <1>2, Activated
  <2>3. loads' \subseteq Loads /\ OneCurrent'
    BY <1>0, <2>1, <2>2, CancelledTypes DEF OneCurrent
  <2>4. \A g \in Thread : cache'[g] # NoCache => Len(cache'[g]) <= CacheSize
    BY <1>2, Activated DEF TypeOK
  <2> QED BY <1>2, <2>3, <2>4, Activated
<1> QED BY <1>1, <1>2

\* An appended member is added to those of the sequence.
LEMMA AppendedSet ==
    ASSUME NEW S, NEW s \in Seq(S), NEW x \in S
    PROVE  Append(s, x) \in Seq(S) /\ ToSet(s) \subseteq ToSet(Append(s, x)) /\ x \in ToSet(Append(s, x))
<1>1. /\ Append(s, x) \in Seq(S) /\ Len(Append(s, x)) = Len(s) + 1 /\ Len(s) \in Nat
      /\ \A i \in 1 .. Len(s) : Append(s, x)[i] = s[i]
      /\ Append(s, x)[Len(s) + 1] = x
  OBVIOUS
<1>2. DOMAIN s = 1 .. Len(s) /\ DOMAIN Append(s, x) = 1 .. Len(s) + 1
  BY <1>1, LenProperties
<1> QED BY <1>1, <1>2 DEF ToSet

\* The members of a sequence.
LEMMA SetOfSeq ==
    ASSUME NEW S, NEW s \in Seq(S)
    PROVE  ToSet(s) \subseteq S
BY LenProperties DEF ToSet

\* A question is asked before its turn is stored.
AskedTrue ==
    \A q \in Question :
        /\ pc[q] = "asked" => q \in ToSet(asked)
        /\ q \in stored => pc[q] # "new"

\* The user's moves keep the types.
LEMMA UserTypes ==
    ASSUME TypeOK, \/ Enter \/ Leave
                   \/ \E h \in Thread \cup {NoThread} : Select(h)
                   \/ \E h \in Thread : CreateThread(h)
    PROVE  TypeOK'
<1>1. CASE Enter
  BY <1>1 DEF Enter, TypeOK, backend
<1>2. CASE Leave
  <2>1. /\ turns' \in Seq(Rows) /\ loads' = {} /\ boot' = <<"no">> /\ mounted' = FALSE
        /\ active' = NoThread /\ known' = {} /\ streaming' = NoQuestion /\ loading' = FALSE
        /\ attached' = {} /\ fresh' = FALSE /\ left' = active
        /\ UNCHANGED <<backend, storage, pc>>
    BY <1>2 DEF Leave
  <2> QED BY <2>1 DEF TypeOK, backend, storage
<1>3. ASSUME NEW h \in Thread \cup {NoThread}, Select(h) PROVE TypeOK'
  <2>1. /\ Activate(h, turns)
        /\ UNCHANGED <<backend, mounted, known, loading, boot, pc, attached, left>>
    BY <1>3 DEF Select
  <2>2. turns \in Seq(Rows)
    BY DEF TypeOK
  <2> QED BY <2>1, <2>2, ActivateTypes DEF TypeOK, Loads, OneCurrent, backend
<1>4. ASSUME NEW h \in Thread, CreateThread(h) PROVE TypeOK'
  <2>1. /\ Activate(h, <<>>) /\ threads' = <<h>> \o threads /\ known' = known \cup {h}
        /\ UNCHANGED <<asked, askedIn, stored, mounted, loading, boot, pc, attached, left>>
    BY <1>4 DEF CreateThread
  <2>2. <<>> \in Seq(Rows)
    OBVIOUS
  <2>3. threads' \in Seq(Thread)
    BY <2>1 DEF TypeOK
  <2> QED BY <2>1, <2>2, <2>3, ActivateTypes DEF TypeOK, Loads, OneCurrent
<1> QED BY <1>1, <1>2, <1>3, <1>4

\* The threads that bootstrap was answered, and the one it selects.
LEMMA BootTypes ==
    ASSUME TypeOK, boot[1] = "served"
    PROVE  boot[2] \in Seq(Thread) /\ Chosen(boot[2]) \in Thread \cup {NoThread}
<1>1. boot \in {"served"} \X Seq(Thread)
  BY DEF TypeOK
<1>2. boot[2] \in Seq(Thread)
  BY <1>1
<1>3. boot[2] # <<>> => Head(boot[2]) \in Thread
  BY <1>2
<1>4. activeKey \in Thread \cup {NoThread}
  BY DEF TypeOK
<1> QED BY <1>2, <1>3, <1>4 DEF Chosen

\* The call made when the page opens, and its answers, keep the types.
LEMMA BootedTypes ==
    ASSUME TypeOK, BootServed \/ Booted \/ BootFails
    PROVE  TypeOK'
<1>1. CASE BootServed
  <2>1. boot' \in {"served"} \X Seq(Thread) /\ UNCHANGED <<backend, storage, page, loads, pc,
                                                            attached, seen>>
    BY <1>1 DEF BootServed, TypeOK
  <2> QED BY <2>1 DEF TypeOK, backend, storage, page, seen
<1>2. CASE BootFails
  BY <1>2 DEF BootFails, TypeOK, backend, storage, page
<1>3. CASE Booted
  <2> DEFINE h == Chosen(boot[2])
             rows == IF h = NoThread THEN <<>> ELSE turns
  <2>1. /\ boot[1] = "served" /\ boot' = <<"no">> /\ known' = ToSet(boot[2])
        /\ IF h # active
           THEN Activate(h, rows)
           ELSE Show(rows) /\ UNCHANGED <<active, activeKey, streaming, fresh, loads>>
        /\ UNCHANGED <<backend, mounted, loading, pc, attached, left>>
    BY <1>3 DEF Booted
  <2>2. boot[2] \in Seq(Thread) /\ h \in Thread \cup {NoThread}
    BY <2>1, BootTypes
  <2>3. rows \in Seq(Rows) /\ known' \subseteq Thread
    <3>1. <<>> \in Seq(Rows)
      OBVIOUS
    <3> QED BY <2>1, <2>2, <3>1, SetOfSeq DEF TypeOK
  <2> HIDE DEF h, rows
  <2>4. CASE h # active
    <3>1. Activate(h, rows)
      BY <2>1, <2>4
    <3> QED BY <2>1, <2>2, <2>3, <3>1, ActivateTypes DEF TypeOK, Loads, OneCurrent, backend
  <2>5. CASE h = active
    <3>1. Show(rows) /\ UNCHANGED <<active, activeKey, streaming, fresh, loads>>
      BY <2>1, <2>5
    <3>2. /\ turns' \in Seq(Rows) /\ cache' \in [Thread -> Seq(Rows) \cup {NoCache}]
          /\ \A g \in Thread : cache'[g] # NoCache => Len(cache'[g]) <= CacheSize
      BY <2>3, <3>1, Shown
    <3> QED BY <2>1, <2>3, <3>1, <3>2 DEF TypeOK, backend
  <2> QED BY <2>4, <2>5
<1> QED BY <1>1, <1>2, <1>3

\* The call that has been served has its rows.
LEMMA ServedType ==
    ASSUME TypeOK, NEW l \in loads
    PROVE  LET m == [l EXCEPT !.answer = <<History(l.thread)>>] IN
           /\ m \in Loads /\ m.answer # <<>> /\ m.answer[1] = History(l.thread)
           /\ m.thread = l.thread /\ m.cancelled = l.cancelled
<1>1. History(l.thread) \in Seq(Rows)
  <2>1. History(l.thread) \in Seq(Mine(l.thread))
    BY HistoryType DEF TypeOK
  <2> QED BY <2>1, MineType, SeqMonotonic
<1> DEFINE answer == <<History(l.thread)>>
<1>2. answer \in Seq(Seq(Rows)) /\ answer[1] = History(l.thread) /\ answer # <<>>
  BY <1>1
<1> HIDE DEF answer
<1>3. l \in Loads
  BY DEF TypeOK, Loads
<1>4. LET m == [l EXCEPT !.answer = answer] IN
      /\ m \in Loads /\ m.answer = answer /\ m.thread = l.thread /\ m.cancelled = l.cancelled
  BY <1>2, <1>3 DEF Loads
<1> QED BY <1>2, <1>4 DEF answer

\* The answer of a call is a sequence of rows.
LEMMA AnswerType ==
    ASSUME TypeOK, NEW l \in loads, l.answer # <<>>
    PROVE  l.answer[1] \in Seq(Rows)
<1>1. l.answer \in Seq(Seq(Rows))
  BY DEF TypeOK
<1>2. Len(l.answer) # 0 /\ Len(l.answer) \in Nat
  BY <1>1, EmptySeq
<1>3. 1 \in 1 .. Len(l.answer)
  BY <1>2
<1> QED BY <1>1, <1>3, ElementOfSeq

\* Serving listTurns, its answer and its failure keep the types.
LEMMA ListTypes ==
    ASSUME TypeOK, NEW l \in loads, ListServed(l) \/ ListReturns(l) \/ ListFails(l)
    PROVE  TypeOK'
<1>0. loads \subseteq Loads /\ OneCurrent
  BY DEF TypeOK, Loads, OneCurrent
<1>1. CASE ListServed(l)
  <2> DEFINE m == [l EXCEPT !.answer = <<History(l.thread)>>]
  <2>1. loads' = (loads \ {l}) \cup {m} /\ UNCHANGED <<backend, storage, page, boot, pc,
                                                          attached, seen>>
    BY <1>1 DEF ListServed
  <2>2. m \in Loads /\ m.cancelled = l.cancelled
    BY ServedType
  <2> HIDE DEF m
  <2>3. loads' \subseteq Loads /\ OneCurrent'
    BY <1>0, <2>1, <2>2 DEF OneCurrent
  <2> QED BY <2>1, <2>3 DEF TypeOK, Loads, OneCurrent, backend, storage, page, seen
<1>2. CASE ListReturns(l) \/ ListFails(l)
  <2>1. /\ loads' = loads \ {l}
        /\ UNCHANGED <<backend, activeKey, mounted, active, known, streaming, loading, boot,
                       pc, attached, left>>
    BY <1>2 DEF ListReturns, ListFails
  <2>2. loads' \subseteq Loads /\ OneCurrent'
    BY <1>0, <2>1 DEF OneCurrent
  <2>3. fresh' \in BOOLEAN
    BY <1>2 DEF ListReturns, ListFails, TypeOK
  <2>4. \/ UNCHANGED <<turns, cache>>
        \/ \E rows \in Seq(Rows) : Show(rows)
    <3>1. <<>> \in Seq(Rows)
      OBVIOUS
    <3> QED BY <1>2, <3>1, AnswerType DEF ListReturns, ListFails
  <2>5. /\ turns' \in Seq(Rows) /\ cache' \in [Thread -> Seq(Rows) \cup {NoCache}]
        /\ \A g \in Thread : cache'[g] # NoCache => Len(cache'[g]) <= CacheSize
    BY <2>4, Shown DEF TypeOK
  <2> QED BY <2>1, <2>2, <2>3, <2>5 DEF TypeOK, Loads, OneCurrent, backend
<1> QED BY <1>1, <1>2

\* Asking a question, and storing it, keep the types.
LEMMA AskTypes ==
    ASSUME TypeOK, AskedTrue, NEW q \in Question, Ask(q) \/ Stores(q)
    PROVE  TypeOK'
<1>1. CASE Ask(q)
  <2>1. asked' \in Seq(Question) /\ stored' \subseteq ToSet(asked')
    BY <1>1, AppendedSet DEF Ask, TypeOK
  <2>2. askedIn' \in [Question -> Thread \cup {NoThread}]
    BY <1>1 DEF Ask, TypeOK
  <2>3. pc' \in [Question -> {"new", "asked", "done", "failed"}]
    BY <1>1 DEF Ask, TypeOK
  <2> QED BY <1>1, <2>1, <2>2, <2>3 DEF Ask, TypeOK, storage, seen
<1>2. CASE Stores(q)
  <2>1. stored' \subseteq ToSet(asked)
    BY <1>2 DEF Stores, AskedTrue, TypeOK
  <2> QED BY <1>2, <2>1 DEF Stores, TypeOK, storage, page, calls, seen
<1> QED BY <1>1, <1>2

\* A stream's events, end and failure keep the types.
LEMMA StreamTypes ==
    ASSUME TypeOK, NEW q \in Question, StreamEvent(q) \/ StreamDone(q) \/ StreamFails(q)
    PROVE  TypeOK'
<1>1. CASE StreamEvent(q)
  BY <1>1 DEF StreamEvent, TypeOK, backend, storage, calls, seen
<1>2. CASE StreamDone(q) \/ StreamFails(q)
  <2>1. /\ UNCHANGED <<backend, activeKey, mounted, active, known, boot, loads, attached,
                       fresh, left>>
        /\ \E to \in {"done", "failed"} : pc' = [pc EXCEPT ![q] = to]
        /\ Asked(q)
    BY <1>2 DEF StreamDone, StreamFails, storage, seen
  <2>2. pc' \in [Question -> {"new", "asked", "done", "failed"}]
    BY <2>1 DEF TypeOK
  <2>3. streaming' \in Question \cup {NoQuestion} /\ loading' \in BOOLEAN
    BY <2>1 DEF Asked, TypeOK
  <2>4. <<Streamed(q)>> \o turns \in Seq(Rows)
    <3>1. Streamed(q) \in Rows /\ turns \in Seq(Rows)
      BY RowTypes DEF TypeOK
    <3> QED BY <3>1
  <2>5. UNCHANGED <<turns, cache>> \/ Show(<<Streamed(q)>> \o turns)
    BY <1>2 DEF StreamDone, StreamFails, storage
  <2>6. /\ turns' \in Seq(Rows) /\ cache' \in [Thread -> Seq(Rows) \cup {NoCache}]
        /\ \A g \in Thread : cache'[g] # NoCache => Len(cache'[g]) <= CacheSize
    BY <2>4, <2>5, Shown DEF TypeOK
  <2> QED BY <2>1, <2>2, <2>3, <2>6 DEF TypeOK, backend
<1> QED BY <1>1, <1>2

\* The start has the types, and no question is stored before it is asked.
LEMMA InitTypes == Init => TypeOK /\ AskedTrue
<1> SUFFICES ASSUME Init PROVE TypeOK /\ AskedTrue
  OBVIOUS
<1>1. ToSet(OldTurns) \subseteq Question /\ ToSet(OldThreads) \subseteq Thread
  BY OldThreadsAreThreads, OldTurnsAreTurns, SetOfSeq
<1>2. askedIn \in [Question -> Thread \cup {NoThread}]
  BY <1>1, OldTurnsAreTurns DEF Init
<1>3. turns \in Seq(Rows) /\ cache \in [Thread -> Seq(Rows) \cup {NoCache}]
  BY DEF Init
<1>4. boot \in {<<"no">>, <<"sent">>}
  BY DEF Init
<1>5. TypeOK
  BY <1>1, <1>2, <1>3, <1>4, OldThreadsAreThreads, OldTurnsAreTurns DEF Init, TypeOK
<1>6. AskedTrue
  BY DEF Init, AskedTrue
<1> QED BY <1>5, <1>6

\* Every step keeps that a question is asked before its turn is stored.
LEMMA AskedStep ==
    ASSUME TypeOK, AskedTrue, [Next]_vars
    PROVE  AskedTrue'
<1>1. CASE \E q \in Question : Ask(q)
  <2> PICK q \in Question : Ask(q)
    BY <1>1
  <2>1. /\ asked' = Append(asked, q) /\ stored' = stored /\ pc[q] = "new"
        /\ pc' = [pc EXCEPT ![q] = "asked"]
    BY DEF Ask
  <2>2. ToSet(asked) \subseteq ToSet(asked') /\ q \in ToSet(asked')
    BY <2>1, AppendedSet DEF TypeOK
  <2> QED BY <2>1, <2>2 DEF AskedTrue, TypeOK
<1>2. CASE \E q \in Question : Stores(q)
  BY <1>2 DEF Stores, AskedTrue, TypeOK, calls
<1>3. CASE \E q \in Question : StreamDone(q) \/ StreamFails(q)
  <2>1. /\ \E q \in Question, to \in {"done", "failed"} : pc' = [pc EXCEPT ![q] = to]
        /\ UNCHANGED <<asked, stored>>
    BY <1>3 DEF StreamDone, StreamFails, backend
  <2> QED BY <2>1 DEF AskedTrue, TypeOK
<1>4. CASE UNCHANGED <<asked, stored, pc>>
  BY <1>4 DEF AskedTrue
<1> QED BY <1>1, <1>2, <1>3, <1>4
        DEF Next, vars, backend, storage, page, calls, seen, Enter, Leave, Select, CreateThread,
            BootServed, Booted, BootFails, ListServed, ListReturns, ListFails, StreamEvent

\* Every step keeps the types.
LEMMA NextTypes ==
    ASSUME TypeOK, AskedTrue, [Next]_vars
    PROVE  TypeOK' /\ AskedTrue'
<1>1. CASE UNCHANGED vars
  BY <1>1, AskedStep DEF vars, backend, storage, page, calls, seen, TypeOK
<1>2. CASE Next
  BY <1>2, AskedStep, UserTypes, BootedTypes, ListTypes, AskTypes, StreamTypes DEF Next
<1> QED BY <1>1, <1>2

\* Every variable of the page always has its type, and at most one call of
\* listTurns is not cancelled.
THEOREM TypeCorrect == Spec => []TypeOK
<1>1. Init => TypeOK /\ AskedTrue
  BY InitTypes
<1>2. TypeOK /\ AskedTrue /\ [Next]_vars => TypeOK' /\ AskedTrue'
  BY NextTypes
<1> QED BY <1>1, <1>2, PTL DEF Spec

-----------------------------------------------------------------------------
(* The inductive invariant.                                                *)

Length(s) == 1 .. Len(s)

\* Only turns that the backend stored are shown, cached, or on their way.
RowsStored(s) == \A i \in Length(s) : s[i].turn \in stored

ShownTrue ==
    /\ RowsStored(turns)
    /\ \A h \in Thread : cache[h] # NoCache => RowsStored(cache[h])

\* A call whose effect was not cancelled is for the active thread, whose history
\* has not been answered yet, and the rows it brings are of its thread.
AnswerTrue(l) ==
    l.answer # <<>> =>
        /\ RowsStored(l.answer[1])
        /\ \A i \in Length(l.answer[1]) : askedIn[l.answer[1][i].turn] = l.thread

LoadsTrue ==
    /\ fresh => active # NoThread
    /\ \A l \in loads :
        /\ ~l.cancelled => l.thread = active /\ ~fresh
        /\ AnswerTrue(l)

HistoryTrue ==
    fresh => \A i \in Length(turns) : turns[i].items => askedIn[turns[i].turn] = active

MirrorTrue ==
    active # NoThread =>
        LET kept == cache[active] IN
        /\ kept # NoCache
        /\ Len(kept) <= Len(turns)
        /\ \A i \in Length(kept) : kept[i] = turns[i]
        /\ Len(kept) = CacheSize \/ kept = turns

IInv ==
    TypeOK /\ AskedTrue /\ ShownTrue /\ LoadsTrue /\ HistoryTrue /\ MirrorTrue

\* What a step does to the rows on the screen, to the cache and to the calls:
\* it leaves the page, shows another thread, shows other rows, or changes
\* neither rows nor cache.
ShowsOther ==
    \E h \in Thread \cup {NoThread}, rows \in {<<>>, turns} :
        Activate(h, rows) /\ UNCHANGED <<asked, askedIn, stored>>

ShowsAnswer(l) ==
    /\ l.answer # <<>> /\ ~l.cancelled /\ loads' = loads \ {l}
    /\ Show(l.answer[1]) /\ fresh' = TRUE
    /\ UNCHANGED <<active, asked, askedIn, stored>>

ShowsNone ==
    /\ ~fresh \/ active = NoThread
    /\ Show(<<>>) /\ loads' \subseteq loads
    /\ UNCHANGED <<active, asked, askedIn, stored, fresh>>

ShowsSame ==
    /\ Show(turns) /\ loads' = loads
    /\ UNCHANGED <<active, asked, askedIn, stored, fresh>>

ShowsStreamed(q) ==
    /\ q \in stored
    /\ Show(<<Streamed(q)>> \o turns) /\ loads' = loads
    /\ UNCHANGED <<active, asked, askedIn, stored, fresh>>

Keeps ==
    /\ UNCHANGED <<turns, cache, active, fresh>>
    /\ \/ loads' \subseteq loads /\ UNCHANGED <<asked, askedIn, stored>>
       \/ \E q \in Question : Ask(q) \/ Stores(q)
       \/ \E l \in loads : ListServed(l)

\* What a step does to the screen: it leaves the page, shows another thread, an
\* answer, nothing, the same or a streamed row, or keeps everything.
LEMMA StepKinds ==
    ASSUME TypeOK, LoadsTrue, [Next]_vars
    PROVE  Leave \/ ShowsOther \/ (\E l \in loads : ShowsAnswer(l)) \/ ShowsNone \/ ShowsSame
           \/ (\E q \in Question : ShowsStreamed(q)) \/ Keeps
<1>1. ASSUME \/ UNCHANGED vars \/ Enter \/ BootServed \/ BootFails
             \/ \E q \in Question : StreamEvent(q)
      PROVE  Keeps
  <2>1. UNCHANGED <<turns, cache, active, fresh, loads, asked, askedIn, stored>>
    BY <1>1 DEF vars, backend, storage, page, calls, seen, Enter, BootServed, BootFails, StreamEvent
  <2> QED BY <2>1 DEF Keeps
<1>2. ASSUME \E q \in Question : Ask(q) \/ Stores(q) PROVE Keeps
  <2>1. UNCHANGED <<turns, cache, active, fresh>>
    BY <1>2 DEF Ask, Stores, storage, page, seen
  <2> QED BY <1>2, <2>1 DEF Keeps
<1>3. ASSUME NEW h \in Thread \cup {NoThread}, Select(h) PROVE ShowsOther
  BY <1>3 DEF Select, ShowsOther, backend
<1>4. ASSUME NEW h \in Thread, CreateThread(h) PROVE ShowsOther
  BY <1>4 DEF CreateThread, ShowsOther
<1>5. CASE Booted
  <2> DEFINE h == Chosen(boot[2])
             rows == IF h = NoThread THEN <<>> ELSE turns
  <2>1. /\ boot[1] = "served"
        /\ IF h # active
           THEN Activate(h, rows)
           ELSE Show(rows) /\ UNCHANGED <<active, activeKey, streaming, fresh, loads>>
        /\ UNCHANGED backend
    BY <1>5 DEF Booted
  <2>2. h \in Thread \cup {NoThread}
    BY <2>1, BootTypes
  <2>3. UNCHANGED <<asked, askedIn, stored>>
    BY <2>1 DEF backend
  <2> HIDE DEF h
  <2>4. CASE h # active
    BY <2>1, <2>2, <2>3, <2>4 DEF ShowsOther
  <2>5. CASE h = active /\ h = NoThread
    BY <2>1, <2>3, <2>5 DEF ShowsNone
  <2>6. CASE h = active /\ h # NoThread
    BY <2>1, <2>3, <2>6 DEF ShowsSame
  <2> QED BY <2>4, <2>5, <2>6
<1>6. ASSUME NEW l \in loads, ListServed(l) PROVE Keeps
  <2>1. UNCHANGED <<turns, cache, active, fresh>>
    BY <1>6 DEF ListServed, storage, page, seen
  <2> QED BY <1>6, <2>1 DEF Keeps
<1>7. ASSUME NEW l \in loads, ListReturns(l) PROVE ShowsAnswer(l) \/ Keeps
  <2>1. CASE l.cancelled
    BY <1>7, <2>1 DEF ListReturns, Keeps, backend
  <2>2. CASE ~l.cancelled
    BY <1>7, <2>2 DEF ListReturns, ShowsAnswer, backend
  <2> QED BY <2>1, <2>2
<1>8. ASSUME NEW l \in loads, ListFails(l) PROVE ShowsNone \/ Keeps
  <2>1. CASE l.cancelled \/ l.cached
    BY <1>8, <2>1 DEF ListFails, Keeps, backend
  <2>2. CASE ~(l.cancelled \/ l.cached)
    <3>1. ~fresh
      BY <2>2 DEF LoadsTrue
    <3> QED BY <1>8, <2>2, <3>1 DEF ListFails, ShowsNone, backend
  <2> QED BY <2>1, <2>2
<1>9. ASSUME NEW q \in Question, StreamDone(q) \/ StreamFails(q)
      PROVE  ShowsStreamed(q) \/ Keeps
  BY <1>9 DEF StreamDone, StreamFails, ShowsStreamed, Keeps, backend, storage, seen
<1>10. ASSUME NEW l \in loads, ListServed(l) \/ ListReturns(l) \/ ListFails(l)
       PROVE  Keeps \/ ShowsNone \/ \E m \in loads : ShowsAnswer(m)
  BY <1>6, <1>7, <1>8, <1>10
<1>11. ASSUME NEW q \in Question,
              Ask(q) \/ Stores(q) \/ StreamEvent(q) \/ StreamDone(q) \/ StreamFails(q)
       PROVE  Keeps \/ \E p \in Question : ShowsStreamed(p)
  <2>1. CASE Ask(q) \/ Stores(q)
    BY <1>2, <2>1, Zenon
  <2>2. CASE StreamEvent(q)
    BY <1>1, <2>2, Zenon
  <2>3. CASE StreamDone(q) \/ StreamFails(q)
    BY <1>9, <2>3, Zenon
  <2> QED BY <1>11, <2>1, <2>2, <2>3
<1>12. CASE Next
  BY <1>1, <1>3, <1>4, <1>5, <1>10, <1>11, <1>12, Zenon DEF Next
<1> QED BY <1>1, <1>12

\* What is stored stays stored, in the thread it was asked in.
LEMMA StoredStays ==
    ASSUME TypeOK, AskedTrue, [Next]_vars
    PROVE  /\ stored \subseteq stored'
           /\ \A q \in Question : q \in stored => askedIn'[q] = askedIn[q]
<1>1. ASSUME NEW q \in Question, Ask(q)
      PROVE  /\ stored \subseteq stored'
             /\ \A p \in Question : p \in stored => askedIn'[p] = askedIn[p]
  <2>1. q \notin stored /\ stored' = stored /\ askedIn' = [askedIn EXCEPT ![q] = active]
    BY <1>1 DEF Ask, AskedTrue
  <2> QED BY <2>1 DEF TypeOK
<1>2. ASSUME NEW q \in Question, Stores(q) PROVE stored \subseteq stored' /\ askedIn' = askedIn
  BY <1>2 DEF Stores
<1>3. CASE UNCHANGED <<askedIn, stored>>
  BY <1>3
<1> QED BY <1>1, <1>2, <1>3
        DEF Next, vars, backend, storage, page, calls, seen, Enter, Leave, Select, CreateThread,
            BootServed, Booted, BootFails, ListServed, ListReturns, ListFails, StreamEvent,
            StreamDone, StreamFails

\* Rows whose turns are stored keep them, and the thread they were asked in.
LEMMA RowsStay ==
    ASSUME TypeOK, AskedTrue, [Next]_vars, NEW s \in Seq(Rows), RowsStored(s)
    PROVE  /\ \A i \in Length(s) : s[i].turn \in stored'
           /\ \A i \in Length(s) : askedIn'[s[i].turn] = askedIn[s[i].turn]
<1>1. \A i \in Length(s) : s[i].turn \in Question
  <2>1. \A i \in Length(s) : s[i] \in Rows
    BY ElementOfSeq DEF Length
  <2> QED BY <2>1 DEF Rows
<1> QED BY <1>1, StoredStays DEF RowsStored

-----------------------------------------------------------------------------
(* Every part of the invariant is kept.                                    *)

\* The empty list of rows.
LEMMA EmptyRows == <<>> \in Seq(Rows) /\ Len(<<>>) = 0 /\ Length(<<>>) = {}
BY DEF Length

\* A list with a streamed row before it.
LEMMA StreamedRows ==
    ASSUME NEW q \in Question, NEW s \in Seq(Rows)
    PROVE  LET t == <<Streamed(q)>> \o s IN
           /\ t \in Seq(Rows) /\ Len(t) = Len(s) + 1 /\ t[1] = Streamed(q)
           /\ \A i \in Length(t) : i = 1 \/ (i - 1 \in Length(s) /\ t[i] = s[i - 1])
<1> DEFINE x == Streamed(q)
<1>1. x \in Rows
  BY RowTypes
<1> HIDE DEF x
<1>2. /\ <<x>> \o s \in Seq(Rows) /\ Len(<<x>> \o s) = Len(s) + 1 /\ Len(s) \in Nat
      /\ (<<x>> \o s)[1] = x
      /\ \A i \in 2 .. Len(s) + 1 : (<<x>> \o s)[i] = s[i - 1]
  BY <1>1
<1>3. \A i \in 1 .. Len(s) + 1 : i = 1 \/ (i \in 2 .. Len(s) + 1 /\ i - 1 \in 1 .. Len(s))
  BY <1>2
<1> QED BY <1>2, <1>3 DEF Length, x

\* The rows the page shows next, as far as ShownTrue speaks of them: turns of
\* the rows it showed, rows of an answer, or the row of a stored turn.
LEMMA ShownStep ==
    ASSUME TypeOK, AskedTrue, ShownTrue, LoadsTrue, [Next]_vars
    PROVE  ShownTrue'
<1>0. /\ turns \in Seq(Rows) /\ RowsStored(turns)
      /\ \A h \in Thread : cache[h] # NoCache => cache[h] \in Seq(Rows) /\ RowsStored(cache[h])
  BY DEF TypeOK, ShownTrue
<1>1. ASSUME NEW s \in Seq(Rows), RowsStored(s) PROVE \A i \in Length(s) : s[i].turn \in stored'
  BY <1>1, RowsStay
<1>2. /\ \A i \in Length(turns) : turns[i].turn \in stored'
      /\ \A h \in Thread : cache[h] # NoCache =>
             \A i \in Length(cache[h]) : cache[h][i].turn \in stored'
  BY <1>0, <1>1
<1>3. ASSUME NEW rows \in Seq(Rows), Show(rows), \A i \in Length(rows) : rows[i].turn \in stored'
      PROVE  ShownTrue'
  <2>1. turns' = rows /\ \A h \in Thread : h # active => cache'[h] = cache[h]
    BY <1>3, Shown
  <2>2. CASE active = NoThread
    <3>1. \A h \in Thread : h # active
      BY <2>2, Nothing
    <3> QED BY <1>2, <1>3, <2>1, <3>1 DEF ShownTrue, RowsStored
  <2>3. CASE active # NoThread
    <3>1. /\ cache'[active] \in Seq(Rows) /\ Len(cache'[active]) <= Len(rows)
          /\ \A i \in 1 .. Len(cache'[active]) : cache'[active][i] = rows[i]
      BY <1>3, <2>3, Shown
    <3>2. \A i \in Length(cache'[active]) : i \in Length(rows)
      BY <3>1 DEF Length
    <3>3. \A i \in Length(cache'[active]) : cache'[active][i].turn \in stored'
      BY <1>3, <3>1, <3>2 DEF Length
    <3> QED BY <1>2, <1>3, <2>1, <3>3 DEF ShownTrue, RowsStored
  <2> QED BY <2>2, <2>3
<1>4. CASE Leave
  <2>1. turns' = <<>> /\ cache' = cache
    BY <1>4 DEF Leave, storage
  <2> QED BY <1>2, <2>1, EmptyRows DEF ShownTrue, RowsStored
<1>5. CASE ShowsOther
  <2> PICK h \in Thread \cup {NoThread}, rows \in {<<>>, turns} : Activate(h, rows)
    BY <1>5 DEF ShowsOther
  <2>1. rows \in Seq(Rows) /\ \A i \in Length(rows) : rows[i].turn \in stored'
    BY <1>0, <1>2, EmptyRows
  <2>2. CASE h = NoThread
    <3>1. turns' = <<>> /\ cache' = cache
      BY <2>1, <2>2, Activated
    <3> QED BY <1>2, <3>1, EmptyRows DEF ShownTrue, RowsStored
  <2>3. CASE h \in Thread
    <3>1. /\ turns' \in Seq(Rows) /\ cache'[h] = turns' /\ Len(turns') <= Len(rows)
          /\ \A i \in 1 .. Len(turns') : turns'[i] = rows[i]
          /\ \A g \in Thread \ {h} : cache'[g] = cache[g]
      BY <2>1, <2>3, Activated
    <3>2. \A i \in Length(turns') : i \in Length(rows)
      BY <2>1, <3>1 DEF Length
    <3>3. \A i \in Length(turns') : turns'[i].turn \in stored'
      BY <2>1, <3>1, <3>2 DEF Length
    <3> QED BY <1>2, <3>1, <3>3 DEF ShownTrue, RowsStored
  <2> QED BY <2>2, <2>3
<1>6. ASSUME NEW l \in loads, ShowsAnswer(l) PROVE ShownTrue'
  <2>1. l.answer[1] \in Seq(Rows) /\ RowsStored(l.answer[1])
    BY <1>6, AnswerType DEF ShowsAnswer, LoadsTrue, AnswerTrue
  <2> QED BY <1>1, <1>3, <1>6, <2>1 DEF ShowsAnswer
<1>7. CASE ShowsNone
  BY <1>3, <1>7, EmptyRows DEF ShowsNone
<1>8. CASE ShowsSame
  BY <1>0, <1>2, <1>3, <1>8 DEF ShowsSame
<1>9. ASSUME NEW q \in Question, ShowsStreamed(q) PROVE ShownTrue'
  <2> DEFINE rows == <<Streamed(q)>> \o turns
  <2>1. /\ rows \in Seq(Rows) /\ rows[1] = Streamed(q)
        /\ \A i \in Length(rows) : i = 1 \/ (i - 1 \in Length(turns) /\ rows[i] = turns[i - 1])
    BY <1>0, StreamedRows
  <2>2. Show(rows) /\ q \in stored'
    BY <1>9 DEF ShowsStreamed
  <2> HIDE DEF rows
  <2>3. \A i \in Length(rows) : rows[i].turn \in stored'
    <3>1. rows[1].turn \in stored'
      BY <2>1, <2>2, RowTypes
    <3> QED BY <1>2, <2>1, <3>1
  <2> QED BY <1>3, <2>1, <2>2, <2>3
<1>10. CASE Keeps
  BY <1>2, <1>10 DEF Keeps, ShownTrue, RowsStored
<1> QED BY <1>4, <1>5, <1>6, <1>7, <1>8, <1>9, <1>10, StepKinds

\* Every step keeps the rows of the history shown those of the active thread.
LEMMA HistoryStep ==
    ASSUME TypeOK, AskedTrue, ShownTrue, LoadsTrue, HistoryTrue, [Next]_vars
    PROVE  HistoryTrue'
<1>0. turns \in Seq(Rows) /\ RowsStored(turns)
  BY DEF TypeOK, ShownTrue
<1>1. CASE Leave \/ ShowsOther
  <2>1. ASSUME NEW h \in Thread \cup {NoThread}, NEW rows \in {<<>>, turns}, Activate(h, rows)
        PROVE  fresh' = FALSE
    BY <2>1 DEF Activate
  <2>2. fresh' = FALSE
    BY <1>1, <2>1 DEF Leave, ShowsOther
  <2> QED BY <2>2 DEF HistoryTrue
<1>2. ASSUME NEW l \in loads, ShowsAnswer(l) PROVE HistoryTrue'
  <2>1. turns' = l.answer[1] /\ active' = active /\ askedIn' = askedIn /\ l.thread = active
    BY <1>2 DEF ShowsAnswer, LoadsTrue, AnswerTrue, Show
  <2>2. \A i \in Length(l.answer[1]) : askedIn[l.answer[1][i].turn] = l.thread
    BY <1>2 DEF ShowsAnswer, LoadsTrue, AnswerTrue
  <2> QED BY <2>1, <2>2 DEF HistoryTrue
<1>3. CASE ShowsNone
  BY <1>3, EmptyRows DEF ShowsNone, Show, HistoryTrue
<1>4. CASE ShowsSame
  BY <1>4 DEF ShowsSame, Show, HistoryTrue
<1>5. ASSUME NEW q \in Question, ShowsStreamed(q) PROVE HistoryTrue'
  <2> DEFINE rows == <<Streamed(q)>> \o turns
  <2>1. /\ rows[1] = Streamed(q)
        /\ \A i \in Length(rows) : i = 1 \/ (i - 1 \in Length(turns) /\ rows[i] = turns[i - 1])
    BY <1>0, StreamedRows
  <2>2. turns' = rows /\ active' = active /\ askedIn' = askedIn /\ fresh' = fresh
    BY <1>5 DEF ShowsStreamed, Show
  <2> HIDE DEF rows
  <2>3. rows[1].items = FALSE
    BY <2>1, RowTypes
  <2> QED BY <2>1, <2>2, <2>3 DEF HistoryTrue
<1>6. CASE Keeps
  <2>1. \A i \in Length(turns) : askedIn'[turns[i].turn] = askedIn[turns[i].turn]
    BY <1>0, RowsStay
  <2> QED BY <1>6, <2>1 DEF Keeps, HistoryTrue
<1> QED BY <1>1, <1>2, <1>3, <1>4, <1>5, <1>6, StepKinds

\* Every step keeps the cache the screen cut to size.
LEMMA MirrorStep ==
    ASSUME TypeOK, LoadsTrue, MirrorTrue, [Next]_vars
    PROVE  MirrorTrue'
<1>0. turns \in Seq(Rows)
  BY DEF TypeOK
<1>1. ASSUME NEW rows \in Seq(Rows), Show(rows), active' = active PROVE MirrorTrue'
  <2>1. turns' = rows
    BY <1>1, Shown
  <2>2. active # NoThread =>
            /\ cache'[active] # NoCache /\ Len(cache'[active]) <= Len(rows)
            /\ \A i \in 1 .. Len(cache'[active]) : cache'[active][i] = rows[i]
            /\ Len(cache'[active]) = CacheSize \/ cache'[active] = rows
    BY <1>1, Shown
  <2> QED BY <1>1, <2>1, <2>2 DEF MirrorTrue, Length
<1>2. CASE Leave
  BY <1>2 DEF Leave, MirrorTrue
<1>3. CASE ShowsOther
  <2> PICK h \in Thread \cup {NoThread}, rows \in {<<>>, turns} : Activate(h, rows)
    BY <1>3 DEF ShowsOther
  <2>1. rows \in Seq(Rows)
    BY <1>0, EmptyRows
  <2>2. active' = h
    BY <2>1, Activated
  <2>3. h \in Thread => cache'[h] = turns' /\ turns' # NoCache /\ turns' \in Seq(Rows)
    BY <2>1, Activated
  <2>4. turns' \in Seq(Rows) => Len(turns') <= Len(turns')
    OBVIOUS
  <2> QED BY <2>2, <2>3, <2>4 DEF MirrorTrue
<1>4. ASSUME NEW l \in loads, ShowsAnswer(l) PROVE MirrorTrue'
  BY <1>1, <1>4, AnswerType DEF ShowsAnswer
<1>5. CASE ShowsNone
  BY <1>1, <1>5, EmptyRows DEF ShowsNone
<1>6. CASE ShowsSame
  BY <1>0, <1>1, <1>6 DEF ShowsSame
<1>7. ASSUME NEW q \in Question, ShowsStreamed(q) PROVE MirrorTrue'
  BY <1>0, <1>1, <1>7, StreamedRows DEF ShowsStreamed
<1>8. CASE Keeps
  BY <1>8 DEF Keeps, MirrorTrue
<1> QED BY <1>2, <1>3, <1>4, <1>5, <1>6, <1>7, <1>8, StepKinds

\* An answer stays true when questions are asked and turns are stored.
LEMMA AnswerStays ==
    ASSUME TypeOK, AskedTrue, [Next]_vars, NEW l \in loads, AnswerTrue(l), l.answer # <<>>
    PROVE  /\ \A i \in Length(l.answer[1]) : l.answer[1][i].turn \in stored'
           /\ \A i \in Length(l.answer[1]) : askedIn'[l.answer[1][i].turn] = l.thread
<1>1. l.answer[1] \in Seq(Rows)
  BY AnswerType
<1>2. /\ RowsStored(l.answer[1])
      /\ \A i \in Length(l.answer[1]) : askedIn[l.answer[1][i].turn] = l.thread
  BY DEF AnswerTrue
<1> DEFINE rows == l.answer[1]
<1> HIDE DEF rows
<1>3. rows \in Seq(Rows) /\ RowsStored(rows)
  BY <1>1, <1>2 DEF rows
<1>4. /\ \A i \in Length(rows) : rows[i].turn \in stored'
      /\ \A i \in Length(rows) : askedIn'[rows[i].turn] = askedIn[rows[i].turn]
  BY <1>3, RowsStay
<1> QED BY <1>2, <1>4 DEF rows

\* Calls that were under way, of which those that are not cancelled are still
\* for the active thread.
LEMMA LoadsStay ==
    ASSUME LoadsTrue, loads' \subseteq loads, UNCHANGED <<active, fresh, askedIn, stored>>
    PROVE  LoadsTrue'
BY DEF LoadsTrue, AnswerTrue, RowsStored

\* Every step keeps the calls under way right.
LEMMA LoadsStep ==
    ASSUME TypeOK, AskedTrue, LoadsTrue, [Next]_vars
    PROVE  LoadsTrue'
<1>0. /\ loads \subseteq Loads /\ OneCurrent
      /\ \A l \in loads : AnswerTrue(l) /\ (~l.cancelled => l.thread = active /\ ~fresh)
      /\ fresh => active # NoThread
  BY DEF TypeOK, Loads, OneCurrent, LoadsTrue
<1>1. CASE Leave
  BY <1>1 DEF Leave, LoadsTrue
<1>2. CASE ShowsOther
  <2> PICK h \in Thread \cup {NoThread}, rows \in {<<>>, turns} :
          Activate(h, rows) /\ UNCHANGED <<asked, askedIn, stored>>
    BY <1>2 DEF ShowsOther
  <2>1. rows \in Seq(Rows)
    BY EmptyRows DEF TypeOK
  <2>2. active' = h /\ fresh' = FALSE
    BY <2>1, Activated
  <2>3. ASSUME NEW m \in Cancelled PROVE m.cancelled /\ AnswerTrue(m)'
    <3>1. PICK l \in loads : m.thread = l.thread /\ m.answer = l.answer
      BY <1>0, CancelledTypes
    <3> QED BY <1>0, <3>1, CancelledTypes DEF AnswerTrue, RowsStored
  <2>4. CASE h = NoThread
    <3>1. loads' = Cancelled
      BY <2>1, <2>4, Activated
    <3> QED BY <2>2, <2>3, <3>1 DEF LoadsTrue
  <2>5. CASE h \in Thread
    <3>1. loads' = Cancelled \cup {Load(h, TRUE)}
      BY <2>1, <2>5, Activated
    <3>2. Load(h, TRUE).thread = h /\ Load(h, TRUE).answer = <<>>
      BY <2>5, LoadTypes
    <3>3. AnswerTrue(Load(h, TRUE))'
      BY <3>2 DEF AnswerTrue
    <3> QED BY <2>2, <2>3, <3>1, <3>2, <3>3 DEF LoadsTrue
  <2> QED BY <2>4, <2>5
<1>3. ASSUME NEW l \in loads, ShowsAnswer(l) PROVE LoadsTrue'
  <2>1. /\ ~l.cancelled /\ loads' = loads \ {l} /\ fresh' = TRUE
        /\ UNCHANGED <<active, askedIn, stored>>
    BY <1>3 DEF ShowsAnswer
  <2>2. active # NoThread
    BY <1>0, <2>1, Nothing DEF Loads
  <2>3. \A m \in loads' : m \in loads /\ m.cancelled
    BY <1>0, <2>1 DEF OneCurrent
  <2> QED BY <1>0, <2>1, <2>2, <2>3 DEF LoadsTrue, AnswerTrue, RowsStored
<1>4. CASE ShowsNone
  BY <1>4, LoadsStay DEF ShowsNone
<1>5. CASE ShowsSame
  BY <1>5, LoadsStay DEF ShowsSame
<1>6. ASSUME NEW q \in Question, ShowsStreamed(q) PROVE LoadsTrue'
  BY <1>6, LoadsStay DEF ShowsStreamed
<1>7. CASE Keeps
  <2>1. UNCHANGED <<active, fresh>>
    BY <1>7 DEF Keeps
  <2>2. CASE loads' \subseteq loads /\ UNCHANGED <<asked, askedIn, stored>>
    BY <2>1, <2>2, LoadsStay
  <2>3. \A l \in loads : AnswerTrue(l)'
    BY <1>0, AnswerStays DEF AnswerTrue, RowsStored
  <2>4. CASE \E q \in Question : Ask(q) \/ Stores(q)
    <3>1. loads' = loads
      BY <2>4 DEF Ask, Stores, calls
    <3> QED BY <1>0, <2>1, <2>3, <3>1 DEF LoadsTrue
  <2>5. ASSUME NEW l \in loads, ListServed(l) PROVE LoadsTrue'
    <3> PICK m \in Loads : m = [l EXCEPT !.answer = <<History(l.thread)>>]
      BY ServedType
    <3>1. /\ loads' = (loads \ {l}) \cup {m} /\ UNCHANGED <<askedIn, stored>>
      BY <2>5 DEF ListServed, backend
    <3>2. m.answer[1] = History(l.thread) /\ m.thread = l.thread /\ m.cancelled = l.cancelled
      BY ServedType
    <3>3. History(l.thread) \in Seq(Mine(l.thread))
      BY HistoryType DEF TypeOK
    <3>4. /\ \A i \in Length(m.answer[1]) : m.answer[1][i].turn \in stored
          /\ \A i \in Length(m.answer[1]) : askedIn[m.answer[1][i].turn] = m.thread
      <4>1. \A i \in Length(m.answer[1]) : m.answer[1][i] \in Mine(l.thread)
        BY <3>2, <3>3, ElementOfSeq DEF Length
      <4> QED BY <3>2, <4>1, MineType
    <3>5. AnswerTrue(m)'
      BY <3>1, <3>4 DEF AnswerTrue, RowsStored
    <3>6. ~m.cancelled => m.thread = active' /\ ~fresh'
      BY <1>0, <2>1, <3>2
    <3>7. \A k \in loads' : k = m \/ k \in loads
      BY <3>1
    <3>8. \A k \in loads : AnswerTrue(k)' /\ (~k.cancelled => k.thread = active' /\ ~fresh')
      BY <1>0, <2>1, <2>3
    <3> QED BY <1>0, <2>1, <3>5, <3>6, <3>7, <3>8 DEF LoadsTrue
  <2> QED BY <1>7, <2>2, <2>4, <2>5 DEF Keeps
<1> QED BY <1>1, <1>2, <1>3, <1>4, <1>5, <1>6, <1>7, StepKinds

\* The start has the inductive invariant.
LEMMA InitTrue == Init => IInv
<1> SUFFICES ASSUME Init PROVE IInv
  OBVIOUS
<1>1. TypeOK /\ AskedTrue
  BY InitTypes
<1>2. ShownTrue
  BY EmptyRows DEF Init, ShownTrue, RowsStored
<1>3. LoadsTrue /\ HistoryTrue /\ MirrorTrue
  BY DEF Init, LoadsTrue, HistoryTrue, MirrorTrue
<1> QED BY <1>1, <1>2, <1>3 DEF IInv

\* Every step preserves the inductive invariant.
LEMMA NextTrue == IInv /\ [Next]_vars => IInv'
<1> SUFFICES ASSUME IInv, [Next]_vars PROVE IInv'
  OBVIOUS
<1>0. TypeOK /\ AskedTrue /\ ShownTrue /\ LoadsTrue /\ HistoryTrue /\ MirrorTrue
  BY DEF IInv
<1>1. TypeOK' /\ AskedTrue'
  BY <1>0, NextTypes
<1>2. ShownTrue' /\ LoadsTrue'
  BY <1>0, ShownStep, LoadsStep
<1>3. HistoryTrue' /\ MirrorTrue'
  BY <1>0, HistoryStep, MirrorStep
<1> QED BY <1>1, <1>2, <1>3 DEF IInv

\* The page and its calls agree at every moment: what is shown is stored, calls
\* that count are for the active thread, and the cache follows the screen.
THEOREM Inductive == Spec => []IInv
BY InitTrue, NextTrue, PTL DEF Spec

-----------------------------------------------------------------------------
(* The properties.                                                         *)

\* The positions and the members of a list of rows.
LEMMA RowsDomain ==
    ASSUME NEW s \in Seq(Rows)
    PROVE  DOMAIN s = Length(s) /\ ToSet(s) = {s[i] : i \in Length(s)}
BY LenProperties DEF Length, ToSet

\* A row of the backend's history is of the thread on the screen, once that
\* thread's history has been answered, whichever calls for other threads are
\* still under way.
THEOREM HistoryHolds == Spec => []HistoryIsOfThread
<1>1. IInv => HistoryIsOfThread
  <2> SUFFICES ASSUME IInv PROVE HistoryIsOfThread
    OBVIOUS
  <2>1. HistoryTrue /\ turns \in Seq(Rows)
    BY DEF IInv, TypeOK
  <2> QED BY <2>1, RowsDomain DEF HistoryTrue, HistoryIsOfThread
<1> QED BY <1>1, Inductive, PTL

\* The rows that are shown and cached are of turns the backend has stored, also
\* after streams that broke off and pages that were left.
THEOREM StoredHolds == Spec => []ShownTurnsStored
<1>1. IInv => ShownTurnsStored
  <2> SUFFICES ASSUME IInv PROVE ShownTurnsStored
    OBVIOUS
  <2>1. ShownTrue /\ TypeOK
    BY DEF IInv
  <2>2. ASSUME NEW s \in Seq(Rows), RowsStored(s) PROVE \A r \in ToSet(s) : r.turn \in stored
    BY <2>2, RowsDomain DEF RowsStored
  <2>3. \A r \in ToSet(turns) : r.turn \in stored
    BY <2>1, <2>2 DEF ShownTrue, TypeOK
  <2>4. ASSUME NEW h \in Thread, cache[h] # NoCache PROVE \A r \in ToSet(cache[h]) : r.turn \in stored
    <3>1. cache[h] \in Seq(Rows) /\ RowsStored(cache[h])
      BY <2>1, <2>4 DEF ShownTrue, TypeOK
    <3> QED BY <2>2, <3>1
  <2> QED BY <2>3, <2>4 DEF ShownTurnsStored
<1> QED BY <1>1, Inductive, PTL

\* The cache of the active thread is what the screen shows, cut to the cache's
\* size.
THEOREM CacheHolds == Spec => []CacheMirrorsScreen
<1>1. IInv => CacheMirrorsScreen
  <2> SUFFICES ASSUME IInv, active # NoThread
               PROVE  /\ cache[active] # NoCache
                      /\ IsPrefix(cache[active], turns)
                      /\ Len(cache[active]) = CacheSize \/ cache[active] = turns
    BY DEF CacheMirrorsScreen
  <2> DEFINE kept == cache[active]
  <2>1. /\ kept # NoCache /\ Len(kept) <= Len(turns)
        /\ \A i \in Length(kept) : kept[i] = turns[i]
        /\ Len(kept) = CacheSize \/ kept = turns
    BY DEF IInv, MirrorTrue
  <2>2. kept \in Seq(Rows) /\ turns \in Seq(Rows)
    BY <2>1 DEF IInv, TypeOK
  <2> HIDE DEF kept
  <2>3. /\ Len(kept) \in Nat /\ Len(turns) \in Nat
        /\ \A i \in 1 .. Len(kept) : turns[i] \in Rows
    <3>1. Len(kept) \in Nat /\ Len(turns) \in Nat
      BY <2>2
    <3>2. \A i \in 1 .. Len(kept) : i \in 1 .. Len(turns)
      BY <2>1, <3>1
    <3> QED BY <2>2, <3>1, <3>2, ElementOfSeq
  <2>4. IsPrefix(kept, turns)
    <3> DEFINE cut == SubSeq(turns, 1, Len(kept))
    <3>1. /\ cut \in Seq(Rows)
          /\ Len(cut) = IF 1 <= Len(kept) THEN Len(kept) - 1 + 1 ELSE 0
          /\ \A i \in 1 .. Len(kept) - 1 + 1 : cut[i] = turns[1 + i - 1]
      BY <2>3, SubSeqProperties
    <3> HIDE DEF cut
    <3>2. Len(cut) = Len(kept) /\ \A i \in 1 .. Len(kept) : cut[i] = kept[i]
      <4>1. /\ Len(kept) - 1 + 1 = Len(kept)
            /\ (IF 1 <= Len(kept) THEN Len(kept) - 1 + 1 ELSE 0) = Len(kept)
            /\ \A i \in 1 .. Len(kept) : 1 + i - 1 = i
        BY <2>3
      <4> QED BY <2>1, <3>1, <4>1 DEF Length
    <3>3. cut = kept
      BY <2>2, <3>1, <3>2, SeqEqual
    <3> QED BY <2>1, <2>2, <3>3 DEF IsPrefix, cut
  <2> QED BY <2>1, <2>4 DEF kept
<1> QED BY <1>1, Inductive, PTL

\* What a suffix is, row by row.
LEMMA SuffixByRows ==
    ASSUME NEW s \in Seq(Rows), NEW t \in Seq(Rows), NEW d \in Nat, Len(t) = Len(s) + d,
           \A i \in 1 .. Len(s) : t[d + i] = s[i]
    PROVE  IsSuffix(s, t)
<1> DEFINE m == Len(s)
           n == Len(t)
           rs == [i \in 1 .. m |-> s[(m - i) + 1]]
           rt == [i \in 1 .. n |-> t[(n - i) + 1]]
<1>1. m \in Nat /\ n \in Nat /\ n = m + d
  OBVIOUS
<1>2. rs = Reverse(s) /\ rt = Reverse(t)
  BY DEF Reverse
<1> HIDE DEF m, n
<1>3. /\ \A i \in 1 .. m : (m - i) + 1 \in 1 .. m
      /\ \A i \in 1 .. n : (n - i) + 1 \in 1 .. n
      /\ \A i \in 1 .. m : i \in 1 .. n
      /\ \A i \in 1 .. m : (n - i) + 1 = d + ((m - i) + 1)
      /\ m <= n /\ 1 <= m + 1
  BY <1>1
<1>4. /\ \A i \in 1 .. m : s[(m - i) + 1] \in Rows
      /\ \A i \in 1 .. n : t[(n - i) + 1] \in Rows
  BY <1>3, ElementOfSeq DEF m, n
<1>5. rs \in Seq(Rows) /\ Len(rs) = m
  BY <1>1, <1>4
<1>6. rt \in Seq(Rows) /\ Len(rt) = n
  BY <1>1, <1>4
<1>7. \A i \in 1 .. m : rt[i] = rs[i]
  BY <1>3 DEF m
<1> HIDE DEF rs, rt
<1> DEFINE cut == SubSeq(rt, 1, m)
<1>8. /\ cut \in Seq(Rows)
      /\ Len(cut) = IF 1 <= m THEN m - 1 + 1 ELSE 0
      /\ \A i \in 1 .. m - 1 + 1 : cut[i] = rt[1 + i - 1]
  <2>1. \A i \in 1 .. m : rt[i] \in Rows
    BY <1>3, <1>6, ElementOfSeq
  <2> QED BY <1>1, <1>6, <2>1, SubSeqProperties
<1> HIDE DEF cut
<1>9. cut = rs
  <2>1. /\ m - 1 + 1 = m /\ (IF 1 <= m THEN m - 1 + 1 ELSE 0) = m
        /\ \A i \in 1 .. m : 1 + i - 1 = i
    BY <1>1
  <2>2. Len(cut) = Len(rs) /\ \A i \in 1 .. Len(rs) : cut[i] = rs[i]
    BY <1>5, <1>7, <1>8, <2>1
  <2> QED BY <1>5, <1>8, <2>2, SeqEqual
<1>10. IsPrefix(rs, rt)
  BY <1>3, <1>5, <1>6, <1>9 DEF IsPrefix, cut
<1> QED BY <1>2, <1>10 DEF IsSuffix

\* Once a thread's history is on the screen, nothing that is shown disappears
\* while the user stays in the thread.
THEOREM StaysHolds == Spec => ShownTurnsStay
<1>1. IInv /\ [Next]_vars => [fresh /\ fresh' /\ active' = active => IsSuffix(turns, turns')]_vars
  <2> SUFFICES ASSUME IInv, [Next]_vars, fresh, fresh', active' = active
               PROVE  IsSuffix(turns, turns')
    OBVIOUS
  <2>0. /\ TypeOK /\ LoadsTrue /\ turns \in Seq(Rows) /\ active # NoThread
    BY DEF IInv, TypeOK, LoadsTrue
  <2>1. ~Leave
    BY DEF Leave
  <2>2. ~ShowsOther
    BY DEF ShowsOther, Activate
  <2>3. ASSUME NEW l \in loads, ShowsAnswer(l) PROVE FALSE
    BY <2>0, <2>3 DEF LoadsTrue, ShowsAnswer
  <2>4. ~ShowsNone
    BY <2>0 DEF ShowsNone
  <2>5. ASSUME turns' = turns PROVE IsSuffix(turns, turns')
    <3>1. Len(turns) = Len(turns) + 0 /\ \A i \in 1 .. Len(turns) : turns[0 + i] = turns[i]
      BY <2>0
    <3> QED BY <2>0, <2>5, <3>1, SuffixByRows
  <2>6. CASE ShowsSame \/ Keeps
    BY <2>5, <2>6 DEF ShowsSame, Keeps, Show
  <2>7. ASSUME NEW q \in Question, ShowsStreamed(q) PROVE IsSuffix(turns, turns')
    <3> DEFINE rows == <<Streamed(q)>> \o turns
    <3>1. turns' = rows
      BY <2>7 DEF ShowsStreamed, Show
    <3>2. /\ rows \in Seq(Rows) /\ Len(rows) = Len(turns) + 1
          /\ \A i \in Length(rows) : i = 1 \/ (i - 1 \in Length(turns) /\ rows[i] = turns[i - 1])
      BY <2>0, StreamedRows
    <3> HIDE DEF rows
    <3>3. \A i \in 1 .. Len(turns) : 1 + i \in 1 .. Len(turns) + 1 /\ 1 + i # 1 /\ (1 + i) - 1 = i
      BY <2>0
    <3>4. \A i \in 1 .. Len(turns) : rows[1 + i] = turns[i]
      BY <3>2, <3>3 DEF Length
    <3> QED BY <2>0, <3>1, <3>2, <3>4, SuffixByRows
  <2> QED BY <2>0, <2>1, <2>2, <2>3, <2>4, <2>6, <2>7, StepKinds
<1> QED BY <1>1, Inductive, PTL DEF ShownTurnsStay, Spec

==============================================================================
