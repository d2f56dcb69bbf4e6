-------------------------- MODULE TurnRuntimeProofs --------------------------
(***************************************************************************)
(* Theorems about TurnRuntime, for any number of threads, streamed and     *)
(* plain turns, provider changes and users, answers of any length, and any *)
(* number of failing saves and restarts.                                   *)
(***************************************************************************)
EXTENDS TurnRuntime, SequenceTheorems, FiniteSetTheorems, WellFoundedInduction, TLAPS

-----------------------------------------------------------------------------
(* Items, tokens and the deltas of an answer.                              *)

\* The kinds of items are told apart, and the gateway's events are none.
LEMMA Kinds ==
    /\ Header \in Seq(Items) /\ Len(Header) = 3
    /\ \A i \in 1 .. 3 : Header[i] \in Items \ {Final}
    /\ \A n \in 1 .. 2 : Delta(n) \in Items \ {Final}
    /\ Final \in Items /\ Done \notin Items /\ Error \notin Items /\ Done # Error
<1>1. /\ Item("message") \in Items \ {Final}
      /\ Item("retrieval_decision") \in Items \ {Final}
      /\ Item("retrieval") \in Items \ {Final}
      /\ Final \in Items
  BY DEF Items, Item, Final
<1>2. \A n \in 1 .. 2 : Delta(n) \in Items \ {Final}
  BY DEF Items, Item, Final, Delta
<1>3. Done \notin Items /\ Error \notin Items /\ Done # Error
  BY DEF Items, Item, Delta, Done, Error
<1>4. /\ Header \in Seq(Items) /\ Len(Header) = 3
      /\ \A i \in 1 .. 3 : Header[i] \in Items \ {Final}
  <2> HIDE DEF Item, Items, Final
  <2> QED BY <1>1 DEF Header
<1> QED BY <1>1, <1>2, <1>3, <1>4

\* A token has the attempt and the text it was made with.
LEMMA TokenFields ==
    ASSUME NEW n, NEW b
    PROVE  /\ Token(n, b).attempt = n /\ Token(n, b).blank = b
           /\ n \in 1 .. 2 /\ b \in BOOLEAN => Token(n, b) \in Tokens
BY DEF Token, Tokens

\* Every token is of one of two attempts and blank or not.
LEMMA TokenRange ==
    ASSUME NEW token \in Tokens
    PROVE  token.attempt \in 1 .. 2 /\ token.blank \in BOOLEAN
BY DEF Token, Tokens

\* A sequence of one member.
LEMMA Single ==
    ASSUME NEW S, NEW x \in S
    PROVE  <<x>> \in Seq(S) /\ Len(<<x>>) = 1 /\ <<x>>[1] = x
OBVIOUS

\* The tokens that are not blank are finitely many.
LEMMA SpokenFinite ==
    ASSUME NEW tokens \in Seq(Tokens)
    PROVE  IsFiniteSet(Spoken(tokens)) /\ Cardinality(Spoken(tokens)) \in Nat
<1>1. Len(tokens) \in Nat
  OBVIOUS
<1>2. IsFiniteSet(1 .. Len(tokens))
  BY <1>1, FS_Interval
<1>3. Spoken(tokens) \in SUBSET (1 .. Len(tokens))
  BY DEF Spoken
<1> QED BY <1>2, <1>3, FS_Subset, FS_CardinalityType

\* The deltas of no tokens are none, and those of some are items.
LEMMA DeltasType ==
    ASSUME NEW tokens \in Seq(Tokens), NEW n \in 1 .. 2
    PROVE  /\ DeltasOf(tokens, n) \in Seq(Items \ {Final})
           /\ Len(DeltasOf(tokens, n)) = Cardinality(Spoken(tokens))
           /\ \A i \in 1 .. Cardinality(Spoken(tokens)) : DeltasOf(tokens, n)[i] = Delta(n)
<1>1. Cardinality(Spoken(tokens)) \in Nat
  BY SpokenFinite
<1>2. Delta(n) \in Items \ {Final}
  BY Kinds
<1> QED BY <1>1, <1>2 DEF DeltasOf

\* Without tokens there are no deltas, whatever the attempt.
LEMMA DeltasOfNone ==
    ASSUME NEW n \in 1 .. 2
    PROVE  DeltasOf(<<>>, n) = <<>>
<1>1. <<>> \in Seq(Tokens) /\ Spoken(<<>>) = {}
  BY DEF Spoken
<1>2. Len(DeltasOf(<<>>, n)) = 0 /\ DeltasOf(<<>>, n) \in Seq(Items \ {Final})
  BY <1>1, DeltasType, FS_EmptySet
<1> QED BY <1>2, EmptySeq

\* One more token gives one more delta, unless it is blank.
LEMMA DeltasOfAppend ==
    ASSUME NEW tokens \in Seq(Tokens), NEW n \in 1 .. 2, NEW blank \in BOOLEAN
    PROVE  DeltasOf(Append(tokens, Token(n, blank)), n) =
               IF blank THEN DeltasOf(tokens, n)
               ELSE Append(DeltasOf(tokens, n), Delta(n))
<1> DEFINE more == Append(tokens, Token(n, blank))
           l == Len(tokens)
<1>0. Token(n, blank) \in Tokens /\ Token(n, blank).blank = blank
  BY TokenFields
<1>1. /\ more \in Seq(Tokens) /\ Len(more) = l + 1 /\ l \in Nat
      /\ \A i \in 1 .. l : more[i] = tokens[i]
      /\ more[l + 1].blank = blank
  BY <1>0
<1> HIDE DEF more
<1>2. CASE blank
  <2>1. \A i \in 1 .. l + 1 : i \in Spoken(more) <=> i \in Spoken(tokens)
    <3>1. l + 1 \notin Spoken(more) /\ l + 1 \notin Spoken(tokens)
      BY <1>1, <1>2 DEF Spoken
    <3>2. \A i \in 1 .. l : i \in Spoken(more) <=> i \in Spoken(tokens)
      BY <1>1 DEF Spoken
    <3> QED BY <1>1, <3>1, <3>2
  <2>2. Spoken(more) \subseteq 1 .. l + 1 /\ Spoken(tokens) \subseteq 1 .. l + 1
    BY <1>1 DEF Spoken
  <2>3. Spoken(more) = Spoken(tokens)
    BY <2>1, <2>2
  <2> QED BY <2>3, <1>2 DEF DeltasOf, more
<1>3. CASE ~blank
  <2>1. Spoken(more) = Spoken(tokens) \cup {l + 1} /\ l + 1 \notin Spoken(tokens)
    BY <1>1, <1>3 DEF Spoken
  <2>2. Cardinality(Spoken(more)) = Cardinality(Spoken(tokens)) + 1
    BY <2>1, SpokenFinite, FS_AddElement
  <2> DEFINE c == Cardinality(Spoken(tokens))
             old == DeltasOf(tokens, n)
             new == DeltasOf(more, n)
  <2>3. /\ c \in Nat
        /\ old \in Seq(Items) /\ Len(old) = c /\ \A i \in 1 .. c : old[i] = Delta(n)
        /\ new \in Seq(Items) /\ Len(new) = c + 1
        /\ \A i \in 1 .. c + 1 : new[i] = Delta(n)
        /\ Delta(n) \in Items
    BY <1>1, <2>2, SpokenFinite, DeltasType, Kinds
  <2> HIDE DEF c, old, new
  <2>4. /\ Append(old, Delta(n)) \in Seq(Items) /\ Len(Append(old, Delta(n))) = c + 1
        /\ \A i \in 1 .. c + 1 : Append(old, Delta(n))[i] = Delta(n)
    BY <2>3
  <2>5. new = Append(old, Delta(n))
    BY <2>3, <2>4, SeqEqual
  <2> QED BY <2>5, <1>3 DEF old, new, more
<1> QED BY <1>2, <1>3

-----------------------------------------------------------------------------
(* Typing.                                                                 *)

Stages == {"new"} \cup TurnSteps \cup Ended

\* Go moves one request between stages and leaves the others where they are.
LEMMA GoTypes ==
    ASSUME TypeOK, NEW r \in Requests, NEW from, NEW to \in Stages, Go(r, from, to)
    PROVE  /\ pc' \in [Requests -> Stages] /\ pc[r] = from /\ pc'[r] = to
           /\ \A o \in Requests \ {r} : pc'[o] = pc[o]
BY DEF TypeOK, Go, Stages

\* A save, whether it succeeds or not, keeps the type of the file.
LEMMA StoreTypes ==
    ASSUME TypeOK, threads' \subseteq Threads, turns' \in [Turns -> Seq(Items)],
           provider' \in Providers, Saved \/ SaveFailed
    PROVE  /\ diskThreads' \subseteq Threads /\ diskTurns' \in [Turns -> Seq(Items)]
           /\ saveFailures' \in 0 .. MaxSaveFailures
           /\ {provider', diskProvider'} \subseteq Providers
BY Bounds DEF TypeOK, Saved, SaveFailed

\* SetConfig keeps the types.
LEMMA ChangeTypes ==
    ASSUME TypeOK, NEW c \in Changes, SetConfig(c)
    PROVE  TypeOK'
<1>1. c \in Requests /\ Wants[c] \in Providers /\ {"ok", "failed"} \subseteq Stages
  BY DEF Requests, Providers, Stages, Ended
<1>2. provider' \in Providers /\ UNCHANGED <<threads, turns>> /\ (Saved \/ SaveFailed)
  BY <1>1 DEF SetConfig
<1>3. pc' \in [Requests -> Stages]
  BY <1>1, GoTypes DEF SetConfig
<1>4. UNCHANGED <<draftVars, pipeVars, crashes>>
  BY DEF SetConfig
<1> QED BY <1>2, <1>3, <1>4, StoreTypes DEF TypeOK, Stages, draftVars, pipeVars

\* CreateThread keeps the types.
LEMMA ThreadTypes ==
    ASSUME TypeOK, NEW h \in Threads, CreateThread(h)
    PROVE  TypeOK'
<1>1. h \in Requests /\ {"ok", "failed"} \subseteq Stages
  BY DEF Requests, Stages, Ended
<1>2. /\ threads' \subseteq Threads /\ UNCHANGED <<turns, provider>>
      /\ Saved \/ SaveFailed
  BY DEF CreateThread, TypeOK
<1>3. pc' \in [Requests -> Stages]
  BY <1>1, GoTypes DEF CreateThread
<1>4. UNCHANGED <<draftVars, pipeVars, crashes>>
  BY DEF CreateThread
<1> QED BY <1>2, <1>3, <1>4, StoreTypes DEF TypeOK, Stages, draftVars, pipeVars

\* The greatest element of a set of turns by the time they were created: the
\* least distance to the clock is attained.
LEMMA LatestExists ==
    ASSUME TypeOK, NEW h, Stored(h) # {}, \A u \in Stored(h) : created[u] <= clock
    PROVE  /\ Latest(h) \in Stored(h)
           /\ \A u \in Stored(h) : created[u] <= created[Latest(h)]
<1> DEFINE ages == {clock - created[u] : u \in Stored(h)}
           less == OpToRel(<, Nat)
<1>1. ages \subseteq Nat /\ ages # {}
  <2>1. clock \in Nat /\ created \in [Turns -> Nat] /\ Stored(h) \subseteq Turns
    BY DEF TypeOK, Stored
  <2>2. \A u \in Stored(h) : clock - created[u] \in Nat
    BY <2>1
  <2> QED BY <2>2
<1>2. IsWellFoundedOn(less, Nat)
  BY NatLessThanWellFounded
<1> HIDE DEF less
<1>3. PICK a \in ages : \A b \in ages : <<b, a>> \notin less
  BY <1>1, <1>2, WFMin
<1>4. \A b \in ages : ~(b < a)
  BY <1>1, <1>3 DEF less, OpToRel
<1>5. PICK t \in Stored(h) : a = clock - created[t]
  BY <1>3
<1>6. \A u \in Stored(h) : created[u] <= created[t]
  <2> SUFFICES ASSUME NEW u \in Stored(h) PROVE created[u] <= created[t]
    OBVIOUS
  <2>1. ~(clock - created[u] < clock - created[t])
    BY <1>4, <1>5
  <2>2. created[u] \in Nat /\ created[t] \in Nat /\ clock \in Nat
    BY DEF TypeOK, Stored
  <2> QED BY <2>1, <2>2
<1> QED BY <1>6 DEF Latest

\* The previous turn is one of the thread, or none.
LEMMA LatestType ==
    ASSUME TypeOK, NEW h, \A u \in Stored(h) : created[u] <= clock
    PROVE  Latest(h) \in Turns \cup {NoTurn}
<1>1. CASE Stored(h) = {}
  BY <1>1 DEF Latest
<1>2. CASE Stored(h) # {}
  BY <1>2, LatestExists DEF Stored
<1> QED BY <1>1, <1>2

\* No turn is from the future: what the choice of the latest one rests on.
NoneFromFuture == \A t \in Turns : created[t] <= clock

\* The start of a turn, or its refusal, keeps the types.
LEMMA BeginTypes ==
    ASSUME TypeOK, NoneFromFuture, NEW t \in Turns, Refuse(t) \/ TurnBegin(t)
    PROVE  TypeOK'
<1>1. t \in Requests /\ {"invalid", "notfound", "denied", "listed"} \subseteq Stages
  BY DEF Requests, Stages, Ended, Refused, TurnSteps
<1>2. UNCHANGED <<storeVars, created, clock, draft, answer, attempt, pipeVars, crashes>>
  BY DEF Refuse, TurnBegin, draftVars
<1>3. pc' \in [Requests -> Stages]
  BY <1>1, GoTypes DEF Refuse, TurnBegin
<1>4. Latest(ThreadOf[t]) \in Turns \cup {NoTurn}
  BY LatestType DEF NoneFromFuture, Stored
<1>5. prev' \in [Turns -> Turns \cup {NoTurn}] /\ uses' \in [Turns -> Providers]
  <2>1. /\ prev' = prev \/ prev' = [prev EXCEPT ![t] = Latest(ThreadOf[t])]
        /\ uses' = uses \/ uses' = [uses EXCEPT ![t] = provider]
    BY Zenon DEF Refuse, TurnBegin, draftVars
  <2>2. /\ prev \in [Turns -> Turns \cup {NoTurn}] /\ uses \in [Turns -> Providers]
        /\ provider \in Providers
    BY DEF TypeOK
  <2> QED BY <1>4, <2>1, <2>2
<1> QED BY <1>2, <1>3, <1>5 DEF TypeOK, Stages, storeVars, pipeVars

\* Deciding, and sending the header of a turn, keep the types.
LEMMA HeaderTypes ==
    ASSUME TypeOK, NEW t \in Turns, TurnDecide(t) \/ SendHeader(t)
    PROVE  TypeOK'
<1>1. t \in Requests /\ "generating" \in Stages
  BY DEF Requests, Stages, TurnSteps
<1>2. UNCHANGED <<storeVars, prev, uses, answer, attempt, shown, away, crashes>>
  BY DEF TurnDecide, SendHeader, pipeVars
<1>3. pc' \in [Requests -> Stages]
  BY <1>1, GoTypes DEF TurnDecide, SendHeader
<1>4. CASE TurnDecide(t)
  <2>1. /\ clock' \in Nat /\ created' \in [Turns -> Nat]
        /\ draft' \in [Turns -> Seq(Items)] /\ wire' = wire
    BY <1>4, Kinds DEF TurnDecide, TypeOK, pipeVars
  <2> QED BY <1>2, <1>3, <2>1 DEF TypeOK, Stages, storeVars
<1>5. CASE SendHeader(t)
  <2>1. Len(draft[t]) + 1 \in 1 .. 3
    <3>1. draft[t] \in Seq(Items)
      BY DEF TypeOK
    <3>2. Len(draft[t]) \in Nat /\ Len(draft[t]) < 3
      BY <1>5, <3>1, Kinds DEF SendHeader
    <3> QED BY <3>2
  <2>2. Header[Len(draft[t]) + 1] \in Items
    BY <2>1, Kinds
  <2>3. /\ draft' \in [Turns -> Seq(Items)] /\ wire' \in [Turns -> Seq(Items)]
        /\ UNCHANGED <<created, clock>>
    BY <1>5, <2>2 DEF SendHeader, TypeOK
  <2> QED BY <1>2, <1>3, <2>3 DEF TypeOK, Stages, storeVars
<1> QED BY <1>4, <1>5

\* The agent's tokens, retry, failure and end, and a send to a client that has
\* left, keep the types.
LEMMA AnswerTypes ==
    ASSUME TypeOK, NEW t \in Turns,
           \/ AgentToken(t) \/ AgentRetry(t) \/ AgentFails(t) \/ AgentDone(t)
           \/ SendFails(t, "generating") \/ SendFails(t, "stored")
    PROVE  TypeOK'
<1>1. t \in Requests /\ {"failed", "answered"} \subseteq Stages
  BY DEF Requests, Stages, TurnSteps, Ended
<1>2. UNCHANGED <<storeVars, prev, uses, created, clock, shown, away, crashes>>
  BY DEF AgentToken, AgentRetry, AgentFails, AgentDone, SendFails, draftVars, pipeVars
<1>3. pc' \in [Requests -> Stages]
  BY <1>1, GoTypes
     DEF AgentToken, AgentRetry, AgentFails, AgentDone, SendFails, TypeOK, Stages
<1>4. CASE AgentToken(t)
  <2>1. attempt[t] \in 1 .. 2 /\ attempt' = attempt
    BY <1>4 DEF TypeOK, AgentToken
  <2>2. PICK blank \in BOOLEAN :
            /\ answer' = [answer EXCEPT ![t] = Append(@, Token(attempt[t], blank))]
            /\ IF blank THEN UNCHANGED <<draft, wire>>
               ELSE /\ draft' = [draft EXCEPT ![t] = Append(@, Delta(attempt[t]))]
                    /\ wire' = [wire EXCEPT ![t] = Append(@, Delta(attempt[t]))]
    BY <1>4 DEF AgentToken
  <2>3. Token(attempt[t], blank) \in Tokens /\ Delta(attempt[t]) \in Items
    BY <2>1, TokenFields, Kinds
  <2>4. answer' \in [Turns -> Seq(Tokens)]
    BY <2>2, <2>3 DEF TypeOK
  <2>5. draft' \in [Turns -> Seq(Items)] /\ wire' \in [Turns -> Seq(Items)]
    <3>1. CASE blank
      BY <2>2, <3>1 DEF TypeOK
    <3>2. CASE ~blank
      <4>1. /\ draft' = [draft EXCEPT ![t] = Append(@, Delta(attempt[t]))]
            /\ wire' = [wire EXCEPT ![t] = Append(@, Delta(attempt[t]))]
        BY <2>2, <3>2, Zenon
      <4> QED BY <4>1, <2>3 DEF TypeOK
    <3> QED BY <3>1, <3>2
  <2> QED BY <1>2, <1>3, <2>1, <2>4, <2>5 DEF TypeOK, Stages, storeVars
<1>5. CASE ~AgentToken(t)
  <2>1. UNCHANGED <<draft, wire>>
    BY <1>5 DEF AgentRetry, AgentFails, AgentDone, SendFails, draftVars, pipeVars
  <2>2. attempt' \in [Turns -> 1 .. 2]
    <3>1. CASE AgentRetry(t)
      BY <3>1 DEF AgentRetry, TypeOK
    <3>2. CASE ~AgentRetry(t)
      <4>1. attempt' = attempt
        BY <1>5, <3>2 DEF AgentFails, AgentDone, SendFails, draftVars
      <4> QED BY <4>1 DEF TypeOK
    <3> QED BY <3>1, <3>2
  <2>3. CASE AgentDone(t)
    <3>1. Token(attempt[t], FALSE) \in Tokens
      BY TokenFields DEF TypeOK
    <3>2. \/ answer' = answer
          \/ answer' = [answer EXCEPT ![t] = <<Token(attempt[t], FALSE)>>]
      BY <2>3, Zenon DEF AgentDone
    <3>3. <<Token(attempt[t], FALSE)>> \in Seq(Tokens)
      BY <3>1, Single
    <3>4. answer' \in [Turns -> Seq(Tokens)]
      <4> DEFINE one == <<Token(attempt[t], FALSE)>>
      <4> HIDE DEF one
      <4>1. one \in Seq(Tokens) /\ (answer' = answer \/ answer' = [answer EXCEPT ![t] = one])
        BY <3>2, <3>3 DEF one
      <4> QED BY <4>1 DEF TypeOK
    <3> QED BY <1>2, <1>3, <2>1, <2>2, <3>4 DEF TypeOK, Stages, storeVars
  <2>4. CASE ~AgentDone(t)
    <3>1. answer' = answer
      BY <1>5, <2>4 DEF AgentRetry, AgentFails, SendFails, draftVars
    <3> QED BY <1>2, <1>3, <2>1, <2>2, <3>1 DEF TypeOK, Stages, storeVars
  <2> QED BY <2>3, <2>4
<1> QED BY <1>4, <1>5

\* Storing a turn and sending its final event keep the types.
LEMMA EndTypes ==
    ASSUME TypeOK, NEW t \in Turns, StoreTurn(t) \/ SendFinal(t)
    PROVE  TypeOK'
<1>1. t \in Requests /\ {"stored", "ok", "failed"} \subseteq Stages
  BY DEF Requests, Stages, TurnSteps, Ended
<1>2. UNCHANGED <<threads, provider, prev, uses, created, clock, answer, attempt, shown,
                  away, crashes>>
  BY DEF StoreTurn, SendFinal, draftVars, pipeVars, storeVars
<1>3. CASE StoreTurn(t)
  <2>1. pc' \in [Requests -> Stages]
    BY <1>1, <1>3, GoTypes DEF StoreTurn
  <2>2. draft' \in [Turns -> Seq(Items)] /\ wire' = wire
    BY <1>3, Kinds DEF StoreTurn, TypeOK, pipeVars
  <2>3. turns' \in [Turns -> Seq(Items)] /\ (Saved \/ SaveFailed)
    BY <1>3, <2>2 DEF StoreTurn, TypeOK
  <2>4. threads' \subseteq Threads /\ provider' \in Providers
    BY <1>2 DEF TypeOK
  <2> QED BY <1>2, <2>1, <2>2, <2>3, <2>4, StoreTypes DEF TypeOK, Stages
<1>4. CASE SendFinal(t)
  <2>1. pc' \in [Requests -> Stages]
    BY <1>1, <1>4, GoTypes DEF SendFinal
  <2>2. wire' \in [Turns -> Seq(Items)] /\ UNCHANGED <<storeVars, draft>>
    BY <1>4, Kinds DEF SendFinal, TypeOK, draftVars
  <2> QED BY <1>2, <2>1, <2>2 DEF TypeOK, Stages, storeVars
<1> QED BY <1>3, <1>4

\* The gateway's relay, its end and a client that leaves keep the types.
LEMMA PipeTypes ==
    ASSUME TypeOK, NEW t \in Turns, Relay(t) \/ RelayEnd(t) \/ Leave(t)
    PROVE  TypeOK'
<1>1. UNCHANGED <<storeVars, pc, draftVars, crashes>>
  BY DEF Relay, RelayEnd, Leave
<1>2. CASE Relay(t)
  <2>1. Head(wire[t]) \in Items /\ Tail(wire[t]) \in Seq(Items)
    BY <1>2 DEF Relay, TypeOK
  <2>2. /\ wire' \in [Turns -> Seq(Items)] /\ away' = away
        /\ shown' \in [Turns -> Seq(Items \cup {Done, Error})]
    <3>1. /\ wire' = [wire EXCEPT ![t] = Tail(wire[t])] /\ away' = away
          /\ shown' = [shown EXCEPT ![t] = Append(shown[t], Head(wire[t]))]
      BY <1>2 DEF Relay
    <3>2. /\ wire \in [Turns -> Seq(Items)]
          /\ shown \in [Turns -> Seq(Items \cup {Done, Error})]
      BY DEF TypeOK
    <3>3. Append(shown[t], Head(wire[t])) \in Seq(Items \cup {Done, Error})
      BY <2>1, <3>2
    <3> QED BY <2>1, <3>1, <3>2, <3>3
  <2> QED BY <1>1, <2>2 DEF TypeOK, storeVars, draftVars
<1>3. CASE RelayEnd(t)
  <2>1. /\ \E event \in {Done, Error} :
               shown' = [shown EXCEPT ![t] = Append(@, event)]
        /\ wire' = wire \/ wire' = [wire EXCEPT ![t] = <<>>]
        /\ away' = away
    BY <1>3, Zenon DEF RelayEnd
  <2>2. shown' \in [Turns -> Seq(Items \cup {Done, Error})]
    BY <2>1 DEF TypeOK
  <2>3. wire' \in [Turns -> Seq(Items)]
    <3> DEFINE none == <<>>
    <3>1. none \in Seq(Items)
      OBVIOUS
    <3>2. wire' = wire \/ wire' = [wire EXCEPT ![t] = none]
      BY <2>1
    <3> HIDE DEF none
    <3> QED BY <3>1, <3>2 DEF TypeOK
  <2> QED BY <1>1, <2>1, <2>2, <2>3 DEF TypeOK, storeVars, draftVars
<1>4. CASE Leave(t)
  BY <1>4 DEF Leave, TypeOK, storeVars, draftVars
<1> QED BY <1>2, <1>3, <1>4

\* A crash, which reloads the file, keeps the types.
LEMMA CrashTypes ==
    ASSUME TypeOK, Crash
    PROVE  TypeOK'
<1>1. pc' \in [Requests -> Stages]
  BY DEF Crash, TypeOK, Stages, Ended
<1>2. crashes' \in 0 .. MaxCrashes
  BY Bounds DEF Crash, TypeOK
<1> QED BY <1>1, <1>2 DEF Crash, TypeOK, Stages, draftVars, pipeVars

\* Refusing a request keeps the types.
LEMMA RefuseTypes ==
    ASSUME TypeOK, NEW r \in Requests, Refuse(r)
    PROVE  TypeOK'
<1>1. pc' \in [Requests -> Stages]
  BY GoTypes DEF Refuse, Stages, Ended, Refused
<1> QED BY <1>1 DEF Refuse, TypeOK, Stages, storeVars, draftVars, pipeVars

\* All steps there are, without the nesting of Next.
LEMMA NextSteps ==
    ASSUME [Next]_vars
    PROVE  \/ UNCHANGED vars
           \/ Crash
           \/ \E c \in Changes : SetConfig(c)
           \/ \E h \in Threads : CreateThread(h)
           \/ \E r \in Requests : Refuse(r)
           \/ \E t \in Turns : TurnBegin(t)
           \/ \E t \in Turns : TurnProceeds(t)
           \/ \E t \in Turns : Relay(t) \/ RelayEnd(t) \/ Leave(t)
BY DEF Next, Idle, Requests

\* The start has the types, and no turn knows one from the future.
LEMMA InitTypes == Init => TypeOK /\ NoneFromFuture
BY Kinds, Bounds DEF Init, TypeOK, NoneFromFuture, Providers

\* Every step keeps the types, and that no turn knows one from the future.
LEMMA NextTypes ==
    ASSUME TypeOK, NoneFromFuture, [Next]_vars
    PROVE  TypeOK' /\ NoneFromFuture'
<1>1. TypeOK'
  <2>1. CASE UNCHANGED vars
    BY <2>1 DEF vars, storeVars, draftVars, pipeVars, TypeOK
  <2>2. CASE \E t \in Turns : TurnProceeds(t)
    BY <2>2, HeaderTypes, AnswerTypes, EndTypes DEF TurnProceeds
  <2> QED BY <2>1, <2>2, NextSteps, ChangeTypes, ThreadTypes, RefuseTypes, BeginTypes,
             PipeTypes, CrashTypes
<1>2. NoneFromFuture'
  <2>1. CASE \E t \in Turns : TurnDecide(t)
    BY <2>1 DEF TurnDecide, NoneFromFuture, TypeOK
  <2>2. CASE ~\E t \in Turns : TurnDecide(t)
    <3>1. UNCHANGED <<created, clock>>
      BY <2>2, NextSteps
         DEF vars, draftVars, SetConfig, CreateThread, Refuse, TurnBegin, TurnProceeds,
             SendHeader, AgentToken, AgentRetry, AgentFails, AgentDone, StoreTurn,
             SendFinal, SendFails, Relay, RelayEnd, Leave, Crash
    <3> QED BY <3>1 DEF NoneFromFuture
  <2> QED BY <2>1, <2>2
<1> QED BY <1>1, <1>2

\* Every variable always has its type; the previous turn given to the model
\* is always a turn, which the choice of the latest one does not grant by
\* itself.
THEOREM TypeCorrect == Spec => []TypeOK
<1>1. Init => TypeOK /\ NoneFromFuture
  BY InitTypes
<1>2. TypeOK /\ NoneFromFuture /\ [Next]_vars => TypeOK' /\ NoneFromFuture'
  BY NextTypes
<1> QED BY <1>1, <1>2, PTL DEF Spec

-----------------------------------------------------------------------------
(* What a step may do to one turn.                                         *)

\* Where a turn is once it has tried to be stored, or was given up.
After == {"stored", "ok", "failed", "lost"}

\* A turn whose draft is left alone: it is let in or refused, fails, is cut
\* short by a crash or ends, while others save what is in memory or the memory
\* is read back.
Quiet(t) ==
    /\ draft'[t] = draft[t] /\ answer'[t] = answer[t] /\ attempt'[t] = attempt[t]
    /\ \/ pc'[t] = pc[t]
       \/ pc[t] = "new" /\ pc'[t] \in Refused \cup {"listed"}
       \/ pc[t] \in TurnSteps /\ pc'[t] \in {"failed", "lost"}
       \/ pc[t] = "stored" /\ pc'[t] = "ok"
    /\ turns'[t] \in {turns[t], diskTurns[t]} /\ diskTurns'[t] \in {diskTurns[t], turns'[t]}

Drafts(t) ==
    \/ TurnDecide(t) \/ SendHeader(t) \/ AgentToken(t) \/ AgentRetry(t) \/ AgentDone(t)
    \/ StoreTurn(t)

\* The step of one turn leaves another turn's draft and stored items alone.
LEMMA TurnAlone ==
    ASSUME TypeOK, NEW t \in Turns, NEW u \in Turns, TurnProceeds(u), ~(t = u /\ Drafts(t))
    PROVE  Quiet(t)
<1>0. u \in Requests /\ t \in Requests
  BY DEF Requests
<1>1. CASE t # u
  <2>1. \A r \in Requests \ {u} : pc'[r] = pc[r]
    BY <1>0 DEF TypeOK, TurnProceeds, TurnDecide, SendHeader, AgentToken, AgentRetry,
                AgentFails, AgentDone, StoreTurn, SendFinal, SendFails, Go
  <2>2. draft'[t] = draft[t] /\ answer'[t] = answer[t] /\ attempt'[t] = attempt[t]
    <3>1. CASE AgentToken(u)
      <4>1. PICK blank \in BOOLEAN :
                /\ answer' = [answer EXCEPT ![u] = Append(@, Token(attempt[u], blank))]
                /\ \/ draft' = draft
                   \/ draft' = [draft EXCEPT ![u] = Append(@, Delta(attempt[u]))]
        BY <3>1, Zenon DEF AgentToken
      <4>2. attempt' = attempt
        BY <3>1 DEF AgentToken
      <4> QED BY <1>1, <4>1, <4>2 DEF TypeOK
    <3>2. CASE AgentDone(u)
      <4>1. \/ answer' = answer
            \/ answer' = [answer EXCEPT ![u] = <<Token(attempt[u], FALSE)>>]
        BY <3>2, Zenon DEF AgentDone
      <4>2. draft' = draft /\ attempt' = attempt
        BY <3>2 DEF AgentDone
      <4>3. answer'[t] = answer[t]
        BY <1>1, <4>1 DEF TypeOK
      <4> QED BY <4>2, <4>3
    <3>3. CASE ~AgentToken(u) /\ ~AgentDone(u)
      BY <1>1, <3>3 DEF TypeOK, TurnProceeds, TurnDecide, SendHeader, AgentRetry,
                AgentFails, StoreTurn, SendFinal, SendFails, draftVars
    <3> QED BY <3>1, <3>2, <3>3
  <2>3. turns'[t] = turns[t] /\ diskTurns'[t] \in {diskTurns[t], turns'[t]}
    BY <1>1 DEF TypeOK, TurnProceeds, TurnDecide, SendHeader, AgentToken, AgentRetry,
                AgentFails, AgentDone, StoreTurn, SendFinal, SendFails, Saved, SaveFailed,
                storeVars
  <2> QED BY <1>0, <1>1, <2>1, <2>2, <2>3 DEF Quiet
<1>2. CASE t = u
  <2>1. AgentFails(t) \/ SendFinal(t) \/ SendFails(t, "generating") \/ SendFails(t, "stored")
    BY <1>2 DEF TurnProceeds, Drafts
  <2>2. UNCHANGED <<storeVars, draftVars>>
    BY <2>1 DEF AgentFails, SendFinal, SendFails
  <2>3. \/ pc[t] \in TurnSteps /\ pc'[t] = "failed"
        \/ pc[t] = "stored" /\ pc'[t] = "ok"
    BY <1>0, <2>1 DEF TypeOK, AgentFails, SendFinal, SendFails, Go, TurnSteps
  <2> QED BY <2>2, <2>3 DEF Quiet, storeVars, draftVars
<1> QED BY <1>1, <1>2

\* What a step does to a turn: nothing, or one of the steps that draft it.
LEMMA TurnMoves ==
    ASSUME TypeOK, [Next]_vars, NEW t \in Turns
    PROVE  Quiet(t) \/ Drafts(t)
<1>0. t \in Requests /\ t \notin Changes /\ t \notin Threads
  BY TurnKinds DEF Requests
<1>1. CASE UNCHANGED vars
  BY <1>1 DEF vars, storeVars, draftVars, Quiet
<1>2. CASE Crash
  <2>1. /\ pc'[t] = IF pc[t] \in TurnSteps THEN "lost" ELSE pc[t]
        /\ UNCHANGED draftVars /\ turns' = diskTurns /\ diskTurns' = diskTurns
    BY <1>0, <1>2 DEF Crash
  <2> QED BY <2>1 DEF Quiet, draftVars
<1>3. CASE \/ \E c \in Changes : SetConfig(c)
           \/ \E h \in Threads : CreateThread(h)
  <2>1. UNCHANGED <<turns, draftVars>> /\ pc'[t] = pc[t]
    BY <1>0, <1>3 DEF SetConfig, CreateThread, Go, TypeOK
  <2>2. diskTurns' \in {diskTurns, turns'}
    BY <1>3 DEF SetConfig, CreateThread, Saved, SaveFailed
  <2> QED BY <2>1, <2>2 DEF Quiet, draftVars
<1>4. CASE \/ \E r \in Requests : Refuse(r)
           \/ \E u \in Turns : TurnBegin(u)
  <2>1. UNCHANGED <<storeVars, draft, answer, attempt>>
    BY <1>4 DEF Refuse, TurnBegin, draftVars
  <2>2. pc'[t] = pc[t] \/ (pc[t] = "new" /\ pc'[t] \in Refused \cup {"listed"})
    BY <1>0, <1>4 DEF Refuse, TurnBegin, Go, TypeOK, Refused
  <2> QED BY <2>1, <2>2 DEF Quiet, storeVars
<1>5. CASE \E u \in Turns : Relay(u) \/ RelayEnd(u) \/ Leave(u)
  BY <1>5 DEF Relay, RelayEnd, Leave, storeVars, draftVars, Quiet
<1>6. CASE \E u \in Turns : TurnProceeds(u)
  BY <1>6, TurnAlone
<1> QED BY <1>1, <1>2, <1>3, <1>4, <1>5, <1>6, NextSteps

-----------------------------------------------------------------------------
(* A turn is drafted in order and stored in one piece.                     *)

\* What a turn consists of before its final item.
Body(t) ==
    Header \o (IF t \in Streamed THEN DeltasOf(answer[t], attempt[t]) ELSE <<>>)

\* Nothing is drafted before the decision; then comes the header, the whole of
\* it before the first token, and all tokens are of the attempt under way.
DraftTrue(t) ==
    /\ pc[t] \in {"new", "listed"} => draft[t] = <<>> /\ answer[t] = <<>>
    /\ \A i \in 1 .. Len(answer[t]) : answer[t][i].attempt = attempt[t]
    /\ pc[t] = "generating" =>
           \/ /\ t \in Streamed /\ answer[t] = <<>> /\ Len(draft[t]) < 3
              /\ \A i \in 1 .. Len(draft[t]) : draft[t][i] = Header[i]
           \/ draft[t] = Body(t) /\ (t \notin Streamed => answer[t] = <<>>)
    /\ pc[t] = "answered" => draft[t] = Body(t)

\* What is stored is the finished draft, and the file never has anything else;
\* a call that goes on after the store finds its turn in the file.
StoredTrue(t) ==
    /\ pc[t] \notin After => turns[t] = <<>>
    /\ turns[t] # <<>> => turns[t] = draft[t] /\ draft[t] = Append(Body(t), Final)
    /\ diskTurns[t] \in {<<>>, turns[t]}
    /\ pc[t] \in {"stored", "ok"} => diskTurns[t] # <<>>

\* The body of a turn is its header, and for a stream the deltas so far.
LEMMA BodyType ==
    ASSUME TypeOK, NEW t \in Turns
    PROVE  /\ Body(t) \in Seq(Items \ {Final})
           /\ Body(t) = IF t \in Streamed THEN Header \o DeltasOf(answer[t], attempt[t])
                        ELSE Header
           /\ Len(Body(t)) >= 3 /\ (t \notin Streamed \/ answer[t] = <<>> => Body(t) = Header)
<1>1. answer[t] \in Seq(Tokens) /\ attempt[t] \in 1 .. 2
  BY DEF TypeOK
<1>2. DeltasOf(answer[t], attempt[t]) \in Seq(Items \ {Final})
  BY <1>1, DeltasType
<1>3. /\ Header \in Seq(Items \ {Final}) /\ Len(Header) = 3 /\ Header \o <<>> = Header
  <2>1. Header \in [1 .. 3 -> Items \ {Final}]
    BY Kinds
  <2>2. Header \in Seq(Items \ {Final})
    BY <2>1, SeqDef
  <2> QED BY <2>2, Kinds, ConcatEmptySeq
<1>4. CASE t \in Streamed
  <2>1. Body(t) = Header \o DeltasOf(answer[t], attempt[t])
    BY <1>4 DEF Body
  <2>2. answer[t] = <<>> => Body(t) = Header
    BY <2>1, <1>1, <1>3, DeltasOfNone
  <2>3. Body(t) \in Seq(Items \ {Final}) /\ Len(Body(t)) >= 3
    <3> DEFINE deltas == DeltasOf(answer[t], attempt[t])
    <3>1. deltas \in Seq(Items \ {Final}) /\ Len(deltas) \in Nat /\ Body(t) = Header \o deltas
      BY <2>1, <1>2
    <3> HIDE DEF deltas
    <3>2. Header \in Seq(Items \ {Final})
      BY <1>3
    <3>3. /\ Header \o deltas \in Seq(Items \ {Final})
          /\ Len(Header \o deltas) = Len(Header) + Len(deltas)
      BY <3>1, <3>2, ConcatProperties
    <3> QED BY <3>1, <3>3, Kinds
  <2> QED BY <1>4, <2>1, <2>2, <2>3
<1>5. CASE t \notin Streamed
  BY <1>3, <1>5 DEF Body
<1> QED BY <1>4, <1>5

\* At the start nothing is drafted or stored.
LEMMA InitDraft == Init => \A t \in Turns : DraftTrue(t) /\ StoredTrue(t)
BY DEF Init, DraftTrue, StoredTrue, Requests, After

\* A quiet turn keeps both facts.
LEMMA QuietKeeps ==
    ASSUME TypeOK, NEW t \in Turns, Quiet(t), DraftTrue(t), StoredTrue(t)
    PROVE  DraftTrue(t)' /\ StoredTrue(t)'
<1>1. Body(t)' = Body(t)
  BY DEF Body, Quiet
<1>2. DraftTrue(t)'
  BY <1>1 DEF Quiet, DraftTrue, Refused, TurnSteps
<1>3. StoredTrue(t)'
  BY <1>1 DEF Quiet, StoredTrue, Refused, TurnSteps, After
<1> QED BY <1>2, <1>3

\* Sending the header keeps draft and stored turn right.
LEMMA SendHeaderKeeps ==
    ASSUME TypeOK, NEW t \in Turns, SendHeader(t), DraftTrue(t), StoredTrue(t), TypeOK'
    PROVE  DraftTrue(t)' /\ StoredTrue(t)'
<1>1. /\ pc[t] = "generating" /\ pc'[t] = "generating" /\ t \in Streamed
      /\ Len(draft[t]) < 3 /\ draft[t] \in Seq(Items)
      /\ draft'[t] = Append(draft[t], Header[Len(draft[t]) + 1])
      /\ UNCHANGED <<turns, diskTurns, answer, attempt>>
  BY Kinds DEF SendHeader, Go, TypeOK, Requests, storeVars
<1>2. Len(draft[t]) \in 0 .. 2 /\ Header[Len(draft[t]) + 1] \in Items
  <2>1. Len(draft[t]) \in Nat
    BY <1>1, LenProperties
  <2>2. \A l \in Nat : l < 3 => l \in 0 .. 2 /\ l + 1 \in 1 .. 3
    OBVIOUS
  <2>3. Len(draft[t]) \in 0 .. 2 /\ Len(draft[t]) + 1 \in 1 .. 3
    BY <1>1, <2>1, <2>2, Zenon
  <2> QED BY <2>3, Kinds
<1>3. answer[t] = <<>> /\ \A i \in 1 .. Len(draft[t]) : draft[t][i] = Header[i]
  BY <1>1, BodyType DEF DraftTrue
<1>4. /\ draft'[t] \in Seq(Items) /\ Len(draft'[t]) = Len(draft[t]) + 1
      /\ \A i \in 1 .. Len(draft[t]) + 1 : draft'[t][i] = Header[i]
  BY <1>1, <1>2, <1>3
<1>5. Body(t)' = Body(t) /\ Body(t) = Header
  BY <1>1, <1>3, BodyType DEF Body
<1>6. Len(draft'[t]) = 3 => draft'[t] = Body(t)'
  <2> HAVE Len(draft'[t]) = 3
  <2>1. Header \in Seq(Items) /\ Len(draft'[t]) = Len(Header)
    BY Kinds
  <2>2. \A i \in 1 .. Len(draft'[t]) : draft'[t][i] = Header[i]
    BY <1>4
  <2>3. draft'[t] = Header
    BY <1>4, <2>1, <2>2, SeqEqual, Zenon
  <2> QED BY <1>5, <2>3
<1>7. DraftTrue(t)'
  BY <1>1, <1>2, <1>3, <1>4, <1>6 DEF DraftTrue
<1> QED BY <1>1, <1>7 DEF StoredTrue, After

\* A token is appended to a draft that stays right.
LEMMA AgentTokenKeeps ==
    ASSUME TypeOK, NEW t \in Turns, AgentToken(t), DraftTrue(t), StoredTrue(t), TypeOK'
    PROVE  DraftTrue(t)' /\ StoredTrue(t)'
<1>1. /\ pc[t] = "generating" /\ pc'[t] = "generating" /\ t \in Streamed
      /\ draft[t] = Body(t) /\ answer[t] \in Seq(Tokens) /\ attempt[t] \in 1 .. 2
      /\ UNCHANGED <<turns, diskTurns, attempt>>
  BY Kinds, BodyType DEF AgentToken, Generating, TypeOK, storeVars, DraftTrue
<1>2. PICK blank \in BOOLEAN :
          /\ answer' = [answer EXCEPT ![t] = Append(@, Token(attempt[t], blank))]
          /\ IF blank THEN UNCHANGED <<draft, wire>>
             ELSE /\ draft' = [draft EXCEPT ![t] = Append(@, Delta(attempt[t]))]
                  /\ wire' = [wire EXCEPT ![t] = Append(@, Delta(attempt[t]))]
  BY DEF AgentToken
<1> DEFINE old == DeltasOf(answer[t], attempt[t])
           new == DeltasOf(answer[t], attempt[t])'
<1>3. /\ answer'[t] = Append(answer[t], Token(attempt[t], blank))
      /\ Token(attempt[t], blank) \in Tokens /\ Token(attempt[t], blank).attempt = attempt[t]
  BY <1>1, <1>2, TokenFields DEF TypeOK
<1>4. \A i \in 1 .. Len(answer'[t]) : answer'[t][i].attempt = attempt'[t]
  BY <1>1, <1>3 DEF DraftTrue
<1>5. /\ old \in Seq(Items) /\ Delta(attempt[t]) \in Items
      /\ new = IF blank THEN old ELSE Append(old, Delta(attempt[t]))
  <2>1. new = DeltasOf(answer'[t], attempt[t])
    BY <1>1 DEF DeltasOf, Spoken
  <2>2. new = IF blank THEN old ELSE Append(old, Delta(attempt[t]))
    BY <2>1, <1>1, <1>3, DeltasOfAppend
  <2>3. old \in Seq(Items \ {Final})
    BY <1>1, DeltasType
  <2>4. old \in Seq(Items) /\ Delta(attempt[t]) \in Items
    BY <2>3, <1>1, Kinds, SeqMonotonic
  <2> QED BY <2>2, <2>4
<1>6. Body(t) = Header \o old /\ Body(t)' = Header \o new
  BY <1>1 DEF Body, DeltasOf, Spoken
<1> HIDE DEF old, new
<1>7. draft'[t] = Body(t)'
  <2>1. CASE blank
    BY <2>1, <1>1, <1>2, <1>5, <1>6
  <2>2. CASE ~blank
    <3>1. draft' = [draft EXCEPT ![t] = Append(@, Delta(attempt[t]))]
      BY <2>2, <1>2, Zenon
    <3>2. draft'[t] = Append(Header \o old, Delta(attempt[t]))
      BY <3>1, <1>1, <1>6 DEF TypeOK
    <3>3. Append(Header \o old, Delta(attempt[t])) = Header \o Append(old, Delta(attempt[t]))
      BY <1>5, Kinds
    <3>4. new = Append(old, Delta(attempt[t]))
      BY <2>2, <1>5
    <3> QED BY <3>2, <3>3, <3>4, <1>6
  <2> QED BY <2>1, <2>2
<1>8. DraftTrue(t)'
  BY <1>1, <1>4, <1>7 DEF DraftTrue
<1> QED BY <1>1, <1>8 DEF StoredTrue, After

\* Deciding, a retry and the end of the answer keep draft and stored turn right.
LEMMA AnswerKeeps ==
    ASSUME TypeOK, NEW t \in Turns, TurnDecide(t) \/ AgentRetry(t) \/ AgentDone(t),
           DraftTrue(t), StoredTrue(t), TypeOK'
    PROVE  DraftTrue(t)' /\ StoredTrue(t)'
<1>0. t \in Requests
  BY DEF Requests
<1>1. CASE TurnDecide(t)
  <2>1. /\ pc[t] = "listed" /\ pc'[t] = "generating" /\ answer[t] = <<>> /\ answer'[t] = <<>>
        /\ draft'[t] = IF t \in Streamed THEN <<>> ELSE Header
        /\ UNCHANGED <<turns, diskTurns, attempt>>
    BY <1>0, <1>1 DEF TurnDecide, Go, TypeOK, storeVars, DraftTrue
  <2>2. Body(t)' = Header \/ t \in Streamed
    BY Kinds, ConcatEmptySeq DEF Body
  <2>3. DraftTrue(t)'
    BY <2>1, <2>2 DEF DraftTrue
  <2> QED BY <2>1, <2>3 DEF StoredTrue, After
<1>2. CASE AgentRetry(t)
  <2>1. /\ pc[t] = "generating" /\ pc'[t] = "generating"
        /\ answer[t] = <<>> /\ answer'[t] = <<>> /\ attempt'[t] = 2
        /\ draft[t] = Body(t) /\ UNCHANGED <<turns, diskTurns, draft>>
    BY <1>2, BodyType, Kinds DEF AgentRetry, Generating, TypeOK, storeVars, DraftTrue
  <2>2. Body(t) = Header
    BY <2>1, BodyType
  <2>3. Body(t)' = Header
    <3>1. CASE t \in Streamed
      <4>1. Body(t)' = Header \o DeltasOf(answer'[t], attempt'[t])
        BY <3>1 DEF Body, DeltasOf, Spoken
      <4>2. Body(t)' = Header \o DeltasOf(<<>>, 2)
        BY <2>1, <4>1
      <4>3. DeltasOf(<<>>, 2) = <<>>
        BY DeltasOfNone
      <4> QED BY <4>2, <4>3, Kinds, ConcatEmptySeq
    <3>2. CASE t \notin Streamed
      BY <3>2, Kinds, ConcatEmptySeq DEF Body
    <3> QED BY <3>1, <3>2
  <2>4. DraftTrue(t)'
    BY <2>1, <2>2, <2>3 DEF DraftTrue
  <2> QED BY <2>1, <2>4 DEF StoredTrue, After
<1>3. CASE AgentDone(t)
  <2>1. /\ pc[t] = "generating" /\ pc'[t] = "answered"
        /\ draft[t] = Body(t) /\ UNCHANGED <<turns, diskTurns, draft, attempt>>
    BY <1>0, <1>3, BodyType, Kinds
       DEF AgentDone, Generating, Go, TypeOK, storeVars, DraftTrue
  <2>2. CASE t \in Streamed
    <3>1. answer' = answer
      BY <1>3, <2>2 DEF AgentDone
    <3>2. Body(t)' = Body(t)
      BY <2>1, <3>1 DEF Body, DeltasOf, Spoken
    <3> QED BY <2>1, <3>1, <3>2 DEF DraftTrue, StoredTrue, After
  <2>3. CASE t \notin Streamed
    <3>1. answer'[t] = <<Token(attempt[t], FALSE)>>
      BY <1>3, <2>3 DEF AgentDone, TypeOK
    <3>2. Token(attempt[t], FALSE) \in Tokens /\ Token(attempt[t], FALSE).attempt = attempt[t]
      BY TokenFields DEF TypeOK
    <3>3. \A i \in 1 .. Len(answer'[t]) : answer'[t][i].attempt = attempt'[t]
      <4>1. Len(answer'[t]) = 1 /\ answer'[t][1] = Token(attempt[t], FALSE)
        BY <3>1, <3>2, Single
      <4>2. \A i \in 1 .. 1 : i = 1
        OBVIOUS
      <4> QED BY <2>1, <3>2, <4>1, <4>2
    <3>4. Body(t)' = Body(t)
      BY <2>3 DEF Body
    <3> QED BY <2>1, <3>3, <3>4 DEF DraftTrue, StoredTrue, After
  <2> QED BY <2>2, <2>3
<1> QED BY <1>1, <1>2, <1>3

\* What StoreTurn stores is the whole draft and its final item.
LEMMA StoreKeeps ==
    ASSUME TypeOK, NEW t \in Turns, StoreTurn(t), DraftTrue(t), StoredTrue(t), TypeOK'
    PROVE  DraftTrue(t)' /\ StoredTrue(t)'
<1>0. t \in Requests
  BY DEF Requests
<1>1. /\ pc[t] = "answered" /\ pc'[t] \in {"stored", "ok", "failed"}
      /\ draft[t] = Body(t) /\ draft'[t] = Append(Body(t), Final) /\ turns'[t] = draft'[t]
      /\ turns[t] = <<>> /\ diskTurns[t] = <<>>
      /\ UNCHANGED <<answer, attempt>>
  BY <1>0 DEF StoreTurn, Go, TypeOK, DraftTrue, StoredTrue, After
<1>2. Body(t)' = Body(t)
  BY <1>1 DEF Body, DeltasOf, Spoken
<1>3. DraftTrue(t)'
  BY <1>1 DEF DraftTrue
<1>4. Append(Body(t), Final) # <<>>
  BY BodyType, Kinds
<1>5. \/ diskTurns'[t] = turns'[t]
      \/ diskTurns'[t] = <<>> /\ pc'[t] = "failed"
  BY <1>0, <1>1 DEF StoreTurn, Saved, SaveFailed, Go, TypeOK
<1> QED BY <1>1, <1>2, <1>3, <1>4, <1>5 DEF StoredTrue, After

\* Every step keeps the drafts and the stored turns of all turns right.
LEMMA DraftStep ==
    ASSUME TypeOK, TypeOK', [Next]_vars, \A t \in Turns : DraftTrue(t) /\ StoredTrue(t)
    PROVE  \A t \in Turns : DraftTrue(t)' /\ StoredTrue(t)'
BY TurnMoves, QuietKeeps, SendHeaderKeeps, AgentTokenKeeps, AnswerKeeps, StoreKeeps
   DEF Drafts

-----------------------------------------------------------------------------
(* Stored turns, their threads and what the model is told of them.         *)

\* A turn that was let in, or is stored, is of the owner of a thread that is
\* there, and the file that has a turn has its thread.
ThreadsTrue ==
    /\ diskThreads \subseteq threads
    /\ \A t \in Turns :
           /\ pc[t] \in TurnSteps \/ turns[t] # <<>> =>
                  ThreadOf[t] \in threads /\ User[ThreadOf[t]] = User[t]
           /\ diskTurns[t] # <<>> => ThreadOf[t] \in diskThreads

\* A turn has no date before it is decided.
Undated == \A t \in Turns : pc[t] \in {"new", "listed"} => created[t] = 0

\* The step that lets a question in.
Begins(t) ==
    /\ ThreadOf[t] \in threads /\ User[ThreadOf[t]] = User[t]
    /\ pc[t] = "new" /\ pc'[t] = "listed"
    /\ prev' = [prev EXCEPT ![t] = Latest(ThreadOf[t])]
    /\ uses' = [uses EXCEPT ![t] = provider]
    /\ UNCHANGED <<storeVars, created, clock>>

\* Outside a crash threads stay, and the file changes only by being made equal
\* to the memory.
LEMMA StoreMoves ==
    ASSUME TypeOK, [Next]_vars, ~Crash
    PROVE  /\ threads \subseteq threads'
           /\ \/ UNCHANGED <<diskThreads, diskTurns, diskProvider>>
              \/ diskThreads' = threads' /\ diskTurns' = turns' /\ diskProvider' = provider'
<1>1. CASE \E t \in Turns : TurnProceeds(t)
  BY <1>1 DEF TurnProceeds, TurnDecide, SendHeader, AgentToken, AgentRetry, AgentFails,
              AgentDone, StoreTurn, SendFinal, SendFails, Saved, SaveFailed, storeVars
<1>2. CASE ~\E t \in Turns : TurnProceeds(t)
  BY <1>2, NextSteps DEF vars, SetConfig, CreateThread, Refuse, TurnBegin, Relay, RelayEnd,
                         Leave, Saved, SaveFailed, storeVars
<1> QED BY <1>1, <1>2

\* Only a step that lets a question in gives it a previous turn or a provider.
LEMMA BeginMoves ==
    ASSUME TypeOK, [Next]_vars
    PROVE  /\ UNCHANGED <<prev, uses>> \/ \E t \in Turns : Begins(t)
           /\ \A t \in Turns : pc[t] = "new" /\ pc'[t] = "listed" => Begins(t)
<1>1. CASE \E t \in Turns : TurnBegin(t)
  <2> PICK t \in Turns : TurnBegin(t)
    BY <1>1
  <2>0. t \in Requests
    BY DEF Requests
  <2>1. /\ \A r \in Requests \ {t} : pc'[r] = pc[r]
        /\ pc'[t] \in {"notfound", "denied", "listed"}
        /\ UNCHANGED <<storeVars, created, clock>>
    BY <2>0 DEF TurnBegin, Go, TypeOK
  <2>2. pc'[t] = "listed" => Begins(t)
    BY <2>0 DEF TurnBegin, Go, TypeOK, Begins
  <2>3. pc'[t] # "listed" => UNCHANGED <<prev, uses>>
    BY <2>0 DEF TurnBegin, Go, TypeOK
  <2>4. \A u \in Turns : pc[u] = "new" /\ pc'[u] = "listed" => u = t
    BY <2>1 DEF Requests
  <2> QED BY <2>2, <2>3, <2>4
<1>2. CASE ~\E t \in Turns : TurnBegin(t)
  <2>1. UNCHANGED <<prev, uses>>
    BY <1>2, NextSteps
       DEF vars, draftVars, SetConfig, CreateThread, Refuse, TurnProceeds, TurnDecide,
           SendHeader, AgentToken, AgentRetry, AgentFails, AgentDone, StoreTurn,
           SendFinal, SendFails, Relay, RelayEnd, Leave, Crash
  <2>2. ASSUME NEW t \in Turns, pc[t] = "new", pc'[t] = "listed"
        PROVE  FALSE
    <3>0. t \in Requests /\ t \notin Changes /\ t \notin Threads
      BY TurnKinds DEF Requests
    <3>1. CASE UNCHANGED vars \/ Crash
      BY <2>2, <3>0, <3>1 DEF vars, Crash
    <3>2. CASE \/ \E c \in Changes : SetConfig(c)
               \/ \E h \in Threads : CreateThread(h)
               \/ \E r \in Requests : Refuse(r)
      BY <2>2, <3>0, <3>2 DEF SetConfig, CreateThread, Refuse, Go, TypeOK
    <3>3. CASE \E u \in Turns : Relay(u) \/ RelayEnd(u) \/ Leave(u)
      BY <2>2, <3>3 DEF Relay, RelayEnd, Leave
    <3>4. CASE \E u \in Turns : TurnProceeds(u)
      BY <2>2, <3>0, <3>4
         DEF TurnProceeds, TurnDecide, SendHeader, AgentToken, AgentRetry, AgentFails,
             AgentDone, StoreTurn, SendFinal, SendFails, Go, TypeOK
    <3> QED BY <1>2, <3>1, <3>2, <3>3, <3>4, NextSteps
  <2> QED BY <2>1, <2>2
<1> QED BY <1>1, <1>2

\* At the start no turn is stored and none has a date.
LEMMA InitThreads == Init => ThreadsTrue /\ Undated
BY DEF Init, ThreadsTrue, Undated, Requests, TurnSteps

\* Every step keeps turns let in or stored in existing threads of their owner, in memory
\* and in the file.
LEMMA ThreadsStep ==
    ASSUME TypeOK, TypeOK', [Next]_vars, ThreadsTrue,
           \A t \in Turns : DraftTrue(t) /\ StoredTrue(t)
    PROVE  ThreadsTrue'
<1>1. CASE Crash
  <2>1. /\ threads' = diskThreads /\ diskThreads' = diskThreads
        /\ turns' = diskTurns /\ diskTurns' = diskTurns
    BY <1>1 DEF Crash
  <2>2. \A t \in Turns : pc'[t] \notin TurnSteps
    BY <1>1 DEF Crash, Requests, TurnSteps
  <2>3. \A t \in Turns : diskTurns[t] # <<>> => turns[t] # <<>>
    BY DEF StoredTrue
  <2> QED BY <2>1, <2>2, <2>3 DEF ThreadsTrue
<1>2. CASE ~Crash
  <2>1. /\ threads \subseteq threads'
        /\ \/ UNCHANGED <<diskThreads, diskTurns>>
           \/ diskThreads' = threads' /\ diskTurns' = turns'
    BY <1>2, StoreMoves
  <2>2. ASSUME NEW t \in Turns, pc'[t] \in TurnSteps \/ turns'[t] # <<>>
        PROVE  ThreadOf[t] \in threads' /\ User[ThreadOf[t]] = User[t]
    <3>1. CASE Begins(t)
      BY <2>1, <3>1 DEF Begins
    <3>2. CASE ~Begins(t)
      <4>1. CASE Quiet(t)
        <5>1. pc'[t] \in TurnSteps => pc[t] \in TurnSteps
          BY <3>2, <4>1, BeginMoves DEF Quiet, TurnSteps, Refused
        <5>2. turns'[t] # <<>> => turns[t] # <<>>
          BY <4>1 DEF Quiet, StoredTrue
        <5> QED BY <2>1, <2>2, <5>1, <5>2 DEF ThreadsTrue
      <4>2. CASE Drafts(t)
        <5>1. pc[t] \in TurnSteps
          BY <4>2 DEF Drafts, TurnDecide, SendHeader, AgentToken, AgentRetry, AgentDone,
                      StoreTurn, Generating, Go, TurnSteps
        <5> QED BY <2>1, <5>1 DEF ThreadsTrue
      <4> QED BY <4>1, <4>2, TurnMoves
    <3> QED BY <3>1, <3>2
  <2>3. ASSUME NEW t \in Turns, diskTurns'[t] # <<>>
        PROVE  ThreadOf[t] \in diskThreads'
    <3>1. CASE UNCHANGED <<diskThreads, diskTurns>>
      BY <2>3, <3>1 DEF ThreadsTrue
    <3>2. CASE diskThreads' = threads' /\ diskTurns' = turns'
      BY <2>2, <2>3, <3>2
    <3> QED BY <2>1, <3>1, <3>2
  <2> QED BY <2>1, <2>2, <2>3 DEF ThreadsTrue
<1> QED BY <1>1, <1>2

\* The previous turn has been through its store, and what was decided when it
\* was looked up stays true.
HistoryTrue == HistoryStaysPrivate /\ \A t \in Turns : prev[t] # NoTurn => pc[prev[t]] \in After

\* At the start no turn has a previous one.
LEMMA InitHistory == Init => HistoryTrue
BY DEF Init, HistoryTrue, HistoryStaysPrivate

\* Only TurnDecide dates a turn and moves the clock.
LEMMA ClockMoves ==
    ASSUME [Next]_vars
    PROVE  UNCHANGED <<created, clock>> \/ \E t \in Turns : TurnDecide(t)
BY NextSteps
   DEF vars, draftVars, SetConfig, CreateThread, Refuse, TurnBegin, TurnProceeds,
       SendHeader, AgentToken, AgentRetry, AgentFails, AgentDone, StoreTurn,
       SendFinal, SendFails, Relay, RelayEnd, Leave, Crash

\* Every step leaves a turn that has not decided without a date.
LEMMA UndatedStep ==
    ASSUME TypeOK, [Next]_vars, Undated
    PROVE  Undated'
<1> SUFFICES ASSUME NEW t \in Turns, pc'[t] \in {"new", "listed"}
             PROVE  created'[t] = 0
  BY DEF Undated
<1>1. pc[t] \in {"new", "listed"} /\ ~TurnDecide(t)
  <2>1. CASE Quiet(t)
    BY <2>1 DEF Quiet, TurnSteps, TurnDecide, Go, TypeOK, Requests
  <2>2. CASE Drafts(t)
    BY <2>2 DEF Drafts, TurnDecide, SendHeader, AgentToken, AgentRetry, AgentDone,
                StoreTurn, Generating, Go, TypeOK, Requests
  <2> QED BY <2>1, <2>2, TurnMoves
<1>2. created'[t] = created[t]
  BY <1>1, ClockMoves DEF TurnDecide, TypeOK
<1> QED BY <1>1, <1>2 DEF Undated

\* A turn that has been through its store stays there, and its date stays.
LEMMA AfterStays ==
    ASSUME TypeOK, [Next]_vars, NEW t \in Turns, pc[t] \in After
    PROVE  pc'[t] \in After /\ created'[t] = created[t]
<1>1. Quiet(t) /\ ~TurnDecide(t)
  BY TurnMoves DEF Drafts, TurnDecide, SendHeader, AgentToken, AgentRetry, AgentDone,
                   StoreTurn, Generating, Go, After
<1>2. pc'[t] \in After
  BY <1>1 DEF Quiet, After
<1>3. created'[t] = created[t]
  BY <1>1, ClockMoves DEF TurnDecide, TypeOK
<1> QED BY <1>2, <1>3

\* Every step keeps a turn's previous turn stored, older, and of its thread.
LEMMA HistoryStep ==
    ASSUME TypeOK, TypeOK', NoneFromFuture, [Next]_vars, ThreadsTrue, Undated, HistoryTrue,
           \A t \in Turns : DraftTrue(t) /\ StoredTrue(t)
    PROVE  HistoryTrue'
<1> SUFFICES ASSUME NEW t \in Turns, prev'[t] # NoTurn
             PROVE  /\ User[prev'[t]] = User[t] /\ ThreadOf[prev'[t]] = ThreadOf[t]
                    /\ prev'[t] # t /\ pc'[prev'[t]] \in After
                    /\ created'[t] # 0 => created'[prev'[t]] < created'[t]
  BY DEF HistoryTrue, HistoryStaysPrivate, After
<1>1. CASE Begins(t)
  <2>1. prev'[t] = Latest(ThreadOf[t]) /\ UNCHANGED <<created, clock>> /\ pc[t] = "new"
    BY <1>1 DEF Begins, TypeOK
  <2>2. Stored(ThreadOf[t]) # {}
    BY <2>1 DEF Latest
  <2>3. prev'[t] \in Stored(ThreadOf[t])
    BY <2>1, <2>2, LatestExists DEF NoneFromFuture, Stored
  <2>4. prev'[t] \in Turns /\ turns[prev'[t]] # <<>> /\ ThreadOf[prev'[t]] = ThreadOf[t]
    BY <2>3 DEF Stored
  <2>5. pc[prev'[t]] \in After /\ User[prev'[t]] = User[t]
    BY <1>1, <2>4 DEF StoredTrue, ThreadsTrue, Begins
  <2>6. created'[t] = 0 /\ prev'[t] # t
    BY <2>1, <2>5 DEF Undated, After
  <2> QED BY <2>4, <2>5, <2>6, AfterStays
<1>2. CASE ~Begins(t)
  <2>1. prev'[t] = prev[t]
    BY <1>2, BeginMoves DEF Begins, TypeOK
  <2> DEFINE p == prev[t]
  <2>2. /\ p \in Turns /\ User[p] = User[t] /\ ThreadOf[p] = ThreadOf[t] /\ p # t
        /\ pc[p] \in After /\ (created[t] # 0 => created[p] < created[t])
    BY <2>1 DEF HistoryTrue, HistoryStaysPrivate, TypeOK
  <2>3. pc'[p] \in After /\ created'[p] = created[p]
    BY <2>2, AfterStays
  <2>4. created'[t] = created[t] \/ created'[t] = clock + 1
    <3>1. created' = created \/ \E u \in Turns : created' = [created EXCEPT ![u] = clock + 1]
      BY ClockMoves, Zenon DEF TurnDecide
    <3> QED BY <3>1 DEF TypeOK
  <2>5. created[p] \in Nat /\ clock \in Nat /\ created[p] <= clock
    BY <2>2 DEF TypeOK, NoneFromFuture
  <2>6. created'[t] # 0 => created'[p] < created'[t]
    BY <2>2, <2>3, <2>4, <2>5
  <2> QED BY <2>1, <2>2, <2>3, <2>6
<1> QED BY <1>1, <1>2

-----------------------------------------------------------------------------
(* The provider.                                                           *)

\* What the acknowledged and the unsaved changes have asked for.
Asked == {Wants[c] : c \in {d \in Changes : pc[d] \in {"ok", "failed"}}}
Acknowledged == \E c \in Changes : pc[c] = "ok"

ProviderTrue == Acknowledged => {provider, diskProvider} \subseteq Asked

\* At the start no change was acknowledged.
LEMMA InitProvider == Init => ProviderTrue
BY DEF Init, ProviderTrue, Acknowledged, Requests

\* What a step does to a change of the provider: it is applied, left alone, or
\* refused or lost before it was.
LEMMA ChangeMoves ==
    ASSUME TypeOK, [Next]_vars, NEW c \in Changes
    PROVE  \/ SetConfig(c)
           \/ pc'[c] = pc[c]
           \/ pc[c] \notin {"ok", "failed"} /\ pc'[c] \in {"invalid", "lost"}
<1>0. c \in Requests /\ c \notin Turns /\ c \notin Threads
  BY TurnKinds DEF Requests
<1>1. CASE UNCHANGED vars \/ Crash
  BY <1>0, <1>1 DEF vars, Crash, TurnSteps
<1>2. CASE \/ \E d \in Changes : SetConfig(d)
           \/ \E h \in Threads : CreateThread(h)
           \/ \E r \in Requests : Refuse(r)
  BY <1>0, <1>2 DEF SetConfig, CreateThread, Refuse, Go, TypeOK
<1>3. CASE \E t \in Turns : TurnBegin(t) \/ Relay(t) \/ RelayEnd(t) \/ Leave(t)
  BY <1>0, <1>3 DEF TurnBegin, Relay, RelayEnd, Leave, Go, TypeOK
<1>4. CASE \E t \in Turns : TurnProceeds(t)
  BY <1>0, <1>4
     DEF TurnProceeds, TurnDecide, SendHeader, AgentToken, AgentRetry, AgentFails,
         AgentDone, StoreTurn, SendFinal, SendFails, Go, TypeOK
<1> QED BY <1>1, <1>2, <1>3, <1>4, NextSteps

\* Only SetConfig and a crash change the provider.
LEMMA ProviderMoves ==
    ASSUME [Next]_vars, ~Crash, ~\E c \in Changes : SetConfig(c)
    PROVE  provider' = provider
BY NextSteps
   DEF vars, storeVars, CreateThread, Refuse, TurnBegin, TurnProceeds, TurnDecide,
       SendHeader, AgentToken, AgentRetry, AgentFails, AgentDone, StoreTurn,
       SendFinal, SendFails, Relay, RelayEnd, Leave

\* Once a change is acknowledged, memory and file keep a provider that was asked for.
LEMMA ProviderStep ==
    ASSUME TypeOK, [Next]_vars, ProviderTrue
    PROVE  ProviderTrue'
<1>1. CASE \E c \in Changes : SetConfig(c)
  <2> PICK c \in Changes : SetConfig(c)
    BY <1>1
  <2>0. c \in Requests
    BY DEF Requests
  <2>1. /\ provider' = Wants[c] /\ pc[c] = "new" /\ pc'[c] \in {"ok", "failed"}
        /\ \A d \in Changes \ {c} : pc'[d] = pc[d]
        /\ \/ diskProvider' = provider'
           \/ diskProvider' = diskProvider /\ pc'[c] = "failed"
    BY <2>0 DEF SetConfig, Saved, SaveFailed, Go, TypeOK, Requests
  <2>2. Asked \subseteq Asked' /\ Wants[c] \in Asked'
    BY <2>1 DEF Asked
  <2>3. pc'[c] = "failed" => (Acknowledged' => Acknowledged)
    BY <2>1 DEF Acknowledged
  <2> QED BY <2>1, <2>2, <2>3 DEF ProviderTrue
<1>2. CASE ~\E c \in Changes : SetConfig(c)
  <2>1. /\ Acknowledged' => Acknowledged
        /\ Asked \subseteq Asked'
    BY <1>2, ChangeMoves DEF Acknowledged, Asked
  <2>2. {provider', diskProvider'} \subseteq {provider, diskProvider}
    <3>1. CASE Crash
      BY <3>1 DEF Crash
    <3>2. CASE ~Crash
      BY <1>2, <3>2, StoreMoves, ProviderMoves
    <3> QED BY <3>1, <3>2
  <2> QED BY <2>1, <2>2 DEF ProviderTrue
<1> QED BY <1>1, <1>2

-----------------------------------------------------------------------------
(* What travels to the browser.                                            *)

\* How many items the browser has.
Passed(t) == IF Over(t) THEN Len(shown[t]) - 1 ELSE Len(shown[t])

\* The items shown and those under way are the first ones of the draft, all of
\* them as long as the call goes on; the end of the stream is called done only
\* after a call that succeeded; and the final item is on its way only when the
\* turn is in the file.
FlowTrue(t) ==
    /\ Passed(t) + Len(wire[t]) <= Len(draft[t])
    /\ \A i \in 1 .. Passed(t) : shown[t][i] = draft[t][i]
    /\ \A i \in 1 .. Len(wire[t]) : wire[t][i] = draft[t][Passed(t) + i]
    /\ pc[t] \notin After \/ pc[t] = "ok" => Passed(t) + Len(wire[t]) = Len(draft[t])
    /\ pc[t] = "stored" => Passed(t) + Len(wire[t]) = Len(draft[t]) - 1
    /\ Over(t) => pc[t] \in Ended /\ wire[t] = <<>> /\ (Last(shown[t]) = Done => pc[t] = "ok")
    /\ diskTurns[t] = <<>> =>
           /\ \A i \in 1 .. Passed(t) : shown[t][i] # Final
           /\ \A i \in 1 .. Len(wire[t]) : wire[t][i] # Final

\* At the start nothing is on the wire or shown.
LEMMA InitFlow == Init => \A t \in Streamed : FlowTrue(t)
<1> SUFFICES ASSUME Init, NEW t \in Streamed PROVE FlowTrue(t)
  OBVIOUS
<1>1. t \in Turns
  BY TurnKinds
<1>2. /\ draft[t] = <<>> /\ wire[t] = <<>> /\ shown[t] = <<>> /\ pc[t] = "new"
  BY <1>1 DEF Init, Requests
<1>3. ~Over(t) /\ Passed(t) = 0
  BY <1>2 DEF Over, Passed
<1> QED BY <1>2, <1>3 DEF FlowTrue, After

\* A turn in the file is never changed or lost again.
LEMMA DiskStays ==
    ASSUME TypeOK, [Next]_vars, NEW t \in Turns, DraftTrue(t), StoredTrue(t),
           diskTurns[t] # <<>>
    PROVE  diskTurns'[t] = diskTurns[t]
<1>1. turns[t] = diskTurns[t] /\ pc[t] \in After
  BY DEF StoredTrue
<1>2. Quiet(t)
  BY <1>1, TurnMoves
     DEF Drafts, TurnDecide, SendHeader, AgentToken, AgentRetry, AgentDone, StoreTurn,
         Generating, Go, After
<1> QED BY <1>1, <1>2 DEF Quiet

\* What a step does to the events of a turn: one of five steps, or nothing.
LEMMA PipeMoves ==
    ASSUME TypeOK, [Next]_vars, NEW t \in Turns
    PROVE  \/ SendHeader(t) \/ AgentToken(t) \/ SendFinal(t) \/ Relay(t) \/ RelayEnd(t)
           \/ /\ wire'[t] = wire[t] /\ shown'[t] = shown[t]
              /\ ~(pc[t] = "stored" /\ pc'[t] = "ok")
<1>0. t \in Requests /\ t \notin Changes /\ t \notin Threads
  BY TurnKinds DEF Requests
<1>1. CASE UNCHANGED vars \/ Crash
  BY <1>0, <1>1 DEF vars, pipeVars, Crash
<1>2. CASE \/ \E c \in Changes : SetConfig(c)
           \/ \E h \in Threads : CreateThread(h)
           \/ \E r \in Requests : Refuse(r)
           \/ \E u \in Turns : TurnBegin(u) \/ Leave(u)
  BY <1>0, <1>2 DEF SetConfig, CreateThread, Refuse, TurnBegin, Leave, Go, TypeOK, pipeVars
<1>3. CASE \E u \in Turns : Relay(u) \/ RelayEnd(u)
  <2> PICK u \in Turns : Relay(u) \/ RelayEnd(u)
    BY <1>3
  <2>1. CASE u # t
    <3>1. CASE Relay(u)
      BY <2>1, <3>1 DEF Relay, TypeOK
    <3>2. CASE RelayEnd(u)
      <4>1. /\ \E event \in {Done, Error} :
                   shown' = [shown EXCEPT ![u] = Append(@, event)]
            /\ wire' = wire \/ wire' = [wire EXCEPT ![u] = <<>>]
            /\ pc' = pc
        BY <3>2, Zenon DEF RelayEnd
      <4> QED BY <2>1, <4>1 DEF TypeOK
    <3> QED BY <3>1, <3>2
  <2> QED BY <2>1
<1>4. CASE \E u \in Turns : TurnProceeds(u)
  <2> PICK u \in Turns : TurnProceeds(u)
    BY <1>4
  <2>1. CASE u # t
    <3>1. shown' = shown /\ pc'[t] = pc[t]
      BY <1>0, <2>1 DEF TurnProceeds, TurnDecide, SendHeader, AgentToken, AgentRetry,
                AgentFails, AgentDone, StoreTurn, SendFinal, SendFails, Go, TypeOK, pipeVars
    <3>2. CASE AgentToken(u)
      <4>1. wire' = wire \/ wire' = [wire EXCEPT ![u] = Append(@, Delta(attempt[u]))]
        BY <3>2, Zenon DEF AgentToken
      <4> QED BY <2>1, <3>1, <4>1 DEF TypeOK
    <3>3. CASE ~AgentToken(u)
      BY <2>1, <3>1, <3>3 DEF TurnProceeds, TurnDecide, SendHeader, AgentRetry,
                AgentFails, AgentDone, StoreTurn, SendFinal, SendFails, TypeOK, pipeVars
    <3> QED BY <3>2, <3>3
  <2>2. CASE u = t
    BY <1>0, <2>2 DEF TurnProceeds, TurnDecide, AgentRetry, AgentFails, AgentDone,
                StoreTurn, SendFails, Go, TypeOK, pipeVars
  <2> QED BY <2>1, <2>2
<1> QED BY <1>1, <1>2, <1>3, <1>4, NextSteps

\* What the gateway has passed on is as long as what is shown, but for its end.
LEMMA PassedType ==
    ASSUME TypeOK, NEW t \in Turns
    PROVE  /\ Passed(t) \in Nat /\ Len(draft[t]) \in Nat /\ Len(wire[t]) \in Nat
           /\ shown[t] \in Seq(Items \cup {Done, Error})
           /\ draft[t] \in Seq(Items) /\ wire[t] \in Seq(Items)
           /\ Len(shown[t]) = IF Over(t) THEN Passed(t) + 1 ELSE Passed(t)
<1>1. /\ shown[t] \in Seq(Items \cup {Done, Error}) /\ Len(shown[t]) \in Nat
      /\ draft[t] \in Seq(Items) /\ wire[t] \in Seq(Items)
  BY DEF TypeOK
<1>2. Over(t) => Len(shown[t]) # 0
  BY <1>1, EmptySeq DEF Over
<1> QED BY <1>1, <1>2 DEF Passed

\* The turn produces an item and sends it.
LEMMA Emits ==
    ASSUME TypeOK, TypeOK', NEW t \in Turns, DraftTrue(t), SendHeader(t) \/ AgentToken(t)
    PROVE  /\ pc[t] = "generating" /\ pc'[t] = "generating"
           /\ shown' = shown /\ diskTurns' = diskTurns
           /\ \/ draft'[t] = draft[t] /\ wire'[t] = wire[t]
              \/ \E item \in Items \ {Final} :
                     draft'[t] = Append(draft[t], item) /\ wire'[t] = Append(wire[t], item)
<1>1. CASE SendHeader(t)
  <2>1. /\ pc[t] = "generating" /\ pc'[t] = "generating"
        /\ shown' = shown /\ diskTurns' = diskTurns
        /\ Len(draft[t]) < 3 /\ Len(draft[t]) \in Nat
        /\ draft'[t] = Append(draft[t], Header[Len(draft[t]) + 1])
        /\ wire'[t] = Append(wire[t], Header[Len(draft[t]) + 1])
    BY <1>1, Kinds DEF SendHeader, Go, TypeOK, Requests, storeVars
  <2>2. \A l \in Nat : l < 3 => l + 1 \in 1 .. 3
    OBVIOUS
  <2>3. Header[Len(draft[t]) + 1] \in Items \ {Final}
    BY <2>1, <2>2, Kinds
  <2> QED BY <2>1, <2>3
<1>2. CASE AgentToken(t)
  <2>1. /\ pc[t] = "generating" /\ pc'[t] = "generating"
        /\ shown' = shown /\ diskTurns' = diskTurns
    BY <1>2 DEF AgentToken, Generating, storeVars
  <2>2. \/ draft' = draft /\ wire' = wire
        \/ /\ draft' = [draft EXCEPT ![t] = Append(@, Delta(attempt[t]))]
           /\ wire' = [wire EXCEPT ![t] = Append(@, Delta(attempt[t]))]
    BY <1>2, Zenon DEF AgentToken
  <2>3. Delta(attempt[t]) \in Items \ {Final}
    BY Kinds DEF TypeOK
  <2>4. \/ draft'[t] = draft[t] /\ wire'[t] = wire[t]
        \/ /\ draft'[t] = Append(draft[t], Delta(attempt[t]))
           /\ wire'[t] = Append(wire[t], Delta(attempt[t]))
    BY <2>2 DEF TypeOK
  <2> QED BY <2>1, <2>3, <2>4
<1> QED BY <1>1, <1>2

\* An event of the core is appended to the wire and to the draft alike.
LEMMA EmitFlows ==
    ASSUME TypeOK, TypeOK', NEW t \in Turns, DraftTrue(t), SendHeader(t) \/ AgentToken(t),
           FlowTrue(t)
    PROVE  FlowTrue(t)'
<1>1. /\ pc[t] = "generating" /\ pc'[t] = "generating"
      /\ shown' = shown /\ diskTurns' = diskTurns
      /\ \/ draft'[t] = draft[t] /\ wire'[t] = wire[t]
         \/ \E item \in Items \ {Final} :
                draft'[t] = Append(draft[t], item) /\ wire'[t] = Append(wire[t], item)
  BY Emits
<1>2. Over(t)' = Over(t) /\ Passed(t)' = Passed(t)
  BY <1>1 DEF Over, Passed
<1>3. ~Over(t) /\ pc[t] \notin After
  BY <1>1 DEF FlowTrue, Ended, Refused, After
<1>4. CASE draft'[t] = draft[t] /\ wire'[t] = wire[t]
  BY <1>1, <1>2, <1>4 DEF FlowTrue
<1>5. CASE \E item \in Items \ {Final} :
               draft'[t] = Append(draft[t], item) /\ wire'[t] = Append(wire[t], item)
  <2> PICK item \in Items \ {Final} :
               draft'[t] = Append(draft[t], item) /\ wire'[t] = Append(wire[t], item)
    BY <1>5
  <2> DEFINE p == Passed(t)
             d == Len(draft[t])
             w == Len(wire[t])
  <2>1. /\ p \in Nat /\ d \in Nat /\ w \in Nat /\ p + w = d
        /\ draft[t] \in Seq(Items) /\ wire[t] \in Seq(Items)
    BY <1>3, PassedType DEF FlowTrue
  <2>2. /\ Len(draft'[t]) = d + 1 /\ Len(wire'[t]) = w + 1
        /\ \A i \in 1 .. d : draft'[t][i] = draft[t][i]
        /\ \A i \in 1 .. w : wire'[t][i] = wire[t][i]
        /\ draft'[t][d + 1] = item /\ wire'[t][w + 1] = item
    BY <2>1
  <2> HIDE DEF p, d, w
  <2>3. \A i \in 1 .. w + 1 : wire'[t][i] = draft'[t][p + i]
    <3> SUFFICES ASSUME NEW i \in 1 .. w + 1 PROVE wire'[t][i] = draft'[t][p + i]
      OBVIOUS
    <3>1. CASE i = w + 1
      <4>1. p + i = d + 1
        BY <2>1, <3>1
      <4> QED BY <2>2, <3>1, <4>1
    <3>2. CASE i \in 1 .. w
      <4>1. wire[t][i] = draft[t][p + i]
        BY <3>2 DEF FlowTrue, p, w
      <4>2. p + i \in 1 .. d
        BY <2>1, <3>2
      <4>3. wire'[t][i] = wire[t][i]
        BY <2>2, <3>2
      <4>4. draft'[t][p + i] = draft[t][p + i]
        BY <2>2, <4>2
      <4> QED BY <4>1, <4>3, <4>4
    <3>3. i = w + 1 \/ i \in 1 .. w
      BY <2>1
    <3> QED BY <3>1, <3>2, <3>3
  <2>4. \A i \in 1 .. p : shown'[t][i] = draft'[t][i]
    <3> SUFFICES ASSUME NEW i \in 1 .. p PROVE shown'[t][i] = draft'[t][i]
      OBVIOUS
    <3>1. i \in 1 .. d /\ shown[t][i] = draft[t][i]
      BY <2>1 DEF FlowTrue, p
    <3> QED BY <1>1, <2>2, <3>1
  <2>5. diskTurns'[t] = <<>> =>
            /\ \A i \in 1 .. p : shown'[t][i] # Final
            /\ \A i \in 1 .. w + 1 : wire'[t][i] # Final
    <3> HAVE diskTurns'[t] = <<>>
    <3>1. /\ \A i \in 1 .. p : shown[t][i] # Final
          /\ \A i \in 1 .. w : wire[t][i] # Final
      BY <1>1 DEF FlowTrue, p, w
    <3>2. \A i \in 1 .. w + 1 : i \in 1 .. w \/ i = w + 1
      BY <2>1
    <3> QED BY <1>1, <2>2, <3>1, <3>2
  <2> QED BY <1>1, <1>2, <1>3, <2>1, <2>2, <2>3, <2>4, <2>5 DEF FlowTrue, p
<1> QED BY <1>1, <1>4, <1>5

\* A relayed event goes from the front of the wire to the end of what is shown.
LEMMA RelayFlows ==
    ASSUME TypeOK, TypeOK', NEW t \in Turns, Relay(t), FlowTrue(t)
    PROVE  FlowTrue(t)'
<1> DEFINE p == Passed(t)
           w == Len(wire[t])
<1>1. /\ ~Over(t) /\ wire[t] # <<>>
      /\ shown'[t] = Append(shown[t], Head(wire[t])) /\ wire'[t] = Tail(wire[t])
      /\ UNCHANGED <<pc, draft, diskTurns>>
  BY DEF Relay, Listening, TypeOK, storeVars, draftVars
<1>2. /\ p \in Nat /\ w \in Nat /\ Len(shown[t]) = p
      /\ shown[t] \in Seq(Items \cup {Done, Error}) /\ wire[t] \in Seq(Items)
  BY <1>1, PassedType
<1>3. /\ Head(wire[t]) \in Items /\ Head(wire[t]) = wire[t][1] /\ w # 0
      /\ Len(wire'[t]) = w - 1 /\ \A i \in 1 .. w - 1 : wire'[t][i] = wire[t][i + 1]
  BY <1>1, <1>2
<1>4. /\ Len(shown'[t]) = p + 1 /\ shown'[t][p + 1] = wire[t][1]
      /\ \A i \in 1 .. p : shown'[t][i] = shown[t][i]
  BY <1>1, <1>2, <1>3
<1>5. ~Over(t)' /\ Passed(t)' = p + 1
  <2>1. Last(shown'[t]) \in Items
    BY <1>3, <1>4 DEF Last
  <2>2. ~Over(t)'
    BY <2>1, Kinds DEF Over
  <2> QED BY <2>2, <1>4 DEF Passed
<1> HIDE DEF p, w
<1>6. \A i \in 1 .. p + 1 : shown'[t][i] = draft'[t][i]
  <2> SUFFICES ASSUME NEW i \in 1 .. p + 1 PROVE shown'[t][i] = draft'[t][i]
    OBVIOUS
  <2>1. CASE i = p + 1
    <3>1. wire[t][1] = draft[t][p + 1]
      BY <1>2, <1>3 DEF FlowTrue, p, w
    <3> QED BY <1>1, <1>4, <2>1, <3>1
  <2>2. CASE i \in 1 .. p
    BY <1>1, <1>4, <2>2 DEF FlowTrue, p
  <2> QED BY <1>2, <2>1, <2>2
<1>7. \A i \in 1 .. w - 1 : wire'[t][i] = draft'[t][p + 1 + i]
  <2> SUFFICES ASSUME NEW i \in 1 .. w - 1 PROVE wire'[t][i] = draft'[t][p + 1 + i]
    OBVIOUS
  <2>1. i + 1 \in 1 .. w /\ p + (i + 1) = p + 1 + i
    BY <1>2
  <2>2. wire[t][i + 1] = draft[t][p + (i + 1)]
    BY <2>1 DEF FlowTrue, p, w
  <2> QED BY <1>1, <1>3, <2>1, <2>2
<1>8. diskTurns'[t] = <<>> =>
          /\ \A i \in 1 .. p + 1 : shown'[t][i] # Final
          /\ \A i \in 1 .. w - 1 : wire'[t][i] # Final
  <2> HAVE diskTurns'[t] = <<>>
  <2>1. /\ \A i \in 1 .. p : shown[t][i] # Final
        /\ \A i \in 1 .. w : wire[t][i] # Final
    BY <1>1 DEF FlowTrue, p, w
  <2>2. \A i \in 1 .. p + 1 : i \in 1 .. p \/ i = p + 1
    BY <1>2
  <2>3. 1 \in 1 .. w /\ \A i \in 1 .. w - 1 : i + 1 \in 1 .. w
    BY <1>2, <1>3
  <2> QED BY <1>3, <1>4, <2>1, <2>2, <2>3
<1>9. p + 1 + (w - 1) = p + w
  BY <1>2
<1> QED BY <1>1, <1>2, <1>3, <1>5, <1>6, <1>7, <1>8, <1>9 DEF FlowTrue, p, w

\* The end of a relay shows one last event, and nothing after it.
LEMMA RelayEndFlows ==
    ASSUME TypeOK, TypeOK', NEW t \in Turns, RelayEnd(t), FlowTrue(t)
    PROVE  FlowTrue(t)'
<1>1. /\ ~Over(t) /\ pc[t] \in Ended /\ (wire[t] = <<>> \/ pc[t] = "lost")
      /\ UNCHANGED <<pc, draft, diskTurns>>
      /\ wire'[t] = <<>>
  BY DEF RelayEnd, Listening, TypeOK, storeVars, draftVars, Ended
<1>2. \E event \in {Done, Error} :
          /\ shown'[t] = Append(shown[t], event)
          /\ event = Done => pc[t] = "ok"
  <2>1. \E event \in {Done, Error} :
            /\ shown' = [shown EXCEPT ![t] = Append(@, event)]
            /\ event = Done => pc[t] = "ok"
    BY <1>1, Kinds DEF RelayEnd
  <2> QED BY <2>1 DEF TypeOK
<1> PICK event \in {Done, Error} :
          /\ shown'[t] = Append(shown[t], event)
          /\ event = Done => pc[t] = "ok"
  BY <1>2
<1> DEFINE p == Passed(t)
<1>3. /\ p \in Nat /\ Len(shown[t]) = p /\ Len(wire[t]) \in Nat /\ Len(draft[t]) \in Nat
      /\ shown[t] \in Seq(Items \cup {Done, Error})
  BY <1>1, PassedType
<1>4. /\ Len(shown'[t]) = p + 1 /\ shown'[t][p + 1] = event /\ shown'[t] # <<>>
      /\ \A i \in 1 .. p : shown'[t][i] = shown[t][i]
  <2>1. event \in Items \cup {Done, Error}
    OBVIOUS
  <2>2. /\ Len(shown'[t]) = p + 1 /\ shown'[t][p + 1] = event
        /\ \A i \in 1 .. p : shown'[t][i] = shown[t][i]
    BY <1>3, <2>1
  <2>3. Len(shown'[t]) # 0
    BY <1>3, <2>2
  <2> QED BY <2>2, <2>3, EmptySeq
<1>5. Over(t)' /\ Passed(t)' = p /\ Last(shown'[t]) = event
  BY <1>3, <1>4 DEF Over, Passed, Last
<1>6. Len(wire'[t]) = 0 /\ (pc[t] # "lost" => Len(wire[t]) = 0)
  BY <1>1
<1> HIDE DEF p
<1>7. \A i \in 1 .. 0 : FALSE
  OBVIOUS
<1>8. p + 0 = p /\ p + Len(wire[t]) >= p
  BY <1>3
<1>9. /\ p + Len(wire'[t]) <= Len(draft'[t])
      /\ \A i \in 1 .. p : shown'[t][i] = draft'[t][i]
      /\ pc'[t] \notin After \/ pc'[t] = "ok" => p + Len(wire'[t]) = Len(draft'[t])
      /\ pc'[t] # "stored"
      /\ diskTurns'[t] = <<>> => \A i \in 1 .. p : shown'[t][i] # Final
  BY <1>1, <1>3, <1>4, <1>6, <1>8 DEF FlowTrue, p, After, Ended, Refused
<1> QED BY <1>1, <1>5, <1>6, <1>7, <1>9 DEF FlowTrue

\* The final event is sent of a turn that is stored.
LEMMA SendFinalFlows ==
    ASSUME TypeOK, TypeOK', NEW t \in Turns, SendFinal(t), StoredTrue(t), FlowTrue(t)
    PROVE  FlowTrue(t)'
<1> DEFINE p == Passed(t)
           d == Len(draft[t])
           w == Len(wire[t])
<1>1. /\ pc[t] = "stored" /\ pc'[t] = "ok" /\ wire'[t] = Append(wire[t], Final)
      /\ UNCHANGED <<shown, draft, diskTurns>>
  BY DEF SendFinal, Go, TypeOK, Requests, storeVars, draftVars
<1>2. /\ p \in Nat /\ d \in Nat /\ w \in Nat /\ p + w = d - 1 /\ ~Over(t)
      /\ wire[t] \in Seq(Items) /\ Final \in Items
  BY <1>1, PassedType, Kinds DEF FlowTrue, Ended, Refused
<1>3. Over(t)' = Over(t) /\ Passed(t)' = p
  BY <1>1 DEF Over, Passed
<1>4. diskTurns[t] # <<>> /\ draft[t] = Append(Body(t), Final)
  BY <1>1 DEF StoredTrue
<1>5. draft[t][d] = Final
  BY <1>4, BodyType, Kinds
<1>6. /\ Len(wire'[t]) = w + 1 /\ wire'[t][w + 1] = Final
      /\ \A i \in 1 .. w : wire'[t][i] = wire[t][i]
  BY <1>1, <1>2
<1> HIDE DEF p, d, w
<1>7. \A i \in 1 .. w + 1 : wire'[t][i] = draft[t][p + i]
  <2> SUFFICES ASSUME NEW i \in 1 .. w + 1 PROVE wire'[t][i] = draft[t][p + i]
    OBVIOUS
  <2>1. CASE i = w + 1
    <3>1. p + i = d
      BY <1>2, <2>1
    <3> QED BY <1>5, <1>6, <2>1, <3>1
  <2>2. CASE i \in 1 .. w
    BY <1>6, <2>2 DEF FlowTrue, p, w
  <2> QED BY <1>2, <2>1, <2>2
<1>8. p + (w + 1) = d
  BY <1>2
<1>9. /\ Passed(t)' + Len(wire'[t]) <= Len(draft'[t])
      /\ Passed(t)' + Len(wire'[t]) = Len(draft'[t])
      /\ \A i \in 1 .. Passed(t)' : shown'[t][i] = draft'[t][i]
      /\ \A i \in 1 .. Len(wire'[t]) : wire'[t][i] = draft'[t][Passed(t)' + i]
  BY <1>1, <1>2, <1>3, <1>6, <1>7, <1>8 DEF FlowTrue, p, d
<1> QED BY <1>1, <1>2, <1>3, <1>4, <1>9 DEF FlowTrue

\* A turn that neither sends nor is shown anything.
LEMMA StillFlows ==
    ASSUME TypeOK, TypeOK', [Next]_vars, NEW t \in Streamed, t \in Turns,
           DraftTrue(t), StoredTrue(t), FlowTrue(t),
           wire'[t] = wire[t], shown'[t] = shown[t], ~(pc[t] = "stored" /\ pc'[t] = "ok"),
           ~SendHeader(t), ~AgentToken(t)
    PROVE  FlowTrue(t)'
<1>0. t \in Requests
  BY DEF Requests
<1>1. Over(t)' = Over(t) /\ Passed(t)' = Passed(t)
  BY DEF Over, Passed
<1>2. diskTurns'[t] = <<>> => diskTurns[t] = <<>>
  BY DiskStays
<1>3. pc[t] \in {"new"} \cup TurnSteps => ~Over(t)
  BY DEF FlowTrue, Ended, Refused, TurnSteps
<1>4. CASE draft'[t] = draft[t] /\ Quiet(t)
  <2>1. Over(t) => pc'[t] = pc[t]
    BY <1>3, <1>4 DEF Quiet, TurnSteps
  <2>2. /\ pc'[t] \notin After \/ pc'[t] = "ok" =>
               pc[t] \notin After \/ pc[t] = "ok"
        /\ pc'[t] = "stored" => pc[t] = "stored"
    BY <1>4 DEF Quiet, After, Refused, TurnSteps
  <2> QED BY <1>1, <1>2, <1>4, <2>1, <2>2 DEF FlowTrue
<1>5. CASE TurnDecide(t) \/ AgentRetry(t) \/ AgentDone(t)
  <2>1. /\ pc[t] \in {"listed", "generating"} /\ pc'[t] \in {"generating", "answered"}
        /\ draft'[t] = draft[t]
    BY <1>0, <1>5 DEF TurnDecide, AgentRetry, AgentDone, Generating, Go, TypeOK, DraftTrue
  <2>2. ~Over(t)
    BY <1>3, <2>1 DEF TurnSteps
  <2> QED BY <1>1, <1>2, <2>1, <2>2 DEF FlowTrue, After
<1>6. CASE StoreTurn(t)
  <2> DEFINE p == Passed(t)
             d == Len(draft[t])
             w == Len(wire[t])
  <2>1. /\ pc[t] = "answered" /\ pc'[t] \in {"stored", "failed"}
        /\ draft'[t] = Append(draft[t], Final)
    BY <1>0, <1>6 DEF StoreTurn, Go, TypeOK
  <2>2. /\ p \in Nat /\ d \in Nat /\ w \in Nat /\ p + w = d
        /\ draft[t] \in Seq(Items) /\ Final \in Items
    BY <2>1, PassedType, Kinds DEF FlowTrue, After
  <2>3. Len(draft'[t]) = d + 1 /\ \A i \in 1 .. d : draft'[t][i] = draft[t][i]
    BY <2>1, <2>2
  <2>4. ~Over(t)
    BY <1>3, <2>1 DEF TurnSteps
  <2> HIDE DEF p, d, w
  <2>5. \A i \in 1 .. p : shown'[t][i] = draft'[t][i]
    <3> SUFFICES ASSUME NEW i \in 1 .. p PROVE shown'[t][i] = draft'[t][i]
      OBVIOUS
    <3>1. i \in 1 .. d
      BY <2>2
    <3>2. shown[t][i] = draft[t][i]
      BY DEF FlowTrue, p
    <3> QED BY <2>3, <3>1, <3>2
  <2>6. \A i \in 1 .. w : wire'[t][i] = draft'[t][p + i]
    <3> SUFFICES ASSUME NEW i \in 1 .. w PROVE wire'[t][i] = draft'[t][p + i]
      OBVIOUS
    <3>1. p + i \in 1 .. d
      BY <2>2
    <3>2. wire[t][i] = draft[t][p + i]
      BY DEF FlowTrue, p, w
    <3> QED BY <2>3, <3>1, <3>2
  <2>7. p + w <= d + 1 /\ p + w = (d + 1) - 1
    BY <2>2
  <2> QED BY <1>1, <1>2, <2>1, <2>3, <2>4, <2>5, <2>6, <2>7
          DEF FlowTrue, p, d, w, After
<1> QED BY <1>4, <1>5, <1>6, TurnMoves DEF Drafts, Quiet

\* Every step keeps what is shown, on the wire and drafted in one order.
LEMMA FlowStep ==
    ASSUME TypeOK, TypeOK', [Next]_vars, \A t \in Turns : DraftTrue(t) /\ StoredTrue(t),
           \A t \in Streamed : FlowTrue(t)
    PROVE  \A t \in Streamed : FlowTrue(t)'
<1> SUFFICES ASSUME NEW t \in Streamed PROVE FlowTrue(t)'
  OBVIOUS
<1>1. t \in Turns
  BY TurnKinds
<1>2. DraftTrue(t) /\ StoredTrue(t) /\ FlowTrue(t)
  BY <1>1
<1> QED BY <1>1, <1>2, PipeMoves, EmitFlows, SendFinalFlows, RelayFlows, RelayEndFlows,
           StillFlows

-----------------------------------------------------------------------------
(* The inductive invariant and the theorems.                               *)

IInv ==
    /\ NoneFromFuture /\ Undated /\ ThreadsTrue /\ HistoryTrue /\ ProviderTrue
    /\ \A t \in Turns : DraftTrue(t) /\ StoredTrue(t)
    /\ \A t \in Streamed : FlowTrue(t)

\* Every step preserves the inductive invariant.
LEMMA NextIInv ==
    ASSUME TypeOK, IInv, [Next]_vars
    PROVE  TypeOK' /\ IInv'
<1>1. TypeOK' /\ NoneFromFuture'
  BY NextTypes DEF IInv
<1>2. Undated' /\ ThreadsTrue' /\ HistoryTrue' /\ ProviderTrue'
  BY <1>1, UndatedStep, ThreadsStep, HistoryStep, ProviderStep DEF IInv
<1>3. \A t \in Turns : DraftTrue(t)' /\ StoredTrue(t)'
  BY <1>1, DraftStep DEF IInv
<1>4. \A t \in Streamed : FlowTrue(t)'
  BY <1>1, FlowStep DEF IInv
<1> QED BY <1>1, <1>2, <1>3, <1>4 DEF IInv

\* Turns are drafted in order, stored in one piece after their answer is whole,
\* in memory first and in the file or not at all, and sent in the order they
\* are drafted in; who is let in owns the thread, and what is looked up for a
\* question stays true of it.
THEOREM Inductive == Spec => [](TypeOK /\ IInv)
<1>1. Init => TypeOK /\ IInv
  BY InitTypes, InitDraft, InitThreads, InitHistory, InitProvider, InitFlow DEF IInv
<1>2. TypeOK /\ IInv /\ [Next]_vars => TypeOK' /\ IInv'
  BY NextIInv
<1> QED BY <1>1, <1>2, PTL DEF Spec

\* A stored turn is whole: its answer is of one attempt of the provider, and
\* its items are the header, a delta for each token that is not blank if it was
\* streamed, and the final item.
LEMMA StoredAreWhole ==
    ASSUME TypeOK, NEW t \in Turns, DraftTrue(t), StoredTrue(t), turns[t] # <<>>
    PROVE  Whole(t, turns[t])
<1>1. attempt[t] \in 1 .. 2 /\ turns[t] = Append(Body(t), Final)
  BY DEF TypeOK, StoredTrue
<1>2. Append(Body(t), Final) = Body(t) \o <<Final>>
  <2>1. Body(t) \in Seq(Items \ {Final})
    BY BodyType
  <2>2. Body(t) \in Seq(Items) /\ Final \in Items
    BY <2>1, Kinds, SeqMonotonic
  <2> QED BY <2>2, AppendIsConcat
<1> QED BY <1>1, <1>2 DEF Whole, Body, DraftTrue

\* No half turn is ever in the history, in memory or in state.json, and the
\* thread a turn belongs to is stored with it.
THEOREM StoredWholeHolds == Spec => []StoredTurnsWhole
<1>1. TypeOK /\ IInv => StoredTurnsWhole
  <2> SUFFICES ASSUME TypeOK, IInv, NEW t \in Turns
               PROVE  /\ turns[t] # <<>> => Whole(t, turns[t]) /\ ThreadOf[t] \in threads
                      /\ diskTurns[t] # <<>> =>
                             Whole(t, diskTurns[t]) /\ ThreadOf[t] \in diskThreads
    BY DEF StoredTurnsWhole
  <2>1. DraftTrue(t) /\ StoredTrue(t) /\ ThreadsTrue
    BY DEF IInv
  <2>2. turns[t] # <<>> => Whole(t, turns[t])
    BY <2>1, StoredAreWhole
  <2>3. diskTurns[t] # <<>> => diskTurns[t] = turns[t]
    BY <2>1 DEF StoredTrue
  <2> QED BY <2>1, <2>2, <2>3 DEF ThreadsTrue
<1> QED BY <1>1, Inductive, PTL

\* What the model is given as the previous turn is a turn of the same user in
\* the same thread, complete and decided before this one.
THEOREM HistoryHolds == Spec => []HistoryStaysPrivate
<1>1. IInv => HistoryStaysPrivate
  BY DEF IInv, HistoryTrue
<1> QED BY <1>1, Inductive, PTL

\* A turn whose answer was seen is in the history of its thread.
LEMMA SeenIsStored ==
    ASSUME TypeOK, IInv, NEW u \in Turns, Seen(u)
    PROVE  u \in Stored(ThreadOf[u])
<1>1. DraftTrue(u) /\ StoredTrue(u)
  BY DEF IInv
<1>2. diskTurns[u] # <<>>
  <2>1. CASE u \in Streamed
    <3>1. FlowTrue(u)
      BY <2>1 DEF IInv
    <3>2. PICK i \in 1 .. Len(shown[u]) : shown[u][i] = Final
      BY <2>1 DEF Seen, Contains
    <3>3. i \in 1 .. Passed(u)
      <4>1. ~Over(u) \/ i # Len(shown[u])
        BY <3>2, Kinds DEF Over, Last
      <4> QED BY <4>1, PassedType
    <3> QED BY <3>1, <3>2, <3>3 DEF FlowTrue
  <2>2. CASE u \notin Streamed
    BY <1>1, <2>2 DEF Seen, StoredTrue
  <2> QED BY <2>1, <2>2
<1> QED BY <1>1, <1>2 DEF StoredTrue, Stored

\* A question asked in a thread after an answer was seen there is put to the
\* model with a previous turn at least as recent.
THEOREM FollowUpHolds == Spec => FollowUpKnowsAnswer
<1>1. ASSUME TypeOK, IInv, [Next]_vars, NEW t \in Turns, Go(t, "new", "listed"),
             NEW u \in Turns, Seen(u), ThreadOf[u] = ThreadOf[t]
      PROVE  prev'[t] # NoTurn /\ created[u] <= created[prev'[t]]
  <2>1. t \in Requests /\ pc[t] = "new" /\ pc'[t] = "listed"
    BY <1>1 DEF Go, TypeOK, Requests
  <2>2. prev'[t] = Latest(ThreadOf[t])
    BY <1>1, <2>1, BeginMoves DEF Begins, TypeOK
  <2>3. u \in Stored(ThreadOf[t])
    BY <1>1, SeenIsStored
  <2>4. \A v \in Stored(ThreadOf[t]) : created[v] <= clock
    BY <1>1 DEF IInv, NoneFromFuture, Stored
  <2>5. /\ Latest(ThreadOf[t]) \in Stored(ThreadOf[t])
        /\ created[u] <= created[Latest(ThreadOf[t])]
    BY <1>1, <2>3, <2>4, LatestExists
  <2> QED BY <2>2, <2>5, NoTurnIsNoTurn DEF Stored
<1>2. TypeOK /\ IInv /\ [Next]_vars =>
          [\A t \in Turns : Go(t, "new", "listed") =>
              \A u \in Turns : Seen(u) /\ ThreadOf[u] = ThreadOf[t] =>
                  prev'[t] # NoTurn /\ created[u] <= created[prev'[t]]]_vars
  BY <1>1
<1> QED BY <1>2, Inductive, PTL DEF Spec, FollowUpKnowsAnswer

\* After an acknowledged change of the provider, every question is put to a
\* provider that a change has asked for, and keeps it.
THEOREM ChangeLasts == Spec => ChangeHolds
<1>1. ASSUME TypeOK, IInv, [Next]_vars, NEW t \in Turns
      PROVE  /\ Go(t, "new", "listed") /\ (\E c \in Changes : pc[c] = "ok") =>
                    \E c \in Changes : pc[c] \in {"ok", "failed"} /\ uses'[t] = Wants[c]
             /\ uses'[t] # uses[t] => pc[t] = "new"
  <2>1. Go(t, "new", "listed") => Begins(t)
    BY <1>1, BeginMoves DEF Go, TypeOK, Requests
  <2>2. Begins(t) => uses'[t] = provider /\ pc[t] = "new"
    BY <1>1 DEF Begins, TypeOK
  <2>3. Acknowledged => \E c \in Changes : pc[c] \in {"ok", "failed"} /\ provider = Wants[c]
    BY <1>1 DEF IInv, ProviderTrue, Asked
  <2>4. ~Begins(t) => uses'[t] = uses[t]
    BY <1>1, BeginMoves DEF Begins, TypeOK
  <2> QED BY <2>1, <2>2, <2>3, <2>4 DEF Acknowledged
<1>2. TypeOK /\ IInv /\ [Next]_vars =>
          [\A t \in Turns :
             /\ Go(t, "new", "listed") /\ (\E c \in Changes : pc[c] = "ok") =>
                   \E c \in Changes : pc[c] \in {"ok", "failed"} /\ uses'[t] = Wants[c]
             /\ uses'[t] # uses[t] => pc[t] = "new"]_vars
  BY <1>1
<1> QED BY <1>2, Inductive, PTL DEF Spec, ChangeHolds

-----------------------------------------------------------------------------
(* Streamed questions keep the promise of TurnPromise.                     *)

\* The items among the events shown.
Got(t) == IF Over(t) THEN Front(shown[t]) ELSE shown[t]

\* What the client has got of a turn is what was passed on to it.
LEMMA GotType ==
    ASSUME TypeOK, NEW t \in Turns
    PROVE  /\ Got(t) \in Seq(Items \cup {Done, Error}) /\ Len(Got(t)) = Passed(t)
           /\ \A i \in 1 .. Passed(t) : Got(t)[i] = shown[t][i]
<1> DEFINE p == Passed(t)
           S == Items \cup {Done, Error}
<1>1. /\ p \in Nat /\ shown[t] \in Seq(S)
      /\ Len(shown[t]) = IF Over(t) THEN p + 1 ELSE p
  BY PassedType
<1> HIDE DEF p, S
<1>2. CASE ~Over(t)
  BY <1>1, <1>2 DEF Got, p, S
<1>3. CASE Over(t)
  <2>1. Got(t) = SubSeq(shown[t], 1, p)
    <3>1. Len(shown[t]) - 1 = p
      BY <1>1, <1>3
    <3> QED BY <1>3, <3>1 DEF Got, Front
  <2>2. \A i \in 1 .. p : shown[t][i] \in S
    <3>1. \A i \in 1 .. p : i \in 1 .. Len(shown[t])
      BY <1>1, <1>3
    <3> QED BY <1>1, <3>1, ElementOfSeq
  <2>3. /\ SubSeq(shown[t], 1, p) \in Seq(S)
        /\ Len(SubSeq(shown[t], 1, p)) = IF 1 <= p THEN p - 1 + 1 ELSE 0
        /\ \A i \in 1 .. p - 1 + 1 : SubSeq(shown[t], 1, p)[i] = shown[t][1 + i - 1]
    BY <1>1, <2>2, SubSeqProperties
  <2>4. /\ p - 1 + 1 = p /\ (IF 1 <= p THEN p - 1 + 1 ELSE 0) = p
        /\ \A i \in 1 .. p : 1 + i - 1 = i
    BY <1>1
  <2> QED BY <2>1, <2>3, <2>4 DEF p, S
<1> QED BY <1>2, <1>3

\* A sequence whose elements are those of another in the same places is a
\* prefix of it.
LEMMA PrefixByPlace ==
    ASSUME NEW S, NEW s \in Seq(S), NEW u \in Seq(S), Len(s) <= Len(u),
           \A i \in 1 .. Len(s) : s[i] = u[i]
    PROVE  IsPrefix(s, u)
<1> DEFINE n == Len(s)
<1>1. n \in Nat /\ Len(u) \in Nat
  BY LenProperties
<1>2. \A i \in 1 .. n : i \in 1 .. Len(u)
  BY <1>1
<1>3. (\A i \in 1 .. n : s[i] \in S) /\ \A i \in 1 .. n : u[i] \in S
  BY <1>2, ElementOfSeq
<1> HIDE DEF n
<1>4. /\ SubSeq(s, 1, n) \in Seq(S)
      /\ Len(SubSeq(s, 1, n)) = IF 1 <= n THEN n - 1 + 1 ELSE 0
      /\ \A i \in 1 .. n - 1 + 1 : SubSeq(s, 1, n)[i] = s[1 + i - 1]
  BY <1>1, <1>3, SubSeqProperties
<1>5. /\ SubSeq(u, 1, n) \in Seq(S)
      /\ Len(SubSeq(u, 1, n)) = IF 1 <= n THEN n - 1 + 1 ELSE 0
      /\ \A i \in 1 .. n - 1 + 1 : SubSeq(u, 1, n)[i] = u[1 + i - 1]
  BY <1>1, <1>3, SubSeqProperties
<1>6. /\ n - 1 + 1 = n /\ (IF 1 <= n THEN n - 1 + 1 ELSE 0) = n
      /\ \A i \in 1 .. n : 1 + i - 1 = i
  BY <1>1
<1>7. SubSeq(s, 1, n) = SubSeq(u, 1, n)
  <2>1. \A i \in 1 .. n : SubSeq(s, 1, n)[i] = SubSeq(u, 1, n)[i]
    BY <1>4, <1>5, <1>6 DEF n
  <2> QED BY <1>4, <1>5, <1>6, <2>1, SeqEqual
<1> QED BY <1>7 DEF IsPrefix, n

\* What is shown of a streamed turn is honest: the first items of the turn in
\* state.json, the final one only if it is there, and "done" only after all.
LEMMA HonestTurn ==
    ASSUME TypeOK, IInv, NEW t \in Streamed
    PROVE  /\ diskTurns[t] # <<>> => IsPrefix(Got(t), diskTurns[t])
           /\ Contains(shown[t], Final) => diskTurns[t] # <<>>
           /\ Contains(shown[t], Done) => Got(t) = diskTurns[t]
<1> DEFINE S == Items \cup {Done, Error}
<1>0. t \in Turns
  BY TurnKinds
<1>1. StoredTrue(t) /\ FlowTrue(t)
  BY <1>0 DEF IInv
<1>2. /\ Got(t) \in Seq(S) /\ Len(Got(t)) = Passed(t)
      /\ \A i \in 1 .. Passed(t) : Got(t)[i] = draft[t][i]
  <2>1. \A i \in 1 .. Passed(t) : shown[t][i] = draft[t][i]
    BY <1>1 DEF FlowTrue
  <2> QED BY <1>0, <2>1, GotType
<1>3. /\ Passed(t) \in Nat /\ Len(draft[t]) \in Nat /\ Len(wire[t]) \in Nat
      /\ draft[t] \in Seq(Items) /\ Len(shown[t]) = IF Over(t) THEN Passed(t) + 1 ELSE Passed(t)
  BY <1>0, PassedType
<1>4. draft[t] \in Seq(S)
  BY <1>3, SeqMonotonic
<1>5. diskTurns[t] # <<>> => diskTurns[t] = draft[t]
  BY <1>1 DEF StoredTrue
<1>6. Passed(t) + Len(wire[t]) <= Len(draft[t])
  BY <1>1 DEF FlowTrue
<1>7. Passed(t) <= Len(draft[t])
  BY <1>3, <1>6
<1> HIDE DEF S
<1>8. diskTurns[t] # <<>> => IsPrefix(Got(t), diskTurns[t])
  <2>1. IsPrefix(Got(t), draft[t])
    BY <1>2, <1>4, <1>7, PrefixByPlace
  <2> QED BY <1>5, <2>1
<1>9. \A i \in 1 .. Len(shown[t]) : i \in 1 .. Passed(t) \/ (Over(t) /\ i = Len(shown[t]))
  BY <1>3
<1>10. ASSUME Contains(shown[t], Final) PROVE diskTurns[t] # <<>>
  <2>1. PICK i \in 1 .. Len(shown[t]) : shown[t][i] = Final
    BY <1>10 DEF Contains
  <2>2. i \in 1 .. Passed(t)
    BY <1>9, <2>1, Kinds DEF Over, Last
  <2> QED BY <1>1, <2>1, <2>2 DEF FlowTrue
<1>11. ASSUME Contains(shown[t], Done) PROVE Got(t) = diskTurns[t]
  <2>1. PICK i \in 1 .. Len(shown[t]) : shown[t][i] = Done
    BY <1>11 DEF Contains
  <2>2. Over(t) /\ i = Len(shown[t])
    <3>1. ASSUME i \in 1 .. Passed(t) PROVE FALSE
      <4>1. shown[t][i] = draft[t][i] /\ i \in 1 .. Len(draft[t])
        BY <1>1, <1>3, <1>7, <3>1 DEF FlowTrue
      <4>2. draft[t][i] \in Items
        BY <1>3, <4>1, ElementOfSeq
      <4> QED BY <2>1, <4>1, <4>2, Kinds
    <3> QED BY <1>9, <3>1
  <2>3. pc[t] = "ok" /\ wire[t] = <<>>
    BY <1>1, <2>1, <2>2 DEF FlowTrue, Last
  <2>4. Passed(t) + Len(wire[t]) = Len(draft[t])
    BY <1>1, <2>3 DEF FlowTrue
  <2>5. Len(wire[t]) = 0
    BY <2>3
  <2>6. Passed(t) = Len(draft[t])
    BY <1>3, <2>4, <2>5
  <2>7. Got(t) = draft[t]
    BY <1>2, <1>4, <2>6, SeqEqual
  <2>8. diskTurns[t] # <<>>
    BY <1>1, <2>3 DEF StoredTrue
  <2> QED BY <1>5, <2>7, <2>8
<1> QED BY <1>8, <1>10, <1>11

\* At most one event more is shown in a step, and none after the end.
LEMMA ShownGrows ==
    ASSUME TypeOK, TypeOK', [Next]_vars, NEW t \in Streamed
    PROVE  \/ shown'[t] = shown[t]
           \/ ~Over(t) /\ shown'[t] # <<>> /\ Front(shown'[t]) = shown[t]
<1> DEFINE S == Items \cup {Done, Error}
<1>0. t \in Turns
  BY TurnKinds
<1>1. \/ shown'[t] = shown[t]
      \/ ~Over(t) /\ \E event \in S : shown'[t] = Append(shown[t], event)
  <2>1. CASE Relay(t)
    BY <1>0, <2>1 DEF Relay, Listening, TypeOK
  <2>2. CASE RelayEnd(t)
    <3>1. ~Over(t) /\ \E event \in {Done, Error} : shown' = [shown EXCEPT ![t] = Append(@, event)]
      BY <2>2, Zenon DEF RelayEnd, Listening
    <3> QED BY <1>0, <3>1 DEF TypeOK
  <2>3. CASE SendHeader(t) \/ AgentToken(t) \/ SendFinal(t)
    BY <2>3 DEF SendHeader, AgentToken, SendFinal
  <2> QED BY <1>0, <2>1, <2>2, <2>3, PipeMoves
<1>2. ASSUME NEW event \in S, shown'[t] = Append(shown[t], event)
      PROVE  shown'[t] # <<>> /\ Front(shown'[t]) = shown[t]
  <2> DEFINE n == Len(shown[t])
             new == shown'[t]
  <2>1. /\ shown[t] \in Seq(S) /\ n \in Nat /\ new \in Seq(S) /\ Len(new) = n + 1
        /\ \A i \in 1 .. n : new[i] = shown[t][i]
    BY <1>0, <1>2 DEF TypeOK
  <2>2. new # <<>>
    BY <2>1
  <2>3. \A i \in 1 .. n : new[i] \in S
    BY <2>1
  <2> HIDE DEF n, new, S
  <2>4. /\ SubSeq(new, 1, n) \in Seq(S)
        /\ Len(SubSeq(new, 1, n)) = IF 1 <= n THEN n - 1 + 1 ELSE 0
        /\ \A i \in 1 .. n - 1 + 1 : SubSeq(new, 1, n)[i] = new[1 + i - 1]
    BY <2>1, <2>3, SubSeqProperties
  <2>5. /\ n - 1 + 1 = n /\ (IF 1 <= n THEN n - 1 + 1 ELSE 0) = n /\ n + 1 - 1 = n
        /\ \A i \in 1 .. n : 1 + i - 1 = i
    BY <2>1
  <2>6. \A i \in 1 .. n : SubSeq(new, 1, n)[i] = shown[t][i]
    BY <2>1, <2>4, <2>5
  <2>7. Len(SubSeq(new, 1, n)) = Len(shown[t])
    BY <2>4, <2>5 DEF n
  <2>8. SubSeq(new, 1, n) = shown[t]
    BY <2>1, <2>4, <2>5, <2>6, <2>7, SeqEqual
  <2>9. Front(new) = SubSeq(new, 1, n)
    BY <2>1, <2>5 DEF Front
  <2> QED BY <2>2, <2>8, <2>9 DEF new
<1> QED BY <1>1, <1>2

\* What the promise says of the events shown, in every state.
AllHonest == \A t \in Streamed : Promise!Honest(t)

\* The specification implements TurnPromise: what the browser is shown of a
\* streamed question only grows, is the beginning of the turn that is stored
\* for good if one is, has the final item only of a turn in state.json, and is
\* called done only when it was all.
THEOREM KeepsPromise == Spec => KeepsTurnPromise
<1>1. Init => Promise!Init
  <2> HAVE Init
  <2>1. \A t \in Streamed : shown[t] = <<>> /\ diskTurns[t] = <<>>
    BY TurnKinds DEF Init
  <2> QED BY <2>1 DEF Promise!Init
<1>2. TypeOK /\ IInv => AllHonest
  <2> SUFFICES ASSUME TypeOK, IInv, NEW t \in Streamed PROVE Promise!Honest(t)
    BY DEF AllHonest
  <2>1. Promise!Items(t) = Got(t)
    BY DEF Promise!Items, Promise!Over, Promise!Last, Promise!Front, Got, Over, Last, Front
  <2>2. \A u : Promise!IsPrefix(Got(t), u) <=> IsPrefix(Got(t), u)
    BY DEF Promise!IsPrefix, IsPrefix
  <2>3. \A e : Promise!Contains(shown[t], e) <=> Contains(shown[t], e)
    BY DEF Promise!Contains, Contains
  <2> QED BY <2>1, <2>2, <2>3, HonestTurn DEF Promise!Honest
<1>3. ASSUME TypeOK, IInv, [Next]_vars, TypeOK', AllHonest'
      PROVE  Promise!Next
  <2> SUFFICES ASSUME NEW t \in Streamed
               PROVE  Promise!Shows(t) /\ Promise!Keeps(t) /\ Promise!Honest(t)'
    BY DEF Promise!Next
  <2>1. t \in Turns
    BY TurnKinds
  <2>2. Promise!Shows(t)
    <3>1. Promise!Over(t) <=> Over(t)
      BY DEF Promise!Over, Promise!Last, Over, Last
    <3>2. Promise!Front(shown'[t]) = Front(shown'[t])
      BY DEF Promise!Front, Front
    <3> QED BY <1>3, <3>1, <3>2, ShownGrows DEF Promise!Shows
  <2>3. Promise!Keeps(t)
    BY <1>3, <2>1, DiskStays DEF Promise!Keeps, IInv
  <2>4. Promise!Honest(t)'
    BY <1>3 DEF AllHonest
  <2> QED BY <2>2, <2>3, <2>4
<1> QED BY <1>1, <1>2, <1>3, Inductive, PTL DEF Spec, KeepsTurnPromise, Promise!Spec

==============================================================================
