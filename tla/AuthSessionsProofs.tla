------------------------- MODULE AuthSessionsProofs -------------------------
(***************************************************************************)
(* Theorems about AuthSessions, for any number of registrations, logins,   *)
(* logouts and other calls, any addresses and passwords, any number of     *)
(* failing repository calls and of deaths of the process.                  *)
(***************************************************************************)
EXTENDS AuthSessions, TLAPS

Calls == Logouts \cup Uses

-----------------------------------------------------------------------------
(* Typing.                                                                 *)

\* A request goes to a place it may be in; where it needs a user, it has one.
LEMMA GoType ==
    ASSUME TypeOK, NEW r \in Requests, NEW from, NEW to, Go(r, from, to),
           to \in Steps \cup Answers
    PROVE  pc' \in [Requests -> {"new"} \cup Steps \cup Answers]
BY DEF TypeOK, Go

\* An audit event keeps the type of the audit trail.
LEMMA RecordType ==
    ASSUME TypeOK, NEW r \in Requests, NEW event \in Events, Record(event, r)
    PROVE  audit' \subseteq Events \X Requests
BY DEF TypeOK, Record

\* A failing statement keeps the number of errors within its bound.
LEMMA FailsType ==
    ASSUME TypeOK, Fails \/ UNCHANGED errors
    PROVE  errors' \in 0 .. MaxErrors
BY Times DEF TypeOK, Fails

\* Rows of user_sessions that a login may insert.
LEMMA OpenType ==
    ASSUME TypeOK, NEW l \in Logins, user[l] # NoUser
    PROVE  [sessions EXCEPT ![l] = [user |-> user[l], expires |-> clock + TTL]]
               \in [Logins -> Session \cup {NoSession}]
BY Times DEF TypeOK, Session

\* A deleted session keeps the type of the sessions.
LEMMA CloseType ==
    ASSUME TypeOK, NEW l \in Logins
    PROVE  [sessions EXCEPT ![l] = NoSession] \in [Logins -> Session \cup {NoSession}]
BY DEF TypeOK

\* The start has the types.
LEMMA InitType == Init => TypeOK
BY Times DEF Init, TypeOK

\* Every step keeps the types.
LEMMA TypeStep == TypeOK /\ [Next]_vars => TypeOK'
<1> SUFFICES ASSUME TypeOK, [Next]_vars PROVE TypeOK'
  OBVIOUS
<1> USE DEF Requests
<1>1. ASSUME NEW r \in Requests, Refuse(r) PROVE TypeOK'
  BY <1>1, GoType DEF Refuse, TypeOK, tables, Go, Steps, Answers
<1>2. ASSUME NEW r \in Registers, RegisterInsert(r) PROVE TypeOK'
  <2>1. pc' \in [Requests -> {"new"} \cup Steps \cup Answers]
    BY <1>2, GoType DEF RegisterInsert, Steps, Answers
  <2>2. errors' \in 0 .. MaxErrors /\ users' \subseteq Registers
    BY <1>2, FailsType DEF RegisterInsert, TypeOK
  <2> QED
    BY <1>2, <2>1, <2>2 DEF RegisterInsert, TypeOK, Go
<1>3. ASSUME NEW r \in Registers, RegisterAnswer(r) PROVE TypeOK'
  <2>1. audit' \subseteq Events \X Requests
    BY <1>3, RecordType DEF RegisterAnswer, Events
  <2>2. pc' \in [Requests -> {"new"} \cup Steps \cup Answers]
    BY <1>3, GoType DEF RegisterAnswer, Steps, Answers
  <2> QED
    BY <1>3, <2>1, <2>2 DEF RegisterAnswer, TypeOK, tables, Go
<1>4. ASSUME NEW l \in Logins, LoginVerify(l) PROVE TypeOK'
  <2>1. pc' \in [Requests -> {"new"} \cup Steps \cup Answers]
    BY <1>4, GoType DEF LoginVerify, Steps, Answers
  <2>2. PICK u \in users : /\ Go(l, "new", "verified")
                           /\ user' = [user EXCEPT ![l] = u]
    BY <1>4 DEF LoginVerify
  <2>3. u \in Registers /\ u # NoUser
    BY Nobody DEF TypeOK
  <2> QED
    BY <1>4, <2>1, <2>2, <2>3 DEF LoginVerify, TypeOK, tables, Go
<1>5. ASSUME NEW l \in Logins, LoginReject(l) PROVE TypeOK'
  <2>1. audit' \subseteq Events \X Requests
    BY <1>5, RecordType DEF LoginReject, Events
  <2>2. pc' \in [Requests -> {"new"} \cup Steps \cup Answers]
    BY <1>5, GoType DEF LoginReject, Steps, Answers
  <2>3. errors' \in 0 .. MaxErrors
    BY <1>5, FailsType DEF LoginReject
  <2> QED
    BY <1>5, <2>1, <2>2, <2>3 DEF LoginReject, TypeOK, tables, Go
<1>6. ASSUME NEW l \in Logins, LoginOpen(l) PROVE TypeOK'
  <2>1. user[l] # NoUser
    BY <1>6 DEF LoginOpen, TypeOK, Go
  <2>2. sessions' \in [Logins -> Session \cup {NoSession}]
    BY <1>6, <2>1, OpenType DEF LoginOpen, TypeOK
  <2>3. pc' \in [Requests -> {"new"} \cup Steps \cup Answers]
    BY <1>6, GoType DEF LoginOpen, Steps, Answers
  <2>4. errors' \in 0 .. MaxErrors
    BY <1>6, FailsType DEF LoginOpen
  <2> QED
    BY <1>6, <2>1, <2>2, <2>3, <2>4 DEF LoginOpen, TypeOK, Go
<1>7. ASSUME NEW l \in Logins, LoginAnswer(l) PROVE TypeOK'
  <2>1. audit' \subseteq Events \X Requests
    BY <1>7, RecordType DEF LoginAnswer, Events
  <2>2. pc' \in [Requests -> {"new"} \cup Steps \cup Answers]
    BY <1>7, GoType DEF LoginAnswer, Steps, Answers
  <2> QED
    BY <1>7, <2>1, <2>2 DEF LoginAnswer, TypeOK, tables, Go
<1>8. ASSUME NEW r \in Calls, FindSession(r) PROVE TypeOK'
  <2>1. pc' \in [Requests -> {"new"} \cup Steps \cup Answers]
    BY <1>8, GoType DEF FindSession, Steps, Answers, Calls
  <2>2. sessions[Token[r]] \in Session
    BY <1>8, RequestData DEF FindSession, TypeOK, Calls
  <2>3. sessions[Token[r]].user \in Registers \ {NoUser}
    BY <2>2, Nobody DEF Session
  <2> QED
    BY <1>8, <2>1, <2>3 DEF FindSession, TypeOK, tables, Go, Calls
<1>9. ASSUME NEW r \in Calls, NoValidSession(r) PROVE TypeOK'
  <2>1. sessions' \in [Logins -> Session \cup {NoSession}]
    BY <1>9, CloseType, RequestData DEF NoValidSession, TypeOK, Calls
  <2>2. pc' \in [Requests -> {"new"} \cup Steps \cup Answers]
    BY <1>9, GoType DEF NoValidSession, Steps, Answers, Calls
  <2>3. errors' \in 0 .. MaxErrors
    BY <1>9, FailsType DEF NoValidSession
  <2> QED
    BY <1>9, <2>1, <2>2, <2>3 DEF NoValidSession, TypeOK, Go, Calls
<1>10. ASSUME NEW r \in Calls, FindUser(r) PROVE TypeOK'
  <2>1. pc' \in [Requests -> {"new"} \cup Steps \cup Answers]
    BY <1>10, GoType DEF FindUser, Steps, Answers, Calls
  <2>2. errors' \in 0 .. MaxErrors
    BY <1>10, FailsType DEF FindUser
  <2> QED
    BY <1>10, <2>1, <2>2 DEF FindUser, TypeOK, tables, Go, Calls
<1>11. ASSUME NEW r \in Logouts, LogoutClose(r) PROVE TypeOK'
  <2>1. sessions' \in [Logins -> Session \cup {NoSession}]
    BY <1>11, CloseType, RequestData DEF LogoutClose, TypeOK
  <2>2. pc' \in [Requests -> {"new"} \cup Steps \cup Answers]
    BY <1>11, GoType DEF LogoutClose, Steps, Answers
  <2>3. errors' \in 0 .. MaxErrors
    BY <1>11, FailsType DEF LogoutClose
  <2> QED
    BY <1>11, <2>1, <2>2, <2>3 DEF LogoutClose, TypeOK, Go
<1>12. ASSUME NEW r \in Logouts, LogoutAnswer(r) PROVE TypeOK'
  <2>1. audit' \subseteq Events \X Requests
    BY <1>12, RecordType DEF LogoutAnswer, Events
  <2>2. pc' \in [Requests -> {"new"} \cup Steps \cup Answers]
    BY <1>12, GoType DEF LogoutAnswer, Steps, Answers
  <2> QED
    BY <1>12, <2>1, <2>2 DEF LogoutAnswer, TypeOK, tables, Go
<1>13. CASE Tick
  BY <1>13, Times DEF Tick, TypeOK, tables
<1>14. CASE Crash
  BY <1>14, Times DEF Crash, TypeOK, tables, Answers, Steps
<1>15. CASE UNCHANGED vars
  BY <1>15 DEF vars, tables, TypeOK
<1> QED
  BY <1>1, <1>2, <1>3, <1>4, <1>5, <1>6, <1>7, <1>8, <1>9, <1>10, <1>11, <1>12,
     <1>13, <1>14, <1>15 DEF Next, Calls

\* Every state variable keeps its type, and a request that stands where it
\* needs the user it looked up has one.
THEOREM TypeCorrect == Spec => []TypeOK
BY InitType, TypeStep, PTL DEF Spec

-----------------------------------------------------------------------------
(* The inductive invariant.                                                *)

\* u is a user with the address and the password that login l was sent.
Owns(u, l) == u \in users /\ Email[u] = Email[l] /\ Password[u] = Password[l]

\* A login has looked up the owner of its address, and a session is only
\* there once the password was verified, for that owner.
LoginsTrue ==
    \A l \in Logins :
        /\ pc[l] = "new" => user[l] = NoUser
        /\ user[l] # NoUser => Owns(user[l], l)
        /\ sessions[l] # NoSession =>
               /\ user[l] # NoUser /\ sessions[l].user = user[l]
               /\ pc[l] \notin {"new", "verified"}
        /\ pc[l] = "opened" => sessions[l] # NoSession

\* A call has the user that its token's login looked up.
CallsTrue ==
    \A r \in Calls :
        /\ user[r] # NoUser =>
               user[Token[r]] = user[r] /\ pc[Token[r]] = "ok"
        /\ pc[r] \in {"closed", "ok"} => user[r] # NoUser

\* The login of l was answered, so that its session is not inserted again,
\* and the session is gone or of no use any more.
Gone(l) == pc[l] = "ok" /\ (sessions[l] = NoSession \/ Expired(l))

\* A refused token and a closed session stay of no use.
RevokedGone ==
    \A q \in Calls :
        /\ pc[q] = "denied" => Gone(Token[q])
        /\ q \in Logouts /\ pc[q] \in {"closed", "ok"} =>
               pc[Token[q]] = "ok" /\ sessions[Token[q]] = NoSession
        /\ <<"logout", q>> \in audit => pc[Token[q]] = "ok"

IInv == OneUserPerEmail /\ LoginsTrue /\ CallsTrue /\ RevokedGone /\ AuditIsTrue

-----------------------------------------------------------------------------
(* What a step can do to each part of the state.                           *)

\* The actions that are steps of request x alone.
StepOf(x) ==
    \/ x \in Registers /\ (RegisterInsert(x) \/ RegisterAnswer(x))
    \/ x \in Logins /\ (LoginVerify(x) \/ LoginReject(x) \/ LoginOpen(x) \/ LoginAnswer(x))
    \/ x \in Calls /\ (FindSession(x) \/ NoValidSession(x) \/ FindUser(x))
    \/ x \in Logouts /\ (LogoutClose(x) \/ LogoutAnswer(x))

\* The steps of Next: of one request, the clock, a crash, or none.
LEMMA NextSteps ==
    ASSUME [Next]_vars
    PROVE  \/ \E x \in Requests : Refuse(x) \/ StepOf(x)
           \/ Tick \/ Crash \/ UNCHANGED vars
BY DEF Next, StepOf, Requests, Calls

\* A step of a request moves that request and no other.
LEMMA StepGoes ==
    ASSUME NEW x \in Requests, Refuse(x) \/ StepOf(x)
    PROVE  \E from \in {"new"} \cup Steps, to \in Steps \cup Answers : Go(x, from, to)
<1>1. ASSUME Refuse(x) PROVE Go(x, "new", "invalid")
  BY <1>1 DEF Refuse
<1>2. ASSUME RegisterInsert(x) \/ RegisterAnswer(x)
      PROVE  \/ \E to \in {"exists", "inserted", "failed"} : Go(x, "new", to)
             \/ Go(x, "inserted", "ok")
  BY <1>2 DEF RegisterInsert, RegisterAnswer
<1>3. ASSUME LoginVerify(x) \/ LoginReject(x) \/ LoginOpen(x) \/ LoginAnswer(x)
      PROVE  \/ \E to \in {"verified", "denied", "failed"} : Go(x, "new", to)
             \/ \E to \in {"opened", "failed"} : Go(x, "verified", to)
             \/ Go(x, "opened", "ok")
  BY <1>3 DEF LoginVerify, LoginReject, LoginOpen, LoginAnswer
<1>4. ASSUME FindSession(x) \/ NoValidSession(x) \/ FindUser(x)
      PROVE  \/ \E to \in {"session", "denied", "failed"} : Go(x, "new", to)
             \/ \E to \in {"owner", "ok", "denied", "failed"} : Go(x, "session", to)
  BY <1>4 DEF FindSession, NoValidSession, FindUser
<1>5. ASSUME LogoutClose(x) \/ LogoutAnswer(x)
      PROVE  \/ \E to \in {"closed", "failed"} : Go(x, "owner", to)
             \/ Go(x, "closed", "ok")
  BY <1>5 DEF LogoutClose, LogoutAnswer
<1> QED
  BY <1>1, <1>2, <1>3, <1>4, <1>5 DEF StepOf, Steps, Answers

\* A request that has been answered stays so, and none begins anew.
LEMMA AnswersFinal ==
    ASSUME TypeOK, [Next]_vars, NEW x \in Requests
    PROVE  /\ pc[x] \in Answers => pc'[x] = pc[x]
           /\ pc'[x] = "new" => pc[x] = "new"
<1>1. ASSUME NEW y \in Requests, Refuse(y) \/ StepOf(y)
      PROVE  /\ pc[x] \in Answers => pc'[x] = pc[x]
             /\ pc'[x] = "new" => pc[x] = "new"
  BY <1>1, StepGoes DEF TypeOK, Go, Steps, Answers
<1>2. CASE Tick \/ UNCHANGED vars
  BY <1>2 DEF Tick, vars
<1>3. CASE Crash
  BY <1>3 DEF Crash, TypeOK, Steps, Answers
<1> QED
  BY <1>1, <1>2, <1>3, NextSteps

\* A request is moved by an action of its own or by the death of the process.
LEMMA OwnStep ==
    ASSUME TypeOK, [Next]_vars, NEW x \in Requests, pc'[x] # pc[x]
    PROVE  \/ Refuse(x) /\ pc'[x] = "invalid"
           \/ StepOf(x)
           \/ pc'[x] = "lost"
<1>1. ASSUME NEW y \in Requests, Refuse(y) \/ StepOf(y) PROVE x = y
  BY <1>1, StepGoes DEF TypeOK, Go
<1>2. ASSUME Refuse(x) PROVE pc'[x] = "invalid"
  BY <1>2 DEF Refuse, Go, TypeOK
<1>3. CASE Tick \/ UNCHANGED vars
  BY <1>3 DEF Tick, vars
<1>4. CASE Crash
  BY <1>4 DEF Crash, TypeOK
<1> QED
  BY <1>1, <1>2, <1>3, <1>4, NextSteps

\* A row of users is inserted by its own registration, and none is deleted.
LEMMA UserRows ==
    ASSUME TypeOK, [Next]_vars
    PROVE  /\ users \subseteq users'
           /\ \A u \in users' \ users :
                  u \in Registers /\ ~EmailTaken(u) /\ users' = users \cup {u}
<1>1. ASSUME NEW x \in Registers, RegisterInsert(x)
      PROVE  \/ users' = users
             \/ ~EmailTaken(x) /\ users' = users \cup {x}
  <2>1. CASE EmailTaken(x)
    BY <1>1, <2>1 DEF RegisterInsert
  <2>2. CASE ~EmailTaken(x)
    BY <1>1, <2>2 DEF RegisterInsert
  <2> QED
    BY <2>1, <2>2
<1>2. ASSUME NEW x \in Requests, StepOf(x)
      PROVE  \/ users' = users
             \/ x \in Registers /\ RegisterInsert(x)
  BY <1>2 DEF StepOf, RegisterAnswer, LoginVerify, LoginReject, LoginOpen, LoginAnswer,
              FindSession, NoValidSession, FindUser, LogoutClose, LogoutAnswer, tables
<1>3. ASSUME NEW x \in Requests, Refuse(x) PROVE users' = users
  BY <1>3 DEF Refuse, tables
<1>4. ASSUME Tick \/ Crash \/ UNCHANGED vars PROVE users' = users
  BY <1>4 DEF Tick, Crash, vars, tables
<1> QED
  BY <1>1, <1>2, <1>3, <1>4, NextSteps

\* What a login or a call knows of a user is written once: by the login that
\* verifies a password, and by the call that finds a session.
LEMMA UserMoves ==
    ASSUME TypeOK, [Next]_vars, NEW x \in Logins \cup Calls, user'[x] # user[x]
    PROVE  \/ x \in Logins /\ LoginVerify(x)
           \/ x \in Calls /\ FindSession(x)
<1>1. ASSUME NEW y \in Requests, StepOf(y)
      PROVE  \/ user' = user
             \/ y \in Logins /\ LoginVerify(y)
             \/ y \in Calls /\ FindSession(y)
  BY <1>1 DEF StepOf, RegisterInsert, RegisterAnswer, LoginReject, LoginOpen, LoginAnswer,
              NoValidSession, FindUser, LogoutClose, LogoutAnswer
<1>2. ASSUME NEW y \in Logins, LoginVerify(y) PROVE x = y
  BY <1>2 DEF LoginVerify, TypeOK, Calls
<1>3. ASSUME NEW y \in Calls, FindSession(y) PROVE x = y
  BY <1>3 DEF FindSession, TypeOK, Calls
<1>4. ASSUME NEW y \in Requests, Refuse(y) PROVE user' = user
  BY <1>4 DEF Refuse
<1>5. ASSUME Tick \/ Crash \/ UNCHANGED vars PROVE user' = user
  BY <1>5 DEF Tick, Crash, vars
<1> QED
  BY <1>1, <1>2, <1>3, <1>4, <1>5, NextSteps

\* A session is inserted by its login alone, and deleted by a call that sees
\* it expired or by a logout.
LEMMA SessionMoves ==
    ASSUME TypeOK, [Next]_vars, NEW l \in Logins, sessions'[l] # sessions[l]
    PROVE  \/ LoginOpen(l)
           \/ \E r \in Calls : /\ NoValidSession(r) \/ (r \in Logouts /\ LogoutClose(r))
                               /\ Token[r] = l /\ sessions'[l] = NoSession
<1>1. ASSUME NEW y \in Requests, StepOf(y)
      PROVE  \/ sessions' = sessions
             \/ y \in Logins /\ LoginOpen(y)
             \/ y \in Calls /\ NoValidSession(y)
             \/ y \in Logouts /\ LogoutClose(y)
  BY <1>1 DEF StepOf, RegisterInsert, RegisterAnswer, LoginVerify, LoginReject, LoginAnswer,
              FindSession, FindUser, LogoutAnswer, tables
<1>2. ASSUME NEW y \in Logins, LoginOpen(y) PROVE y = l
  BY <1>2 DEF LoginOpen, TypeOK
<1>3. ASSUME NEW y \in Calls, NoValidSession(y)
      PROVE  Token[y] = l /\ sessions'[l] = NoSession
  BY <1>3, RequestData DEF NoValidSession, TypeOK, Calls
<1>4. ASSUME NEW y \in Logouts, LogoutClose(y)
      PROVE  y \in Calls /\ Token[y] = l /\ sessions'[l] = NoSession
  BY <1>4, RequestData DEF LogoutClose, TypeOK, Calls
<1>5. ASSUME NEW y \in Requests, Refuse(y) PROVE sessions' = sessions
  BY <1>5 DEF Refuse, tables
<1>6. ASSUME Tick \/ Crash \/ UNCHANGED vars PROVE sessions' = sessions
  BY <1>6 DEF Tick, Crash, vars, tables
<1> QED
  BY <1>1, <1>2, <1>3, <1>4, <1>5, <1>6, NextSteps

\* An event is recorded by the step that it tells of.
LEMMA AuditMoves ==
    ASSUME TypeOK, [Next]_vars, NEW e \in audit' \ audit
    PROVE  \/ \E r \in Registers : e = <<"register", r>> /\ RegisterAnswer(r)
           \/ \E l \in Logins : e = <<"login_failed", l>> /\ LoginReject(l)
           \/ \E l \in Logins : e = <<"login_success", l>> /\ LoginAnswer(l)
           \/ \E r \in Logouts : e = <<"logout", r>> /\ LogoutAnswer(r)
<1>1. ASSUME NEW y \in Requests, StepOf(y)
      PROVE  \/ audit' = audit
             \/ y \in Registers /\ RegisterAnswer(y)
             \/ y \in Logins /\ (LoginReject(y) \/ LoginAnswer(y))
             \/ y \in Logouts /\ LogoutAnswer(y)
  BY <1>1 DEF StepOf, RegisterInsert, LoginVerify, LoginOpen, FindSession,
              NoValidSession, FindUser, LogoutClose
<1>2. ASSUME NEW y \in Registers, RegisterAnswer(y) PROVE e = <<"register", y>>
  BY <1>2 DEF RegisterAnswer, Record
<1>3. ASSUME NEW y \in Logins, LoginReject(y) PROVE e = <<"login_failed", y>>
  BY <1>3 DEF LoginReject, Record
<1>4. ASSUME NEW y \in Logins, LoginAnswer(y) PROVE e = <<"login_success", y>>
  BY <1>4 DEF LoginAnswer, Record
<1>5. ASSUME NEW y \in Logouts, LogoutAnswer(y) PROVE e = <<"logout", y>>
  BY <1>5 DEF LogoutAnswer, Record
<1>6. ASSUME NEW y \in Requests, Refuse(y) PROVE audit' = audit
  BY <1>6 DEF Refuse
<1>7. ASSUME Tick \/ Crash \/ UNCHANGED vars PROVE audit' = audit
  BY <1>7 DEF Tick, Crash, vars
<1> QED
  BY <1>1, <1>2, <1>3, <1>4, <1>5, <1>6, <1>7, NextSteps

-----------------------------------------------------------------------------
(* The inductive invariant is kept, part by part.                          *)

\* The start has the inductive invariant.
LEMMA InitIInv == Init => IInv
BY DEF Init, IInv, OneUserPerEmail, LoginsTrue, CallsTrue, RevokedGone, AuditIsTrue,
       Requests, Calls

\* No step gives an email a second user.
LEMMA OneUserStep ==
    ASSUME TypeOK, OneUserPerEmail, [Next]_vars
    PROVE  OneUserPerEmail'
<1>1. ASSUME NEW u \in users', NEW v \in users', Email[u] = Email[v]
      PROVE  u = v
  BY <1>1, UserRows DEF OneUserPerEmail, EmailTaken
<1>2. ASSUME NEW r \in Registers, pc'[r] \in {"inserted", "ok"}
      PROVE  r \in users'
  <2>1. CASE pc'[r] = pc[r]
    BY <1>2, <2>1, UserRows DEF OneUserPerEmail
  <2>2. CASE pc'[r] # pc[r]
    <3>1. RegisterInsert(r) \/ RegisterAnswer(r)
      BY <1>2, <2>2, OwnStep, RequestKinds DEF StepOf, Requests, Calls
    <3>2. ASSUME RegisterInsert(r) PROVE r \in users'
      BY <1>2, <3>2 DEF RegisterInsert, Go, TypeOK, Requests
    <3>3. ASSUME RegisterAnswer(r) PROVE r \in users'
      BY <3>3 DEF RegisterAnswer, Go, OneUserPerEmail, tables
    <3> QED
      BY <3>1, <3>2, <3>3
  <2> QED
    BY <2>1, <2>2
<1> QED
  BY <1>1, <1>2 DEF OneUserPerEmail

\* Every step keeps sessions tied to the users that logged in.
LEMMA LoginsStep ==
    ASSUME TypeOK, LoginsTrue, CallsTrue, [Next]_vars
    PROVE  LoginsTrue'
<1> SUFFICES ASSUME NEW l \in Logins
             PROVE  /\ pc'[l] = "new" => user'[l] = NoUser
                    /\ user'[l] # NoUser => Owns(user[l], l)'
                    /\ sessions'[l] # NoSession =>
                           /\ user'[l] # NoUser /\ sessions'[l].user = user'[l]
                           /\ pc'[l] \notin {"new", "verified"}
                    /\ pc'[l] = "opened" => sessions'[l] # NoSession
  BY DEF LoginsTrue
<1> l \in Requests /\ l \notin Calls
  BY RequestKinds DEF Requests, Calls
<1>1. \/ user'[l] = user[l]
      \/ LoginVerify(l)
  BY UserMoves
<1>2. \/ sessions'[l] = sessions[l]
      \/ LoginOpen(l)
      \/ sessions'[l] = NoSession /\ pc[l] = "ok"
  <2> SUFFICES ASSUME NEW r \in Calls, Token[r] = l,
                      NoValidSession(r) \/ (r \in Logouts /\ LogoutClose(r))
               PROVE  pc[l] = "ok"
    BY SessionMoves
  <2>1. ASSUME LogoutClose(r) PROVE pc[r] = "owner"
    BY <2>1 DEF LogoutClose, Go
  <2> QED
    BY <2>1 DEF NoValidSession, CallsTrue, TypeOK, Requests, Calls
<1>3. ASSUME LoginVerify(l)
      PROVE  /\ pc[l] = "new" /\ pc'[l] = "verified" /\ UNCHANGED <<users, sessions>>
             /\ Owns(user'[l], l)
  BY <1>3 DEF LoginVerify, Go, TypeOK, Owns, tables
<1>4. ASSUME LoginOpen(l)
      PROVE  /\ pc[l] = "verified" /\ user' = user
             /\ pc'[l] \in {"opened", "failed"}
             /\ \/ sessions'[l] = sessions[l] /\ pc'[l] = "failed"
                \/ sessions'[l] = [user |-> user[l], expires |-> clock + TTL]
             /\ [user |-> user[l], expires |-> clock + TTL] # NoSession
  BY <1>4, Times, Nobody DEF LoginOpen, Go, TypeOK
<1>5. ASSUME pc'[l] \in {"new", "verified"} PROVE pc[l] = pc'[l] \/ LoginVerify(l)
  <2>1. CASE pc'[l] # pc[l]
    <3>1. StepOf(l)
      BY <1>5, <2>1, OwnStep
    <3> QED
      BY <1>5, <2>1, <3>1, <1>4, RequestKinds
      DEF StepOf, LoginReject, LoginAnswer, Go, TypeOK, Requests
  <2> QED
    BY <2>1
<1>6. ASSUME pc'[l] = "opened" PROVE pc[l] = "opened" \/ LoginOpen(l)
  <2>1. CASE pc'[l] # pc[l]
    <3>1. StepOf(l)
      BY <1>6, <2>1, OwnStep
    <3> QED
      BY <1>6, <3>1, <1>3, RequestKinds
      DEF StepOf, LoginReject, LoginAnswer, Go, TypeOK, Requests
  <2> QED
    BY <1>6, <2>1
<1>7. pc'[l] = "new" => user'[l] = NoUser
  BY <1>1, <1>3, <1>5 DEF LoginsTrue
<1>8. user'[l] # NoUser => Owns(user[l], l)'
  BY <1>1, <1>3, UserRows DEF LoginsTrue, Owns
<1>9. ASSUME sessions'[l] # NoSession
      PROVE  /\ user'[l] # NoUser /\ sessions'[l].user = user'[l]
             /\ pc'[l] \notin {"new", "verified"}
  <2>1. CASE LoginOpen(l)
    BY <2>1, <1>4, <1>9 DEF LoginsTrue, TypeOK
  <2>2. CASE ~LoginOpen(l)
    <3>1. sessions'[l] = sessions[l] /\ sessions[l] # NoSession
      BY <2>2, <1>2, <1>9
    <3>2. ~LoginVerify(l)
      BY <3>1, <1>3 DEF LoginsTrue
    <3> QED
      BY <3>1, <3>2, <1>1, <1>5 DEF LoginsTrue
  <2> QED
    BY <2>1, <2>2
<1>10. pc'[l] = "opened" => sessions'[l] # NoSession
  BY <1>2, <1>4, <1>6 DEF LoginsTrue
<1> QED
  BY <1>7, <1>8, <1>9, <1>10

\* Every step keeps what a call has read true of users and sessions.
LEMMA CallsStep ==
    ASSUME TypeOK, LoginsTrue, CallsTrue, [Next]_vars
    PROVE  CallsTrue'
<1> SUFFICES ASSUME NEW r \in Calls
             PROVE  /\ user'[r] # NoUser =>
                           user'[Token[r]] = user'[r] /\ pc'[Token[r]] = "ok"
                    /\ pc'[r] \in {"closed", "ok"} => user'[r] # NoUser
  BY DEF CallsTrue
<1> DEFINE l == Token[r]
<1> l \in Logins /\ l \in Requests /\ r \in Requests /\ r \notin Logins
  BY RequestKinds, RequestData DEF Requests, Calls
<1>1. ASSUME pc[l] = "ok" PROVE pc'[l] = "ok" /\ user'[l] = user[l]
  <2>1. pc'[l] = "ok"
    BY <1>1, AnswersFinal DEF Answers
  <2>2. ~LoginVerify(l)
    BY <1>1 DEF LoginVerify, Go
  <2> QED
    BY <2>1, <2>2, UserMoves, RequestKinds DEF Calls
<1>2. user'[r] = user[r] \/ FindSession(r)
  BY UserMoves
<1>3. ASSUME FindSession(r)
      PROVE  /\ pc[l] = "ok" /\ user'[r] = user[l] /\ user[l] # NoUser
             /\ pc'[r] = "session"
  BY <1>3 DEF FindSession, Go, TypeOK, LoginsTrue, Calls
<1>4. user'[r] # NoUser => user'[l] = user'[r] /\ pc'[l] = "ok"
  BY <1>1, <1>2, <1>3 DEF CallsTrue
<1>5. ASSUME pc'[r] \in {"closed", "ok"}, pc'[r] # pc[r]
      PROVE  pc[r] \in {"session", "owner", "closed"}
  <2>1. StepOf(r)
    BY <1>5, OwnStep
  <2> QED
    BY <1>5, <2>1, RequestKinds
    DEF StepOf, FindSession, NoValidSession, FindUser, LogoutClose, LogoutAnswer, Go,
        TypeOK, Requests, Calls
<1>6. pc'[r] \in {"closed", "ok"} => user'[r] # NoUser
  <2> SUFFICES ASSUME pc'[r] \in {"closed", "ok"} PROVE user'[r] # NoUser
    OBVIOUS
  <2>1. user[r] # NoUser
    BY <1>5 DEF CallsTrue, TypeOK
  <2> QED
    BY <2>1, <1>2, <1>3
<1> QED
  BY <1>4, <1>6

\* What is gone stays gone: only the login itself could bring it back.
LEMMA GoneStays ==
    ASSUME TypeOK, LoginsTrue, CallsTrue, [Next]_vars, NEW l \in Logins, pc[l] = "ok"
    PROVE  /\ pc'[l] = "ok"
           /\ sessions[l] = NoSession => sessions'[l] = NoSession
           /\ Gone(l) => Gone(l)'
<1>1. pc'[l] = "ok"
  BY AnswersFinal DEF Answers, Requests
<1>2. sessions'[l] = sessions[l] \/ sessions'[l] = NoSession
  BY SessionMoves DEF LoginOpen, Go
<1>3. clock' \in Nat /\ clock' >= clock
  <2>1. ASSUME NEW x \in Requests, Refuse(x) \/ StepOf(x) PROVE clock' = clock
    BY <2>1 DEF Refuse, StepOf, RegisterInsert, RegisterAnswer, LoginVerify, LoginReject,
                LoginOpen, LoginAnswer, FindSession, NoValidSession, FindUser,
                LogoutClose, LogoutAnswer
  <2>2. clock \in Nat
    BY Times DEF TypeOK
  <2> QED
    BY <2>1, <2>2, NextSteps DEF Tick, Crash, vars
<1>4. ASSUME Expired(l), sessions[l] # NoSession, sessions'[l] = sessions[l]
      PROVE  Expired(l)'
  <2>1. sessions[l].expires \in Nat /\ clock \in Nat
    BY <1>4, Times DEF TypeOK, Session
  <2> QED
    BY <1>3, <1>4, <2>1 DEF Expired
<1> QED
  BY <1>1, <1>2, <1>4 DEF Gone

\* No step brings a revoked session back.
LEMMA RevokedStep ==
    ASSUME TypeOK, LoginsTrue, CallsTrue, RevokedGone, [Next]_vars
    PROVE  RevokedGone'
<1> SUFFICES ASSUME NEW q \in Calls
             PROVE  /\ pc'[q] = "denied" => Gone(Token[q])'
                    /\ q \in Logouts /\ pc'[q] \in {"closed", "ok"} =>
                           pc'[Token[q]] = "ok" /\ sessions'[Token[q]] = NoSession
                    /\ <<"logout", q>> \in audit' => pc'[Token[q]] = "ok"
  BY DEF RevokedGone
<1> DEFINE l == Token[q]
<1> l \in Logins /\ l \in Requests /\ q \in Requests /\ q \notin Logins \cup Registers
  BY RequestKinds, RequestData DEF Requests, Calls
<1>1. ASSUME pc'[q] = "denied", pc'[q] # pc[q]
      PROVE  /\ pc[l] = "ok" /\ clock' = clock
             /\ Gone(l) /\ (sessions'[l] = sessions[l] \/ sessions'[l] = NoSession)
  <2>1. NoValidSession(q) \/ FindUser(q)
    BY <1>1, OwnStep DEF StepOf, FindSession, LogoutClose, LogoutAnswer, Go, TypeOK
  <2>2. ~FindUser(q)
    <3> SUFFICES ASSUME FindUser(q) PROVE FALSE
      OBVIOUS
    <3>1. user[q] \in users
      BY DEF FindUser, Go, TypeOK, CallsTrue, LoginsTrue, Owns
    <3> QED
      BY <1>1, <3>1 DEF FindUser, Go, TypeOK
  <2>3. NoValidSession(q)
    BY <2>1, <2>2
  <2> QED
    BY <1>1, <2>3 DEF NoValidSession, Gone, Go, TypeOK
<1>2. pc'[q] = "denied" => Gone(l)'
  BY <1>1, GoneStays DEF RevokedGone, Gone, Expired
<1>3. ASSUME q \in Logouts, pc'[q] \in {"closed", "ok"}, pc'[q] # pc[q]
      PROVE  pc[l] = "ok" /\ sessions'[l] = NoSession
  <2>1. LogoutClose(q) \/ LogoutAnswer(q)
    BY <1>3, OwnStep DEF StepOf, FindSession, NoValidSession, FindUser, Go, TypeOK
  <2>2. ASSUME LogoutClose(q) PROVE pc[l] = "ok" /\ sessions'[l] = NoSession
    <3>1. pc[l] = "ok"
      BY <2>2 DEF LogoutClose, Go, TypeOK, CallsTrue
    <3> QED
      BY <1>3, <2>2, <3>1 DEF LogoutClose, Go, TypeOK
  <2>3. ASSUME LogoutAnswer(q) PROVE pc[l] = "ok" /\ sessions'[l] = NoSession
    BY <2>3, <1>3 DEF LogoutAnswer, Go, RevokedGone, tables
  <2> QED
    BY <2>1, <2>2, <2>3
<1>4. q \in Logouts /\ pc'[q] \in {"closed", "ok"} =>
          pc'[l] = "ok" /\ sessions'[l] = NoSession
  BY <1>3, GoneStays DEF RevokedGone
<1>5. ASSUME <<"logout", q>> \in audit' \ audit PROVE pc[l] = "ok"
  <2>1. q \in Logouts /\ LogoutAnswer(q)
    BY <1>5, AuditMoves
  <2> QED
    BY <2>1 DEF LogoutAnswer, Go, RevokedGone
<1>6. <<"logout", q>> \in audit' => pc'[l] = "ok"
  BY <1>5, GoneStays DEF RevokedGone
<1> QED
  BY <1>2, <1>4, <1>6

\* Every step keeps the audit trail true.
LEMMA AuditStep ==
    ASSUME TypeOK, OneUserPerEmail, LoginsTrue, CallsTrue, RevokedGone, AuditIsTrue,
           [Next]_vars
    PROVE  AuditIsTrue'
<1>1. ASSUME NEW r \in Registers, <<"register", r>> \in audit' PROVE r \in users'
  <2>1. CASE <<"register", r>> \in audit
    BY <2>1, UserRows DEF AuditIsTrue
  <2>2. CASE <<"register", r>> \notin audit
    <3>1. RegisterAnswer(r)
      BY <1>1, <2>2, AuditMoves
    <3> QED
      BY <3>1, UserRows DEF RegisterAnswer, Go, OneUserPerEmail
  <2> QED
    BY <2>1, <2>2
<1>2. ASSUME NEW l \in Logins, <<"login_success", l>> \in audit'
      PROVE  \/ sessions'[l] # NoSession /\ sessions'[l].user = user'[l]
             \/ \E r \in Calls : Token[r] = l /\ pc'[r] # "new"
  <2>1. \/ sessions[l] # NoSession
        \/ \E r \in Calls : Token[r] = l /\ pc[r] # "new"
    <3>1. CASE <<"login_success", l>> \in audit
      BY <3>1 DEF AuditIsTrue, Calls
    <3>2. CASE <<"login_success", l>> \notin audit
      <4>1. LoginAnswer(l)
        BY <1>2, <3>2, AuditMoves
      <4> QED
        BY <4>1 DEF LoginAnswer, Go, LoginsTrue
    <3> QED
      BY <3>1, <3>2
  <2>2. ASSUME NEW r \in Calls, Token[r] = l, pc[r] # "new" PROVE pc'[r] # "new"
    BY <2>2, AnswersFinal DEF Calls, Requests
  <2>3. ASSUME sessions[l] # NoSession, sessions'[l] = NoSession
        PROVE  \E r \in Calls : Token[r] = l /\ pc'[r] # "new"
    <3>1. ~LoginOpen(l)
      BY <2>3 DEF LoginOpen, Go, LoginsTrue
    <3>2. PICK r \in Calls : /\ NoValidSession(r) \/ (r \in Logouts /\ LogoutClose(r))
                             /\ Token[r] = l
      BY <2>3, <3>1, SessionMoves
    <3> QED
      BY <3>2 DEF NoValidSession, LogoutClose, Go, TypeOK, Requests, Calls
  <2>4. LoginsTrue'
    BY LoginsStep
  <2> QED
    BY <2>1, <2>2, <2>3, <2>4 DEF LoginsTrue
<1>3. ASSUME NEW r \in Logouts, <<"logout", r>> \in audit'
      PROVE  sessions'[Token[r]] = NoSession
  <2>1. r \in Calls /\ Token[r] \in Logins
    BY RequestData DEF Calls
  <2>2. pc[Token[r]] = "ok" /\ sessions[Token[r]] = NoSession
    <3>1. CASE <<"logout", r>> \in audit
      BY <2>1, <3>1 DEF AuditIsTrue, RevokedGone
    <3>2. CASE <<"logout", r>> \notin audit
      <4>1. LogoutAnswer(r)
        BY <1>3, <3>2, AuditMoves
      <4> QED
        BY <2>1, <4>1 DEF LogoutAnswer, Go, RevokedGone
    <3> QED
      BY <3>1, <3>2
  <2> QED
    BY <2>1, <2>2, GoneStays
<1> QED
  BY <1>1, <1>2, <1>3 DEF AuditIsTrue, Calls

\* IInv is an invariant: users, sessions, what calls have read and the audit
\* trail agree, through failing statements, expiry and crashes.
THEOREM Inductive == Spec => []IInv
<1>1. TypeOK /\ IInv /\ [Next]_vars => IInv'
  BY OneUserStep, LoginsStep, CallsStep, RevokedStep, AuditStep DEF IInv
<1> QED
  BY InitIInv, TypeCorrect, <1>1, PTL DEF Spec

-----------------------------------------------------------------------------
(* The properties.                                                         *)

\* However registrations of one address overlap, fail after they were applied
\* or lose their answers, one user has it, and an acknowledged registration
\* stays: the unique key of the table decides, not the order of the steps.
THEOREM OneUserHolds == Spec => []OneUserPerEmail
BY Inductive, PTL DEF IInv

\* Whoever is let in with a token is a user whose address and password the
\* token was asked with, however logins, calls and deaths interleave.
THEOREM AdmittedHolds == Spec => []AdmittedAsOneself
<1>1. TypeOK /\ IInv => AdmittedAsOneself
  <2> SUFFICES ASSUME TypeOK, IInv, NEW r \in Calls, pc[r] = "ok"
               PROVE  Owns(user[r], Token[r])
    BY DEF AdmittedAsOneself, Owns, Calls
  <2>1. Token[r] \in Logins
    BY RequestData DEF Calls
  <2> QED
    BY <2>1 DEF IInv, CallsTrue, LoginsTrue
<1> QED
  BY <1>1, Inductive, TypeCorrect, PTL

\* Every event of the audit trail is the trace of what it tells of: no event
\* is recorded before its effect, and no later step undoes the effect.
THEOREM AuditHolds == Spec => []AuditIsTrue
BY Inductive, PTL DEF IInv

\* A token that was logged out with success, or refused, lets nobody in who
\* comes later: its session is gone or expired, and only the login that made
\* it, which has ended, could insert it again.
THEOREM RevokedHolds == Spec => RevokedStaysRevoked
<1>1. ASSUME TypeOK, IInv, NEW r \in Calls, Go(r, "new", "session"), [Next]_vars,
             NEW q \in Calls, Token[q] = Token[r]
      PROVE  pc[q] # "denied" /\ (q \in Logouts => pc[q] # "ok")
  <2>1. FindSession(r)
    <3>1. pc'[r] = "session" /\ pc[r] = "new" /\ r \in Requests
      BY <1>1 DEF Go, TypeOK, Requests, Calls
    <3> QED
      BY <1>1, <3>1, OwnStep, RequestKinds
      DEF StepOf, NoValidSession, FindUser, LogoutClose, LogoutAnswer, Go, TypeOK, Calls
  <2>2. ~Gone(Token[r])
    BY <2>1 DEF FindSession, Gone
  <2> QED
    BY <1>1, <2>2 DEF IInv, RevokedGone, Gone
<1>2. TypeOK /\ IInv /\ [Next]_vars =>
          [\A r \in Logouts \cup Uses : Go(r, "new", "session") =>
              \A q \in Logouts \cup Uses :
                  Token[q] = Token[r] =>
                      pc[q] # "denied" /\ (q \in Logouts => pc[q] # "ok")]_vars
  BY <1>1 DEF Calls
<1> QED
  BY <1>2, Inductive, TypeCorrect, PTL DEF Spec, RevokedStaysRevoked

=============================================================================
