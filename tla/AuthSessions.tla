---------------------------- MODULE AuthSessions ----------------------------
(***************************************************************************)
(* Register, Login, Logout and the authentication of every protected call  *)
(* in core-go-rpc, over the users and sessions of the repositories.  Each  *)
(* repository call is one step: a SQL statement that may fail, also after  *)
(* MySQL applied it, or one operation of the memory repositories under     *)
(* their mutex, which never fails.                                         *)
(*                                                                         *)
(* A user's id is the Register request that made it and a session token is *)
(* the Login request it was generated for: both are random and never       *)
(* repeat.  A password hash verifies exactly the password it was made of.  *)
(* E-mail addresses are the normalised ones.                               *)
(***************************************************************************)
EXTENDS Naturals, FiniteSets

CONSTANTS
    Registers,   \* Register requests, and so user ids
    Logins,      \* Login requests, and so session tokens
    Logouts,     \* Logout requests
    Uses,        \* other calls that carry a token, Me among them
    Email,       \* Register or Login request -> its e-mail address
    Password,    \* Register or Login request -> its password
    Token,       \* Logout or other call -> the token it carries
    NoUser,      \* no user
    NoSession,   \* no row in user_sessions
    TTL,         \* sessionTTL
    MaxTime,     \* bound: the clock's last value
    MaxErrors,   \* bound: failed repository calls
    MaxCrashes   \* bound: how many times core-go-rpc may die

Requests == Registers \cup Logins \cup Logouts \cup Uses

ASSUME RequestKinds ==
    /\ Registers \cap (Logins \cup Logouts \cup Uses) = {}
    /\ Logins \cap (Logouts \cup Uses) = {}
    /\ Logouts \cap Uses = {}
ASSUME RequestData ==
    /\ Token \in [Logouts \cup Uses -> Logins]
    /\ DOMAIN Email = Registers \cup Logins /\ DOMAIN Password = DOMAIN Email
ASSUME Nobody ==
    NoUser \notin Registers /\ NoSession \notin [user : Registers, expires : Nat]
ASSUME Times == {TTL, MaxTime, MaxErrors, MaxCrashes} \subseteq Nat

VARIABLES
    users,      \* rows of the table users
    sessions,   \* token -> its row in user_sessions
    audit,      \* events of audit.log
    clock,      \* now()
    pc,         \* where each request stands, or how it was answered
    user,       \* Login or call with a token -> the user it has looked up
    errors,     \* failed repository calls so far
    crashes     \* process deaths so far

tables == <<users, sessions>>
vars == <<tables, audit, clock, pc, user, errors, crashes>>

Steps == {"inserted", "verified", "opened", "session", "owner", "closed"}
Answers == {"ok", "invalid", "exists", "denied", "failed", "lost"}
Session == [user : Registers, expires : Nat]
Events == {"register", "login_success", "login_failed", "logout"}

TypeOK ==
    /\ users \subseteq Registers
    /\ sessions \in [Logins -> Session \cup {NoSession}]
    /\ audit \subseteq Events \X Requests
    /\ clock \in 0 .. MaxTime
    /\ pc \in [Requests -> {"new"} \cup Steps \cup Answers]
    /\ user \in [Logins \cup Logouts \cup Uses -> Registers \cup {NoUser}]
    /\ errors \in 0 .. MaxErrors
    /\ crashes \in 0 .. MaxCrashes
    /\ \A r \in Requests : pc[r] \in {"verified", "opened", "session", "owner"} =>
           user[r] # NoUser

Init ==
    /\ users = {}
    /\ sessions = [l \in Logins |-> NoSession]
    /\ audit = {}
    /\ clock = 0
    /\ pc = [r \in Requests |-> "new"]
    /\ user = [r \in Logins \cup Logouts \cup Uses |-> NoUser]
    /\ errors = 0 /\ crashes = 0

Go(r, from, to) ==
    /\ pc[r] = from
    /\ pc' = [pc EXCEPT ![r] = to]

\* A repository call fails.
Fails ==
    /\ errors < MaxErrors
    /\ errors' = errors + 1

\* RecordAudit: an event that cannot be written is lost.
Record(event, r) == audit' \in {audit, audit \cup {<<event, r>>}}

-----------------------------------------------------------------------------
(* Register.                                                               *)

\* An empty address, a short password, a call without a token or with one
\* that no login was answered with.
Refuse(r) ==
    /\ Go(r, "new", "invalid")
    /\ UNCHANGED <<tables, audit, clock, user, errors, crashes>>

EmailTaken(r) == \E u \in users : Email[u] = Email[r]

\* Mutant: the e-mail's key is not unique.
RegisterInsertAnyEmail(r) ==
    /\ \/ /\ Go(r, "new", "inserted")
          /\ users' = users \cup {r}
          /\ UNCHANGED errors
       \/ Go(r, "new", "failed") /\ Fails /\ users' \in {users, users \cup {r}}
    /\ UNCHANGED <<sessions, audit, clock, user, crashes>>

\* UserRepository.Create inserts the row unless the address is taken.
RegisterInsert(r) ==
    /\ \/ EmailTaken(r) /\ Go(r, "new", "exists") /\ UNCHANGED <<users, errors>>
       \/ /\ ~EmailTaken(r) /\ Go(r, "new", "inserted")
          /\ users' = users \cup {r}
          /\ UNCHANGED errors
       \/ /\ Go(r, "new", "failed") /\ Fails
          /\ users' \in {users, IF EmailTaken(r) THEN users ELSE users \cup {r}}
    /\ UNCHANGED <<sessions, audit, clock, user, crashes>>

RegisterAnswer(r) ==
    /\ Go(r, "inserted", "ok")
    /\ Record("register", r)
    /\ UNCHANGED <<tables, clock, user, errors, crashes>>

-----------------------------------------------------------------------------
(* Login.                                                                  *)

\* Mutant: the password is not verified.
LoginVerifyAny(l) ==
    /\ \E u \in users :
          /\ Email[u] = Email[l]
          /\ Go(l, "new", "verified")
          /\ user' = [user EXCEPT ![l] = u]
    /\ UNCHANGED <<tables, audit, clock, errors, crashes>>

\* The user of the address, whose hash verifies the password.
LoginVerify(l) ==
    /\ \E u \in users :
          /\ Email[u] = Email[l] /\ Password[u] = Password[l]
          /\ Go(l, "new", "verified")
          /\ user' = [user EXCEPT ![l] = u]
    /\ UNCHANGED <<tables, audit, clock, errors, crashes>>

\* No such user, another password, or an error: the attempt is recorded.
LoginReject(l) ==
    /\ \/ /\ \A u \in users : Email[u] = Email[l] => Password[u] # Password[l]
          /\ Go(l, "new", "denied")
          /\ UNCHANGED errors
       \/ Go(l, "new", "failed") /\ Fails
    /\ Record("login_failed", l)
    /\ UNCHANGED <<tables, clock, user, crashes>>

\* Mutant: the error of the insertion is ignored.
LoginOpenUnchecked(l) ==
    LET row == [user |-> user[l], expires |-> clock + TTL] IN
    /\ Go(l, "verified", "opened")
    /\ \/ sessions' = [sessions EXCEPT ![l] = row] /\ UNCHANGED errors
       \/ Fails /\ UNCHANGED sessions
    /\ UNCHANGED <<users, audit, clock, user, crashes>>

\* A new token, whose session is inserted.
LoginOpen(l) ==
    LET row == [user |-> user[l], expires |-> clock + TTL] IN
    /\ \/ /\ Go(l, "verified", "opened")
          /\ sessions' = [sessions EXCEPT ![l] = row]
          /\ UNCHANGED errors
       \/ /\ Go(l, "verified", "failed") /\ Fails
          /\ sessions' \in {sessions, [sessions EXCEPT ![l] = row]}
    /\ UNCHANGED <<users, audit, clock, user, crashes>>

LoginAnswer(l) ==
    /\ Go(l, "opened", "ok")
    /\ Record("login_success", l)
    /\ UNCHANGED <<tables, clock, user, errors, crashes>>

-----------------------------------------------------------------------------
(* Authenticate, which every call with a token begins with, and Logout.    *)

Expired(l) == sessions[l].expires < clock

\* Mutant: the session's user is not kept.
FindSessionAnonymous(r) ==
    LET l == Token[r] IN
    /\ pc[l] = "ok"
    /\ sessions[l] # NoSession /\ ~Expired(l)
    /\ Go(r, "new", "session")
    /\ UNCHANGED <<tables, audit, clock, user, errors, crashes>>

\* GetByToken.  Only a token that its login was answered with is known.
FindSession(r) ==
    LET l == Token[r] IN
    /\ pc[l] = "ok"
    /\ sessions[l] # NoSession /\ ~Expired(l)
    /\ Go(r, "new", "session")
    /\ user' = [user EXCEPT ![r] = sessions[l].user]
    /\ UNCHANGED <<tables, audit, clock, errors, crashes>>

\* An expired session is deleted, whether or not the deletion succeeds.
NoValidSession(r) ==
    LET l == Token[r] IN
    /\ pc[l] = "ok"
    /\ \/ /\ sessions[l] = NoSession
          /\ Go(r, "new", "denied")
          /\ UNCHANGED <<sessions, errors>>
       \/ /\ sessions[l] # NoSession /\ Expired(l)
          /\ Go(r, "new", "denied")
          /\ \/ sessions' = [sessions EXCEPT ![l] = NoSession] /\ UNCHANGED errors
             \/ Fails /\ UNCHANGED sessions
       \/ Go(r, "new", "failed") /\ Fails /\ UNCHANGED sessions
    /\ UNCHANGED <<users, audit, clock, user, crashes>>

\* GetByID: a call is let in as its session's user, or goes on to log out.
FindUser(r) ==
    /\ \/ /\ user[r] \in users
          /\ Go(r, "session", IF r \in Logouts THEN "owner" ELSE "ok")
          /\ UNCHANGED errors
       \/ user[r] \notin users /\ Go(r, "session", "denied") /\ UNCHANGED errors
       \/ Go(r, "session", "failed") /\ Fails
    /\ UNCHANGED <<tables, audit, clock, user, crashes>>

\* Mutant: the error of the deletion is ignored.
LogoutCloseUnchecked(r) ==
    /\ Go(r, "owner", "closed")
    /\ \/ sessions' = [sessions EXCEPT ![Token[r]] = NoSession] /\ UNCHANGED errors
       \/ Fails /\ UNCHANGED sessions
    /\ UNCHANGED <<users, audit, clock, user, crashes>>

\* DeleteByToken.
LogoutClose(r) ==
    LET closed == [sessions EXCEPT ![Token[r]] = NoSession] IN
    /\ \/ Go(r, "owner", "closed") /\ sessions' = closed /\ UNCHANGED errors
       \/ Go(r, "owner", "failed") /\ Fails /\ sessions' \in {sessions, closed}
    /\ UNCHANGED <<users, audit, clock, user, crashes>>

LogoutAnswer(r) ==
    /\ Go(r, "closed", "ok")
    /\ Record("logout", r)
    /\ UNCHANGED <<tables, clock, user, errors, crashes>>

Tick ==
    /\ clock < MaxTime
    /\ clock' = clock + 1
    /\ UNCHANGED <<tables, audit, pc, user, errors, crashes>>

\* core-go-rpc dies; MySQL keeps its tables.
Crash ==
    /\ crashes < MaxCrashes
    /\ crashes' = crashes + 1
    /\ pc' = [r \in Requests |-> IF pc[r] \in Steps THEN "lost" ELSE pc[r]]
    /\ UNCHANGED <<tables, audit, clock, user, errors>>

Next ==
    \/ \E r \in Requests : Refuse(r)
    \/ \E r \in Registers : RegisterInsert(r) \/ RegisterAnswer(r)
    \/ \E l \in Logins : LoginVerify(l) \/ LoginReject(l) \/ LoginOpen(l)
                         \/ LoginAnswer(l)
    \/ \E r \in Logouts \cup Uses : FindSession(r) \/ NoValidSession(r) \/ FindUser(r)
    \/ \E r \in Logouts : LogoutClose(r) \/ LogoutAnswer(r)
    \/ Tick \/ Crash

Spec == Init /\ [][Next]_vars

-----------------------------------------------------------------------------
(* Properties.                                                             *)

\* Of all the registrations of one e-mail address, however they overlap, at
\* most one is ever acknowledged, none after the address was taken by one
\* whose answer was lost, and an acknowledged one stays.
OneUserPerEmail ==
    /\ \A u, v \in users : Email[u] = Email[v] => u = v
    /\ \A r \in Registers : pc[r] \in {"inserted", "ok"} => r \in users

\* Whoever is let in with a token, or logs it out, is the user whose address
\* and password the token was asked with.
AdmittedAsOneself ==
    \A r \in Logouts \cup Uses : pc[r] = "ok" =>
        /\ user[r] \in users
        /\ Email[user[r]] = Email[Token[r]]
        /\ Password[user[r]] = Password[Token[r]]

\* A call that arrives after a logout of its token was acknowledged, or after
\* the token's session was seen to be gone or expired, is not let in, whatever
\* failed or crashed since.
RevokedStaysRevoked ==
    [][\A r \in Logouts \cup Uses : Go(r, "new", "session") =>
          \A q \in Logouts \cup Uses :
              Token[q] = Token[r] =>
                  pc[q] # "denied" /\ (q \in Logouts => pc[q] # "ok")]_vars

\* The audit trail tells the truth: a registration in it has its user, a login
\* has had its session and a logout has ended one for good.
AuditIsTrue ==
    /\ \A r \in Registers : <<"register", r>> \in audit => r \in users
    /\ \A l \in Logins : <<"login_success", l>> \in audit =>
           \/ sessions[l] # NoSession /\ sessions[l].user = user[l]
           \/ \E r \in Logouts \cup Uses : Token[r] = l /\ pc[r] # "new"
    /\ \A r \in Logouts : <<"logout", r>> \in audit => sessions[Token[r]] = NoSession

=============================================================================
