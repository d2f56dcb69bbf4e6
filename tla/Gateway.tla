------------------------------- MODULE Gateway -------------------------------
(***************************************************************************)
(* The HTTP gateway (api-go) as a function: which call of core-go-rpc a    *)
(* request becomes, or how it is turned away, and which status the call's  *)
(* answer becomes.  The core's side is what its handlers can answer and    *)
(* how much they have changed by then.                                     *)
(*                                                                         *)
(* A path is the segments after /api, with "ID" for any identifier.  An    *)
(* Authorization header is its words, a body is how it decodes, an         *)
(* uploaded file is its name and its size in MiB.                          *)
(***************************************************************************)
EXTENDS Integers, Sequences

CONSTANTS
    MaxUploadSize,    \* 10, of the gateway and of the core
    MaxMessageSize    \* 4, of gRPC: nothing of that size fits in a message,
                      \* and neither side asks for another limit

ASSUME GatewayAssumption ==
    MaxUploadSize \in Nat /\ MaxMessageSize \in 1..MaxUploadSize

-----------------------------------------------------------------------------
(* Routes.                                                                 *)

\* json: the body must decode into the operation's fields.
RouteTo(path, method, op, json, ok) ==
    [path |-> path, method |-> method, op |-> op, json |-> json, ok |-> ok]

AuthRoutes == {
    RouteTo(<<"auth", "register">>, "POST", "Register", TRUE, 201),
    RouteTo(<<"auth", "login">>, "POST", "Login", TRUE, 200),
    RouteTo(<<"auth", "logout">>, "POST", "Logout", FALSE, 200),
    RouteTo(<<"auth", "me">>, "GET", "Me", FALSE, 200)}

ConfigRoutes == {
    RouteTo(<<"health">>, "GET", "Health", FALSE, 200),
    RouteTo(<<"config", "health">>, "GET", "Health", FALSE, 200),
    RouteTo(<<"config">>, "GET", "GetConfig", FALSE, 200),
    RouteTo(<<"config">>, "PUT", "SetConfig", TRUE, 200)}

DocumentRoutes == {
    RouteTo(<<"documents">>, "GET", "ListDocuments", FALSE, 200),
    RouteTo(<<"documents", "upload">>, "POST", "UploadDocument", FALSE, 201),
    RouteTo(<<"documents", "ID">>, "GET", "GetDocument", FALSE, 200),
    RouteTo(<<"documents", "ID">>, "DELETE", "DeleteDocument", FALSE, 200),
    RouteTo(<<"documents", "ID", "download">>, "GET", "DownloadDocument", FALSE, 200)}

ThreadRoutes == {
    RouteTo(<<"threads">>, "GET", "ListThreads", FALSE, 200),
    RouteTo(<<"threads">>, "POST", "CreateThread", FALSE, 201),
    RouteTo(<<"threads", "ID", "turns">>, "GET", "ListTurns", FALSE, 200),
    RouteTo(<<"threads", "ID", "turns">>, "POST", "CreateTurn", TRUE, 201),
    RouteTo(<<"threads", "ID", "turns", "stream">>, "POST", "CreateTurnStream", TRUE, 200),
    RouteTo(<<"threads", "ID", "turns", "ID", "stream">>, "GET", "GetTurn", FALSE, 200)}

ApiRoutes == AuthRoutes \cup ConfigRoutes \cup DocumentRoutes \cup ThreadRoutes

\* Everything else goes to the handler of "/", which describes the API.
Catalogue(path) ==
    /\ \A route \in ApiRoutes : route.path # path
    /\ path = << >> \/ Head(path) \notin {"documents", "threads"}

\* Wrapped in WithAuth.
Protected(path) ==
    \/ path # << >> /\ Head(path) \in {"documents", "threads"}
    \/ path \in {<<"auth", "logout">>, <<"auth", "me">>, <<"config">>}

\* The scheme in any case, and everything after it.
BearerToken(auth) ==
    IF Len(auth) < 2 \/ auth[1] \notin {"Bearer", "bearer"} THEN << >> ELSE Tail(auth)

\* handleDocumentRoutes strips the slash behind a document, and takes
\* "upload/" for one, whose route has no slash.
Stripped(path) ==
    CASE Len(path) = 3 /\ path[1] = "documents" /\ path[3] = "" -> <<"documents", "ID">>
      [] path = <<"documents", "ID", "download", "">> -> <<"documents", "ID", "download">>
      [] OTHER -> path

\* Handlers that switch on the method answer 405, those that look at the path
\* and the method together 404, as for a path of theirs that is none.
UnroutedStatus(path) ==
    IF path = <<"documents", "">> THEN 400
    ELSE IF \E route \in ApiRoutes : Len(route.path) < 3 /\ route.path = Stripped(path)
         THEN 405 ELSE 404

-----------------------------------------------------------------------------
(* Bodies.                                                                 *)

\* One object of known fields, whatever follows it.
Decodes(body) == body \in {"object", "object and more"}

Supported == {".txt", ".md", ".markdown", ".pdf"}

\* A name is what precedes its last dot, empty or not, and what follows it.
GatewayExt(name) ==
    IF name.dot /\ name.last = "." THEN "."
    ELSE IF ~name.dot \/ ~name.stem THEN "" ELSE name.last

CoreExt(name) == IF name.dot THEN name.last ELSE ""

\* Mutant: the type is left to the core.
UploadPassesAnyName(file) ==
    file.part /\ file.size <= MaxUploadSize

\* ParseMultipartForm, FormFile, validateUploadHeader and the size.
UploadPasses(file) ==
    /\ file.part
    /\ GatewayExt(file.name) \in Supported
    /\ file.size <= MaxUploadSize

\* The core's own validation.
ValidateUpload(file) ==
    /\ CoreExt(file.name) \in Supported
    /\ file.size \in 1..MaxUploadSize

-----------------------------------------------------------------------------
(* From the request to the call.                                           *)

NoOp == [op |-> "none", token |-> << >>, ok |-> 0]
Refusal(status) == [status |-> status, call |-> NoOp]
Forward(route, token) ==
    [status |-> 0, call |-> [op |-> route.op, token |-> token, ok |-> route.ok]]

Dispatch(request) ==
    LET token == IF Protected(request.path) THEN BearerToken(request.auth) ELSE << >>
        routes == {route \in ApiRoutes :
                       route.path = Stripped(request.path) /\ route.method = request.method}
    IN CASE request.method = "OPTIONS" -> Refusal(204)
         [] request.method # "OPTIONS" /\ Catalogue(request.path) -> Refusal(200)
         [] request.method # "OPTIONS" /\ ~Catalogue(request.path) ->
              IF Protected(request.path) /\ token = << >> THEN Refusal(401)
              ELSE IF routes = {} THEN Refusal(UnroutedStatus(request.path))
              ELSE LET route == CHOOSE r \in routes : TRUE
                   IN IF \/ route.json /\ ~Decodes(request.body)
                         \/ route.op = "UploadDocument" /\ ~UploadPasses(request.file)
                      THEN Refusal(400)
                      ELSE Forward(route, token)

-----------------------------------------------------------------------------
(* What the core's handlers do, step after step.  Audit entries, which are  *)
(* best effort, the repair of a document that a question makes in passing  *)
(* and the removal of an expired session are not counted.                  *)

\* A step returns an error of `refuses` with nothing done, and one of `fails`
\* although what it changes may have been changed.
HandlerStep(refuses, fails) == [refuses |-> refuses, fails |-> fails]

\* The session behind a token, or the user behind an address and a password.
Authenticated == HandlerStep({"unknown caller", "database fails"}, {})
InputChecked == HandlerStep({"bad input"}, {})
Owned == HandlerStep({"not found", "not the owner"}, {})
UserWritten == HandlerStep({"taken"}, {"database fails"})
SessionWritten == HandlerStep({}, {"database fails"})
FileWritten == HandlerStep({}, {"storage fails"})
FileRead == HandlerStep({"storage fails"}, {})
TextExtracted == HandlerStep({"no text", "model fails", "model not configured"}, {})
VectorsWritten == HandlerStep({}, {"not indexed"})
VectorsRemoved == HandlerStep({}, {"vectors left"})
Answered == HandlerStep({"model fails", "model not configured"}, {})
Saved == HandlerStep({}, {"unsaved"})
ProviderSaved == HandlerStep({"bad input"}, {"unsaved"})

\* The file, the record, the text, the vectors and the record again.
UploadSteps ==
    <<Authenticated, InputChecked, FileWritten, Saved, TextExtracted, VectorsWritten, Saved>>

\* The file, the vectors, whose failure is only logged, and the record.
DeleteSteps ==
    <<InputChecked, Authenticated, Owned, FileWritten, VectorsRemoved, Saved>>

\* A turn is stored when its answer is complete.
TurnSteps == <<Authenticated, Owned, InputChecked, Answered, Saved>>

Steps(op) ==
    CASE op = "Health" -> << >>
      [] op = "Register" -> <<InputChecked, UserWritten>>
      [] op \in {"Login", "Logout"} -> <<Authenticated, SessionWritten>>
      [] op = "SetConfig" -> <<Authenticated, ProviderSaved>>
      [] op = "CreateThread" -> <<Authenticated, Saved>>
      [] op = "UploadDocument" -> UploadSteps
      [] op = "DeleteDocument" -> DeleteSteps
      [] op = "DownloadDocument" -> <<Authenticated, Owned, FileRead>>
      [] op \in {"CreateTurn", "CreateTurnStream"} -> TurnSteps
      [] op \in {"GetDocument", "ListTurns", "GetTurn"} -> <<Authenticated, Owned>>
      [] OTHER -> <<Authenticated>>

Errors(step) == step.refuses \cup step.fails

\* The steps that change something.
Writing(op) == {i \in DOMAIN Steps(op) : Steps(op)[i].fails # {}}

-----------------------------------------------------------------------------
(* How a call ends.                                                        *)

\* The caller does not learn how far the handler came.
Cut == {"unreachable", "too late"}

\* The handler goes on after this one, and answers OK.
Tolerated == {"vectors left"}

\* Their replies hold a whole history.
WithoutBound == {"ListThreads", "ListTurns"}

\* The ways a call of op may end.
Endings(op) ==
    {"done", "unreachable"}
    \cup (IF op = "CreateTurnStream" THEN {} ELSE {"too late"})
    \cup (IF op \in WithoutBound THEN {"too large"} ELSE {})
    \cup UNION {Errors(Steps(op)[i]) : i \in DOMAIN Steps(op)}

\* The query of a deletion says confirm=true, in any case, or confirm=1.
Confirmed(request) == request.confirm \in {"true", "TRUE", "1"}

\* A message that is too large is turned away by whoever receives it, before
\* any handler sees it; a deletion that is not confirmed and a file that is not
\* valid are turned away by the core's handlers.
EndingsOf(request) ==
    LET op == Dispatch(request).call.op
    IN CASE op = "DeleteDocument" /\ ~Confirmed(request) -> Cut \cup {"bad input"}
         [] op = "UploadDocument" /\ request.file.size >= MaxMessageSize ->
              Cut \cup {"too large"}
         [] op = "UploadDocument" /\ request.file.size < MaxMessageSize
            /\ ~ValidateUpload(request.file) ->
              Cut \cup {"bad input"} \cup Errors(Authenticated)
         [] \/ op = "DeleteDocument" /\ Confirmed(request)
            \/ op = "UploadDocument" /\ request.file.size < MaxMessageSize
               /\ ValidateUpload(request.file) ->
              Endings(op) \ {"bad input"}
         [] OTHER -> Endings(op)

\* The code of each ending.  SetConfig calls every error of SetProvider an
\* invalid argument, the failed save too.
CodeOf(op, ending) ==
    CASE ending \in {"done"} \cup Tolerated -> "OK"
      [] ending = "unreachable" -> "Unavailable"
      [] ending = "too late" -> "DeadlineExceeded"
      [] ending = "too large" -> "ResourceExhausted"
      [] ending = "unknown caller" -> "Unauthenticated"
      [] ending = "taken" -> "AlreadyExists"
      [] ending \in {"bad input", "no text"} -> "InvalidArgument"
      [] ending = "unsaved" ->
            IF op = "SetConfig" THEN "InvalidArgument" ELSE "Internal"
      [] ending = "not found" -> "NotFound"
      [] ending = "not the owner" -> "PermissionDenied"
      [] ending = "model fails" -> "Unavailable"
      [] ending = "model not configured" -> "FailedPrecondition"
      [] OTHER -> "Internal"

\* The steps at which a call that ended so may have ended, one past the last
\* when the handler came to its end.
EndedAt(op, ending) ==
    CASE ending \in {"done"} \cup Tolerated -> {Len(Steps(op)) + 1}
      [] ending \in Cut -> 1..(Len(Steps(op)) + 1)
      [] OTHER -> {i \in DOMAIN Steps(op) : ending \in Errors(Steps(op)[i])}

\* What was changed when the call ended so: nothing, all that the handler
\* changes, or perhaps some of it and perhaps not.
Effect(op, ending) ==
    LET inDoubt(j) == ending \in Cut \cup Steps(op)[j].fails
        perhaps == {j \in Writing(op) : \E i \in EndedAt(op, ending) :
                                            j < i \/ (j = i /\ inDoubt(j))}
        surely == {j \in Writing(op) : /\ ~inDoubt(j)
                                       /\ \A i \in EndedAt(op, ending) : j < i}
    IN CASE perhaps = {} -> "nothing"
         [] perhaps # {} /\ surely = Writing(op) -> "all"
         [] OTHER -> "some"

\* Mutant: a call that ran out of time is taken for a bad request.
HTTPStatusLate(code) ==
    CASE code \in {"InvalidArgument", "DeadlineExceeded"} -> 400
      [] code = "Unauthenticated" -> 401
      [] code = "PermissionDenied" -> 403
      [] code = "NotFound" -> 404
      [] code = "AlreadyExists" -> 409
      [] code = "FailedPrecondition" -> 412
      [] code = "Unavailable" -> 503
      [] OTHER -> 500

\* writeGRPCError.
HTTPStatus(code) ==
    CASE code = "InvalidArgument" -> 400
      [] code = "Unauthenticated" -> 401
      [] code = "PermissionDenied" -> 403
      [] code = "NotFound" -> 404
      [] code = "AlreadyExists" -> 409
      [] code = "FailedPrecondition" -> 412
      [] code = "DeadlineExceeded" -> 504
      [] code = "Unavailable" -> 503
      [] OTHER -> 500

\* The status of the response.  A stream has sent its 200 before the core's
\* first item or error arrives; the error follows as an event.
Response(request, ending) ==
    LET dispatch == Dispatch(request)
        op == dispatch.call.op
        code == CodeOf(op, ending)
    IN CASE op = "none" -> dispatch.status
         [] op # "none" /\ code = "OK" -> dispatch.call.ok
         [] op = "CreateTurnStream" /\ ending \notin {"done", "unreachable"} -> 200
         [] OTHER -> HTTPStatus(code)

=============================================================================
