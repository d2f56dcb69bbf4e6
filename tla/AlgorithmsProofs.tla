--------------------------- MODULE AlgorithmsProofs ---------------------------
(***************************************************************************)
(* Theorems about the functions of Retrieval and Gateway, for every input  *)
(* and not only for those that a run of MCAlgorithms tries: any library,   *)
(* any request, any answer of the model or of the core.  `call` is the     *)
(* call whose result is looked at.                                         *)
(***************************************************************************)
EXTENDS ChunkProofs

-----------------------------------------------------------------------------
(* Scopes.                                                                 *)

\* A request and a library over any ids and names, and any types and tags.
MessagesOver(Ref, Word) == [tag : Word, refs : SUBSET Ref, body : BOOLEAN]
RequestsOver(Ref, Word) ==
    [type : Word, docIDs : SUBSET Ref, message : MessagesOver(Ref, Word)]
DocumentsOver(Ref) == [id : Ref, name : Ref]

\* Ids identify documents, and no document is named like an id asked for.
Identified(owned, docIDs) ==
    /\ \A c, d \in owned : c.id = d.id => c = d
    /\ \A d \in owned : d.name \notin docIDs

\* Every call of Route that a request and a user's documents can give rise to.
RouteCall(Ref, Word) ==
    call.what = "route" =>
        /\ call.request \in RequestsOver(Ref, Word)
        /\ call.owned \subseteq DocumentsOver(Ref)
        /\ Identified(call.owned, call.request.docIDs)

\* What ResolveScope makes of a request of a valid type.
LEMMA ScopeCases ==
    ASSUME NEW request, NEW owned, ValidScopeType(request.type)
    PROVE  LET scope == ResolveScope(request.message, ExplicitType(request.type),
                                     request.docIDs, owned)
               docIDs == IF request.type = "doc" THEN request.docIDs
                         ELSE {d.id : d \in Referenced(request.message.refs, owned)}
           IN IF request.message.tag = "none" /\ ~request.message.body THEN scope = Refused
              ELSE IF Restricted(request)
              THEN IF docIDs = {} THEN scope = Refused
                                  ELSE scope = [type |-> "doc", docIDs |-> docIDs]
              ELSE scope.type = "all"
<1>1. request.type \in {"", "auto", "all", "doc"}
  BY DEF ValidScopeType
<1>2. CASE request.type = "all"
  BY <1>2 DEF ResolveScope, ExplicitType, Restricted
<1>3. CASE request.type = "doc"
  BY <1>3 DEF ResolveScope, ExplicitType, Restricted, ScopeOf
<1>4. CASE request.type \in {"", "auto"}
  <2>1. ExplicitType(request.type) = "" /\ request.type # "doc"
    BY <1>4 DEF ExplicitType
  <2> QED BY <1>4, <2>1 DEF ResolveScope, Restricted, ScopeOf
<1> QED BY <1>1, <1>2, <1>3, <1>4

\* The documents a restricted scope selects are those the request names.
LEMMA NamedSelected ==
    ASSUME NEW request, NEW owned, Identified(owned, request.docIDs),
           ValidScopeType(request.type), Restricted(request)
    PROVE  LET docIDs == IF request.type = "doc" THEN request.docIDs
                         ELSE {d.id : d \in Referenced(request.message.refs, owned)}
           IN \A d \in owned : d.id \in docIDs <=> {d.id, d.name} \cap Names(request) # {}
<1>1. CASE request.type = "doc"
  BY <1>1 DEF Names, Identified
<1>2. CASE request.type # "doc"
  <2>1. Names(request) = request.message.refs
    BY <1>2 DEF Names, Restricted
  <2>2. ASSUME NEW d \in owned
        PROVE  d.id \in {c.id : c \in Referenced(request.message.refs, owned)}
                   <=> {d.id, d.name} \cap request.message.refs # {}
    BY DEF Referenced, Identified
  <2> QED BY <1>2, <2>1, <2>2
<1> QED BY <1>1, <1>2

\* A request that names documents is answered from those of them that the user
\* owns, always with retrieval, or refused; any other sees all the user owns.
THEOREM ScopeHolds ==
    ASSUME NEW Ref, NEW Word, RouteCall(Ref, Word)
    PROVE  ScopeHonoured
<1> SUFFICES ASSUME call.what = "route" PROVE ScopeHonoured
  BY DEF ScopeHonoured
<1> DEFINE request == call.request
           owned == call.owned
           scope == ResolveScope(request.message, ExplicitType(request.type),
                                 request.docIDs, owned)
           named == {doc \in owned : {doc.id, doc.name} \cap Names(request) # {}}
           route == Route(request, owned, call.keywords, call.answer)
           docIDs == IF request.type = "doc" THEN request.docIDs
                     ELSE {d.id : d \in Referenced(request.message.refs, owned)}
<1>1. /\ request \in RequestsOver(Ref, Word) /\ owned \in SUBSET DocumentsOver(Ref)
      /\ Identified(owned, request.docIDs)
  BY DEF RouteCall
<1>2. /\ route.refused = (\/ ~ValidScopeType(request.type) \/ scope = Refused
                          \/ scope.type = "doc" /\ SelectedDocs(scope, owned) = {})
      /\ route.selected = IF route.refused THEN {} ELSE SelectedDocs(scope, owned)
      /\ route.decision = DecideRetrieval(scope, RetrievalMode(request.type),
                              SelectedDocs(scope, owned), call.keywords, call.answer)
  BY DEF Route
<1> HIDE DEF route
<1>3. CASE ~Restricted(request)
  <2>1. ASSUME ~route.refused PROVE route.selected = owned
    <3>1. scope # Refused /\ ValidScopeType(request.type)
      BY <1>2, <2>1
    <3>2. scope.type = "all"
      BY <1>1, <1>3, <3>1, ScopeCases
    <3> QED BY <1>2, <2>1, <3>2 DEF SelectedDocs
  <2>2. route.refused => route.selected = {}
    BY <1>2
  <2>3. route.selected = IF route.refused THEN {} ELSE owned
    BY <2>1, <2>2
  <2> QED BY <1>3, <2>3 DEF ScopeHonoured, route
<1>4. CASE Restricted(request)
  <2>0. ValidScopeType(request.type)
    BY <1>4 DEF Restricted, ValidScopeType
  <2>1. {d \in owned : d.id \in docIDs} = named
    <3>1. \A d \in owned : d.id \in docIDs <=> {d.id, d.name} \cap Names(request) # {}
      BY <1>1, <1>4, <2>0, NamedSelected
    <3> HIDE DEF docIDs, owned, request
    <3> QED BY <3>1
  <2>2. CASE request.message.tag = "none" /\ ~request.message.body
    <3>1. route.refused
      BY <1>1, <1>2, <2>0, <2>2, ScopeCases
    <3>2. request.message = [tag |-> "none", refs |-> request.message.refs, body |-> FALSE]
      <4>1. request.message \in MessagesOver(Ref, Word)
        BY <1>1 DEF RequestsOver
      <4> QED BY <2>2, <4>1 DEF MessagesOver
    <3> QED BY <1>4, <3>1, <3>2 DEF ScopeHonoured, route
  <2>3. CASE ~(request.message.tag = "none" /\ ~request.message.body) /\ docIDs = {}
    <3>1. route.refused
      BY <1>1, <1>2, <1>4, <2>0, <2>3, ScopeCases
    <3>2. named = {}
      BY <2>1, <2>3
    <3> QED BY <1>4, <3>1, <3>2 DEF ScopeHonoured, route
  <2>4. CASE ~(request.message.tag = "none" /\ ~request.message.body) /\ docIDs # {}
    <3>1. scope = [type |-> "doc", docIDs |-> docIDs]
      BY <1>1, <1>4, <2>0, <2>4, ScopeCases
    <3> HIDE DEF docIDs
    <3>2. SelectedDocs(scope, owned) = named /\ scope.type = "doc" /\ scope # Refused
      BY <2>1, <3>1 DEF SelectedDocs, Refused
    <3>3. route.refused = (named = {})
      BY <1>2, <2>0, <3>2
    <3>4. named # {} => route.decision.use
      BY <1>2, <3>2 DEF DecideRetrieval, Decision
    <3> HIDE DEF named
    <3>5. IF named = {} THEN route.refused
          ELSE ~route.refused /\ route.selected = named /\ route.decision.use
      BY <1>2, <3>2, <3>3, <3>4
    <3> QED BY <1>4, <3>5 DEF ScopeHonoured, route, named
  <2> QED BY <2>2, <2>3, <2>4
<1> QED BY <1>3, <1>4

-----------------------------------------------------------------------------
(* The decision to retrieve.                                               *)

\* Any question and any answer of the model.
DecisionCall(Ref, Word) ==
    call.what = "route" =>
        /\ call.request \in RequestsOver(Ref, Word)
        /\ call.owned \subseteq DocumentsOver(Ref)
        /\ call.keywords \in Keywords
        /\ call.answer \in [answered : BOOLEAN, json : BOOLEAN, use : BOOLEAN, tool : BOOLEAN,
                            query : BOOLEAN, says : SUBSET Word]

\* The model is taken to say no only if its answer has a reason for it.
LEMMA ModelDenies ==
    ASSUME NEW answer, ParseDecision(answer) = "skip"
    PROVE  \/ answer.json /\ ~answer.use /\ ~answer.tool
           \/ ~answer.json /\ "skip" \in answer.says
           \/ answer.says = {"no"}
BY DEF ParseDecision

\* A question without keywords is put to the model, unless its request says
\* what to do.
PutToModel(scope, mode, keywords, answer) ==
    scope.type # "doc" /\ mode = "auto" /\ keywords = {} /\ answer.answered

\* A question about nothing, and small talk, are not searched for.
SkipsAtOnce(scope, mode, selected, keywords) ==
    \/ selected = {}
    \/ scope.type # "doc" /\ mode = "auto" /\ "small talk" \in keywords

\* A decision to skip comes at once or from the model, and the words searched
\* for are the model's only if it was asked.
LEMMA DecisionCases ==
    ASSUME NEW scope, NEW mode \in {"auto", "force"}, NEW selected, NEW keywords \in Keywords,
           NEW answer, answer.answered \in BOOLEAN,
           NEW decision, decision = DecideRetrieval(scope, mode, selected, keywords, answer)
    PROVE  /\ ~decision.use =>
                 \/ SkipsAtOnce(scope, mode, selected, keywords)
                 \/ PutToModel(scope, mode, keywords, answer) /\ ParseDecision(answer) = "skip"
           /\ decision.query = "model" => PutToModel(scope, mode, keywords, answer)
<1> USE DEF PutToModel, SkipsAtOnce
<1> DEFINE m == IF scope.type = "doc" THEN "force" ELSE mode
           parsed == IF answer.answered THEN ParseDecision(answer) ELSE "undecided"
           query == IF answer.json /\ answer.query THEN "model" ELSE "question"
<1>1. CASE selected = {}
  <2>1. decision.query = "question"
    BY <1>1 DEF DecideRetrieval, Decision
  <2> QED BY <1>1, <2>1
<1>2. CASE selected # {} /\ m = "force"
  <2>1. decision.query = "question" /\ decision.use
    BY <1>2 DEF DecideRetrieval, Decision
  <2> QED BY <2>1
<1>3. CASE selected # {} /\ m = "auto" /\ Rules(keywords) # "undecided"
  <2>1. decision.query = "question" /\ decision.use = (Rules(keywords) = "use")
    BY <1>3 DEF DecideRetrieval, Decision
  <2>2. Rules(keywords) # "use" => "small talk" \in keywords
    BY <1>3 DEF Rules
  <2> QED BY <1>3, <2>1, <2>2
<1>4. CASE selected # {} /\ m = "auto" /\ Rules(keywords) = "undecided"
  <2>1. keywords = {}
    BY <1>4 DEF Rules, Keywords
  <2>2. decision = IF parsed = "undecided" THEN Decision(m, TRUE, "question")
                                           ELSE Decision(m, parsed = "use", query)
    BY <1>4 DEF DecideRetrieval
  <2>3. parsed \in {"use", "skip", "undecided"}
    BY DEF ParseDecision
  <2>5. parsed # "undecided" => answer.answered /\ parsed = ParseDecision(answer)
    BY DEF parsed
  <2> HIDE DEF parsed, query, m
  <2>4. CASE parsed = "undecided"
    BY <2>2, <2>4 DEF Decision
  <2>6. CASE parsed # "undecided"
    <3>1. decision = Decision(m, parsed = "use", query)
      BY <2>2, <2>6
    <3>2. decision.use = (parsed = "use")
      BY <3>1 DEF Decision
    <3>3. ~decision.use => parsed = "skip"
      BY <2>3, <2>6, <3>2
    <3> QED BY <1>4, <2>1, <2>5, <2>6, <3>3 DEF m
  <2> QED BY <2>4, <2>6
<1> QED BY <1>1, <1>2, <1>3, <1>4

\* Retrieval is skipped only for want of documents, for small talk, or on the
\* model's word about a question without keywords; the search is for the model's
\* words only if it was asked.
THEOREM SkippedHolds ==
    ASSUME NEW Ref, NEW Word, DecisionCall(Ref, Word)
    PROVE  SkippedWithReason
<1> SUFFICES ASSUME call.what = "route" PROVE SkippedWithReason
  BY DEF SkippedWithReason
<1> DEFINE request == call.request
           owned == call.owned
           answer == call.answer
           keywords == call.keywords
           scope == ResolveScope(request.message, ExplicitType(request.type),
                                 request.docIDs, owned)
           mode == RetrievalMode(request.type)
           selected == SelectedDocs(scope, owned)
           decision == DecideRetrieval(scope, mode, selected, keywords, answer)
           route == Route(request, owned, keywords, answer)
           asked == /\ request.type \in {"", "auto"} /\ ~Restricted(request)
                    /\ keywords = {} /\ answer.answered
           denied == \/ answer.json /\ ~answer.use /\ ~answer.tool
                     \/ ~answer.json /\ "skip" \in answer.says
                     \/ answer.says = {"no"}
<1>1. /\ request \in RequestsOver(Ref, Word) /\ owned \in SUBSET DocumentsOver(Ref)
      /\ keywords \in Keywords /\ answer.answered \in BOOLEAN
  BY DEF DecisionCall
<1>2. /\ route.refused = (\/ ~ValidScopeType(request.type) \/ scope = Refused
                          \/ scope.type = "doc" /\ selected = {})
      /\ route.selected = IF route.refused THEN {} ELSE selected
      /\ route.decision = decision
  BY DEF Route
<1> HIDE DEF route
<1> SUFFICES ASSUME ~route.refused
             PROVE  /\ ~route.decision.use =>
                          \/ route.selected = {}
                          \/ request.type \in {"", "auto"} /\ "small talk" \in keywords
                          \/ asked /\ denied
                    /\ route.decision.query = "model" => asked
  BY DEF SkippedWithReason, route
<1>3. ValidScopeType(request.type) /\ scope # Refused /\ route.selected = selected
  BY <1>2
<1>4. mode \in {"auto", "force"} /\ (mode = "auto" => request.type \in {"", "auto"})
  BY <1>3 DEF RetrievalMode, ValidScopeType
<1>5. Restricted(request) => scope.type = "doc"
  <2> DEFINE docIDs == IF request.type = "doc" THEN request.docIDs
                       ELSE {d.id : d \in Referenced(request.message.refs, owned)}
  <2>1. Restricted(request) => scope = Refused \/ scope = [type |-> "doc", docIDs |-> docIDs]
    BY <1>1, <1>3, ScopeCases
  <2> HIDE DEF docIDs
  <2> QED BY <1>3, <2>1
<1> HIDE DEF scope, selected, mode, decision
<1>6. decision = DecideRetrieval(scope, mode, selected, keywords, answer)
  BY DEF decision
<1>7. keywords \in Keywords
  BY <1>1
<1>8. answer.answered \in BOOLEAN
  BY <1>1
<1>9. mode \in {"auto", "force"}
  BY <1>4
<1> HIDE DEF keywords, answer, request, owned, asked, denied
<1>10. /\ ~decision.use =>
              \/ SkipsAtOnce(scope, mode, selected, keywords)
              \/ PutToModel(scope, mode, keywords, answer) /\ ParseDecision(answer) = "skip"
       /\ decision.query = "model" => PutToModel(scope, mode, keywords, answer)
  BY <1>6, <1>7, <1>8, <1>9, DecisionCases
<1>11. ParseDecision(answer) = "skip" => denied
  BY ModelDenies DEF denied
<1> QED
  BY <1>2, <1>3, <1>4, <1>5, <1>10, <1>11
  DEF PutToModel, SkipsAtOnce, keywords, answer, request, owned, asked, denied

-----------------------------------------------------------------------------
(* The gateway.                                                            *)

\* Any request, its header of any words and its file of any size, with any way
\* its call may end.
GatewayCall(Word) ==
    call.what = "gateway" =>
        /\ call.request.auth \in Seq(Word)
        /\ call.request.file.size \in Nat
        /\ call.ending \in IF Dispatch(call.request).call = NoOp THEN {"none"}
                           ELSE EndingsOf(call.request)

\* The endings that are the sender's fault, by themselves or by their code.
SenderEndings == {"unknown caller", "taken", "bad input", "not found", "not the owner",
                  "no text", "model not configured"}
ServiceEndings == {"database fails", "unsaved", "storage fails", "not indexed", "model fails"}

\* A step before the first change, the step that makes it, and one after it, which
\* ends in no other way than the service's failures and those of `late`.
Early(step) == step.fails = {} /\ step.refuses \subseteq SenderEndings \cup ServiceEndings
FirstWriter(step) == step.refuses \subseteq SenderEndings /\ step.fails \subseteq ServiceEndings
Late(step, late) == /\ Errors(step) \subseteq late \cup ServiceEndings
                    /\ step.fails \cap SenderEndings = {}

\* A handler that looks for the sender's faults before its first change.
Orderly(steps, first, late) ==
    /\ Len(steps) \in Nat /\ DOMAIN steps = 1..Len(steps)
    /\ \A i \in DOMAIN steps : /\ i < first => Early(steps[i])
                               /\ i = first => FirstWriter(steps[i])
                               /\ i > first => Late(steps[i], late)

\* An upload finds out late that a file has no text or cannot be read, and a
\* deletion goes on without the vectors.
LateOf(op) ==
    CASE op = "UploadDocument" -> {"no text", "model not configured"}
      [] op = "DeleteDocument" -> Tolerated
      [] OTHER -> {}

Reading == {"Health", "Me", "GetConfig", "ListDocuments", "GetDocument", "DownloadDocument",
            "ListThreads", "ListTurns", "GetTurn"}

\* The steps of the handlers, each of its kind.
LEMMA KindsOfSteps ==
    /\ \A step \in {Authenticated, InputChecked, Owned, FileRead, Answered} : Early(step)
    /\ \A step \in {UserWritten, ProviderSaved, SessionWritten, FileWritten, Saved} :
           FirstWriter(step)
    /\ \A step \in {TextExtracted, VectorsWritten, Saved} :
          Late(step, {"no text", "model not configured"})
    /\ \A step \in {VectorsRemoved, Saved} : Late(step, Tolerated)
<1>1. Early(Authenticated) /\ Early(InputChecked) /\ Early(Owned)
  BY DEF Early, HandlerStep, Authenticated, InputChecked, Owned, SenderEndings, ServiceEndings
<1>2. Early(FileRead) /\ Early(Answered)
  BY DEF Early, HandlerStep, FileRead, Answered, SenderEndings, ServiceEndings
<1>3. FirstWriter(UserWritten) /\ FirstWriter(ProviderSaved) /\ FirstWriter(SessionWritten)
  BY DEF FirstWriter, HandlerStep, UserWritten, ProviderSaved, SessionWritten, SenderEndings,
         ServiceEndings
<1>4. FirstWriter(FileWritten) /\ FirstWriter(Saved)
  BY DEF FirstWriter, HandlerStep, FileWritten, Saved, SenderEndings, ServiceEndings
<1>5. /\ Late(TextExtracted, {"no text", "model not configured"})
      /\ Late(VectorsWritten, {"no text", "model not configured"})
      /\ Late(Saved, {"no text", "model not configured"})
  BY DEF Late, Errors, HandlerStep, TextExtracted, VectorsWritten, Saved, ServiceEndings,
         SenderEndings
<1>6. Late(VectorsRemoved, Tolerated) /\ Late(Saved, Tolerated)
  BY DEF Late, Errors, HandlerStep, VectorsRemoved, Saved, ServiceEndings, SenderEndings,
         Tolerated
<1> QED BY <1>1, <1>2, <1>3, <1>4, <1>5, <1>6

\* Handlers of up to three steps.
LEMMA ShortHandlers ==
    ASSUME NEW a, NEW b, NEW c, NEW late
    PROVE  /\ Orderly(<< >>, 1, late)
           /\ Early(a) => Orderly(<<a>>, 2, late)
           /\ Early(a) /\ Early(b) => Orderly(<<a, b>>, 3, late)
           /\ Early(a) /\ Early(b) /\ Early(c) => Orderly(<<a, b, c>>, 4, late)
           /\ Early(a) /\ FirstWriter(b) => Orderly(<<a, b>>, 2, late)
<1>1. Orderly(<< >>, 1, late)
  BY DEF Orderly
<1>2. Early(a) => Orderly(<<a>>, 2, late)
  BY DEF Orderly
<1>3. Early(a) /\ Early(b) => Orderly(<<a, b>>, 3, late)
  BY DEF Orderly
<1>4. Early(a) /\ Early(b) /\ Early(c) => Orderly(<<a, b, c>>, 4, late)
  BY DEF Orderly
<1>5. Early(a) /\ FirstWriter(b) => Orderly(<<a, b>>, 2, late)
  BY DEF Orderly
<1> QED BY <1>1, <1>2, <1>3, <1>4, <1>5

LEMMA UploadInOrder == Orderly(UploadSteps, 3, {"no text", "model not configured"})
<1>1. /\ Len(UploadSteps) = 7 /\ DOMAIN UploadSteps = 1..7
      /\ UploadSteps[1] = Authenticated /\ UploadSteps[2] = InputChecked
      /\ UploadSteps[3] = FileWritten /\ UploadSteps[4] = Saved
      /\ UploadSteps[5] = TextExtracted /\ UploadSteps[6] = VectorsWritten
      /\ UploadSteps[7] = Saved
  BY DEF UploadSteps
<1>2. ASSUME NEW i \in 1..7
      PROVE  /\ i < 3 => UploadSteps[i] \in {Authenticated, InputChecked}
             /\ i = 3 => UploadSteps[i] = FileWritten
             /\ i > 3 => UploadSteps[i] \in {TextExtracted, VectorsWritten, Saved}
  BY <1>1
<1>3. ASSUME NEW i \in 1..7
      PROVE  /\ i < 3 => Early(UploadSteps[i])
             /\ i = 3 => FirstWriter(UploadSteps[i])
             /\ i > 3 => Late(UploadSteps[i], {"no text", "model not configured"})
  BY <1>2, KindsOfSteps, Zenon
<1>4. Len(UploadSteps) \in Nat /\ DOMAIN UploadSteps = 1..7
      /\ DOMAIN UploadSteps = 1..Len(UploadSteps)
  BY <1>1
<1> QED BY <1>3, <1>4, Zenon DEF Orderly

LEMMA DeleteInOrder == Orderly(DeleteSteps, 4, Tolerated)
<1>1. /\ Len(DeleteSteps) = 6 /\ DOMAIN DeleteSteps = 1..6
      /\ DeleteSteps[1] = InputChecked /\ DeleteSteps[2] = Authenticated
      /\ DeleteSteps[3] = Owned /\ DeleteSteps[4] = FileWritten
      /\ DeleteSteps[5] = VectorsRemoved /\ DeleteSteps[6] = Saved
  BY DEF DeleteSteps
<1>2. ASSUME NEW i \in 1..6
      PROVE  /\ i < 4 => DeleteSteps[i] \in {InputChecked, Authenticated, Owned}
             /\ i = 4 => DeleteSteps[i] = FileWritten
             /\ i > 4 => DeleteSteps[i] \in {VectorsRemoved, Saved}
  BY <1>1
<1>3. ASSUME NEW i \in 1..6
      PROVE  /\ i < 4 => Early(DeleteSteps[i])
             /\ i = 4 => FirstWriter(DeleteSteps[i])
             /\ i > 4 => Late(DeleteSteps[i], Tolerated)
  BY <1>2, KindsOfSteps, Zenon
<1>4. Len(DeleteSteps) \in Nat /\ DOMAIN DeleteSteps = 1..6
      /\ DOMAIN DeleteSteps = 1..Len(DeleteSteps)
  BY <1>1
<1> QED BY <1>3, <1>4, Zenon DEF Orderly

LEMMA TurnInOrder == Orderly(TurnSteps, 5, {})
<1>1. /\ Len(TurnSteps) = 5 /\ DOMAIN TurnSteps = 1..5
      /\ TurnSteps[1] = Authenticated /\ TurnSteps[2] = Owned
      /\ TurnSteps[3] = InputChecked /\ TurnSteps[4] = Answered /\ TurnSteps[5] = Saved
  BY DEF TurnSteps
<1>2. ASSUME NEW i \in 1..5
      PROVE  /\ i < 5 => TurnSteps[i] \in {Authenticated, Owned, InputChecked, Answered}
             /\ i = 5 => TurnSteps[i] = Saved
             /\ ~(i > 5)
  BY <1>1
<1>3. ASSUME NEW i \in 1..5
      PROVE  /\ i < 5 => Early(TurnSteps[i])
             /\ i = 5 => FirstWriter(TurnSteps[i])
             /\ i > 5 => Late(TurnSteps[i], {})
  BY <1>2, KindsOfSteps, Zenon
<1>4. Len(TurnSteps) \in Nat /\ DOMAIN TurnSteps = 1..5
      /\ DOMAIN TurnSteps = 1..Len(TurnSteps)
  BY <1>1
<1> QED BY <1>3, <1>4, Zenon DEF Orderly

\* Every handler is orderly, and one that reads never comes to a change.
LEMMA HandlersInOrder ==
    ASSUME NEW op
    PROVE  \E first \in Nat : /\ Orderly(Steps(op), first, LateOf(op))
                              /\ op \in Reading => first > Len(Steps(op))
<1>1. /\ Orderly(<< >>, 1, {})
      /\ Orderly(<<Authenticated>>, 2, {})
      /\ Orderly(<<Authenticated, Owned>>, 3, {})
      /\ Orderly(<<Authenticated, Owned, FileRead>>, 4, {})
  BY KindsOfSteps, ShortHandlers
<1>2. /\ Orderly(<<InputChecked, UserWritten>>, 2, {})
      /\ Orderly(<<Authenticated, SessionWritten>>, 2, {})
      /\ Orderly(<<Authenticated, ProviderSaved>>, 2, {})
      /\ Orderly(<<Authenticated, Saved>>, 2, {})
  BY KindsOfSteps, ShortHandlers
<1>3. /\ 1 > Len(<< >>) /\ 2 > Len(<<Authenticated>>)
      /\ 3 > Len(<<Authenticated, Owned>>) /\ 4 > Len(<<Authenticated, Owned, FileRead>>)
  OBVIOUS
<1>4. CASE op = "UploadDocument"
  <2>1. Steps(op) = UploadSteps /\ LateOf(op) = {"no text", "model not configured"}
        /\ op \notin Reading
    BY <1>4 DEF Steps, LateOf, Reading
  <2> QED BY <2>1, UploadInOrder
<1>5. CASE op = "DeleteDocument"
  <2>1. Steps(op) = DeleteSteps /\ LateOf(op) = Tolerated /\ op \notin Reading
    BY <1>5 DEF Steps, LateOf, Reading
  <2> QED BY <2>1, DeleteInOrder
<1>6. CASE op \in {"CreateTurn", "CreateTurnStream"}
  <2>1. Steps(op) = TurnSteps /\ LateOf(op) = {} /\ op \notin Reading
    BY <1>6 DEF Steps, LateOf, Reading
  <2> QED BY <2>1, TurnInOrder
<1>7. CASE op \in {"Register", "Login", "Logout", "SetConfig", "CreateThread"}
  <2>1. /\ Steps(op) \in {<<InputChecked, UserWritten>>, <<Authenticated, SessionWritten>>,
                          <<Authenticated, ProviderSaved>>, <<Authenticated, Saved>>}
        /\ LateOf(op) = {} /\ op \notin Reading
    BY <1>7 DEF Steps, LateOf, Reading
  <2>2. Orderly(Steps(op), 2, {})
    BY <1>2, <2>1
  <2> QED BY <2>1, <2>2
<1>8. CASE op \notin {"UploadDocument", "DeleteDocument", "CreateTurn", "CreateTurnStream",
                      "Register", "Login", "Logout", "SetConfig", "CreateThread"}
  <2>1. /\ Steps(op) \in {<< >>, <<Authenticated>>, <<Authenticated, Owned>>,
                          <<Authenticated, Owned, FileRead>>}
        /\ LateOf(op) = {}
    BY <1>8 DEF Steps, LateOf
  <2>2. \E first \in {1, 2, 3, 4} : Orderly(Steps(op), first, {}) /\ first > Len(Steps(op))
    BY <1>1, <1>3, <2>1
  <2> QED BY <2>1, <2>2
<1> QED BY <1>4, <1>5, <1>6, <1>7, <1>8

\* The errors of an orderly handler.
LEMMA ErrorsKnown ==
    ASSUME NEW steps, NEW first, NEW late, Orderly(steps, first, late), NEW i \in DOMAIN steps,
           first \in Nat
    PROVE  Errors(steps[i]) \subseteq SenderEndings \cup ServiceEndings \cup late
<1>1. i < first \/ i = first \/ i > first
  BY DEF Orderly
<1> DEFINE step == steps[i]
<1>2. Early(step) \/ FirstWriter(step) \/ Late(step, late)
  BY <1>1 DEF Orderly
<1> HIDE DEF step
<1>3. Errors(step) \subseteq SenderEndings \cup ServiceEndings \cup late
  BY <1>2 DEF Early, FirstWriter, Late, Errors
<1> QED BY <1>3 DEF step

\* The sender's faults are found before anything is changed, but for late ones.
LEMMA FaultsFoundFirst ==
    ASSUME NEW steps, NEW first \in Nat, NEW late, Orderly(steps, first, late),
           NEW ending \in SenderEndings \ late,
           NEW i \in DOMAIN steps, ending \in Errors(steps[i])
    PROVE  \A j \in DOMAIN steps : /\ j < i => steps[j].fails = {}
                                   /\ j = i => ending \notin steps[j].fails
<1>1. SenderEndings \cap ServiceEndings = {}
  BY DEF SenderEndings, ServiceEndings
<1>2. ~Late(steps[i], late)
  BY <1>1 DEF Late
<1>3. i <= first /\ DOMAIN steps \subseteq Nat
  BY <1>2 DEF Orderly
<1>4. \A j \in DOMAIN steps : j < i => steps[j].fails = {}
  BY <1>3 DEF Orderly, Early
<1>5. ending \notin steps[i].fails
  BY <1>1, <1>3 DEF Orderly, Early, FirstWriter
<1> QED BY <1>4, <1>5

\* So a fault of the sender leaves everything as it was.
LEMMA FaultsChangeNothing ==
    ASSUME NEW op, NEW ending \in SenderEndings \ LateOf(op)
    PROVE  Effect(op, ending) = "nothing"
<1>1. PICK first \in Nat : Orderly(Steps(op), first, LateOf(op))
  BY HandlersInOrder
<1>2. ending \notin Cut /\ ending \notin {"done"} \cup Tolerated
  BY DEF SenderEndings, Cut, Tolerated
<1>3. EndedAt(op, ending) = {i \in DOMAIN Steps(op) : ending \in Errors(Steps(op)[i])}
  BY <1>2 DEF EndedAt
<1>4. ASSUME NEW j \in Writing(op), NEW i \in EndedAt(op, ending)
      PROVE  ~(j < i) /\ ~(j = i /\ ending \in Cut \cup Steps(op)[j].fails)
  BY <1>1, <1>2, <1>3, <1>4, FaultsFoundFirst DEF Writing
<1>5. {j \in Writing(op) : \E i \in EndedAt(op, ending) :
          j < i \/ (j = i /\ ending \in Cut \cup Steps(op)[j].fails)} = {}
  BY <1>4
<1> QED BY <1>5 DEF Effect

\* A handler that comes to its end has made all its changes.
LEMMA DoneChangesAll ==
    ASSUME NEW op
    PROVE  Effect(op, "done") = IF Writing(op) = {} THEN "nothing" ELSE "all"
<1>1. PICK first \in Nat : Orderly(Steps(op), first, LateOf(op))
  BY HandlersInOrder
<1> DEFINE n == Len(Steps(op))
<1>2. n \in Nat /\ Writing(op) \subseteq 1..n /\ DOMAIN Steps(op) = 1..n
  BY <1>1 DEF Orderly, Writing
<1>3. EndedAt(op, "done") = {n + 1}
  <2>1. "done" \in {"done"} \cup Tolerated /\ "done" \notin Cut
    BY DEF Cut
  <2> QED BY <2>1 DEF EndedAt
<1>4. ASSUME NEW j \in Writing(op)
      PROVE  "done" \notin Cut \cup Steps(op)[j].fails
  <2>1. j \in DOMAIN Steps(op)
    BY DEF Writing
  <2>2. Errors(Steps(op)[j]) \subseteq SenderEndings \cup ServiceEndings \cup LateOf(op)
    BY <1>1, <2>1, ErrorsKnown
  <2>3. "done" \notin SenderEndings \cup ServiceEndings \cup LateOf(op) \cup Cut
    BY DEF SenderEndings, ServiceEndings, LateOf, Tolerated, Cut
  <2> QED BY <2>2, <2>3 DEF Errors
<1> HIDE DEF n
<1>5. \A j \in Writing(op) : j < n + 1
  BY <1>2
<1> DEFINE inDoubt(j) == "done" \in Cut \cup Steps(op)[j].fails
           perhaps == {j \in Writing(op) : \E i \in EndedAt(op, "done") :
                                               j < i \/ (j = i /\ inDoubt(j))}
           surely == {j \in Writing(op) : /\ ~inDoubt(j)
                                          /\ \A i \in EndedAt(op, "done") : j < i}
<1>6. perhaps = Writing(op)
  BY <1>3, <1>5
<1>7. surely = Writing(op)
  BY <1>3, <1>4, <1>5
<1>8. Effect(op, "done") = CASE perhaps = {} -> "nothing"
                             [] perhaps # {} /\ surely = Writing(op) -> "all"
                             [] OTHER -> "some"
  BY DEF Effect
<1> HIDE DEF perhaps, surely
<1> QED BY <1>6, <1>7, <1>8

\* What reads changes nothing, however it ends.
LEMMA ReadingChangesNothing ==
    ASSUME NEW op \in Reading, NEW ending
    PROVE  Effect(op, ending) = "nothing"
<1>1. PICK first \in Nat : Orderly(Steps(op), first, LateOf(op)) /\ first > Len(Steps(op))
  BY HandlersInOrder
<1>2. \A i \in DOMAIN Steps(op) : i < first
  BY <1>1 DEF Orderly
<1>3. Writing(op) = {}
  BY <1>1, <1>2 DEF Orderly, Early, Writing
<1> QED BY <1>3 DEF Effect

\* The endings of a call.
LEMMA EndingsKnown ==
    ASSUME NEW request, NEW op, op = Dispatch(request).call.op,
           NEW ending \in EndingsOf(request)
    PROVE  ending \in {"done", "too large"} \cup Cut \cup SenderEndings \cup ServiceEndings
                      \cup LateOf(op)
<1> DEFINE known == {"done", "too large"} \cup Cut \cup SenderEndings \cup ServiceEndings
                    \cup LateOf(op)
<1>1. \A i \in DOMAIN Steps(op) : Errors(Steps(op)[i]) \subseteq known
  <2>1. PICK first \in Nat : Orderly(Steps(op), first, LateOf(op))
    BY HandlersInOrder
  <2> QED BY <2>1, ErrorsKnown
<1>2. Errors(Authenticated) \subseteq known
  BY DEF Errors, HandlerStep, Authenticated, SenderEndings, ServiceEndings
<1>3. "bad input" \in known
  BY DEF SenderEndings
<1>4. {"done", "unreachable", "too late", "too large"} \cup Cut \subseteq known
  BY DEF Cut
<1> HIDE DEF known
<1>5. Endings(op) \subseteq known
  BY <1>1, <1>4 DEF Endings
<1>6. EndingsOf(request) \subseteq known
  BY <1>2, <1>3, <1>4, <1>5 DEF EndingsOf
<1> QED BY <1>6 DEF known

\* Every route has an operation and a status of success, and what is read with
\* GET only reads.
LEMMA RoutesSound ==
    \A route \in ApiRoutes : /\ route.op # "none" /\ route.ok \in {200, 201}
                             /\ route.method = "GET" => route.op \in Reading
<1> DEFINE Sound(route) == /\ route.op # "none" /\ route.ok \in {200, 201}
                           /\ route.method = "GET" => route.op \in Reading
<1>1. \A route \in AuthRoutes : Sound(route)
  BY DEF AuthRoutes, RouteTo, Reading
<1>2. \A route \in ConfigRoutes : Sound(route)
  BY DEF ConfigRoutes, RouteTo, Reading
<1>3. \A route \in DocumentRoutes : Sound(route)
  BY DEF DocumentRoutes, RouteTo, Reading
<1>4. \A route \in ThreadRoutes : Sound(route)
  BY DEF ThreadRoutes, RouteTo, Reading
<1> HIDE DEF Sound
<1>5. \A route \in ApiRoutes : Sound(route)
  BY <1>1, <1>2, <1>3, <1>4 DEF ApiRoutes
<1> QED BY <1>5 DEF Sound

\* A request that becomes a call has a route, a token where one is needed, and
\* a file that the gateway lets pass where one is sent.
LEMMA Dispatched ==
    ASSUME NEW request, Dispatch(request).call # NoOp
    PROVE  LET made == Dispatch(request).call
               token == IF Protected(request.path) THEN BearerToken(request.auth) ELSE << >>
           IN /\ \E route \in ApiRoutes : /\ made.op = route.op /\ made.ok = route.ok
                                          /\ route.method = request.method
              /\ made.token = token
              /\ Protected(request.path) => token # << >>
              /\ made.op = "UploadDocument" => UploadPasses(request.file)
<1> DEFINE made == Dispatch(request).call
           token == IF Protected(request.path) THEN BearerToken(request.auth) ELSE << >>
           routes == {r \in ApiRoutes : r.path = Stripped(request.path)
                                   /\ r.method = request.method}
           route == CHOOSE r \in routes : TRUE
           turnedAway == \/ route.json /\ ~Decodes(request.body)
                         \/ route.op = "UploadDocument" /\ ~UploadPasses(request.file)
<1>1. /\ request.method # "OPTIONS" /\ ~Catalogue(request.path)
      /\ ~(Protected(request.path) /\ token = << >>) /\ routes # {} /\ ~turnedAway
      /\ Dispatch(request) = Forward(route, token)
  <2>1. request.method # "OPTIONS" /\ ~Catalogue(request.path)
    BY DEF Dispatch, Refusal
  <2>2. Dispatch(request) =
          IF Protected(request.path) /\ token = << >> THEN Refusal(401)
          ELSE IF routes = {} THEN Refusal(UnroutedStatus(request.path))
          ELSE IF turnedAway THEN Refusal(400) ELSE Forward(route, token)
    BY <2>1 DEF Dispatch
  <2> HIDE DEF token, routes, turnedAway, route
  <2>3. \A status : Refusal(status).call = NoOp
    BY DEF Refusal
  <2> QED BY <2>1, <2>2, <2>3
<1>2. route \in routes
  BY <1>1
<1> HIDE DEF route, token, turnedAway
<1>3. made = [op |-> route.op, token |-> token, ok |-> route.ok]
  BY <1>1 DEF Forward
<1> HIDE DEF made
<1>4. route.op = "UploadDocument" => UploadPasses(request.file)
  BY <1>1 DEF turnedAway
<1> QED BY <1>1, <1>2, <1>3, <1>4 DEF made, token

\* A bearer token is what follows the scheme of the header it came in.
LEMMA TokenOfHeader ==
    ASSUME NEW Word, NEW auth \in Seq(Word), BearerToken(auth) # << >>
    PROVE  auth \in {<<scheme>> \o BearerToken(auth) : scheme \in {"Bearer", "bearer"}}
<1>1. Len(auth) >= 2 /\ auth[1] \in {"Bearer", "bearer"} /\ BearerToken(auth) = Tail(auth)
  BY DEF BearerToken
<1>2. auth # << >>
  BY <1>1
<1>3. auth = <<auth[1]>> \o Tail(auth)
  BY <1>1
<1> QED BY <1>1, <1>3

\* What reaches the core comes with the token of the header it was sent with and
\* changes nothing if it came as a GET; of the files that reach it, it can take
\* those that are not empty and fit in a message.
THEOREM CallsHold ==
    ASSUME NEW Word, GatewayCall(Word)
    PROVE  CallsAreSound
<1> SUFFICES ASSUME call.what = "gateway", Dispatch(call.request).call # NoOp
             PROVE  CallsAreSound
  BY DEF CallsAreSound
<1> DEFINE request == call.request
           made == Dispatch(request).call
           token == IF Protected(request.path) THEN BearerToken(request.auth) ELSE << >>
<1>1. /\ request.auth \in Seq(Word) /\ request.file.size \in Nat
      /\ call.ending \in EndingsOf(request)
  BY DEF GatewayCall
<1>2. /\ \E route \in ApiRoutes : made.op = route.op /\ route.method = request.method
      /\ made.token = token
      /\ Protected(request.path) => token # << >>
      /\ made.op = "UploadDocument" => UploadPasses(request.file)
  BY Dispatched
<1>3. Protected(request.path) =>
          /\ made.token # << >>
          /\ request.auth \in {<<scheme>> \o made.token : scheme \in {"Bearer", "bearer"}}
  <2> HIDE DEF made, request
  <2> QED BY <1>1, <1>2, TokenOfHeader
<1>4. Effect(made.op, call.ending) = "nothing" \/ request.method # "GET"
  <2>1. request.method = "GET" => made.op \in Reading
    BY <1>2, RoutesSound
  <2> QED BY <2>1, ReadingChangesNothing
<1>5. made.op = "UploadDocument" =>
          ("done" \in EndingsOf(request) <=> request.file.size \in 1..(MaxMessageSize - 1))
  <2> SUFFICES ASSUME made.op = "UploadDocument"
               PROVE  "done" \in EndingsOf(request)
                          <=> request.file.size \in 1..(MaxMessageSize - 1)
    OBVIOUS
  <2>1. UploadPasses(request.file)
    BY <1>2
  <2>2. GatewayExt(request.file.name) \in Supported => CoreExt(request.file.name) \in Supported
    BY DEF GatewayExt, CoreExt, Supported
  <2>3. ValidateUpload(request.file) <=> request.file.size # 0
    BY <1>1, <2>1, <2>2, GatewayAssumption DEF UploadPasses, ValidateUpload
  <2>4. EndingsOf(request) =
           IF request.file.size >= MaxMessageSize THEN Cut \cup {"too large"}
           ELSE IF ~ValidateUpload(request.file)
           THEN Cut \cup {"bad input"} \cup Errors(Authenticated)
           ELSE Endings(made.op) \ {"bad input"}
    <3> DEFINE tooLarge == request.file.size >= MaxMessageSize
               fits == request.file.size < MaxMessageSize
               valid == ValidateUpload(request.file)
    <3>1. fits <=> ~tooLarge
      BY <1>1, GatewayAssumption
    <3>2. EndingsOf(request) =
             CASE tooLarge -> Cut \cup {"too large"}
               [] fits /\ ~valid -> Cut \cup {"bad input"} \cup Errors(Authenticated)
               [] fits /\ valid -> Endings(made.op) \ {"bad input"}
               [] OTHER -> Endings(made.op)
      BY DEF EndingsOf
    <3> HIDE DEF tooLarge, fits, valid
    <3>3. CASE tooLarge
      BY <3>1, <3>2, <3>3 DEF tooLarge
    <3>4. CASE ~tooLarge /\ ~valid
      BY <3>1, <3>2, <3>4 DEF tooLarge, valid
    <3>5. CASE ~tooLarge /\ valid
      BY <3>1, <3>2, <3>5 DEF tooLarge, valid
    <3> QED BY <3>3, <3>4, <3>5
  <2>5. /\ "done" \notin Cut \cup {"too large"}
        /\ "done" \notin Cut \cup {"bad input"} \cup Errors(Authenticated)
    BY DEF Cut, Errors, HandlerStep, Authenticated
  <2>6. "done" \in Endings(made.op) \ {"bad input"}
    BY DEF Endings
  <2>7. "done" \in EndingsOf(request)
           <=> ~(request.file.size >= MaxMessageSize) /\ ValidateUpload(request.file)
    BY <2>4, <2>5, <2>6, Zenon
  <2> HIDE DEF request
  <2> QED BY <1>1, <2>3, <2>7, GatewayAssumption
<1> HIDE DEF made, request
<1>6. \/ Protected(request.path) =>
            /\ made.token # << >>
            /\ request.auth \in {<<scheme>> \o made.token : scheme \in {"Bearer", "bearer"}}
  BY <1>3
<1> QED BY <1>4, <1>5, <1>6 DEF CallsAreSound, made, request

SenderCodes == {"InvalidArgument", "Unauthenticated", "PermissionDenied", "NotFound",
                "AlreadyExists", "FailedPrecondition"}
ServiceCodes == {"Unavailable", "DeadlineExceeded", "ResourceExhausted", "Internal"}

\* Which endings have a code that blames the sender.
LEMMA CodesOfEndings ==
    ASSUME NEW op, NEW ending, ending \notin {"done"} \cup Tolerated
    PROVE  /\ CodeOf(op, ending) \in SenderCodes \cup ServiceCodes
           /\ ending \in SenderEndings => CodeOf(op, ending) \in SenderCodes
           /\ CodeOf(op, ending) \in SenderCodes =>
                  ending \in SenderEndings \/ (ending = "unsaved" /\ op = "SetConfig")
BY DEF CodeOf, SenderCodes, ServiceCodes, SenderEndings, Tolerated

\* Success means that every change was made, but for a deletion that left its
\* vectors; the sender is blamed only for what changed nothing, but for the three
\* calls of Blamed, and the service never for what the sender did.
THEOREM AnswersHold ==
    ASSUME NEW Word, GatewayCall(Word)
    PROVE  AnswersTellOutcome
<1> DEFINE request == call.request
           made == Dispatch(request).call
           op == made.op
           ending == call.ending
           status == Response(request, ending)
           blamable == {"bad input", "not found", "not the owner", "taken",
                        "unknown caller", "no text"}
<1> SUFFICES ASSUME call.what = "gateway", op \notin {"none", "CreateTurnStream"}
             PROVE  /\ ending = "done" => status \in 200..299
                    /\ status \in 200..299 /\ <<op, ending>> \notin Unnoticed =>
                          /\ ending = "done"
                          /\ Effect(op, ending) =
                                IF Writing(op) = {} THEN "nothing" ELSE "all"
                    /\ status \in 400..499 /\ <<op, ending>> \notin Blamed =>
                          Effect(op, ending) = "nothing"
                    /\ status \in 500..599 => ending \notin blamable
  BY DEF AnswersTellOutcome
<1>1. made # NoOp
  BY DEF NoOp
<1>2. ending \in EndingsOf(request)
  BY <1>1 DEF GatewayCall
<1>3. made.ok \in {200, 201}
  <2>1. \E route \in ApiRoutes : made.ok = route.ok
    BY <1>1, Dispatched
  <2> QED BY <2>1, RoutesSound
<1>4. ending \in {"done", "too large"} \cup Cut \cup SenderEndings \cup ServiceEndings
                 \cup LateOf(op)
  <2> HIDE DEF ending, made
  <2>1. op = Dispatch(request).call.op
    BY DEF made
  <2> HIDE DEF request, op
  <2> QED BY <1>2, <2>1, EndingsKnown
<1>5. status = IF CodeOf(op, ending) = "OK" THEN made.ok ELSE HTTPStatus(CodeOf(op, ending))
  BY DEF Response
<1> HIDE DEF status, ending, made, request, op
<1>6. ending \in {"done"} \cup Tolerated => CodeOf(op, ending) = "OK"
  BY DEF CodeOf, Tolerated
<1>7. CASE ending = "done"
  <2>1. status \in 200..299 /\ status \notin 400..499 /\ status \notin 500..599
    BY <1>3, <1>5, <1>6, <1>7
  <2>2. Effect(op, ending) = IF Writing(op) = {} THEN "nothing" ELSE "all"
    BY <1>7, DoneChangesAll
  <2> QED BY <1>7, <2>1, <2>2
<1>8. CASE ending \in Tolerated
  <2>1. status \in 200..299 /\ status \notin 400..499 /\ status \notin 500..599
    BY <1>3, <1>5, <1>6, <1>8
  <2>2. op = "DeleteDocument"
    BY <1>4, <1>8 DEF Tolerated, LateOf, SenderEndings, ServiceEndings, Cut
  <2>3. <<op, ending>> \in Unnoticed /\ ending # "done"
    BY <1>8, <2>2 DEF Unnoticed, Tolerated
  <2> QED BY <2>1, <2>3
<1>9. CASE ending \notin {"done"} \cup Tolerated
  <2> DEFINE code == CodeOf(op, ending)
  <2>1. /\ code \in SenderCodes \cup ServiceCodes
        /\ ending \in SenderEndings => code \in SenderCodes
        /\ code \in SenderCodes =>
              ending \in SenderEndings \/ (ending = "unsaved" /\ op = "SetConfig")
    BY <1>9, CodesOfEndings
  <2>2. ending \in SenderEndings \ LateOf(op) => Effect(op, ending) = "nothing"
    BY FaultsChangeNothing
  <2>3. ending \in SenderEndings \cap LateOf(op) => <<op, ending>> \in Blamed
    BY DEF SenderEndings, LateOf, Tolerated, Blamed
  <2>4. ending = "unsaved" /\ op = "SetConfig" => <<op, ending>> \in Blamed
    BY DEF Blamed
  <2>5. code \in SenderCodes /\ <<op, ending>> \notin Blamed => Effect(op, ending) = "nothing"
    BY <2>1, <2>2, <2>3, <2>4
  <2>6. status = HTTPStatus(code)
    BY <1>5, <2>1 DEF SenderCodes, ServiceCodes
  <2> HIDE DEF code
  <2>7. /\ code = "InvalidArgument" => status = 400
        /\ code = "Unauthenticated" => status = 401
        /\ code = "PermissionDenied" => status = 403
        /\ code = "NotFound" => status = 404
        /\ code = "AlreadyExists" => status = 409
        /\ code = "FailedPrecondition" => status = 412
    BY <2>6 DEF HTTPStatus
  <2>8. /\ code = "Unavailable" => status = 503
        /\ code = "DeadlineExceeded" => status = 504
        /\ code \in {"ResourceExhausted", "Internal"} => status = 500
    BY <2>6 DEF HTTPStatus
  <2>9. CASE code \in SenderCodes
    <3>1. status \in 400..499
      BY <2>7, <2>9 DEF SenderCodes
    <3>2. status \notin 200..299 /\ status \notin 500..599
      BY <3>1
    <3> QED BY <1>9, <2>5, <2>9, <3>2
  <2>10. CASE code \in ServiceCodes
    <3>1. status \in 500..599
      BY <2>8, <2>10 DEF ServiceCodes
    <3>2. status \notin 200..299 /\ status \notin 400..499
      BY <3>1
    <3>3. code \notin SenderCodes
      BY <2>10 DEF SenderCodes, ServiceCodes
    <3>4. ending \notin blamable
      BY <2>1, <3>3 DEF SenderEndings
    <3> QED BY <1>9, <3>2, <3>4
  <2> QED BY <2>1, <2>9, <2>10
<1> QED BY <1>7, <1>8, <1>9

-----------------------------------------------------------------------------
(* The search.                                                             *)

\* Chunks of documents with any numbers, however they match the question.
ChunksOver(Token) ==
    [doc : Int, index : Int, tokens : SUBSET Token, phrase : BOOLEAN, short : BOOLEAN]

\* Every call of RetrieveChunks: a document and an index identify a stored
\* chunk, and the answer of the vector index may be anything.
RetrieveCall(Token) ==
    call.what = "retrieve" =>
        /\ call.chunks \subseteq ChunksOver(Token) /\ IsFiniteSet(call.chunks)
        /\ \A c, d \in call.chunks : c.doc = d.doc /\ c.index = d.index => c = d
        /\ call.hits \in Seq(ChunksOver(Token))
        /\ call.topK \in Nat

\* The score of a chunk is a number.
LEMMA ScoreType ==
    ASSUME NEW question, IsFiniteSet(question), NEW chunk, chunk.phrase \in BOOLEAN,
           chunk.short \in BOOLEAN
    PROVE  ScoreChunk(question, chunk) \in Int
<1>1. question \cap chunk.tokens \in SUBSET question
  OBVIOUS
<1>2. Cardinality(question \cap chunk.tokens) \in Nat
  BY <1>1, FS_Subset, FS_CardinalityType
<1> QED BY <1>2 DEF ScoreChunk

\* The order of RetrieveTopChunks leaves no ties.
LEMMA BestFirst ==
    ASSUME NEW question, IsFiniteSet(question), NEW Token, NEW S, S \subseteq ChunksOver(Token),
           \A c, d \in S : c.doc = d.doc /\ c.index = d.index => c = d
    PROVE  TotalOrder(S, [c \in S |-> {d \in S : Before(question, d, c)}])
<1> DEFINE score == [c \in S |-> ScoreChunk(question, c)]
           before == [c \in S |-> {d \in S : Before(question, d, c)}]
           First(c, d) == \/ score[c] > score[d]
                          \/ score[c] = score[d] /\ c.doc < d.doc
                          \/ score[c] = score[d] /\ c.doc = d.doc /\ c.index < d.index
<1>1. \A c \in S : score[c] \in Int /\ c.doc \in Int /\ c.index \in Int
  <2> SUFFICES ASSUME NEW c \in S
               PROVE  score[c] \in Int /\ c.doc \in Int /\ c.index \in Int
    OBVIOUS
  <2>1. c \in ChunksOver(Token)
    OBVIOUS
  <2>2. c.doc \in Int /\ c.index \in Int /\ c.phrase \in BOOLEAN /\ c.short \in BOOLEAN
    BY <2>1 DEF ChunksOver
  <2>3. ScoreChunk(question, c) \in Int
    BY <2>2, ScoreType
  <2> QED BY <2>2, <2>3
<1>2. \A c, d \in S : c \in before[d] <=> First(c, d)
  BY DEF Before
<1>3. before \in [S -> SUBSET S]
  OBVIOUS
<1> HIDE DEF before, score
<1>4. \A c \in S : c \notin before[c]
  BY <1>1, <1>2
<1>5. \A c, d \in S : d \in before[c] => before[d] \subseteq before[c]
  <2> SUFFICES ASSUME NEW c \in S, NEW d \in S, d \in before[c], NEW e \in before[d]
               PROVE  e \in before[c]
    OBVIOUS
  <2>1. e \in S
    BY <1>3
  <2>2. First(d, c) /\ First(e, d)
    BY <1>2, <2>1
  <2>3. First(e, c)
    BY <1>1, <2>1, <2>2
  <2> QED BY <1>2, <2>1, <2>3
<1>6. \A c, d \in S : c # d => c \in before[d] \/ d \in before[c]
  <2> SUFFICES ASSUME NEW c \in S, NEW d \in S, c # d
               PROVE  c \in before[d] \/ d \in before[c]
    OBVIOUS
  <2>1. c.doc # d.doc \/ c.index # d.index
    OBVIOUS
  <2>2. First(c, d) \/ First(d, c)
    BY <1>1, <2>1
  <2> QED BY <1>2, <2>2
<1>7. TotalOrder(S, before)
  BY <1>3, <1>4, <1>5, <1>6 DEF TotalOrder
<1> QED BY <1>7 DEF before

\* The first k of a list; without repetition if the list is.
LEMMA FirstOfList ==
    ASSUME NEW S, NEW f \in Seq(S), NEW k \in Nat
    PROVE  /\ FirstOf(f, k) \in Seq(S)
           /\ Len(FirstOf(f, k)) = Min({k, Len(f)})
           /\ \A i \in 1..Min({k, Len(f)}) : FirstOf(f, k)[i] = f[i]
           /\ (\A i, j \in 1..Len(f) : i < j => f[i] # f[j]) =>
                  Cardinality({FirstOf(f, k)[i] : i \in DOMAIN FirstOf(f, k)})
                      = Min({k, Len(f)})
<1> DEFINE n == Len(f)
           m == Min({k, n})
           g == SubSeq(f, 1, m)
<1>1. n \in Nat /\ \A i \in 1..n : f[i] \in S
  OBVIOUS
<1>2. FirstOf(f, k) = g
  BY DEF FirstOf
<1>3. m \in Nat /\ m <= n
  BY <1>1, MinOfTwo
<1> HIDE DEF n, m
<1>4. \A i \in 1..m : f[i] \in S
  BY <1>1, <1>3
<1>5. g \in Seq(S) /\ Len(g) = m /\ \A i \in 1..m : g[i] = f[i]
  BY <1>3, <1>4, SubSeqProperties
<1>6. DOMAIN g = 1..m
  BY <1>5
<1>7. ASSUME \A i, j \in 1..n : i < j => f[i] # f[j]
      PROVE  Cardinality({g[i] : i \in DOMAIN g}) = m
  <2> HIDE DEF g
  <2>1. \A i, j \in 1..m : i < j => g[i] # g[j]
    BY <1>1, <1>3, <1>5, <1>7
  <2>2. Cardinality({g[i] : i \in 1..m}) = m
    BY <1>3, <1>6, <2>1, ListedOnce
  <2> QED BY <1>6, <2>2
<1> HIDE DEF g
<1> QED BY <1>2, <1>5, <1>6, <1>7 DEF n, m

\* The chunks that match a question at all, and what a list shows.
Scored(question, docs, chunks) ==
    {c \in chunks : c.doc \in docs /\ ScoreChunk(question, c) > 0}
ShownBy(list) == {list[i] : i \in DOMAIN list}

\* Up to k chunks that match, each once, and none that is left out is better.
IsBest(question, docs, chunks, k) ==
    LET scored == Scored(question, docs, chunks)
        found == RetrieveTopChunks(question, docs, chunks, k)
        shown == ShownBy(found)
    IN /\ shown \subseteq scored
       /\ Cardinality(shown) = Len(found) /\ Len(found) \in Nat /\ Len(found) <= k
       /\ scored \ shown # {} => Len(found) = k
       /\ \A c \in shown, d \in scored \ shown :
              ScoreChunk(question, c) >= ScoreChunk(question, d)

\* The search of the store shows the best chunks there are.
LEMMA BestOfStore ==
    ASSUME NEW question, IsFiniteSet(question), NEW Token, NEW docs,
           NEW chunks, chunks \subseteq ChunksOver(Token), IsFiniteSet(chunks),
           \A c, d \in chunks : c.doc = d.doc /\ c.index = d.index => c = d,
           NEW k \in Nat \ {0}
    PROVE  IsBest(question, docs, chunks, k)
<1> DEFINE scored == {c \in chunks : c.doc \in docs /\ ScoreChunk(question, c) > 0}
           before == [c \in scored |-> {d \in scored : Before(question, d, c)}]
           found == RetrieveTopChunks(question, docs, chunks, k)
           shown == {found[i] : i \in DOMAIN found}
           f == InOrder(scored, before)
           n == Cardinality(scored)
           m == Min({k, n})
<1>1. IsFiniteSet(scored) /\ n \in Nat
  <2>1. scored \in SUBSET chunks
    OBVIOUS
  <2> QED BY <2>1, FS_Subset, FS_CardinalityType
<1>2. TotalOrder(scored, before)
  <2>1. scored \subseteq ChunksOver(Token)
        /\ \A c, d \in scored : c.doc = d.doc /\ c.index = d.index => c = d
    OBVIOUS
  <2> HIDE DEF scored
  <2> QED BY <2>1, BestFirst
<1>3. /\ f \in Seq(scored) /\ Len(f) = n
      /\ \A c \in scored : \E i \in 1..n : f[i] = c
      /\ \A i, j \in 1..n : i < j => f[i] \in before[f[j]]
  BY <1>1, <1>2, InOrderLists
<1>4. found = FirstOf(f, k)
  BY DEF RetrieveTopChunks
<1>5. \A c \in scored : \A d \in before[c] : ScoreChunk(question, d) >= ScoreChunk(question, c)
  <2> SUFFICES ASSUME NEW c \in scored, NEW d \in before[c]
               PROVE  ScoreChunk(question, d) >= ScoreChunk(question, c)
    OBVIOUS
  <2>1. Before(question, d, c) /\ d \in scored
    OBVIOUS
  <2>2. \A e \in scored : ScoreChunk(question, e) \in Int
    <3> SUFFICES ASSUME NEW e \in scored PROVE ScoreChunk(question, e) \in Int
      OBVIOUS
    <3>1. e \in ChunksOver(Token)
      OBVIOUS
    <3>2. e.phrase \in BOOLEAN /\ e.short \in BOOLEAN
      BY <3>1 DEF ChunksOver
    <3> QED BY <3>2, ScoreType
  <2> QED BY <2>1, <2>2 DEF Before
<1>6. \A c \in scored : c \notin before[c]
  BY <1>2 DEF TotalOrder
<1> HIDE DEF before, scored, f, n
<1>7. \A i, j \in 1..n : i < j => f[i] # f[j]
  BY <1>3, <1>6
<1>8. /\ FirstOf(f, k) \in Seq(scored) /\ Len(FirstOf(f, k)) = m
      /\ \A i \in 1..m : FirstOf(f, k)[i] = f[i]
      /\ Cardinality({FirstOf(f, k)[i] : i \in DOMAIN FirstOf(f, k)}) = m
  <2>1. k \in Nat /\ Len(f) = n /\ f \in Seq(scored)
    BY <1>3
  <2>2. FirstOf(f, k) \in Seq(scored)
    BY <2>1, FirstOfList
  <2>3. Len(FirstOf(f, k)) = m
    BY <2>1, FirstOfList
  <2>4. \A i \in 1..m : FirstOf(f, k)[i] = f[i]
    BY <2>1, FirstOfList
  <2>5. Cardinality({FirstOf(f, k)[i] : i \in DOMAIN FirstOf(f, k)}) = m
    BY <1>7, <2>1, FirstOfList
  <2> QED BY <2>2, <2>3, <2>4, <2>5
<1>9. m = (IF k <= n THEN k ELSE n) /\ m \in Nat /\ m <= k /\ m <= n
  BY <1>1, MinOfTwo
<1> HIDE DEF found, m
<1>10. Len(found) = m /\ DOMAIN found = 1..m /\ (\A i \in 1..m : found[i] = f[i])
       /\ Cardinality(shown) = m
  BY <1>4, <1>8
<1>11. shown \subseteq scored
  BY <1>3, <1>9, <1>10
<1>12. ASSUME NEW d \in scored \ shown
       PROVE  m = k /\ \A c \in shown : ScoreChunk(question, c) >= ScoreChunk(question, d)
  <2>1. PICK j \in 1..n : f[j] = d
    BY <1>3
  <2>2. j \notin 1..m
    BY <1>10, <2>1
  <2>3. m < j /\ m = k
    BY <1>9, <2>2
  <2>4. ASSUME NEW c \in shown
        PROVE  ScoreChunk(question, c) >= ScoreChunk(question, d)
    <3>1. PICK i \in 1..m : f[i] = c
      BY <1>10
    <3>2. i \in 1..n /\ i < j
      BY <1>1, <1>9, <2>3, <3>1
    <3>3. c \in before[d]
      BY <1>3, <2>1, <3>1, <3>2
    <3> QED BY <1>5, <3>3
  <2> QED BY <2>3, <2>4
<1>13. scored = Scored(question, docs, chunks) /\ shown = ShownBy(found)
  BY DEF Scored, ShownBy, scored, found
<1> HIDE DEF shown
<1> QED BY <1>9, <1>10, <1>11, <1>12, <1>13 DEF IsBest, found

\* What is admitted of the hits of the vector index: those of the documents
\* that were asked for, each once.
LEMMA AdmittedOnce ==
    ASSUME NEW docs, NEW S, NEW hits \in Seq(S)
    PROVE  LET inScope == {hit \in Range(hits) : hit.doc \in docs}
           IN /\ Cardinality(inScope) \in Nat
              /\ inScope = {} <=> Cardinality(inScope) = 0
              /\ Admitted(docs, hits) \in Seq(inScope)
              /\ Len(Admitted(docs, hits)) = Cardinality(inScope)
              /\ \A i, j \in 1..Cardinality(inScope) :
                     i < j => Admitted(docs, hits)[i] # Admitted(docs, hits)[j]
<1> DEFINE inScope == {hit \in Range(hits) : hit.doc \in docs}
           first == {i \in DOMAIN hits : /\ hits[i].doc \in docs
                                         /\ \A j \in 1..(i - 1) : hits[j] # hits[i]}
           order == Ascending(first)
           n == Cardinality(first)
           adm == Admitted(docs, hits)
<1>1. DOMAIN hits = 1..Len(hits) /\ Len(hits) \in Nat
  OBVIOUS
<1>2. IsFiniteSet(first) /\ first \subseteq 1..Len(hits) /\ n \in Nat
  <2>1. first \in SUBSET (1..Len(hits))
    BY <1>1
  <2>2. IsFiniteSet(1..Len(hits))
    BY <1>1, FS_Interval
  <2>3. IsFiniteSet(first)
    BY <2>1, <2>2, FS_Subset
  <2> QED BY <2>1, <2>3, FS_CardinalityType
<1>3. \A i, j \in first : hits[i] = hits[j] => i = j
  <2> SUFFICES ASSUME NEW i \in first, NEW j \in first, hits[i] = hits[j], i < j PROVE FALSE
    <3>1. \A i, j \in first : i \in Int /\ j \in Int /\ (i < j \/ j < i \/ i = j)
      BY <1>2
    <3> QED BY <3>1
  <2>1. i \in 1..(j - 1)
    BY <1>2
  <2> QED BY <2>1
<1>4. \A hit \in inScope : \E i \in first : hits[i] = hit
  <2> SUFFICES ASSUME NEW hit \in inScope PROVE \E i \in first : hits[i] = hit
    OBVIOUS
  <2> DEFINE at == {i \in 1..Len(hits) : hits[i] = hit}
  <2>1. at # {} /\ at \subseteq Nat /\ hit.doc \in docs
    BY <1>1 DEF Range
  <2>2. PICK i \in at : \A j \in at : i <= j
    BY <2>1, LeastNat
  <2>3. \A j \in 1..(i - 1) : hits[j] # hits[i]
    <3> SUFFICES ASSUME NEW j \in 1..(i - 1), hits[j] = hits[i] PROVE FALSE
      OBVIOUS
    <3>1. j \in 1..Len(hits) /\ j < i
      BY <1>1
    <3> QED BY <2>2, <3>1
  <2>4. i \in first
    BY <1>1, <2>1, <2>2, <2>3
  <2> QED BY <2>2, <2>4
<1>5. \A i \in first : hits[i] \in inScope
  BY DEF Range
<1>6. Cardinality(inScope) = n /\ IsFiniteSet(inScope)
  <2> DEFINE g == [i \in first |-> hits[i]]
  <2>1. g \in Bijection(first, inScope)
    BY <1>3, <1>4, <1>5 DEF Bijection, Injection, Surjection, IsInjective
  <2>2. ExistsBijection(first, inScope)
    BY <2>1 DEF ExistsBijection
  <2> HIDE DEF first, inScope
  <2> QED BY <1>2, <2>2, FS_Bijection
<1>7. /\ order \in Seq(first) /\ Len(order) = n
      /\ \A i, j \in 1..n : i < j => order[i] < order[j]
  <2>1. first \subseteq Int
    BY <1>2
  <2> HIDE DEF first
  <2> QED BY <1>2, <2>1, AscendingLists
<1>0. first \subseteq Int
  BY <1>2
<1>8. adm = [i \in 1..n |-> hits[order[i]]]
  BY DEF Admitted
<1>9. n = 0 <=> inScope = {}
  BY <1>6, FS_EmptySet
<1> HIDE DEF first, inScope, order, n, adm
<1>10. adm \in Seq(inScope) /\ Len(adm) = n
  <2>1. \A i \in 1..n : order[i] \in first
    BY <1>7
  <2>2. adm \in [1..n -> inScope]
    BY <1>5, <1>8, <2>1
  <2> QED BY <1>2, <2>2, SeqDef
<1>11. ASSUME NEW i \in 1..n, NEW j \in 1..n, i < j PROVE adm[i] # adm[j]
  <2>1. order[i] \in first /\ order[j] \in first /\ order[i] < order[j]
    BY <1>7, <1>11
  <2>2. order[i] # order[j]
    <3>1. order[i] \in Int /\ order[j] \in Int
      BY <1>0, <2>1
    <3> QED BY <2>1, <3>1
  <2> QED BY <1>3, <1>8, <2>1, <2>2
<1> QED BY <1>2, <1>6, <1>9, <1>10, <1>11 DEF inScope, adm

\* Evidence is of the documents asked for and the best there is, with any
\* number of documents, chunks and hits.
THEOREM EvidenceHolds ==
    ASSUME NEW Token, RetrieveCall(Token)
    PROVE  BestEvidence
<1> SUFFICES ASSUME call.what = "retrieve" PROVE BestEvidence
  BY DEF BestEvidence
<1> DEFINE docs == call.docs
           chunks == call.chunks
           hits == call.hits
           evidence == RetrieveChunks(Question, docs, chunks, hits, call.topK)
           shown == {evidence[i] : i \in DOMAIN evidence}
           inScope == {hit \in Range(hits) : hit.doc \in docs}
           left == {c \in chunks \ shown : c.doc \in docs /\ ScoreChunk(Question, c) > 0}
           k == IF call.topK = 0 THEN DefaultTopK ELSE call.topK
           adm == Admitted(docs, hits)
           found == RetrieveTopChunks(Question, docs, chunks, k)
           first == FirstOf(adm, k)
<1>1. /\ chunks \subseteq ChunksOver(Token) /\ IsFiniteSet(chunks)
      /\ \A c, d \in chunks : c.doc = d.doc /\ c.index = d.index => c = d
      /\ hits \in Seq(ChunksOver(Token)) /\ call.topK \in Nat
  BY DEF RetrieveCall
<1>2. k \in Nat \ {0} /\ (IF call.topK <= 0 THEN DefaultTopK ELSE call.topK) = k
  BY <1>1, RetrievalAssumption
<1>3. IsFiniteSet(Question)
  <2>1. Question = {"w"} \cup {"v"}
    BY DEF Question
  <2> QED BY <2>1, FS_Singleton, FS_AddElement
<1>4. evidence = CASE docs = {} -> << >>
                   [] docs # {} /\ first # << >> -> first
                   [] OTHER -> found
  BY <1>2 DEF RetrieveChunks
<1> HIDE DEF k
<1> DEFINE n == Cardinality(inScope)
<1>5. /\ n \in Nat /\ (inScope = {} <=> n = 0)
      /\ adm \in Seq(inScope) /\ Len(adm) = n
      /\ \A i, j \in 1..n : i < j => adm[i] # adm[j]
  BY <1>1, AdmittedOnce
<1> HIDE DEF adm, inScope, n
<1>6. /\ first \in Seq(inScope) /\ Len(first) = Min({k, n})
      /\ Cardinality({first[i] : i \in DOMAIN first}) = Min({k, n})
  BY <1>2, <1>5, FirstOfList
<1>7. Min({k, n}) = (IF k <= n THEN k ELSE n) /\ Min({k, n}) \in Nat
  BY <1>2, <1>5, MinOfTwo
<1>8. CASE inScope # {}
  <2>1. docs # {}
    BY <1>8 DEF inScope
  <2>2. first # << >>
    BY <1>2, <1>5, <1>6, <1>7, <1>8
  <2>3. evidence = first
    BY <1>4, <2>1, <2>2
  <2>4. shown \subseteq inScope
    BY <1>5, <1>6, <1>7, <2>3
  <2>5. \A c \in shown : c.doc \in docs
    BY <2>4 DEF inScope
  <2>6. Cardinality(shown) = Len(evidence) /\ Len(evidence) = Min({k, n}) /\ Len(evidence) <= k
    BY <1>2, <1>5, <1>6, <1>7, <2>3
  <2> HIDE DEF shown, evidence
  <2> QED BY <1>8, <2>4, <2>5, <2>6 DEF BestEvidence, shown, evidence, k, n, inScope
<1>9. CASE inScope = {}
  <2> DEFINE scored == Scored(Question, docs, chunks)
             best == ShownBy(found)
  <2>1. /\ best \subseteq scored
        /\ Cardinality(best) = Len(found) /\ Len(found) \in Nat /\ Len(found) <= k
        /\ scored \ best # {} => Len(found) = k
        /\ \A c \in best, d \in scored \ best : ScoreChunk(Question, c) >= ScoreChunk(Question, d)
    <3> HIDE DEF docs, chunks
    <3>1. k \in Nat \ {0}
      BY <1>2
    <3>2. IsBest(Question, docs, chunks, k)
      BY <1>1, <1>3, <3>1, BestOfStore
    <3> QED BY <3>2 DEF IsBest
  <2>2. first = << >>
    BY <1>5, <1>6, <1>7, <1>9
  <2>3. CASE docs = {}
    <3>1. evidence = << >> /\ shown = {} /\ left = {}
      BY <1>4, <2>3
    <3>2. Cardinality({}) = 0 /\ Len(<< >>) = 0
      BY FS_EmptySet
    <3> HIDE DEF shown, evidence, left
    <3>3. Cardinality(shown) = Len(evidence) /\ Len(evidence) <= k /\ shown \subseteq chunks
      BY <1>2, <3>1, <3>2
    <3> QED BY <1>9, <3>1, <3>3 DEF BestEvidence, shown, evidence, k, inScope, left
  <2>4. CASE docs # {}
    <3>1. evidence = found
      BY <1>4, <2>2, <2>4
    <3>2. shown = best /\ left = scored \ best
      BY <3>1 DEF ShownBy, Scored
    <3> HIDE DEF found
    <3>3. /\ \A c \in shown : c.doc \in docs
          /\ Cardinality(shown) = Len(evidence) /\ Len(evidence) <= k
          /\ shown \subseteq chunks
          /\ left # {} => Len(evidence) = k
          /\ \A c \in shown, d \in left : ScoreChunk(Question, c) >= ScoreChunk(Question, d)
      <4> HIDE DEF shown, evidence, left, best
      <4>1. scored \subseteq chunks /\ \A c \in scored : c.doc \in docs
        BY DEF Scored
      <4> HIDE DEF scored
      <4> QED BY <2>1, <3>1, <3>2, <4>1
    <3> HIDE DEF shown, evidence, left
    <3> QED BY <1>9, <3>3 DEF BestEvidence, shown, evidence, k, inScope, left
  <2> QED BY <2>3, <2>4
<1> QED BY <1>8, <1>9

-----------------------------------------------------------------------------
(* Settings.                                                               *)

\* Any raw value of a variable, and the variables core-go-rpc looks at.
RawValues == {Unset, BlankValue} \cup [is : {"text"}, number : Int, more : BOOLEAN]
CoreNames == {"AGENT_RPC_DIAL_TIMEOUT_SECONDS", "LLM_RPC_DIAL_TIMEOUT_SECONDS",
              "VECTOR_SEARCH_ENABLED"}

\* Every environment, with variables of any other names too, and every file.
SettingsCall(Name) ==
    /\ call.what = "core settings" =>
          /\ call.env \in [Name -> RawValues]
          /\ call.lines \in Seq([valid : BOOLEAN, name : Name, value : RawValues \ {Unset}])
    /\ call.what = "gateway settings" =>
          {call.env.read, call.env.write, call.file.read, call.file.write} \subseteq RawValues

\* A raw value is a text or has no number, and says something or is unset.
LEMMA RawCases ==
    ASSUME NEW raw \in RawValues
    PROVE  /\ raw.number \in Int
           /\ raw.is # "text" => raw.number = 0
           /\ raw.is = "unset" <=> raw = Unset
BY DEF RawValues, Unset, BlankValue

\* What loadDotEnv leaves a variable at: its own value if it has one, or the
\* value of its first line in the file.
LEMMA LoadedCases ==
    ASSUME NEW Name, NEW env \in [Name -> RawValues],
           NEW lines \in Seq([valid : BOOLEAN, name : Name, value : RawValues \ {Unset}]),
           NEW name \in Name
    PROVE  /\ LoadDotEnv(env, lines)[name] \in RawValues
           /\ env[name].is # "unset" => LoadDotEnv(env, lines)[name] = env[name]
           /\ \/ LoadDotEnv(env, lines)[name] = env[name]
                 /\ \A line \in Range(lines) : line.name = name /\ line.valid =>
                        env[name].is # "unset"
              \/ \E line \in Range(lines) : /\ line.valid /\ line.name = name
                                            /\ LoadDotEnv(env, lines)[name] = line.value
<1> DEFINE named == {i \in DOMAIN lines : lines[i].valid /\ lines[i].name = name}
           all == LoadDotEnv(env, lines)
<1>1. all[name] = IF env[name].is = "unset" /\ named # {} THEN lines[Min(named)].value
                                                          ELSE env[name]
  BY DEF LoadDotEnv
<1>2. DOMAIN lines = 1..Len(lines) /\ Len(lines) \in Nat
  OBVIOUS
<1>3. ASSUME named # {}
      PROVE  /\ Min(named) \in DOMAIN lines
             /\ lines[Min(named)].valid /\ lines[Min(named)].name = name
             /\ lines[Min(named)].value \in RawValues
  <2>1. named \subseteq Nat
    BY <1>2
  <2>2. Min(named) \in named
    BY <1>3, <2>1, MinIsLeast
  <2>3. Min(named) \in 1..Len(lines)
    BY <1>2, <2>2
  <2>4. lines[Min(named)] \in [valid : BOOLEAN, name : Name, value : RawValues \ {Unset}]
    BY <2>3, ElementOfSeq
  <2> QED BY <2>2, <2>4
<1>4. \A line \in Range(lines) : line.name = name /\ line.valid => named # {}
  BY DEF Range
<1>5. env[name] \in RawValues
  OBVIOUS
<1> HIDE DEF named, all
<1>6. CASE env[name].is = "unset" /\ named # {}
  <2>1. lines[Min(named)] \in Range(lines)
    BY <1>3, <1>6 DEF Range
  <2> QED BY <1>1, <1>3, <1>6, <2>1 DEF all
<1>7. CASE ~(env[name].is = "unset" /\ named # {})
  BY <1>1, <1>4, <1>5, <1>7 DEF all
<1> QED BY <1>6, <1>7

\* The value of the present name counts before the one of the former name.
LEMMA GivenCases ==
    ASSUME NEW all
    PROVE  /\ all[DialTimeoutNames[1]].is = "text" =>
                  GetenvAny(all, DialTimeoutNames) = all[DialTimeoutNames[1]]
           /\ all[DialTimeoutNames[1]].is # "text" /\ all[DialTimeoutNames[2]].is = "text" =>
                  GetenvAny(all, DialTimeoutNames) = all[DialTimeoutNames[2]]
           /\ all[DialTimeoutNames[1]].is # "text" /\ all[DialTimeoutNames[2]].is # "text" =>
                  GetenvAny(all, DialTimeoutNames) = Unset
<1> DEFINE names == DialTimeoutNames
           given == {i \in DOMAIN names : all[names[i]].is = "text"}
<1>1. DOMAIN names = {1, 2}
  BY DEF DialTimeoutNames
<1>2. GetenvAny(all, names) = IF given = {} THEN Unset ELSE all[names[Min(given)]]
  BY DEF GetenvAny
<1>3. Min({1, 2}) = 1 /\ Min({1}) = 1 /\ Min({2}) = 2
  BY MinOfTwo DEF Min
<1>4. /\ given \subseteq {1, 2}
      /\ 1 \in given <=> all[names[1]].is = "text"
      /\ 2 \in given <=> all[names[2]].is = "text"
  BY <1>1
<1> HIDE DEF given, names
<1>5. given = {} \/ given = {1} \/ given = {2} \/ given = {1, 2}
  BY <1>4
<1> QED BY <1>2, <1>3, <1>4, <1>5 DEF names

\* Both processes start with usable timeouts, whatever the environment and the
\* files say: any numbers, any number of lines, any other variables.
THEOREM SettingsHold ==
    ASSUME NEW Name, CoreNames \subseteq Name, SettingsCall(Name)
    PROVE  SettingsUsable
<1>1. ASSUME call.what = "core settings"
      PROVE  LET config == LoadCoreConfig(call.env, call.lines)
                 present == call.env[DialTimeoutNames[1]]
                 former == call.env[DialTimeoutNames[2]]
                 inFile == {line \in Range(call.lines) :
                               line.valid /\ line.value.is = "text"}
             IN /\ config.dialTimeout > 0
                /\ call.env["VECTOR_SEARCH_ENABLED"] = Says(1, FALSE) => config.vectorSearch
                /\ present.number > 0 => config.dialTimeout = present.number
                /\ present.is # "text" /\ inFile = {} /\ former.number > 0 =>
                       config.dialTimeout = former.number
                /\ present.is = "unset" /\ (\E line \in inFile : line.name = DialTimeoutNames[1])
                       /\ (\A line \in Range(call.lines) :
                               line.name = DialTimeoutNames[1] => line.value.is = "text") =>
                       config.dialTimeout \in {line.value.number : line \in inFile} \cup {8}
  <2> DEFINE env == call.env
             lines == call.lines
             all == LoadDotEnv(env, lines)
             first == DialTimeoutNames[1]
             second == DialTimeoutNames[2]
             switch == "VECTOR_SEARCH_ENABLED"
             raw == GetenvAny(all, DialTimeoutNames)
             config == LoadCoreConfig(env, lines)
             inFile == {line \in Range(lines) : line.valid /\ line.value.is = "text"}
             Line == [valid : BOOLEAN, name : Name, value : RawValues \ {Unset}]
  <2>1. env \in [Name -> RawValues] /\ lines \in Seq(Line)
    BY <1>1 DEF SettingsCall
  <2>2. first \in Name /\ second \in Name /\ switch \in Name
    BY DEF CoreNames, DialTimeoutNames
  <2>3. config.dialTimeout = ParseInt(raw, 8)
        /\ config.vectorSearch = ParseBool(GetenvAny(all, <<switch>>), TRUE)
    BY DEF LoadCoreConfig
  <2> HIDE DEF all, raw, config, first, second
  <2>0. ASSUME NEW n \in Name
        PROVE  /\ all[n] \in RawValues
               /\ env[n].is # "unset" => all[n] = env[n]
               /\ \/ /\ all[n] = env[n]
                     /\ \A line \in Range(lines) : line.name = n /\ line.valid =>
                            env[n].is # "unset"
                  \/ \E line \in Range(lines) : line.valid /\ line.name = n
                                                /\ all[n] = line.value
    <3>1. LoadDotEnv(env, lines)[n] \in RawValues
      BY <2>1, LoadedCases
    <3>2. env[n].is # "unset" => LoadDotEnv(env, lines)[n] = env[n]
      <4>1. n \in DOMAIN env
        BY <2>1
      <4> QED BY <4>1 DEF LoadDotEnv
    <3>3. \/ /\ LoadDotEnv(env, lines)[n] = env[n]
             /\ \A line \in Range(lines) : line.name = n /\ line.valid =>
                    env[n].is # "unset"
          \/ \E line \in Range(lines) : /\ line.valid /\ line.name = n
                                        /\ LoadDotEnv(env, lines)[n] = line.value
      BY <2>1, LoadedCases
    <3> QED BY <3>1, <3>2, <3>3 DEF all
  <2>4. all[first] \in RawValues /\ all[second] \in RawValues /\ all[switch] \in RawValues
    BY <2>0, <2>2
  <2>5. /\ all[first].is = "text" => raw = all[first]
        /\ all[first].is # "text" /\ all[second].is = "text" => raw = all[second]
        /\ all[first].is # "text" /\ all[second].is # "text" => raw = Unset
    BY GivenCases DEF raw, first, second
  <2>6. raw \in RawValues
    BY <2>4, <2>5 DEF RawValues
  <2>7. raw.number \in Int
    BY <2>6, RawCases
  <2>8. config.dialTimeout = IF raw.is # "text" \/ raw.number <= 0 THEN 8 ELSE raw.number
    BY <2>3 DEF ParseInt
  <2>9. config.dialTimeout > 0
    BY <2>7, <2>8
  <2>10. env[switch] = Says(1, FALSE) => config.vectorSearch
    <3> SUFFICES ASSUME env[switch] = Says(1, FALSE) PROVE config.vectorSearch
      OBVIOUS
    <3>1. env[switch].is = "text" /\ env[switch].number = 1 /\ env[switch].more = FALSE
      BY DEF Says
    <3>2. all[switch] = env[switch]
      BY <2>0, <2>2, <3>1
    <3> DEFINE given == {i \in DOMAIN <<switch>> : all[<<switch>>[i]].is = "text"}
    <3>3. given = {1}
      <4>1. DOMAIN <<switch>> = {1} /\ <<switch>>[1] = switch
        OBVIOUS
      <4>2. all[switch].is = "text"
        BY <3>1, <3>2
      <4> QED BY <4>1, <4>2
    <3>4. Min({1}) = 1
      BY DEF Min
    <3>5. GetenvAny(all, <<switch>>) = all[switch]
      BY <3>3, <3>4 DEF GetenvAny
    <3>6. ParseBool(Says(1, FALSE), TRUE) = TRUE
      BY DEF ParseBool, Says
    <3> QED BY <2>3, <3>2, <3>5, <3>6
  <2>11. env[first].number > 0 => config.dialTimeout = env[first].number
    <3> SUFFICES ASSUME env[first].number > 0 PROVE config.dialTimeout = env[first].number
      OBVIOUS
    <3>1. env[first] \in RawValues
      BY <2>1, <2>2
    <3>2. env[first].is = "text" /\ env[first].number \in Int
      BY <3>1, RawCases
    <3>3. all[first] = env[first]
      BY <2>0, <2>2, <3>2
    <3> QED BY <2>5, <2>8, <3>2, <3>3
  <2>12. env[first].is # "text" /\ inFile = {} /\ env[second].number > 0 =>
             config.dialTimeout = env[second].number
    <3> SUFFICES ASSUME env[first].is # "text", inFile = {}, env[second].number > 0
                 PROVE  config.dialTimeout = env[second].number
      OBVIOUS
    <3>1. env[second] \in RawValues
      BY <2>1, <2>2
    <3>2. env[second].is = "text" /\ env[second].number \in Int
      BY <3>1, RawCases
    <3>3. all[second] = env[second]
      BY <2>0, <2>2, <3>2
    <3>4. \/ all[first] = env[first]
          \/ \E line \in Range(lines) : line.valid /\ all[first] = line.value
      BY <2>0, <2>2
    <3>5. all[first].is # "text"
      BY <3>4
    <3> QED BY <2>5, <2>8, <3>2, <3>3, <3>5
  <2>13. env[first].is = "unset" /\ (\E line \in inFile : line.name = first)
             /\ (\A line \in Range(lines) : line.name = first => line.value.is = "text") =>
             config.dialTimeout \in {line.value.number : line \in inFile} \cup {8}
    <3> SUFFICES ASSUME env[first].is = "unset", \E line \in inFile : line.name = first,
                        \A line \in Range(lines) : line.name = first => line.value.is = "text"
                 PROVE  config.dialTimeout \in {line.value.number : line \in inFile} \cup {8}
      OBVIOUS
    <3>1. PICK line \in Range(lines) : line.valid /\ line.name = first
                                       /\ all[first] = line.value
      BY <2>0, <2>2
    <3>2. line \in inFile /\ all[first].is = "text"
      BY <3>1
    <3>3. raw.number = line.value.number
      BY <2>5, <3>1, <3>2
    <3> QED BY <2>8, <3>2, <3>3
  <2> QED BY <2>9, <2>10, <2>11, <2>12, <2>13 DEF config, first, second
<1>2. ASSUME call.what = "gateway settings"
      PROVE  LET config == LoadGatewayConfig(call.env, call.file)
                 told(env, file) == IF IsNumber(env) THEN env.number
                                    ELSE IF IsNumber(file) THEN file.number ELSE 0
             IN /\ config.read > 0 /\ config.write > 0
                /\ told(call.env.read, call.file.read) > 0 =>
                       config.read = told(call.env.read, call.file.read)
                /\ \A d \in Deadlines :
                       /\ told(call.env.read, call.file.read) <= 0
                       /\ told(call.env.write, call.file.write) <= 0
                       => AnsweredInTime(config, d[2]) \/ d[1] = "UploadDocument"
  <2> DEFINE config == LoadGatewayConfig(call.env, call.file)
             told(env, file) == IF IsNumber(env) THEN env.number
                                ELSE IF IsNumber(file) THEN file.number ELSE 0
             read == told(call.env.read, call.file.read)
             write == told(call.env.write, call.file.write)
  <2>1. config.read = IF read <= 0 THEN 20 ELSE read
    <3>1. call.env.read.number \in Int /\ call.file.read.number \in Int
      BY <1>2, RawCases DEF SettingsCall
    <3> QED BY <3>1 DEF LoadGatewayConfig, GatewayNumber
  <2>2. config.write = IF write <= 0 THEN 60 ELSE write
    <3>1. call.env.write.number \in Int /\ call.file.write.number \in Int
      BY <1>2, RawCases DEF SettingsCall
    <3> QED BY <3>1 DEF LoadGatewayConfig, GatewayNumber
  <2>3. read \in Int /\ write \in Int
    <3>1. /\ call.env.read.number \in Int /\ call.file.read.number \in Int
          /\ call.env.write.number \in Int /\ call.file.write.number \in Int
      BY <1>2, RawCases DEF SettingsCall
    <3> QED BY <3>1
  <2> HIDE DEF config, read, write
  <2>4. \A d \in Deadlines : d[2] <= 40 \/ d[1] = "UploadDocument"
    BY DEF Deadlines, AuthDeadlines, ConfigDeadlines, DocumentDeadlines, ThreadDeadlines
  <2>5. \A d \in Deadlines : d[2] \in Int
    BY DEF Deadlines, AuthDeadlines, ConfigDeadlines, DocumentDeadlines, ThreadDeadlines
  <2>6. \A d \in Deadlines : read <= 0 /\ write <= 0 =>
            AnsweredInTime(config, d[2]) \/ d[1] = "UploadDocument"
    BY <2>1, <2>2, <2>4, <2>5 DEF AnsweredInTime
  <2> QED BY <2>1, <2>2, <2>3, <2>6 DEF config, read, write
<1> QED BY <1>1, <1>2 DEF SettingsUsable

-----------------------------------------------------------------------------
(* Pages.                                                                  *)

\* Every list of documents, with any page size.
ListCall ==
    call.what = "list" => /\ call.docs \subseteq Int /\ IsFiniteSet(call.docs)
                          /\ call.pageSize \in Int

\* The list of the documents from the newest.
LEMMA NewestLists ==
    ASSUME NEW docs, docs \subseteq Int, IsFiniteSet(docs)
    PROVE  /\ NewestFirst(docs) \in Seq(docs) /\ Len(NewestFirst(docs)) = Cardinality(docs)
           /\ Range(NewestFirst(docs)) = docs
           /\ \A i, j \in 1..Cardinality(docs) :
                  i < j => NewestFirst(docs)[i] > NewestFirst(docs)[j]
<1> DEFINE before == [d \in docs |-> {e \in docs : e > d}]
           n == Cardinality(docs)
           s == InOrder(docs, before)
<1>1. TotalOrder(docs, before)
  <2>1. before \in [docs -> SUBSET docs] /\ \A c \in docs : c \notin before[c]
    OBVIOUS
  <2>2. \A c, d \in docs : d \in before[c] => before[d] \subseteq before[c]
    <3> SUFFICES ASSUME NEW c \in docs, NEW d \in docs, d \in before[c], NEW e \in before[d]
                 PROVE  e \in before[c]
      OBVIOUS
    <3>1. e \in docs /\ e > d /\ d > c
      OBVIOUS
    <3>2. e > c
      BY <3>1
    <3> QED BY <3>1, <3>2
  <2>3. \A c, d \in docs : c # d => c \in before[d] \/ d \in before[c]
    OBVIOUS
  <2> QED BY <2>1, <2>2, <2>3 DEF TotalOrder
<1>2. NewestFirst(docs) = s
  BY DEF NewestFirst
<1> HIDE DEF before, n
<1>3. /\ s \in Seq(docs) /\ Len(s) = n
      /\ \A c \in docs : \E i \in 1..n : s[i] = c
      /\ \A i, j \in 1..n : i < j => s[i] \in before[s[j]]
  BY <1>1, InOrderLists DEF n
<1> HIDE DEF s
<1>4. DOMAIN s = 1..n /\ \A i \in 1..n : s[i] \in docs
  BY <1>3
<1>5. Range(s) = docs
  BY <1>3, <1>4 DEF Range
<1>6. \A i, j \in 1..n : i < j => s[i] > s[j]
  BY <1>3, <1>4 DEF before
<1> QED BY <1>2, <1>3, <1>5, <1>6 DEF n

\* Where the page that is n-th in a list of that length ends.
CutAt(length, size, n) == IF n * size <= length THEN n * size ELSE length

\* A page is what lies between two neighbouring cuts of the list.
LEMMA PageCut ==
    ASSUME NEW docs, docs \subseteq Int, IsFiniteSet(docs), NEW pageSize \in Int,
           NEW n \in Nat \ {0}
    PROVE  ListDocuments(docs, n, pageSize) =
               SubSeq(NewestFirst(docs), CutAt(Cardinality(docs), PageSize(pageSize), n - 1) + 1,
                                         CutAt(Cardinality(docs), PageSize(pageSize), n))
<1> DEFINE size == PageSize(pageSize)
           length == Cardinality(docs)
           start == Min({(n - 1) * size, length})
           end == Min({start + size, length})
<1>1. size \in Nat /\ length \in Nat
  BY AlgorithmsAssumption, FS_CardinalityType DEF PageSize
<1>2. ListDocuments(docs, n, pageSize) = SubSeq(NewestFirst(docs), start + 1, end)
  <2>1. (IF n <= 0 THEN 1 ELSE n) = n
    OBVIOUS
  <2> QED BY <2>1 DEF ListDocuments
<1> HIDE DEF size, length
<1> DEFINE x == (n - 1) * size
           y == n * size
<1>3. x \in Nat /\ y = x + size
  <2>1. n - 1 \in Nat /\ (n - 1) + 1 = n
    OBVIOUS
  <2> QED BY <1>1, <2>1, Multiples
<1> HIDE DEF x
<1>4. start = IF x <= length THEN x ELSE length
  BY <1>1, <1>3, MinOfTwo DEF x
<1>5. start \in Nat
  BY <1>1, <1>3, <1>4
<1> HIDE DEF start
<1>6. end = IF start + size <= length THEN start + size ELSE length
  BY <1>1, <1>5, MinOfTwo
<1> HIDE DEF end, y
<1>7. end = IF y <= length THEN y ELSE length
  BY <1>1, <1>3, <1>4, <1>6
<1>8. start = CutAt(length, size, n - 1) /\ end = CutAt(length, size, n)
  BY <1>4, <1>7 DEF CutAt, x, y
<1> QED BY <1>2, <1>8 DEF size, length

\* f joins the pages of s one after the other; what it has joined so far is
\* the list up to where the last of them ends.
JoinsPages(s, size, k, f) ==
    /\ f[1] = SubSeq(s, CutAt(Len(s), size, 0) + 1, CutAt(Len(s), size, 1))
    /\ \A i \in 2..k : f[i] = f[i - 1] \o
           SubSeq(s, CutAt(Len(s), size, i - 1) + 1, CutAt(Len(s), size, i))

\* The first i pages together are the list up to the i-th cut.
LEMMA PagesJoin ==
    ASSUME NEW S, NEW s \in Seq(S), NEW size \in Nat, NEW k \in Nat, NEW f,
           JoinsPages(s, size, k, f), NEW i \in 1..k
    PROVE  f[i] = SubSeq(s, 1, CutAt(Len(s), size, i))
<1> DEFINE length == Len(s)
           cut(n) == CutAt(length, size, n)
           T == {n \in Nat : n + 1 \in 1..k => f[n + 1] = SubSeq(s, 1, cut(n + 1))}
<1>0. length \in Nat
  OBVIOUS
<1>1. \A n \in Nat : cut(n) \in Nat /\ cut(n) <= length /\ cut(n) <= cut(n + 1)
  <2> SUFFICES ASSUME NEW n \in Nat
               PROVE  cut(n) \in Nat /\ cut(n) <= length /\ cut(n) <= cut(n + 1)
    OBVIOUS
  <2> DEFINE x == n * size
             y == (n + 1) * size
  <2>1. x \in Nat /\ y = x + size
    BY Multiples
  <2>2. cut(n) = (IF x <= length THEN x ELSE length)
        /\ cut(n + 1) = (IF y <= length THEN y ELSE length)
    BY DEF CutAt
  <2> HIDE DEF x, y
  <2> QED BY <1>0, <2>1, <2>2
<1>2. cut(0) = 0
  BY <1>0 DEF CutAt
<1> HIDE DEF cut
<1>3. 0 \in T
  BY <1>2 DEF cut, JoinsPages
<1>4. ASSUME NEW n \in Nat, n \in T PROVE n + 1 \in T
  <2> SUFFICES ASSUME (n + 1) + 1 \in 1..k PROVE f[(n + 1) + 1] = SubSeq(s, 1, cut((n + 1) + 1))
    BY <1>4
  <2>1. n + 1 \in 1..k /\ (n + 1) + 1 \in 2..k /\ ((n + 1) + 1) - 1 = n + 1 /\ n + 1 \in Nat
    OBVIOUS
  <2>2. f[n + 1] = SubSeq(s, 1, cut(n + 1))
    BY <1>4, <2>1
  <2>3. f[(n + 1) + 1] = f[n + 1] \o SubSeq(s, cut(n + 1) + 1, cut((n + 1) + 1))
    BY <2>1 DEF cut, JoinsPages
  <2> DEFINE a == cut(n + 1)
             b == cut((n + 1) + 1)
  <2>4. a \in 0..length /\ b \in a..length /\ 1 \in 1..(length + 1)
    <3>1. (n + 1) + 1 \in Nat
      OBVIOUS
    <3>2. a \in Nat /\ a <= length /\ a <= b /\ b \in Nat /\ b <= length
      BY <1>1, <2>1, <3>1
    <3> HIDE DEF a, b
    <3> QED BY <1>0, <3>2
  <2> HIDE DEF a, b
  <2>5. 1 - 1 = 0
    OBVIOUS
  <2>6. SubSeq(s, 1, a) \o SubSeq(s, a + 1, b) = SubSeq(s, 1, b)
    BY <2>4, <2>5, ConcatAdjacentSubSeq
  <2> QED BY <2>2, <2>3, <2>6 DEF a, b
<1>5. Nat \subseteq T
  BY <1>3, <1>4, SetInduction
<1>6. f[i] = SubSeq(s, 1, cut(i))
  <2>1. i - 1 \in Nat /\ (i - 1) + 1 = i
    OBVIOUS
  <2>2. i - 1 \in T
    BY <1>5, <2>1
  <2> QED BY <2>1, <2>2
<1> QED BY <1>6 DEF cut

\* The pages that are not empty are the first ones, up to one that ends where
\* the list does.
LEMMA PagesUsed ==
    ASSUME NEW length \in Nat, NEW size \in Nat \ {0}
    PROVE  \E p \in 0..length :
               /\ CutAt(length, size, p) = length
               /\ \A n \in Nat \ {0} : n <= p
                      <=> CutAt(length, size, n - 1) < CutAt(length, size, n)
<1> DEFINE T == {p \in Nat : p * size >= length}
<1>1. length \in T
  BY Multiples
<1>2. PICK p \in T : \A m \in T : p <= m
  <2>1. T \subseteq Nat /\ T # {}
    BY <1>1
  <2> HIDE DEF T
  <2> QED BY <2>1, LeastNat
<1>3. p \in 0..length
  <2>1. p \in Nat /\ p <= length
    BY <1>1, <1>2
  <2> QED BY <2>1
<1>4. CutAt(length, size, p) = length
  <2> DEFINE x == p * size
  <2>1. x \in Nat /\ x >= length
    BY <1>2, Multiples
  <2>2. CutAt(length, size, p) = IF x <= length THEN x ELSE length
    BY DEF CutAt
  <2> HIDE DEF x
  <2> QED BY <2>1, <2>2
<1>5. ASSUME NEW n \in Nat \ {0}
      PROVE  n <= p <=> CutAt(length, size, n - 1) < CutAt(length, size, n)
  <2> DEFINE x == (n - 1) * size
             y == n * size
  <2>1. n - 1 \in Nat /\ (n - 1) + 1 = n /\ p \in Nat
    BY <1>3
  <2>2. x \in Nat /\ y = x + size
    BY <2>1, Multiples
  <2>3. n <= p => x < length
    <3> SUFFICES ASSUME n <= p, x >= length PROVE FALSE
      BY <2>2
    <3>1. n - 1 \in T
      BY <2>1
    <3>2. p <= n - 1
      BY <1>2, <3>1
    <3> QED BY <2>1, <3>2
  <2>4. ~(n <= p) => x >= length
    <3> SUFFICES ASSUME ~(n <= p) PROVE x >= length
      OBVIOUS
    <3>1. p <= n - 1
      BY <2>1
    <3>2. p * size <= x
      BY <2>1, <3>1, Multiples
    <3>3. p * size >= length /\ p * size \in Nat
      BY <1>2, Multiples
    <3> HIDE DEF x
    <3> DEFINE z == p * size
    <3> HIDE DEF z
    <3>4. z <= x /\ z >= length /\ z \in Nat
      BY <3>2, <3>3 DEF z
    <3> QED BY <2>2, <3>4
  <2>5. /\ CutAt(length, size, n - 1) = IF x <= length THEN x ELSE length
        /\ CutAt(length, size, n) = IF y <= length THEN y ELSE length
    BY DEF CutAt
  <2> HIDE DEF x, y, T
  <2> QED BY <2>1, <2>2, <2>3, <2>4, <2>5
<1> QED BY <1>3, <1>4, <1>5

\* Turning the pages shows every document once and the newest first, for any
\* number of documents and whatever page size is asked for.
THEOREM PagesHold ==
    ASSUME ListCall
    PROVE  PagesShowAll
<1> SUFFICES ASSUME call.what = "list" PROVE PagesShowAll
  BY DEF PagesShowAll
<1> DEFINE docs == call.docs
           size == PageSize(call.pageSize)
           length == Cardinality(docs)
           s == NewestFirst(docs)
           page(n) == ListDocuments(docs, n, call.pageSize)
           cut(n) == CutAt(length, size, n)
           used == {n \in 1..(length + 1) : page(n) # << >>}
           pages == Cardinality(used)
           joined == [n \in 1..pages |-> page(n)]
           shown == FlattenSeq(joined)
<1>1. docs \subseteq Int /\ IsFiniteSet(docs) /\ call.pageSize \in Int
  BY DEF ListCall
<1>2. size \in Nat \ {0} /\ size <= MaxPageSize /\ MaxPageSize \in Nat
  BY <1>1, AlgorithmsAssumption DEF PageSize
<1>3. length \in Nat
  BY <1>1, FS_CardinalityType
<1>4. /\ s \in Seq(docs) /\ Len(s) = length
      /\ Range(s) = docs
      /\ \A i, j \in 1..length : i < j => s[i] > s[j]
  <2> HIDE DEF docs
  <2> QED BY <1>1, NewestLists
<1>5. \A n \in Nat \ {0} : page(n) = SubSeq(s, cut(n - 1) + 1, cut(n))
  <2> HIDE DEF docs
  <2> QED BY <1>1, PageCut
<1> HIDE DEF docs, size, length, s, page
<1>6. \A n \in Nat : /\ cut(n) \in Nat /\ cut(n) <= length
                     /\ cut(n) <= cut(n + 1) /\ cut(n + 1) <= cut(n) + size
  <2> SUFFICES ASSUME NEW n \in Nat
               PROVE  /\ cut(n) \in Nat /\ cut(n) <= length
                      /\ cut(n) <= cut(n + 1) /\ cut(n + 1) <= cut(n) + size
    OBVIOUS
  <2> DEFINE x == n * size
             y == (n + 1) * size
  <2>1. x \in Nat /\ y = x + size
    BY <1>2, Multiples
  <2>2. cut(n) = (IF x <= length THEN x ELSE length)
        /\ cut(n + 1) = (IF y <= length THEN y ELSE length)
    BY DEF CutAt
  <2> HIDE DEF x, y, cut
  <2> QED BY <1>2, <1>3, <2>1, <2>2
<1>7. PICK p \in 0..length : /\ cut(p) = length
                             /\ \A n \in Nat \ {0} : n <= p <=> cut(n - 1) < cut(n)
  BY <1>2, <1>3, PagesUsed
<1> HIDE DEF cut
<1>8. ASSUME NEW n \in Nat \ {0}
      PROVE  /\ page(n) \in Seq(docs)
             /\ Len(page(n)) <= size
             /\ page(n) # << >> <=> n <= p
  <2> DEFINE a == cut(n - 1)
             b == cut(n)
  <2>1. n - 1 \in Nat /\ (n - 1) + 1 = n
    OBVIOUS
  <2>2. a \in Nat /\ b \in Nat /\ a <= b /\ b <= length /\ b <= a + size
    BY <1>6, <2>1
  <2>3. page(n) = SubSeq(s, a + 1, b) /\ (n <= p <=> a < b)
    BY <1>5, <1>7
  <2> HIDE DEF a, b
  <2>4. \A i \in (a + 1)..b : s[i] \in docs
    BY <1>3, <1>4, <2>2
  <2>5. /\ SubSeq(s, a + 1, b) \in Seq(docs)
        /\ Len(SubSeq(s, a + 1, b)) = IF a + 1 <= b THEN b - (a + 1) + 1 ELSE 0
    BY <2>2, <2>4, SubSeqProperties
  <2>6. a < b => SubSeq(s, a + 1, b) # << >>
    <3> DEFINE q == SubSeq(s, a + 1, b)
    <3>1. a < b => Len(q) > 0
      BY <2>2, <2>5
    <3>2. Len(<< >>) = 0
      OBVIOUS
    <3> HIDE DEF q
    <3>3. a < b => q # << >>
      BY <3>1, <3>2
    <3> QED BY <3>3 DEF q
  <2>7. ~(a < b) => SubSeq(s, a + 1, b) = << >>
    BY <2>2, SubSeqEmpty
  <2> QED BY <1>2, <2>2, <2>3, <2>5, <2>6, <2>7
<1>9. pages = p
  <2>1. used = 1..p
    BY <1>3, <1>8
  <2>2. Cardinality(1..p) = p
    BY FS_Interval
  <2> QED BY <2>1, <2>2
<1>10. \A n \in 1..p : page(n) # << >> /\ Len(page(n)) <= MaxPageSize
  <2> SUFFICES ASSUME NEW n \in 1..p PROVE page(n) # << >> /\ Len(page(n)) <= MaxPageSize
    OBVIOUS
  <2>1. n \in Nat \ {0} /\ n <= p
    OBVIOUS
  <2>2. page(n) # << >> /\ Len(page(n)) <= size /\ Len(page(n)) \in Nat
    BY <1>8, <2>1
  <2> QED BY <1>2, <2>2
<1>11. shown = s
  <2> DEFINE pp == [n \in 1..p |-> page(n)]
  <2>1. shown = FlattenSeq(pp)
    BY <1>9
  <2>2. pp \in Seq(Seq(docs)) /\ Len(pp) = p /\ p \in Nat
    <3>1. \A n \in 1..p : page(n) \in Seq(docs)
      BY <1>8
    <3>2. pp \in [1..p -> Seq(docs)]
      BY <3>1
    <3> QED BY <3>2, SeqDef
  <2>3. \A n \in 1..p : pp[n] = SubSeq(s, cut(n - 1) + 1, cut(n))
    <3>1. \A n \in 1..p : n \in Nat \ {0}
      OBVIOUS
    <3> QED BY <1>5, <3>1
  <2> HIDE DEF pp
  <2>4. CASE p = 0
    <3>1. length = 0
      <4>1. 0 * size = 0
        BY <1>2
      <4>2. cut(0) = 0
        BY <1>3, <4>1 DEF cut, CutAt
      <4> QED BY <1>7, <2>4, <4>2
    <3>2. s = << >>
      BY <1>4, <3>1
    <3>3. pp = << >>
      BY <2>2, <2>4
    <3>4. FlattenSeq(pp) = pp
      BY <2>2, <2>4 DEF FlattenSeq
    <3> QED BY <2>1, <3>2, <3>3, <3>4
  <2>5. CASE p # 0
    <3>1. p \in Nat \ {0}
      BY <2>2, <2>5
    <3>2. PICK f : /\ f[1] = pp[1]
                   /\ \A i \in 2..p : f[i] = f[i - 1] \o pp[i]
                   /\ FlattenSeq(pp) = f[p]
      BY <2>2, <3>1, FlattenDef
    <3>3. f[1] = SubSeq(s, cut(0) + 1, cut(1))
      <4>1. 1 \in 1..p /\ 1 - 1 = 0
        BY <3>1
      <4> QED BY <2>3, <3>2, <4>1
    <3>4. \A i \in 2..p : f[i] = f[i - 1] \o SubSeq(s, cut(i - 1) + 1, cut(i))
      <4>1. \A i \in 2..p : i \in 1..p
        OBVIOUS
      <4> QED BY <2>3, <3>2, <4>1
    <3>5. f[p] = SubSeq(s, 1, cut(p))
      <4>1. size \in Nat /\ s \in Seq(docs) /\ p \in Nat
        BY <1>2, <1>4, <2>2
      <4>2. f[1] = SubSeq(s, CutAt(Len(s), size, 0) + 1, CutAt(Len(s), size, 1))
        BY <1>4, <3>3 DEF cut
      <4>3. \A i \in 2..p : f[i] = f[i - 1] \o
                SubSeq(s, CutAt(Len(s), size, i - 1) + 1, CutAt(Len(s), size, i))
        BY <1>4, <3>4 DEF cut
      <4>4. JoinsPages(s, size, p, f)
        BY <4>2, <4>3 DEF JoinsPages
      <4>5. p \in 1..p
        BY <3>1
      <4>6. f[p] = SubSeq(s, 1, CutAt(Len(s), size, p))
        BY <4>1, <4>4, <4>5, PagesJoin
      <4> QED BY <1>4, <4>6 DEF cut
    <3>6. f[p] = SubSeq(s, 1, Len(s))
      BY <1>4, <1>7, <3>5
    <3>7. SubSeq(s, 1, Len(s)) = s
      BY <1>4, SubSeqFull
    <3> QED BY <2>1, <3>2, <3>6, <3>7
  <2> QED BY <2>4, <2>5
<1>12. Range(shown) = docs /\ \A i, j \in DOMAIN shown : i < j => shown[i] > shown[j]
  <2>1. DOMAIN s = 1..length
    BY <1>4
  <2> QED BY <1>4, <1>11, <2>1
<1> HIDE DEF shown
<1> QED BY <1>9, <1>10, <1>12 DEF PagesShowAll, docs, length, page, shown

-----------------------------------------------------------------------------
(* The calls that MCAlgorithms makes are calls these theorems speak of.    *)

Words == {"", "auto", "all", "doc", "other", "none", "@all", "@doc", "skip", "use", "yes",
          "no", "Bearer", "bearer", "Basic", "t", "u"}

\* The requests and libraries of the run are ones of RouteCall.
LEMMA RequestsCovered ==
    \A request \in Requests, owned \in SUBSET Library :
        /\ request \in RequestsOver(1..11, Words)
        /\ owned \subseteq DocumentsOver(1..11)
        /\ Identified(owned, request.docIDs)
<1> SUFFICES ASSUME NEW request \in Requests, NEW owned \in SUBSET Library
             PROVE  /\ request \in RequestsOver(1..11, Words)
                    /\ owned \subseteq DocumentsOver(1..11)
                    /\ Identified(owned, request.docIDs)
  OBVIOUS
<1>1. /\ {"none", "@all", "@doc"} \subseteq Words
      /\ {"", "auto", "all", "doc", "other"} \subseteq Words
  BY DEF Words
<1>2. {1, 3, 11} \subseteq 1..11 /\ 1..3 \subseteq 1..11
  OBVIOUS
<1>3. Messages \subseteq MessagesOver(1..11, Words)
  BY <1>1, <1>2 DEF Messages, MessagesOver
<1>4. request \in RequestsOver(1..11, Words)
  BY <1>1, <1>2, <1>3 DEF Requests, RequestsOver
<1>5. owned \subseteq DocumentsOver(1..11)
  BY DEF Library, DocumentsOver
<1>6. Identified(owned, request.docIDs)
  <2>1. request.docIDs \in SUBSET (1..3)
    BY DEF Requests
  <2> QED BY <2>1 DEF Library, Identified
<1> QED BY <1>4, <1>5, <1>6

\* The model's answers of the run are ones of DecisionCall.
LEMMA AnswersCovered ==
    Answers \subseteq [answered : BOOLEAN, json : BOOLEAN, use : BOOLEAN, tool : BOOLEAN,
                      query : BOOLEAN, says : SUBSET Words]
<1>1. {"skip", "use", "yes", "no"} \subseteq Words
  BY DEF Words
<1>2. Unanswered \in [answered : BOOLEAN, json : BOOLEAN, use : BOOLEAN, tool : BOOLEAN,
                     query : BOOLEAN, says : SUBSET Words]
  BY DEF Unanswered
<1> HIDE DEF Words
<1>3. /\ {} \subseteq Words /\ TRUE \in BOOLEAN /\ FALSE \in BOOLEAN
      /\ SUBSET {"skip", "use", "yes", "no"} \subseteq SUBSET Words
  BY <1>1
<1>4. /\ [answered : {TRUE}, json : {TRUE}, use : BOOLEAN, tool : BOOLEAN,
         query : BOOLEAN, says : {{}}]
         \subseteq [answered : BOOLEAN, json : BOOLEAN, use : BOOLEAN, tool : BOOLEAN,
                    query : BOOLEAN, says : SUBSET Words]
      /\ [answered : {TRUE}, json : {FALSE}, use : {FALSE}, tool : {FALSE},
         query : {FALSE}, says : SUBSET {"skip", "use", "yes", "no"}]
         \subseteq [answered : BOOLEAN, json : BOOLEAN, use : BOOLEAN, tool : BOOLEAN,
                    query : BOOLEAN, says : SUBSET Words]
  BY <1>3
<1> QED BY <1>2, <1>4 DEF Answers

\* The headers and files of the run are ones of GatewayCall.
LEMMA HeadersCovered ==
    \A request \in HTTPRequests :
        /\ request.auth \in Seq(Words)
        /\ request.file.size \in Nat
<1>1. /\ << >> \in Seq(Words) /\ <<"Bearer">> \in Seq(Words) /\ <<"Bearer", "t">> \in Seq(Words)
      /\ <<"bearer", "t">> \in Seq(Words) /\ <<"Basic", "t">> \in Seq(Words)
      /\ <<"Bearer", "t", "u">> \in Seq(Words)
  <2>1. "Bearer" \in Words /\ "bearer" \in Words /\ "Basic" \in Words /\ "t" \in Words
        /\ "u" \in Words
    BY DEF Words
  <2> QED BY <2>1
<1>2. Headers \subseteq Seq(Words)
  BY <1>1 DEF Headers
<1>3. \A file \in Files : file.size \in Nat
  <2>1. {0, 1, MaxMessageSize - 1, MaxMessageSize, MaxUploadSize, MaxUploadSize + 1}
             \subseteq Nat
    BY GatewayAssumption
  <2>2. NoFile.size \in Nat
    BY DEF NoFile
  <2> HIDE DEF NoFile
  <2>3. \A file \in [part : {TRUE}, name : FileNames,
                    size : {0, 1, MaxMessageSize - 1, MaxMessageSize, MaxUploadSize,
                            MaxUploadSize + 1}] :
           file.size \in Nat
    BY <2>1
  <2> QED BY <2>2, <2>3 DEF Files
<1>4. NoFile.size \in Nat
  BY DEF NoFile
<1>5. \A request \in HTTPRequests : request.auth \in Headers /\ request.file \in Files \cup {NoFile}
  BY DEF HTTPRequests
<1> QED BY <1>2, <1>3, <1>4, <1>5

\* A sequence given as a function.
LEMMA ListsAreSeqs ==
    ASSUME NEW S, NEW high, NEW n \in 0..high, NEW f \in [1..n -> S]
    PROVE  f \in Seq(S)
<1>1. n \in Nat
  OBVIOUS
<1> QED BY <1>1, SeqDef

\* The texts of the run are ones of ChunkCall and of IngestCall.
LEMMA TextsCovered ==
    /\ Texts \subseteq Seq({"x", Blank})
    /\ \A text \in ExtractedTexts : text \in Seq(Kinds) /\ Normalised(text)
<1>1. ASSUME NEW text \in Texts PROVE text \in Seq({"x", Blank})
  <2>1. PICK n \in 0..MaxLength : text \in [1..n -> {"x", Blank}]
    BY DEF Texts
  <2> QED BY <2>1, ListsAreSeqs
<1>2. ASSUME NEW text \in ExtractedTexts PROVE text \in Seq(Kinds) /\ Normalised(text)
  <2>1. /\ \E n \in 1..MaxExtracted : text \in [1..n -> Kinds]
        /\ text[1] # Blank /\ text[Len(text)] # Blank
        /\ \A i \in 2..Len(text) : text[i - 1] # Blank \/ text[i] # Blank
    BY DEF ExtractedTexts, Kinds
  <2>2. PICK n \in 1..MaxExtracted : text \in [1..n -> Kinds]
    BY <2>1
  <2>3. n \in 0..MaxExtracted /\ n \in Nat \ {0}
    OBVIOUS
  <2>4. text \in Seq(Kinds)
    BY <2>2, <2>3, ListsAreSeqs
  <2>5. text # << >>
    <3>1. 1 \in DOMAIN text
      BY <2>2, <2>3
    <3> QED BY <3>1
  <2> QED BY <2>1, <2>4, <2>5 DEF Normalised
<1> QED BY <1>1, <1>2

\* The words of the questions and chunks of the run.
Tokens == {"w", "v", "y"}

\* The chunks and hits of the run are ones of RetrieveCall.
LEMMA ChunksCovered ==
    ASSUME NEW f \in Match, NEW g \in Match, NEW h \in Match
    PROVE  /\ Stored(f, g, h) \subseteq ChunksOver(Tokens)
           /\ Indexed(f, g, h) \subseteq ChunksOver(Tokens)
           /\ IsFiniteSet(Stored(f, g, h))
           /\ \A c, d \in Stored(f, g, h) : c.doc = d.doc /\ c.index = d.index => c = d
<1> DEFINE M == [tokens : SUBSET Tokens, phrase : BOOLEAN, short : BOOLEAN]
<1>1. Match \subseteq M
  BY DEF Match, Tokens
<1>2. \A doc, index \in Int, m \in M : Chunk(doc, index, m) \in ChunksOver(Tokens)
  BY DEF Chunk, ChunksOver
<1>3. f \in M /\ g \in M /\ h \in M
  BY <1>1
<1> HIDE DEF M
<1>4. /\ Stored(f, g, h) \subseteq ChunksOver(Tokens)
      /\ Indexed(f, g, h) \subseteq ChunksOver(Tokens)
  BY <1>2, <1>3 DEF Stored, Indexed
<1>5. IsFiniteSet(Stored(f, g, h))
  <2> DEFINE a == Chunk(1, 0, f)
             b == Chunk(1, 1, g)
             c == Chunk(2, 0, h)
  <2> HIDE DEF a, b, c
  <2>1. IsFiniteSet({}) /\ IsFiniteSet({} \cup {a})
    BY FS_EmptySet, FS_AddElement
  <2>2. IsFiniteSet(({} \cup {a}) \cup {b})
    BY <2>1, FS_AddElement
  <2>3. IsFiniteSet((({} \cup {a}) \cup {b}) \cup {c})
    BY <2>2, FS_AddElement
  <2>4. Stored(f, g, h) = (({} \cup {a}) \cup {b}) \cup {c}
    BY DEF Stored, a, b, c
  <2> QED BY <2>3, <2>4
<1>6. \A c, d \in Stored(f, g, h) : c.doc = d.doc /\ c.index = d.index => c = d
  BY DEF Stored, Chunk
<1> QED BY <1>4, <1>5, <1>6

\* The environments and files of the run are ones of SettingsCall.
LEMMA SettingsCovered ==
    /\ Raws \subseteq RawValues
    /\ Environments \subseteq [CoreNames -> RawValues]
    /\ DotEnvs \subseteq Seq([valid : BOOLEAN, name : CoreNames, value : RawValues \ {Unset}])
<1> DEFINE Line == [valid : BOOLEAN, name : CoreNames, value : RawValues \ {Unset}]
<1>1. Unset \in RawValues /\ BlankValue \in RawValues \ {Unset}
  BY DEF RawValues, Unset, BlankValue
<1>2. Raws \subseteq RawValues
  <2>1. /\ Says(9, FALSE) \in RawValues /\ Says(12, TRUE) \in RawValues
        /\ Says(0, TRUE) \in RawValues /\ Says(0, FALSE) \in RawValues
        /\ Says(-3, FALSE) \in RawValues
    BY DEF Says, RawValues
  <2> QED BY <1>1, <2>1 DEF Raws
<1>3. CoreNames = {DialTimeoutNames[1], DialTimeoutNames[2], "VECTOR_SEARCH_ENABLED"}
  BY DEF CoreNames, DialTimeoutNames
<1>4. ASSUME NEW env \in Environments PROVE env \in [CoreNames -> RawValues]
  <2> DEFINE e(now, former) ==
                 [name \in {DialTimeoutNames[1], DialTimeoutNames[2], "VECTOR_SEARCH_ENABLED"} |->
                     CASE name = DialTimeoutNames[1] -> now
                       [] name = DialTimeoutNames[2] -> former
                       [] OTHER -> Says(1, FALSE)]
  <2>1. Environments = {e(now, former) : now, former \in Raws}
    BY DEF Environments
  <2> HIDE DEF e
  <2>2. PICK now \in Raws, former \in Raws : env = e(now, former)
    BY <2>1
  <2>3. now \in RawValues /\ former \in RawValues /\ Says(1, FALSE) \in RawValues
    <3>1. Says(1, FALSE) \in RawValues
      BY DEF Says, RawValues
    <3> QED BY <1>2, <3>1
  <2> QED BY <1>3, <2>2, <2>3 DEF e
<1>5. DotEnvLines \subseteq Line
  <2>1. Says(7, FALSE) \in RawValues \ {Unset} /\ Says(0, TRUE) \in RawValues \ {Unset}
    BY DEF Says, RawValues, Unset
  <2>2. DialTimeoutNames[1] \in CoreNames /\ DialTimeoutNames[2] \in CoreNames
    BY <1>3
  <2>3. [valid |-> FALSE, name |-> DialTimeoutNames[1], value |-> BlankValue] \in Line
    BY <1>1, <2>2
  <2>4. [valid : {TRUE}, name : {DialTimeoutNames[1], DialTimeoutNames[2]},
         value : {BlankValue, Says(7, FALSE), Says(0, TRUE)}] \subseteq Line
    BY <1>1, <2>1, <2>2
  <2> QED BY <2>3, <2>4 DEF DotEnvLines
<1>6. ASSUME NEW lines \in DotEnvs PROVE lines \in Seq(Line)
  <2> HIDE DEF Line
  <2>1. PICK n \in 0..2 : lines \in [1..n -> DotEnvLines]
    BY DEF DotEnvs
  <2>2. lines \in [1..n -> Line]
    BY <1>5, <2>1
  <2> QED BY <2>2, ListsAreSeqs
<1> QED BY <1>2, <1>4, <1>6

\* What the theorems of this module and of ChunkProofs ask of a call.
Covered ==
    /\ RouteCall(1..11, Words) /\ DecisionCall(1..11, Words) /\ GatewayCall(Words)
    /\ RetrieveCall(Tokens) /\ SettingsCall(CoreNames) /\ ListCall /\ ChunkCall /\ IngestCall

\* Every call of a run of MCAlgorithms fulfils what those theorems ask of it, so the
\* properties of the run are invariants of its specification.
THEOREM RunHolds ==
    Spec => [](/\ PassagesUnsplit /\ RepairSettles /\ PagesShowAll /\ ScopeHonoured
               /\ SkippedWithReason /\ BestEvidence /\ CallsAreSound /\ AnswersTellOutcome
               /\ SettingsUsable)
<1> USE DEF RouteCall, DecisionCall, GatewayCall, RetrieveCall, SettingsCall, ListCall,
            ChunkCall, IngestCall
<1>1. Init => Covered
  BY DEF Init, None, Covered
<1>2. Covered /\ [Next]_call => Covered'
  <2> SUFFICES ASSUME Covered, [Next]_call PROVE Covered'
    OBVIOUS
  <2>1. CASE CallRoute \/ CallDecide
    <3>1. PICK request \in Requests, owned \in SUBSET Library, keywords \in Keywords,
               answer \in Answers :
             call' = [what |-> "route", request |-> request, owned |-> owned,
                      keywords |-> keywords, answer |-> answer]
      <4>1. CASE CallRoute
        <5>1. Unanswered \in Answers /\ {} \in Keywords /\ {"small talk"} \in Keywords
          BY DEF Answers, Keywords
        <5> QED BY <4>1, <5>1 DEF CallRoute
      <4>2. CASE CallDecide
        <5>1. ASSUME NEW type \in {"auto", "all", "doc"}
              PROVE  [type |-> type, docIDs |-> {1},
                      message |-> [tag |-> "none", refs |-> {}, body |-> TRUE]] \in Requests
          <6>1. [tag |-> "none", refs |-> {}, body |-> TRUE] \in Messages
            BY DEF Messages
          <6>2. {1} \subseteq 1..3
            OBVIOUS
          <6> QED BY <6>1, <6>2 DEF Requests
        <5>2. Library \in SUBSET Library
          OBVIOUS
        <5> QED BY <4>2, <5>1, <5>2 DEF CallDecide
      <4> QED BY <2>1, <4>1, <4>2
    <3>2. request \in RequestsOver(1..11, Words) /\ owned \subseteq DocumentsOver(1..11)
          /\ Identified(owned, request.docIDs)
      BY RequestsCovered
    <3>3. answer \in [answered : BOOLEAN, json : BOOLEAN, use : BOOLEAN, tool : BOOLEAN,
                      query : BOOLEAN, says : SUBSET Words]
      BY AnswersCovered
    <3> QED BY <3>1, <3>2, <3>3 DEF Covered
  <2>2. CASE CallGateway
    <3>1. PICK request \in HTTPRequests :
             \E ending \in IF Dispatch(request).call = NoOp THEN {"none"}
                           ELSE EndingsOf(request) :
                 call' = [what |-> "gateway", request |-> request, ending |-> ending]
      BY <2>2 DEF CallGateway
    <3>2. PICK ending \in IF Dispatch(request).call = NoOp THEN {"none"}
                          ELSE EndingsOf(request) :
             call' = [what |-> "gateway", request |-> request, ending |-> ending]
      BY <3>1
    <3>3. request.auth \in Seq(Words) /\ request.file.size \in Nat
      BY HeadersCovered
    <3>4. Dispatch(request).call # NoOp => ending \in EndingsOf(request)
      OBVIOUS
    <3>5. /\ call'.what = "gateway" /\ call'.request = request /\ call'.ending = ending
      BY <3>2
    <3> HIDE <3>2
    <3>6. GatewayCall(Words)'
      BY <3>3, <3>4, <3>5
    <3> QED BY <3>5, <3>6 DEF Covered
  <2>3. CASE CallChunkText
    <3>1. PICK text \in Texts, chunkSize \in -1..(DefaultChunkSize + 1),
               overlap \in -1..(DefaultChunkSize + 1) :
             call' = [what |-> "chunk", text |-> text, chunkSize |-> chunkSize,
                      overlap |-> overlap]
      BY <2>3 DEF CallChunkText
    <3>2. text \in Seq({"x", Blank}) /\ chunkSize \in Int /\ overlap \in Int
      BY TextsCovered
    <3> QED BY <3>1, <3>2 DEF Covered
  <2>4. CASE CallIngest
    <3>1. PICK text \in ExtractedTexts, isPDF \in BOOLEAN :
             call' = [what |-> "ingest", text |-> text, isPDF |-> isPDF]
      BY <2>4 DEF CallIngest
    <3>2. text \in Seq(Kinds) /\ Normalised(text)
      BY TextsCovered
    <3> QED BY <3>1, <3>2 DEF Covered
  <2>5. CASE CallListDocuments
    <3>1. PICK n \in 0..MaxDocs, pageSize \in -1..(MaxPageSize + 1) :
             call' = [what |-> "list", docs |-> 1..n, pageSize |-> pageSize]
      BY <2>5 DEF CallListDocuments
    <3>2. 1..n \subseteq Int /\ IsFiniteSet(1..n) /\ pageSize \in Int
      <4>1. n \in Int /\ 1 \in Int /\ 1..n \subseteq Int /\ pageSize \in Int
        OBVIOUS
      <4>2. IsFiniteSet(1..n)
        BY <4>1, FS_Interval
      <4> QED BY <4>1, <4>2
    <3> QED BY <3>1, <3>2 DEF Covered
  <2>6. CASE CallRetrieve
    <3> PICK docs \in SUBSET {1, 2}, f \in Match, g \in Match, h \in Match, topK \in 0..2 :
             \E n \in 0..MaxHits : \E hits \in [1..n -> Indexed(f, g, h)] :
                 call' = [what |-> "retrieve", docs |-> docs, chunks |-> Stored(f, g, h),
                          hits |-> hits, topK |-> topK]
      BY <2>6 DEF CallRetrieve
    <3> PICK n \in 0..MaxHits :
             \E hits \in [1..n -> Indexed(f, g, h)] :
                 call' = [what |-> "retrieve", docs |-> docs, chunks |-> Stored(f, g, h),
                          hits |-> hits, topK |-> topK]
      OBVIOUS
    <3>1. PICK hits \in [1..n -> Indexed(f, g, h)] :
             call' = [what |-> "retrieve", docs |-> docs, chunks |-> Stored(f, g, h),
                      hits |-> hits, topK |-> topK]
      OBVIOUS
    <3>2. /\ Stored(f, g, h) \subseteq ChunksOver(Tokens)
          /\ Indexed(f, g, h) \subseteq ChunksOver(Tokens)
          /\ IsFiniteSet(Stored(f, g, h))
          /\ \A c, d \in Stored(f, g, h) : c.doc = d.doc /\ c.index = d.index => c = d
      BY ChunksCovered
    <3>3. hits \in Seq(ChunksOver(Tokens))
      <4>1. hits \in [1..n -> ChunksOver(Tokens)]
        BY <3>2
      <4> QED BY <4>1, ListsAreSeqs
    <3>4. topK \in Nat
      OBVIOUS
    <3> QED BY <3>1, <3>2, <3>3, <3>4 DEF Covered
  <2>7. CASE CallLoadCoreConfig
    <3>1. PICK env \in Environments, lines \in DotEnvs :
             call' = [what |-> "core settings", env |-> env, lines |-> lines]
      BY <2>7, Zenon DEF CallLoadCoreConfig
    <3>2. env \in [CoreNames -> RawValues]
          /\ lines \in Seq([valid : BOOLEAN, name : CoreNames, value : RawValues \ {Unset}])
      BY SettingsCovered
    <3> QED BY <3>1, <3>2 DEF Covered
  <2>8. CASE CallLoadGatewayConfig
    <3>1. PICK env \in HTTPTimeouts, file \in HTTPTimeouts :
             call' = [what |-> "gateway settings", env |-> env, file |-> file]
      BY <2>8, Zenon DEF CallLoadGatewayConfig
    <3>2. {env.read, env.write, file.read, file.write} \subseteq RawValues
      BY SettingsCovered DEF HTTPTimeouts
    <3> QED BY <3>1, <3>2 DEF Covered
  <2>9. CASE UNCHANGED call
    <3>1. call' = call
      BY <2>9
    <3>2. Covered
      OBVIOUS
    <3> HIDE DEF RouteCall, DecisionCall, GatewayCall, RetrieveCall, SettingsCall, ListCall,
                 ChunkCall, IngestCall
    <3>3. /\ RouteCall(1..11, Words)' /\ DecisionCall(1..11, Words)' /\ GatewayCall(Words)'
      BY <3>1, <3>2 DEF Covered, RouteCall, DecisionCall, GatewayCall
    <3>4. RetrieveCall(Tokens)' /\ SettingsCall(CoreNames)'
      BY <3>1, <3>2 DEF Covered, RetrieveCall, SettingsCall
    <3>5. ListCall' /\ ChunkCall' /\ IngestCall'
      BY <3>1, <3>2 DEF Covered, ListCall, ChunkCall, IngestCall
    <3> QED BY <3>3, <3>4, <3>5 DEF Covered
  <2> QED BY <2>1, <2>2, <2>3, <2>4, <2>5, <2>6, <2>7, <2>8, <2>9 DEF Next
<1>3. Covered => /\ PassagesUnsplit /\ RepairSettles /\ PagesShowAll /\ ScopeHonoured
                 /\ SkippedWithReason /\ BestEvidence /\ CallsAreSound /\ AnswersTellOutcome
                 /\ SettingsUsable
  <2> SUFFICES ASSUME Covered
               PROVE  /\ PassagesUnsplit /\ RepairSettles /\ PagesShowAll /\ ScopeHonoured
                      /\ SkippedWithReason /\ BestEvidence /\ CallsAreSound
                      /\ AnswersTellOutcome /\ SettingsUsable
    OBVIOUS
  <2> USE Covered DEF Covered
  <2> HIDE DEF RouteCall, DecisionCall, GatewayCall, RetrieveCall, SettingsCall, ListCall,
               ChunkCall, IngestCall
  <2>1. PassagesUnsplit /\ RepairSettles
    BY PassagesHold, RepairHolds
  <2>2. PagesShowAll /\ BestEvidence
    BY PagesHold, EvidenceHolds
  <2>3. ScopeHonoured /\ SkippedWithReason
    BY ScopeHolds, SkippedHolds
  <2>4. CallsAreSound /\ AnswersTellOutcome
    BY CallsHold, AnswersHold
  <2>5. SettingsUsable
    BY SettingsHold
  <2> QED BY <2>1, <2>2, <2>3, <2>4, <2>5
<1> QED BY <1>1, <1>2, <1>3, PTL DEF Spec

==============================================================================
