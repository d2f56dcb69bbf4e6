---------------------------- MODULE MCAlgorithms ----------------------------
(***************************************************************************)
(* Algorithms, Ingest, Retrieval, Gateway and Settings over all inputs up  *)
(* to a small size.                                                        *)
(* A step chooses a function and its input; the properties compare what    *)
(* the function returns with what its callers rely on.                     *)
(***************************************************************************)
EXTENDS Algorithms, Ingest, Retrieval, Gateway, Settings

CONSTANTS
    MaxLength,          \* characters of a text
    MaxExtracted,       \* characters of an extracted text
    MaxDocs,            \* documents of a list
    MaxHits             \* hits of the vector index

VARIABLE call

Texts == UNION {[1..n -> {"x", Blank}] : n \in 0..MaxLength}

\* Normalised texts with anything an extractor may find.
ExtractedTexts ==
    {text \in UNION {[1..n -> {"letter", "mark", "common", "rare", "other", Blank}] :
                         n \in 1..MaxExtracted} :
        /\ text[1] # Blank /\ text[Len(text)] # Blank
        /\ \A i \in 2..Len(text) : text[i - 1] # Blank \/ text[i] # Blank}

\* Documents 1 and 2 share the name 11; document 3 is somebody else's.
Library == {[id |-> 1, name |-> 11], [id |-> 2, name |-> 11]}

Messages == [tag : {"none", "@all", "@doc"}, refs : SUBSET {1, 3, 11}, body : BOOLEAN]
Requests == [type : {"", "auto", "all", "doc", "other"}, docIDs : SUBSET (1..3),
             message : Messages]

Keywords == SUBSET {"small talk", "document", "continuation"}

Unanswered == [answered |-> FALSE, json |-> FALSE, use |-> FALSE, tool |-> FALSE,
               query |-> FALSE, says |-> {}]
Answers ==
    {Unanswered}
    \cup [answered : {TRUE}, json : {TRUE}, use : BOOLEAN, tool : BOOLEAN,
          query : BOOLEAN, says : {{}}]
    \cup [answered : {TRUE}, json : {FALSE}, use : {FALSE}, tool : {FALSE},
          query : {FALSE}, says : SUBSET {"skip", "use", "yes", "no"}]

\* Five ways a chunk may match the question {"w", "v"}.
Question == {"w", "v"}
Match == {[tokens |-> {"y"}, phrase |-> FALSE, short |-> FALSE],
          [tokens |-> {"y"}, phrase |-> FALSE, short |-> TRUE],
          [tokens |-> {"y"}, phrase |-> TRUE, short |-> TRUE],
          [tokens |-> {"w"}, phrase |-> FALSE, short |-> TRUE],
          [tokens |-> {"w", "v"}, phrase |-> TRUE, short |-> FALSE]}

Chunk(doc, index, match) ==
    [doc |-> doc, index |-> index, tokens |-> match.tokens,
     phrase |-> match.phrase, short |-> match.short]

\* The store's chunks; the index also holds an old one of document 1 and one
\* of a document outside the scope.
Stored(f, g, h) == {Chunk(1, 0, f), Chunk(1, 1, g), Chunk(2, 0, h)}
Indexed(f, g, h) ==
    Stored(f, g, h) \cup {Chunk(1, 7, f), Chunk(3, 0, h)}

\* Every path with every method, header and body; the files and the queries
\* only where they are looked at.
Paths == {route.path : route \in ApiRoutes} \cup
         {<< >>, <<"auth">>, <<"documents", "">>, <<"documents", "ID", "pages">>,
          <<"documents", "ID", "">>, <<"documents", "upload", "">>,
          <<"documents", "ID", "download", "">>,
          <<"threads", "">>, <<"threads", "ID">>, <<"threads", "ID", "turns", "ID">>}
Methods == {"GET", "POST", "PUT", "DELETE", "OPTIONS"}
Headers == {<< >>, <<"Bearer">>, <<"Bearer", "t">>, <<"bearer", "t">>, <<"Basic", "t">>,
            <<"Bearer", "t", "u">>}
Bodies == {"none", "partial", "unknown field", "object", "object and more"}
Stems == [stem : BOOLEAN, dot : BOOLEAN, last : {"."} \cup Supported \cup {".exe"}]
FileNames == {name \in Stems : (name.stem \/ name.dot) /\ (name.dot \/ name.last = ".")}
NoFile == [part |-> FALSE, name |-> [stem |-> TRUE, dot |-> FALSE, last |-> "."], size |-> 0]
Files == {NoFile} \cup
         [part : {TRUE}, name : FileNames,
          size : {0, 1, MaxMessageSize - 1, MaxMessageSize, MaxUploadSize,
                  MaxUploadSize + 1}]

HTTPRequests ==
    [path : Paths, method : Methods, auth : Headers, body : Bodies, file : {NoFile},
     confirm : {""}]
    \cup [path : {<<"documents", "upload">>}, method : {"POST"}, auth : Headers,
          body : {"none"}, file : Files, confirm : {""}]
    \cup [path : {<<"documents", "ID">>}, method : {"GET", "DELETE"}, auth : Headers,
          body : {"none"}, file : {NoFile}, confirm : {"", "true", "TRUE", "1", "yes"}]

\* Raw values of a setting, and files of up to two lines.
Raws == {Unset, BlankValue, Says(9, FALSE), Says(12, TRUE), Says(0, TRUE), Says(0, FALSE),
         Says(-3, FALSE)}
DotEnvLines ==
    {[valid |-> FALSE, name |-> DialTimeoutNames[1], value |-> BlankValue]}
    \cup [valid : {TRUE}, name : {DialTimeoutNames[1], DialTimeoutNames[2]},
          value : {BlankValue, Says(7, FALSE), Says(0, TRUE)}]
DotEnvs == UNION {[1..n -> DotEnvLines] : n \in 0..2}
Environments ==
    {[name \in {DialTimeoutNames[1], DialTimeoutNames[2], "VECTOR_SEARCH_ENABLED"} |->
        CASE name = DialTimeoutNames[1] -> now
          [] name = DialTimeoutNames[2] -> former
          [] OTHER -> Says(1, FALSE)] : now, former \in Raws}
HTTPTimeouts == [read : Raws, write : Raws]

-----------------------------------------------------------------------------

None == [what |-> "none"]

Init == call = None

CallChunkText ==
    \E text \in Texts, chunkSize, overlap \in -1..(DefaultChunkSize + 1) :
        call' = [what |-> "chunk", text |-> text, chunkSize |-> chunkSize,
                 overlap |-> overlap]

\* An extracted text of a PDF or of another file.
CallIngest ==
    \E text \in ExtractedTexts, isPDF \in BOOLEAN :
        call' = [what |-> "ingest", text |-> text, isPDF |-> isPDF]

CallListDocuments ==
    \E n \in 0..MaxDocs, pageSize \in -1..(MaxPageSize + 1) :
        call' = [what |-> "list", docs |-> 1..n, pageSize |-> pageSize]

\* A request with an answer of the model, for small talk, which would be
\* skipped, and for anything else, which would be retrieved.
CallRoute ==
    \E request \in Requests, owned \in SUBSET Library,
       keywords \in {{}, {"small talk"}} :
        call' = [what |-> "route", request |-> request, owned |-> owned,
                 keywords |-> keywords, answer |-> Unanswered]

\* Every answer of the model, for the three kinds of scope.
CallDecide ==
    \E type \in {"auto", "all", "doc"}, keywords \in Keywords, answer \in Answers :
        call' = [what |-> "route",
                 request |-> [type |-> type, docIDs |-> {1},
                              message |-> [tag |-> "none", refs |-> {}, body |-> TRUE]],
                 owned |-> Library, keywords |-> keywords, answer |-> answer]

CallRetrieve ==
    \E docs \in SUBSET {1, 2}, f, g, h \in Match, topK \in 0..2 :
        \E n \in 0..MaxHits : \E hits \in [1..n -> Indexed(f, g, h)] :
            call' = [what |-> "retrieve", docs |-> docs, chunks |-> Stored(f, g, h),
                     hits |-> hits, topK |-> topK]

\* A request that becomes a call, with every way the call may end.
CallGateway ==
    \E request \in HTTPRequests :
        \E ending \in IF Dispatch(request).call = NoOp THEN {"none"} ELSE EndingsOf(request) :
            call' = [what |-> "gateway", request |-> request, ending |-> ending]

\* The start of either process.
CallLoadCoreConfig ==
    \E env \in Environments, lines \in DotEnvs :
        call' = [what |-> "core settings", env |-> env, lines |-> lines]

CallLoadGatewayConfig ==
    \E env, file \in HTTPTimeouts :
        call' = [what |-> "gateway settings", env |-> env, file |-> file]

Next ==
    /\ call = None
    /\ \/ CallChunkText \/ CallIngest \/ CallListDocuments \/ CallRoute \/ CallDecide
       \/ CallRetrieve \/ CallGateway \/ CallLoadCoreConfig \/ CallLoadGatewayConfig

Spec == Init /\ [][Next]_call

-----------------------------------------------------------------------------

\* No passage is lost or torn: as many characters as two neighbouring chunks
\* share and one more are always whole in some chunk, so nothing that short
\* escapes the search; and no chunk is larger than asked for, whatever size and
\* overlap ChunkText is called with.
PassagesUnsplit ==
    call.what = "chunk" =>
        LET chunks == ChunkText(call.text, call.chunkSize, call.overlap)
            black == {p \in DOMAIN call.text : call.text[p] # Blank}
            length == IF black = {} THEN 0 ELSE Max(black) - Min(black) + 1
            size == ChunkSize(call.chunkSize)
            shared == IF call.overlap \in 0..(size - 1) THEN call.overlap
                      ELSE IF DefaultOverlap < size THEN DefaultOverlap ELSE 0
        IN /\ \A i \in DOMAIN chunks : chunks[i] # {} /\ Cardinality(chunks[i]) <= size
           /\ \A a, b \in 1..length :
                /\ {a + Min(black) - 1, b + Min(black) - 1} \subseteq black
                /\ a <= b /\ b - a <= shared
                => \E i \in DOMAIN chunks : a..b \subseteq chunks[i]

\* A question does not repair a document again that an upload or a repair has
\* just cut from an accepted text, which would cost every question another
\* extraction and replace the chunks under other questions: no text file at
\* all, and a PDF only if its text has a character that IsReadableText does not
\* count, be it an ASCII symbol it does not list ($ = | and the like), a Han
\* character that is not common, or the name of a PDF's own keyword.  A PDF of
\* one chunk is not taken for an unreadable one, and one that says endobj in
\* its first chunk is repaired for good.
RepairSettles ==
    call.what = "ingest" /\ Extracts(call.isPDF, call.text) =>
        LET chunks == BuildChunks(call.text)
            again == ShouldRepairChunks(call.isPDF, chunks)
            odd == Count(call.text, {"mark", "other", "rare"}) > 0
        IN /\ chunks # << >>
           /\ again => call.isPDF /\ odd
           /\ again /\ Len(call.text) <= ChunkRunes =>
                  \/ "mark" \in Range(call.text)
                  \/ LooksLikeCorruptedPDFText(call.text)
           /\ call.isPDF /\ "mark" \in Range(chunks[1]) => again

\* Turning the pages of an unchanged list from 1 until one is empty shows every
\* document once, the newest first, with whatever page size is asked for, and
\* no page is longer than MaxPageSize.
PagesShowAll ==
    call.what = "list" =>
        LET page(n) == ListDocuments(call.docs, n, call.pageSize)
            pages == Cardinality({n \in 1..(Cardinality(call.docs) + 1) : page(n) # << >>})
            shown == FlattenSeq([n \in 1..pages |-> page(n)])
        IN /\ \A n \in 1..pages : page(n) # << >> /\ Len(page(n)) <= MaxPageSize
           /\ Range(shown) = call.docs
           /\ \A i, j \in DOMAIN shown : i < j => shown[i] > shown[j]

\* The ids and names a request restricts itself to: explicit ids come before
\* the tag of the message.
Names(request) ==
    CASE request.type = "doc" -> request.docIDs
      [] request.type \in {"", "auto"} /\ request.message.tag = "@doc" ->
            request.message.refs
      [] OTHER -> {}

Restricted(request) ==
    \/ request.type = "doc"
    \/ request.type \in {"", "auto"} /\ request.message.tag = "@doc"

\* A request restricted to documents is answered from those of them that its
\* user owns, all of them and always with retrieval, even if it looks like
\* small talk and whatever the model would say, and is refused if there is
\* none; any other one sees everything its user owns.
ScopeHonoured ==
    call.what = "route" =>
        LET route == Route(call.request, call.owned, call.keywords, call.answer)
            named == {doc \in call.owned :
                          {doc.id, doc.name} \cap Names(call.request) # {}}
        IN IF Restricted(call.request)
             THEN IF named = {}
                    THEN route.refused
                    ELSE \/ route.refused
                            /\ call.request.message = [tag |-> "none", refs |->
                                   call.request.message.refs, body |-> FALSE]
                         \/ /\ ~route.refused /\ route.selected = named
                            /\ route.decision.use
             ELSE route.selected = IF route.refused THEN {} ELSE call.owned

\* Retrieval is skipped only for want of documents, for small talk, or on the
\* model's word about a question without any keyword; the search is for the
\* model's words only if the model was asked.  A model that cannot be reached,
\* or that says neither, never leaves a question without evidence.
SkippedWithReason ==
    call.what = "route" =>
        LET route == Route(call.request, call.owned, call.keywords, call.answer)
            asked == /\ call.request.type \in {"", "auto"} /\ ~Restricted(call.request)
                     /\ call.keywords = {} /\ call.answer.answered
            denied == \/ call.answer.json /\ ~call.answer.use /\ ~call.answer.tool
                      \/ ~call.answer.json /\ "skip" \in call.answer.says
                      \/ call.answer.says = {"no"}
        IN ~route.refused =>
            /\ ~route.decision.use =>
                  \/ route.selected = {}
                  \/ call.request.type \in {"", "auto"} /\ "small talk" \in call.keywords
                  \/ asked /\ denied
            /\ route.decision.query = "model" => asked

\* Evidence comes from the selected documents, each chunk once and no more than
\* topK; if the index has nothing to offer, the best chunks of the store are
\* found: none that is left out scores better than one that is shown.
BestEvidence ==
    call.what = "retrieve" =>
        LET evidence == RetrieveChunks(Question, call.docs, call.chunks, call.hits, call.topK)
            shown == {evidence[i] : i \in DOMAIN evidence}
            inScope == {hit \in Range(call.hits) : hit.doc \in call.docs}
            left == {c \in call.chunks \ shown :
                         c.doc \in call.docs /\ ScoreChunk(Question, c) > 0}
            k == IF call.topK = 0 THEN DefaultTopK ELSE call.topK
        IN /\ \A c \in shown : c.doc \in call.docs
           /\ Cardinality(shown) = Len(evidence) /\ Len(evidence) <= k
           /\ IF inScope # {}
                THEN shown \subseteq inScope /\ Len(evidence) = Min({k, Cardinality(inScope)})
                ELSE /\ shown \subseteq call.chunks
                     /\ left # {} => Len(evidence) = k
                     /\ \A c \in shown, d \in left :
                            ScoreChunk(Question, c) >= ScoreChunk(Question, d)

\* What reaches the core is what the sender may ask for: a protected operation
\* comes with the token of the header, and only a bearer token, and nothing that
\* may change anything is a GET.  The gateway and the core judge a file's name
\* by rules of their own; of the files the gateway lets pass the core can take
\* exactly those that are not empty and fit in a message of gRPC.
CallsAreSound ==
    call.what = "gateway" =>
        LET request == call.request
            made == Dispatch(request).call
        IN made # NoOp =>
            /\ Protected(request.path) =>
                  /\ made.token # << >>
                  /\ request.auth \in {<<scheme>> \o made.token :
                                          scheme \in {"Bearer", "bearer"}}
            /\ Effect(made.op, call.ending) = "nothing" \/ request.method # "GET"
            /\ made.op = "UploadDocument" =>
                  ("done" \in EndingsOf(request)
                      <=> request.file.size \in 1..(MaxMessageSize - 1))

\* Calls that are answered with the fault of the sender although something may
\* have been changed: a provider that was not saved, and the record of a file
\* that could not be read.
Blamed == {<<"SetConfig", "unsaved">>, <<"UploadDocument", "no text">>,
           <<"UploadDocument", "model not configured">>}

\* Calls that are answered with success although not all of it may have been
\* done: a deletion that left the vectors of the document in the index.
Unnoticed == {<<"DeleteDocument", "vectors left">>}

\* The status tells what became of a call.  Success means that every change the
\* operation makes was made, but for Unnoticed; a fault of the sender that none
\* was, whatever step of the handler found it, but for Blamed; and a failure of
\* the service is never the sender's to mend.  A stream tells by its events.
AnswersTellOutcome ==
    call.what = "gateway" =>
        LET op == Dispatch(call.request).call.op
            ending == call.ending
            status == Response(call.request, ending)
            effect == Effect(op, ending)
        IN op \notin {"none", "CreateTurnStream"} =>
            /\ ending = "done" => status \in 200..299
            /\ status \in 200..299 /\ <<op, ending>> \notin Unnoticed =>
                  /\ ending = "done"
                  /\ effect = IF Writing(op) = {} THEN "nothing" ELSE "all"
            /\ status \in 400..499 /\ <<op, ending>> \notin Blamed => effect = "nothing"
            /\ status \in 500..599 =>
                  ending \notin {"bad input", "not found", "not the owner", "taken",
                                 "unknown caller", "no text"}

\* Whatever the environment and the files say, both processes start with
\* timeouts above zero, for none at all would mean to wait for ever; the number
\* they were told to use is used unless it is none, and one under the present
\* name of a setting counts before one under its former name, even in .env.
\* Settings that are no use leave the gateway able to answer every request in
\* time, a slow body included, but for an upload that takes its 45 s.
SettingsUsable ==
    /\ call.what = "core settings" =>
          LET config == LoadCoreConfig(call.env, call.lines)
              present == call.env[DialTimeoutNames[1]]
              former == call.env[DialTimeoutNames[2]]
              inFile == {line \in Range(call.lines) :
                            line.valid /\ line.value.is = "text"}
          IN /\ config.dialTimeout > 0
             /\ call.env["VECTOR_SEARCH_ENABLED"] = Says(1, FALSE) => config.vectorSearch
             /\ present.number > 0 => config.dialTimeout = present.number
             /\ present.is # "text" /\ inFile = {} /\ former.number > 0 =>
                    config.dialTimeout = former.number
             /\ present.is = "unset" /\ (\E line \in inFile : line.name = DialTimeoutNames[1])
                    /\ (\A line \in Range(call.lines) :
                            line.name = DialTimeoutNames[1] => line.value.is = "text") =>
                    config.dialTimeout \in {line.value.number : line \in inFile} \cup {8}
    /\ call.what = "gateway settings" =>
          LET config == LoadGatewayConfig(call.env, call.file)
              told(env, file) == IF IsNumber(env) THEN env.number
                                 ELSE IF IsNumber(file) THEN file.number ELSE 0
          IN /\ config.read > 0 /\ config.write > 0
             /\ told(call.env.read, call.file.read) > 0 =>
                    config.read = told(call.env.read, call.file.read)
             /\ \A d \in Deadlines :
                    /\ told(call.env.read, call.file.read) <= 0
                    /\ told(call.env.write, call.file.write) <= 0
                    => AnsweredInTime(config, d[2]) \/ d[1] = "UploadDocument"

\* A file of up to 10 MB is not turned away for its size, as the API's
\* description says.
AdvertisedSizeAccepted ==
    call.what = "gateway" /\ Dispatch(call.request).call.op = "UploadDocument" =>
        call.ending # "too large"

=============================================================================
