----------------------------- MODULE Retrieval -----------------------------
(***************************************************************************)
(* How a question finds its evidence: the functions that CreateTurn and    *)
(* CreateTurnStream call between the lookup of the thread and the answer,  *)
(* all without side effects.                                               *)
(*                                                                         *)
(* An owned document has an id and a name; ids are numbers, so that they   *)
(* are ordered.  A message is the tag it begins with, the references of    *)
(* its @doc tag, and whether any text follows.  A question is its set of   *)
(* tokens for the search, and the set of keyword groups it contains for    *)
(* the decision.                                                           *)
(***************************************************************************)
EXTENDS Integers, FiniteSets, Sequences, SequencesExt, Ordering

CONSTANTS
    DefaultTopK,        \* 5, in retrieveChunks
    LexicalTopK         \* 4, in RetrieveTopChunks

ASSUME RetrievalAssumption == DefaultTopK \in Nat \ {0} /\ LexicalTopK \in Nat \ {0}

-----------------------------------------------------------------------------
(* The scope. *)

Refused == [type |-> "error", docIDs |-> {}]

\* parseRequestScopeType: the type handed to ResolveScope and the mode.
ValidScopeType(type) == type \in {"", "auto", "all", "doc"}
ExplicitType(type) == IF type = "auto" THEN "" ELSE type
RetrievalMode(type) == IF type \in {"all", "doc"} THEN "force" ELSE "auto"

ScopeOf(docIDs) ==
    IF docIDs = {} THEN Refused ELSE [type |-> "doc", docIDs |-> docIDs]

\* Mutant: names are not looked at.
ReferencedById(refs, owned) == {doc \in owned : doc.id \in refs}

\* The documents that a @doc tag means, by id or by name.
Referenced(refs, owned) == {doc \in owned : doc.id \in refs \/ doc.name \in refs}

\* ResolveScope.  Explicit ids are taken as they are.
ResolveScope(message, explicitType, docIDs, owned) ==
    IF message.tag = "none" /\ ~message.body THEN Refused
    ELSE CASE explicitType = "all" -> [type |-> "all", docIDs |-> docIDs]
           [] explicitType = "doc" -> ScopeOf(docIDs)
           [] explicitType = "" /\ message.tag = "@doc" ->
                 ScopeOf({doc.id : doc \in Referenced(message.refs, owned)})
           [] OTHER -> [type |-> "all", docIDs |-> {}]

\* resolveSelectedDocs.
SelectedDocs(scope, owned) ==
    IF scope.type = "all" THEN owned ELSE {doc \in owned : doc.id \in scope.docIDs}

-----------------------------------------------------------------------------
(* The decision whether to retrieve. *)

\* ruleBasedRetrievalDecision: small talk is looked for first.
Rules(keywords) ==
    IF "small talk" \in keywords THEN "skip"
    ELSE IF keywords \cap {"document", "continuation"} # {} THEN "use" ELSE "undecided"

\* Mutant: the call of the tool is not looked at.
ParseDecisionNoTool(answer) ==
    CASE answer.json -> IF answer.use THEN "use" ELSE "skip"
      [] ~answer.json /\ "skip" \in answer.says -> "skip"
      [] ~answer.json /\ "skip" \notin answer.says
           /\ answer.says \cap {"use", "yes"} # {} -> "use"
      [] ~answer.json /\ answer.says = {"no"} -> "skip"
      [] OTHER -> "undecided"

\* parseLLMRetrievalDecision.  An answer is JSON, or a text that says some of
\* "skip", "use", "yes" and "no"; a text that says "skip" in Chinese says
\* "use" too, so the order counts.
ParseDecision(answer) ==
    CASE answer.json -> IF answer.use \/ answer.tool THEN "use" ELSE "skip"
      [] ~answer.json /\ "skip" \in answer.says -> "skip"
      [] ~answer.json /\ "skip" \notin answer.says
           /\ answer.says \cap {"use", "yes"} # {} -> "use"
      [] ~answer.json /\ answer.says = {"no"} -> "skip"
      [] OTHER -> "undecided"

Decision(mode, use, query) == [mode |-> mode, use |-> use, query |-> query]

\* decideRetrieval.  `answer` is what the model says if it is asked, with
\* answered = FALSE when the call fails.
DecideRetrieval(scope, requestMode, selected, keywords, answer) ==
    LET mode == IF scope.type = "doc" THEN "force" ELSE requestMode
        parsed == IF answer.answered THEN ParseDecision(answer) ELSE "undecided"
        query == IF answer.json /\ answer.query THEN "model" ELSE "question"
    IN CASE selected = {} -> Decision(mode, FALSE, "question")
         [] selected # {} /\ mode = "force" -> Decision(mode, TRUE, "question")
         [] selected # {} /\ mode = "auto" /\ Rules(keywords) # "undecided" ->
               Decision(mode, Rules(keywords) = "use", "question")
         [] selected # {} /\ mode = "auto" /\ Rules(keywords) = "undecided" ->
               IF parsed = "undecided" THEN Decision(mode, TRUE, "question")
                                       ELSE Decision(mode, parsed = "use", query)

\* What CreateTurn makes of a request before it retrieves anything.
Route(request, owned, keywords, answer) ==
    LET scope == ResolveScope(request.message, ExplicitType(request.type),
                              request.docIDs, owned)
        selected == SelectedDocs(scope, owned)
        refused == \/ ~ValidScopeType(request.type)
                   \/ scope = Refused
                   \/ scope.type = "doc" /\ selected = {}
    IN [refused |-> refused,
        selected |-> IF refused THEN {} ELSE selected,
        decision |-> DecideRetrieval(scope, RetrievalMode(request.type),
                                     selected, keywords, answer)]

-----------------------------------------------------------------------------
(* The search. *)

\* scoreChunk.  Tokens are distinct, so that each match counts once, for
\* 10 + 1; a chunk may contain the question as a phrase, or be short.
ScoreChunk(question, chunk) ==
    IF chunk.tokens = {}
      THEN 0
      ELSE 11 * Cardinality(question \cap chunk.tokens)
           + (IF chunk.phrase THEN 3 ELSE 0) - (IF chunk.short THEN 2 ELSE 0)

\* The order of RetrieveTopChunks: score, then document, then index.
Before(question, c, d) ==
    LET x == ScoreChunk(question, c)
        y == ScoreChunk(question, d)
    IN \/ x > y
       \/ x = y /\ c.doc < d.doc
       \/ x = y /\ c.doc = d.doc /\ c.index < d.index

FirstOf(seq, k) == SubSeq(seq, 1, Min({k, Len(seq)}))

\* RetrieveTopChunks, over the chunks the store holds.
RetrieveTopChunks(question, docs, chunks, topK) ==
    LET scored == {c \in chunks : c.doc \in docs /\ ScoreChunk(question, c) > 0}
        before == [c \in scored |-> {d \in scored : Before(question, d, c)}]
    IN FirstOf(InOrder(scored, before), IF topK <= 0 THEN LexicalTopK ELSE topK)

\* The hits of the vector index that count: of a selected document, and the
\* first with their chunk.
Admitted(docs, hits) ==
    LET first == {i \in DOMAIN hits :
                      /\ hits[i].doc \in docs
                      /\ \A j \in 1..(i - 1) : hits[j] # hits[i]}
    IN [n \in 1..Cardinality(first) |-> hits[Ascending(first)[n]]]

\* Mutant: no second search when no hit is admitted.
RetrieveChunksOnce(question, docs, chunks, hits, topK) ==
    LET k == IF topK <= 0 THEN DefaultTopK ELSE topK
    IN CASE docs = {} -> << >>
         [] docs # {} /\ hits # << >> -> FirstOf(Admitted(docs, hits), k)
         [] OTHER -> RetrieveTopChunks(question, docs, chunks, k)

\* retrieveChunks.  `hits` is the answer of the vector index, empty also when
\* embedding or searching fails; a hit carries its chunk along, which need
\* not be one the store holds.
RetrieveChunks(question, docs, chunks, hits, topK) ==
    LET k == IF topK <= 0 THEN DefaultTopK ELSE topK
        admitted == FirstOf(Admitted(docs, hits), k)
    IN CASE docs = {} -> << >>
         [] docs # {} /\ admitted # << >> -> admitted
         [] OTHER -> RetrieveTopChunks(question, docs, chunks, k)

=============================================================================
