----------------------------- MODULE Algorithms -----------------------------
(***************************************************************************)
(* The pure functions around the document service that count: ChunkText,   *)
(* which cuts a document's text, and the pages of ListDocuments.           *)
(*                                                                         *)
(* A text is a sequence of characters, reduced to blank or not.  A chunk   *)
(* is the set of the positions of the trimmed text that it contains.       *)
(***************************************************************************)
EXTENDS Integers, FiniteSets, Sequences, SequencesExt, Ordering

CONSTANTS
    DefaultChunkSize,   \* 600, for a chunk size that makes no sense
    DefaultOverlap,     \* 120, for an overlap that makes no sense
    DefaultPageSize,    \* 50
    MaxPageSize         \* 100

ASSUME AlgorithmsAssumption ==
    /\ DefaultOverlap \in Nat /\ DefaultChunkSize \in Nat
    /\ DefaultOverlap < DefaultChunkSize
    /\ DefaultPageSize \in 1..MaxPageSize /\ MaxPageSize \in Nat

-----------------------------------------------------------------------------
(* Chunks. *)

Blank == " "

\* strings.TrimSpace of the positions ps of text: what is left lies between
\* two characters that are not blank.
TrimSpace(text, ps) ==
    LET black == {p \in ps : text[p] # Blank}
    IN {p \in ps : \E a, b \in black : a <= p /\ p <= b}

ChunkSize(chunkSize) == IF chunkSize <= 0 THEN DefaultChunkSize ELSE chunkSize

\* Mutant: an overlap as large as the chunk is accepted.
OverlapOffByOne(size, overlap) ==
    IF overlap < 0 \/ overlap > size THEN DefaultOverlap ELSE overlap

Overlap(size, overlap) ==
    IF overlap < 0 \/ overlap >= size THEN DefaultOverlap ELSE overlap

Step(size, overlap) == IF size - overlap <= 0 THEN size ELSE size - overlap

\* The position after the last of the window that starts after `start`.
WindowEnd(start, size, length) == Min({start + size, length})

\* ChunkText.  The loop moves its start by `step` and ends with the first
\* window that reaches the end of the text; a blank window is no chunk.
ChunkText(text, chunkSize, overlap) ==
    LET trimmed == SubSeq(text, Min(TrimSpace(text, DOMAIN text)),
                                Max(TrimSpace(text, DOMAIN text)))
        length == Len(trimmed)
        size == ChunkSize(chunkSize)
        step == Step(size, Overlap(size, overlap))
        window(k) == TrimSpace(trimmed, (k * step + 1)..WindowEnd(k * step, size, length))
        kept == {k \in 0..(length - 1) :
                     /\ k = 0 \/ WindowEnd((k - 1) * step, size, length) < length
                     /\ window(k) # {}}
    IN IF TrimSpace(text, DOMAIN text) = {} THEN << >>
       ELSE IF length <= size THEN <<DOMAIN trimmed>>
       ELSE [i \in 1..Cardinality(kept) |-> window(Ascending(kept)[i])]

-----------------------------------------------------------------------------
(* ListDocuments.  A document is its time of creation. *)

NewestFirst(docs) == InOrder(docs, [d \in docs |-> {e \in docs : e > d}])

\* Mutant: the page size has no upper limit.
PageSizeUncapped(pageSize) ==
    IF pageSize <= 0 THEN DefaultPageSize ELSE pageSize

PageSize(pageSize) ==
    IF pageSize <= 0 \/ pageSize > MaxPageSize THEN DefaultPageSize ELSE pageSize

ListDocuments(docs, page, pageSize) ==
    LET size == PageSize(pageSize)
        number == IF page <= 0 THEN 1 ELSE page
        start == Min({(number - 1) * size, Cardinality(docs)})
        end == Min({start + size, Cardinality(docs)})
    IN SubSeq(NewestFirst(docs), start + 1, end)

=============================================================================
