------------------------------- MODULE Ingest -------------------------------
(***************************************************************************)
(* Which texts become documents, and which documents a question repairs:   *)
(* the extractor's verdict on a text, its chunks, and shouldRepairChunks,  *)
(* which looks at the first chunks of a PDF.                               *)
(*                                                                         *)
(* A text is a sequence of characters: "letter" for an ASCII letter or     *)
(* digit or one of the punctuation marks that IsReadableText lists,        *)
(* "common" and "rare" for a Han character that is in commonHanChars or    *)
(* not, "mark" for a whole word endstream or endobj, "other" for anything  *)
(* else, such as an accented letter or $ & = @ \ ^ ` | ~, which are not   *)
(* listed, or Blank.  Texts are normalised: no blank at either end and no  *)
(* two in a row.                                                           *)
(***************************************************************************)
EXTENDS Algorithms

CONSTANTS
    MinReadable,    \* 16, the shortest text that is readable
    MinHan,         \* 20, the fewest Han characters to judge by
    ChunkRunes,     \* 700
    ChunkOverlap,   \* 120
    SampleChunks    \* 3, the chunks looked at

ASSUME IngestAssumption ==
    /\ {MinReadable, MinHan, ChunkRunes, ChunkOverlap, SampleChunks} \subseteq Nat \ {0}
    /\ ChunkOverlap < ChunkRunes /\ MinReadable < ChunkRunes

Count(text, kinds) == Cardinality({p \in DOMAIN text : text[p] \in kinds})

Readable == {"letter", "mark", "common", "rare", Blank}

\* At least 45 % of its characters are readable: blank, Han, ASCII letters and
\* digits, or listed punctuation.
IsReadableText(text) ==
    /\ Len(text) >= MinReadable
    /\ 100 * Count(text, Readable) >= 45 * Len(text)

\* Less than 8 % of its Han characters are common.
LooksLikeCorruptedPDFText(text) ==
    LET han == Count(text, {"common", "rare"})
    IN \/ text = << >>
       \/ han >= MinHan /\ 100 * Count(text, {"common"}) < 8 * han

\* The Python service's extractors: a text file must say something, a PDF
\* something readable.
Extracts(isPDF, text) == IF isPDF THEN IsReadableText(text) ELSE text # << >>

\* The contents of the chunks a text is cut into.
BuildChunks(text) ==
    LET windows == ChunkText(text, ChunkRunes, ChunkOverlap)
    IN [i \in DOMAIN windows |->
           SubSeq(text, Min(windows[i]), Max(windows[i]))]

\* The first chunks, none of which is empty, and a blank between any two.
Sample(chunks) ==
    FlattenSeq([i \in 1..Min({SampleChunks, Len(chunks)}) |->
                   IF i = 1 THEN chunks[i] ELSE <<Blank>> \o chunks[i]])

\* Mutant: every document is looked at as if it were a PDF.
ShouldRepairAnyType(isPDF, chunks) ==
    LET sample == Sample(chunks)
    IN \/ Count(sample, {"mark"}) > 0
       \/ LooksLikeCorruptedPDFText(sample)
       \/ ~IsReadableText(sample)

ShouldRepairChunks(isPDF, chunks) ==
    LET sample == Sample(chunks)
    IN \/ chunks = << >>
       \/ isPDF /\ \/ Count(sample, {"mark"}) > 0
                   \/ LooksLikeCorruptedPDFText(sample)
                   \/ ~IsReadableText(sample)

=============================================================================
