---------------------------- MODULE MCVectorIndex ----------------------------
(***************************************************************************)
(* A small instance of VectorIndex: an upload's upsert, a question's       *)
(* search and the deletion of the document.                                *)
(***************************************************************************)
EXTENDS VectorIndex

MCKind == [c \in Calls |-> CASE c = "search" -> "search"
                             [] c = "delete" -> "delete"
                             [] OTHER -> "upsert"]

MCDoc == [c \in Calls |-> "doc1"]

=============================================================================
