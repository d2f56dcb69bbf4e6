-------------------------- MODULE MCDocumentService --------------------------
(***************************************************************************)
(* Small instances of DocumentService.  Bobs are the requests that Bob     *)
(* sends; Alice sends the others.  Every deletion and every read names the *)
(* document that Alice uploads.                                            *)
(***************************************************************************)
EXTENDS DocumentService, FiniteSets, TLC

CONSTANTS
    Bobs,             \* the requests of the second user
    MaxServed         \* bound: how many of the requests are sent

MCUser == [r \in Requests |-> IF r \in Bobs THEN "bob" ELSE "alice"]

MCTarget == [r \in Deletes \cup Reads |-> CHOOSE d \in Uploads \ Bobs : TRUE]

\* State constraint: of all the requests at most MaxServed are sent, whichever
\* they are.
Served == Cardinality({r \in Requests : pc[r] # "new"}) <= MaxServed

\* Alice's deletions differ in nothing.
Alike == Permutations(Deletes \ Bobs)

=============================================================================
