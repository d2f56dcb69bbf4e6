--------------------------- MODULE DocumentPromise ---------------------------
(***************************************************************************)
(* What the document service promises about one document to the user who   *)
(* uploaded it, whatever runs concurrently and whenever the process dies:  *)
(*                                                                         *)
(*   - once the upload has been acknowledged, the file is in the object    *)
(*     store and state.json lists the document as ready, until the owner   *)
(*     asks for its deletion;                                              *)
(*   - once a deletion has been acknowledged the file is gone for good.    *)
(*                                                                         *)
(* It promises nothing about the listing of a document whose deletion has  *)
(* been asked for, or whose upload was never acknowledged.                 *)
(***************************************************************************)
CONSTANT Document

VARIABLES
    promise,   \* document -> "none", "kept", "withdrawn" or "erased"
    file,      \* documents whose file is in the object store
    listed     \* documents state.json lists as ready

Init ==
    /\ promise = [d \in Document |-> "none"]
    /\ file = {}
    /\ listed = {}

\* The promise of document d changes from one of the states in from.
Move(d, from, to) ==
    /\ promise[d] \in from
    /\ promise' = [promise EXCEPT ![d] = to]

Acknowledge(d) == Move(d, {"none"}, "kept")
Withdraw(d) == Move(d, {"none", "kept"}, "withdrawn")
Erase(d) == Move(d, {"withdrawn"}, "erased")

\* File and listing change freely within what is promised.
Honoured ==
    \A d \in Document :
        /\ promise[d] = "kept" => d \in file \cap listed
        /\ promise[d] = "erased" => d \notin file

Next ==
    /\ \/ UNCHANGED promise
       \/ \E d \in Document : Acknowledge(d) \/ Withdraw(d) \/ Erase(d)
    /\ file' \subseteq Document
    /\ listed' \subseteq Document
    /\ Honoured'

Spec == Init /\ [][Next]_<<promise, file, listed>>

=============================================================================
