---------------------------- MODULE IndexPromise -----------------------------
(***************************************************************************)
(* What the vector index promises about one call, whatever happens to its  *)
(* request: the call takes effect at most once; a call that is answered    *)
(* with success has taken effect before; one that is not may have, or may  *)
(* still, until its request is gone.  Points come and go with these        *)
(* effects only, or all at once when somebody drops the collection.        *)
(***************************************************************************)
CONSTANTS
    Call,      \* calls of the index
    Gains,     \* call -> documents whose points it adds
    Loses      \* call -> documents whose points it removes

VARIABLES
    held,      \* documents with points in the index
    standing,  \* call -> "open", "done" (it took effect) or "closed"
    answered   \* call -> "none", "ok" or "failed"

Init ==
    /\ held = {}
    /\ standing = [c \in Call |-> "open"]
    /\ answered = [c \in Call |-> "none"]

TakesEffect(c) ==
    /\ standing[c] = "open"
    /\ standing' = [standing EXCEPT ![c] = "done"]
    /\ held' = (held \cup Gains[c]) \ Loses[c]
    /\ UNCHANGED answered

\* Any number of requests vanish, and calls are answered.
Answers ==
    /\ \A c \in Call :
          /\ \/ standing'[c] = standing[c]
             \/ standing[c] = "open" /\ standing'[c] = "closed"
          /\ \/ answered'[c] = answered[c]
             \/ answered[c] = "none" /\ answered'[c] = "failed"
             \/ answered[c] = "none" /\ answered'[c] = "ok" /\ standing[c] = "done"
    /\ UNCHANGED held

Dropped == held' = {} /\ UNCHANGED <<standing, answered>>

Next == (\E c \in Call : TakesEffect(c)) \/ Answers \/ Dropped

Spec == Init /\ [][Next]_<<held, standing, answered>>

=============================================================================
