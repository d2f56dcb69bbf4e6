---------------------------- MODULE MCTurnRuntime ----------------------------
(***************************************************************************)
(* Small instances of TurnRuntime: every turn names the same thread, every *)
(* change wants the same provider, and all requests but those of Bobs are  *)
(* of one user.                                                            *)
(***************************************************************************)
EXTENDS TurnRuntime, TLC

CONSTANT Bobs    \* the requests of another user

MCThreadOf == [t \in Turns |-> CHOOSE h \in Threads : TRUE]
MCUser == [r \in Requests |-> IF r \in Bobs THEN "bob" ELSE "alice"]
MCWants == [c \in Changes |-> "chatgpt"]

\* Turns of one user that are not streamed are alike.
Alike == Permutations(Turns \ (Streamed \cup Bobs))

=============================================================================
