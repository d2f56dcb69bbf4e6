------------------------------ MODULE MCQAPage ------------------------------
(***************************************************************************)
(* A small instance of QAPage: two threads with a turn each exist, a third *)
(* thread and further questions are the user's to come.                    *)
(***************************************************************************)
EXTENDS QAPage

MCOldThreads == <<"day2", "day1">>
MCOldTurns == <<"old1", "old2">>
MCOldThreadOf == [q \in {"old1", "old2"} |-> IF q = "old1" THEN "day1" ELSE "day2"]

=============================================================================
