----------------------------- MODULE TurnPromise -----------------------------
(***************************************************************************)
(* What a user who asks streamed questions may rely on, whatever fails:    *)
(*                                                                         *)
(*   - the events shown for a question only grow, and nothing follows the  *)
(*     event that ends the stream;                                         *)
(*   - the items shown are the first items of the turn that is stored, if  *)
(*     one ever is, and the final one is shown only of a turn in           *)
(*     state.json;                                                         *)
(*   - a turn in state.json is never changed or lost again;                *)
(*   - the stream is called done only when the final item was shown.       *)
(*                                                                         *)
(* It promises nothing about a question whose stream ends with an error:   *)
(* its turn may be stored or not.                                          *)
(***************************************************************************)
EXTENDS Sequences, SequencesExt

CONSTANTS
    Turn,      \* streamed questions
    Final,     \* the item with the whole answer
    Done,      \* the event that ends a complete stream
    Error      \* the event that ends a failed one

VARIABLES
    shown,     \* turn -> the events the browser has received
    durable    \* turn -> its items in state.json, <<>> without a turn

Init ==
    /\ shown = [t \in Turn |-> <<>>]
    /\ durable = [t \in Turn |-> <<>>]

Over(t) == shown[t] # <<>> /\ Last(shown[t]) \in {Done, Error}

\* The items among the events shown.
Items(t) == IF Over(t) THEN Front(shown[t]) ELSE shown[t]

\* At most one more event, and none after the end.
Shows(t) ==
    \/ shown'[t] = shown[t]
    \/ ~Over(t) /\ shown'[t] # <<>> /\ Front(shown'[t]) = shown[t]

\* The turn becomes durable once.
Keeps(t) == durable[t] # <<>> => durable'[t] = durable[t]

Honest(t) ==
    /\ durable[t] # <<>> => IsPrefix(Items(t), durable[t])
    /\ Contains(shown[t], Final) => durable[t] # <<>>
    /\ Contains(shown[t], Done) => Items(t) = durable[t]

Next == \A t \in Turn : Shows(t) /\ Keeps(t) /\ Honest(t)'

Spec == Init /\ [][Next]_<<shown, durable>>

=============================================================================
