--------------------------- MODULE MCAuthSessions ---------------------------
(***************************************************************************)
(* A small instance of AuthSessions: two registrations of one address with *)
(* different passwords, a login with each, and calls with the first        *)
(* login's token.                                                          *)
(***************************************************************************)
EXTENDS AuthSessions

MCEmail == [r \in Registers \cup Logins |-> "a@x"]
MCPassword ==
    [r \in Registers \cup Logins |-> IF r \in {"reg1", "in1"} THEN "pw1" ELSE "pw2"]
MCToken == [r \in Logouts \cup Uses |-> "in1"]

=============================================================================
