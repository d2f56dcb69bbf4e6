------------------------------ MODULE Settings ------------------------------
(***************************************************************************)
(* The settings core-go-rpc and the gateway start with, computed from the  *)
(* environment and a file, and the deadlines the gateway's calls have,     *)
(* which are constants of its code.                                        *)
(*                                                                         *)
(* A raw value is unset, blank, or a text; a text is the number it begins  *)
(* with, 0 if with none, and whether it says anything more.  Numbers are   *)
(* seconds.  The other settings are texts that are used as they are.       *)
(***************************************************************************)
EXTENDS Integers, Sequences, SequencesExt

Unset == [is |-> "unset", number |-> 0, more |-> FALSE]
BlankValue == [is |-> "blank", number |-> 0, more |-> FALSE]
Says(number, more) == [is |-> "text", number |-> number, more |-> more]

-----------------------------------------------------------------------------
(* core-go-rpc.                                                            *)

\* The lines of .env set the variables that are not set yet, each to what its
\* first line says, blank or not; a line without a name or a "=" is passed over.
LoadDotEnv(env, lines) ==
    [name \in DOMAIN env |->
        LET named == {i \in DOMAIN lines : lines[i].valid /\ lines[i].name = name}
        IN IF env[name].is = "unset" /\ named # {} THEN lines[Min(named)].value
                                                  ELSE env[name]]

\* The first of these variables that is not blank.
GetenvAny(env, names) ==
    LET given == {i \in DOMAIN names : env[names[i]].is = "text"}
    IN IF given = {} THEN Unset ELSE env[names[Min(given)]]

\* Mutant: any number is taken.
ParseIntUnchecked(raw, def) == IF raw.is # "text" THEN def ELSE raw.number

\* Sscanf takes the number a text begins with.
ParseInt(raw, def) ==
    IF raw.is # "text" \/ raw.number <= 0 THEN def ELSE raw.number

\* "1", "true" or "yes"; every other text says no.
ParseBool(raw, def) ==
    IF raw.is # "text" THEN def ELSE raw.number = 1 /\ ~raw.more

DialTimeoutNames == <<"AGENT_RPC_DIAL_TIMEOUT_SECONDS", "LLM_RPC_DIAL_TIMEOUT_SECONDS">>

\* A number with a present and a former name, and a switch.
LoadCoreConfig(env, lines) ==
    LET all == LoadDotEnv(env, lines)
    IN [dialTimeout |-> ParseInt(GetenvAny(all, DialTimeoutNames), 8),
        vectorSearch |-> ParseBool(GetenvAny(all, <<"VECTOR_SEARCH_ENABLED">>), TRUE)]

-----------------------------------------------------------------------------
(* The gateway.                                                            *)

\* Atoi takes a text that is a number and nothing else, YAML likewise.
IsNumber(raw) == raw.is = "text" /\ ~raw.more

\* The environment's number, or else the file's; if that is not positive, the
\* default, whatever the file says.
GatewayNumber(env, file, def) ==
    LET given == IF IsNumber(env) THEN env.number
                 ELSE IF IsNumber(file) THEN file.number ELSE def
    IN IF given <= 0 THEN def ELSE given

LoadGatewayConfig(env, file) ==
    [read |-> GatewayNumber(env.read, file.read, 20),
     write |-> GatewayNumber(env.write, file.write, 60)]

-----------------------------------------------------------------------------
(* Deadlines of the calls of core-go-rpc.                                  *)

AuthDeadlines == {<<"Register", 8>>, <<"Login", 8>>, <<"Logout", 5>>, <<"Me", 5>>}
ConfigDeadlines == {<<"GetConfig", 8>>, <<"SetConfig", 8>>, <<"Health", 3>>}
DocumentDeadlines == {<<"ListDocuments", 6>>, <<"UploadDocument", 45>>,
                      <<"GetDocument", 6>>, <<"DownloadDocument", 20>>,
                      <<"DeleteDocument", 6>>}
\* CreateTurnStream has none.
ThreadDeadlines == {<<"ListThreads", 6>>, <<"CreateThread", 8>>, <<"CreateTurn", 40>>,
                    <<"ListTurns", 20>>, <<"GetTurn", 20>>}

Deadlines == AuthDeadlines \cup ConfigDeadlines \cup DocumentDeadlines \cup ThreadDeadlines

\* The connection takes an answer until write seconds after the request's
\* header was read; its body may take read seconds and the call its deadline.
AnsweredInTime(config, deadline) == config.read + deadline <= config.write

=============================================================================
