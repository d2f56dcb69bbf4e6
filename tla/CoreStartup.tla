----------------------------- MODULE CoreStartup -----------------------------
(***************************************************************************)
(* How core-go-rpc comes up: the state file, MySQL and its two tables,     *)
(* MinIO and its bucket, the connection to the Python service, the         *)
(* listener.  Each step may fail, and then the process exits; the          *)
(* container is restarted (docker-compose.yml, restart: unless-stopped).   *)
(* A statement or request may have been applied although it failed.        *)
(***************************************************************************)
EXTENDS Naturals, FiniteSets

VARIABLES
    stage,     \* "down", the dependency being opened, or "up"
    schema,    \* the tables that exist in MySQL
    bucket     \* whether the bucket exists in MinIO

startupVars == <<stage, schema, bucket>>

Tables == {"users", "user_sessions"}
Opening == {"state file", "mysql", "tables", "make bucket", "find bucket",
            "agent", "agent socket", "listener"}

StartupTypeOK ==
    /\ stage \in Opening \cup {"down", "up"}
    /\ schema \subseteq Tables
    /\ bucket \in BOOLEAN

StartupInit == stage = "down" /\ schema = {} /\ bucket = FALSE

Proceed(from, to) == stage = from /\ stage' = to

\* logger.Fatalf.
Fatal(at) == Proceed(at, "down") /\ UNCHANGED <<schema, bucket>>

-----------------------------------------------------------------------------

Start == Proceed("down", "state file") /\ UNCHANGED <<schema, bucket>>

\* store.New: the file is read, or created if there is none.
OpenStore == Proceed("state file", "mysql") /\ UNCHANGED <<schema, bucket>>

\* mysql.Open: the ping.
OpenMySQL == Proceed("mysql", "tables") /\ UNCHANGED <<schema, bucket>>

\* EnsureSchema: CREATE TABLE IF NOT EXISTS, users first.
CreateTable ==
    /\ stage = "tables"
    /\ schema' = schema \cup {IF "users" \in schema THEN "user_sessions" ELSE "users"}
    /\ stage' = IF schema' = Tables THEN "make bucket" ELSE "tables"
    /\ UNCHANGED bucket

CreateTableFails ==
    /\ Proceed("tables", "down")
    /\ \/ UNCHANGED schema
       \/ schema' = schema \cup {IF "users" \in schema THEN "user_sessions" ELSE "users"}
    /\ UNCHANGED bucket

\* ensureBucket: an error, because the bucket exists or for another reason,
\* leads to the question whether it exists.
MakeBucket ==
    /\ ~bucket /\ bucket' = TRUE
    /\ Proceed("make bucket", "agent")
    /\ UNCHANGED schema

MakeBucketFails ==
    /\ Proceed("make bucket", "find bucket")
    /\ bucket' \in {bucket, TRUE}
    /\ UNCHANGED schema

\* Mutant: any answer about the bucket is good enough.
FindBucketUnchecked ==
    /\ Proceed("find bucket", "agent")
    /\ UNCHANGED <<schema, bucket>>

FindBucket ==
    /\ Proceed("find bucket", IF bucket THEN "agent" ELSE "down")
    /\ UNCHANGED <<schema, bucket>>

\* dialLLMRPC blocks until connected; the socket is tried after the address.
Dial ==
    /\ \/ Proceed("agent", "listener")
       \/ Proceed("agent socket", "listener")
    /\ UNCHANGED <<schema, bucket>>

DialFails ==
    /\ Proceed("agent", "agent socket")
    /\ UNCHANGED <<schema, bucket>>

Listen == Proceed("listener", "up") /\ UNCHANGED <<schema, bucket>>

Opens ==
    \/ OpenStore \/ OpenMySQL \/ CreateTable \/ MakeBucket \/ FindBucket
    \/ Dial \/ Listen

OpenFails ==
    \/ \E at \in Opening \ {"tables", "make bucket", "agent"} : Fatal(at)
    \/ CreateTableFails \/ MakeBucketFails \/ DialFails

-----------------------------------------------------------------------------

\* Requests are served only with both tables and the bucket in place, however
\* often the process failed half way before, and whether or not the answers
\* that made them were lost.
ServesPrepared == stage = "up" => schema = Tables /\ bucket

=============================================================================
