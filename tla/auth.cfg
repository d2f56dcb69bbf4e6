SPECIFICATION Spec

CONSTANTS
    Registers = {"reg1", "reg2"}
    Logins = {"in1", "in2"}
    Logouts = {"out1"}
    Uses = {"use1", "use2"}
    Email <- MCEmail
    Password <- MCPassword
    Token <- MCToken
    NoUser = NoUser
    NoSession = NoSession
    TTL = 1
    MaxTime = 2
    MaxErrors = 1
    MaxCrashes = 1

INVARIANTS
    TypeOK
    OneUserPerEmail
    AdmittedAsOneself
    AuditIsTrue

PROPERTIES
    RevokedStaysRevoked

\* Every request may have been answered.
CHECK_DEADLOCK FALSE
