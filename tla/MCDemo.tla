------------------------------ MODULE MCDemo ------------------------------
(* A small instance of DemoServer for TLC. *)
EXTENDS DemoServer

Config(on, type, days) ==
    [file |-> "read", Enabled |-> on, StorageType |-> type, RetentionDays |-> days]
SomeRatchetFiles ==
    {NoFlag} \cup Unusable \cup
    {Config(TRUE, "memory", 7), Config(FALSE, "", 0)}

Settings(on, path) ==
    [file |-> "read", WebSocketEnabled |-> on, WebSocketPath |-> path]
SomeMCPFiles ==
    {[file |-> "missing"], Settings(FALSE, ""), Settings(TRUE, ""),
     Settings(TRUE, "/events"), Settings(TRUE, "/observability/stats")}

SomePaths == {"/mcp", "/events"}
=============================================================================
