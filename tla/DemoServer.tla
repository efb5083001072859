---------------------------- MODULE DemoServer ----------------------------
(***************************************************************************)
(* The life of the demo server: run in cmd/mcp-ratchet-demo/main.go, from  *)
(* the two configuration files over the tools and routes it registers to   *)
(* the race between a signal, the goroutine of ListenAndServe and the      *)
(* requests in flight, with the registration of the demo's tools           *)
(* (internal/adapter/primary/mcp/greeting_tool.go).                        *)
(*                                                                         *)
(* What a call does inside the gate is RatchetCalls, what the loader does  *)
(* ConfigLoader, what a stream carries EventBroadcaster.  net/http's       *)
(* server is external: Shutdown refuses new requests and waits for those   *)
(* in flight, but not for hijacked (WebSocket) connections.                *)
(***************************************************************************)
EXTENDS Integers, FiniteSets

CONSTANTS
    Tools,          \* the tools the demo registers
    Requests,       \* HTTP requests the server may get
    RatchetFiles,   \* what -ratchet-config may name
    MCPFiles,       \* what -mcp-config may name
    Paths           \* what -path may be

(* A file is read, or not: it is missing, cannot be decoded or is rejected; *)
(* without the flag there is none.                                         *)
Unusable == {[file |-> "missing"], [file |-> "undecodable"], [file |-> "rejected"]}
NoFlag == [file |-> "none"]
Observability == [file : {"read"}, Enabled : BOOLEAN,
                  StorageType : {"", "memory", "sql"}, RetentionDays : Int]
MCPConfig == [file : {"read"}, WebSocketEnabled : BOOLEAN, WebSocketPath : STRING]

ASSUME FilesAssumption ==
    /\ RatchetFiles \subseteq {NoFlag} \cup Unusable \cup Observability
    /\ MCPFiles \subseteq Unusable \cup MCPConfig

VARIABLES
    phase,      \* where run is
    flags,      \* the command line
    mcpCfg,     \* server settings in effect
    svc,        \* the ratchet service by its event store, or "nil"
    broadcaster,\* is there an event broadcaster?
    wrapped,    \* per registered tool: does its handler pass the gate?
    routes,     \* the paths the mux answers GET for
    serve,      \* the goroutine of ListenAndServe
    errServe,   \* what is in the channel of capacity 1
    inShutdown, \* has Shutdown been called?
    signalled,  \* has the context of NotifyContext been cancelled?
    req,        \* the requests
    exit        \* how the process ended, "no" while it runs

startup == <<flags, mcpCfg, svc, broadcaster, wrapped, routes>>
dvars == <<phase, startup, serve, errServe, inShutdown, signalled, req, exit>>

-----------------------------------------------------------------------------
NoService == [store |-> "nil", days |-> 0, broadcasts |-> FALSE]

(* loadMCPConfig: an empty path in a readable file gets its default. *)
StreamPath == "/observability/stream"
loadMCPConfig(f) ==
    [f EXCEPT !.WebSocketPath = IF @ = "" THEN StreamPath ELSE @]

-----------------------------------------------------------------------------
NoRequest == [state |-> "none", kind |-> "none", tool |-> "none"]

Init ==
    /\ phase = "mcp config"
    /\ flags \in [ratchetConfig : RatchetFiles, mcpConfig : MCPFiles, path : Paths]
    /\ mcpCfg = [file |-> "none", WebSocketEnabled |-> FALSE, WebSocketPath |-> ""]
    /\ svc = NoService
    /\ broadcaster = FALSE
    /\ wrapped = [t \in {} |-> FALSE]
    /\ routes = {}
    /\ serve = "none"
    /\ errServe = "empty"
    /\ inShutdown = FALSE
    /\ signalled = FALSE
    /\ req = [r \in Requests |-> NoRequest]
    /\ exit = "no"

(* The process ends, and with it every request in flight. *)
Exit(code) ==
    /\ exit' = code
    /\ phase' = "exited"
    /\ req' = [r \in Requests |->
          [req[r] EXCEPT !.state = IF @ = "active" THEN "cut" ELSE @]]

-----------------------------------------------------------------------------
(* Start-up *)

(* A file that cannot be used is only logged. *)
LoadMCPConfig ==
    /\ phase = "mcp config"
    /\ mcpCfg' = IF flags.mcpConfig \in Unusable
                 THEN [mcpCfg EXCEPT !.WebSocketPath = StreamPath]
                 ELSE loadMCPConfig(flags.mcpConfig)
    /\ phase' = "ratchet config"
    /\ UNCHANGED <<flags, svc, broadcaster, wrapped, routes, serve, errServe,
                   inShutdown, signalled, req, exit>>

(* run calls NewMemoryEventStore itself, not the factory: Enabled and      *)
(* StorageType are not looked at.                                          *)
BaseStore(cfg) ==
    [store |-> "memory", days |-> cfg.RetentionDays, broadcasts |-> FALSE]

(* mutant: the broadcaster is made but the store is not wrapped *)
SilentEventStore(cfg) == BaseStore(cfg)
EventStore(cfg) == [BaseStore(cfg) EXCEPT !.broadcasts = mcpCfg.WebSocketEnabled]

(* mutant: a file that cannot be used is only logged here, too *)
LenientRatchetConfigFails ==
    /\ phase = "ratchet config"
    /\ flags.ratchetConfig \in Unusable
    /\ phase' = "tools"
    /\ UNCHANGED <<startup, serve, errServe, inShutdown, signalled, req, exit>>
(* A file that cannot be opened, decoded or accepted ends the program. *)
RatchetConfigFails ==
    /\ phase = "ratchet config"
    /\ flags.ratchetConfig \in Unusable
    /\ Exit("error")
    /\ UNCHANGED <<startup, serve, errServe, inShutdown, signalled>>

(* Without the flag there is no service.  RegisterRule checks what         *)
(* LoadConfig has checked, so no rule is refused.                          *)
InitRatchet ==
    /\ phase = "ratchet config"
    /\ flags.ratchetConfig \notin Unusable
    /\ IF flags.ratchetConfig = NoFlag THEN UNCHANGED <<svc, broadcaster>>
       ELSE /\ svc' = EventStore(flags.ratchetConfig)
            /\ broadcaster' = mcpCfg.WebSocketEnabled
    /\ phase' = "tools"
    /\ UNCHANGED <<flags, mcpCfg, wrapped, routes, serve, errServe, inShutdown,
                   signalled, req, exit>>

HasService == svc.store # "nil"

(* mutant: one tool is forgotten *)
PartialRegisterTools ==
    /\ phase = "tools"
    /\ wrapped' = [t \in Tools \ {CHOOSE t \in Tools : TRUE} |-> HasService]
    /\ phase' = "routes"
    /\ UNCHANGED <<flags, mcpCfg, svc, broadcaster, routes, serve, errServe,
                   inShutdown, signalled, req, exit>>
(* Register...Tool, for the four tools: wrapped if there is a service. *)
RegisterTools ==
    /\ phase = "tools"
    /\ wrapped' = [t \in Tools |-> HasService]
    /\ phase' = "routes"
    /\ UNCHANGED <<flags, mcpCfg, svc, broadcaster, routes, serve, errServe,
                   inShutdown, signalled, req, exit>>

QueryPaths == {p \in {"/observability/stats", "/observability/events"} : HasService}
StreamPaths ==
    {p \in {mcpCfg.WebSocketPath} :
        HasService /\ mcpCfg.WebSocketEnabled /\ broadcaster}

(* A path registered twice. *)
Conflict ==
    \/ StreamPaths \cap QueryPaths # {}
    \/ flags.path \in QueryPaths \cup StreamPaths

RegisterRoutes ==
    /\ phase = "routes" /\ ~Conflict
    /\ routes' = QueryPaths \cup StreamPaths \cup {flags.path}
    /\ serve' = "starting"
    /\ phase' = "select"
    /\ UNCHANGED <<flags, mcpCfg, svc, broadcaster, wrapped, errServe, inShutdown,
                   signalled, req, exit>>

(* ServeMux panics. *)
RoutesPanic ==
    /\ phase = "routes" /\ Conflict
    /\ Exit("panic")
    /\ UNCHANGED <<startup, serve, errServe, inShutdown, signalled>>

-----------------------------------------------------------------------------
(* ListenAndServe (external) and its goroutine: it looks whether Shutdown  *)
(* was called, binds the address, looks again, and accepts.                *)

Send(v) ==
    /\ serve' = v
    /\ errServe' = v
    /\ UNCHANGED <<phase, startup, inShutdown, signalled, req, exit>>
Proceed(s) ==
    /\ serve' = s
    /\ UNCHANGED <<phase, startup, errServe, inShutdown, signalled, req, exit>>

ServeReturns ==
    /\ serve \in {"starting", "bound", "listening"} /\ inShutdown
    /\ Send("ErrServerClosed")

ServeFails == serve \in {"binding", "listening"} /\ Send("failed")

ServeProceeds ==
    \/ serve = "starting" /\ ~inShutdown /\ Proceed("binding")
    \/ serve = "binding" /\ Proceed("bound")
    \/ serve = "bound" /\ ~inShutdown /\ Proceed("listening")

-----------------------------------------------------------------------------
(* Requests: a tool call, the event stream of an MCP session that a client *)
(* keeps open, or a WebSocket, which hijacks its connection.               *)

Kinds == {"call", "sse"} \cup {k \in {"websocket"} : StreamPaths # {}}

Arrive(r, k, t) ==
    /\ serve = "listening" /\ ~inShutdown
    /\ req[r].state = "none" /\ k \in Kinds
    /\ req' = [req EXCEPT ![r] = [state |-> "active", kind |-> k, tool |-> t]]
    /\ UNCHANGED <<phase, startup, serve, errServe, inShutdown, signalled, exit>>

Finish(r) ==
    /\ req[r].state = "active"
    /\ req' = [req EXCEPT ![r].state = "done"]
    /\ UNCHANGED <<phase, startup, serve, errServe, inShutdown, signalled, exit>>

InFlight == {r \in Requests : req[r].state = "active" /\ req[r].kind # "websocket"}

-----------------------------------------------------------------------------
(* The end *)

(* SIGINT or SIGTERM: before NotifyContext it kills the process, after it  *)
(* it cancels the context; a second one changes nothing.                   *)
Signal ==
    /\ exit = "no" /\ ~signalled
    /\ IF serve = "none" THEN Exit("killed") /\ UNCHANGED signalled
       ELSE signalled' = TRUE /\ UNCHANGED <<phase, req, exit>>
    /\ UNCHANGED <<startup, serve, errServe, inShutdown>>

(* select: the cancelled context calls Shutdown, ... *)
StartShutdown ==
    /\ phase = "select" /\ signalled
    /\ inShutdown' = TRUE
    /\ phase' = "shutdown"
    /\ UNCHANGED <<startup, serve, errServe, signalled, req, exit>>

(* mutant: Shutdown is called for its side effect only *)
HastyShutdownReturns ==
    /\ phase = "shutdown"
    /\ phase' = "receive"
    /\ UNCHANGED <<startup, serve, errServe, inShutdown, signalled, req, exit>>
(* ... which returns when nothing is in flight, ... *)
ShutdownReturns ==
    /\ phase = "shutdown" /\ InFlight = {}
    /\ phase' = "receive"
    /\ UNCHANGED <<startup, serve, errServe, inShutdown, signalled, req, exit>>

(* mutant: Shutdown gets a context without a deadline *)
PatientShutdownTimesOut == FALSE /\ UNCHANGED dvars
(* ... or with an error after ten seconds; *)
ShutdownTimesOut ==
    /\ phase = "shutdown" /\ InFlight # {}
    /\ Exit("error")
    /\ UNCHANGED <<startup, serve, errServe, inShutdown, signalled>>

(* the result of the goroutine is received in both arms of the select. *)
(* mutant: after a shutdown it is received and dropped *)
CarelessVerdict(v) == IF v = "failed" /\ ~inShutdown THEN "error" ELSE "ok"
Verdict(v) == IF v = "failed" THEN "error" ELSE "ok"
Receive ==
    /\ phase \in {"select", "receive"} /\ errServe # "empty"
    /\ errServe' = "empty"
    /\ Exit(Verdict(errServe))
    /\ UNCHANGED <<startup, serve, inShutdown, signalled>>

-----------------------------------------------------------------------------
Boot == \/ LoadMCPConfig
        \/ RatchetConfigFails
        \/ InitRatchet
        \/ RegisterTools
        \/ RegisterRoutes
        \/ RoutesPanic
Serve == ServeProceeds \/ ServeReturns
Run == StartShutdown \/ ShutdownReturns \/ ShutdownTimesOut \/ Receive

Next ==
    \/ /\ exit = "no"
       /\ \/ Boot \/ Serve \/ ServeFails \/ Run \/ Signal
          \/ \E r \in Requests : Finish(r) \/ \E k \in Kinds, t \in Tools : Arrive(r, k, t)
    \/ exit # "no" /\ UNCHANGED dvars

Spec == Init /\ [][Next]_dvars

(* run and its goroutine are scheduled, and the deadline of Shutdown comes.*)
(* No request has to finish.                                               *)
FairSpec ==
    /\ Spec
    /\ WF_dvars(exit = "no" /\ Serve)
    /\ WF_dvars(exit = "no" /\ Run)

-----------------------------------------------------------------------------
(* Types, and how far start-up must be for requests to be served. *)
DemoTypeOK ==
    /\ phase \in {"mcp config", "ratchet config", "tools", "routes", "select",
                  "shutdown", "receive", "exited"}
    /\ serve \in {"none", "starting", "binding", "bound", "listening",
                  "ErrServerClosed", "failed"}
    /\ errServe \in {"empty", serve}
    /\ (phase = "exited") = (exit # "no")
    /\ inShutdown => signalled
    /\ \A r \in Requests : req[r].state # "none" =>
          DOMAIN wrapped = Tools /\ flags.path \in routes

(* Start-up fails closed: with -ratchet-config given no tool call is ever  *)
(* served past the gate, whichever of the files is unusable ("failed to    *)
(* load MCP config, using defaults" has no counterpart for the rules).     *)
NeverUngated ==
    \A r \in Requests : req[r].kind = "call" /\ flags.ratchetConfig # NoFlag =>
        HasService /\ wrapped[req[r].tool]

(* A stream that clients can open is fed: its handler exists exactly when  *)
(* the event store of the service broadcasts, and then at the configured   *)
(* path.                                                                   *)
StreamFed ==
    phase = "select" =>
        /\ routes \ (QueryPaths \cup {flags.path}) # {} => svc.broadcasts
        /\ HasService /\ mcpCfg.WebSocketEnabled => mcpCfg.WebSocketPath \in routes

(* Success means a clean stop: it was asked for, and no request but a      *)
(* hijacked one was cut.                                                   *)
CleanExit ==
    exit = "ok" =>
        /\ signalled
        /\ \A r \in Requests : req[r].state = "cut" => req[r].kind = "websocket"

(* An error of ListenAndServe is never lost, not even when the signal      *)
(* comes first or while the address is being bound.                        *)
ServeErrorReported == exit = "ok" => serve = "ErrServerClosed"

(* Once asked to stop the process ends, whatever its clients do. *)
RunEnds == signalled ~> exit # "no"
=============================================================================
