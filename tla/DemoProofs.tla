----------------------------- MODULE DemoProofs -----------------------------
(***************************************************************************)
(* Proofs about DemoServer, for any number of tools and requests and any   *)
(* configuration files: its type invariant and its safety properties.      *)
(***************************************************************************)
EXTENDS DemoServer, TLAPS

(***************************************************************************)
(* The inductive invariant.                                                *)
(***************************************************************************)

Phases == {"mcp config", "ratchet config", "tools", "routes", "select",
           "shutdown", "receive", "exited"}
ServeStates == {"none", "starting", "binding", "bound", "listening",
                "ErrServerClosed", "failed"}

DemoTyped ==
    /\ phase \in Phases
    /\ flags \in [ratchetConfig : RatchetFiles, mcpConfig : MCPFiles, path : Paths]
    /\ mcpCfg.WebSocketEnabled \in BOOLEAN
    /\ DOMAIN mcpCfg = {"file", "WebSocketEnabled", "WebSocketPath"}
    /\ serve \in ServeStates
    /\ inShutdown \in BOOLEAN
    /\ signalled \in BOOLEAN
    /\ req \in [Requests -> [state : {"none", "active", "done", "cut"},
                             kind : {"none", "call", "sse", "websocket"},
                             tool : Tools \cup {"none"}]]
    /\ exit \in {"no", "ok", "error", "panic", "killed"}

(* Where run is and what that says of its goroutine and of Shutdown. *)
Progress ==
    /\ (phase = "exited") = (exit # "no")
    /\ phase \in {"mcp config", "ratchet config", "tools", "routes"} => serve = "none"
    /\ phase \in {"select", "shutdown", "receive"} => serve # "none"
    /\ phase \in {"mcp config", "ratchet config", "tools", "routes", "select"}
          => ~inShutdown
    /\ phase \in {"shutdown", "receive"} => inShutdown
    /\ inShutdown => signalled

(* What start-up has made of the files once they have been read. *)
Configured ==
    /\ phase \in {"mcp config", "ratchet config"} => svc = NoService /\ broadcaster = FALSE
    /\ svc # NoService => /\ flags.ratchetConfig \in Observability
                          /\ svc = EventStore(flags.ratchetConfig)
    /\ phase \in {"tools", "routes"} \/ serve # "none" =>
          /\ flags.ratchetConfig = NoFlag => svc = NoService
          /\ flags.ratchetConfig # NoFlag => /\ svc # NoService
                                             /\ broadcaster = mcpCfg.WebSocketEnabled

(* The tools once they are registered, and the routes once the goroutine   *)
(* of ListenAndServe runs.                                                 *)
Registered ==
    /\ phase = "routes" \/ serve # "none" => wrapped = [t \in Tools |-> HasService]
    /\ serve # "none" => routes = QueryPaths \cup StreamPaths \cup {flags.path}

(* A request has a tool once it has arrived, and arrives only at a server  *)
(* that listens.                                                           *)
Admitted ==
    \A r \in Requests :
        /\ req[r].state = "none" => req[r].kind = "none"
        /\ req[r].state # "none" => serve # "none" /\ req[r].tool \in Tools
        /\ req[r].state = "cut" => exit # "no"

(* The channel holds what the goroutine ended with; the goroutine reports  *)
(* a closed server only after Shutdown was called; once Shutdown returned  *)
(* without an error nothing but a hijacked request is in flight.           *)
Reported ==
    /\ errServe # "empty" => errServe = serve /\ serve \in {"ErrServerClosed", "failed"}
    /\ serve = "ErrServerClosed" => inShutdown
    /\ phase = "receive" => InFlight = {}
    /\ exit = "ok" => serve = "ErrServerClosed" /\ inShutdown
    /\ exit = "ok" => \A r \in Requests : req[r].state = "cut" => req[r].kind = "websocket"

DemoInv == DemoTyped /\ Progress /\ Configured /\ Registered /\ Admitted /\ Reported

-----------------------------------------------------------------------------
(* A usable file is no unusable one and not the absence of a file. *)
LEMMA FilesDistinct ==
    /\ NoFlag \notin Unusable /\ NoFlag \notin Observability
    /\ Unusable \cap Observability = {}
    /\ Unusable \cap MCPConfig = {}
<1>1. NoFlag.file = "none" /\ \A f \in Unusable : f.file \notin {"read", "none"}
    BY DEF NoFlag, Unusable
<1>2. /\ \A f \in Observability : f.file = "read"
      /\ \A f \in MCPConfig : f.file = "read"
    BY DEF Observability, MCPConfig
<1> QED BY <1>1, <1>2

(* Every service has a store. *)
LEMMA ServiceHasStore ==
    ASSUME NEW cfg
    PROVE  /\ EventStore(cfg).store = "memory"
           /\ EventStore(cfg).days = cfg.RetentionDays
           /\ EventStore(cfg).broadcasts = mcpCfg.WebSocketEnabled
           /\ EventStore(cfg) # NoService
           /\ NoService.store = "nil"
BY DEF EventStore, BaseStore, NoService

LEMMA DemoInit == Init => DemoInv
<1> SUFFICES ASSUME Init PROVE DemoInv
    OBVIOUS
<1> USE DEF Init
<1>1. DemoTyped
    BY DEF DemoTyped, Phases, ServeStates, NoRequest
<1>2. Progress
    BY DEF Progress
<1>3. Configured
    BY DEF Configured
<1>4. Registered
    BY DEF Registered
<1>5. Admitted
    BY DEF Admitted, NoRequest
<1>6. Reported
    BY DEF Reported, NoRequest
<1> QED BY <1>1, <1>2, <1>3, <1>4, <1>5, <1>6 DEF DemoInv

(* The end of the process, however it ends: what Exit does to the parts of *)
(* the invariant that do not speak of the verdict.                         *)
LEMMA ExitKeeps ==
    ASSUME DemoInv, NEW code \in {"ok", "error", "panic", "killed"}, Exit(code),
           exit = "no", UNCHANGED <<startup, serve, inShutdown>>,
           signalled' \in BOOLEAN, signalled => signalled'
    PROVE  /\ (DemoTyped /\ Progress /\ Configured /\ Registered /\ Admitted)'
           /\ \A r \in Requests : /\ req'[r].kind = req[r].kind
                                  /\ req'[r].state = "cut" => req[r].state = "active"
<1> USE DEF DemoInv, Exit, startup
<1>1. req' \in [Requests -> [state : {"none", "active", "done", "cut"},
                             kind : {"none", "call", "sse", "websocket"},
                             tool : Tools \cup {"none"}]]
    BY DEF DemoTyped
<1>2. \A r \in Requests : /\ req'[r].kind = req[r].kind
                          /\ req'[r].tool = req[r].tool
                          /\ req'[r].state = IF req[r].state = "active" THEN "cut"
                                             ELSE req[r].state
    BY DEF DemoTyped
<1>3. DemoTyped'
    BY <1>1 DEF DemoTyped, Phases
<1>4. Progress'
    BY DEF Progress, DemoTyped
<1>5. Configured'
    BY DEF Configured, EventStore, BaseStore
<1>6. Registered'
    BY DEF Registered, HasService, QueryPaths, StreamPaths
<1>7. Admitted'
    BY <1>2 DEF Admitted, DemoTyped
<1>8. \A r \in Requests : req'[r].state = "cut" => req[r].state = "active"
    BY <1>2 DEF Admitted
<1> QED BY <1>2, <1>3, <1>4, <1>5, <1>6, <1>7, <1>8

LEMMA DemoStep == DemoInv /\ [Next]_dvars => DemoInv'
<1> SUFFICES ASSUME DemoInv, [Next]_dvars PROVE DemoInv'
    OBVIOUS
<1> USE DEF DemoInv, startup
<1>1. CASE UNCHANGED dvars
  <2>1. DemoTyped' /\ Progress' /\ Admitted'
    BY <1>1 DEF dvars, DemoTyped, Progress, Admitted
  <2>2. Configured' /\ Registered'
    BY <1>1 DEF dvars, Configured, Registered, EventStore, BaseStore, HasService,
                QueryPaths, StreamPaths
  <2>3. Reported'
    BY <1>1 DEF dvars, Reported, InFlight
  <2> QED BY <2>1, <2>2, <2>3
<1>2. ASSUME exit = "no", LoadMCPConfig PROVE DemoInv'
  <2> USE <1>2 DEF LoadMCPConfig
  <2>1. /\ mcpCfg'.WebSocketEnabled \in BOOLEAN
        /\ DOMAIN mcpCfg' = {"file", "WebSocketEnabled", "WebSocketPath"}
    <3>1. CASE flags.mcpConfig \in Unusable
        BY <3>1 DEF DemoTyped
    <3>2. CASE flags.mcpConfig \notin Unusable
      <4>1. flags.mcpConfig \in MCPConfig
        BY <3>2, FilesAssumption DEF DemoTyped
      <4> QED BY <3>2, <4>1 DEF loadMCPConfig, MCPConfig
    <3> QED BY <3>1, <3>2
  <2>2. DemoTyped' /\ Progress' /\ Admitted'
    BY <2>1 DEF DemoTyped, Phases, Progress, Admitted
  <2>3. Configured' /\ Registered'
    BY DEF Configured, Registered, Progress
  <2>4. Reported'
    BY DEF Reported, Progress
  <2> QED BY <2>2, <2>3, <2>4
<1>3. ASSUME exit = "no", RatchetConfigFails PROVE DemoInv'
  <2> USE <1>3 DEF RatchetConfigFails
  <2>1. (DemoTyped /\ Progress /\ Configured /\ Registered /\ Admitted)'
    BY ExitKeeps DEF DemoTyped
  <2>2. Reported'
    BY DEF Reported, Exit
  <2> QED BY <2>1, <2>2
<1>4. ASSUME exit = "no", InitRatchet PROVE DemoInv'
  <2> USE <1>4 DEF InitRatchet
  <2>1. DemoTyped' /\ Progress' /\ Admitted' /\ Reported'
    BY DEF DemoTyped, Phases, Progress, Admitted, Reported
  <2>2. Registered'
    BY DEF Registered, Progress
  <2>3. Configured'
    <3>1. CASE flags.ratchetConfig = NoFlag
        BY <3>1 DEF Configured
    <3>2. CASE flags.ratchetConfig # NoFlag
      <4>1. flags.ratchetConfig \in Observability
        BY <3>2, FilesAssumption DEF DemoTyped
      <4>2. /\ svc' = EventStore(flags.ratchetConfig)' /\ svc' # NoService
            /\ broadcaster' = mcpCfg'.WebSocketEnabled
        BY <3>2, ServiceHasStore DEF EventStore, BaseStore
      <4> QED BY <3>2, <4>1, <4>2 DEF Configured
    <3> QED BY <3>1, <3>2
  <2> QED BY <2>1, <2>2, <2>3
<1>5. ASSUME exit = "no", RegisterTools PROVE DemoInv'
  <2> USE <1>5 DEF RegisterTools
  <2>1. DemoTyped' /\ Progress' /\ Admitted' /\ Reported'
    BY DEF DemoTyped, Phases, Progress, Admitted, Reported
  <2>2. Configured' /\ Registered'
    BY DEF Configured, Registered, Progress, EventStore, BaseStore, HasService
  <2> QED BY <2>1, <2>2
<1>6. ASSUME exit = "no", RegisterRoutes PROVE DemoInv'
  <2> USE <1>6 DEF RegisterRoutes
  <2>1. DemoTyped' /\ Progress' /\ Admitted' /\ Reported'
    BY DEF DemoTyped, Phases, ServeStates, Progress, Admitted, Reported
  <2>2. Configured'
    BY DEF Configured, EventStore, BaseStore
  <2>3. Registered'
    BY DEF Registered, HasService, QueryPaths, StreamPaths
  <2> QED BY <2>1, <2>2, <2>3
<1>7. ASSUME exit = "no", RoutesPanic PROVE DemoInv'
  <2> USE <1>7 DEF RoutesPanic
  <2>1. (DemoTyped /\ Progress /\ Configured /\ Registered /\ Admitted)'
    BY ExitKeeps DEF DemoTyped
  <2>2. Reported'
    BY DEF Reported, Exit
  <2> QED BY <2>1, <2>2
<1>8. ASSUME exit = "no", Serve \/ ServeFails PROVE DemoInv'
  <2> USE <1>8 DEF Serve, ServeFails, ServeProceeds, ServeReturns, Send, Proceed
  <2>1. /\ UNCHANGED <<phase, startup, inShutdown, signalled, req, exit>>
        /\ serve # "none" /\ serve' \in ServeStates /\ serve' # "none"
    BY DEF ServeStates
  <2>2. DemoTyped' /\ Progress' /\ Admitted'
    BY <2>1 DEF DemoTyped, Progress, Admitted
  <2>3. Configured' /\ Registered'
    BY <2>1 DEF Configured, Registered, EventStore, BaseStore, HasService,
                QueryPaths, StreamPaths
  <2>4. Reported'
    BY <2>1 DEF Reported, InFlight
  <2> QED BY <2>2, <2>3, <2>4
<1>9. ASSUME exit = "no", StartShutdown PROVE DemoInv'
  <2> USE <1>9 DEF StartShutdown
  <2>1. DemoTyped' /\ Progress' /\ Admitted'
    BY DEF DemoTyped, Phases, Progress, Admitted
  <2>2. Configured' /\ Registered'
    BY DEF Configured, Registered, Progress, EventStore, BaseStore, HasService,
           QueryPaths, StreamPaths
  <2>3. Reported'
    BY DEF Reported, Progress
  <2> QED BY <2>1, <2>2, <2>3
<1>10. ASSUME exit = "no", ShutdownReturns PROVE DemoInv'
  <2> USE <1>10 DEF ShutdownReturns
  <2>1. DemoTyped' /\ Progress' /\ Admitted'
    BY DEF DemoTyped, Phases, Progress, Admitted
  <2>2. Configured' /\ Registered'
    BY DEF Configured, Registered, Progress, EventStore, BaseStore, HasService,
           QueryPaths, StreamPaths
  <2>3. Reported'
    BY DEF Reported, InFlight
  <2> QED BY <2>1, <2>2, <2>3
<1>11. ASSUME exit = "no", ShutdownTimesOut PROVE DemoInv'
  <2> USE <1>11 DEF ShutdownTimesOut
  <2>1. (DemoTyped /\ Progress /\ Configured /\ Registered /\ Admitted)'
    BY ExitKeeps DEF DemoTyped
  <2>2. Reported'
    BY DEF Reported, Exit
  <2> QED BY <2>1, <2>2
<1>12. ASSUME exit = "no", Receive PROVE DemoInv'
  <2> USE <1>12 DEF Receive
  <2>1. Verdict(errServe) \in {"ok", "error"}
    BY DEF Verdict
  <2>2. /\ (DemoTyped /\ Progress /\ Configured /\ Registered /\ Admitted)'
        /\ \A r \in Requests : /\ req'[r].kind = req[r].kind
                               /\ req'[r].state = "cut" => req[r].state = "active"
    BY <2>1, ExitKeeps DEF DemoTyped
  <2>3. Verdict(errServe) = "ok" => serve = "ErrServerClosed" /\ phase = "receive"
    BY DEF Verdict, Reported, Progress
  <2>4. Reported'
    BY <2>1, <2>2, <2>3 DEF Reported, Exit, InFlight, DemoTyped
  <2> QED BY <2>2, <2>4
<1>13. ASSUME exit = "no", Signal PROVE DemoInv'
  <2> USE <1>13 DEF Signal
  <2>1. CASE serve = "none"
    <3>1. (DemoTyped /\ Progress /\ Configured /\ Registered /\ Admitted)'
        BY <2>1, ExitKeeps DEF DemoTyped
    <3>2. Reported'
        BY <2>1 DEF Reported, Exit
    <3> QED BY <3>1, <3>2
  <2>2. CASE serve # "none"
    <3>1. DemoTyped' /\ Progress' /\ Admitted'
        BY <2>2 DEF DemoTyped, Progress, Admitted
    <3>2. Configured' /\ Registered'
        BY <2>2 DEF Configured, Registered, EventStore, BaseStore, HasService,
                    QueryPaths, StreamPaths
    <3>3. Reported'
        BY <2>2 DEF Reported, InFlight
    <3> QED BY <3>1, <3>2, <3>3
  <2> QED BY <2>1, <2>2
<1>14. ASSUME exit = "no", NEW r \in Requests, Finish(r) PROVE DemoInv'
  <2> USE <1>14 DEF Finish
  <2>1. /\ DemoTyped'
        /\ \A q \in Requests : /\ req'[q].kind = req[q].kind
                               /\ req'[q].tool = req[q].tool
                               /\ req'[q].state = IF q = r THEN "done" ELSE req[q].state
    BY DEF DemoTyped
  <2>2. Progress'
    BY DEF Progress
  <2>3. Configured' /\ Registered'
    BY DEF Configured, Registered, EventStore, BaseStore, HasService,
           QueryPaths, StreamPaths
  <2>4. Admitted'
    BY <2>1 DEF Admitted
  <2>5. Reported'
    BY <2>1 DEF Reported, InFlight
  <2> QED BY <2>1, <2>2, <2>3, <2>4, <2>5
<1>15. ASSUME exit = "no", NEW r \in Requests, NEW k \in Kinds, NEW t \in Tools,
              Arrive(r, k, t)
       PROVE  DemoInv'
  <2> USE <1>15 DEF Arrive
  <2>0. k \in {"call", "sse", "websocket"}
    BY DEF Kinds
  <2>1. /\ DemoTyped'
        /\ \A q \in Requests \ {r} : req'[q] = req[q]
        /\ req'[r] = [state |-> "active", kind |-> k, tool |-> t]
    BY <2>0 DEF DemoTyped
  <2>2. Progress'
    BY DEF Progress
  <2>3. Configured' /\ Registered'
    BY DEF Configured, Registered, EventStore, BaseStore, HasService,
           QueryPaths, StreamPaths
  <2>4. Admitted'
    BY <2>1 DEF Admitted
  <2>5. phase # "receive" /\ phase # "exited"
    BY DEF Progress
  <2>6. Reported'
    BY <2>1, <2>5 DEF Reported
  <2> QED BY <2>1, <2>2, <2>3, <2>4, <2>6
<1> QED BY <1>1, <1>2, <1>3, <1>4, <1>5, <1>6, <1>7, <1>8, <1>9, <1>10, <1>11,
           <1>12, <1>13, <1>14, <1>15 DEF Next, Boot, Run

-----------------------------------------------------------------------------
LEMMA DemoInvariant == Spec => []DemoInv
<1>1. Init => DemoInv
    BY DemoInit
<1>2. DemoInv /\ [Next]_dvars => DemoInv'
    BY DemoStep
<1> QED BY <1>1, <1>2, PTL DEF Spec

(* Start-up and shutdown keep their types: a request is only ever served   *)
(* by a server all of whose tools and whose MCP route are registered       *)
(* (run, main.go).                                                         *)
THEOREM DemoTypeCorrect == Spec => []DemoTypeOK
<1>1. DemoInv => DemoTypeOK
  <2> SUFFICES ASSUME DemoInv PROVE DemoTypeOK
    OBVIOUS
  <2> USE DEF DemoInv
  <2>1. errServe \in {"empty", serve}
    BY DEF Reported
  <2>2. \A r \in Requests : req[r].state # "none" =>
            DOMAIN wrapped = Tools /\ flags.path \in routes
    BY DEF Admitted, Registered
  <2> QED BY <2>1, <2>2 DEF DemoTypeOK, DemoTyped, Progress, Phases, ServeStates
<1> QED BY <1>1, DemoInvariant, PTL

(* Start-up fails closed for any files: with -ratchet-config given, every  *)
(* tool call that is ever served passes the gate (run in main.go, and      *)
(* the Register...Tool functions of greeting_tool.go).                     *)
THEOREM StartupFailsClosed == Spec => []NeverUngated
<1>1. DemoInv => NeverUngated
  <2> SUFFICES ASSUME DemoInv, NEW r \in Requests, req[r].kind = "call",
                      flags.ratchetConfig # NoFlag
               PROVE  HasService /\ wrapped[req[r].tool]
    BY DEF NeverUngated
  <2> USE DEF DemoInv
  <2>1. req[r].tool \in Tools /\ serve # "none"
    BY DEF Admitted
  <2>2. svc = EventStore(flags.ratchetConfig)
    BY <2>1 DEF Configured
  <2>3. HasService
    BY <2>2, ServiceHasStore DEF HasService
  <2> QED BY <2>1, <2>3 DEF Registered
<1> QED BY <1>1, DemoInvariant, PTL

(* A stream that clients can open is fed, and it is where the file says,   *)
(* whatever the file says (newEventBroadcaster and the routes of run).     *)
THEOREM StreamIsFed == Spec => []StreamFed
<1>1. DemoInv => StreamFed
  <2> SUFFICES ASSUME DemoInv, phase = "select"
               PROVE  /\ routes \ (QueryPaths \cup {flags.path}) # {} => svc.broadcasts
                      /\ HasService /\ mcpCfg.WebSocketEnabled =>
                            mcpCfg.WebSocketPath \in routes
    BY DEF StreamFed
  <2> USE DEF DemoInv
  <2>1. serve # "none"
    BY DEF Progress
  <2>2. routes = QueryPaths \cup StreamPaths \cup {flags.path}
    BY <2>1 DEF Registered
  <2>3. HasService => /\ svc = EventStore(flags.ratchetConfig)
                      /\ broadcaster = mcpCfg.WebSocketEnabled
    BY <2>1, ServiceHasStore DEF Configured, HasService
  <2>4. HasService => svc.broadcasts = mcpCfg.WebSocketEnabled
    BY <2>3, ServiceHasStore
  <2> QED BY <2>2, <2>3, <2>4 DEF StreamPaths
<1> QED BY <1>1, DemoInvariant, PTL

(* Success means a clean stop, however the signal, the requests and the    *)
(* goroutine of ListenAndServe interleave.                                 *)
THEOREM SuccessIsClean == Spec => []CleanExit
<1>1. DemoInv => CleanExit
    BY DEF DemoInv, CleanExit, Reported, Progress
<1> QED BY <1>1, DemoInvariant, PTL

(* No interleaving loses an error of ListenAndServe (errServe, main.go).   *)
THEOREM ServeErrorNeverLost == Spec => []ServeErrorReported
<1>1. DemoInv => ServeErrorReported
    BY DEF DemoInv, ServeErrorReported, Reported
<1> QED BY <1>1, DemoInvariant, PTL
=============================================================================
