--------------------------- MODULE ConfigLoader ---------------------------
(***************************************************************************)
(* How the rules reach the service: the YAML loader and its search for     *)
(* circular dependencies (pkg/ratchet/adapters/yaml_loader.go), and the    *)
(* two ways of installing rules, LoadConfiguration (load, validate,        *)
(* replace) and the start-up of the demo server (load, then RegisterRule). *)
(*                                                                         *)
(* The search is a state machine because its outcome must not depend on    *)
(* the order in which Go ranges over a map.  A call of hasCycle is a frame *)
(* [tool, at]: at is the position of the last rule of tool it looked at.   *)
(***************************************************************************)
EXTENDS RatchetDomain

CONSTANTS
    Files,          \* decodable configuration files: sequences of entries
    Undecodable,    \* a file the YAML decoder rejects
    Unset,          \* an entry without an expiry
    Malformed,      \* an expiry time.ParseDuration rejects
    MaxLoads,       \* bound on the attempts to load a file
    MaxRules        \* bound on the rules RegisterRule builds up

Entry == [tool : Tools \cup {NoTool}, prereq : Tools \cup {NoTool},
          expiry : Nat \cup {Unset, Malformed}, oneTime : BOOLEAN]

ASSUME FilesAssumption ==
    /\ Files \subseteq Seq(Entry)
    /\ Undecodable \notin Files
    /\ Unset \notin Nat /\ Malformed \notin Nat
ASSUME LoadBoundsAssumption == MaxLoads \in Nat /\ MaxRules \in Nat

VARIABLES
    rules,          \* RatchetServiceImpl.rules
    pc,             \* "idle", "search" (inside Validate) or "exited"
    loading,        \* the rules of the file being loaded, or loaded last
    visited,        \* Validate's visited
    recursionStack, \* Validate's recursionStack
    frames,         \* the active calls of hasCycle, innermost last
    verdict,        \* how the last load ended
    registered,     \* has RegisterRule added a rule since the last load?
    loads           \* the loads attempted

search == <<visited, recursionStack, frames>>
vars == <<rules, pc, loading, visited, recursionStack, frames, verdict,
          registered, loads>>

-----------------------------------------------------------------------------
(* Reading a file *)

(* The rule of an entry: a missing expiry is the default. *)
toRule(e) ==
    [tool |-> e.tool, prereq |-> e.prereq, oneTime |-> e.oneTime,
     expiry |-> IF e.expiry = Unset THEN DefaultExpiry ELSE e.expiry]

(* Load returns the rules of the file, or an error at its first bad entry. *)
Load(f) == [i \in DOMAIN f |-> toRule(f[i])]
LoadError(f) ==
    f # Undecodable =>
        \E i \in DOMAIN f : f[i].expiry = Malformed \/ ~ValidRule(toRule(f[i]))

(* LoadConfig repeats Load's loop; the observability settings it returns    *)
(* as well reach only the event store.                                     *)
LoadConfig(f) == [i \in DOMAIN f |-> toRule(f[i])]

(* RegisterRule appends to the rules, once the rule is valid. *)
Registered(rs, r) == Append(rs, r)

-----------------------------------------------------------------------------
(* Validate's graph: adj[tool] lists the prerequisites of tool. *)

Edge(rs, t, u) == \E i \in findRules(rs, t) : rs[i].prereq = u

(* A circular dependency: a set of tools each with a prerequisite in it. *)
Circular(rs, S) == S # {} /\ \A t \in S : \E u \in S : Edge(rs, t, u)
HasCycle(rs) == \E S \in SUBSET Tools : Circular(rs, S)

-----------------------------------------------------------------------------
Init ==
    /\ rules = <<>>
    /\ pc = "idle"
    /\ loading = <<>>
    /\ visited = {}
    /\ recursionStack = {}
    /\ frames = <<>>
    /\ verdict = "none"
    /\ registered = FALSE
    /\ loads = 0

(* LoadConfiguration: Load, then Validate begins with empty maps. *)
StartLoad(f) ==
    /\ ~LoadError(f)
    /\ loading' = Load(f)
    /\ visited' = {}
    /\ recursionStack' = {}
    /\ frames' = <<>>
    /\ pc' = "search"
    /\ verdict' = "none"
    /\ loads' = loads + 1
    /\ UNCHANGED <<rules, registered>>

LoadFails(f) ==
    /\ LoadError(f)
    /\ verdict' = "unreadable"
    /\ loads' = loads + 1
    /\ UNCHANGED <<rules, pc, loading, search, registered>>

LoadConfiguration ==
    /\ pc = "idle" /\ loads < MaxLoads
    /\ \E f \in Files \cup {Undecodable} : StartLoad(f) \/ LoadFails(f)

(* hasCycle(t) is called: it marks t visited and on the stack. *)
Call(t) ==
    /\ visited' = visited \cup {t}
    /\ recursionStack' = recursionStack \cup {t}

(* The loop of Validate: a key of adj, in any order, not visited yet.  The *)
(* range yields each key once; one that was yielded or reached before is   *)
(* in visited for good, and to yield it changes nothing.                   *)
Visit(t) ==
    /\ pc = "search"
    /\ frames = <<>>
    /\ findRules(loading, t) # {}
    /\ t \notin visited
    /\ Call(t)
    /\ frames' = <<[tool |-> t, at |-> 0]>>
    /\ UNCHANGED <<rules, pc, loading, verdict, registered, loads>>

Top == frames[Len(frames)]
Looking ==
    /\ pc = "search"
    /\ frames # <<>>
    /\ RulesAfter(loading, Top.tool, Top.at) # {}
Position == NextRule(loading, Top.tool, Top.at)
Prereq == loading[Position].prereq
Advanced == [frames EXCEPT ![Len(frames)].at = Position]

(* The next prerequisite of the innermost tool: not visited, ... *)
Descend ==
    /\ Looking
    /\ Prereq \notin visited
    /\ Call(Prereq)
    /\ frames' = Append(Advanced, [tool |-> Prereq, at |-> 0])
    /\ UNCHANGED <<rules, pc, loading, verdict, registered, loads>>

(* ... visited and done with, ... *)
(* mutant: prerequisites on the stack are passed over as well *)
BlindSkip ==
    /\ Looking
    /\ Prereq \in visited
    /\ frames' = Advanced
    /\ UNCHANGED <<rules, pc, loading, visited, recursionStack, verdict,
                   registered, loads>>
(* mutant: the loop goes on without its increment *)
StuckSkip ==
    /\ Looking
    /\ Prereq \in visited
    /\ Prereq \notin recursionStack
    /\ UNCHANGED vars
Skip ==
    /\ Looking
    /\ Prereq \in visited
    /\ Prereq \notin recursionStack
    /\ frames' = Advanced
    /\ UNCHANGED <<rules, pc, loading, visited, recursionStack, verdict,
                   registered, loads>>

(* ... or on the stack: every active call returns true, Validate returns    *)
(* ErrCircularDependency and LoadConfiguration leaves the rules alone.     *)
BackEdge ==
    /\ Looking
    /\ Prereq \in visited
    /\ Prereq \in recursionStack
    /\ pc' = "idle"
    /\ verdict' = "circular"
    /\ UNCHANGED <<rules, loading, search, registered, loads>>

(* hasCycle(tool) has looked at every prerequisite and returns false. *)
(* mutant: the wrong map is reset *)
WrongReset ==
    /\ pc = "search"
    /\ frames # <<>>
    /\ RulesAfter(loading, Top.tool, Top.at) = {}
    /\ visited' = visited \ {Top.tool}
    /\ frames' = SubSeq(frames, 1, Len(frames) - 1)
    /\ UNCHANGED <<rules, pc, loading, recursionStack, verdict, registered,
                   loads>>
(* mutant: the tool stays on the stack *)
NoReset ==
    /\ pc = "search"
    /\ frames # <<>>
    /\ RulesAfter(loading, Top.tool, Top.at) = {}
    /\ frames' = SubSeq(frames, 1, Len(frames) - 1)
    /\ UNCHANGED <<rules, pc, loading, visited, recursionStack, verdict,
                   registered, loads>>
Return ==
    /\ pc = "search"
    /\ frames # <<>>
    /\ RulesAfter(loading, Top.tool, Top.at) = {}
    /\ recursionStack' = recursionStack \ {Top.tool}
    /\ frames' = SubSeq(frames, 1, Len(frames) - 1)
    /\ UNCHANGED <<rules, pc, loading, visited, verdict, registered, loads>>

(* Validate found no cycle: LoadConfiguration replaces the rules. *)
Install ==
    /\ pc = "search"
    /\ frames = <<>>
    /\ \A i \in DOMAIN loading : loading[i].tool \in visited
    /\ rules' = loading
    /\ pc' = "idle"
    /\ verdict' = "accepted"
    /\ registered' = FALSE
    /\ UNCHANGED <<loading, search, loads>>

(* RegisterRule called by a user of the library. *)
RegisterRule(r) ==
    /\ pc = "idle"
    /\ ValidRule(r)
    /\ Len(rules) < MaxRules
    /\ rules' = Registered(rules, r)
    /\ registered' = TRUE
    /\ UNCHANGED <<pc, loading, search, verdict, loads>>

(* The demo server starts: LoadConfig, then RegisterRule for each rule,    *)
(* before it listens.  LoadConfig has validated every rule already, so no  *)
(* RegisterRule fails; the sequence it appends one by one is the file's.   *)
BootDemo(f) ==
    /\ ~LoadError(f)
    /\ rules' = rules \o LoadConfig(f)
    /\ registered' = TRUE
    /\ loads' = MaxLoads
    /\ UNCHANGED <<pc, loading, search, verdict>>

(* A file the demo cannot load: run returns the error, the process exits. *)
BootFails(f) ==
    /\ LoadError(f)
    /\ pc' = "exited"
    /\ UNCHANGED <<rules, loading, search, verdict, registered, loads>>

Boot ==
    /\ pc = "idle" /\ loads = 0 /\ MaxLoads > 0 /\ rules = <<>>
    /\ \E f \in Files \cup {Undecodable} : BootDemo(f) \/ BootFails(f)

(* Configured for good. *)
Served ==
    /\ pc # "search"
    /\ UNCHANGED vars

Validation ==
    \/ \E t \in Tools : Visit(t)
    \/ Descend
    \/ Skip
    \/ BackEdge
    \/ Return
    \/ Install

Next ==
    \/ LoadConfiguration
    \/ Boot
    \/ Validation
    \/ \E t \in Tools, u \in Tools \cup {NoTool} :
           RegisterRule([tool |-> t, prereq |-> u,
                         expiry |-> DefaultExpiry, oneTime |-> FALSE])
    \/ Served

Spec == Init /\ [][Next]_vars

(* Validate is a sequential loop: the goroutine that runs it keeps going. *)
FairSpec == Spec /\ WF_vars(Validation)

-----------------------------------------------------------------------------
Nodes == Tools \cup {NoTool}
Frame == [tool : Nodes, at : Nat]

(* Types, and the search's bookkeeping stays inside the graph. *)
ConfigTypeOK ==
    /\ rules \in Seq(Rule)
    /\ loading \in Seq(Rule)
    /\ pc \in {"idle", "search", "exited"}
    /\ visited \subseteq Nodes
    /\ recursionStack \subseteq visited
    /\ frames \in Seq(Frame)
    /\ verdict \in {"none", "unreadable", "circular", "accepted"}
    /\ registered \in BOOLEAN
    /\ loads \in Nat

(* Validate's answer is right for every order in which it ranges over adj: *)
(* it reports a circular dependency exactly when the loaded rules have one *)
(* (yaml_loader.go, Validate).                                             *)
VerdictCorrect ==
    /\ verdict = "accepted" => ~HasCycle(loading)
    /\ verdict = "circular" => HasCycle(loading)

(* As long as rules come from LoadConfiguration only, the service never    *)
(* holds a circular rule set, whatever loads failed before or in between.  *)
LoadedRulesAcyclic == ~registered => ~HasCycle(rules)

(* Validate ends on every graph, circular ones included. *)
ValidationEnds == pc = "search" ~> pc = "idle"

(* pkg/ratchet/README.md: "Circular Dependency Detection: Validates rule   *)
(* graphs at startup", claimed of the rules the service works with.        *)
RulesAcyclic == ~HasCycle(rules)
=============================================================================
