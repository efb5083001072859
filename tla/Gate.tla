-------------------------------- MODULE Gate --------------------------------
(***************************************************************************)
(* What the ratchet promises its host, without stores, tokens or copies: a *)
(* call of a gated tool is let through only after a successful call, in    *)
(* its session, of a prerequisite of one of the tool's rules.  It may be   *)
(* turned away at any time (a token may have expired or been consumed).    *)
(***************************************************************************)
EXTENDS RatchetDomain

CONSTANTS Calls, Configs

VARIABLES
    rules,      \* the rules in force
    phase,      \* "idle", "arrived", "admitted" or "executed", per call
    who,        \* the session and the tool of each call
    done        \* [session -> tools whose handler has succeeded there]

gateVars == <<rules, phase, who, done>>

GateInit ==
    /\ rules \in Configs
    /\ phase = [p \in Calls |-> "idle"]
    /\ who \in [Calls -> [ses : Sessions, tool : Tools]]
    /\ done = [s \in Sessions |-> {}]

Open(s, t) == ~Gated(rules, t) \/ \E u \in Prerequisites(rules, t) : u \in done[s]

Move(p, from, to) ==
    /\ phase[p] = from
    /\ phase' = [phase EXCEPT ![p] = to]

Arrive(p) ==
    /\ Move(p, "idle", "arrived")
    /\ \E s \in Sessions, t \in Tools : who' = [who EXCEPT ![p] = [ses |-> s, tool |-> t]]
    /\ UNCHANGED <<rules, done>>

Admit(p) ==
    /\ Open(who[p].ses, who[p].tool)
    /\ Move(p, "arrived", "admitted")
    /\ UNCHANGED <<rules, who, done>>

Execute(p) ==
    /\ Move(p, "admitted", "executed")
    /\ done' = [done EXCEPT ![who[p].ses] = @ \cup {who[p].tool}]
    /\ UNCHANGED <<rules, who>>

(* Turned away, failed, or finished: the call is over. *)
Leave(p) ==
    /\ phase[p] # "idle"
    /\ phase' = [phase EXCEPT ![p] = "idle"]
    /\ \E w \in [ses : Sessions, tool : Tools] : who' = [who EXCEPT ![p] = w]
    /\ UNCHANGED <<rules, done>>

GateNext == \E p \in Calls : Arrive(p) \/ Admit(p) \/ Execute(p) \/ Leave(p)

GateSpec == GateInit /\ [][GateNext]_gateVars
=============================================================================
