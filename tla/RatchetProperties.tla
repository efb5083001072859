------------------------- MODULE RatchetProperties -------------------------
(***************************************************************************)
(* What the ratchet promises, stated over the calls of RatchetCalls.       *)
(***************************************************************************)
EXTENDS RatchetCalls

(* A call that has passed ValidateToolCall and has not returned. *)
Validating == {"validateGet", "history", "tokens"}
Admitted == {"handler", "consume", "remove", "consumeGet", "truncate",
             "consumeUpdate", "issue", "issueGet", "add", "issueUpdate",
             "recordGet", "record", "recordUpdate"}

(* ... and whose handler has succeeded. *)
Executing == Admitted \ {"handler"}

AllIdle == ~crashed /\ \A p \in Calls : pc[p] = "idle"

HoldsCopy == {"readToken", "history", "tokens", "truncate", "consumeUpdate",
              "add", "issueUpdate", "record", "recordUpdate"}

(* How often tool t occurs in the history a session copy shows. *)
Times(h, t) == Cardinality({k \in 1 .. h.len : arrayHeap[h.arr].slots[k] = t})

(* What f counts for the tools of T0, one by one: <<t, k>> is the k-th     *)
(* success of tool t's handler, or its k-th token.                         *)
Counted(f, T0) == UNION {{t} \X (1 .. f[t]) : t \in T0}

(* The tokens that were made, and those in the store. *)
Made == 1 .. nextToken - 1
Stored == {v \in Made : \E s \in Sessions, t \in Tools : Holds(s, t, v)}

---------------------------------------------------------------------------
(* A session copy refers to a map and an array that exist, and the array   *)
(* is long enough and was made for that session.                           *)
ValidHeader(s, h) ==
    /\ h.toks \in 1 .. Len(mapHeap)
    /\ h.arr \in 1 .. Len(arrayHeap)
    /\ h.len <= Len(arrayHeap[h.arr].slots)
    /\ arrayHeap[h.arr].ses = s

(* No copy of a session, stored or in the hands of a call, dangles or is   *)
(* mixed up with another session's.                                        *)
CopiesValid ==
    /\ \A s \in Sessions : Exists(s) => ValidHeader(s, sessions[s])
    /\ \A p \in Calls : pc[p] \in HoldsCopy => ValidHeader(S(p), H(p))

(* The rule a call has in hand is one of its tool's rules and names a      *)
(* prerequisite; only gated tools are validated against the session.       *)
KeepsRule == {"history", "tokens", "remove", "consumeGet", "truncate"}
RulesInHand ==
    \A p \in Calls :
        /\ pc[p] \in Validating => Gated(rules, T(p))
        /\ pc[p] \in KeepsRule => /\ call[p].rule \in findRules(rules, T(p))
                                 /\ Required(p) \in Tools

BackingArray == [ses : Sessions, slots : Seq(Tools \cup {NoTool, Torn})]
VariablesTyped ==
    /\ rules \in Configs
    /\ pc \in [Calls -> Steps]
    /\ call \in [Calls -> Locals]
    /\ events \in [EventTypes -> Nat]
    /\ nextToken \in Nat \ {0}
    /\ crashed \in BOOLEAN
    /\ begun \in 0 .. MaxCalls
    /\ deletes \in 0 .. MaxDeletes
    /\ now \in 0 .. MaxTime
    /\ tokens \in [Sessions -> [Tools -> Seq(Entry)]]
    /\ mapHeap \in Seq([Tools -> Seq(Nat)])
    /\ arrayHeap \in Seq(BackingArray)
    /\ sessions \in [Sessions -> Header]
    /\ executed \in [Sessions -> [Tools -> Nat]]
    /\ issued \in [Sessions -> [Tools -> Nat]]

(* Type invariant: the variables hold values of their types, every copy of *)
(* a session is in order and so is every rule a call has in hand.          *)
TypeOK == VariablesTyped /\ CopiesValid /\ RulesInHand

(* The point of the ratchet: whatever calls overlap, a call of a gated     *)
(* tool that ValidateToolCall lets through comes after a successful call,  *)
(* in the same session, of a prerequisite of one of the tool's rules -     *)
(* though the history it consults is shared, copied and overwritten        *)
(* without synchronisation.                                                *)
OrderEnforced ==
    \A p \in Calls : pc[p] \in Admitted /\ Gated(rules, T(p)) =>
        \E u \in Prerequisites(rules, T(p)) \cap Tools : executed[S(p)][u] > 0

(* The inductive invariant behind OrderEnforced.  A tool's name gets into  *)
(* an array only after the tool has been executed in the session the array *)
(* was made for; a call that found its prerequisite in a history keeps     *)
(* that in mind until it is admitted.                                      *)
Executed(s, t) == executed[s][t] > 0
ArraysKnown ==
    \A a \in DOMAIN arrayHeap : \A k \in DOMAIN arrayHeap[a].slots :
        arrayHeap[a].slots[k] \in Tools => Executed(arrayHeap[a].ses, arrayHeap[a].slots[k])
CallOrdered(p) ==
    /\ pc[p] \in Admitted \ {"handler"} => Executed(S(p), T(p))
    /\ pc[p] = "tokens" => Executed(S(p), Required(p))
    /\ pc[p] \in Admitted /\ Gated(rules, T(p)) =>
          \E u \in Prerequisites(rules, T(p)) \cap Tools : Executed(S(p), u)
OrderInv == ArraysKnown /\ \A p \in Calls : CallOrdered(p)

(* The ratchet implements Gate: every step of a call, with its copies and  *)
(* its races, is a step of the abstract call or leaves it where it is.     *)
G == INSTANCE Gate WITH
        phase <- [p \in Calls |->
                    IF pc[p] = "idle" THEN "idle"
                    ELSE IF pc[p] = "handler" THEN "admitted"
                    ELSE IF pc[p] \in Admitted THEN "executed" ELSE "arrived"],
        who <- [p \in Calls |-> [ses |-> S(p), tool |-> T(p)]],
        done <- [s \in Sessions |-> {t \in Tools : executed[s][t] > 0}]
ImplementsGate == G!GateSpec

(* The history never invents: a session's ToolHistory, and that of every   *)
(* copy, shows a tool at most as often as its handler succeeded there,     *)
(* however appends to shared arrays overlap.                               *)
HistoryNeverInvents ==
    /\ \A s \in Sessions : Exists(s) =>
          \A t \in Tools : Times(sessions[s], t) <= executed[s][t]
    /\ \A p \in Calls : pc[p] \in HoldsCopy =>
          \A t \in Tools : Times(H(p), t) <= executed[S(p)][t]

(* Tokens are conserved: no token is in the store twice, and every token   *)
(* that was made is in the store or has left it with one token_consumed    *)
(* event, although consumers race for the same token and RemoveToken is    *)
(* called with a token that was read some steps before.                    *)
StoredOnce ==
    \A s1, s2 \in Sessions, t1, t2 \in Tools :
        \A i \in DOMAIN tokens[s1][t1], j \in DOMAIN tokens[s2][t2] :
            tokens[s1][t1][i].value = tokens[s2][t2][j].value
                => s1 = s2 /\ t1 = t2 /\ i = j
TokensConserved ==
    StoredOnce /\ Cardinality(Made) = Cardinality(Stored) + events["token_consumed"]

(* Every attempt is answered: once the calls have left ValidateToolCall,   *)
(* there is one success or one failure event for each attempt event, on    *)
(* all of its return paths.                                                *)
AttemptsAnswered ==
    events["attempt"] = events["success"] + events["failure"]
                        + Cardinality({p \in Calls : pc[p] \in Validating})

(* The tools that are opened by one-time tokens of u and by nothing else. *)
OneTimeDependents(u) ==
    {t \in Tools : /\ findRules(rules, t) # {}
                   /\ \A i \in findRules(rules, t) : rules[i].prereq = u
                   /\ OneTimeRule(t)}

(* A one-time token opens at most as many executions as calls can be in    *)
(* flight: ConsumePrerequisiteToken runs after the handler and takes no    *)
(* reservation, so overlapping calls can share a token, but each sharer    *)
(* was in flight when it vanished.  With one call at a time this is: one   *)
(* execution per token.                                                    *)
BoundedReuse ==
    \A s \in Sessions, u \in Tools :
        Cardinality(Counted(executed[s], OneTimeDependents(u)))
            <= Cardinality(Calls) * issued[s][u]

(* Between calls that do not overlap, the session's copy of the tokens is  *)
(* the token store's: the token ConsumePrerequisiteToken removes from the  *)
(* store (the last valid one) is the one it cuts off the session (the last *)
(* one), also when older tokens have expired.                              *)
TokensMirrored ==
    AllIdle => \A s \in Sessions : Exists(s) => \A t \in Tools :
        TokensOf(sessions[s], t) =
            [i \in DOMAIN tokens[s][t] |-> tokens[s][t][i].value]

(* Between calls, the session's ToolHistory shows every tool as often as   *)
(* its handler succeeded: no call is missing (README: "Which tools have    *)
(* been called").                                                          *)
HistoryComplete ==
    AllIdle => \A s \in Sessions : Exists(s) => \A t \in Tools :
        Times(sessions[s], t) = executed[s][t]

(* A session that exists is never replaced by a new one: of the calls that *)
(* race to create it one wins and the others use the winner's.             *)
SessionNeverReplaced ==
    [][\A s \in Sessions : Exists(s) => sessions'[s].toks = sessions[s].toks]_vars

(* Every token is announced: a stored token has its token_created event as *)
(* soon as the call that issued it is done with IssueToken, so the event   *)
(* log is behind the store by the calls in flight only, and a token may be *)
(* consumed before it is announced only then.  (A session that is deleted  *)
(* meanwhile leaves a token without event.)                                *)
Issuing == {p \in Calls : pc[p] \in {"issueGet", "add", "issueUpdate"}}
TokensAnnounced ==
    deletes = 0 => Cardinality(Made) = events["token_created"] + Cardinality(Issuing)

(* Overlapping calls lose each other's entries, but never all of them:     *)
(* whatever stale copies ConsumePrerequisiteToken, IssueToken and the      *)
(* wrapper write back over newer ones, a session in which a tool has run   *)
(* has a history that is not empty, or a call that is yet to write its own *)
(* entry.  (A session that is deleted meanwhile may come back empty.)      *)
HistoryNeverWiped ==
    deletes = 0 => \A s \in Sessions :
        (\E t \in Tools : executed[s][t] > 0) =>
            \/ sessions[s].len >= 1
            \/ \E p \in Calls : pc[p] \in Executing /\ S(p) = s

(* Every call that begins returns, unless the process is stopped: the loop *)
(* over the rules ends and nothing holds up what follows the handler.  The *)
(* handler and the event store are taken to return.                        *)
CallsReturn == \A p \in Calls : pc[p] # "idle" ~> pc[p] = "idle" \/ crashed

---------------------------------------------------------------------------
(* What the documentation says and the code does not do. *)

(* README: "`one_time_use` - If `true`, token is consumed after one use":  *)
(* the tools all of whose rules are one-time are not executed more often   *)
(* than their prerequisites' tokens were issued.                           *)
OneTimeTools ==
    {t \in Tools : Gated(rules, t) /\ \A i \in findRules(rules, t) : rules[i].oneTime}
SingleUse ==
    \A s \in Sessions :
        Cardinality(Counted(executed[s], OneTimeTools))
            <= Cardinality(Counted(issued[s],
                               UNION {Prerequisites(rules, t) : t \in OneTimeTools}))

(* doc.go: the Session supports "concurrent token usage": calls that       *)
(* overlap do not stop the process.                                        *)
NoRuntimeThrow == ~crashed
=============================================================================
