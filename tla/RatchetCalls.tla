---------------------------- MODULE RatchetCalls ----------------------------
(***************************************************************************)
(* Tool calls going through the ratchet: the handler that WrapWithRatchet  *)
(* (pkg/ratchet/mcp/wrapper.go) puts around every tool, with the service   *)
(* it calls (pkg/ratchet/services/ratchet_service.go) and the two stores   *)
(* below it.  The MCP server runs each call in a goroutine of its own.     *)
(* Nothing spans the calls to the stores, so a call is a sequence of steps *)
(* - one per critical section of a store or access to memory shared        *)
(* through a session copy - and the steps of different calls interleave.   *)
(***************************************************************************)
EXTENDS MemoryTokenStore, MemorySessionStore

CONSTANTS
    Calls,          \* goroutines: how many calls may be in flight at once
    Configs,        \* the rule sequences the service may have been given
    GeneratorFails, \* whether the random generator may return an error
    EmptySession,   \* the session identifier ""
    MaxCalls,       \* bound: calls begun
    MaxTime,        \* bound: clock ticks
    MaxDeletes      \* bound: sessions deleted by the host

ASSUME ConfigsAssumption ==
    Configs \subseteq {rs \in Seq(Rule) : \A i \in DOMAIN rs : ValidRule(rs[i])}
ASSUME CallsAssumption == IsFiniteSet(Calls)
ASSUME GeneratorAssumption == GeneratorFails \in BOOLEAN
ASSUME BoundsAssumption == MaxCalls \in Nat /\ MaxTime \in Nat /\ MaxDeletes \in Nat

VARIABLES
    rules,      \* the service's rules, set up before the server starts
    pc,         \* where each call is
    call,       \* its local variables
    events,     \* how many events of each type the event store was given
    nextToken,  \* the next value of the random generator, never repeated
    crashed,    \* the runtime stopped the process: "concurrent map writes"
    begun,      \* calls begun so far
    deletes,    \* sessions deleted so far
    executed,   \* history: handlers that succeeded, per session and tool
    issued      \* history: tokens stored, per session and tool

tvars == <<tokens, now>>
svars == <<sessions, mapHeap, arrayHeap>>
hvars == <<executed, issued>>
gvars == <<rules, crashed, begun, deletes>>     \* no step of a call sets these
vars == <<pc, call, events, nextToken, gvars, tvars, svars, hvars>>

NoToken == 0
EventTypes == {"attempt", "success", "failure", "token_created",
               "token_consumed", "session_created"}
Steps == {"idle", "get", "createGet", "create", "readToken", "validate",
          "validateGet", "history", "tokens", "handler", "consume", "remove",
          "consumeGet", "truncate", "consumeUpdate", "issue", "issueGet", "add",
          "issueUpdate", "recordGet", "record", "recordUpdate"}

(* A call's locals: its session and tool, the session copy in hand, the    *)
(* position of the rule in hand and the token in hand.                     *)
Locals == [ses : Sessions, tool : Tools, hdr : Header, rule : Nat, tok : Nat]
Idle == [ses |-> CHOOSE s \in Sessions : TRUE, tool |-> CHOOSE t \in Tools : TRUE,
         hdr |-> NoSession, rule |-> 0, tok |-> NoToken]

Init ==
    /\ TokenStoreInit
    /\ SessionStoreInit
    /\ rules \in Configs
    /\ pc = [p \in Calls |-> "idle"]
    /\ call = [p \in Calls |-> Idle]
    /\ events = [e \in EventTypes |-> 0]
    /\ nextToken = 1
    /\ crashed = FALSE
    /\ begun = 0
    /\ deletes = 0
    /\ executed = [s \in Sessions |-> [t \in Tools |-> 0]]
    /\ issued = [s \in Sessions |-> [t \in Tools |-> 0]]

---------------------------------------------------------------------------
(* The running call p moves from one step to another; an event it emits is *)
(* counted.  The event store is the memory store, whose Store returns and  *)
(* whose errors emitEvent drops.  With streaming Store also broadcasts and *)
(* may block or panic: that path is EventBroadcaster.                      *)
At(p, step) == ~crashed /\ pc[p] = step
Goto(p, step) == pc' = [pc EXCEPT ![p] = step]
Emit(E) == events' = [e \in EventTypes |-> events[e] + (IF e \in E THEN 1 ELSE 0)]
Set(p, c) == call' = [call EXCEPT ![p] = c]
Return(p) == Goto(p, "idle") /\ Set(p, Idle)
Keep(hdr, p) == Set(p, [call[p] EXCEPT !.hdr = hdr])

S(p) == call[p].ses
T(p) == call[p].tool
H(p) == call[p].hdr

---------------------------------------------------------------------------
(* The wrapper, up to the call of ValidateToolCall. *)

(* A client calls a tool.  The wrapper of the source puts every call into  *)
(* one fixed session; a host of its own may name others.                   *)
Begin(p) ==
    /\ At(p, "idle") /\ begun < MaxCalls
    /\ begun' = begun + 1
    /\ \E s \in Sessions, t \in Tools : Set(p, [Idle EXCEPT !.ses = s, !.tool = t])
    /\ Goto(p, "get")
    /\ UNCHANGED <<rules, events, nextToken, crashed, deletes, tvars, svars, hvars>>

(* sessionStore.Get of the wrapper *)
WrapGet(p) ==
    /\ At(p, "get")
    /\ Keep(sessions[S(p)], p)
    /\ Goto(p, IF Exists(S(p)) THEN "readToken" ELSE "createGet")
    /\ UNCHANGED <<events, nextToken, gvars, tvars, svars, hvars>>

(* CreateSession: an existing session is returned *)
CreateGet(p) ==
    /\ At(p, "createGet")
    /\ Keep(sessions[S(p)], p)
    /\ Goto(p, IF Exists(S(p)) THEN "readToken" ELSE "create")
    /\ UNCHANGED <<events, nextToken, gvars, tvars, svars, hvars>>

(* CreateSession: otherwise a new one is put in the store *)
(* mutant: Create does not look whether the session exists *)
BlindCreateNew(p) ==
    /\ At(p, "create")
    /\ Create(S(p))
    /\ Keep(NewHeader, p)
    /\ Emit({"session_created"})
    /\ Goto(p, "readToken")
    /\ UNCHANGED <<nextToken, gvars, tvars, hvars>>
CreateNew(p) ==
    /\ At(p, "create") /\ ~Exists(S(p))
    /\ Create(S(p))
    /\ Keep(NewHeader, p)
    /\ Emit({"session_created"})
    /\ Goto(p, "readToken")
    /\ UNCHANGED <<nextToken, gvars, tvars, hvars>>

(* mutant: the wrapper goes on with the nil session *)
NilCreateFails(p) ==
    /\ At(p, "create") /\ Exists(S(p))
    /\ Goto(p, "readToken")
    /\ UNCHANGED <<call, events, nextToken, gvars, tvars, svars, hvars>>
(* Someone created it first: CreateSession fails, the wrapper goes on with *)
(* a private empty session, in which it finds no token.                    *)
CreateFails(p) ==
    /\ At(p, "create") /\ Exists(S(p))
    /\ Goto(p, "validate")
    /\ UNCHANGED <<call, events, nextToken, gvars, tvars, svars, hvars>>

(* The last token of the called tool itself is read from the shared map. *)
ReadToken(p) ==
    /\ At(p, "readToken")
    /\ LET ts == TokensOf(H(p), T(p))
       IN  Set(p, [call[p] EXCEPT !.tok = IF ts = <<>> THEN NoToken ELSE ts[Len(ts)]])
    /\ Goto(p, "validate")
    /\ UNCHANGED <<events, nextToken, gvars, tvars, svars, hvars>>

---------------------------------------------------------------------------
(* ValidateToolCall: the token it is given is only reported in events. *)

(* No rule, or a free-pass rule: admitted without a look at the session. *)
AdmitFree(p) ==
    /\ At(p, "validate") /\ ~Gated(rules, T(p))
    /\ Emit({"attempt", "success"})
    /\ Goto(p, "handler")
    /\ UNCHANGED <<call, nextToken, gvars, tvars, svars, hvars>>

(* A gated tool cannot be called without a session. *)
RejectNoSession(p) ==
    /\ At(p, "validate") /\ Gated(rules, T(p)) /\ S(p) = EmptySession
    /\ Emit({"attempt", "failure"})
    /\ Return(p)
    /\ UNCHANGED <<nextToken, gvars, tvars, svars, hvars>>

StartValidation(p) ==
    /\ At(p, "validate") /\ Gated(rules, T(p)) /\ S(p) # EmptySession
    /\ Emit({"attempt"})
    /\ Goto(p, "validateGet")
    /\ UNCHANGED <<call, nextToken, gvars, tvars, svars, hvars>>

(* mutant: no failure event when the session is gone *)
SilentValidateGet(p) ==
    /\ At(p, "validateGet")
    /\ IF Exists(S(p))
       THEN /\ Set(p, [call[p] EXCEPT !.hdr = sessions[S(p)],
                                      !.rule = findRule(rules, T(p))])
            /\ Goto(p, "history")
       ELSE Return(p)
    /\ UNCHANGED <<events, nextToken, gvars, tvars, svars, hvars>>
ValidateGet(p) ==
    /\ At(p, "validateGet")
    /\ IF Exists(S(p))
       THEN /\ Set(p, [call[p] EXCEPT !.hdr = sessions[S(p)],
                                      !.rule = findRule(rules, T(p))])
            /\ Goto(p, "history")
            /\ UNCHANGED events
       ELSE Emit({"failure"}) /\ Return(p)
    /\ UNCHANGED <<nextToken, gvars, tvars, svars, hvars>>

(* The rule in hand is not satisfied: on to the next, or the call fails. *)
(* mutant: the last rule fails and a nil error is returned *)
NilRuleFails(p) ==
    IF RulesAfter(rules, T(p), call[p].rule) # {}
    THEN /\ Set(p, [call[p] EXCEPT !.rule = NextRule(rules, T(p), @)])
         /\ Goto(p, "history")
         /\ UNCHANGED events
    ELSE Emit({"failure"}) /\ Goto(p, "handler") /\ UNCHANGED call
(* mutant: the last rule fails and no event says so *)
SilentRuleFails(p) ==
    IF RulesAfter(rules, T(p), call[p].rule) # {}
    THEN /\ Set(p, [call[p] EXCEPT !.rule = NextRule(rules, T(p), @)])
         /\ Goto(p, "history")
         /\ UNCHANGED events
    ELSE Return(p) /\ UNCHANGED events

RuleFails(p) ==
    IF RulesAfter(rules, T(p), call[p].rule) # {}
    THEN /\ Set(p, [call[p] EXCEPT !.rule = NextRule(rules, T(p), @)])
         /\ Goto(p, "history")
         /\ UNCHANGED events
    ELSE Emit({"failure"}) /\ Return(p)

(* Slots of a backing array that some other call is about to overwrite in  *)
(* place: a reader that races with the write may see a torn name there.    *)
Overwritten(p, a) ==
    {H(q).len + 1 : q \in {r \in Calls \ {p} : /\ pc[r] = "record"
                                               /\ H(r).arr = a /\ InPlace(H(r))}}

Required(p) == rules[call[p].rule].prereq

(* HasToolBeenCalled on the copy: slices.Contains over the shared array *)
HistoryHit(p) ==
    /\ At(p, "history")
    /\ HasToolBeenCalled(H(p), Required(p))
    /\ Goto(p, "tokens")
    /\ UNCHANGED <<call, events, nextToken, gvars, tvars, svars, hvars>>

HistoryMiss(p) ==
    /\ At(p, "history")
    /\ \A k \in (1 .. H(p).len) \ Overwritten(p, H(p).arr) :
           arrayHeap[H(p).arr].slots[k] # Required(p)
    /\ RuleFails(p)
    /\ UNCHANGED <<nextToken, gvars, tvars, svars, hvars>>

(* GetValidTokens of the prerequisite: one is enough, none is reserved. *)
CheckTokens(p) ==
    /\ At(p, "tokens")
    /\ IF ValidTokens(S(p), Required(p)) # {}
       THEN Emit({"success"}) /\ Goto(p, "handler") /\ UNCHANGED call
       ELSE RuleFails(p)
    /\ UNCHANGED <<nextToken, gvars, tvars, svars, hvars>>

---------------------------------------------------------------------------
(* The tool itself: external code, which succeeds or returns an error. *)

HandlerSucceeds(p) ==
    /\ At(p, "handler")
    /\ executed' = [executed EXCEPT ![S(p)][T(p)] = @ + 1]
    /\ Goto(p, "consume")
    /\ UNCHANGED <<call, events, nextToken, gvars, tvars, svars, issued>>

(* mutant: the handler's error is not looked at *)
IgnoredHandlerFails(p) ==
    /\ At(p, "handler")
    /\ Goto(p, "consume")
    /\ UNCHANGED <<call, events, nextToken, gvars, tvars, svars, hvars>>
HandlerFails(p) ==
    /\ At(p, "handler")
    /\ Return(p)
    /\ UNCHANGED <<events, nextToken, gvars, tvars, svars, hvars>>

---------------------------------------------------------------------------
(* ConsumePrerequisiteToken: only the first rule of the tool counts. *)

OneTimeRule(t) ==
    LET i == findRule(rules, t)
    IN  i # 0 /\ rules[i].prereq # NoTool /\ rules[i].oneTime

(* mutant: looks for tokens of the tool itself, not of its prerequisite *)
OwnConsumeFind(p) ==
    /\ At(p, "consume")
    /\ IF OneTimeRule(T(p)) /\ ValidTokens(S(p), T(p)) # {}
       THEN /\ Set(p, [call[p] EXCEPT !.rule = findRule(rules, T(p)),
                                      !.tok = LastValidToken(S(p), T(p))])
            /\ Goto(p, "remove")
       ELSE Goto(p, "issue") /\ UNCHANGED call
    /\ UNCHANGED <<events, nextToken, gvars, tvars, svars, hvars>>
ConsumeFind(p) ==
    /\ At(p, "consume")
    /\ IF OneTimeRule(T(p)) /\ ValidTokens(S(p), rules[findRule(rules, T(p))].prereq) # {}
       THEN /\ Set(p, [call[p] EXCEPT
                         !.rule = findRule(rules, T(p)),
                         !.tok = LastValidToken(S(p), rules[findRule(rules, T(p))].prereq)])
            /\ Goto(p, "remove")
       ELSE Goto(p, "issue") /\ UNCHANGED call
    /\ UNCHANGED <<events, nextToken, gvars, tvars, svars, hvars>>

ConsumeRemove(p) ==
    /\ At(p, "remove") /\ Holds(S(p), Required(p), call[p].tok)
    /\ RemoveToken(S(p), Required(p), call[p].tok)
    /\ Emit({"token_consumed"})
    /\ Goto(p, "consumeGet")
    /\ UNCHANGED <<call, nextToken, gvars, now, svars, hvars>>

(* mutant: the event is emitted before the error is looked at *)
EagerConsumeTooLate(p) ==
    /\ At(p, "remove") /\ ~Holds(S(p), Required(p), call[p].tok)
    /\ Emit({"token_consumed"})
    /\ Goto(p, "issue")
    /\ UNCHANGED <<call, nextToken, gvars, tvars, svars, hvars>>

(* ErrTokenNotFound: another call took it; the wrapper only logs that. *)
ConsumeTooLate(p) ==
    /\ At(p, "remove") /\ ~Holds(S(p), Required(p), call[p].tok)
    /\ Goto(p, "issue")
    /\ UNCHANGED <<call, events, nextToken, gvars, tvars, svars, hvars>>

ConsumeGet(p) ==
    /\ At(p, "consumeGet")
    /\ Keep(sessions[S(p)], p)
    /\ Goto(p, IF Exists(S(p)) THEN "truncate" ELSE "issue")
    /\ UNCHANGED <<events, nextToken, gvars, tvars, svars, hvars>>

(* The session's copy of the tokens loses its last one, whichever it is. *)
ConsumeTruncate(p) ==
    /\ At(p, "truncate")
    /\ IF TokensOf(H(p), Required(p)) # <<>>
       THEN mapHeap' = DropLastToken(H(p), Required(p)) /\ Goto(p, "consumeUpdate")
       ELSE Goto(p, "issue") /\ UNCHANGED mapHeap
    /\ UNCHANGED <<call, events, nextToken, gvars, tvars,
                   sessions, arrayHeap, hvars>>

ConsumeUpdate(p) ==
    /\ At(p, "consumeUpdate")
    /\ Update(S(p), H(p))
    /\ Goto(p, "issue")
    /\ UNCHANGED <<call, events, nextToken, gvars, tvars, hvars>>

---------------------------------------------------------------------------
(* IssueToken *)

(* The clock is read and the token stored under that expiry. *)
IssueStore(p) ==
    /\ At(p, "issue")
    /\ Store(S(p), T(p), nextToken, now + TokenExpiry(rules, T(p)))
    /\ nextToken' = nextToken + 1
    /\ issued' = [issued EXCEPT ![S(p)][T(p)] = @ + 1]
    /\ Set(p, [call[p] EXCEPT !.tok = nextToken])
    /\ Goto(p, "issueGet")
    /\ UNCHANGED <<events, gvars, now, svars, executed>>

(* GenerateToken fails: logged by the wrapper, the call goes on. *)
GenerateTokenFails(p) ==
    /\ At(p, "issue") /\ GeneratorFails
    /\ Goto(p, "recordGet")
    /\ UNCHANGED <<call, events, nextToken, gvars, tvars, svars, hvars>>

(* A session that is gone leaves the stored token behind. *)
IssueGet(p) ==
    /\ At(p, "issueGet")
    /\ Keep(sessions[S(p)], p)
    /\ Goto(p, IF Exists(S(p)) THEN "add" ELSE "recordGet")
    /\ UNCHANGED <<events, nextToken, gvars, tvars, svars, hvars>>

IssueAdd(p) ==
    /\ At(p, "add")
    /\ mapHeap' = AddToken(H(p), T(p), call[p].tok)
    /\ Goto(p, "issueUpdate")
    /\ UNCHANGED <<call, events, nextToken, gvars, tvars,
                   sessions, arrayHeap, hvars>>

(* mutant: IssueToken records the call in the history as well *)
RecordingIssueUpdate(p) ==
    /\ At(p, "issueUpdate")
    /\ arrayHeap' = RecordHeap(S(p), H(p), T(p))
    /\ sessions' = [sessions EXCEPT ![S(p)] = RecordHeader(H(p))]
    /\ Emit({"token_created"})
    /\ Goto(p, "recordGet")
    /\ UNCHANGED <<call, nextToken, gvars, tvars, mapHeap, hvars>>

(* mutant: no token_created event *)
SilentIssueUpdate(p) ==
    /\ At(p, "issueUpdate")
    /\ Update(S(p), H(p))
    /\ Goto(p, "recordGet")
    /\ UNCHANGED <<call, events, nextToken, gvars, tvars, hvars>>
IssueUpdate(p) ==
    /\ At(p, "issueUpdate")
    /\ Update(S(p), H(p))
    /\ Emit({"token_created"})
    /\ Goto(p, "recordGet")
    /\ UNCHANGED <<call, nextToken, gvars, tvars, hvars>>

---------------------------------------------------------------------------
(* The end of the wrapper: the call is recorded in the session's history. *)

RecordGet(p) ==
    /\ At(p, "recordGet")
    /\ IF Exists(S(p))
       THEN Keep(sessions[S(p)], p) /\ Goto(p, "record")
       ELSE Return(p)
    /\ UNCHANGED <<events, nextToken, gvars, tvars, svars, hvars>>

(* mutant: RecordToolCall appends to a copy of the session of its own *)
CopyRecordTool(p) ==
    /\ At(p, "record")
    /\ arrayHeap' = RecordHeap(S(p), H(p), T(p))
    /\ Goto(p, "recordUpdate")
    /\ UNCHANGED <<call, events, nextToken, gvars, tvars,
                   sessions, mapHeap, hvars>>
RecordTool(p) ==
    /\ At(p, "record")
    /\ arrayHeap' = RecordHeap(S(p), H(p), T(p))
    /\ Keep(RecordHeader(H(p)), p)
    /\ Goto(p, "recordUpdate")
    /\ UNCHANGED <<events, nextToken, gvars, tvars,
                   sessions, mapHeap, hvars>>

(* mutant: the recorded call is not saved *)
UnsavedRecordUpdate(p) ==
    /\ At(p, "recordUpdate")
    /\ Return(p)
    /\ UNCHANGED <<events, nextToken, gvars, tvars, svars, hvars>>

RecordUpdate(p) ==
    /\ At(p, "recordUpdate")
    /\ Update(S(p), H(p))
    /\ Return(p)
    /\ UNCHANGED <<events, nextToken, gvars, tvars, hvars>>

---------------------------------------------------------------------------
(* What unsynchronised access to the shared memory of a session can do. *)

WritesMap(p) ==
    \/ pc[p] = "add"
    \/ pc[p] = "truncate" /\ TokensOf(H(p), Required(p)) # <<>>
UsesMap(p) == pc[p] \in {"readToken", "add", "truncate"}

(* Two writes of one map at once: both return, only the first is there. *)
RacyMapWrite(p, q) ==
    /\ ~crashed /\ p # q /\ WritesMap(p) /\ WritesMap(q) /\ H(p).toks = H(q).toks
    /\ mapHeap' = IF pc[p] = "add" THEN AddToken(H(p), T(p), call[p].tok)
                  ELSE DropLastToken(H(p), Required(p))
    /\ pc' = [r \in Calls |-> IF r \notin {p, q} THEN pc[r]
                              ELSE IF pc[r] = "add" THEN "issueUpdate"
                              ELSE "consumeUpdate"]
    /\ UNCHANGED <<call, events, nextToken, gvars, tvars,
                   sessions, arrayHeap, hvars>>

(* Go's runtime notices a map write beside another access and stops the    *)
(* process; nothing is persistent.                                         *)
MapThrow(p, q) ==
    /\ ~crashed /\ p # q /\ WritesMap(p) /\ UsesMap(q) /\ H(p).toks = H(q).toks
    /\ crashed' = TRUE
    /\ UNCHANGED <<rules, pc, call, events, nextToken, begun, deletes, tvars, svars, hvars>>

(* Two calls write different names into one slot at once, torn in two. *)
RacyRecord(p, q) ==
    /\ At(p, "record") /\ At(q, "record") /\ T(p) # T(q)
    /\ H(p).arr = H(q).arr /\ H(p).len = H(q).len /\ InPlace(H(p))
    /\ arrayHeap' = RecordHeap(S(p), H(p), Torn)
    /\ call' = [r \in Calls |-> IF r \in {p, q}
                                THEN [call[r] EXCEPT !.hdr = RecordHeader(@)]
                                ELSE call[r]]
    /\ pc' = [r \in Calls |-> IF r \in {p, q} THEN "recordUpdate" ELSE pc[r]]
    /\ UNCHANGED <<events, nextToken, gvars, tvars,
                   sessions, mapHeap, hvars>>

---------------------------------------------------------------------------
(* The clock, and a host that ends a session through the store's port. *)

Tick ==
    /\ ~crashed /\ now < MaxTime
    /\ now' = now + 1
    /\ UNCHANGED <<rules, pc, call, events, nextToken, crashed, begun, deletes,
                   tokens, svars, hvars>>

DeleteSession(s) ==
    /\ ~crashed /\ deletes < MaxDeletes
    /\ Delete(s)
    /\ deletes' = deletes + 1
    /\ UNCHANGED <<rules, pc, call, events, nextToken, crashed, begun, tvars, hvars>>

(* Every call the bound allows has returned, or the process is gone. *)
Quiescent == crashed \/ (begun = MaxCalls /\ \A p \in Calls : pc[p] = "idle")
Done == Quiescent /\ UNCHANGED vars

Step(p) ==
    \/ WrapGet(p) \/ CreateGet(p) \/ CreateNew(p) \/ CreateFails(p) \/ ReadToken(p)
    \/ AdmitFree(p) \/ RejectNoSession(p) \/ StartValidation(p) \/ ValidateGet(p)
    \/ HistoryHit(p) \/ HistoryMiss(p) \/ CheckTokens(p)
    \/ HandlerSucceeds(p) \/ HandlerFails(p)
    \/ ConsumeFind(p) \/ ConsumeRemove(p) \/ ConsumeTooLate(p) \/ ConsumeGet(p)
    \/ ConsumeTruncate(p) \/ ConsumeUpdate(p)
    \/ IssueStore(p) \/ GenerateTokenFails(p) \/ IssueGet(p) \/ IssueAdd(p)
    \/ IssueUpdate(p) \/ RecordGet(p) \/ RecordTool(p) \/ RecordUpdate(p)

Race(p, q) == RacyMapWrite(p, q) \/ MapThrow(p, q) \/ RacyRecord(p, q)

Next ==
    \/ \E p \in Calls : Begin(p) \/ Step(p)
    \/ \E p, q \in Calls : Race(p, q)
    \/ \E s \in Sessions : DeleteSession(s)
    \/ Tick
    \/ Done

Spec == Init /\ [][Next]_vars

(* Goroutines are scheduled fairly: a call that can take a step takes one. *)
FairSpec == Spec /\ \A p \in Calls : WF_vars(Step(p))
=============================================================================
