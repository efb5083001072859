------------------------- MODULE MemoryEventStore -------------------------
(***************************************************************************)
(* The in-memory event store (pkg/ratchet/adapters/memory_event_store.go)  *)
(* with the goroutines that use it: service calls that emit events, the    *)
(* background pruner, Stop, and a client of GET /observability/events that *)
(* reads a session page by page (cmd/mcp-ratchet-demo/main.go).            *)
(*                                                                         *)
(* Store, pruneExpired and GetEvents run under the store's mutex and are   *)
(* one step each.  A unit of the clock is one pruneInterval.               *)
(***************************************************************************)
EXTENDS Integers, Sequences, FiniteSets, SequencesExt

CONSTANTS
    Emitters,       \* goroutines that emit events
    EventTypes, ToolNames, SessionIDs,
    Filters,        \* the filters clients ask with, without their limit
    Limits,         \* the limits they ask with
    Retention,      \* retentionDays in units of the clock, 0: keep all
    Stoppers,       \* goroutines that call Stop
    MaxInt,         \* the largest int
    MaxEvents, MaxTime, MaxPages    \* bounds

ASSUME EventBoundsAssumption ==
    /\ Retention \in Nat /\ MaxEvents \in Nat /\ MaxTime \in Nat
    /\ MaxPages \in Nat
    /\ MaxInt \in Nat /\ MaxEvents <= MaxInt    \* a slice's len is an int
    /\ Limits \subseteq 1 .. MaxInt

Event == [id : 1 .. MaxEvents, type : EventTypes, session : SessionIDs,
          tool : ToolNames, at : 0 .. MaxTime]

VARIABLES
    clock,      \* time.Now()
    events,     \* the store's events
    log,        \* every event ever stored, in order (history)
    emitting,   \* per emitter: <<>> or <<the event on its way to Store>>
    built,      \* number of events built
    ticked,     \* the ticker's channel holds a tick
    pruner,     \* "waiting" in its select, or "gone"
    stopCh,     \* "open" or "closed"
    stopping,   \* per caller of Stop: is it between the check and close?
    panicked,   \* closing a closed channel panics
    reader      \* the client: filter, what it got, its offset, and how many
                \* matching events were stored when it last asked (history)

evars == <<clock, events, log, emitting, built, ticked, pruner, stopCh,
           stopping, panicked, reader>>

Ids(es) == {es[i].id : i \in DOMAIN es}

(* The store's loops over its events: an event of X is appended to what    *)
(* was kept, any other is passed over; kept[i] is the result after i rounds.   *)
Scan(es, X) ==
    LET kept[i \in 0 .. Len(es)] ==
            IF i = 0 THEN <<>>
            ELSE IF es[i] \in X THEN Append(kept[i - 1], es[i]) ELSE kept[i - 1]
    IN  kept
Filter(es, X) == Scan(es, X)[Len(es)]

-----------------------------------------------------------------------------
(* Queries *)

(* An empty set in a filter, and time 0, mean no restriction. *)
(* mutant: a type filter is ignored *)
AnyType(e, f) ==
    /\ f.tools # {} => e.tool \in f.tools
    /\ f.start # 0 => e.at >= f.start
    /\ f.end # 0 => e.at <= f.end
matchesFilter(e, f) ==
    /\ f.types # {} => e.type \in f.types
    /\ f.tools # {} => e.tool \in f.tools
    /\ f.start # 0 => e.at >= f.start
    /\ f.end # 0 => e.at <= f.end

Matching(es, s, f) ==
    Filter(es, {e \in Event : e.session = s /\ matchesFilter(e, f)})

(* The scan stops once it has limit results; no limit when it is <= 0. *)
GetEvents(s, f, limit) ==
    LET all == Matching(events, s, f)
    IN  IF limit > 0 /\ limit < Len(all) THEN SubSeq(all, 1, limit) ELSE all

Count(X) == Len(Filter(events, X))

GetStats ==
    [TotalEvents |-> Len(events),
     EventsByType |-> [k \in EventTypes |-> Count({e \in Event : e.type = k})],
     EventsByTool |-> [t \in ToolNames \ {""} |-> Count({e \in Event : e.tool = t})],
     ActiveSessions |-> Cardinality({events[i].session : i \in DOMAIN events}),
     TokensIssued |-> Count({e \in Event : e.type = "token_created"}),
     TokensConsumed |-> Count({e \in Event : e.type = "token_consumed"})]

(* int addition wraps around *)
Plus(a, b) == IF a + b > MaxInt THEN a + b - 2 * (MaxInt + 1) ELSE a + b

(* GET /observability/events: fetch limit + offset, then cut the offset. *)
(* mutant: the offset is not added to the limit *)
ShortPage(s, f, limit, offset) ==
    LET got == GetEvents(s, f, limit)
    IN  IF offset < Len(got) THEN SubSeq(got, offset + 1, Len(got)) ELSE <<>>
Page(s, f, limit, offset) ==
    LET got == GetEvents(s, f, Plus(limit, offset))
    IN  IF offset < Len(got) THEN SubSeq(got, offset + 1, Len(got)) ELSE <<>>

-----------------------------------------------------------------------------
NoReader == [state |-> "idle", session |-> CHOOSE s \in SessionIDs : TRUE,
             filter |-> CHOOSE f \in Filters : TRUE,
             got |-> <<>>, offset |-> 0, pages |-> 0, due |-> 0]

Init ==
    /\ clock = 0
    /\ events = <<>>
    /\ log = <<>>
    /\ emitting = [p \in Emitters |-> <<>>]
    /\ built = 0
    /\ ticked = FALSE
    /\ pruner = IF Retention > 0 THEN "waiting" ELSE "gone"
    /\ stopCh = "open"
    /\ stopping = [q \in Stoppers |-> FALSE]
    /\ panicked = FALSE
    /\ reader = NoReader

(* emitEvent reads the clock and builds the event, ... *)
BuildEvent(p, k, s, t) ==
    /\ ~panicked /\ emitting[p] = <<>> /\ built < MaxEvents
    /\ built' = built + 1
    /\ emitting' = [emitting EXCEPT ![p] =
           <<[id |-> built + 1, type |-> k, session |-> s, tool |-> t,
              at |-> clock]>>]
    /\ UNCHANGED <<clock, events, log, ticked, pruner, stopCh, stopping,
                   panicked, reader>>

(* ... Store appends it under the mutex, maybe later. *)
(* mutant: an event that was stored is sent again *)
RepeatedStore(p) ==
    /\ ~panicked /\ emitting[p] # <<>>
    /\ events' = events \o emitting[p]
    /\ log' = log \o emitting[p]
    /\ UNCHANGED <<clock, emitting, built, ticked, pruner, stopCh, stopping,
                   panicked, reader>>
Store(p) ==
    /\ ~panicked /\ emitting[p] # <<>>
    /\ events' = events \o emitting[p]
    /\ log' = log \o emitting[p]
    /\ emitting' = [emitting EXCEPT ![p] = <<>>]
    /\ UNCHANGED <<clock, built, ticked, pruner, stopCh, stopping, panicked,
                   reader>>

(* Time passes and the ticker fires; its channel holds one tick at most.   *)
(* At the bound the clock stays and the ticker goes on.                    *)
Tick ==
    /\ ~panicked
    /\ clock' = IF clock < MaxTime THEN clock + 1 ELSE clock
    /\ ticked' = (pruner = "waiting")
    /\ UNCHANGED <<events, log, emitting, built, pruner, stopCh, stopping,
                   panicked, reader>>

(* e.Timestamp.After(cutoff) *)
Unexpired(e) == e.at > clock - Retention

(* mutant: the filter puts what it keeps in the wrong order *)
ReversingPruneExpired == Reverse(Filter(events, {e \in Event : Unexpired(e)}))
pruneExpired == Filter(events, {e \in Event : Unexpired(e)})

(* runPruner's select: a tick, ... *)
(* mutant: the pruner does not loop *)
PruneOnce ==
    /\ ~panicked /\ pruner = "waiting" /\ ticked
    /\ events' = pruneExpired
    /\ ticked' = FALSE
    /\ pruner' = "gone"
    /\ UNCHANGED <<clock, log, emitting, built, stopCh, stopping, panicked,
                   reader>>
Prune ==
    /\ ~panicked /\ pruner = "waiting" /\ ticked
    /\ events' = pruneExpired
    /\ ticked' = FALSE
    /\ UNCHANGED <<clock, log, emitting, built, pruner, stopCh, stopping,
                   panicked, reader>>

(* ... or the closed stop channel; either when both are ready. *)
(* mutant: the pruner does not look at the stop channel *)
DeafPrunerStops == FALSE /\ UNCHANGED evars
PrunerStops ==
    /\ ~panicked /\ pruner = "waiting" /\ stopCh = "closed"
    /\ pruner' = "gone"
    /\ ticked' = FALSE
    /\ UNCHANGED <<clock, events, log, emitting, built, stopCh, stopping,
                   panicked, reader>>

(* Stop: the select finds the channel open (a closed one ends Stop), ... *)
StopCheck(q) ==
    /\ ~panicked /\ ~stopping[q] /\ stopCh = "open"
    /\ stopping' = [stopping EXCEPT ![q] = TRUE]
    /\ UNCHANGED <<clock, events, log, emitting, built, ticked, pruner, stopCh,
                   panicked, reader>>

(* ... and its default closes it. *)
StopClose(q) ==
    /\ ~panicked /\ stopping[q]
    /\ stopCh' = "closed"
    /\ panicked' = (stopCh = "closed")
    /\ stopping' = [stopping EXCEPT ![q] = FALSE]
    /\ UNCHANGED <<clock, events, log, emitting, built, ticked, pruner, reader>>

(* A client starts to read a session, ... *)
StartReading(s, f) ==
    /\ ~panicked /\ reader.state = "idle" /\ MaxPages > 0
    /\ reader' = [NoReader EXCEPT !.state = "reading", !.session = s,
                                  !.filter = f]
    /\ UNCHANGED <<clock, events, log, emitting, built, ticked, pruner, stopCh,
                   stopping, panicked>>

(* ... and asks for page after page until one is not full. *)
ReadPage(limit) ==
    /\ ~panicked /\ reader.state = "reading" /\ reader.pages < MaxPages
    /\ LET page == Page(reader.session, reader.filter, limit, reader.offset)
       IN  reader' = [reader EXCEPT
               !.got = @ \o page,
               !.offset = @ + Len(page),
               !.pages = @ + 1,
               !.due = Len(Matching(log, reader.session, reader.filter)),
               !.state = IF Len(page) < limit THEN "finished" ELSE "reading"]
    /\ UNCHANGED <<clock, events, log, emitting, built, ticked, pruner, stopCh,
                   stopping, panicked>>

Next ==
    \/ \E p \in Emitters : \/ Store(p)
                           \/ \E k \in EventTypes, s \in SessionIDs,
                                 t \in ToolNames : BuildEvent(p, k, s, t)
    \/ Tick
    \/ Prune
    \/ PrunerStops
    \/ \E q \in Stoppers : StopCheck(q) \/ StopClose(q)
    \/ \E s \in SessionIDs, f \in Filters : StartReading(s, f)
    \/ \E l \in Limits : ReadPage(l)

Spec == Init /\ [][Next]_evars

(* The ticker keeps firing, and the pruner's goroutine is scheduled and    *)
(* receives what is ready.                                                 *)
FairSpec == Spec /\ WF_evars(Tick) /\ WF_evars(Prune) /\ WF_evars(PrunerStops)

-----------------------------------------------------------------------------
(* Types; what was stored is at most what was built. *)
EventTypeOK ==
    /\ clock \in 0 .. MaxTime
    /\ events \in Seq(Event) /\ log \in Seq(Event)
    /\ \A p \in Emitters : emitting[p] \in Seq(Event) /\ Len(emitting[p]) <= 1
    /\ built \in 0 .. MaxEvents /\ Len(log) <= built
    /\ pruner \in {"waiting", "gone"} /\ stopCh \in {"open", "closed"}
    /\ ticked \in BOOLEAN /\ panicked \in BOOLEAN
    /\ reader.got \in Seq(Event) /\ reader.offset <= Len(log)

(* Pruning loses nothing that is still to be kept and keeps the order: the *)
(* store is the log without events that are older than the retention.      *)
(* Events arrive out of timestamp order, so the expired ones need not be a *)
(* prefix (memory_event_store.go, pruneExpired's in-place filter).         *)
NothingLostEarly ==
    /\ events = Filter(log, {e \in Event : e.id \in Ids(events)})
    /\ \A i \in DOMAIN log :
           log[i].id \notin Ids(events) =>
               Retention > 0 /\ log[i].at + Retention <= clock

(* A client that pages while events are stored and pruned never sees an    *)
(* event twice or out of order; if nothing was pruned it has seen the log  *)
(* without a gap, and all of it once a page was not full (main.go: limit + *)
(* offset, wrap-around included).                                          *)
PagesFaithful ==
    LET seen == reader.got
        all == Matching(log, reader.session, reader.filter)
    IN  /\ seen = Filter(all, {e \in Event : e.id \in Ids(seen)})
        /\ Len(events) = Len(log) =>
               /\ IsPrefix(seen, all)
               /\ reader.state = "finished" => Len(seen) = reader.due

(* The two observability endpoints agree about the store, whatever was     *)
(* stored and pruned: the statistics count, per type and in sessions, what *)
(* the queries of the sessions return (GetStats against GetEvents).        *)
StatsMatchQueries ==
    LET asked(s, ks) == GetEvents(s, [types |-> ks, tools |-> {}, start |-> 0,
                                      end |-> 0], 0)
        answers(ks) == UNION {{s} \X DOMAIN asked(s, ks) : s \in SessionIDs}
    IN  /\ \A k \in EventTypes :
               GetStats.EventsByType[k] = Cardinality(answers({k}))
        /\ GetStats.ActiveSessions =
               Cardinality({s \in SessionIDs : asked(s, {}) # <<>>})

(* While the pruner runs, an event whose retention is over goes away. *)
ExpiredPruned ==
    \A n \in 1 .. MaxEvents :
        (\E i \in DOMAIN events : events[i].id = n /\ ~Unexpired(events[i]))
            ~> (n \notin Ids(events) \/ stopCh = "closed")

(* After Stop the background goroutine ends, although ticks keep coming    *)
(* and its select may choose them ("Stop stops the background pruning      *)
(* goroutine", memory_event_store.go:45).                                  *)
PrunerReleased == stopCh = "closed" ~> pruner = "gone"

-----------------------------------------------------------------------------
(* What a comment says and the code does not do. *)

(* "Safe to call multiple times" (memory_event_store.go:45): no number of  *)
(* calls of Stop, one after the other or at once, makes one of them panic. *)
StopIsSafe == ~panicked
=============================================================================
