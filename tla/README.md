# A TLA+ verification of mcp-ratchet

mcp-ratchet makes an MCP server enforce an order of tool calls: a rule says
that a tool needs a prerequisite, a successful call of the prerequisite leaves
a token in a session, and a call of the dependent tool is admitted only if the
prerequisite is in the session's history and has a valid token. Rules may say
that a token expires, that it is consumed by one use, or (several rules for a
tool) that any one of several prerequisites is enough.

The code is small; what is hard is that every MCP call runs in a goroutine of
its own, that no lock spans a call, and that the session store hands out
shallow copies. This directory models that code in TLA+, checks it with TLC on
small instances and proves its central properties with TLAPS for every
instance. Paths below are relative to the repository.

## Inventory

`P/` stands for `pkg/ratchet/`.

| Component | State | Operations | Used by | Hard behaviour |
|---|---|---|---|---|
| Tool wrapper, `P/mcp/wrapper.go` | none of its own; a copy of the session per call | the wrapped handler: get or create session, validate, run the tool, consume, issue, record | the MCP server, one goroutine per call | get-modify-update of a session copy without a lock; errors after the tool ran are only logged |
| Ratchet service, `P/services/ratchet_service.go` | the rules | `ValidateToolCall`, `ConsumePrerequisiteToken`, `IssueToken`, `CreateSession`, `RegisterRule`, `LoadConfiguration`, `emitEvent` | wrapper, start-up | check-then-act across several critical sections; consume looks at the first rule, validate at all |
| Token store, `P/adapters/memory_token_store.go` | tokens per session and tool, with expiry | `Store`, `GetValidTokens`, `RemoveToken` | service | two consumers choose one token; expired tokens stay |
| Session store and session, `P/adapters/memory_session_store.go`, `P/domain/session.go` | sessions: a map of tokens, a slice of tool names | `Create`, `Get`, `Update`, `Delete`; `RecordToolCall`, `AddToken`, `HasToolBeenCalled` | service, wrapper | copies share the map and, while capacity lasts, the slice's array: data races |
| Rules, `P/domain/rule.go` | - | `Validate` | loader, service | - |
| YAML loader, `P/adapters/yaml_loader.go` | the maps of the cycle search | `Load`, `LoadConfig`, `Validate` | service, start-up | depth-first search in the random order of a Go map |
| Event store, `P/adapters/memory_event_store.go` | the events, stop channel | `Store`, pruner goroutine, `Stop`, `GetEvents`, `GetStats` | service, HTTP endpoints | pruning beside emitters and readers; check-then-close |
| Event query endpoint, `cmd/mcp-ratchet-demo/main.go` | none | limit/offset paging over `GetEvents` | HTTP clients | pages cut from a store that moves; `limit + offset` may wrap |
| Broadcasting store and WebSocket broadcaster, `P/adapters/broadcasting_event_store.go`, `main.go` | subscriptions | `Store`, `subscribe`, `unsubscribe`, `Broadcast` | service, WebSocket clients | concurrent writers on a connection; a slow client under the read lock |
| Start-up and shutdown of the demo, `main.go`, `P/domain/config.go` | - | `run`, `loadMCPConfig` | operator | which checks start-up skips; signals, bind errors and requests in flight |
| Event store factory, `P/adapters/event_store_factory.go` | - | `NewEventStore` | nothing in the repository | none |
| Ports, errors, value objects, demo tools, `cmd/ws-test` | - | - | - | none |

Correct means, component by component:

- **calls**: a gated tool is never let through before its prerequisite has
  succeeded in the session; every attempt is answered by one event; a token is
  not used more often than it may be; every call returns;
- **stores**: tokens are conserved; a history shows what ran, nothing invented
  and, without overlap, nothing missing; an existing session is not replaced;
- **loader**: the cycle check ends and is right whatever the order of the map;
  a rejected file leaves acyclic rules in force;
- **event store**: nothing is lost before its time, expired events go, queries
  and statistics agree, paging never repeats or reorders and leaves no gap while
  nothing is pruned, the pruner ends;
- **streaming**: a client gets the stored events of its session, none twice,
  none missing while it listens; no closed connection is written to; emitters
  and handlers do not block each other for good;
- **demo server**: it fails closed, loses no serve error, reports success only
  for a clean stop, and ends once it is asked to.

`PROJECT.json` lists the components with their status, the hazards at the line
where they bite, and for each definition the lines it models.

## Modules

| Module | Models |
|---|---|
| `RatchetDomain` | rules, `findRules`/`findRule`, expiry; which tools are gated |
| `MemoryTokenStore` | the token store; one operator per method |
| `MemorySessionStore` | the session store with Go's memory made visible |
| `RatchetCalls` | the wrapper and the service over both stores: the state machine of calls |
| `Gate` | the abstract specification of a call |
| `RatchetProperties` | the properties of `RatchetCalls`, the refinement of `Gate` |
| `ConfigLoader` | loading, the cycle search step by step, installing rules |
| `MemoryEventStore` | the event store, its goroutines and a paging client |
| `EventBroadcaster` | the broadcasting store, the broadcaster with its lock, the stream handlers and their clients |
| `DemoServer` | the demo's `run`: configuration, tools, routes, serving, shutdown |
| `DomainProofs` | lemmas about rules |
| `RatchetProofs`, `AccountProofs`, `SessionProofs` | theorems about `RatchetCalls`: types, order and the refinement of `Gate`; what is counted; calls that overlap in different sessions only |
| `ConfigProofs`, `EventProofs`, `StreamProofs`, `DemoProofs` | theorems about `ConfigLoader`, `MemoryEventStore`, `EventBroadcaster`, `DemoServer` |
| `MCRatchet`, `MCConfig`, `MCEvents`, `MCStream`, `MCDemo` | the small instances TLC checks |

### How a call is modelled

A call `p \in Calls` has a program counter `pc[p]` and the wrapper's locals
`call[p]`: session, tool, the session copy in hand, the rule and the token in
hand. A step is one critical section of a store, or one access to memory that
session copies share; what a goroutine does between two of those with its own
locals belongs to the step before. Calls interleave at every step. The read of
the clock in `IssueToken` is part of the step that stores the token. An event is
counted in the step of the code it follows: the event store of these modules is
the memory store, whose `Store` returns, and `emitEvent` drops its error. With
streaming switched on `Store` also broadcasts, and then a call can wait for a
client or panic; `EventBroadcaster` is about that.

A session copy is a *header*: an index into `mapHeap` (Go's map is a reference,
so all copies share it), an index into `arrayHeap` (the backing array of
`ToolHistory`) and a length. `RecordToolCall` is Go's `append`: in place while
there is room, otherwise into a new, larger array. `Update` stores the header
whether or not the session still exists. Races are nondeterministic:
`RacyMapWrite` loses one of two map writes, `MapThrow` is the runtime's
"concurrent map writes" stop, `RacyRecord` tears a name two calls write to one
slot, and a reader may miss a slot another call is about to write.

Abstractions: a token is a fresh number (a collision of random tokens is
ignored); the tool's handler is external, it succeeds or fails; time is a clock
that ticks at any moment; error texts, logging and event metadata are left out.
The wrapper always names one session, `demo-session`; the model allows a host
that names several, or none, since the service's port does. `executed` and
`issued` are history variables: they count what happened and guard nothing.

### Rules and the loader

An entry of a file becomes a rule or an error as in `Load`. `Validate` is a
state machine whose `frames` are the active calls of `hasCycle`; `Visit` is
the range over the map, in any order. `LoadConfiguration` is `StartLoad`, the
search, and `Install` or `BackEdge`. `Boot` is the demo's own way: `LoadConfig`
and a `RegisterRule` per rule. A circular rule set is stated independently of
the search: a nonempty set of tools each of which has a prerequisite in it.

### The event store

Emitters build an event (reading the clock) and store it later, so events can
arrive out of timestamp order. The pruner waits for a tick or the closed stop
channel. `Stop` is two steps, as its `select` and `close` are. A client reads
a session page by page through the endpoint's limit and offset arithmetic,
which wraps at `MaxInt`. The loops over the events (`pruneExpired`, `GetEvents`,
`GetStats`) are the recursive function `Scan`, one value per round, and
`Filter`, its last value.

### Streaming

`EventBroadcaster` follows an event from `BroadcastingEventStore.Store` through
`Broadcast` into the connections. `em[e]` is an emitting tool call: outside the
lock, waiting for it, ranging over the connections (`todo`), or inside
`WriteJSON` for one of them. `at[c]` is the handler of a connection:
subscribing, writing its confirmation, reading, unsubscribing, closing. The
lock is Go's `RWMutex`: `pending` is the writer that has announced itself;
it waits for the readers inside, and new readers wait for it. `Lock` and
the critical section of a writer are two steps, so readers and a waiting writer
interleave as they do in Go.

A connection takes one writer at a time, but nothing in `Broadcast` or the
handler sees to that: two emitters both hold the read lock, and the
confirmation is written with no lock at all. From the moment a second writer
enters (`Enter`) the connection is `damaged`: each write to it may succeed,
fail or panic, and what succeeds is recorded as on any other connection. A
panic in the handler is
recovered by net/http, one in an emitter ends the process (`crashed`). A client
may leave at any time, and one in `Slow` may stop reading, which blocks a write
to it until it leaves. `sent[c]` records the events written to the client that
is connected, on a damaged connection too (the confirmation is not an event and
is left out); it is cleared when the client leaves, since nothing is delivered
to it any more. `owed[c]` records the events a listener has a claim to; a client
on a damaged connection has none.

### The demo server

`DemoServer` is `run` from its flags to the exit code. What a file contains is
abstracted to what start-up distinguishes: usable or not, the observability
settings, WebSocket streaming and its path. Serving is a race of four: `run` in
its `select`, the goroutine of `ListenAndServe` (it looks for a shutdown, binds,
looks again, accepts), signals, and requests - tool calls, event streams of MCP
sessions that clients keep open, and WebSockets, which `Shutdown` neither waits
for nor closes. A signal before `NotifyContext` kills the process; a route
registered twice panics. Of the observability settings `run` uses the retention
only.

## Runs

| Run | Question | Result |
|---|---|---|
| `Overlap` | two overlapping calls, four in all, a one-time and a reusable rule set, expiry, a failing generator | `OrderEnforced`, `HistoryNeverInvents`, `TokensConserved`, `AttemptsAnswered`, `TokensAnnounced`, `BoundedReuse`, `HistoryNeverWiped`, `SessionNeverReplaced` and the refinement `ImplementsGate` hold |
| `Sequential` | one call at a time, five calls, six rule sets (chain, OR, free pass, shared prerequisite), expiry | session and token store mirror each other, the history is complete, one use per one-time token, every call returns |
| `Aliasing` | three calls that give the history spare capacity, then overlapping calls, calls without a session, a host that deletes the session | `HistoryNeverInvents`, `AttemptsAnswered` and the inductive invariant `OrderInv` hold, torn names and resurrected sessions included |
| `CycleCheck` | two loads of every file of up to three different rules over three tools, bad files, `RegisterRule`, or the demo's start | the search ends, its verdict is right, loaded rules are acyclic |
| `EventStore` | two emitters, two sessions, a client that pages with limits up to the largest int, the pruner, a call of `Stop` | nothing is lost early; no event on a page twice or out of order, and none left out while nothing was pruned; statistics agree with queries; expired events go; the pruner ends |
| `Stream` | two emitters, two clients of a session that come, stall and leave, a store that may fail, an event of another session | subscriptions are exact, no write after `Close`, streams faithful and without gaps, nothing blocks for good if a stalled client leaves |
| `DemoServer` | six kinds of rule file, five of server settings, two paths, two requests, bind errors and signals at any time | fails closed; stream routes are fed; clean exits, no lost error, always an end |
| `SingleUseEither` | one-time tokens when a tool has two rules | **violated**: the call consumes by its first rule although the second admitted it |
| `MapRace` | can overlapping calls stop the process? | **violated**: they share a map |
| `DemoBoot` | are the demo's rules free of cycles? | **violated**: start-up does not call `Validate` |
| `StopTwice` | may `Stop` be called by two goroutines? | **violated**: both find the channel open, the second `close` panics |
| `SlowClient` | does a client that stops reading affect sessions without listeners? | **violated**: a write blocks under the read lock, a handler waits for the lock, all emitters wait behind it |

### Bounds and why they are enough

- Two calls in flight produce every pairwise race; four (`MaxCalls`) allow a
  prerequisite, its repetition and two dependents, which is what sharing,
  consuming and re-issuing a token take. Five sequential calls run through
  every rule set with an expired token in between (`MaxTime = 1`, a default
  expiry of 1).
- Go's `append` gives capacities 1, 2, 4: a slot can be shared only from a
  history of length 3 on. `Aliasing` therefore lets three calls finish one by
  one and then lets two more overlap (`SequentialPrefix`).
- Three tools and three rules have cycles of length two and three, diamonds,
  chains, and tools reached twice. The theorem covers the rest.
- Three events, one tick of the clock with a retention of one, and limits 1 and
  3 = `MaxInt` give full, short, empty and wrapped pages, with pruning in
  between: events of time 0 expire at time 1, and one that was built before the
  tick can be stored after it. `MaxInt` is as small as the model's slices
  allow.
- Two emitters and two connections give every pair of writers on a connection,
  a reader behind a waiting writer, and a session that keeps one of two
  listeners; two events let one emitter follow itself or two overlap. Both
  clients listen to one session and events are emitted for a second one, too.
- One request that finishes beside one that does not is what `Shutdown` can
  tell apart; the configuration sets have one member per branch of `run`.
- Symmetry is used over `Calls` in the runs whose properties do not depend on
  which goroutine is which, and in no run that checks liveness.

### Fairness

`RatchetCalls!FairSpec` is weak fairness of each call's steps: goroutines are
scheduled and the stores' critical sections end. It includes the tool's
handler, i.e. that tools return; the ratchet adds no timeout of its own. It
also includes that the event store returns, as the memory store does; with
streaming switched on that depends on the clients (`StreamLive`, `SlowClient`).
`ConfigLoader!FairSpec` is weak fairness of the search, a sequential loop.
`MemoryEventStore!FairSpec` says that the ticker fires and that the pruner
takes what is ready in its `select`; nothing is assumed of emitters, clients or
callers of `Stop`.

`EventBroadcaster!FairSpec` is weak fairness of each emitter and each handler,
goroutines again. Nothing is assumed of clients; `StreamLive` states what is
needed of them, that one which stops reading does not stay for ever, and
`SlowClient` shows what happens otherwise. `DemoServer!FairSpec` is weak
fairness of `run` and of the serve goroutine, the deadline of `Shutdown`
included; no request has to finish and no bind has to succeed.

## Proofs

All proofs hold for arbitrary sets of calls, sessions, tools, rule files,
emitters, connections and requests, and for arbitrary bounds. The assumptions
are the named ones of the modules: rules are valid rules (`RegisterRule` and
`Load` reject others), bounds are naturals, `NoTool`, `Torn`, `Unset` and
`Malformed` are not tools or times, finitely many calls are in flight
(`CallsAssumption`; they are counted), a slice's length is an int. Three
theorems have a hypothesis of their own: `SessionsPersist`, and the two of
`SessionProofs`; see below.

### Calls

**`RatchetProofs!TypeCorrect`** (`Spec => []TypeOK`). `TypeOK` is more than
types: every session copy, in the store or in a call's hands, refers to a map
and an array that exist, the array is long enough and was made for that
session; and the rule a call has in hand is a rule of its tool with a
prerequisite. It is inductive.

**`RatchetProofs!OrderIsEnforced`** (`Spec => []OrderEnforced`) and
**`HistoriesAreKnown`** (`Spec => []OrderInv`). Whatever calls overlap, a gated
tool is let through only after a prerequisite of one of its rules succeeded in
the session. `OrderEnforced` alone is not inductive: a call is let through
because of what it read in an array that other calls write. `OrderInv` adds
`ArraysKnown` - a tool's name gets into an array only after the tool was
executed in the session the array was made for - and, for a call between the
history check and the token check, that its prerequisite was executed. Appends
in place, growth and torn writes all preserve it, because the only names ever
written are those of tools whose handler has just succeeded, or no name at all.
Deleting and resurrecting sessions preserves it because `executed` speaks of
what happened, not of what is stored.

**`RatchetProofs!RatchetImplementsGate`** (`Spec => ImplementsGate`). Each of the
steps of a call is a step of `Gate` or leaves the abstract state alone:
the phase of a call is a function of its program counter, so most steps keep it;
being let through is `Gate`'s admission because `OrderInv` holds in the state
before, and the handler's return is its execution.

**`AccountProofs`** is about what is counted.

- `EveryAttemptAnswered` (`AttemptsAnswered`): inductive with `TypeOK`; a
  step moves at most one call into or out of `Validating`.
- `HistoriesDoNotInvent` (`HistoryNeverInvents`). The property speaks of copies,
  whose array other calls extend; what is inductive (`HistoryInv`) speaks of
  arrays: the slots of an array that show a tool, together with the calls that
  have executed the tool and are yet to record it, are never more than the
  executions. So an append pays for its slot with the call that makes it, and
  the copy made by growth shows no more than the array it was copied from.
- `NoTokenIsLost` (`TokensConserved`): each number drawn is in one place of one
  list, or its consumption was announced. `TokenInv` adds that what is stored
  was drawn, so that a fresh token is new to every list. Of two consumers that
  chose one token, the second finds nothing to remove and announces nothing.
- `EveryTokenAnnounced` (`TokensAnnounced`): while no session was deleted, a
  call that is past its first session lookup has a session in the store
  (`SessionsThere`), so `IssueToken` cannot fail between storing the token and
  announcing it.
- `HistoriesSurvive` (`HistoryNeverWiped`): under overlap a call writes back a
  copy that is older than what it overwrites, so entries are lost, but not all
  of them. A call that writes early, in `ConsumePrerequisiteToken` or
  `IssueToken`, is still to record itself; its last write is of a copy to which
  it has appended (`CopiesRecorded`). `SessionsThere` is needed here too: a call
  whose session is gone would return without recording itself.
- `SessionsPersist` (`SessionNeverReplaced`) assumes `MaxDeletes = 0`: no caller
  of `Delete` exists outside the tests; with one the property is false, since a
  late `Update` brings a session back over its successor. The invariant
  is that a copy in a call's hands has the map of the stored session.
- `ReuseIsBounded` (`BoundedReuse`). Let `n` be the number of calls that can be
  in flight. Each token that is gone, consumed or expired, pays for at most `n`
  executions: the calls that were in flight when it went. So executions, calls
  about to execute, and `n` for each token still valid are together at most
  `n` for each token issued - but for the calls that no vanished token has paid
  for yet. Which calls those are is not in the state, so `ReuseInv` says that
  *some* set `U` of calls between the check and the removal of their token
  settles the balance, and that the token of a call in `U` is still valid: the
  one it has in hand if it is about to remove it, any one otherwise. A call
  that passes `GetValidTokens` joins `U`. When a valid token goes, in
  `RemoveToken` or with a tick of the clock, `n` covers all of `U`, which
  becomes empty. A call that comes too late for its token finds that it is not
  valid, so it is not in `U` and leaves no debt; `TokenInv` is needed for that,
  since a token in two places could go and stay. At the end `U` is either empty
  or there is a valid token, and either pays.
  Executions of several tools are counted as the pairs `<<t, k>>`, "the k-th
  success of t" (`Counted`), whose number is a cardinality.

**`SessionProofs`** is about behaviours in which no two calls in flight are in
one session: both theorems read `Spec /\ []OnePerSession => [](deletes = 0 =>
...)`. Calls in different sessions interleave freely, calls in one session
follow one another; the demo's wrapper has one fixed session, where this means
one call at a time. Both conditions are needed: with two calls in one session
appends and map writes are lost (see below), and a deleted session comes back
without its history and its tokens. `SessionInv`, the inductive invariant, joins
the parts of both theorems, since they need each other: `NoRace` shows that the
racing accesses of the model cannot happen, because calls hold current copies
(`CopiesCurrent`) of different sessions, which share neither a map (`Separate`)
nor an array (`ValidHeader`, of `TypeOK`).

- `HistoriesAreComplete` (`HistoryComplete`). `HistoriesDoNotInvent` is one
  half, that a history shows no more than was executed. For the other half
  `CompleteInv` says how far a history may be behind: not at all while no call
  of its session is past its handler; by one entry, of that call's tool, until it
  appends, in the store and in the copy the call has in hand; by nothing in the
  copy between append and `Update`. `RecordAppends` is what Go's `append` does:
  what the header showed before stays, one entry is added, and no array but the
  header's own is written, so the calls of other sessions see what they saw
  (`OtherShown`).
- `SessionsMirrorTokens` (`TokensMirrored`). `MirrorInv` follows the call of a session: after
  `RemoveToken` the store is the session's list without its last value, after
  `Store` it is that list with the new token appended, otherwise both are equal.
  That the token removed from the store is the last one has a reason outside
  the call: all tokens of a tool get the same lifetime, so they expire in the
  order in which they were issued (`Rising`), and the last valid token is the
  last token (`LastIsValid`). With `StoredOnce`, `RemoveToken` then cuts the list
  at its end. Sessions do not share a Tokens map (`Separate`), so a write to one
  does not show in another.

### The loader

**`ConfigProofs!CycleCheckCorrect`** (`Spec => []VerdictCorrect`) is the
correctness of the depth-first search: a circular dependency is reported
exactly when there is one. The invariant `ConfigInv` says that the recursion
stack is the set of tools of the frames; consecutive frames are joined by an
edge, so a tool met on the stack closes a cycle; what a frame has already
looked at is finished; and finished tools (visited, off the stack) have only
finished prerequisites and contain no circular set. When every tool of the file
is visited and no frame is left, all are finished, so there is no cycle.
`ConfigProofs!LoadedRulesStayAcyclic` follows for the rules in force across
any sequence of failed and successful loads, and
`ConfigProofs!ConfigTypeCorrect` is the types.

`DomainProofs` holds the lemmas about `findRule` and `NextRule`, least and
greatest elements included.

### The event store

`EventProofs` proves all four invariants of `MemoryEventStore`. Its basis is
what the loops compute. `FilterPicks` says that `Filter(es, X)` is given by
increasing places in `es`, namely those with an element of `X`, and
`PicksUnique` that this determines it. Both need an induction over the rounds
of the loop; `Rounds` gets it from the well-foundedness of `<` by a least
counterexample, with a set of rounds in place of a predicate. `Places(r, es, f)`
says that `f` shows where in `es` the elements of `r` come from; such maps
compose (`PlacesCompose`), a place is never lower than its rank (`UpsAbove`),
and a subsequence as long as the whole is the whole (`PlacesFull`).

The inductive invariant `EventInv` has five parts: types; every event built has
an id of its own (`IdsDrawn`); the store is a subsequence of the log and what it
lacks is older than the retention (`StoredOf`); what a client has got is a
subsequence of the log (`ReadOf`); and while nothing was pruned it is the
beginning of what it wants (`UnprunedOf`).

- `EventTypeCorrect` (`EventTypeOK`): the log is no longer than what was built,
  because its ids are distinct.
- `PruningKeepsTheRest` (`NothingLostEarly`): pruning composes place maps;
  distinct ids turn places into the property's sets of ids.
- `PagesAreFaithful` (`PagesFaithful`). Pruning shifts what an offset means. The
  strengthening (`GotOf`) is that the k-th wanted event the store has now comes
  no earlier in the log than the k-th event the client got. Hence what follows
  the offset comes after everything it got: it may skip events, pruned or not,
  once something was pruned, and never repeats. `PageIs` covers the wrap-around of `limit + offset`, which is negative
  and so lifts the limit.
- `StatsAgreeWithQueries` (`StatsMatchQueries`): the answers of all sessions and
  the places of the events counted are in bijection.

### Streaming

`StreamProofs` proves the five invariants of `EventBroadcaster` from one
invariant, `StreamInv`. Its core is `EmitterInv`: what a broadcast has still to
write to are subscribed connections of its event's session, because a
subscription changes only in a writer's critical section, and no reader is
inside then. So an unsubscribed connection has no writer left
(`ClosedMeansQuiet`). `OwedInv` says which emitter will deliver what a client
has a claim to (`NoGapInStream`); `SentInv` that what an emitter still carries
is younger than what it has sent, so that a stream neither repeats nor reorders,
whether or not other goroutines write to the connection at the same time
(`StreamIsFaithful`). `SubscriptionsAreExact` and `StreamTypeCorrect` are parts
of it.

### The demo server

`DemoProofs` proves the five invariants of `DemoServer` from `DemoInv`, which
says, phase by phase, what start-up has read, built and registered so far
(`Configured`, `Registered`), how `run` and the serve goroutine stand to each
other (`Progress`), and what the error channel holds (`Reported`). A closed
server is reported only after `Shutdown` was called, hence after a signal:
`ServeErrorNeverLost` and `SuccessIsClean` are about that race.
`StartupFailsClosed` and `StreamIsFed` follow from what was configured.

### Only model-checked

Liveness (`CallsReturn`, `ValidationEnds`, `ExpiredPruned`, `PrunerReleased`,
`StreamLive`, `RunEnds`): out of the prover's reach. Every other property of the passing runs is stated by a
theorem. The inductive invariants were checked with TLC before they were
proved, that of `BoundedReuse` on the instances of `Overlap` and `Sequential`,
`SessionInv` on the one of `Sequential` and with two calls that overlap in two
sessions.

## Where code and documents differ

The five violated runs above, each with a finding in `PROJECT.json`. Reading
and modelling the code showed these as well, which have no run of their own:

- Two overlapping calls both get, append and update the session, and one
  recorded call is lost (`wrapper.go:98`); `README.md:236` says sessions track
  which tools have been called. `HistoryComplete` holds without overlap
  (`Sequential`) and not in the instance of `Overlap`; `HistoryNeverWiped` says
  what is left there.
- When events are pruned between two pages, the offset of the next page points
  further on than the client has read, and events that are still stored are
  skipped (`main.go:282`).
- Two broadcasts, or a broadcast and the confirmation, write to one connection
  at once (`main.go:79`), which gorilla/websocket forbids; in the model that
  damages the stream of this client or ends the process.
- A one-time token admits several overlapping calls, since it is consumed after
  the handler and not reserved (`ratchet_service.go:235`); `BoundedReuse` says
  how far that can go: one execution per call in flight.
- `ConsumePrerequisiteToken` cuts off the session's last token, not the one it
  removed from the store (`ratchet_service.go:247`); `P/doc.go:64` says used
  tokens are removed from the session. Without overlap they are the same
  (`TokensMirrored`).
- The token argument of `ValidateToolCall` is only reported in events
  (`ratchet_service.go:79`), and the wrapper passes a token of the called tool;
  `P/doc.go:11` says the dependent tool requires the prerequisite's token.
- The copy `Get` returns shares the token map, so `AddToken` changes the stored
  session before `Update`; `memory_session_store.go:47` says the copy prevents
  that.
- Two racing first calls: one `CreateSession` fails although its comment
  (`ratchet_service.go:259`) promises the existing session. The wrapper goes on
  and the session is not replaced (`SessionNeverReplaced`).
- `tool_call_success` is emitted before the handler runs; `domain/event.go:21`
  says after it executes.
- `GetEvents` with a limit returns the oldest events; `README.md:560` calls
  `limit=10` the last 10.
- The demo starts its event store without looking at `observability.enabled`
  (`domain/config.go:7`: "When false, no events are stored") or `storage_type`
  (`main.go:178`): events are stored in memory whatever these say. The factory,
  which looks at both, has no caller.
- `http_enabled`, `server.addr` and `server.mcp_path` of the server settings are
  read and not used (`main.go:349`); the flags decide.
- A client with an open MCP event stream makes every shutdown last its ten
  seconds and end with an error (`main.go:371`).
- A `websocket_path` or `-path` that names an existing route panics in
  `ServeMux` (`main.go:299`, `main.go:346`) instead of being reported.

## Not modelled

The YAML decoder, HTTP and query-string parsing, net/http and gorilla/websocket
beyond what the code relies on (library code, marked external in the map);
what the stateless example tools answer; the event store factory, which has no
caller in the repository; ports, errors and value objects (no
behaviour); the WebSocket test client, a manual program.

## Plan

Done, in this order: `RatchetDomain` and the two stores, `RatchetCalls` with
its properties and `Gate`, `ConfigLoader`, `MemoryEventStore`,
`EventBroadcaster`, `DemoServer`; the theorems above. Nothing of
the plan is left. What would extend it:
liveness proofs, once a prover with `ENABLED` and fairness is at hand, and the
calls of `RatchetCalls` over the broadcasting store instead of the memory store.
