-------------------------- MODULE EventBroadcaster --------------------------
(***************************************************************************)
(* Real-time streaming of events: the broadcasting event store             *)
(* (pkg/ratchet/adapters/broadcasting_event_store.go) that tool calls emit *)
(* into, the broadcaster with its read-write lock and the handler of each  *)
(* WebSocket connection (cmd/mcp-ratchet-demo/main.go).                    *)
(*                                                                         *)
(* The lock is Go's RWMutex: a writer that waits holds back new readers,   *)
(* and its Unlock lets in the readers that wait.  A critical section of a  *)
(* writer is one step.  A connection is gorilla/websocket's: one writer at *)
(* a time; it is undefined what two of them do to it.                      *)
(***************************************************************************)
EXTENDS Integers, Sequences, FiniteSets

CONSTANTS
    Emitters,       \* goroutines of tool calls that emit events
    Conns,          \* WebSocket connections
    SessionIDs,
    Subscriptions,  \* which session each connection may ask for
    BaseFails,      \* whether the wrapped store may return an error
    Slow,           \* the clients that may stop reading
    NoOne,          \* no connection
    MaxEvents       \* bound: events emitted

ASSUME StreamAssumption ==
    /\ BaseFails \in BOOLEAN
    /\ Subscriptions \subseteq [Conns -> SessionIDs]
    /\ MaxEvents \in Nat
    /\ Slow \subseteq Conns /\ NoOne \notin Conns

Event == [id : 1 .. MaxEvents, session : SessionIDs, by : Emitters]

VARIABLES
    stored,         \* the events of the wrapped store, in order
    built,          \* number of events emitted
    em,             \* per emitter: where it is, its event, whom it still serves
    connections,    \* eventBroadcaster.connections, a partial function
    pending,        \* the writer that has or waits for the lock
    at,             \* where the handler of a connection is
    session,        \* the session it subscribes to
    sent,           \* the events WriteJSON has written, damaged or not
    stalled,        \* has the client stopped reading, its buffers full?
    gone,           \* has the client left?
    damaged,        \* has the connection had two writers at once?
    owed,           \* the events of its session stored since it subscribed
                    \* that it has not got (history)
    crashed         \* a panic that nothing recovers ended the process

conn == <<at, session>>
wire == <<sent, owed, stalled, gone, damaged>>
bvars == <<stored, built, em, connections, pending, conn, wire, crashed>>

-----------------------------------------------------------------------------
(* The lock and the writers of a connection *)

Writing == {"range", "write"}
(* mutant: Broadcast copies the connections and writes without the lock *)
CanLockAnyTime == TRUE
CanLock == \A e \in Emitters : em[e].at \notin Writing

(* What Broadcast ranges over; the lock keeps it as it is. *)
Subscribers(cs, s) == IF s \in DOMAIN cs THEN cs[s] ELSE {}

(* An emitter gets the read lock. *)
Holding(r, cs) == [r EXCEPT !.at = "range", !.todo = Subscribers(cs, r.event.session)]

(* mutant: a return without Unlock *)
StayLocked(cs) == UNCHANGED <<pending, em>>
(* Unlock: the readers that wait get in. *)
Unlock(cs) ==
    /\ pending' = NoOne
    /\ em' = [e \in Emitters |-> IF em[e].at = "waiting" THEN Holding(em[e], cs)
                                 ELSE em[e]]

Writers(c) ==
    {e \in Emitters : em[e].at = "write" /\ em[e].conn = c}
        \cup {d \in {c} : at[d] = "writing"}

(* Between subscribe and unsubscribe *)
Active == {c \in Conns : at[c] \in {"confirm", "writing", "read", "unsubscribe"}}

(* The client of a connection has no claim to events any more. *)
Waive(c) == owed' = [owed EXCEPT ![c] = {}]

(* A goroutine enters WriteJSON.  Beside another one, it is undefined how  *)
(* this and all later writes to the connection end.                        *)
Enter(c) ==
    /\ IF Writers(c) = {} THEN UNCHANGED <<damaged, owed>>
       ELSE Waive(c) /\ damaged' = [damaged EXCEPT ![c] = TRUE]
    /\ UNCHANGED <<sent, stalled, gone>>

(* How WriteJSON ends: the transport has room and takes the message, an    *)
(* event v or the confirmation, ...                                        *)
HasRoom(c) == ~gone[c] /\ ~stalled[c]
Takes(c, v) ==
    /\ HasRoom(c)
    /\ sent' = [sent EXCEPT ![c] = Append(@, v)]
    /\ owed' = [owed EXCEPT ![c] = @ \ {v}]
    /\ UNCHANGED <<stalled, gone, damaged>>
TakesConfirmation(c) == HasRoom(c) /\ UNCHANGED wire
(* ... or it returns an error, ... *)
Fails(c) == (gone[c] \/ damaged[c]) /\ UNCHANGED wire
(* ... or "concurrent write to websocket connection" is detected. *)
Panics(c) == damaged[c] /\ UNCHANGED wire

-----------------------------------------------------------------------------
NoEvent == [id |-> 0]
Idle == [at |-> "idle", event |-> NoEvent, todo |-> {}, conn |-> NoOne]

Init ==
    /\ stored = <<>>
    /\ built = 0
    /\ em = [e \in Emitters |-> Idle]
    /\ connections = << >>
    /\ pending = NoOne
    /\ at = [c \in Conns |-> "none"]
    /\ session \in Subscriptions
    /\ sent = [c \in Conns |-> <<>>]
    /\ stalled = [c \in Conns |-> FALSE]
    /\ gone = [c \in Conns |-> FALSE]
    /\ damaged = [c \in Conns |-> FALSE]
    /\ owed = [c \in Conns |-> {}]
    /\ crashed = FALSE

-----------------------------------------------------------------------------
(* A tool call emits: BroadcastingEventStore.Store *)

(* The listeners that v is now owed to *)
Listening(c, v) == c \in Active /\ session[c] = v.session /\ ~gone[c] /\ ~damaged[c]
Owe(v) ==
    owed' = [c \in Conns |-> IF Listening(c, v) THEN owed[c] \cup {v} ELSE owed[c]]

(* mutant: broadcasts although the store failed *)
CarelessStore(e, s) ==
    LET v == [id |-> built + 1, session |-> s, by |-> e]
    IN  /\ em[e].at = "idle" /\ built < MaxEvents
        /\ built' = built + 1
        /\ \/ stored' = Append(stored, v) /\ Owe(v)
           \/ BaseFails /\ UNCHANGED <<stored, owed>>
        /\ em' = [em EXCEPT ![e].at = "rlock", ![e].event = v]
        /\ UNCHANGED <<connections, pending, conn, sent, stalled, gone, damaged, crashed>>
(* The wrapped store first; its error is returned and only logged. *)
Store(e, s) ==
    LET v == [id |-> built + 1, session |-> s, by |-> e]
    IN  /\ em[e].at = "idle" /\ built < MaxEvents
        /\ built' = built + 1
        /\ \/ /\ stored' = Append(stored, v) /\ Owe(v)
              /\ em' = [em EXCEPT ![e].at = "rlock", ![e].event = v]
           \/ BaseFails /\ UNCHANGED <<stored, em, owed>>
        /\ UNCHANGED <<connections, pending, conn, sent, stalled, gone, damaged, crashed>>

(* Broadcast: RLock, which waits behind a writer that waits *)
RLock(e) ==
    /\ em[e].at = "rlock"
    /\ em' = [em EXCEPT ![e] = IF pending = NoOne THEN Holding(@, connections)
                               ELSE [@ EXCEPT !.at = "waiting"]]
    /\ UNCHANGED <<stored, built, connections, pending, conn, wire, crashed>>

(* the loop over the connections, in any order *)
StartWrite(e, c) ==
    /\ em[e].at = "range" /\ c \in em[e].todo
    /\ em' = [em EXCEPT ![e].at = "write", ![e].conn = c]
    /\ Enter(c)
    /\ UNCHANGED <<stored, built, connections, pending, conn, crashed>>

(* mutant: an error keeps the connection in the loop *)
RetryingWrite(e) ==
    LET c == em[e].conn
    IN  /\ em[e].at = "write"
        /\ \/ /\ Takes(c, em[e].event)
              /\ em' = [em EXCEPT ![e].at = "range", ![e].conn = NoOne,
                                  ![e].todo = @ \ {c}]
              /\ UNCHANGED crashed
           \/ /\ Fails(c)
              /\ em' = [em EXCEPT ![e].at = "range", ![e].conn = NoOne]
              /\ UNCHANGED crashed
           \/ Panics(c) /\ crashed' = TRUE /\ UNCHANGED em
        /\ UNCHANGED <<stored, built, connections, pending, conn>>
(* WriteJSON returns, its error is dropped; a panic ends the process:       *)
(* nothing between Broadcast and the goroutine of the call recovers it.    *)
Write(e) ==
    LET c == em[e].conn
    IN  /\ em[e].at = "write"
        /\ \/ /\ Takes(c, em[e].event) \/ Fails(c)
              /\ em' = [em EXCEPT ![e].at = "range", ![e].conn = NoOne,
                                  ![e].todo = @ \ {c}]
              /\ UNCHANGED crashed
           \/ Panics(c) /\ crashed' = TRUE /\ UNCHANGED em
        /\ UNCHANGED <<stored, built, connections, pending, conn>>

RUnlock(e) ==
    /\ em[e].at = "range" /\ em[e].todo = {}
    /\ em' = [em EXCEPT ![e] = Idle]
    /\ UNCHANGED <<stored, built, connections, pending, conn, wire, crashed>>

-----------------------------------------------------------------------------
(* The handler of a WebSocket connection *)

(* A client with a session_id is upgraded; one without it, or one that     *)
(* cannot be upgraded, is turned away and leaves no trace.                 *)
Connect(c) ==
    /\ at[c] = "none"
    /\ at' = [at EXCEPT ![c] = "subscribe"]
    /\ UNCHANGED <<stored, built, em, connections, pending, session, wire, crashed>>

(* Lock announces the writer; it waits for the readers there are. *)
Lock(c) ==
    /\ at[c] \in {"subscribe", "unsubscribe"} /\ pending = NoOne
    /\ pending' = c
    /\ UNCHANGED <<stored, built, em, connections, conn, wire, crashed>>

(* The connection joins those of its session, whose entry it makes if     *)
(* there is none.                                                          *)
Join(cs, s, c) ==
    [t \in DOMAIN cs \cup {s} |-> IF t = s THEN Subscribers(cs, s) \cup {c} ELSE cs[t]]

Subscribe(c) ==
    /\ pending = c /\ at[c] = "subscribe" /\ CanLock
    /\ LET cs == Join(connections, session[c], c)
       IN  connections' = cs /\ Unlock(cs)
    /\ at' = [at EXCEPT ![c] = "confirm"]
    /\ UNCHANGED <<stored, built, session, wire, crashed>>

(* The confirmation is written with no lock held. *)
Confirm(c) ==
    /\ at[c] = "confirm"
    /\ at' = [at EXCEPT ![c] = "writing"]
    /\ Enter(c)
    /\ UNCHANGED <<stored, built, em, connections, pending, session, crashed>>

(* An error ends the handler; so does a panic, which net/http recovers. *)
Confirmed(c) ==
    /\ at[c] = "writing"
    /\ \/ TakesConfirmation(c) /\ at' = [at EXCEPT ![c] = "read"]
       \/ (Fails(c) \/ Panics(c)) /\ at' = [at EXCEPT ![c] = "unsubscribe"]
    /\ UNCHANGED <<stored, built, em, connections, pending, session, crashed>>

(* ReadMessage fails once the client is gone, or on a broken connection. *)
ReadFails(c) ==
    /\ at[c] = "read" /\ (gone[c] \/ damaged[c])
    /\ at' = [at EXCEPT ![c] = "unsubscribe"]
    /\ UNCHANGED <<stored, built, em, connections, pending, session, wire, crashed>>

(* mutant: the session's entry goes with the first client that leaves *)
GreedyDrop(cs, s, c) == [t \in DOMAIN cs \ {s} |-> cs[t]]
(* mutant: the entry of a session nobody listens to stays *)
LeakyDrop(cs, s, c) == [cs EXCEPT ![s] = @ \ {c}]
Drop(cs, s, c) ==
    IF cs[s] = {c} THEN [t \in DOMAIN cs \ {s} |-> cs[t]]
    ELSE [cs EXCEPT ![s] = @ \ {c}]

(* The deferred unsubscribe, then the deferred Close. *)
Unsubscribe(c) ==
    /\ pending = c /\ at[c] = "unsubscribe" /\ CanLock
    /\ LET cs == Drop(connections, session[c], c)
       IN  connections' = cs /\ Unlock(cs)
    /\ at' = [at EXCEPT ![c] = "close"]
    /\ UNCHANGED <<stored, built, session, wire, crashed>>

Close(c) ==
    /\ at[c] = "close"
    /\ at' = [at EXCEPT ![c] = "done"]
    /\ UNCHANGED <<stored, built, em, connections, pending, session, wire, crashed>>

-----------------------------------------------------------------------------
(* The client *)

(* It reads no more: nothing sets a deadline on a write to it. *)
ClientStalls(c) ==
    /\ c \in Slow /\ at[c] # "none" /\ ~gone[c] /\ ~stalled[c]
    /\ stalled' = [stalled EXCEPT ![c] = TRUE]
    /\ UNCHANGED <<stored, built, em, connections, pending, conn, sent, owed,
                   gone, damaged, crashed>>

(* It leaves.  Nothing can be written to it any more, so that its stream   *)
(* is complete and need not be kept.                                       *)
ClientLeaves(c) ==
    /\ ~gone[c] /\ at[c] # "none"
    /\ gone' = [gone EXCEPT ![c] = TRUE]
    /\ sent' = [sent EXCEPT ![c] = <<>>]
    /\ Waive(c)
    /\ stalled' = [stalled EXCEPT ![c] = FALSE]
    /\ UNCHANGED <<stored, built, em, connections, pending, conn, damaged, crashed>>

-----------------------------------------------------------------------------
EmitterStep(e) ==
    \/ RLock(e)
    \/ \E c \in Conns : StartWrite(e, c)
    \/ Write(e)
    \/ RUnlock(e)

HandlerStep(c) ==
    \/ Lock(c)
    \/ Subscribe(c)
    \/ Confirm(c)
    \/ Confirmed(c)
    \/ ReadFails(c)
    \/ Unsubscribe(c)
    \/ Close(c)

Quiet ==
    \/ crashed
    \/ /\ built = MaxEvents
       /\ \A e \in Emitters : em[e].at = "idle"
       /\ \A c \in Conns : at[c] = "done" /\ gone[c]

Next ==
    \/ /\ ~crashed
       /\ \/ \E e \in Emitters : EmitterStep(e) \/ \E s \in SessionIDs : Store(e, s)
          \/ \E c \in Conns : HandlerStep(c) \/ Connect(c) \/ ClientStalls(c) \/ ClientLeaves(c)
    \/ Quiet /\ UNCHANGED bvars

Spec == Init /\ [][Next]_bvars

(* The server's goroutines are scheduled.  Nothing is assumed of clients. *)
FairSpec ==
    /\ Spec
    /\ \A e \in Emitters : WF_bvars(~crashed /\ EmitterStep(e))
    /\ \A c \in Conns : WF_bvars(~crashed /\ HandlerStep(c))

-----------------------------------------------------------------------------
(* Types, and who may be where: a writer that waits is at one of its two   *)
(* lock calls, an emitter waits only behind a writer and ranges only over  *)
(* connections that are subscribed to its event's session.                 *)
StreamTypeOK ==
    /\ stored \in Seq(Event) /\ built \in 0 .. MaxEvents
    /\ sent \in [Conns -> Seq(Event)]
    /\ owed \in [Conns -> SUBSET Event]
    /\ pending # NoOne => at[pending] \in {"subscribe", "unsubscribe"}
    /\ \A e \in Emitters :
          /\ em[e].at # "idle" => em[e].event \in Event /\ em[e].event.by = e
          /\ em[e].at = "waiting" => pending # NoOne
          /\ em[e].at \in Writing =>
                em[e].todo \subseteq {c \in Active : session[c] = em[e].event.session}

(* The subscriptions are exactly those of the handlers between subscribe   *)
(* and unsubscribe, and no session without listeners leaves an entry.      *)
SubscriptionsExact ==
    /\ DOMAIN connections = {session[c] : c \in Active}
    /\ \A s \in DOMAIN connections : connections[s] = {c \in Active : session[c] = s}

(* A broadcast never writes to a connection that its handler has closed or *)
(* given up: unsubscribe is deferred after Close, so it runs before, and   *)
(* waits for the broadcasts under way.                                     *)
NoWriteAfterClose ==
    \A c \in Conns : at[c] \in {"none", "close", "done"} => Writers(c) = {}

(* What the server writes to a connection, one with two writers at once    *)
(* included: events of its session that were stored, none twice, and those *)
(* of one tool call in the order the call emitted them.  (What two writers *)
(* at once make of the bytes is undefined.)                                *)
StoredEvents == {stored[i] : i \in DOMAIN stored}
StreamFaithful ==
    \A c \in Conns : \A i \in DOMAIN sent[c] :
        /\ sent[c][i] \in StoredEvents
        /\ sent[c][i].session = session[c]
        /\ \A j \in 1 .. i - 1 : sent[c][j].by = sent[c][i].by =>
              sent[c][j].id < sent[c][i].id

(* No gap: an event of its session that is stored after a client has       *)
(* subscribed is in its stream, or is still with the emitter that will     *)
(* write it, unless the client left or had two writers at once.            *)
NoEventMissed ==
    \A c \in Active : \A v \in owed[c] : \E e \in Emitters :
        em[e].event = v /\ (em[e].at \in {"rlock", "waiting"} \/ c \in em[e].todo)

(* Every emit returns. *)
EmitsReturn == \A e \in Emitters : em[e].at # "idle" ~> em[e].at = "idle" \/ crashed

(* An emit for a session that no client listens to returns, whatever the   *)
(* clients of other sessions do ("observability must not affect core       *)
(* behaviour", ratchet_service.go).                                        *)
BystandersReturn ==
    \A e \in Emitters :
        em[e].at # "idle" /\ (\A c \in Conns : session[c] # em[e].event.session)
            ~> em[e].at = "idle" \/ crashed

(* The handler of a client that left ends. *)
HandlersEnd == \A c \in Conns : gone[c] ~> at[c] = "done" \/ crashed

(* As long as a client that stops reading leaves sooner or later, emitters *)
(* and handlers do not block each other for good: neither the lock's       *)
(* preference for writers nor an error on one connection holds up the rest.*)
StreamLive == (\A c \in Slow : []<>~stalled[c]) => EmitsReturn /\ HandlersEnd
=============================================================================
