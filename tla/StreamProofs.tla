---------------------------- MODULE StreamProofs ----------------------------
(***************************************************************************)
(* Proofs about EventBroadcaster, for any number of emitters, connections  *)
(* and events: its type invariant and its safety properties.               *)
(***************************************************************************)
EXTENDS EventBroadcaster, SequenceTheorems, TLAPS

(***************************************************************************)
(* The inductive invariant.                                                *)
(***************************************************************************)

Emitter == [at : {"idle", "rlock", "waiting", "range", "write"},
            event : Event \cup {NoEvent},
            todo : SUBSET Conns,
            conn : Conns \cup {NoOne}]

StreamTyped ==
    /\ stored \in Seq(Event)
    /\ built \in 0 .. MaxEvents
    /\ em \in [Emitters -> Emitter]
    /\ pending \in Conns \cup {NoOne}
    /\ at \in [Conns -> {"none", "subscribe", "confirm", "writing", "read",
                         "unsubscribe", "close", "done"}]
    /\ session \in [Conns -> SessionIDs]
    /\ sent \in [Conns -> Seq(Event)]
    /\ owed \in [Conns -> SUBSET Event]
    /\ stalled \in [Conns -> BOOLEAN]
    /\ gone \in [Conns -> BOOLEAN]
    /\ damaged \in [Conns -> BOOLEAN]
    /\ crashed \in BOOLEAN

(* Who waits for the lock. *)
LockInv ==
    /\ pending # NoOne => at[pending] \in {"subscribe", "unsubscribe"}
    /\ \A e \in Emitters : em[e].at = "waiting" => pending # NoOne

(* What an emitter holds: an event of its own that is stored and, under    *)
(* the read lock only, connections that are subscribed to its session.     *)
EmitterInv ==
    \A e \in Emitters :
        /\ em[e].at # "idle" => /\ em[e].event \in Event /\ em[e].event.by = e
                                /\ em[e].event \in StoredEvents
                                /\ em[e].event.id <= built
        /\ \A c \in em[e].todo : /\ em[e].at \in Writing
                                 /\ c \in Active /\ session[c] = em[e].event.session
        /\ em[e].at = "write" => em[e].conn \in em[e].todo

(* Emitter e has an event that it may yet write to connection c. *)
Carries(e, c) == em[e].at \in {"rlock", "waiting"} \/ c \in em[e].todo

(* What is owed is of the session subscribed to; nothing is owed before    *)
(* the subscription and after the stream broke.                            *)
OwedInv ==
    \A c \in Conns :
        /\ at[c] \in {"none", "subscribe"} \/ gone[c] \/ damaged[c] => owed[c] = {}
        /\ \A v \in owed[c] : /\ v.session = session[c]
                              /\ c \in Active => \E e \in Emitters :
                                    em[e].event = v /\ Carries(e, c)

(* What was sent to a connection is older than what is still to be sent.   *)
SentInv ==
    \A c \in Conns : \A i \in DOMAIN sent[c] :
        /\ sent[c][i].id <= built
        /\ \A e \in Emitters : Carries(e, c) /\ sent[c][i].by = e =>
              sent[c][i].id < em[e].event.id

StreamInv ==
    /\ StreamTyped /\ LockInv /\ EmitterInv /\ SubscriptionsExact
    /\ OwedInv /\ SentInv /\ StreamFaithful

-----------------------------------------------------------------------------
LEMMA StreamInit == Init => StreamInv
<1> SUFFICES ASSUME Init PROVE StreamInv
    OBVIOUS
<1> USE DEF Init
<1>1. StreamTyped
  <2>1. session \in [Conns -> SessionIDs] /\ built \in 0 .. MaxEvents
    BY StreamAssumption
  <2>2. em \in [Emitters -> Emitter]
    BY DEF Emitter, Idle
  <2>3. /\ sent \in [Conns -> Seq(Event)] /\ owed \in [Conns -> SUBSET Event]
        /\ stored \in Seq(Event)
    OBVIOUS
  <2> QED BY <2>1, <2>2, <2>3 DEF StreamTyped
<1>2. LockInv
    BY DEF LockInv, Idle
<1>3. EmitterInv
    BY DEF EmitterInv, Idle
<1>4. Active = {}
    BY DEF Active
<1>5. SubscriptionsExact
  <2>1. DOMAIN connections = {}
    OBVIOUS
  <2> QED BY <1>4, <2>1 DEF SubscriptionsExact
<1>6. OwedInv
    BY DEF OwedInv
<1>7. SentInv /\ StreamFaithful
    BY DEF SentInv, StreamFaithful
<1> QED BY <1>1, <1>2, <1>3, <1>5, <1>6, <1>7 DEF StreamInv

(***************************************************************************)
(* Steps that bring no event to a client, record no debt and leave the     *)
(* emitters and the subscriptions alone.                                   *)
(***************************************************************************)
NoEventSent ==
    \A c \in Conns :
        /\ \/ owed'[c] = {}
           \/ owed'[c] = owed[c] /\ gone'[c] = gone[c] /\ damaged'[c] = damaged[c]
        /\ \A i \in DOMAIN sent'[c] :
              i \in DOMAIN sent[c] /\ sent'[c][i] = sent[c][i]

(* StreamFaithful depends on what was sent and what is stored only. *)
LEMMA FaithfulKept ==
    ASSUME StreamInv, StreamTyped', NoEventSent, session' = session,
           StoredEvents \subseteq StoredEvents'
    PROVE  StreamFaithful'
<1> SUFFICES ASSUME NEW c \in Conns, NEW i \in DOMAIN sent'[c]
             PROVE  /\ sent'[c][i] \in StoredEvents'
                    /\ sent'[c][i].session = session'[c]
                    /\ \A j \in 1 .. i - 1 :
                          sent'[c][j].by = sent'[c][i].by =>
                              sent'[c][j].id < sent'[c][i].id
    BY DEF StreamFaithful
<1>1. i \in DOMAIN sent[c] /\ sent'[c][i] = sent[c][i]
    BY DEF NoEventSent
<1>2. \A j \in 1 .. i - 1 : j \in DOMAIN sent'[c]
    BY DEF StreamTyped
<1>3. \A j \in 1 .. i - 1 : sent'[c][j] = sent[c][j]
    BY <1>2 DEF NoEventSent
<1> QED BY <1>1, <1>3 DEF StreamInv, StreamFaithful

LEMMA HandlerFrame ==
    ASSUME StreamInv, StreamTyped', LockInv', NoEventSent, Active' = Active,
           UNCHANGED <<stored, built, em, connections, session>>,
           \A c \in Conns : at'[c] \in {"none", "subscribe"} => at[c] \in {"none", "subscribe"}
    PROVE  StreamInv'
<1> USE DEF StreamInv
<1>1. EmitterInv'
    BY DEF EmitterInv, StoredEvents
<1>2. SubscriptionsExact'
    BY DEF SubscriptionsExact
<1>3. OwedInv'
    BY DEF OwedInv, NoEventSent, Carries
<1>4. SentInv'
    BY DEF SentInv, NoEventSent, Carries
<1>5. StreamFaithful'
    BY FaithfulKept DEF StoredEvents
<1> QED BY <1>1, <1>2, <1>3, <1>4, <1>5

(* What the operations on a connection do to its wire. *)
LEMMA EnterKeeps ==
    ASSUME StreamTyped, NEW c \in Conns, Enter(c)
    PROVE  /\ NoEventSent
           /\ sent' \in [Conns -> Seq(Event)] /\ owed' \in [Conns -> SUBSET Event]
           /\ damaged' \in [Conns -> BOOLEAN]
           /\ UNCHANGED <<stalled, gone>>
<1>1. CASE Writers(c) = {}
    BY <1>1 DEF StreamTyped, Enter, NoEventSent
<1>2. CASE Writers(c) # {}
  <2>1. /\ sent' = sent
        /\ owed' = [owed EXCEPT ![c] = {}]
        /\ damaged' = [damaged EXCEPT ![c] = TRUE]
        /\ UNCHANGED <<stalled, gone>>
    BY <1>2 DEF Enter, Waive
  <2>2. sent' \in [Conns -> Seq(Event)] /\ owed' \in [Conns -> SUBSET Event]
    BY <2>1 DEF StreamTyped
  <2>3. \A d \in Conns \ {c} : /\ sent'[d] = sent[d] /\ owed'[d] = owed[d]
                                /\ gone'[d] = gone[d] /\ damaged'[d] = damaged[d]
    BY <2>1 DEF StreamTyped
  <2>4. owed'[c] = {} /\ sent'[c] = sent[c]
    BY <2>1 DEF StreamTyped
  <2>5. NoEventSent
    BY <2>3, <2>4 DEF NoEventSent
  <2> QED BY <2>1, <2>2, <2>5 DEF StreamTyped
<1> QED BY <1>1, <1>2

LEMMA WireKept ==
    ASSUME UNCHANGED wire
    PROVE  NoEventSent
BY DEF wire, NoEventSent

(***************************************************************************)
(* The handlers and the clients, apart from subscribe and unsubscribe.     *)
(***************************************************************************)
LEMMA HandlerKeeps ==
    ASSUME StreamInv, NEW c \in Conns,
           \/ Connect(c) \/ Lock(c) \/ Confirm(c) \/ Confirmed(c) \/ ReadFails(c)
           \/ Close(c) \/ ClientStalls(c) \/ ClientLeaves(c)
    PROVE  StreamInv'
<1>0. StreamTyped /\ LockInv
    BY DEF StreamInv
<1> USE DEF conn
<1>1. ASSUME Connect(c) PROVE StreamInv'
  <2>1. StreamTyped' /\ LockInv' /\ Active' = Active
    BY <1>0, <1>1 DEF Connect, StreamTyped, LockInv, Active, wire
  <2> QED BY <1>0, <1>1, <2>1, WireKept, HandlerFrame DEF Connect, StreamTyped
<1>2. ASSUME Lock(c) PROVE StreamInv'
  <2>1. StreamTyped' /\ LockInv' /\ Active' = Active
    BY <1>0, <1>2 DEF Lock, StreamTyped, LockInv, Active, wire
  <2> QED BY <1>0, <1>2, <2>1, WireKept, HandlerFrame DEF Lock
<1>3. ASSUME Confirm(c) PROVE StreamInv'
  <2>1. NoEventSent /\ StreamTyped'
    BY <1>0, <1>3, EnterKeeps DEF Confirm, StreamTyped
  <2>2. LockInv' /\ Active' = Active
    BY <1>0, <1>3 DEF Confirm, StreamTyped, LockInv, Active
  <2> QED BY <1>0, <1>3, <2>1, <2>2, HandlerFrame DEF Confirm, StreamTyped
<1>4. ASSUME Confirmed(c) PROVE StreamInv'
  <2>1. /\ at' \in [Conns -> {"none", "subscribe", "confirm", "writing", "read",
                              "unsubscribe", "close", "done"}]
        /\ Active' = Active /\ LockInv'
        /\ \A d \in Conns : at'[d] \in {"none", "subscribe"} => at[d] \in {"none", "subscribe"}
    BY <1>0, <1>4 DEF Confirmed, StreamTyped, LockInv, Active
  <2>2. NoEventSent /\ StreamTyped'
    <3>1. UNCHANGED wire
        BY <1>4 DEF Confirmed, TakesConfirmation, Fails, Panics
    <3> QED BY <1>0, <1>4, <2>1, <3>1, WireKept DEF Confirmed, StreamTyped, wire
  <2> QED BY <1>4, <2>1, <2>2, HandlerFrame DEF Confirmed
<1>5. ASSUME ReadFails(c) PROVE StreamInv'
  <2>1. StreamTyped' /\ LockInv' /\ Active' = Active
    BY <1>0, <1>5 DEF ReadFails, StreamTyped, LockInv, Active, wire
  <2> QED BY <1>0, <1>5, <2>1, WireKept, HandlerFrame DEF ReadFails, StreamTyped
<1>6. ASSUME Close(c) PROVE StreamInv'
  <2>1. StreamTyped' /\ LockInv' /\ Active' = Active
    BY <1>0, <1>6 DEF Close, StreamTyped, LockInv, Active, wire
  <2> QED BY <1>0, <1>6, <2>1, WireKept, HandlerFrame DEF Close, StreamTyped
<1>7. ASSUME ClientStalls(c) PROVE StreamInv'
  <2>1. StreamTyped' /\ LockInv' /\ Active' = Active /\ NoEventSent
    BY <1>0, <1>7 DEF ClientStalls, StreamTyped, LockInv, Active, NoEventSent
  <2> QED BY <1>7, <2>1, HandlerFrame DEF ClientStalls
<1>8. ASSUME ClientLeaves(c) PROVE StreamInv'
  <2>1. StreamTyped'
    BY <1>0, <1>8 DEF ClientLeaves, Waive, StreamTyped
  <2>2. /\ \A d \in Conns \ {c} : /\ sent'[d] = sent[d] /\ owed'[d] = owed[d]
                                  /\ gone'[d] = gone[d] /\ damaged'[d] = damaged[d]
        /\ owed'[c] = {} /\ DOMAIN sent'[c] = {}
    BY <1>0, <1>8 DEF ClientLeaves, Waive, StreamTyped
  <2>3. LockInv' /\ Active' = Active /\ NoEventSent
    BY <1>0, <1>8, <2>2 DEF ClientLeaves, LockInv, Active, NoEventSent
  <2> QED BY <1>8, <2>1, <2>3, HandlerFrame DEF ClientLeaves
<1> QED BY <1>1, <1>2, <1>3, <1>4, <1>5, <1>6, <1>7, <1>8

(***************************************************************************)
(* Subscribe and unsubscribe: under the lock no emitter has connections to *)
(* serve, and those that wait get the connections there are afterwards.    *)
(***************************************************************************)
LEMMA HoldingIs ==
    ASSUME NEW r \in Emitter, NEW cs, NEW t \in SUBSET Conns,
           t = Subscribers(cs, r.event.session)
    PROVE  /\ Holding(r, cs) \in Emitter
           /\ Holding(r, cs).at = "range" /\ Holding(r, cs).event = r.event
           /\ Holding(r, cs).todo = t
BY DEF Holding, Emitter

LEMMA UnlockKeeps ==
    ASSUME StreamInv, StreamTyped', SubscriptionsExact', CanLock, Unlock(connections'),
           UNCHANGED <<stored, built, session, wire>>,
           \A c \in Conns : /\ at'[c] \in {"none", "subscribe"} => at[c] \in {"none", "subscribe"}
                            /\ c \in Active' => c \in Active \/ owed[c] = {}
    PROVE  StreamInv'
<1> USE DEF StreamInv, wire
<1>1. \A e \in Emitters : em[e].todo = {}
    BY DEF CanLock, EmitterInv, StreamTyped, Emitter
<1>2. \A s : Subscribers(connections', s) = {c \in Active' : session[c] = s}
    BY DEF SubscriptionsExact, Subscribers
<1>3. \A e \in Emitters :
          /\ em[e].at # "waiting" => em'[e] = em[e]
          /\ em[e].at = "waiting" => /\ em'[e].at = "range" /\ em'[e].event = em[e].event
                                     /\ em'[e].todo = {c \in Active' : session[c] = em[e].event.session}
  <2>1. \A e \in Emitters : em[e] \in Emitter
    BY DEF StreamTyped
  <2>2. ASSUME NEW e \in Emitters, em[e].at = "waiting"
        PROVE  em'[e] = Holding(em[e], connections')
    BY <2>2 DEF Unlock
  <2>3. ASSUME NEW e \in Emitters, em[e].at = "waiting"
        PROVE  /\ em'[e].at = "range" /\ em'[e].event = em[e].event
               /\ em'[e].todo = {c \in Active' : session[c] = em[e].event.session}
    BY <1>2, <2>1, <2>2, <2>3, HoldingIs DEF Active
  <2>4. \A e \in Emitters : em[e].at # "waiting" => em'[e] = em[e]
    BY DEF Unlock
  <2> QED BY <2>3, <2>4
<1>4. LockInv'
    BY <1>3 DEF LockInv, Unlock, StreamTyped
<1>5. EmitterInv'
    BY <1>1, <1>3 DEF EmitterInv, Writing, StoredEvents, CanLock
<1>6. \A e \in Emitters, c \in Conns :
          /\ Carries(e, c)' => Carries(e, c) /\ em'[e].event = em[e].event
          /\ c \in Active' /\ Carries(e, c) /\ em[e].event.session = session[c]
                => Carries(e, c)' /\ em'[e].event = em[e].event
    BY <1>1, <1>3 DEF Carries
<1>7. OwedInv'
    BY <1>6 DEF OwedInv
<1>8. SentInv'
    BY <1>6 DEF SentInv
<1>9. StreamFaithful'
    BY DEF StreamFaithful, StoredEvents
<1> QED BY <1>4, <1>5, <1>7, <1>8, <1>9

LEMMA UnlockTyped ==
    ASSUME StreamTyped, Unlock(connections'),
           \A s : Subscribers(connections', s) \in SUBSET Conns
    PROVE  em' \in [Emitters -> Emitter] /\ pending' \in Conns \cup {NoOne}
<1>1. ASSUME NEW e \in Emitters PROVE Holding(em[e], connections') \in Emitter
  <2>1. em[e] \in Emitter
    BY DEF StreamTyped
  <2> QED BY <2>1, HoldingIs
<1> QED BY <1>1 DEF Unlock, StreamTyped

LEMMA SubscribeKeeps ==
    ASSUME StreamInv, NEW c \in Conns, Subscribe(c)
    PROVE  StreamInv'
<1> USE DEF StreamInv
<1>1. Active' = Active \cup {c}
    BY DEF Subscribe, Active, StreamTyped
<1>2. /\ DOMAIN connections' = DOMAIN connections \cup {session[c]}
      /\ connections'[session[c]] = Subscribers(connections, session[c]) \cup {c}
      /\ \A s \in DOMAIN connections \ {session[c]} : connections'[s] = connections[s]
    BY DEF Subscribe, Join
<1>3. SubscriptionsExact'
  <2>1. session' = session
    BY DEF Subscribe
  <2>2. Subscribers(connections, session[c]) = {d \in Active : session[d] = session[c]}
    BY DEF SubscriptionsExact, Subscribers
  <2> QED BY <1>1, <1>2, <2>1, <2>2 DEF SubscriptionsExact
<1>4. \A s : Subscribers(connections', s) \in SUBSET Conns
    BY <1>3 DEF SubscriptionsExact, Subscribers, Active
<1>5. CanLock /\ Unlock(connections') /\ UNCHANGED <<stored, built, session, wire>>
    BY DEF Subscribe
<1>6. StreamTyped'
    BY <1>4, <1>5, UnlockTyped DEF Subscribe, StreamTyped, wire
<1>7. \A d \in Conns : /\ at'[d] \in {"none", "subscribe"} => at[d] \in {"none", "subscribe"}
                       /\ d \in Active' => d \in Active \/ owed[d] = {}
    BY <1>1 DEF Subscribe, StreamTyped, OwedInv
<1> QED BY <1>3, <1>5, <1>6, <1>7, UnlockKeeps

LEMMA UnsubscribeKeeps ==
    ASSUME StreamInv, NEW c \in Conns, Unsubscribe(c)
    PROVE  StreamInv'
<1> USE DEF StreamInv
<1>1. Active' = Active \ {c} /\ c \in Active
    BY DEF Unsubscribe, Active, StreamTyped
<1>2. session' = session /\ connections' = Drop(connections, session[c], c)
    BY DEF Unsubscribe
<1>3. /\ session[c] \in DOMAIN connections
      /\ connections[session[c]] = {d \in Active : session[d] = session[c]}
    BY <1>1 DEF SubscriptionsExact
<1>4. SubscriptionsExact'
  <2>1. CASE connections[session[c]] = {c}
    <3>1. /\ DOMAIN connections' = DOMAIN connections \ {session[c]}
          /\ \A s \in DOMAIN connections' : connections'[s] = connections[s]
        BY <1>2, <2>1 DEF Drop
    <3> QED BY <1>1, <1>2, <1>3, <2>1, <3>1 DEF SubscriptionsExact
  <2>2. CASE connections[session[c]] # {c}
    <3>1. /\ DOMAIN connections' = DOMAIN connections
          /\ connections'[session[c]] = connections[session[c]] \ {c}
          /\ \A s \in DOMAIN connections \ {session[c]} : connections'[s] = connections[s]
        BY <1>2, <1>3, <2>2 DEF Drop
    <3>2. PICK d \in Active : d # c /\ session[d] = session[c]
        BY <1>1, <1>3, <2>2
    <3> QED BY <1>1, <1>2, <1>3, <3>1, <3>2 DEF SubscriptionsExact
  <2> QED BY <2>1, <2>2
<1>5. \A s : Subscribers(connections', s) \in SUBSET Conns
    BY <1>4 DEF SubscriptionsExact, Subscribers, Active
<1>6. CanLock /\ Unlock(connections') /\ UNCHANGED <<stored, built, session, wire>>
    BY DEF Unsubscribe
<1>7. StreamTyped'
    BY <1>5, <1>6, UnlockTyped DEF Unsubscribe, StreamTyped, wire
<1>8. \A d \in Conns : /\ at'[d] \in {"none", "subscribe"} => at[d] \in {"none", "subscribe"}
                       /\ d \in Active' => d \in Active \/ owed[d] = {}
    BY <1>1 DEF Unsubscribe, StreamTyped
<1> QED BY <1>4, <1>6, <1>7, <1>8, UnlockKeeps

(***************************************************************************)
(* The emitters.                                                           *)
(***************************************************************************)

(* Steps of emitter e that bring no event to a client: the event it has    *)
(* stays with it as long as a client is owed it.                           *)
LEMMA EmitterFrame ==
    ASSUME StreamInv, StreamTyped', LockInv', EmitterInv', NoEventSent,
           UNCHANGED <<stored, built, connections, at, session>>,
           NEW e \in Emitters,
           \A f \in Emitters \ {e} : em'[f] = em[f],
           \A c \in Conns : Carries(e, c)' => Carries(e, c) /\ em'[e].event = em[e].event,
           \A c \in Active : Carries(e, c) /\ em[e].event.session = session[c]
               => owed'[c] = {} \/ (Carries(e, c)' /\ em'[e].event = em[e].event)
    PROVE  StreamInv'
<1> USE DEF StreamInv
<1>1. Active' = Active
    BY DEF Active
<1>2. SubscriptionsExact'
    BY <1>1 DEF SubscriptionsExact
<1>3. \A f \in Emitters, c \in Conns :
          Carries(f, c)' => Carries(f, c) /\ em'[f].event = em[f].event
    BY DEF Carries
<1>4. OwedInv'
  <2> SUFFICES ASSUME NEW c \in Conns
               PROVE  /\ at'[c] \in {"none", "subscribe"} \/ gone'[c] \/ damaged'[c] => owed'[c] = {}
                      /\ \A v \in owed'[c] : /\ v.session = session'[c]
                                             /\ c \in Active' => \E f \in Emitters :
                                                    em'[f].event = v /\ Carries(f, c)'
    BY DEF OwedInv
  <2>1. CASE owed'[c] = {}
    BY <2>1
  <2>2. CASE owed'[c] # {}
    <3>1. owed'[c] = owed[c] /\ gone'[c] = gone[c] /\ damaged'[c] = damaged[c]
        BY <2>2 DEF NoEventSent
    <3>2. ASSUME NEW v \in owed[c], c \in Active
          PROVE  \E f \in Emitters : em'[f].event = v /\ Carries(f, c)'
      <4>1. v.session = session[c]
        BY DEF OwedInv
      <4>2. PICK f \in Emitters : em[f].event = v /\ Carries(f, c)
        BY <3>2 DEF OwedInv
      <4>3. em'[f].event = em[f].event /\ Carries(f, c)'
        BY <2>2, <3>2, <4>1, <4>2 DEF Carries
      <4> QED BY <4>2, <4>3
    <3> QED BY <1>1, <3>1, <3>2 DEF OwedInv
  <2> QED BY <2>1, <2>2
<1>5. SentInv'
    BY <1>3 DEF SentInv, NoEventSent
<1>6. StreamFaithful'
    BY FaithfulKept DEF StoredEvents
<1> QED BY <1>2, <1>4, <1>5, <1>6

LEMMA RLockKeeps ==
    ASSUME StreamInv, NEW e \in Emitters, RLock(e)
    PROVE  StreamInv'
<1> USE DEF StreamInv
<1>0. em[e] \in Emitter /\ em[e].at = "rlock" /\ em[e].event \in Event
    BY DEF StreamTyped, RLock, EmitterInv
<1>1. UNCHANGED <<stored, built, connections, pending, at, session, wire, crashed>>
    BY DEF RLock, conn
<1>2. \A f \in Emitters \ {e} : em'[f] = em[f]
    BY DEF RLock, StreamTyped
<1>3. /\ em'[e] \in Emitter /\ em'[e].event = em[e].event
      /\ \/ pending # NoOne /\ em'[e].at = "waiting" /\ em'[e].todo = em[e].todo
         \/ /\ em'[e].at = "range"
            /\ em'[e].todo = {c \in Active : session[c] = em[e].event.session}
  <2>1. CASE pending = NoOne
    <3>1. em'[e] = Holding(em[e], connections)
        BY <2>1 DEF RLock, StreamTyped
    <3>2. Subscribers(connections, em[e].event.session)
              = {c \in Active : session[c] = em[e].event.session}
        BY DEF Subscribers, SubscriptionsExact
    <3> QED BY <1>0, <3>1, <3>2, HoldingIs DEF Active
  <2>2. CASE pending # NoOne
    <3>1. em'[e] = [em[e] EXCEPT !.at = "waiting"]
        BY <2>2 DEF RLock, StreamTyped
    <3> QED BY <1>0, <2>2, <3>1 DEF Emitter
  <2> QED BY <2>1, <2>2
<1>4. em[e].todo = {}
    BY <1>0 DEF EmitterInv, Writing, Emitter
<1>5. StreamTyped'
  <2>1. em' \in [Emitters -> Emitter]
    BY <1>2, <1>3 DEF RLock, StreamTyped
  <2> QED BY <1>1, <2>1 DEF StreamTyped, wire
<1>6. LockInv'
    BY <1>1, <1>2, <1>3 DEF LockInv
<1>7. Active' = Active
    BY <1>1 DEF Active
<1>8. EmitterInv'
    BY <1>0, <1>1, <1>2, <1>3, <1>4, <1>7 DEF EmitterInv, Writing, StoredEvents
<1>9. \A c \in Conns : /\ Carries(e, c)
                       /\ c \in Active /\ em[e].event.session = session[c] => Carries(e, c)'
    BY <1>0, <1>3 DEF Carries
<1>10. NoEventSent
    BY <1>1, WireKept
<1>11. \A c \in Active : c \in Conns
    BY DEF Active
<1> QED BY <1>1, <1>2, <1>3, <1>5, <1>6, <1>8, <1>9, <1>10, <1>11, EmitterFrame

LEMMA StartWriteKeeps ==
    ASSUME StreamInv, NEW e \in Emitters, NEW c \in Conns, StartWrite(e, c)
    PROVE  StreamInv'
<1> USE DEF StreamInv
<1>0. em[e] \in Emitter /\ em[e].at = "range" /\ c \in em[e].todo
    BY DEF StreamTyped, StartWrite
<1>1. UNCHANGED <<stored, built, connections, pending, at, session, crashed>>
    BY DEF StartWrite, conn
<1>2. \A f \in Emitters \ {e} : em'[f] = em[f]
    BY DEF StartWrite, StreamTyped
<1>3. /\ em'[e] \in Emitter /\ em'[e].event = em[e].event /\ em'[e].todo = em[e].todo
      /\ em'[e].at = "write" /\ em'[e].conn = c
    BY <1>0 DEF StartWrite, StreamTyped, Emitter
<1>4. /\ NoEventSent
      /\ sent' \in [Conns -> Seq(Event)] /\ owed' \in [Conns -> SUBSET Event]
      /\ damaged' \in [Conns -> BOOLEAN]
      /\ UNCHANGED <<stalled, gone>>
    BY EnterKeeps DEF StartWrite
<1>5. StreamTyped'
  <2>1. em' \in [Emitters -> Emitter]
    BY <1>2, <1>3 DEF StartWrite, StreamTyped
  <2> QED BY <1>1, <1>4, <2>1 DEF StreamTyped
<1>6. LockInv'
    BY <1>1, <1>2, <1>3 DEF LockInv
<1>7. Active' = Active
    BY <1>1 DEF Active
<1>8. EmitterInv'
    BY <1>0, <1>1, <1>2, <1>3, <1>7 DEF EmitterInv, Writing, StoredEvents
<1>9. \A d : Carries(e, d)' = Carries(e, d)
    BY <1>0, <1>3 DEF Carries
<1> QED BY <1>1, <1>2, <1>3, <1>4, <1>5, <1>6, <1>8, <1>9, EmitterFrame DEF Active

LEMMA RUnlockKeeps ==
    ASSUME StreamInv, NEW e \in Emitters, RUnlock(e)
    PROVE  StreamInv'
<1> USE DEF StreamInv
<1>1. UNCHANGED <<stored, built, connections, pending, at, session, wire, crashed>>
    BY DEF RUnlock, conn
<1>2. /\ \A f \in Emitters \ {e} : em'[f] = em[f]
      /\ em'[e] = Idle /\ em[e].at = "range" /\ em[e].todo = {}
    BY DEF RUnlock, StreamTyped
<1>3. Idle \in Emitter /\ Idle.at = "idle" /\ Idle.todo = {}
    BY DEF Idle, Emitter
<1>4. StreamTyped'
  <2>1. em' \in [Emitters -> Emitter]
    BY <1>2, <1>3 DEF RUnlock, StreamTyped
  <2> QED BY <1>1, <2>1 DEF StreamTyped, wire
<1>5. LockInv'
    BY <1>1, <1>2, <1>3 DEF LockInv
<1>6. Active' = Active
    BY <1>1 DEF Active
<1>7. EmitterInv'
    BY <1>1, <1>2, <1>3, <1>6 DEF EmitterInv, StoredEvents
<1>8. \A c : ~ Carries(e, c)' /\ ~ Carries(e, c)
    BY <1>2, <1>3 DEF Carries
<1>9. NoEventSent
    BY <1>1, WireKept
<1> QED BY <1>1, <1>2, <1>4, <1>5, <1>7, <1>8, <1>9, EmitterFrame DEF Active

(* WriteJSON returned to emitter e, which turns to the rest of its loop.   *)
Served(e) ==
    em' = [em EXCEPT ![e].at = "range", ![e].conn = NoOne, ![e].todo = @ \ {em[e].conn}]

LEMMA ServedKeeps ==
    ASSUME StreamInv, NEW e \in Emitters, em[e].at = "write", Served(e),
           UNCHANGED <<stored, built, connections, pending, at, session, crashed>>
    PROVE  /\ em[e].conn \in Conns /\ em[e].conn \in Active
           /\ em[e].event \in Event /\ em[e].event \in StoredEvents
           /\ em[e].event.session = session[em[e].conn]
           /\ em' \in [Emitters -> Emitter]
           /\ \A f \in Emitters \ {e} : em'[f] = em[f]
           /\ em'[e].event = em[e].event /\ em'[e].todo = em[e].todo \ {em[e].conn}
           /\ \A d : Carries(e, d)' <=> Carries(e, d) /\ d # em[e].conn
           /\ LockInv' /\ EmitterInv' /\ Active' = Active
<1> USE DEF StreamInv
<1>1. em[e] \in Emitter
    BY DEF StreamTyped
<1>2. /\ em[e].conn \in em[e].todo /\ em[e].conn \in Active /\ em[e].conn \in Conns
      /\ em[e].event.session = session[em[e].conn]
      /\ em[e].event \in Event /\ em[e].event \in StoredEvents
    BY DEF EmitterInv, Active
<1>3. \A f \in Emitters \ {e} : em'[f] = em[f]
    BY DEF Served, StreamTyped
<1>4. em'[e] = [em[e] EXCEPT !.at = "range", !.conn = NoOne, !.todo = @ \ {em[e].conn}]
    BY DEF Served, StreamTyped
<1>5. /\ em'[e] \in Emitter /\ em'[e].at = "range" /\ em'[e].event = em[e].event
      /\ em'[e].todo = em[e].todo \ {em[e].conn}
    BY <1>1, <1>4 DEF Emitter
<1>6. em' \in [Emitters -> Emitter]
    BY <1>3, <1>5 DEF Served, StreamTyped
<1>7. LockInv'
    BY <1>3, <1>5 DEF LockInv
<1>8. Active' = Active
    BY DEF Active
<1>9. EmitterInv'
    BY <1>3, <1>5, <1>8 DEF EmitterInv, Writing, StoredEvents
<1>10. \A d : Carries(e, d)' <=> Carries(e, d) /\ d # em[e].conn
    BY <1>5 DEF Carries
<1> QED BY <1>2, <1>3, <1>5, <1>6, <1>7, <1>8, <1>9, <1>10

(* The write brought the client nothing: nothing was owed to it.           *)
LEMMA FailedWriteKeeps ==
    ASSUME StreamInv, NEW e \in Emitters, em[e].at = "write", Served(e),
           gone[em[e].conn] \/ damaged[em[e].conn],
           UNCHANGED <<stored, built, connections, pending, at, session, wire, crashed>>
    PROVE  StreamInv'
<1> DEFINE c == em[e].conn
<1> USE DEF StreamInv
<1>1. /\ c \in Conns /\ em' \in [Emitters -> Emitter]
      /\ \A f \in Emitters \ {e} : em'[f] = em[f]
      /\ em'[e].event = em[e].event /\ LockInv' /\ EmitterInv'
      /\ \A d : Carries(e, d)' <=> Carries(e, d) /\ d # c
    BY ServedKeeps
<1>2. StreamTyped'
    BY <1>1 DEF StreamTyped, wire
<1>3. owed'[c] = {}
    BY <1>1 DEF OwedInv, wire
<1>4. NoEventSent
    BY WireKept
<1> HIDE DEF c
<1> QED BY <1>1, <1>2, <1>3, <1>4, EmitterFrame DEF Active

(* The event was written, on a damaged connection or on a sound one. *)
LEMMA DeliveryKeeps ==
    ASSUME StreamInv, NEW e \in Emitters, em[e].at = "write", Served(e),
           Takes(em[e].conn, em[e].event),
           UNCHANGED <<stored, built, connections, pending, at, session, crashed>>
    PROVE  StreamInv'
<1> DEFINE c == em[e].conn
           v == em[e].event
<1> USE DEF StreamInv
<1>1. /\ c \in Conns /\ c \in Active /\ em' \in [Emitters -> Emitter]
      /\ \A f \in Emitters \ {e} : em'[f] = em[f]
      /\ em'[e].event = v /\ LockInv' /\ EmitterInv' /\ Active' = Active
      /\ \A d : Carries(e, d)' <=> Carries(e, d) /\ d # c
      /\ v \in Event /\ v \in StoredEvents /\ v.session = session[c]
    BY ServedKeeps
<1>2. v.by = e /\ v.id <= built /\ Carries(e, c)
    BY DEF EmitterInv, Carries
<1>3. /\ sent' = [sent EXCEPT ![c] = Append(sent[c], v)]
      /\ owed' = [owed EXCEPT ![c] = owed[c] \ {v}]
      /\ UNCHANGED <<stalled, gone, damaged>>
    BY DEF Takes
<1> HIDE DEF c, v
<1>4. sent[c] \in Seq(Event) /\ v \in Event
    BY <1>1 DEF StreamTyped
<1>5. /\ sent'[c] = Append(sent[c], v) /\ owed'[c] = owed[c] \ {v}
      /\ \A d \in Conns \ {c} : sent'[d] = sent[d] /\ owed'[d] = owed[d]
    BY <1>1, <1>3 DEF StreamTyped
<1>6. /\ DOMAIN sent'[c] = 1 .. Len(sent[c]) + 1 /\ sent'[c] \in Seq(Event)
      /\ DOMAIN sent[c] = 1 .. Len(sent[c]) /\ Len(sent[c]) \in Nat
      /\ \A i \in 1 .. Len(sent[c]) : sent'[c][i] = sent[c][i]
      /\ sent'[c][Len(sent[c]) + 1] = v
    BY <1>4, <1>5
<1>7. StreamTyped'
  <2>1. owed' \in [Conns -> SUBSET Event] /\ sent' \in [Conns -> Seq(Event)]
    BY <1>3, <1>5, <1>6 DEF StreamTyped
  <2> QED BY <1>1, <1>3, <2>1 DEF StreamTyped
<1>8. SubscriptionsExact'
    BY <1>1 DEF SubscriptionsExact
<1>9. \A f \in Emitters, d \in Conns :
          /\ Carries(f, d)' => Carries(f, d) /\ em'[f].event = em[f].event
          /\ Carries(f, d) /\ ~ (f = e /\ d = c) => Carries(f, d)' /\ em'[f].event = em[f].event
    BY <1>1 DEF Carries, v
<1>10. OwedInv'
  <2> SUFFICES ASSUME NEW d \in Conns
               PROVE  /\ at'[d] \in {"none", "subscribe"} \/ gone'[d] \/ damaged'[d] => owed'[d] = {}
                      /\ \A u \in owed'[d] : /\ u.session = session'[d]
                                             /\ d \in Active' => \E f \in Emitters :
                                                    em'[f].event = u /\ Carries(f, d)'
    BY DEF OwedInv
  <2>1. /\ at[d] \in {"none", "subscribe"} \/ gone[d] \/ damaged[d] => owed[d] = {}
        /\ owed'[d] \subseteq owed[d] /\ gone'[d] = gone[d] /\ damaged'[d] = damaged[d]
    BY <1>3, <1>5 DEF OwedInv
  <2>2. ASSUME NEW u \in owed'[d], d \in Active'
        PROVE  \E f \in Emitters : em'[f].event = u /\ Carries(f, d)'
    <3>1. PICK f \in Emitters : em[f].event = u /\ Carries(f, d)
        BY <1>1, <2>1, <2>2 DEF OwedInv
    <3>2. ~ (f = e /\ d = c)
        BY <1>5, <2>2, <3>1 DEF v
    <3> QED BY <1>9, <3>1, <3>2
  <2> QED BY <2>1, <2>2 DEF OwedInv
<1>11. SentInv'
  <2> SUFFICES ASSUME NEW d \in Conns, NEW i \in DOMAIN sent'[d]
               PROVE  /\ sent'[d][i].id <= built
                      /\ \A f \in Emitters : Carries(f, d)' /\ sent'[d][i].by = f =>
                            sent'[d][i].id < em'[f].event.id
    BY DEF SentInv
  <2>1. CASE d = c /\ i = Len(sent[c]) + 1
    BY <1>1, <1>2, <1>6, <2>1
  <2>2. CASE ~ (d = c /\ i = Len(sent[c]) + 1)
    <3>1. i \in DOMAIN sent[d] /\ sent'[d][i] = sent[d][i]
        BY <1>5, <1>6, <2>2, SMTT(30)
    <3> QED BY <1>9, <3>1 DEF SentInv
  <2> QED BY <2>1, <2>2
<1>12. StreamFaithful'
  <2> SUFFICES ASSUME NEW d \in Conns, NEW i \in DOMAIN sent'[d]
               PROVE  /\ sent'[d][i] \in StoredEvents'
                      /\ sent'[d][i].session = session'[d]
                      /\ \A j \in 1 .. i - 1 :
                            sent'[d][j].by = sent'[d][i].by =>
                                sent'[d][j].id < sent'[d][i].id
    BY DEF StreamFaithful
  <2>1. StoredEvents' = StoredEvents
    BY DEF StoredEvents
  <2>2. CASE d = c /\ i = Len(sent[c]) + 1
    <3>1. \A j \in 1 .. i - 1 : j \in DOMAIN sent[c] /\ sent'[c][j] = sent[c][j]
        BY <1>6, <2>2
    <3>2. sent'[d][i] = v
        BY <1>6, <2>2
    <3>3. \A j \in DOMAIN sent[c] : sent[c][j].by = e => sent[c][j].id < em[e].event.id
        BY <1>1, <1>2 DEF SentInv
    <3>4. \A j \in DOMAIN sent[c] : sent[c][j].by = v.by => sent[c][j].id < v.id
        BY <1>2, <3>3 DEF v
    <3> QED BY <1>1, <2>1, <2>2, <3>1, <3>2, <3>4
  <2>3. CASE ~ (d = c /\ i = Len(sent[c]) + 1)
    <3>1. /\ i \in DOMAIN sent[d] /\ sent'[d][i] = sent[d][i]
          /\ \A j \in 1 .. i - 1 : sent'[d][j] = sent[d][j]
        BY <1>5, <1>6, <2>3, SMTT(30)
    <3> QED BY <2>1, <3>1 DEF StreamFaithful
  <2> QED BY <2>2, <2>3
<1> QED BY <1>1, <1>7, <1>8, <1>10, <1>11, <1>12

LEMMA WriteKeeps ==
    ASSUME StreamInv, NEW e \in Emitters, Write(e)
    PROVE  StreamInv'
<1>0. em[e].at = "write" /\ UNCHANGED <<stored, built, connections, pending, at, session>>
    BY DEF Write, conn
<1>1. CASE Panics(em[e].conn) /\ crashed' = TRUE /\ UNCHANGED em
  <2>1. StreamTyped' /\ LockInv' /\ Active' = Active
    BY <1>0, <1>1 DEF StreamInv, Panics, StreamTyped, LockInv, Active, wire
  <2> QED BY <1>0, <1>1, <2>1, WireKept, HandlerFrame DEF Panics
<1>2. CASE /\ Takes(em[e].conn, em[e].event) \/ Fails(em[e].conn)
           /\ Served(e) /\ UNCHANGED crashed
  <2>1. CASE Fails(em[e].conn)
    <3>1. UNCHANGED wire /\ (gone[em[e].conn] \/ damaged[em[e].conn])
        BY <2>1 DEF Fails
    <3> QED BY <1>0, <1>2, <3>1, FailedWriteKeeps
  <2>2. CASE Takes(em[e].conn, em[e].event)
    BY <1>0, <1>2, <2>2, DeliveryKeeps
  <2> QED BY <1>2, <2>1, <2>2
<1> QED BY <1>1, <1>2 DEF Write, Served

LEMMA StoreKeeps ==
    ASSUME StreamInv, NEW e \in Emitters, NEW s \in SessionIDs, Store(e, s)
    PROVE  StreamInv'
<1> DEFINE v == [id |-> built + 1, session |-> s, by |-> e]
<1> USE DEF StreamInv
<1>1. /\ em[e].at = "idle" /\ built < MaxEvents /\ built' = built + 1
      /\ UNCHANGED <<connections, pending, at, session, sent, stalled, gone, damaged, crashed>>
      /\ Active' = Active
    BY DEF Store, conn, Active
<1>2. /\ built \in Nat /\ built + 1 \in 0 .. MaxEvents
      /\ v \in Event /\ v.id = built + 1 /\ v.session = s /\ v.by = e
    BY <1>1, StreamAssumption DEF StreamTyped, Event
<1>3. /\ \A u \in Event : u.id \in Int
      /\ \A c \in Conns : \A i \in DOMAIN sent[c] : sent[c][i] \in Event
  <2>1. \A u \in Event : u.id \in Int
    BY StreamAssumption DEF Event
  <2>2. \A c \in Conns : \A i \in DOMAIN sent[c] : sent[c][i] \in Event
    BY DEF StreamTyped
  <2> QED BY <2>1, <2>2
<1> HIDE DEF v
<1>4. SubscriptionsExact'
    BY <1>1 DEF SubscriptionsExact
<1>5. CASE UNCHANGED <<stored, em, owed>>
  <2>1. StreamTyped' /\ LockInv' /\ OwedInv' /\ StreamFaithful'
    BY <1>1, <1>2, <1>5 DEF StreamTyped, LockInv, OwedInv, StreamFaithful, Carries, StoredEvents
  <2>2. EmitterInv'
    BY <1>1, <1>2, <1>3, <1>5 DEF EmitterInv, StoredEvents
  <2>3. SentInv'
    BY <1>1, <1>2, <1>3, <1>5 DEF SentInv, Carries
  <2> QED BY <1>4, <2>1, <2>2, <2>3
<1>6. CASE /\ stored' = Append(stored, v) /\ Owe(v)
           /\ em' = [em EXCEPT ![e].at = "rlock", ![e].event = v]
  <2>1. /\ em[e] \in Emitter /\ em[e].todo = {}
        /\ \A c : ~ Carries(e, c)
    BY <1>1 DEF StreamTyped, EmitterInv, Writing, Emitter, Carries
  <2>2. \A f \in Emitters \ {e} : em'[f] = em[f]
    BY <1>6 DEF StreamTyped
  <2>3. em'[e] = [em[e] EXCEPT !.at = "rlock", !.event = v]
    BY <1>6 DEF StreamTyped
  <2>4. /\ em'[e] \in Emitter /\ em'[e].at = "rlock" /\ em'[e].event = v
        /\ em'[e].todo = {}
    BY <1>2, <2>1, <2>3 DEF Emitter
  <2>5. /\ stored' \in Seq(Event)
        /\ StoredEvents \subseteq StoredEvents' /\ v \in StoredEvents'
    <3>1. /\ stored \in Seq(Event)
          /\ DOMAIN stored = 1 .. Len(stored) /\ Len(stored) \in Nat
          /\ DOMAIN stored' = 1 .. Len(stored) + 1 /\ stored' \in Seq(Event)
          /\ \A i \in 1 .. Len(stored) : stored'[i] = stored[i]
          /\ stored'[Len(stored) + 1] = v
        BY <1>2, <1>6 DEF StreamTyped
    <3> QED BY <3>1 DEF StoredEvents
  <2>6. \A c \in Conns : owed'[c] = IF Listening(c, v) THEN owed[c] \cup {v} ELSE owed[c]
    BY <1>6 DEF Owe
  <2>7. StreamTyped'
    <3>1. em' \in [Emitters -> Emitter]
        BY <1>6, <2>2, <2>4 DEF StreamTyped
    <3>2. owed' \in [Conns -> SUBSET Event]
        BY <1>2, <1>6 DEF Owe, StreamTyped
    <3> QED BY <1>1, <1>2, <2>5, <3>1, <3>2 DEF StreamTyped
  <2>8. LockInv'
    BY <1>1, <2>2, <2>4 DEF LockInv
  <2>9. EmitterInv'
    BY <1>1, <1>2, <1>3, <2>2, <2>4, <2>5 DEF EmitterInv
  <2>10. \A f \in Emitters, c \in Conns :
             /\ f # e => Carries(f, c)' = Carries(f, c) /\ em'[f].event = em[f].event
             /\ Carries(e, c)'
    BY <2>2, <2>4 DEF Carries
  <2>11. OwedInv'
    <3> SUFFICES ASSUME NEW c \in Conns
                 PROVE  /\ at'[c] \in {"none", "subscribe"} \/ gone'[c] \/ damaged'[c] => owed'[c] = {}
                        /\ \A u \in owed'[c] : /\ u.session = session'[c]
                                               /\ c \in Active' => \E f \in Emitters :
                                                      em'[f].event = u /\ Carries(f, c)'
        BY DEF OwedInv
    <3>1. at[c] \in {"none", "subscribe"} \/ gone[c] \/ damaged[c]
              => ~ Listening(c, v) /\ owed[c] = {}
        BY DEF Listening, Active, OwedInv
    <3>2. Listening(c, v) => v.session = session[c]
        BY DEF Listening
    <3>3. \A u \in owed[c] : c \in Active => \E f \in Emitters :
              em'[f].event = u /\ Carries(f, c)'
        BY <2>1, <2>10 DEF OwedInv
    <3>4. \E f \in Emitters : em'[f].event = v /\ Carries(f, c)'
        BY <2>4, <2>10
    <3>5. \A u \in owed'[c] : u \in owed[c] \/ (u = v /\ Listening(c, v))
        BY <2>6
    <3>6. \A u \in owed[c] : u.session = session[c]
        BY DEF OwedInv
    <3>7. \A u \in owed'[c] : /\ u.session = session'[c]
                              /\ c \in Active' => \E f \in Emitters :
                                    em'[f].event = u /\ Carries(f, c)'
        BY <1>1, <3>2, <3>3, <3>4, <3>5, <3>6
    <3>8. at'[c] \in {"none", "subscribe"} \/ gone'[c] \/ damaged'[c] => owed'[c] = {}
        BY <1>1, <2>6, <3>1
    <3> QED BY <3>7, <3>8
  <2>12. SentInv'
    BY <1>1, <1>2, <1>3, <2>4, <2>10 DEF SentInv
  <2>13. StreamFaithful'
    BY <1>1, <2>5 DEF StreamFaithful
  <2> QED BY <1>4, <2>7, <2>8, <2>9, <2>11, <2>12, <2>13
<1> QED BY <1>5, <1>6 DEF Store, v

-----------------------------------------------------------------------------
LEMMA StreamInvariant == Spec => []StreamInv
<1>1. Init => StreamInv
    BY StreamInit
<1>2. StreamInv /\ [Next]_bvars => StreamInv'
  <2> SUFFICES ASSUME StreamInv, [Next]_bvars PROVE StreamInv'
    OBVIOUS
  <2>1. CASE UNCHANGED bvars
    <3>1. StreamTyped' /\ LockInv' /\ Active' = Active
        BY <2>1 DEF bvars, conn, wire, StreamInv, StreamTyped, LockInv, Active
    <3> QED BY <2>1, <3>1, WireKept, HandlerFrame DEF bvars, conn
  <2>2. CASE \E e \in Emitters : EmitterStep(e) \/ \E s \in SessionIDs : Store(e, s)
    BY <2>2, RLockKeeps, StartWriteKeeps, WriteKeeps, RUnlockKeeps, StoreKeeps DEF EmitterStep
  <2>3. CASE \E c \in Conns : \/ HandlerStep(c) \/ Connect(c)
                              \/ ClientStalls(c) \/ ClientLeaves(c)
    BY <2>3, HandlerKeeps, SubscribeKeeps, UnsubscribeKeeps DEF HandlerStep
  <2> QED BY <2>1, <2>2, <2>3 DEF Next
<1> QED BY <1>1, <1>2, PTL DEF Spec

(* The state of the broadcaster keeps its types for any number of emitters *)
(* and connections; in particular an emitter that ranges over the          *)
(* connections of a session sees subscribed ones only (Broadcast).         *)
THEOREM StreamTypeCorrect == Spec => []StreamTypeOK
<1>1. StreamInv => StreamTypeOK
    BY DEF StreamInv, StreamTyped, LockInv, EmitterInv, StreamTypeOK, Emitter
<1> QED BY <1>1, StreamInvariant, PTL

(* The connections map is exactly the set of handlers between subscribe    *)
(* and unsubscribe, whatever broadcasts, arrivals and departures overlap.  *)
THEOREM SubscriptionsAreExact == Spec => []SubscriptionsExact
<1>1. StreamInv => SubscriptionsExact
    BY DEF StreamInv
<1> QED BY <1>1, StreamInvariant, PTL

(* No broadcast writes to a connection that its handler has closed: the    *)
(* order of the two defers and the lock rule it out.                       *)
THEOREM ClosedMeansQuiet == Spec => []NoWriteAfterClose
<1>1. StreamInv => NoWriteAfterClose
  <2> SUFFICES ASSUME StreamInv, NEW c \in Conns, at[c] \in {"none", "close", "done"}
               PROVE  Writers(c) = {}
    BY DEF NoWriteAfterClose
  <2>1. c \notin Active /\ at[c] # "writing"
    BY DEF Active
  <2>2. \A e \in Emitters : em[e].at = "write" => em[e].conn # c
    BY <2>1 DEF StreamInv, EmitterInv
  <2> QED BY <2>1, <2>2 DEF Writers
<1> QED BY <1>1, StreamInvariant, PTL

(* What is written to any connection, also to one that has had two writers *)
(* at once, are stored events of its session, none twice, those of one     *)
(* tool call in the order the call emitted them (Store of the broadcasting *)
(* store, then Broadcast).                                                 *)
THEOREM StreamIsFaithful == Spec => []StreamFaithful
<1>1. StreamInv => StreamFaithful
    BY DEF StreamInv
<1> QED BY <1>1, StreamInvariant, PTL

(* No gap: every event stored for a session after a client has subscribed  *)
(* to it reaches the client or is still with an emitter that will write    *)
(* it, unless the client left or its connection had two writers at once.   *)
THEOREM NoGapInStream == Spec => []NoEventMissed
<1>1. StreamInv => NoEventMissed
  <2> SUFFICES ASSUME StreamInv, NEW c \in Active, NEW v \in owed[c]
               PROVE  \E e \in Emitters :
                          em[e].event = v /\ (em[e].at \in {"rlock", "waiting"} \/ c \in em[e].todo)
    BY DEF NoEventMissed
  <2>1. c \in Conns
    BY DEF Active
  <2> QED BY <2>1 DEF StreamInv, OwedInv, Carries
<1> QED BY <1>1, StreamInvariant, PTL
=============================================================================
