------------------------- MODULE MemorySessionStore -------------------------
(***************************************************************************)
(* The in-memory session store (pkg/ratchet/adapters/memory_session_store  *)
(* .go) and the Session it keeps (pkg/ratchet/domain/session.go).          *)
(*                                                                         *)
(* Get returns a shallow copy, so what a session holds is modelled the way *)
(* Go lays it out: the Tokens map is a reference into the heap mapHeap,    *)
(* shared by every copy, and ToolHistory is a slice header - a reference   *)
(* to a backing array of arrayHeap and a length - which is copied, while   *)
(* the backing array behind it is shared.                                  *)
(***************************************************************************)
EXTENDS RatchetDomain

CONSTANT Torn   \* a tool name torn by two unsynchronised writes

ASSUME TornAssumption == Torn \notin Tools \cup {NoTool}

VARIABLES
    sessions,   \* [session -> header, or NoSession when absent]
    mapHeap,    \* sequence of Tokens maps, [tool -> sequence of token values]
    arrayHeap   \* sequence of [ses, slots]: a backing array of length = its
                \* capacity; ses only records for whose history it was made

Header == [toks : Nat, arr : Nat, len : Nat]
NoSession == [toks |-> 0, arr |-> 0, len |-> 0]

SessionStoreInit ==
    /\ sessions = [s \in Sessions |-> NoSession]
    /\ mapHeap = <<>>
    /\ arrayHeap = <<>>

Exists(s) == sessions[s] # NoSession

(* NewSession and Create of an absent session: an empty map and a slice of *)
(* length and capacity 0.  The caller keeps the pointer that is stored.    *)
NewHeader == [toks |-> Len(mapHeap) + 1, arr |-> Len(arrayHeap) + 1, len |-> 0]
Create(s) ==
    /\ sessions' = [sessions EXCEPT ![s] = NewHeader]
    /\ mapHeap' = Append(mapHeap, [t \in Tools |-> <<>>])
    /\ arrayHeap' = Append(arrayHeap, [ses |-> s, slots |-> <<>>])

(* Update overwrites, and does not ask whether the session still exists. *)
Update(s, h) ==
    /\ sessions' = [sessions EXCEPT ![s] = h]
    /\ UNCHANGED <<mapHeap, arrayHeap>>

(* Delete of a session that exists. *)
Delete(s) ==
    /\ Exists(s)
    /\ sessions' = [sessions EXCEPT ![s] = NoSession]
    /\ UNCHANGED <<mapHeap, arrayHeap>>

---------------------------------------------------------------------------
(* The methods of Session, on the copy whose header is h. *)

(* ToolHistory as the holder of h reads it: slices.Contains. *)
HasToolBeenCalled(h, t) == \E k \in 1 .. h.len : arrayHeap[h.arr].slots[k] = t

(* Go's append: in place while the capacity lasts, else into a new array   *)
(* of twice the capacity (1 from 0).                                       *)
Capacity(h) == Len(arrayHeap[h.arr].slots)
InPlace(h) == h.len < Capacity(h)
Grown(h, t) ==
    [k \in 1 .. (IF Capacity(h) = 0 THEN 1 ELSE 2 * Capacity(h)) |->
        IF k <= h.len THEN arrayHeap[h.arr].slots[k]
        ELSE IF k = h.len + 1 THEN t ELSE NoTool]

(* RecordToolCall: the heap and the header after the append. *)
RecordHeap(s, h, t) ==
    IF InPlace(h)
    THEN [arrayHeap EXCEPT ![h.arr].slots[h.len + 1] = t]
    ELSE Append(arrayHeap, [ses |-> s, slots |-> Grown(h, t)])
RecordHeader(h) ==
    IF InPlace(h)
    THEN [h EXCEPT !.len = @ + 1]
    ELSE [h EXCEPT !.arr = Len(arrayHeap) + 1, !.len = @ + 1]

(* The Tokens map of a copy, as everyone who shares it sees it. *)
TokensOf(h, t) == mapHeap[h.toks][t]
AddToken(h, t, v) == [mapHeap EXCEPT ![h.toks][t] = Append(@, v)]
(* mutant: the oldest token is cut off *)
DropFirstToken(h, t) == [mapHeap EXCEPT ![h.toks][t] = Tail(@)]
DropLastToken(h, t) ==
    [mapHeap EXCEPT ![h.toks][t] = SubSeq(@, 1, Len(@) - 1)]
=============================================================================
