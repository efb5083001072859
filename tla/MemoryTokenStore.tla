-------------------------- MODULE MemoryTokenStore --------------------------
(***************************************************************************)
(* The in-memory token store (pkg/ratchet/adapters/memory_token_store.go): *)
(* per session and tool the slice of issued tokens, oldest first.  Each    *)
(* operation holds the store's RWMutex for its whole body, so each is one  *)
(* atomic step here.  The wall clock is the variable now.                  *)
(***************************************************************************)
EXTENDS RatchetDomain, SequencesExt

VARIABLES
    tokens,     \* [session -> [tool -> sequence of [value, expires]]]
    now         \* the clock, in ticks

Entry == [value : Nat, expires : Nat]

(* A session or tool absent from the code's nested map is an empty slice:  *)
(* no operation tells the two apart.                                       *)
TokenStoreInit ==
    /\ tokens = [s \in Sessions |-> [t \in Tools |-> <<>>]]
    /\ now = 0

(* Store: append, whatever is already there; expired entries stay. *)
Store(s, t, v, expires) ==
    tokens' = [tokens EXCEPT ![s][t] = Append(@, [value |-> v, expires |-> expires])]

(* GetValidTokens: the positions of the unexpired entries, in slice order. *)
ValidTokens(s, t) == {i \in DOMAIN tokens[s][t] : now < tokens[s][t][i].expires}

(* The last element of what GetValidTokens returns, when there is one. *)
LastValidToken(s, t) ==
    tokens[s][t][CHOOSE i \in ValidTokens(s, t) :
                        \A j \in ValidTokens(s, t) : j <= i].value

(* RemoveToken: the first entry that holds v is cut out of the slice. *)
Holds(s, t, v) == \E i \in DOMAIN tokens[s][t] : tokens[s][t][i].value = v
RemoveToken(s, t, v) ==
    tokens' = [tokens EXCEPT ![s][t] =
                 RemoveAt(@, CHOOSE i \in DOMAIN @ :
                               /\ @[i].value = v
                               /\ \A j \in DOMAIN @ : @[j].value = v => i <= j)]
=============================================================================
