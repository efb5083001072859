----------------------------- MODULE MCRatchet -----------------------------
(***************************************************************************)
(* Small instances of RatchetCalls for TLC: tools, rule sets, symmetry.    *)
(***************************************************************************)
EXTENDS RatchetProperties, TLC

CONSTANTS list, edit, drop      \* tools

MCRule(t, u, e, o) == [tool |-> t, prereq |-> u, expiry |-> e, oneTime |-> o]

(* edit needs a fresh list *)
OneTime == <<MCRule(list, NoTool, 1, FALSE), MCRule(edit, list, 0, TRUE)>>
(* edit needs a list, which may be used again *)
Reusable == <<MCRule(edit, list, 1, FALSE)>>
(* a chain: drop needs an edit that needs a list *)
Chain == <<MCRule(edit, list, 1, TRUE), MCRule(drop, edit, 1, TRUE)>>
(* drop is opened by a list or by an edit, both one-time *)
Either == <<MCRule(drop, list, 2, TRUE), MCRule(drop, edit, 2, TRUE)>>
(* drop needs a list, but also has a free pass *)
FreePass == <<MCRule(drop, list, 1, TRUE), MCRule(drop, NoTool, 1, FALSE)>>
(* two tools compete for the one-time tokens of list *)
Shared == <<MCRule(edit, list, 1, TRUE), MCRule(drop, list, 1, TRUE)>>

TwoToolConfigs == {OneTime, Reusable}
SingleRuleConfigs == {OneTime, Reusable, Chain, Shared}
AllConfigs == SingleRuleConfigs \cup {Either, FreePass}
EitherOnly == {Either}
ReusableOnly == {Reusable}

(* Calls overlap only after the first three, which are successful calls of *)
(* list in one session: they make its history long enough to have spare    *)
(* capacity, which later appends share.                                    *)
InFlight == {p \in Calls : pc[p] # "idle"}
SequentialPrefix ==
    begun <= 3 => /\ Cardinality(InFlight) <= 1
                  /\ \A p \in InFlight : S(p) # EmptySession /\ T(p) = list
                  /\ deletes = 0

CallSymmetry == Permutations(Calls)
=============================================================================
