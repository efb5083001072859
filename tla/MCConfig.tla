----------------------------- MODULE MCConfig -----------------------------
(* Small instances of ConfigLoader for TLC. *)
EXTENDS ConfigLoader

CONSTANTS list, edit, drop, FileRules

Plain(t, u) == [tool |-> t, prereq |-> u, expiry |-> Unset, oneTime |-> FALSE]

(* Every dependency between two tools, one tool without a prerequisite,    *)
(* and one entry for each way to be rejected.                              *)
Dependencies == {Plain(t, u) : t \in Tools, u \in Tools} \ {Plain(t, t) : t \in Tools}
GoodEntries == Dependencies \cup {Plain(list, NoTool)}
BadEntries == {Plain(NoTool, list), Plain(edit, edit),
               [Plain(edit, list) EXCEPT !.expiry = Malformed]}

(* A file has up to FileRules different good entries, or a bad one last. *)
GoodFiles == {f \in UNION {[1..n -> GoodEntries] : n \in 0..FileRules} :
                 \A i, j \in DOMAIN f : i # j => f[i] # f[j]}
AllFiles == GoodFiles \cup {<<Plain(edit, list), b>> : b \in BadEntries}
=============================================================================
