--------------------------- MODULE RatchetDomain ---------------------------
(***************************************************************************)
(* The domain of the ratchet: tool names, tokens, rules and the two ways   *)
(* the service looks a rule up.  From pkg/ratchet/domain and the lookup    *)
(* helpers of pkg/ratchet/services/ratchet_service.go.                     *)
(***************************************************************************)
EXTENDS Naturals, Sequences, FiniteSetsExt

CONSTANTS
    Tools,          \* the non-empty tool names of the server
    Sessions,       \* session identifiers
    NoTool,         \* the empty tool name: "no prerequisite"
    DefaultExpiry   \* the 5-minute default, in ticks of the model's clock

ASSUME ToolsAssumption == Tools # {} /\ NoTool \notin Tools
ASSUME SessionsAssumption == Sessions # {}
ASSUME ExpiryAssumption == DefaultExpiry \in Nat \ {0}

(* A tool dependency.  Durations are in ticks; a duration that is zero or  *)
(* negative in the source is 0 here, since the code only tests Expiry > 0. *)
(* The error message only chooses the wording of an error: left out.       *)
Rule == [tool : Tools \cup {NoTool}, prereq : Tools \cup {NoTool},
         expiry : Nat, oneTime : BOOLEAN]

(* Rule.Validate *)
ValidRule(r) == r.tool # NoTool /\ r.tool # r.prereq

(* findRules: the rules of tool t, as the set of their positions.  The     *)
(* code keeps them in registration order, which is the order of positions. *)
findRules(rs, t) == {i \in DOMAIN rs : rs[i].tool = t}

(* findRule: the first rule of t, 0 for the code's nil. *)
findRule(rs, t) ==
    IF findRules(rs, t) = {} THEN 0
    ELSE CHOOSE i \in findRules(rs, t) : \A j \in findRules(rs, t) : i <= j

(* The rule that the loop of ValidateToolCall turns to after rule i. *)
RulesAfter(rs, t, i) == {j \in findRules(rs, t) : j > i}
(* mutant: the loop does not advance *)
StuckNextRule(rs, t, i) == i
NextRule(rs, t, i) ==
    CHOOSE j \in RulesAfter(rs, t, i) : \A k \in RulesAfter(rs, t, i) : j <= k

(* A tool is gated when it has rules and none of them is a free pass. *)
Gated(rs, t) ==
    /\ findRules(rs, t) # {}
    /\ \A i \in findRules(rs, t) : rs[i].prereq # NoTool

(* The prerequisites that open tool t: any one of them does (OR logic). *)
Prerequisites(rs, t) == {rs[i].prereq : i \in findRules(rs, t)}

(* The lifetime IssueToken gives a token of tool t. *)
TokenExpiry(rs, t) ==
    IF findRule(rs, t) # 0 /\ rs[findRule(rs, t)].expiry > 0
    THEN rs[findRule(rs, t)].expiry
    ELSE DefaultExpiry
=============================================================================
