----------------------------- MODULE MCStream -----------------------------
(* Small instances of EventBroadcaster for TLC. *)
EXTENDS EventBroadcaster

CONSTANTS demo, other

SameSession == {[c \in Conns |-> demo]}
=============================================================================
