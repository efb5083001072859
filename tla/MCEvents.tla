----------------------------- MODULE MCEvents -----------------------------
(* Small instances of MemoryEventStore for TLC. *)
EXTENDS MemoryEventStore

All == [types |-> {}, tools |-> {}, start |-> 0, end |-> 0]
CreatedOnly == [All EXCEPT !.types = {"token_created"}]

TwoTypes == {"token_created", "token_consumed"}
OneFilter == {CreatedOnly}
=============================================================================
