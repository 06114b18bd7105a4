----------------------------- MODULE MCToolCall -----------------------------
(* Instances of ToolCall for TLC. *)
EXTENDS ToolCall, TLC

CallSymmetry == Permutations(Requests) \cup Permutations(Locations)
=============================================================================
