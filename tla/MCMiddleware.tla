---------------------------- MODULE MCMiddleware ----------------------------
(* Instances of Middleware for TLC. *)
EXTENDS Middleware, TLC

RequestSymmetry == Permutations(Requests)
=============================================================================
