---------------------------- MODULE MCAuthServer ----------------------------
(* Instances of AuthServer for TLC. *)
EXTENDS AuthServer, TLC

\* One listener: the run is not about URIs.
OneURI ==
  {[parses |-> TRUE, scheme |-> "http", host |-> "127.0.0.1", port |-> 3000,
    path |-> "/callback", query |-> FALSE, fragment |-> FALSE]}

Loopbacks == {"127.0.0.1"}

ServerSymmetry ==
  Permutations(ClientIds) \cup Permutations(Requests) \cup Permutations(PendingKeys)
    \cup Permutations(Codes) \cup Permutations(SessionIds)
=============================================================================
