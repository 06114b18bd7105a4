---------------------------- MODULE MCOAuthFlow ----------------------------
(* Instances of OAuthFlow for TLC. *)
EXTENDS OAuthFlow, TLC

URI(host, port, path) ==
  [parses |-> TRUE, scheme |-> "http", host |-> host, port |-> port, path |-> path,
   query |-> FALSE, fragment |-> FALSE]

\* One client-side listener: enough when the run is not about URIs.
OneURI == {URI("127.0.0.1", 3000, "/callback")}

\* A listener, the same on another port and with a query, the same with a
\* fragment, another path, an external host, and what is no URI.
MixedURIs ==
  {URI("127.0.0.1", 3000, "/callback"),
   [URI("127.0.0.1", 9999, "/callback") EXCEPT !.query = TRUE],
   [URI("127.0.0.1", 3000, "/callback") EXCEPT !.fragment = TRUE],
   URI("localhost", 3000, "/other"), URI("example.com", 3000, "/callback"),
   [parses |-> FALSE]}

Loopbacks == {"127.0.0.1", "localhost"}

FlowSymmetry ==
  Permutations(ClientIds) \cup Permutations(PendingKeys) \cup Permutations(Codes)
    \cup Permutations(SessionIds) \cup Permutations(Verifiers) \cup Permutations(Handlers)
=============================================================================
