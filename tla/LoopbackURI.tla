----------------------------- MODULE LoopbackURI -----------------------------
(***************************************************************************)
(* The redirect-URI rules of internal/auth/oauth.go.  A URI is abstracted  *)
(* to what url.Parse yields and the code compares: does it parse, and its  *)
(* scheme, host (Hostname(), without the port), port, path, and whether it *)
(* has a query and a fragment.                                             *)
(***************************************************************************)
CONSTANTS
  URIs,           \* the URIs that may occur in requests
  LoopbackHosts   \* "localhost" and the hosts whose IP IsLoopback()

ASSUME URIsAssumption ==
  \A u \in URIs :
    u.parses \in BOOLEAN /\ (u.parses => u.query \in BOOLEAN /\ u.fragment \in BOOLEAN)

\* isLoopbackURI: a URI that does not parse, or whose host is neither
\* "localhost" nor a loopback IP, is not one.
IsLoopbackURI(u) == u.parses /\ u.host \in LoopbackHosts

\* One registered URI: scheme, host and path agree; the port is free
\* (RFC 8252, section 7.3), and so are the query and the fragment.
SameButHost(req, reg) ==       \* a faulty variant
  req.scheme = reg.scheme /\ req.path = reg.path

SameButPort(req, reg) ==
  req.scheme = reg.scheme /\ req.host = reg.host /\ req.path = reg.path

\* matchesRegisteredURI: registered URIs that do not parse are skipped.
MatchesRegisteredURI(req, registered) ==
  req.parses /\ \E reg \in registered : reg.parses /\ SameButPort(req, reg)
=============================================================================
