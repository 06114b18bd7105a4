----------------------------- MODULE AuthServer -----------------------------
(***************************************************************************)
(* The authentication of the server as a whole: the login flow and the     *)
(* requests to /mcp over one session store, in one process, with one       *)
(* cleanup goroutine and one clock, as cmd/server/main.go puts them        *)
(* together.  A login that ends makes the session that the middleware then *)
(* keeps; /token hands its id out.                                         *)
(*                                                                         *)
(* `bearers` is what is in Store.sessions.  The login flow only ever adds  *)
(* to that map and never reads it, so the `sessions` of OAuthFlow are the  *)
(* same map without what the middleware does to it.                        *)
(***************************************************************************)
EXTENDS OAuthFlow, Sequences

CONSTANTS
  Requests,      \* goroutines that serve /mcp
  TokenLife, RefreshBuffer, ReplyDelay, RequestSpan, MaxLosses   \* as in Middleware

ASSUME DelayAssumption ==
  /\ TokenLife \in Nat /\ RefreshBuffer \in Nat
  /\ ReplyDelay \in Nat /\ RequestSpan \in Nat /\ MaxLosses \in Nat
  /\ RefreshBuffer < TokenLife
  /\ ReplyDelay + RequestSpan <= RefreshBuffer

VARIABLES
  bearers,   \* the keys of Store.sessions
  session,   \* session id -> the Session its pointer refers to
  flight,    \* refreshGroup
  serving,   \* the requests to /mcp being served
  issued,    \* Google: the access tokens of a session
  rotation,  \* Google: its current refresh token
  lost       \* the issues whose answers never reached the server

mcpVars == <<bearers, session, flight, serving, issued, rotation, lost>>
serverVars == <<vars, mcpVars>>

Created == [s \in DOMAIN logins |-> logins[s].createdAt]

\* The one cleanup goroutine, while it is about sessions.
SessionSweep ==
  IF sweep.at = "sessions" THEN sweep ELSE [at |-> "idle", now |-> 0]

Web == INSTANCE Middleware WITH
  store <- bearers, request <- serving, sweep <- SessionSweep, created <- Created

ServerTypeOK ==
  /\ TypeOK
  /\ bearers \subseteq DOMAIN session
  /\ IsMap(session, SessionIds, Web!Session)
  /\ IsMap(flight, SessionIds, Requests)
  /\ IsMap(serving, Requests, Web!Request)
  /\ DOMAIN session \subseteq DOMAIN issued
  /\ IsMap(issued, SessionIds, Seq(Nat))
  /\ IsMap(rotation, SessionIds, Nat)
  /\ IsMap(lost, SessionIds, SUBSET Nat)

ServerInit ==
  /\ Init
  /\ bearers = {}
  /\ session = EmptyMap /\ flight = EmptyMap /\ serving = EmptyMap
  /\ issued = EmptyMap /\ rotation = EmptyMap /\ lost = EmptyMap

\* The handlers of the login flow, but for the end of /callback, and the
\* cleanup of what only they use.
LoginFlow ==
  /\ \/ \E c \in ClientIds, uris \in SUBSET URIs, method \in AuthMethods :
          HandleRegister(c, uris, method)
     \/ \E k \in PendingKeys, c \in ClientIds, uri \in URIs, challenge \in Challenges,
           state \in States :
          HandleAuthorize(k, c, uri, challenge, state)
     \/ \E h \in Handlers, k \in PendingKeys : HandleCallback(h, k)
     \/ \E h \in Handlers : ExchangeFails(h)
     \/ \E h \in Handlers, code \in Codes : RedirectWithCode(h, code)
     \/ \E c \in ClientIds, secret \in ClientIds \cup {""}, code \in Codes, v \in Verifiers :
          HandleToken(c, secret, code, v)
     \/ SweepPending \/ SweepCodes
  /\ UNCHANGED mcpVars

\* handleCallback, once Google has answered: the session is made for both.
Login(h, s, issue, arrival) ==
  /\ ExchangeSucceeds(h, s)
  /\ Web!CreateSession(s, issue, arrival)

\* The middleware looks up whatever bearer token a request to /mcp carries.
HandleMcp(r, s) ==
  /\ UNCHANGED vars
  /\ Web!GetSession(r, s)

ServeMcp(r) ==
  /\ UNCHANGED vars
  /\ Web!Serve(r) \/ Web!Reply(r)

CleanSessions ==
  \/ SweepTick /\ Web!SweepTick
  \/ SweepSessions /\ Web!SweepSessions

RestartServer == Restart /\ Web!Restart

ServerTick == Tick /\ Web!Tick

\* What clients know: session ids are 32 random bytes, so that a request that
\* carries one has it from an answer of /token.  Nothing in the server checks this.
Granted == {g.session : g \in grants}

ServerNext ==
  \/ LoginFlow
  \/ \E h \in Handlers, s \in SessionIds, issue, arrival \in 0..now : Login(h, s, issue, arrival)
  \/ \E r \in Requests, s \in Granted : HandleMcp(r, s)
  \/ \E r \in Requests : ServeMcp(r)
  \/ CleanSessions
  \/ RestartServer
  \/ ServerTick

ServerSpec == ServerInit /\ [][ServerNext]_serverVars

-----------------------------------------------------------------------------
(* Properties *)

\* What the parts rely on in each other: whatever the login flow takes for a
\* session is one that the middleware knows, and keeps in the store until it
\* expires, with the login's time, although only the middleware puts sessions
\* back and removes those it finds expired.
PartsAgree ==
  /\ Web!SessionsAreKept
  /\ \A s \in DOMAIN logins : logins[s].createdAt <= now
  /\ DOMAIN sessions \subseteq DOMAIN session

ServerInv == ServerTypeOK /\ PartsAgree

\* From the first request to the last, a client is served exactly on the grant
\* that its own login earned it, from /token's answer until the session's end:
\* every handler, the cleanup and restarts together keep the promise.
Key(s) == logins[s].key

Asked == [k \in DOMAIN requests |->
            [client |-> requests[k].client, proof |-> requests[k].challenge]]

Granting(g) == [key |-> Key(g.session), client |-> g.client, proof |-> S256(g.verifier),
                login |-> logins[g.session].createdAt]

Honoured(s) == s \in bearers /\ ~Web!OlderThan(s, now)

Valid == {Key(g.session) : g \in {g \in grants : Honoured(g.session)}}

Admitted == [r \in DOMAIN serving |-> Key(serving[r].session)]

Promise == INSTANCE Delegation WITH
  Keys <- PendingKeys, Clients <- ClientIds, Proofs <- Challenges, Callers <- Requests,
  TTL <- SessionTTL, Claim <- CodeTTL,
  asked <- Asked, granted <- {Granting(g) : g \in grants},
  valid <- Valid, admitted <- Admitted

ClientsAreServedOnTheirGrants == Promise!DelegationSpec
=============================================================================
