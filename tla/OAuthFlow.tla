------------------------------ MODULE OAuthFlow ------------------------------
(***************************************************************************)
(* The login flow of k8scope: the handlers of internal/auth/oauth.go over  *)
(* the in-memory store of internal/auth/session.go, with its cleanup       *)
(* goroutine.                                                              *)
(*                                                                         *)
(*   /register  ->  /authorize  ->  Google  ->  /callback  ->  /token      *)
(*                                                                         *)
(* /register, /authorize and /token read and write the store in one        *)
(* critical section that decides their outcome, so each is one action      *)
(* (GetClient, the only other access, reads an entry that never changes).  *)
(* /callback blocks on Google between two critical sections and then makes *)
(* two writes under two different mutexes, so it is three actions.  A      *)
(* request refused before it has touched the store changes nothing and has *)
(* no action.                                                              *)
(***************************************************************************)
EXTENDS Integers, GoMap, LoopbackURI

CONSTANTS
  ClientIds, PendingKeys, Codes, SessionIds,  \* what randomHex may return
  Verifiers,      \* PKCE code verifiers the clients choose
  AuthMethods,    \* token_endpoint_auth_method values clients ask for
  States,         \* state parameters the clients send
  PlainStates,    \* those of them without characters that mean something in a query
  Handlers,       \* goroutines that serve /callback
  PendingTTL,     \* 5 minutes (GetPending)
  CodeTTL,        \* 5 minutes (GetAuthCode)
  SessionTTL,     \* 24 hours (sessionTTL)
  MaxTime         \* bound on the clock

ASSUME TTLAssumption ==
  /\ PendingTTL \in Nat /\ CodeTTL \in Nat /\ SessionTTL \in Nat
  /\ CodeTTL <= SessionTTL

ASSUME BoundAssumption == MaxTime \in Nat

ASSUME AuthMethodAssumption == AuthMethods \subseteq {"none", "client_secret_post"}

VARIABLES
  now,          \* time.Now()
  clients,      \* Store.clients
  pending,      \* Store.pending
  codes,        \* Store.codes
  sessions,     \* Store.sessions (only what the login flow writes)
  exchanging,   \* /callback goroutines blocked in config.Exchange
  storing,      \* /callback goroutines between CreateSession and StoreAuthCode
  sweep,        \* the cleanup goroutine: where it is and the time it captured
  \* What left the server, kept across restarts: none of it is server state.
  registered,   \* client ids ever handed out by /register
  requests,     \* pending key -> the authorization request it was issued for
  accepted,     \* pending keys a callback has exchanged for their request
  logins,       \* session id -> the pending key and time it was created for
  redirects,    \* code -> the redirect that carried it to the client
  grants        \* bearer tokens returned by /token, with the expiry that was announced

store == <<clients, pending, codes, sessions>>
history == <<registered, requests, accepted, logins, redirects, grants>>
vars == <<now, store, exchanging, storing, sweep, history>>

-----------------------------------------------------------------------------
(* Data *)

\* BASE64URL(SHA256(verifier)), taken as injective.
S256(v) == [s256 |-> v]
Challenges == {S256(v) : v \in Verifiers}

Client == [uris : SUBSET URIs, method : AuthMethods, secret : ClientIds \cup {""}]

PendingAuth == [client : ClientIds, challenge : Challenges, uri : URIs, state : States,
                createdAt : Nat]

AuthCode == [client : ClientIds, session : SessionIds, challenge : Challenges,
             createdAt : Nat]

\* `key` is the pending key of the callback that created the session.
Session == [key : PendingKeys, createdAt : Nat]

Exchanging == [key : PendingKeys, pending : PendingAuth]
Storing == [key : PendingKeys, pending : PendingAuth, session : SessionIds]
SweepPoint == [at : {"idle", "sessions", "pending", "codes"}, now : Nat]

Redirect == [uri : URIs, state : States, session : SessionIds, at : Nat]
Grant == [client : ClientIds, code : Codes, session : SessionIds,
          verifier : Verifiers, expires : Nat]

TypeOK ==
  /\ now \in Nat
  /\ IsMap(clients, ClientIds, Client)
  /\ IsMap(pending, PendingKeys, PendingAuth)
  /\ IsMap(codes, Codes, AuthCode)
  /\ IsMap(sessions, SessionIds, Session)
  /\ IsMap(exchanging, Handlers, Exchanging)
  /\ IsMap(storing, Handlers, Storing)
  /\ sweep \in SweepPoint
  /\ registered \subseteq ClientIds
  /\ IsMap(requests, PendingKeys, PendingAuth)
  /\ accepted \subseteq PendingKeys
  /\ IsMap(logins, SessionIds, Session)
  /\ IsMap(redirects, Codes, Redirect)
  /\ grants \subseteq Grant

\* t - createdAt > ttl: the test of GetPending, GetAuthCode and the cleanup.
OlderThan(e, ttl, t) == t - e.createdAt > ttl
Expired(m, ttl, t) == {k \in DOMAIN m : OlderThan(m[k], ttl, t)}

-----------------------------------------------------------------------------
(* NewStore: every map is empty, in a new process as in the first one. *)

SweepIdle == [at |-> "idle", now |-> 0]

Init ==
  /\ now = 0
  /\ clients = EmptyMap /\ pending = EmptyMap
  /\ codes = EmptyMap /\ sessions = EmptyMap
  /\ exchanging = EmptyMap /\ storing = EmptyMap
  /\ sweep = SweepIdle
  /\ registered = {} /\ accepted = {} /\ grants = {}
  /\ requests = EmptyMap /\ logins = EmptyMap /\ redirects = EmptyMap

-----------------------------------------------------------------------------
(* The handlers.  An operator that is named for what it leaves out (...AndKeep, *)
(* Accepted..., Skip...) is a faulty variant of the definition below it: the   *)
(* properties are tested by putting it in that definition's place.             *)

\* randomHex never returns an id, key or code twice.
RegisterClient(c, client) ==
  /\ c \notin registered
  /\ clients' = Put(clients, c, client)
  /\ registered' = registered \cup {c}

\* POST /register: every redirect URI must be loopback; a confidential client
\* gets a secret of its own.
HandleRegister(c, uris, method) ==
  /\ uris # {}
  /\ \A u \in uris : IsLoopbackURI(u)
  /\ RegisterClient(c, [uris |-> uris, method |-> method,
                        secret |-> IF method = "none" THEN "" ELSE c])
  /\ UNCHANGED <<now, pending, codes, sessions, exchanging, storing, sweep,
                 requests, accepted, logins, redirects, grants>>

\* StorePending stamps the entry, whatever CreatedAt its caller passed.
StampedNever(c, uri, challenge, state) ==
  [client |-> c, challenge |-> challenge, uri |-> uri, state |-> state, createdAt |-> -1]

StampedPending(c, uri, challenge, state) ==
  [client |-> c, challenge |-> challenge, uri |-> uri, state |-> state, createdAt |-> now]

StorePending(k, p) ==
  /\ k \notin DOMAIN requests
  /\ pending' = Put(pending, k, p)
  /\ requests' = Put(requests, k, p)

GetClient(c) == c \in DOMAIN clients

\* GET /authorize: remembers the request under a fresh key and sends the
\* browser to Google with that key, not the client's own state, as the state
\* parameter.
HandleAuthorize(k, c, uri, challenge, state) ==
  /\ GetClient(c)
  /\ MatchesRegisteredURI(uri, clients[c].uris)
  /\ StorePending(k, StampedPending(c, uri, challenge, state))
  /\ UNCHANGED <<now, clients, codes, sessions, exchanging, storing, sweep,
                 registered, accepted, logins, redirects, grants>>

\* GetPending: one-time use, deleted even if expired.
GetPendingAndKeep(k) ==
  /\ k \in DOMAIN pending
  /\ UNCHANGED pending

GetPending(k) ==
  /\ k \in DOMAIN pending
  /\ pending' = Without(pending, {k})

\* GET /callback, up to the exchange, which only an unexpired entry reaches.
HandleCallback(h, k) ==
  /\ h \notin DOMAIN exchanging \cup DOMAIN storing
  /\ GetPending(k)
  /\ IF OlderThan(pending[k], PendingTTL, now)
     THEN UNCHANGED <<exchanging, accepted>>
     ELSE /\ exchanging' = Put(exchanging, h, [key |-> k, pending |-> pending[k]])
          /\ accepted' = accepted \cup {k}
  /\ UNCHANGED <<now, clients, codes, sessions, storing, sweep,
                 registered, requests, logins, redirects, grants>>

\* Google refuses the code, or the call fails: the request is answered 500.
ExchangeFails(h) ==
  /\ h \in DOMAIN exchanging
  /\ exchanging' = Without(exchanging, {h})
  /\ UNCHANGED <<now, store, storing, sweep, history>>

CreateSession(s, sess) ==
  /\ s \notin DOMAIN logins
  /\ sessions' = Put(sessions, s, sess)
  /\ logins' = Put(logins, s, sess)

\* Google returns tokens (and fetchEmail returns, with or without an email):
\* the session is created.
ExchangeSucceeds(h, s) ==
  /\ h \in DOMAIN exchanging
  /\ LET key == exchanging[h].key
     IN /\ CreateSession(s, [key |-> key, createdAt |-> now])
        /\ storing' = Put(storing, h,
             [key |-> key, pending |-> exchanging[h].pending, session |-> s])
  /\ exchanging' = Without(exchanging, {h})
  /\ UNCHANGED <<now, clients, pending, codes, sweep,
                 registered, requests, accepted, redirects, grants>>

StoreAuthCode(code, ac) ==
  /\ code \notin DOMAIN redirects
  /\ codes' = Put(codes, code, ac)

\* What goes back as the state parameter: the client's, not the one from Google.
StateFromGoogle(h) == storing[h].key           \* a faulty variant

StateFromClient(h) == storing[h].pending.state

\* The code is stored, then sent to the client's loopback listener.
RedirectWithCode(h, code) ==
  /\ h \in DOMAIN storing
  /\ LET p == storing[h].pending
         s == storing[h].session
     IN /\ StoreAuthCode(code, [client |-> p.client, session |-> s,
                                challenge |-> p.challenge, createdAt |-> now])
        /\ redirects' = Put(redirects, code,
                           [uri |-> p.uri, state |-> StateFromClient(h), session |-> s,
                            at |-> now])
  /\ storing' = Without(storing, {h})
  /\ UNCHANGED <<now, clients, pending, sessions, exchanging, sweep,
                 registered, requests, accepted, logins, grants>>

\* GetAuthCode: one-time use, deleted even if expired.
GetAuthCodeAndKeep(code) ==
  /\ code \in DOMAIN codes
  /\ UNCHANGED codes

GetAuthCode(code) ==
  /\ code \in DOMAIN codes
  /\ codes' = Without(codes, {code})

\* What handleToken checks of the code it has just taken out of the store.
AcceptedFromAnyClient(c, code, v) ==
  /\ ~OlderThan(codes[code], CodeTTL, now)
  /\ codes[code].challenge = S256(v)

AcceptedWithoutPKCE(c, code, v) ==
  /\ ~OlderThan(codes[code], CodeTTL, now)
  /\ codes[code].client = c

AcceptedAtAnyAge(c, code, v) ==
  /\ codes[code].client = c
  /\ codes[code].challenge = S256(v)

CodeAccepted(c, code, v) ==
  /\ ~OlderThan(codes[code], CodeTTL, now)
  /\ codes[code].client = c
  /\ codes[code].challenge = S256(v)

\* The lifetime that /token announces for the bearer token, as expires_in.
ExpiresInLikeTheCode == CodeTTL   \* a faulty variant

ExpiresIn == SessionTTL

\* POST /token: the client is authenticated before the code is looked up, and
\* everything about the code is verified after it has been consumed.
HandleToken(c, secret, code, v) ==
  /\ GetClient(c)
  /\ clients[c].method # "none" => secret = clients[c].secret
  /\ GetAuthCode(code)
  /\ grants' = IF CodeAccepted(c, code, v)
               THEN grants \cup {[client |-> c, code |-> code,
                                  session |-> codes[code].session,
                                  verifier |-> v, expires |-> now + ExpiresIn]}
               ELSE grants
  /\ UNCHANGED <<now, clients, pending, sessions, exchanging, storing, sweep,
                 registered, requests, accepted, logins, redirects>>

-----------------------------------------------------------------------------
(* StartCleanup: on a tick the goroutine reads the clock once and then prunes *)
(* three maps, each under its own mutex.                                      *)

SweepTick ==
  /\ sweep.at = "idle"
  /\ sweep' = [at |-> "sessions", now |-> now]
  /\ UNCHANGED <<now, store, exchanging, storing, history>>

SweepSessionsLikeCodes ==
  /\ sweep.at = "sessions"
  /\ sessions' = Without(sessions, Expired(sessions, CodeTTL, sweep.now))
  /\ sweep' = [sweep EXCEPT !.at = "pending"]
  /\ UNCHANGED <<now, clients, pending, codes, exchanging, storing, history>>

SweepSessions ==
  /\ sweep.at = "sessions"
  /\ sessions' = Without(sessions, Expired(sessions, SessionTTL, sweep.now))
  /\ sweep' = [sweep EXCEPT !.at = "pending"]
  /\ UNCHANGED <<now, clients, pending, codes, exchanging, storing, history>>

SkipPending ==
  /\ sweep.at = "pending"
  /\ sweep' = [sweep EXCEPT !.at = "codes"]
  /\ UNCHANGED <<now, store, exchanging, storing, history>>

SweepPending ==
  /\ sweep.at = "pending"
  /\ pending' = Without(pending, Expired(pending, PendingTTL, sweep.now))
  /\ sweep' = [sweep EXCEPT !.at = "codes"]
  /\ UNCHANGED <<now, clients, codes, sessions, exchanging, storing, history>>

SweepCodes ==
  /\ sweep.at = "codes"
  /\ codes' = Without(codes, Expired(codes, CodeTTL, sweep.now))
  /\ sweep' = SweepIdle
  /\ UNCHANGED <<now, clients, pending, sessions, exchanging, storing, history>>

Sweep == SweepTick \/ SweepSessions \/ SweepPending \/ SweepCodes

-----------------------------------------------------------------------------
(* The process and the clock *)

\* The process dies and starts again: the store and the goroutines are gone.
Restart ==
  /\ clients' = EmptyMap /\ pending' = EmptyMap
  /\ codes' = EmptyMap /\ sessions' = EmptyMap
  /\ exchanging' = EmptyMap /\ storing' = EmptyMap
  /\ sweep' = SweepIdle
  /\ UNCHANGED <<now, history>>

\* The clock counts in units far longer than the straight-line code between
\* CreateSession and StoreAuthCode, so it does not move between the two.
Tick ==
  /\ now < MaxTime
  /\ DOMAIN storing = {}
  /\ now' = now + 1
  /\ UNCHANGED <<store, exchanging, storing, sweep, history>>

Next ==
  \/ \E c \in ClientIds, uris \in SUBSET URIs, method \in AuthMethods :
       HandleRegister(c, uris, method)
  \/ \E k \in PendingKeys, c \in ClientIds, uri \in URIs, challenge \in Challenges,
        state \in States :
       HandleAuthorize(k, c, uri, challenge, state)
  \/ \E h \in Handlers, k \in PendingKeys : HandleCallback(h, k)
  \/ \E h \in Handlers : ExchangeFails(h)
  \/ \E h \in Handlers, s \in SessionIds : ExchangeSucceeds(h, s)
  \/ \E h \in Handlers, code \in Codes : RedirectWithCode(h, code)
  \/ \E c \in ClientIds, secret \in ClientIds \cup {""}, code \in Codes, v \in Verifiers :
       HandleToken(c, secret, code, v)
  \/ Sweep
  \/ Restart
  \/ Tick

Spec == Init /\ [][Next]_vars

\* Nothing can keep the cleanup goroutine from its ticker and from mutexes
\* that are only ever held for a few instructions.
FairSpec == Spec /\ WF_vars(Sweep)

-----------------------------------------------------------------------------
(* Properties *)

\* One login yields at most one bearer token response, whatever the order of
\* duplicated callbacks, retried /token requests, sweeps and restarts
\* (GetPending and GetAuthCode are one-time).
AtMostOneGrantPerLogin ==
  \A g1, g2 \in grants :
    logins[g1.session].key = logins[g2.session].key => g1 = g2

\* A bearer token is returned only to the client that started the login it
\* belongs to, and only against the verifier of that very login's challenge,
\* although /authorize, /callback and /token share nothing but the store.
GrantsMatchTheirRequest ==
  \A g \in grants :
    LET r == requests[logins[g.session].key]
    IN r.client = g.client /\ r.challenge = S256(g.verifier)

\* A code is sent to one place only: the loopback URI its own request named.
\* handleCallback does not check the URI again; it relies on what /register
\* and /authorize let through.
CodesGoToTheRequestersLoopback ==
  \A code \in DOMAIN redirects :
    /\ redirects[code].uri = requests[logins[redirects[code].session].key].uri
    /\ IsLoopbackURI(redirects[code].uri)

\* What a client finds in the query of the redirect it receives.  The redirect
\* is "%s?code=%s&state=%s" with nothing escaped: if the URI has a query of its
\* own, the code ends up inside that; if it has a fragment, all of it is behind
\* the "#", which no browser sends; and a state with an "&", "+" or "%" in it
\* reads as something else.
Nothing == "nothing"
Delivered(code) ==
  LET redirect == redirects[code] IN
  [code |-> IF redirect.uri.query \/ redirect.uri.fragment THEN Nothing ELSE code,
   state |-> IF redirect.uri.fragment \/ redirect.state \notin PlainStates
             THEN Nothing ELSE redirect.state]

\* A client that asked with a URI without query and fragment and with a plain
\* state gets its code, and the state it sent with the request the code is for,
\* although two other values called code and state pass through /callback.
ClientsReadTheirCode ==
  \A code \in DOMAIN redirects :
    LET r == requests[logins[redirects[code].session].key] IN
    ~r.uri.query /\ ~r.uri.fragment /\ r.state \in PlainStates =>
      Delivered(code) = [code |-> code, state |-> r.state]

\* When /token answers, the session behind the bearer token is still in the
\* store, although sessions are swept independently of codes; and the expiry it
\* announces, which counts from the answer, is later than the session's own,
\* which counts from /callback, by CodeTTL at most, and never earlier.
ExpiresInIsNearlyTrue ==
  [][\A g \in grants' \ grants :
       /\ g.session \in DOMAIN sessions
       /\ g.expires - (sessions[g.session].createdAt + SessionTTL) \in 0..CodeTTL]_vars

\* The cleanup goroutine works with a time it read before it took the locks;
\* what it removes has nevertheless expired, by the limit of its own map.
SweepRemovesOnlyExpired ==
  [][Sweep =>
       /\ DOMAIN sessions \ DOMAIN sessions' \subseteq Expired(sessions, SessionTTL, now)
       /\ DOMAIN pending \ DOMAIN pending' \subseteq Expired(pending, PendingTTL, now)
       /\ DOMAIN codes \ DOMAIN codes' \subseteq Expired(codes, CodeTTL, now)]_vars

\* When a sweep ends, nothing is left of what had expired when it began, in the
\* map it has just pruned or in the one before, whatever the handlers have added
\* between its locks.  (Sessions are another matter: UpdateSession may put one back.)
SweepIsThorough ==
  [][SweepCodes =>
       /\ Expired(pending', PendingTTL, sweep.now) = {}
       /\ Expired(codes', CodeTTL, sweep.now) = {}]_vars

\* The two together: a sweep removes nothing too early, and skips nothing that
\* had expired when it began (StartCleanup).
SweepIsExact == SweepRemovesOnlyExpired /\ SweepIsThorough

\* Why the three properties above hold: what the handlers, between their
\* critical sections, may rely on.  Every entry of the store is a faithful copy
\* of what was asked for, keys, logins and redirects correspond one to one, and
\* a code in the store has its session beside it until that session expires.
ClientsAreLoopback ==
  \A c \in DOMAIN clients :
    c \in registered /\ \A u \in clients[c].uris : IsLoopbackURI(u)

PendingAreOpenRequests ==
  /\ accepted \subseteq DOMAIN requests
  /\ \A k \in DOMAIN requests : IsLoopbackURI(requests[k].uri)
  /\ \A k \in DOMAIN pending :
       k \in DOMAIN requests \ accepted /\ pending[k] = requests[k]

ExchangesAreExclusive ==
  /\ \A h \in DOMAIN exchanging :
       /\ exchanging[h].key \in accepted
       /\ exchanging[h].pending = requests[exchanging[h].key]
       /\ \A s \in DOMAIN logins : logins[s].key # exchanging[h].key
  /\ \A h1, h2 \in DOMAIN exchanging :
       exchanging[h1].key = exchanging[h2].key => h1 = h2

LoginsAreOnePerKey ==
  /\ \A s \in DOMAIN logins : logins[s].key \in accepted
  /\ \A s1, s2 \in DOMAIN logins : logins[s1].key = logins[s2].key => s1 = s2
  /\ \A s \in DOMAIN sessions : s \in DOMAIN logins /\ sessions[s] = logins[s]

StoringIsPrompt ==
  /\ \A h \in DOMAIN storing :
       LET s == storing[h].session IN
         /\ s \in DOMAIN sessions
         /\ sessions[s] = [key |-> storing[h].key, createdAt |-> now]
         /\ storing[h].pending = requests[storing[h].key]
         /\ \A code \in DOMAIN redirects : redirects[code].session # s
  /\ \A h1, h2 \in DOMAIN storing :
       storing[h1].session = storing[h2].session => h1 = h2

RedirectsAreOnePerLogin ==
  /\ \A code \in DOMAIN redirects :
       LET s == redirects[code].session IN
         /\ s \in DOMAIN logins
         /\ redirects[code].uri = requests[logins[s].key].uri
         /\ redirects[code].state = requests[logins[s].key].state
         /\ redirects[code].at = logins[s].createdAt
  /\ \A code1, code2 \in DOMAIN redirects :
       redirects[code1].session = redirects[code2].session => code1 = code2

CodesMatchTheirRedirects ==
  \A code \in DOMAIN codes :
    LET s == codes[code].session
        r == requests[logins[s].key] IN
      /\ code \in DOMAIN redirects
      /\ redirects[code].session = s
      /\ codes[code].createdAt = redirects[code].at
      /\ codes[code].createdAt <= now
      /\ codes[code].client = r.client
      /\ codes[code].challenge = r.challenge
      /\ s \in DOMAIN sessions \/ OlderThan(codes[code], SessionTTL, now)

GrantsSpendTheirCode ==
  /\ \A g \in grants :
       /\ g.code \in DOMAIN redirects
       /\ g.code \notin DOMAIN codes
       /\ g.session = redirects[g.code].session
  /\ \A g1, g2 \in grants : g1.code = g2.code => g1 = g2

FlowInv ==
  /\ sweep.now <= now
  /\ ClientsAreLoopback
  /\ PendingAreOpenRequests
  /\ ExchangesAreExclusive
  /\ LoginsAreOnePerKey
  /\ StoringIsPrompt
  /\ RedirectsAreOnePerLogin
  /\ CodesMatchTheirRedirects
  /\ GrantsSpendTheirCode
  /\ GrantsMatchTheirRequest

\* Pending keys and authorization codes are one-time tickets.
KeyTicket == INSTANCE OneTimeTicket WITH
  Tickets <- PendingKeys, TTL <- PendingTTL,
  born <- [k \in DOMAIN requests |-> requests[k].createdAt],
  live <- DOMAIN pending, redeemed <- accepted

CodeTicket == INSTANCE OneTimeTicket WITH
  Tickets <- Codes, TTL <- CodeTTL,
  born <- [code \in DOMAIN redirects |-> redirects[code].at],
  live <- DOMAIN codes, redeemed <- {g.code : g \in grants}

\* GetPending and the cleanup implement the one-time ticket for pending keys.
PendingKeysAreOneTimeTickets == KeyTicket!TicketSpec

\* GetAuthCode, handleToken and the cleanup implement it for codes.
CodesAreOneTimeTickets == CodeTicket!TicketSpec

\* Whatever has expired is pruned, even if nobody ever asks for it again.
ExpiredIsPruned ==
  /\ \A s \in SessionIds :
       s \in Expired(sessions, SessionTTL, now) ~> s \notin DOMAIN sessions
  /\ \A k \in PendingKeys :
       k \in Expired(pending, PendingTTL, now) ~> k \notin DOMAIN pending
  /\ \A code \in Codes :
       code \in Expired(codes, CodeTTL, now) ~> code \notin DOMAIN codes
=============================================================================
