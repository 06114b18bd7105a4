--------------------------- MODULE OAuthFlowProofs ---------------------------
(* What holds of the login flow for every set of clients, keys, codes,       *)
(* sessions and verifiers, every TTL and every bound on the clock.           *)
EXTENDS OAuthFlow, GoMapTheorems

\* Two facts of arithmetic, on the moments that /token and the session count from.
LEMMA SumOfNats ==
  ASSUME NEW m \in Nat, NEW n \in Nat
  PROVE  m + n \in Nat
OBVIOUS

LEMMA AnnouncedLater ==
  ASSUME NEW born \in Nat, NEW t \in Nat, born <= t, t - born <= CodeTTL
  PROVE  (t + SessionTTL) - (born + SessionTTL) \in 0..CodeTTL
BY TTLAssumption

\* Every variable keeps its type: each map of the store, of the goroutines and
\* of the history holds only entries of its own kind.
THEOREM TypeCorrect == Spec => []TypeOK
<1> USE DEF store, history
<1>1. Init => TypeOK
  BY EmptyMapType DEF Init, TypeOK, SweepIdle, SweepPoint
<1>2. TypeOK /\ [Next]_vars => TypeOK'
  <2> SUFFICES ASSUME TypeOK, [Next]_vars PROVE TypeOK'
    OBVIOUS
  <2> USE DEF TypeOK
  <2>1. ASSUME NEW c \in ClientIds, NEW uris \in SUBSET URIs, NEW method \in AuthMethods,
               HandleRegister(c, uris, method)
        PROVE  TypeOK'
    <3>1. [uris |-> uris, method |-> method,
           secret |-> IF method = "none" THEN "" ELSE c] \in Client
      BY DEF Client
    <3>2. IsMap(clients', ClientIds, Client)
      BY <2>1, <3>1, PutType DEF HandleRegister, RegisterClient
    <3> QED
      BY <2>1, <3>2 DEF HandleRegister, RegisterClient
  <2>2. ASSUME NEW k \in PendingKeys, NEW c \in ClientIds, NEW uri \in URIs,
               NEW challenge \in Challenges, NEW state \in States,
               HandleAuthorize(k, c, uri, challenge, state)
        PROVE  TypeOK'
    <3>1. StampedPending(c, uri, challenge, state) \in PendingAuth
      BY DEF PendingAuth, StampedPending
    <3>2. /\ IsMap(pending', PendingKeys, PendingAuth)
          /\ IsMap(requests', PendingKeys, PendingAuth)
      BY <2>2, <3>1, PutType DEF HandleAuthorize, StorePending, GetClient
    <3> QED
      BY <2>2, <3>2 DEF HandleAuthorize, StorePending, GetClient
  <2>3. ASSUME NEW h \in Handlers, NEW k \in PendingKeys, HandleCallback(h, k)
        PROVE  TypeOK'
    <3>1. [key |-> k, pending |-> pending[k]] \in Exchanging
      BY <2>3 DEF HandleCallback, GetPending, IsMap, Exchanging
    <3>2. IsMap(exchanging', Handlers, Exchanging)
      BY <2>3, <3>1, PutType DEF HandleCallback
    <3>3. IsMap(pending', PendingKeys, PendingAuth)
      BY <2>3, WithoutType DEF HandleCallback, GetPending
    <3> QED
      BY <2>3, <3>2, <3>3 DEF HandleCallback
  <2>4. ASSUME NEW h \in Handlers, ExchangeFails(h)
        PROVE  TypeOK'
    BY <2>4, WithoutType DEF ExchangeFails
  <2>5. ASSUME NEW h \in Handlers, NEW s \in SessionIds, ExchangeSucceeds(h, s)
        PROVE  TypeOK'
    <3>1. exchanging[h] \in Exchanging
      BY <2>5 DEF ExchangeSucceeds, CreateSession, IsMap
    <3>2. /\ [key |-> exchanging[h].key, createdAt |-> now] \in Session
          /\ [key |-> exchanging[h].key, pending |-> exchanging[h].pending,
              session |-> s] \in Storing
      BY <3>1 DEF Exchanging, Session, Storing
    <3>3. /\ IsMap(sessions', SessionIds, Session)
          /\ IsMap(logins', SessionIds, Session)
          /\ IsMap(storing', Handlers, Storing)
      BY <2>5, <3>2, PutType DEF ExchangeSucceeds, CreateSession
    <3>4. IsMap(exchanging', Handlers, Exchanging)
      BY <2>5, WithoutType DEF ExchangeSucceeds, CreateSession
    <3> QED
      BY <2>5, <3>3, <3>4 DEF ExchangeSucceeds, CreateSession
  <2>6. ASSUME NEW h \in Handlers, NEW code \in Codes, RedirectWithCode(h, code)
        PROVE  TypeOK'
    <3>1. storing[h] \in Storing
      BY <2>6 DEF RedirectWithCode, StoreAuthCode, IsMap
    <3>2. /\ [client |-> storing[h].pending.client, session |-> storing[h].session,
              challenge |-> storing[h].pending.challenge, createdAt |-> now] \in AuthCode
          /\ [uri |-> storing[h].pending.uri, state |-> StateFromClient(h),
              session |-> storing[h].session, at |-> now] \in Redirect
      BY <3>1 DEF StateFromClient, Storing, PendingAuth, AuthCode, Redirect
    <3>3. /\ IsMap(codes', Codes, AuthCode)
          /\ IsMap(redirects', Codes, Redirect)
      BY <2>6, <3>2, PutType DEF RedirectWithCode, StoreAuthCode
    <3>4. IsMap(storing', Handlers, Storing)
      BY <2>6, WithoutType DEF RedirectWithCode, StoreAuthCode
    <3> QED
      BY <2>6, <3>3, <3>4 DEF RedirectWithCode, StoreAuthCode
  <2>7. ASSUME NEW c \in ClientIds, NEW secret \in ClientIds \cup {""},
               NEW code \in Codes, NEW v \in Verifiers, HandleToken(c, secret, code, v)
        PROVE  TypeOK'
    <3>0. now + ExpiresIn \in Nat
      <4>1. ExpiresIn \in Nat
        BY TTLAssumption DEF ExpiresIn
      <4> QED
        BY <4>1, SumOfNats
    <3>1. [client |-> c, code |-> code, session |-> codes[code].session,
           verifier |-> v, expires |-> now + ExpiresIn] \in Grant
      BY <2>7, <3>0 DEF HandleToken, GetAuthCode, IsMap, AuthCode, Grant
    <3>2. grants' \subseteq Grant
      BY <2>7, <3>1 DEF HandleToken
    <3>3. IsMap(codes', Codes, AuthCode)
      BY <2>7, WithoutType DEF HandleToken, GetAuthCode
    <3> QED
      BY <2>7, <3>2, <3>3 DEF HandleToken
  <2>8. CASE Sweep
    <3>1. sweep' \in SweepPoint
      BY <2>8 DEF Sweep, SweepTick, SweepSessions, SweepPending, SweepCodes,
                  SweepPoint, SweepIdle
    <3>2. /\ IsMap(sessions', SessionIds, Session)
          /\ IsMap(pending', PendingKeys, PendingAuth)
          /\ IsMap(codes', Codes, AuthCode)
      BY <2>8, WithoutType DEF Sweep, SweepTick, SweepSessions, SweepPending, SweepCodes
    <3> QED
      BY <2>8, <3>1, <3>2 DEF Sweep, SweepTick, SweepSessions, SweepPending, SweepCodes
  <2>9. CASE Restart
    BY <2>9, EmptyMapType DEF Restart, SweepIdle, SweepPoint
  <2>10. CASE Tick
    BY <2>10 DEF Tick
  <2>11. CASE UNCHANGED vars
    BY <2>11 DEF vars
  <2> QED
    BY <2>1, <2>2, <2>3, <2>4, <2>5, <2>6, <2>7, <2>8, <2>9, <2>10, <2>11 DEF Next
<1> QED
  BY <1>1, <1>2, PTL DEF Spec

-----------------------------------------------------------------------------
(* The invariant behind the safety properties: one lemma per action. *)

\* /register stores only clients whose URIs are all loopback.
LEMMA RegisterKeepsInv ==
  ASSUME TypeOK, FlowInv, NEW c \in ClientIds, NEW uris \in SUBSET URIs,
         NEW method \in AuthMethods, HandleRegister(c, uris, method)
  PROVE  FlowInv'
<1> USE DEF FlowInv
<1>1. ClientsAreLoopback'
  BY DEF Put, HandleRegister, RegisterClient, ClientsAreLoopback
<1>2. UNCHANGED <<now, pending, codes, sessions, exchanging, storing, sweep,
                  requests, accepted, logins, redirects, grants>>
  BY DEF HandleRegister, RegisterClient
<1> QED
  BY <1>1, <1>2 DEF OlderThan, PendingAreOpenRequests, ExchangesAreExclusive,
     LoginsAreOnePerKey, StoringIsPrompt, RedirectsAreOnePerLogin,
     CodesMatchTheirRedirects, GrantsSpendTheirCode, GrantsMatchTheirRequest

\* A URI that matches a loopback one is loopback: only the port may differ.
LEMMA MatchOfLoopback ==
  ASSUME NEW req \in URIs, NEW registeredURIs \in SUBSET URIs,
         \A u \in registeredURIs : IsLoopbackURI(u),
         MatchesRegisteredURI(req, registeredURIs)
  PROVE  IsLoopbackURI(req)
BY DEF MatchesRegisteredURI, SameButPort, IsLoopbackURI

\* /authorize adds one open request, under a key nobody has used.
LEMMA AuthorizeKeepsInv ==
  ASSUME TypeOK, FlowInv, NEW k \in PendingKeys, NEW c \in ClientIds, NEW uri \in URIs,
         NEW challenge \in Challenges, NEW state \in States,
               HandleAuthorize(k, c, uri, challenge, state)
  PROVE  FlowInv'
<1> DEFINE p == StampedPending(c, uri, challenge, state)
<1> USE DEF FlowInv
<1>1. /\ k \notin DOMAIN requests
      /\ pending' = Put(pending, k, p) /\ requests' = Put(requests, k, p)
      /\ UNCHANGED <<now, clients, codes, sessions, exchanging, storing, sweep,
                     registered, accepted, logins, redirects, grants>>
  BY DEF HandleAuthorize, StorePending, GetClient
<1>2. /\ DOMAIN requests' = DOMAIN requests \cup {k} /\ requests'[k] = p
      /\ \A x \in DOMAIN requests : requests'[x] = requests[x]
      /\ DOMAIN pending' = DOMAIN pending \cup {k} /\ pending'[k] = p
      /\ \A x \in DOMAIN pending : pending'[x] = pending[x]
  <2> HIDE DEF p
  <2> QED
    BY <1>1 DEF Put, PendingAreOpenRequests
<1>3. IsLoopbackURI(p.uri)
  BY MatchOfLoopback DEF HandleAuthorize, StorePending, GetClient, ClientsAreLoopback, TypeOK, IsMap, Client,
     StampedPending
<1> HIDE DEF p
<1>4. PendingAreOpenRequests'
  BY <1>1, <1>2, <1>3 DEF PendingAreOpenRequests, IsLoopbackURI
<1>5. ExchangesAreExclusive'
  BY <1>1, <1>2 DEF ExchangesAreExclusive, PendingAreOpenRequests
<1>6. StoringIsPrompt'
  BY <1>1, <1>2 DEF StoringIsPrompt, LoginsAreOnePerKey, PendingAreOpenRequests
<1>7. RedirectsAreOnePerLogin'
  BY <1>1, <1>2 DEF RedirectsAreOnePerLogin, LoginsAreOnePerKey, PendingAreOpenRequests
<1>8. \A s \in DOMAIN logins : requests'[logins[s].key] = requests[logins[s].key]
  BY <1>2 DEF LoginsAreOnePerKey, PendingAreOpenRequests
<1>9. CodesMatchTheirRedirects'
  BY <1>1, <1>8 DEF CodesMatchTheirRedirects, RedirectsAreOnePerLogin, OlderThan
<1>10. GrantsMatchTheirRequest'
  BY <1>1, <1>8 DEF GrantsMatchTheirRequest, GrantsSpendTheirCode, RedirectsAreOnePerLogin
<1> QED
  BY <1>1, <1>4, <1>5, <1>6, <1>7, <1>9, <1>10
     DEF ClientsAreLoopback, LoginsAreOnePerKey, GrantsSpendTheirCode

\* /callback moves a request from the pending ones to the accepted ones.
LEMMA CallbackKeepsInv ==
  ASSUME TypeOK, FlowInv, NEW h \in Handlers, NEW k \in PendingKeys, HandleCallback(h, k)
  PROVE  FlowInv'
<1> USE DEF FlowInv
<1>1. /\ k \in DOMAIN pending
      /\ DOMAIN pending' = DOMAIN pending \ {k}
      /\ \A x \in DOMAIN pending' : pending'[x] = pending[x]
  BY DEF Without, Restrict, HandleCallback, GetPending
<1>2. UNCHANGED <<now, clients, codes, sessions, storing, sweep,
                  registered, requests, logins, redirects, grants>>
  BY DEF HandleCallback
<1>3. PendingAreOpenRequests' /\ ExchangesAreExclusive' /\ LoginsAreOnePerKey'
  <2>1. CASE OlderThan(pending[k], PendingTTL, now)
    BY <1>1, <1>2, <2>1 DEF HandleCallback, PendingAreOpenRequests, ExchangesAreExclusive,
       LoginsAreOnePerKey
  <2>2. CASE ~OlderThan(pending[k], PendingTTL, now)
    <3> DEFINE e == [key |-> k, pending |-> pending[k]]
    <3>1. /\ h \notin DOMAIN exchanging
          /\ exchanging' = Put(exchanging, h, e)
          /\ accepted' = accepted \cup {k}
      BY <2>2 DEF HandleCallback
    <3>2. /\ DOMAIN exchanging' = DOMAIN exchanging \cup {h}
          /\ exchanging'[h].key = k /\ exchanging'[h].pending = requests[k]
          /\ \A x \in DOMAIN exchanging : exchanging'[x] = exchanging[x]
      BY <1>1, <3>1 DEF Put, PendingAreOpenRequests
    <3>3. PendingAreOpenRequests'
      BY <1>1, <1>2, <3>1 DEF PendingAreOpenRequests
    <3>4. ExchangesAreExclusive'
      BY <1>1, <1>2, <3>1, <3>2 DEF ExchangesAreExclusive, PendingAreOpenRequests,
         LoginsAreOnePerKey
    <3>5. LoginsAreOnePerKey'
      BY <1>2, <3>1 DEF LoginsAreOnePerKey
    <3> QED
      BY <3>3, <3>4, <3>5
  <2> QED
    BY <2>1, <2>2
<1> QED
  BY <1>2, <1>3 DEF ClientsAreLoopback, StoringIsPrompt, RedirectsAreOnePerLogin,
     CodesMatchTheirRedirects, OlderThan, GrantsSpendTheirCode, GrantsMatchTheirRequest

\* A failed exchange only forgets its own request.
LEMMA ExchangeFailsKeepsInv ==
  ASSUME TypeOK, FlowInv, NEW h \in Handlers, ExchangeFails(h)
  PROVE  FlowInv'
<1> USE DEF FlowInv
<1>1. /\ DOMAIN exchanging' = DOMAIN exchanging \ {h}
      /\ \A x \in DOMAIN exchanging' : exchanging'[x] = exchanging[x]
      /\ UNCHANGED <<now, store, storing, sweep, history>>
  BY DEF Without, Restrict, ExchangeFails
<1>2. ExchangesAreExclusive'
  BY <1>1 DEF ExchangesAreExclusive, history
<1> QED
  BY <1>1, <1>2 DEF store, history, ClientsAreLoopback, PendingAreOpenRequests,
     LoginsAreOnePerKey, StoringIsPrompt, RedirectsAreOnePerLogin,
     CodesMatchTheirRedirects, OlderThan, GrantsSpendTheirCode, GrantsMatchTheirRequest

\* Google's answer turns an exclusive exchange into the only login of its key.
LEMMA ExchangeKeepsInv ==
  ASSUME TypeOK, FlowInv, NEW h \in Handlers, NEW s \in SessionIds, ExchangeSucceeds(h, s)
  PROVE  FlowInv'
<1> DEFINE key == exchanging[h].key
           sess == [key |-> key, createdAt |-> now]
<1> USE DEF FlowInv
<1>1. /\ h \in DOMAIN exchanging /\ s \notin DOMAIN logins
      /\ UNCHANGED <<now, clients, pending, codes, sweep,
                     registered, requests, accepted, redirects, grants>>
  BY DEF ExchangeSucceeds, CreateSession
<1>2. /\ DOMAIN sessions' = DOMAIN sessions \cup {s} /\ sessions'[s] = sess
      /\ \A x \in DOMAIN sessions : x # s => sessions'[x] = sessions[x]
      /\ DOMAIN logins' = DOMAIN logins \cup {s} /\ logins'[s] = sess
      /\ \A x \in DOMAIN logins : logins'[x] = logins[x]
  BY <1>1 DEF ExchangeSucceeds, CreateSession, Put
<1>3. /\ DOMAIN storing' = DOMAIN storing \cup {h}
      /\ storing'[h].key = key /\ storing'[h].session = s
      /\ storing'[h].pending = exchanging[h].pending
      /\ \A x \in DOMAIN storing : x # h => storing'[x] = storing[x]
      /\ DOMAIN exchanging' = DOMAIN exchanging \ {h}
      /\ \A x \in DOMAIN exchanging' : exchanging'[x] = exchanging[x]
  BY <1>1 DEF ExchangeSucceeds, CreateSession, Put, Without, Restrict
<1>4. /\ key \in accepted /\ exchanging[h].pending = requests[key]
      /\ \A x \in DOMAIN logins : logins[x].key # key
  BY <1>1 DEF ExchangesAreExclusive
<1>5. \A x \in DOMAIN sessions : x # s
  BY <1>1 DEF LoginsAreOnePerKey
<1>6. \A code \in DOMAIN redirects : redirects[code].session # s
  BY <1>1 DEF RedirectsAreOnePerLogin
<1>7. sess.key = key /\ sess.createdAt = now
  OBVIOUS
<1>8. PendingAreOpenRequests'
  BY <1>1 DEF PendingAreOpenRequests
<1> HIDE DEF key
<1>9. ExchangesAreExclusive'
  <2>1. \A x \in DOMAIN exchanging' : exchanging[x].key # key
    BY <1>1, <1>3 DEF ExchangesAreExclusive, key
  <2>2. \A x \in DOMAIN exchanging' : \A y \in DOMAIN logins' :
          logins'[y].key # exchanging'[x].key
    BY <1>2, <1>3, <1>7, <2>1 DEF ExchangesAreExclusive
  <2> QED
    BY <1>1, <1>3, <2>2 DEF ExchangesAreExclusive
<1>10. LoginsAreOnePerKey'
  BY <1>1, <1>2, <1>4, <1>5, <1>7 DEF LoginsAreOnePerKey
<1>11. StoringIsPrompt'
  <2>1. \A x \in DOMAIN storing : storing[x].session # s
    BY <1>5 DEF StoringIsPrompt
  <2>2. storing'[h].pending = requests'[storing'[h].key]
    BY <1>1, <1>3, <1>4
  <2>3. sessions'[s] = [key |-> storing'[h].key, createdAt |-> now']
    BY <1>1, <1>2, <1>3
  <2>4. \A x \in DOMAIN storing' : x # h => x \in DOMAIN storing /\ storing'[x] = storing[x]
    BY <1>3
  <2>5. ASSUME NEW x \in DOMAIN storing'
        PROVE  LET y == storing'[x].session IN
                 /\ y \in DOMAIN sessions'
                 /\ sessions'[y] = [key |-> storing'[x].key, createdAt |-> now']
                 /\ storing'[x].pending = requests'[storing'[x].key]
                 /\ \A code \in DOMAIN redirects' : redirects'[code].session # y
    <3>1. CASE x = h
      BY <1>1, <1>2, <1>3, <1>6, <2>2, <2>3, <3>1
    <3>2. CASE x # h
      BY <1>1, <1>2, <2>1, <2>4, <3>2 DEF StoringIsPrompt
    <3> QED
      BY <3>1, <3>2
  <2>6. \A x, y \in DOMAIN storing' : storing'[x].session = storing'[y].session => x = y
    BY <1>3, <2>1, <2>4 DEF StoringIsPrompt
  <2> QED
    BY <2>5, <2>6 DEF StoringIsPrompt
<1>12. RedirectsAreOnePerLogin'
  BY <1>1, <1>2 DEF RedirectsAreOnePerLogin
<1>13. CodesMatchTheirRedirects'
  BY <1>1, <1>2 DEF CodesMatchTheirRedirects, RedirectsAreOnePerLogin, OlderThan
<1>14. GrantsMatchTheirRequest'
  BY <1>1, <1>2 DEF GrantsMatchTheirRequest, GrantsSpendTheirCode, RedirectsAreOnePerLogin
<1> QED
  BY <1>1, <1>8, <1>9, <1>10, <1>11, <1>12, <1>13, <1>14
     DEF ClientsAreLoopback, GrantsSpendTheirCode

\* The code of a login enters the store while the login's session is in it.
LEMMA RedirectKeepsInv ==
  ASSUME TypeOK, FlowInv, NEW h \in Handlers, NEW code \in Codes, RedirectWithCode(h, code)
  PROVE  FlowInv'
<1> DEFINE p == storing[h].pending
           s == storing[h].session
           key == storing[h].key
<1> USE DEF FlowInv
<1>1. /\ h \in DOMAIN storing /\ code \notin DOMAIN redirects
      /\ UNCHANGED <<now, clients, pending, sessions, exchanging, sweep,
                     registered, requests, accepted, logins, grants>>
  BY DEF RedirectWithCode, StoreAuthCode
<1>2. /\ DOMAIN redirects' = DOMAIN redirects \cup {code}
      /\ redirects'[code].uri = p.uri /\ redirects'[code].session = s
      /\ redirects'[code].state = p.state /\ redirects'[code].at = now
      /\ \A x \in DOMAIN redirects : redirects'[x] = redirects[x]
  BY <1>1 DEF RedirectWithCode, StoreAuthCode, StateFromClient, Put
<1>3. /\ DOMAIN codes' = DOMAIN codes \cup {code}
      /\ codes'[code].client = p.client /\ codes'[code].session = s
      /\ codes'[code].challenge = p.challenge /\ codes'[code].createdAt = now
      /\ \A x \in DOMAIN codes : x # code => codes'[x] = codes[x]
  BY <1>1 DEF RedirectWithCode, StoreAuthCode, Put
<1>4. /\ DOMAIN storing' = DOMAIN storing \ {h}
      /\ \A x \in DOMAIN storing' : storing'[x] = storing[x]
  BY DEF RedirectWithCode, StoreAuthCode, Without, Restrict
<1>5. /\ s \in DOMAIN sessions /\ p = requests[key]
      /\ sessions[s].key = key /\ sessions[s].createdAt = now
      /\ \A x \in DOMAIN redirects : redirects[x].session # s
  <2>1. /\ s \in DOMAIN sessions /\ p = requests[key]
        /\ sessions[s] = [key |-> key, createdAt |-> now]
        /\ \A x \in DOMAIN redirects : redirects[x].session # s
    BY <1>1 DEF StoringIsPrompt
  <2> HIDE DEF p, s, key
  <2> QED
    BY <2>1
<1>6. s \in DOMAIN logins /\ logins[s].key = key /\ logins[s].createdAt = now
  BY <1>5 DEF LoginsAreOnePerKey
<1> HIDE DEF p, key
<1>7. StoringIsPrompt'
  BY <1>1, <1>2, <1>4 DEF StoringIsPrompt
<1> HIDE DEF s
<1>8. RedirectsAreOnePerLogin'
  BY <1>1, <1>2, <1>5, <1>6 DEF RedirectsAreOnePerLogin
<1>9. code \notin DOMAIN codes
  BY <1>1 DEF CodesMatchTheirRedirects
<1>10. CodesMatchTheirRedirects'
  <2>1. now <= now
    BY DEF TypeOK
  <2> QED
    BY <1>1, <1>2, <1>3, <1>5, <1>6, <1>9, <2>1 DEF CodesMatchTheirRedirects, OlderThan
<1>11. GrantsSpendTheirCode'
  BY <1>1, <1>2, <1>3 DEF GrantsSpendTheirCode
<1> QED
  BY <1>1, <1>7, <1>8, <1>10, <1>11 DEF ClientsAreLoopback, PendingAreOpenRequests,
     ExchangesAreExclusive, LoginsAreOnePerKey, GrantsMatchTheirRequest

\* /token spends the code first, so that what it grants is granted once.
LEMMA TokenKeepsInv ==
  ASSUME TypeOK, FlowInv, NEW c \in ClientIds, NEW secret \in ClientIds \cup {""},
         NEW code \in Codes, NEW v \in Verifiers, HandleToken(c, secret, code, v)
  PROVE  FlowInv'
<1> DEFINE g == [client |-> c, code |-> code, session |-> codes[code].session,
                 verifier |-> v, expires |-> now + ExpiresIn]
<1> USE DEF FlowInv
<1>1. /\ code \in DOMAIN codes
      /\ DOMAIN codes' = DOMAIN codes \ {code}
      /\ \A x \in DOMAIN codes' : codes'[x] = codes[x]
  BY DEF HandleToken, GetAuthCode, Without, Restrict
<1>2. UNCHANGED <<now, clients, pending, sessions, exchanging, storing, sweep,
                  registered, requests, accepted, logins, redirects>>
  BY DEF HandleToken
<1>3. \/ grants' = grants
      \/ grants' = grants \cup {g} /\ CodeAccepted(c, code, v)
  BY DEF HandleToken
<1>4. CodesMatchTheirRedirects'
  BY <1>1, <1>2 DEF CodesMatchTheirRedirects, OlderThan
<1>5. GrantsSpendTheirCode' /\ GrantsMatchTheirRequest'
  <2>1. CASE grants' = grants
    BY <1>1, <1>2, <2>1 DEF GrantsSpendTheirCode, GrantsMatchTheirRequest
  <2>2. CASE grants' = grants \cup {g} /\ CodeAccepted(c, code, v)
    <3>1. /\ g.client = c /\ g.code = code /\ g.session = codes[code].session
          /\ g.verifier = v
      OBVIOUS
    <3> HIDE DEF g
    <3>2. GrantsSpendTheirCode'
      BY <1>1, <1>2, <2>2, <3>1, ZenonT(30) DEF GrantsSpendTheirCode, CodesMatchTheirRedirects
    <3>3. GrantsMatchTheirRequest'
      <4>1. codes[code].client = c /\ codes[code].challenge = S256(v)
        BY <2>2 DEF CodeAccepted
      <4>2. LET r == requests[logins[g.session].key]
            IN r.client = g.client /\ r.challenge = S256(g.verifier)
        BY <1>1, <3>1, <4>1 DEF CodesMatchTheirRedirects
      <4> QED
        BY <1>2, <2>2, <4>2 DEF GrantsMatchTheirRequest
    <3> QED
      BY <3>2, <3>3
  <2> QED
    BY <1>3, <2>1, <2>2
<1>6. ClientsAreLoopback' /\ PendingAreOpenRequests' /\ ExchangesAreExclusive'
  BY <1>2 DEF ClientsAreLoopback, PendingAreOpenRequests, ExchangesAreExclusive
<1>7. LoginsAreOnePerKey' /\ StoringIsPrompt' /\ RedirectsAreOnePerLogin'
  BY <1>2, ZenonT(30) DEF LoginsAreOnePerKey, StoringIsPrompt, RedirectsAreOnePerLogin
<1> QED
  BY <1>2, <1>4, <1>5, <1>6, <1>7

\* The cleanup removes a session only once it is older than SessionTTL, also
\* by the present time, which is no earlier than the time the cleanup read.
LEMMA SweepKeepsInv ==
  ASSUME TypeOK, FlowInv, Sweep
  PROVE  FlowInv'
<1> USE DEF FlowInv
<1>1. UNCHANGED <<now, clients, exchanging, storing, history>>
  BY DEF Sweep, SweepTick, SweepSessions, SweepPending, SweepCodes, store
<1>2. now \in Nat /\ sweep.now \in Nat /\ SessionTTL \in Nat
  BY TTLAssumption DEF TypeOK, SweepPoint
<1>3. sweep'.now <= now'
  BY <1>1, <1>2 DEF Sweep, SweepTick, SweepSessions, SweepPending, SweepCodes, SweepIdle,
     TypeOK, SweepPoint
<1>4. /\ DOMAIN sessions' \subseteq DOMAIN sessions
      /\ \A s \in DOMAIN sessions' : sessions'[s] = sessions[s]
      /\ \A s \in DOMAIN sessions \ DOMAIN sessions' :
           OlderThan(sessions[s], SessionTTL, sweep.now)
  BY DEF Sweep, SweepTick, SweepSessions, SweepPending, SweepCodes, store, Without,
     Restrict, Expired
<1>5. /\ DOMAIN pending' \subseteq DOMAIN pending
      /\ \A k \in DOMAIN pending' : pending'[k] = pending[k]
  BY DEF Sweep, SweepTick, SweepSessions, SweepPending, SweepCodes, store, Without, Restrict
<1>6. /\ DOMAIN codes' \subseteq DOMAIN codes
      /\ \A code \in DOMAIN codes' : codes'[code] = codes[code]
  BY DEF Sweep, SweepTick, SweepSessions, SweepPending, SweepCodes, store, Without, Restrict
<1>7. \A s \in DOMAIN sessions \ DOMAIN sessions' : now - sessions[s].createdAt > SessionTTL
  BY <1>2, <1>4 DEF OlderThan, TypeOK, IsMap, Session
<1>8. StoringIsPrompt'
  BY <1>1, <1>2, <1>4, <1>7 DEF StoringIsPrompt, history
<1>9. CodesMatchTheirRedirects'
  BY <1>1, <1>4, <1>6, <1>7 DEF CodesMatchTheirRedirects, RedirectsAreOnePerLogin,
     LoginsAreOnePerKey, OlderThan, history
<1>10. PendingAreOpenRequests' /\ LoginsAreOnePerKey' /\ GrantsSpendTheirCode'
  BY <1>1, <1>4, <1>5, <1>6 DEF PendingAreOpenRequests, LoginsAreOnePerKey,
     GrantsSpendTheirCode, history
<1> QED
  BY <1>1, <1>3, <1>8, <1>9, <1>10 DEF ClientsAreLoopback, ExchangesAreExclusive,
     RedirectsAreOnePerLogin, GrantsMatchTheirRequest, history

\* A restart empties the store and so leaves nothing for the history to contradict.
LEMMA RestartKeepsInv ==
  ASSUME TypeOK, FlowInv, Restart
  PROVE  FlowInv'
<1> USE DEF FlowInv
<1>1. /\ DOMAIN clients' = {} /\ DOMAIN pending' = {} /\ DOMAIN codes' = {}
      /\ DOMAIN sessions' = {} /\ DOMAIN exchanging' = {} /\ DOMAIN storing' = {}
      /\ sweep'.now = 0 /\ UNCHANGED <<now, history>>
  BY DEF Restart, EmptyMap, SweepIdle
<1>2. sweep'.now <= now'
  BY <1>1 DEF TypeOK
<1>3. /\ ClientsAreLoopback' /\ PendingAreOpenRequests' /\ ExchangesAreExclusive'
      /\ LoginsAreOnePerKey' /\ StoringIsPrompt' /\ CodesMatchTheirRedirects'
  BY <1>1 DEF ClientsAreLoopback, PendingAreOpenRequests, ExchangesAreExclusive,
     LoginsAreOnePerKey, StoringIsPrompt, CodesMatchTheirRedirects, history
<1>4. RedirectsAreOnePerLogin' /\ GrantsSpendTheirCode' /\ GrantsMatchTheirRequest'
  BY <1>1 DEF RedirectsAreOnePerLogin, GrantsSpendTheirCode, GrantsMatchTheirRequest, history
<1> QED
  BY <1>2, <1>3, <1>4

\* Time makes a session expire, never come back, and waits for StoreAuthCode.
LEMMA TickKeepsInv ==
  ASSUME TypeOK, FlowInv, Tick
  PROVE  FlowInv'
<1> USE DEF FlowInv
<1>1. /\ now' = now + 1 /\ DOMAIN storing = {}
      /\ UNCHANGED <<clients, pending, codes, sessions, exchanging, storing, sweep,
                     registered, requests, accepted, logins, redirects, grants>>
  BY DEF Tick, store, history
<1>2. sweep'.now <= now'
  BY <1>1 DEF TypeOK, SweepPoint
<1>3. StoringIsPrompt'
  BY <1>1 DEF StoringIsPrompt
<1>4. CodesMatchTheirRedirects'
  <2>1. \A code \in DOMAIN codes :
          OlderThan(codes[code], SessionTTL, now) => OlderThan(codes[code], SessionTTL, now + 1)
    BY TTLAssumption DEF OlderThan, TypeOK, IsMap, AuthCode
  <2>2. \A code \in DOMAIN codes : codes[code].createdAt <= now + 1
    BY DEF CodesMatchTheirRedirects, TypeOK, IsMap, AuthCode
  <2> QED
    BY <1>1, <2>1, <2>2 DEF CodesMatchTheirRedirects, OlderThan
<1>5. ClientsAreLoopback' /\ PendingAreOpenRequests' /\ ExchangesAreExclusive'
  BY <1>1 DEF ClientsAreLoopback, PendingAreOpenRequests, ExchangesAreExclusive
<1>6. /\ LoginsAreOnePerKey' /\ RedirectsAreOnePerLogin'
      /\ GrantsSpendTheirCode' /\ GrantsMatchTheirRequest'
  BY <1>1 DEF LoginsAreOnePerKey, RedirectsAreOnePerLogin, GrantsSpendTheirCode,
     GrantsMatchTheirRequest
<1> QED
  BY <1>2, <1>3, <1>4, <1>5, <1>6

LEMMA StutterKeepsInv ==
  ASSUME FlowInv, UNCHANGED vars
  PROVE  FlowInv'
<1> USE DEF FlowInv, vars, store, history
<1>1. ClientsAreLoopback' /\ PendingAreOpenRequests' /\ ExchangesAreExclusive'
  BY DEF ClientsAreLoopback, PendingAreOpenRequests, ExchangesAreExclusive
<1>2. LoginsAreOnePerKey' /\ StoringIsPrompt' /\ RedirectsAreOnePerLogin'
  BY DEF LoginsAreOnePerKey, StoringIsPrompt, RedirectsAreOnePerLogin
<1>3. CodesMatchTheirRedirects' /\ GrantsSpendTheirCode' /\ GrantsMatchTheirRequest'
  BY DEF CodesMatchTheirRedirects, OlderThan, GrantsSpendTheirCode, GrantsMatchTheirRequest
<1> QED
  BY <1>1, <1>2, <1>3

\* FlowInv is inductive, given the types.
THEOREM FlowInvariance == Spec => []FlowInv
<1>1. Init => FlowInv
  BY DEF Init, EmptyMap, SweepIdle, FlowInv, ClientsAreLoopback, PendingAreOpenRequests,
     ExchangesAreExclusive, LoginsAreOnePerKey, StoringIsPrompt, RedirectsAreOnePerLogin,
     CodesMatchTheirRedirects, GrantsSpendTheirCode, GrantsMatchTheirRequest
<1>2. TypeOK /\ FlowInv /\ [Next]_vars => FlowInv'
  BY RegisterKeepsInv, AuthorizeKeepsInv, CallbackKeepsInv, ExchangeFailsKeepsInv,
     ExchangeKeepsInv, RedirectKeepsInv, TokenKeepsInv, SweepKeepsInv,
     RestartKeepsInv, TickKeepsInv, StutterKeepsInv DEF Next
<1> QED
  BY <1>1, <1>2, TypeCorrect, PTL DEF Spec

-----------------------------------------------------------------------------
(* What the invariant gives *)

\* At most one bearer token response per login, for any number of duplicated
\* callbacks and retried token requests.
THEOREM OneGrantPerLogin == Spec => []AtMostOneGrantPerLogin
<1>1. FlowInv => AtMostOneGrantPerLogin
  BY DEF FlowInv, LoginsAreOnePerKey, RedirectsAreOnePerLogin, GrantsSpendTheirCode,
     AtMostOneGrantPerLogin
<1> QED
  BY <1>1, FlowInvariance, PTL

\* Every bearer token goes to the client, and answers the challenge, of the
\* request its login started from.
THEOREM GrantsAreTheRequesters == Spec => []GrantsMatchTheirRequest
<1>1. FlowInv => GrantsMatchTheirRequest
  BY DEF FlowInv
<1> QED
  BY <1>1, FlowInvariance, PTL

\* Every code goes to the requester's own loopback URI, whatever URIs exist.
THEOREM CodesStayOnLoopback == Spec => []CodesGoToTheRequestersLoopback
<1>1. FlowInv => CodesGoToTheRequestersLoopback
  BY DEF FlowInv, PendingAreOpenRequests, LoginsAreOnePerKey, RedirectsAreOnePerLogin,
     CodesGoToTheRequestersLoopback
<1> QED
  BY <1>1, FlowInvariance, PTL

\* Whatever the URIs and states, a client whose redirect is well formed finds
\* in it the code, and the state of the very request the code is for.
THEOREM CodesAreRead == Spec => []ClientsReadTheirCode
<1>1. FlowInv => ClientsReadTheirCode
  BY DEF FlowInv, RedirectsAreOnePerLogin, ClientsReadTheirCode, Delivered
<1> QED
  BY <1>1, FlowInvariance, PTL

\* The session of a code that /token accepts is in the store, and as old as it.
LEMMA GrantedSessionIsThere ==
  ASSUME TypeOK, FlowInv, NEW c, NEW secret, NEW code, NEW v,
         HandleToken(c, secret, code, v), NEW g, g \in grants', g \notin grants
  PROVE  /\ g.session \in DOMAIN sessions
         /\ sessions[g.session].createdAt <= now
         /\ now - sessions[g.session].createdAt <= CodeTTL
         /\ g.expires = now + SessionTTL
<1>1. /\ code \in DOMAIN codes /\ CodeAccepted(c, code, v)
      /\ g.session = codes[code].session /\ g.expires = now + SessionTTL
  BY DEF HandleToken, GetAuthCode, ExpiresIn
<1>2. now \in Nat /\ codes[code].createdAt \in Nat
  BY <1>1 DEF TypeOK, IsMap, AuthCode
<1>3. /\ now - codes[code].createdAt <= CodeTTL
      /\ ~OlderThan(codes[code], SessionTTL, now)
  BY <1>1, <1>2, TTLAssumption DEF CodeAccepted, OlderThan
<1>4. /\ codes[code].createdAt = logins[g.session].createdAt
      /\ codes[code].createdAt <= now
      /\ g.session \in DOMAIN sessions \/ OlderThan(codes[code], SessionTTL, now)
  BY <1>1 DEF FlowInv, CodesMatchTheirRedirects, RedirectsAreOnePerLogin
<1>5. /\ g.session \in DOMAIN sessions
      /\ sessions[g.session].createdAt = codes[code].createdAt
  BY <1>3, <1>4 DEF FlowInv, LoginsAreOnePerKey
<1> QED
  BY <1>1, <1>3, <1>4, <1>5

\* A bearer token is granted while its session is in the store, and what is
\* announced as its expiry is the session's own, or later by CodeTTL at most.
THEOREM ExpiryIsAnnounced == Spec => ExpiresInIsNearlyTrue
<1>1. TypeOK /\ FlowInv /\ [Next]_vars =>
        [\A g \in grants' \ grants :
           /\ g.session \in DOMAIN sessions
           /\ g.expires - (sessions[g.session].createdAt + SessionTTL) \in 0..CodeTTL]_vars
  <2> SUFFICES ASSUME TypeOK, FlowInv, Next, NEW g, g \in grants', g \notin grants
               PROVE  /\ g.session \in DOMAIN sessions
                      /\ g.expires - (sessions[g.session].createdAt + SessionTTL) \in 0..CodeTTL
    OBVIOUS
  <2>1. PICK c \in ClientIds, secret \in ClientIds \cup {""}, code \in Codes, v \in Verifiers :
          HandleToken(c, secret, code, v)
    BY DEF Next, HandleRegister, HandleAuthorize, HandleCallback, ExchangeFails, ExchangeSucceeds,
       RedirectWithCode, Sweep, SweepTick, SweepSessions, SweepPending, SweepCodes, Restart,
       Tick, history
  <2>2. /\ g.session \in DOMAIN sessions
        /\ sessions[g.session].createdAt <= now
        /\ now - sessions[g.session].createdAt <= CodeTTL
        /\ g.expires = now + SessionTTL
    BY <2>1, GrantedSessionIsThere
  <2>3. now \in Nat /\ sessions[g.session].createdAt \in Nat
    BY <2>2 DEF TypeOK, IsMap, Session
  <2>4. (now + SessionTTL) - (sessions[g.session].createdAt + SessionTTL) \in 0..CodeTTL
    BY <2>2, <2>3, AnnouncedLater
  <2> QED
    BY <2>2, <2>4, Zenon
<1> QED
  BY <1>1, TypeCorrect, FlowInvariance, PTL DEF Spec, ExpiresInIsNearlyTrue

\* The cleanup never removes anything that has not expired.
THEOREM SweepIsSafe == Spec => SweepRemovesOnlyExpired
<1>1. TypeOK /\ FlowInv /\ Sweep =>
        /\ DOMAIN sessions \ DOMAIN sessions' \subseteq Expired(sessions, SessionTTL, now)
        /\ DOMAIN pending \ DOMAIN pending' \subseteq Expired(pending, PendingTTL, now)
        /\ DOMAIN codes \ DOMAIN codes' \subseteq Expired(codes, CodeTTL, now)
  <2> SUFFICES ASSUME TypeOK, FlowInv, Sweep
               PROVE  /\ DOMAIN sessions \ DOMAIN sessions' \subseteq Expired(sessions, SessionTTL, now)
                      /\ DOMAIN pending \ DOMAIN pending' \subseteq Expired(pending, PendingTTL, now)
                      /\ DOMAIN codes \ DOMAIN codes' \subseteq Expired(codes, CodeTTL, now)
    OBVIOUS
  <2>1. now \in Nat /\ sweep.now \in Nat /\ sweep.now <= now
    BY DEF TypeOK, SweepPoint, FlowInv
  <2>2. /\ DOMAIN sessions \ DOMAIN sessions' \subseteq Expired(sessions, SessionTTL, sweep.now)
        /\ DOMAIN pending \ DOMAIN pending' \subseteq Expired(pending, PendingTTL, sweep.now)
        /\ DOMAIN codes \ DOMAIN codes' \subseteq Expired(codes, CodeTTL, sweep.now)
    BY DEF Sweep, SweepTick, SweepSessions, SweepPending, SweepCodes, store, Without,
       Restrict, Expired
  <2>3. /\ Expired(sessions, SessionTTL, sweep.now) \subseteq Expired(sessions, SessionTTL, now)
        /\ Expired(pending, PendingTTL, sweep.now) \subseteq Expired(pending, PendingTTL, now)
        /\ Expired(codes, CodeTTL, sweep.now) \subseteq Expired(codes, CodeTTL, now)
    BY <2>1, TTLAssumption DEF Expired, OlderThan, TypeOK, IsMap, Session, PendingAuth, AuthCode
  <2> QED
    BY <2>2, <2>3
<1> QED
  BY <1>1, TypeCorrect, FlowInvariance, PTL DEF SweepRemovesOnlyExpired

\* While codes are still to be swept, no pending entry is older than the sweep
\* allows: new ones are younger than the sweep.
PendingIsSwept == sweep.at = "codes" => Expired(pending, PendingTTL, sweep.now) = {}

LEMMA YoungIsNotExpired ==
  ASSUME TypeOK, FlowInv, NEW e, e.createdAt = now
  PROVE  ~OlderThan(e, PendingTTL, sweep.now)
BY TTLAssumption DEF OlderThan, FlowInv, TypeOK, SweepPoint

\* Nothing can make an entry old enough for a sweep that has passed it.
THEOREM PendingStaysSwept == Spec => []PendingIsSwept
<1>1. Init => PendingIsSwept
  BY DEF Init, PendingIsSwept, SweepIdle
<1>2. TypeOK /\ FlowInv /\ PendingIsSwept /\ [Next]_vars => PendingIsSwept'
  <2> SUFFICES ASSUME TypeOK, FlowInv, PendingIsSwept, [Next]_vars
               PROVE  PendingIsSwept'
    OBVIOUS
  <2> USE DEF store, history
  <2>1. ASSUME UNCHANGED sweep,
               \A k \in DOMAIN pending' : k \in DOMAIN pending /\ pending'[k] = pending[k]
        PROVE  PendingIsSwept'
    BY <2>1 DEF PendingIsSwept, Expired, OlderThan
  <2>2. ASSUME NEW k \in PendingKeys, NEW c \in ClientIds, NEW uri \in URIs,
               NEW challenge \in Challenges, NEW state \in States,
               HandleAuthorize(k, c, uri, challenge, state)
        PROVE  PendingIsSwept'
    <3> DEFINE p == StampedPending(c, uri, challenge, state)
    <3>1. ~OlderThan(p, PendingTTL, sweep.now)
      BY YoungIsNotExpired DEF StampedPending
    <3>2. pending' = Put(pending, k, p) /\ UNCHANGED sweep
      BY <2>2 DEF HandleAuthorize, StorePending
    <3> HIDE DEF p
    <3>3. \A x \in DOMAIN pending' :
            \/ x = k /\ pending'[x] = p
            \/ x \in DOMAIN pending /\ pending'[x] = pending[x]
      BY <3>2 DEF Put
    <3> QED
      BY <3>1, <3>2, <3>3 DEF PendingIsSwept, Expired, OlderThan
  <2>3. ASSUME NEW h \in Handlers, NEW k \in PendingKeys, HandleCallback(h, k)
        PROVE  PendingIsSwept'
    BY <2>1, <2>3 DEF HandleCallback, GetPending, Without, Restrict
  <2>4. CASE Sweep
    <3>1. CASE SweepPending
      BY <3>1 DEF SweepPending, PendingIsSwept, Expired, OlderThan, Without, Restrict,
         TypeOK, SweepPoint
    <3>2. CASE SweepTick \/ SweepSessions \/ SweepCodes
      BY <3>2 DEF SweepTick, SweepSessions, SweepCodes, SweepIdle, PendingIsSwept, TypeOK,
         SweepPoint
    <3> QED
      BY <2>4, <3>1, <3>2 DEF Sweep
  <2>5. CASE Restart
    BY <2>5 DEF Restart, SweepIdle, PendingIsSwept
  <2>6. ASSUME UNCHANGED <<sweep, pending>>
        PROVE  PendingIsSwept'
    BY <2>1, <2>6
  <2>7. ASSUME \/ \E c \in ClientIds, uris \in SUBSET URIs, method \in AuthMethods :
                    HandleRegister(c, uris, method)
               \/ \E h \in Handlers : ExchangeFails(h)
               \/ \E h \in Handlers, s \in SessionIds : ExchangeSucceeds(h, s)
               \/ \E h \in Handlers, code \in Codes : RedirectWithCode(h, code)
               \/ \E c \in ClientIds, secret \in ClientIds \cup {""}, code \in Codes,
                     v \in Verifiers : HandleToken(c, secret, code, v)
               \/ Tick
               \/ UNCHANGED vars
        PROVE  UNCHANGED <<sweep, pending>>
    BY <2>7 DEF HandleRegister, ExchangeFails, ExchangeSucceeds, RedirectWithCode,
       HandleToken, Tick, vars
  <2> QED
    BY <2>2, <2>3, <2>4, <2>5, <2>6, <2>7 DEF Next
<1> QED
  BY <1>1, <1>2, TypeCorrect, FlowInvariance, PTL DEF Spec

\* A sweep removes all that had expired when it began, although it takes one lock
\* after the other and handlers run in between.
THEOREM SweepsAreThorough == Spec => SweepIsThorough
<1>1. TypeOK /\ PendingIsSwept /\ [Next]_vars =>
        [SweepCodes =>
           /\ Expired(pending', PendingTTL, sweep.now) = {}
           /\ Expired(codes', CodeTTL, sweep.now) = {}]_vars
  <2> SUFFICES ASSUME PendingIsSwept, SweepCodes
               PROVE  /\ Expired(pending', PendingTTL, sweep.now) = {}
                      /\ Expired(codes', CodeTTL, sweep.now) = {}
    OBVIOUS
  <2> QED
    BY DEF PendingIsSwept, SweepCodes, Expired, OlderThan, Without, Restrict
<1> QED
  BY <1>1, TypeCorrect, PendingStaysSwept, PTL DEF Spec, SweepIsThorough

\* A sweep removes what has expired, all of it and nothing else.
THEOREM SweepsAreExact == Spec => SweepIsExact
BY SweepIsSafe, SweepsAreThorough DEF SweepIsExact

-----------------------------------------------------------------------------
(* The login flow implements the one-time ticket. *)

\* A grant is for the code that was presented, and that code had not expired.
LEMMA GrantRedeems ==
  ASSUME TypeOK, NEW c, NEW secret, NEW code, NEW v, HandleToken(c, secret, code, v),
         grants' # grants
  PROVE  /\ {g.code : g \in grants'} = {g.code : g \in grants} \cup {code}
         /\ now - codes[code].createdAt <= CodeTTL
<1>1. /\ code \in DOMAIN codes /\ CodeAccepted(c, code, v)
      /\ grants' = grants \cup {[client |-> c, code |-> code, session |-> codes[code].session,
                                 verifier |-> v, expires |-> now + ExpiresIn]}
  BY DEF HandleToken, GetAuthCode
<1>2. now \in Nat /\ codes[code].createdAt \in Nat
  BY <1>1 DEF TypeOK, IsMap, AuthCode
<1>3. now - codes[code].createdAt <= CodeTTL
  BY <1>1, <1>2, TTLAssumption DEF CodeAccepted, OlderThan
<1> QED
  BY <1>1, <1>3

\* Every step of the flow either leaves the authorization codes alone or is a
\* step of the abstract ticket issuer: a redirect issues, an accepted /token
\* request redeems, and everything else that removes a code lets it lapse.
THEOREM CodesImplementTickets == Spec => CodesAreOneTimeTickets
<1> DEFINE born == [code \in DOMAIN redirects |-> redirects[code].at]
           live == DOMAIN codes
           redeemed == {g.code : g \in grants}
<1>1. Init => CodeTicket!TicketInit
  BY DEF Init, CodeTicket!TicketInit, CodeTicket!EmptyMap, EmptyMap
<1>2. TypeOK /\ FlowInv /\ [Next]_vars =>
        [CodeTicket!TicketNext]_(CodeTicket!ticketVars)
  <2> SUFFICES ASSUME TypeOK, FlowInv, [Next]_vars
               PROVE  [CodeTicket!TicketNext]_(CodeTicket!ticketVars)
    OBVIOUS
  <2>1. ASSUME UNCHANGED <<now, redirects, grants>>, live' \subseteq live
        PROVE  CodeTicket!TicketNext
    <3>1. live \ live' \in SUBSET Codes
      BY DEF TypeOK, IsMap
    <3>2. CodeTicket!Lapse(live \ live')
      BY <2>1 DEF CodeTicket!Lapse
    <3> QED
      BY <3>1, <3>2 DEF CodeTicket!TicketNext
  <2>2. ASSUME NEW h \in Handlers, NEW code \in Codes, RedirectWithCode(h, code)
        PROVE  CodeTicket!TicketNext
    <3>1. /\ code \notin DOMAIN redirects
          /\ live' = live \cup {code}
          /\ UNCHANGED <<now, grants>>
      BY <2>2 DEF RedirectWithCode, StoreAuthCode, Put
    <3>2. born' = Put(born, code, now)
      BY <2>2, <3>1 DEF RedirectWithCode, StoreAuthCode, Put
    <3>3. CodeTicket!Issue(code)
      BY <3>1, <3>2 DEF CodeTicket!Issue, CodeTicket!Put, Put
    <3> QED
      BY <3>3 DEF CodeTicket!TicketNext
  <2>3. ASSUME NEW c \in ClientIds, NEW secret \in ClientIds \cup {""},
               NEW code \in Codes, NEW v \in Verifiers, HandleToken(c, secret, code, v)
        PROVE  CodeTicket!TicketNext
    <3>1. /\ code \in live /\ live' = live \ {code}
          /\ UNCHANGED <<now, redirects>>
      BY <2>3 DEF HandleToken, GetAuthCode, Without, Restrict
    <3>2. CASE grants' = grants
      BY <2>1, <3>1, <3>2
    <3>3. CASE grants' # grants
      <4>1. /\ redeemed' = redeemed \cup {code}
            /\ now - codes[code].createdAt <= CodeTTL
        BY <2>3, <3>3, GrantRedeems
      <4>2. now - born[code] <= CodeTTL
        BY <3>1, <4>1 DEF FlowInv, CodesMatchTheirRedirects
      <4>3. CodeTicket!Redeem(code)
        BY <3>1, <4>1, <4>2 DEF CodeTicket!Redeem
      <4> QED
        BY <4>3 DEF CodeTicket!TicketNext
    <3> QED
      BY <3>2, <3>3
  <2>4. CASE Sweep
    BY <2>1, <2>4 DEF Sweep, SweepTick, SweepSessions, SweepPending, SweepCodes, store,
       history, Without, Restrict
  <2>5. CASE Restart
    BY <2>1, <2>5 DEF Restart, EmptyMap, history
  <2>6. CASE Tick
    BY <2>6 DEF Tick, store, history, CodeTicket!TicketNext, CodeTicket!Advance
  <2>7. ASSUME UNCHANGED <<now, codes, redirects, grants>>
        PROVE  UNCHANGED CodeTicket!ticketVars
    BY <2>7 DEF CodeTicket!ticketVars
  <2>8. ASSUME \/ \E c \in ClientIds, uris \in SUBSET URIs, method \in AuthMethods :
                    HandleRegister(c, uris, method)
               \/ \E k \in PendingKeys, c \in ClientIds, uri \in URIs,
                     challenge \in Challenges, state \in States : HandleAuthorize(k, c, uri, challenge, state)
               \/ \E h \in Handlers, k \in PendingKeys : HandleCallback(h, k)
               \/ \E h \in Handlers : ExchangeFails(h)
               \/ \E h \in Handlers, s \in SessionIds : ExchangeSucceeds(h, s)
               \/ UNCHANGED vars
        PROVE  UNCHANGED <<now, codes, redirects, grants>>
    BY <2>8 DEF HandleRegister, HandleAuthorize, HandleCallback, ExchangeFails,
       ExchangeSucceeds, vars, store, history
  <2> QED
    BY <2>2, <2>3, <2>4, <2>5, <2>6, <2>7, <2>8 DEF Next
<1> QED
  BY <1>1, <1>2, TypeCorrect, FlowInvariance, PTL
     DEF Spec, CodesAreOneTimeTickets, CodeTicket!TicketSpec

\* /authorize issues a pending key, an unexpired /callback redeems it, and an
\* expired callback, the cleanup and a restart let keys lapse.
THEOREM KeysImplementTickets == Spec => PendingKeysAreOneTimeTickets
<1> DEFINE born == [k \in DOMAIN requests |-> requests[k].createdAt]
           live == DOMAIN pending
<1>1. Init => KeyTicket!TicketInit
  BY DEF Init, KeyTicket!TicketInit, KeyTicket!EmptyMap, EmptyMap
<1>2. TypeOK /\ FlowInv /\ [Next]_vars =>
        [KeyTicket!TicketNext]_(KeyTicket!ticketVars)
  <2> SUFFICES ASSUME TypeOK, FlowInv, [Next]_vars
               PROVE  [KeyTicket!TicketNext]_(KeyTicket!ticketVars)
    OBVIOUS
  <2>1. ASSUME UNCHANGED <<now, requests, accepted>>, live' \subseteq live
        PROVE  KeyTicket!TicketNext
    <3>1. live \ live' \in SUBSET PendingKeys
      BY DEF TypeOK, IsMap
    <3>2. KeyTicket!Lapse(live \ live')
      BY <2>1 DEF KeyTicket!Lapse
    <3> QED
      BY <3>1, <3>2 DEF KeyTicket!TicketNext
  <2>2. ASSUME NEW k \in PendingKeys, NEW c \in ClientIds, NEW uri \in URIs,
               NEW challenge \in Challenges, NEW state \in States,
               HandleAuthorize(k, c, uri, challenge, state)
        PROVE  KeyTicket!TicketNext
    <3>1. /\ k \notin DOMAIN requests
          /\ live' = live \cup {k}
          /\ UNCHANGED <<now, accepted>>
      BY <2>2 DEF HandleAuthorize, StorePending, Put
    <3>2. born' = Put(born, k, now)
      BY <2>2, <3>1 DEF HandleAuthorize, StorePending, StampedPending, Put
    <3>3. KeyTicket!Issue(k)
      BY <3>1, <3>2 DEF KeyTicket!Issue, KeyTicket!Put, Put
    <3> QED
      BY <3>3 DEF KeyTicket!TicketNext
  <2>3. ASSUME NEW h \in Handlers, NEW k \in PendingKeys, HandleCallback(h, k)
        PROVE  KeyTicket!TicketNext
    <3>1. /\ k \in live /\ live' = live \ {k}
          /\ UNCHANGED <<now, requests>>
      BY <2>3 DEF HandleCallback, GetPending, Without, Restrict
    <3>2. CASE OlderThan(pending[k], PendingTTL, now)
      BY <2>1, <2>3, <3>1, <3>2 DEF HandleCallback
    <3>3. CASE ~OlderThan(pending[k], PendingTTL, now)
      <4>1. accepted' = accepted \cup {k}
        BY <2>3, <3>3 DEF HandleCallback
      <4>2. k \in DOMAIN requests /\ born[k] = pending[k].createdAt
        BY <3>1 DEF FlowInv, PendingAreOpenRequests
      <4>3. now \in Nat /\ pending[k].createdAt \in Nat
        BY <3>1 DEF TypeOK, IsMap, PendingAuth
      <4>4. now - born[k] <= PendingTTL
        BY <3>3, <4>2, <4>3, TTLAssumption DEF OlderThan
      <4>5. KeyTicket!Redeem(k)
        BY <3>1, <4>1, <4>4 DEF KeyTicket!Redeem
      <4> QED
        BY <4>5 DEF KeyTicket!TicketNext
    <3> QED
      BY <3>2, <3>3
  <2>4. CASE Sweep
    BY <2>1, <2>4 DEF Sweep, SweepTick, SweepSessions, SweepPending, SweepCodes, store,
       history, Without, Restrict
  <2>5. CASE Restart
    BY <2>1, <2>5 DEF Restart, EmptyMap, history
  <2>6. CASE Tick
    BY <2>6 DEF Tick, store, history, KeyTicket!TicketNext, KeyTicket!Advance
  <2>7. ASSUME UNCHANGED <<now, pending, requests, accepted>>
        PROVE  UNCHANGED KeyTicket!ticketVars
    BY <2>7 DEF KeyTicket!ticketVars
  <2>8. ASSUME \/ \E c \in ClientIds, uris \in SUBSET URIs, method \in AuthMethods :
                    HandleRegister(c, uris, method)
               \/ \E h \in Handlers : ExchangeFails(h)
               \/ \E h \in Handlers, s \in SessionIds : ExchangeSucceeds(h, s)
               \/ \E h \in Handlers, code \in Codes : RedirectWithCode(h, code)
               \/ \E c \in ClientIds, secret \in ClientIds \cup {""}, code \in Codes,
                     v \in Verifiers : HandleToken(c, secret, code, v)
               \/ UNCHANGED vars
        PROVE  UNCHANGED <<now, pending, requests, accepted>>
    BY <2>8 DEF HandleRegister, ExchangeFails, ExchangeSucceeds, RedirectWithCode,
       HandleToken, vars, store, history
  <2> QED
    BY <2>2, <2>3, <2>4, <2>5, <2>6, <2>7, <2>8 DEF Next
<1> QED
  BY <1>1, <1>2, TypeCorrect, FlowInvariance, PTL
     DEF Spec, PendingKeysAreOneTimeTickets, KeyTicket!TicketSpec
=============================================================================
