-------------------------- MODULE AuthServerProofs --------------------------
(* What holds of the whole authentication, for every number of clients,        *)
(* logins and requests, and every TTL and delay within the assumptions.  What  *)
(* OAuthFlowProofs shows of the login flow is cited; the facts about requests  *)
(* are shown again here, of the middleware under its server's names.           *)
EXTENDS AuthServer, OAuthFlowProofs, SequenceTheorems

-----------------------------------------------------------------------------
(* Steps of requests *)

\* No request appears, and none changes its session.
SameCallers ==
  /\ IsMap(serving', Requests, Web!Request)
  /\ \A q \in DOMAIN serving' :
       q \in DOMAIN serving /\ serving'[q].session = serving[q].session

\* The session of a request stays a session, with the time it was created.
SameSessions ==
  /\ IsMap(session', SessionIds, Web!Session)
  /\ DOMAIN session' = DOMAIN session
  /\ \A s \in DOMAIN session : session'[s].createdAt = session[s].createdAt

\* Going to another program counter changes nothing else of a request.
LEMMA GotoType ==
  ASSUME ServerTypeOK, NEW r \in DOMAIN serving, NEW pc \in Web!PCs, Web!Goto(r, pc)
  PROVE  SameCallers
BY DEF ServerTypeOK, Web!Goto, SameCallers, IsMap, Web!Request

\* Nor does the return from a refresh, for its leader and for who waits.
LEMMA ReturnFreshType ==
  ASSUME ServerTypeOK, NEW r \in DOMAIN serving, Web!ReturnFresh(r)
  PROVE  SameCallers /\ IsMap(flight', SessionIds, Requests)
<1>1. IsMap(flight', SessionIds, Requests)
  BY WithoutType DEF ServerTypeOK, Web!ReturnFresh, Web!Without, Web!Restrict, Without, Restrict
<1>2. DOMAIN serving' = DOMAIN serving
  BY DEF Web!ReturnFresh
<1>3. serving[r] \in Web!Request /\ now \in Nat
  BY DEF ServerTypeOK, TypeOK, IsMap
<1>4. ASSUME NEW q \in DOMAIN serving
      PROVE  serving'[q] \in Web!Request /\ serving'[q].session = serving[q].session
  <2>1. CASE q \in Web!Party(r)
    <3>1. serving'[q] = [pc |-> "update", session |-> Web!Of(r), access |-> 0, refresh |-> 0,
                         since |-> now]
      BY <2>1 DEF Web!ReturnFresh
    <3>2. Web!Of(q) = Web!Of(r)
      BY <2>1 DEF Web!Party
    <3> QED
      BY <1>3, <3>1, <3>2 DEF Web!Request, Web!PCs, Web!Of
  <2>2. CASE q \notin Web!Party(r)
    BY <2>2 DEF Web!ReturnFresh, ServerTypeOK, IsMap
  <2> QED
    BY <2>1, <2>2
<1> QED
  BY <1>1, <1>2, <1>4 DEF SameCallers, IsMap, ServerTypeOK

\* Requests may end.
LEMMA LeaveType ==
  ASSUME ServerTypeOK, NEW rs, serving' = Web!Without(serving, rs)
  PROVE  SameCallers
BY DEF ServerTypeOK, SameCallers, IsMap, Web!Without, Web!Restrict

\* Google's part of a refresh, whether its answer arrives or not.
LEMMA GoogleIssuesType ==
  ASSUME ServerTypeOK, Web!SessionsAreKept, NEW r \in Requests, NEW rotate \in BOOLEAN,
         Web!GoogleIssues(r, rotate)
  PROVE  /\ r \in DOMAIN serving /\ Web!Of(r) \in DOMAIN session
         /\ Web!Of(r) \in DOMAIN issued /\ Web!Of(r) \in DOMAIN rotation
         /\ Web!Of(r) \in DOMAIN lost
         /\ IsMap(issued', SessionIds, Seq(Nat)) /\ DOMAIN issued' = DOMAIN issued
         /\ IsMap(rotation', SessionIds, Nat) /\ DOMAIN rotation' = DOMAIN rotation
         /\ Len(issued'[Web!Of(r)]) \in Nat /\ rotation'[Web!Of(r)] \in Nat
<1> DEFINE s == Web!Of(r)
<1>1. r \in DOMAIN serving
  BY DEF Web!GoogleIssues, Web!At
<1>2. /\ s \in DOMAIN session /\ now \in Nat
      /\ s \in DOMAIN issued /\ s \in DOMAIN rotation /\ s \in DOMAIN lost
  BY <1>1 DEF ServerTypeOK, TypeOK, Web!SessionsAreKept
<1>3. issued[s] \in Seq(Nat) /\ rotation[s] \in Nat
  BY <1>2 DEF ServerTypeOK, IsMap
<1>4. Append(issued[s], now) \in Seq(Nat) /\ Len(Append(issued[s], now)) \in Nat
  BY <1>2, <1>3, AppendProperties
<1>5. /\ issued' = [issued EXCEPT ![s] = Append(@, now)]
      /\ rotation' = IF rotate THEN [rotation EXCEPT ![s] = Len(issued'[s])] ELSE rotation
  BY DEF Web!GoogleIssues
<1> HIDE DEF s
<1>6. IsMap(issued', SessionIds, Seq(Nat)) /\ DOMAIN issued' = DOMAIN issued
  BY <1>2, <1>4, <1>5 DEF ServerTypeOK, IsMap
<1>7. Len(issued'[s]) \in Nat
  BY <1>2, <1>4, <1>5
<1>8. IsMap(rotation', SessionIds, Nat) /\ DOMAIN rotation' = DOMAIN rotation
  BY <1>5, <1>7 DEF ServerTypeOK, IsMap
<1> QED
  BY <1>1, <1>2, <1>6, <1>7, <1>8 DEF IsMap, s

\* What the steps of Serve and Reply have in common.
LEMMA RequestStep ==
  ASSUME ServerTypeOK, Web!SessionsAreKept, NEW r \in Requests, Web!Serve(r) \/ Web!Reply(r)
  PROVE  /\ SameCallers
         /\ SameSessions
         /\ IsMap(flight', SessionIds, Requests)
         /\ IsMap(issued', SessionIds, Seq(Nat)) /\ DOMAIN issued' = DOMAIN issued
         /\ IsMap(rotation', SessionIds, Nat) /\ DOMAIN rotation' = DOMAIN rotation
         /\ IsMap(lost', SessionIds, SUBSET Nat) /\ DOMAIN lost' = DOMAIN lost
         /\ bearers' = bearers \/ bearers' = bearers \cup {Web!Of(r)}
         /\ UNCHANGED <<now, SessionSweep, Created>>
         /\ r \in DOMAIN serving
<1> USE DEF Web!google
<1>1. r \in DOMAIN serving
  BY DEF Web!Serve, Web!Reply, Web!Refresh, Web!At, Web!EnsureFreshToken, Web!Do,
     Web!Recheck, Web!StartWrite, Web!WriteAccess, Web!WriteExpiry, Web!WriteRefresh,
     Web!UpdateSession, Web!ReadToken, Web!Answer, Web!Issue, Web!IssueUnheard,
     Web!GoogleIssues, Web!RefreshFails
<1>2. /\ serving[r] \in Web!Request /\ Web!Of(r) \in DOMAIN session /\ Web!Of(r) \in SessionIds
      /\ session[Web!Of(r)] \in Web!Session /\ now \in Nat
  BY <1>1 DEF ServerTypeOK, TypeOK, IsMap, Web!SessionsAreKept, Web!Of
<1>3. UNCHANGED session => SameSessions
  BY DEF SameSessions, ServerTypeOK
<1>4. CASE Web!EnsureFreshToken(r)
  <2>1. SameCallers
    <3>1. CASE Web!Fresh(Web!Of(r))
      <4>1. serving' = [serving EXCEPT ![r].pc = "update", ![r].since = now]
        BY <1>4, <3>1 DEF Web!EnsureFreshToken
      <4> QED
        BY <1>1, <1>2, <4>1 DEF SameCallers, ServerTypeOK, IsMap, Web!Request, Web!PCs
    <3>2. CASE ~Web!Fresh(Web!Of(r))
      BY <1>1, <1>4, <3>2, GotoType DEF Web!EnsureFreshToken, Web!PCs
    <3> QED
      BY <3>1, <3>2
  <2> QED
    BY <1>1, <1>3, <1>4, <2>1 DEF Web!EnsureFreshToken, ServerTypeOK
<1>5. CASE Web!Do(r)
  <2>1. SameCallers
    BY <1>1, <1>5, GotoType DEF Web!Do, Web!PCs
  <2>2. IsMap(flight', SessionIds, Requests)
    <3>1. IsMap(Web!Put(flight, Web!Of(r), r), SessionIds, Requests)
      BY <1>2 DEF ServerTypeOK, IsMap, Web!Put
    <3> QED
      BY <1>5, <3>1 DEF Web!Do, ServerTypeOK
  <2> QED
    BY <1>1, <1>3, <1>5, <2>1, <2>2 DEF Web!Do, ServerTypeOK
<1>6. CASE Web!Recheck(r)
  <2>1. SameCallers /\ IsMap(flight', SessionIds, Requests)
    <3>1. CASE Web!Fresh(Web!Of(r))
      BY <1>1, <1>6, <3>1, ReturnFreshType DEF Web!Recheck
    <3>2. CASE ~Web!Fresh(Web!Of(r))
      <4>1. serving' = [serving EXCEPT ![r].pc = "calling",
                                         ![r].refresh = session[Web!Of(r)].refresh]
        BY <1>6, <3>2 DEF Web!Recheck
      <4>2. session[Web!Of(r)].refresh \in Nat
        BY <1>2 DEF Web!Session
      <4>3. SameCallers
        BY <1>1, <1>2, <4>1, <4>2 DEF SameCallers, ServerTypeOK, IsMap, Web!Request, Web!PCs
      <4> QED
        BY <1>6, <3>2, <4>3 DEF Web!Recheck, ServerTypeOK
    <3> QED
      BY <3>1, <3>2
  <2> QED
    BY <1>1, <1>3, <1>6, <2>1 DEF Web!Recheck, ServerTypeOK
<1>7. CASE Web!StartWrite(r)
  <2>1. SameCallers
    BY <1>1, <1>7, GotoType DEF Web!StartWrite, Web!PCs
  <2>2. SameSessions
    BY <1>2, <1>7 DEF Web!StartWrite, SameSessions, ServerTypeOK, IsMap, Web!Session, Web!Torn
  <2> QED
    BY <1>1, <1>7, <2>1, <2>2 DEF Web!StartWrite, ServerTypeOK
<1>8. CASE Web!WriteAccess(r)
  <2>1. SameCallers
    BY <1>1, <1>8, GotoType DEF Web!WriteAccess, Web!PCs
  <2>2. SameSessions
    BY <1>2, <1>8 DEF Web!WriteAccess, SameSessions, ServerTypeOK, IsMap, Web!Session, Web!Request
  <2> QED
    BY <1>1, <1>8, <2>1, <2>2 DEF Web!WriteAccess, ServerTypeOK
<1>9. CASE Web!WriteExpiry(r)
  <2>1. SameCallers
    BY <1>1, <1>9, GotoType DEF Web!WriteExpiry, Web!PCs
  <2>2. SameSessions
    <3>1. now + TokenLife \in Nat
      BY <1>2, DelayAssumption
    <3> QED
      BY <1>2, <1>9, <3>1 DEF Web!WriteExpiry, SameSessions, ServerTypeOK, IsMap, Web!Session
  <2> QED
    BY <1>1, <1>9, <2>1, <2>2 DEF Web!WriteExpiry, ServerTypeOK
<1>10. CASE Web!WriteRefresh(r)
  <2>1. SameCallers /\ IsMap(flight', SessionIds, Requests)
    BY <1>1, <1>10, ReturnFreshType DEF Web!WriteRefresh
  <2>2. SameSessions
    BY <1>2, <1>3, <1>10 DEF Web!WriteRefresh, SameSessions, ServerTypeOK, IsMap,
         Web!Session, Web!Request
  <2> QED
    BY <1>1, <1>10, <2>1, <2>2 DEF Web!WriteRefresh, ServerTypeOK
<1>11. CASE Web!UpdateSession(r)
  <2>1. SameCallers
    BY <1>1, <1>11, GotoType DEF Web!UpdateSession, Web!PCs
  <2> QED
    BY <1>1, <1>3, <1>11, <2>1 DEF Web!UpdateSession, ServerTypeOK
<1>12. CASE Web!ReadToken(r)
  <2>1. SameCallers
    BY <1>1, <1>2, <1>12 DEF Web!ReadToken, SameCallers, ServerTypeOK, IsMap, Web!Request,
         Web!PCs, Web!Session
  <2> QED
    BY <1>1, <1>3, <1>12, <2>1 DEF Web!ReadToken, ServerTypeOK
<1>13. CASE Web!Answer(r)
  <2>1. SameCallers
    BY <1>13, LeaveType DEF Web!Answer
  <2> QED
    BY <1>1, <1>3, <1>13, <2>1 DEF Web!Answer, ServerTypeOK
<1>14. ASSUME NEW rotate \in BOOLEAN, Web!GoogleIssues(r, rotate)
       PROVE  /\ SameSessions
              /\ UNCHANGED <<now, bearers, session, flight, SessionSweep, Created>>
              /\ IsMap(issued', SessionIds, Seq(Nat)) /\ DOMAIN issued' = DOMAIN issued
              /\ IsMap(rotation', SessionIds, Nat) /\ DOMAIN rotation' = DOMAIN rotation
  BY <1>3, <1>14, GoogleIssuesType DEF Web!GoogleIssues
<1>15. ASSUME NEW rotate \in BOOLEAN, Web!Issue(r, rotate)
       PROVE  SameCallers /\ UNCHANGED lost
  <2> DEFINE a == Len(issued'[Web!Of(r)])
             b == IF rotate THEN rotation'[Web!Of(r)] ELSE Web!NoToken
  <2>1. a \in Nat /\ b \in Nat
    BY <1>15, GoogleIssuesType DEF Web!Issue, Web!NoToken
  <2>2. /\ serving' = [serving EXCEPT ![r].pc = "answered", ![r].since = now,
                                      ![r].access = a, ![r].refresh = b]
        /\ UNCHANGED lost
    BY <1>15 DEF Web!Issue
  <2> HIDE DEF a, b
  <2> QED
    BY <1>1, <1>2, <2>1, <2>2, SMTT(30) DEF SameCallers, ServerTypeOK, IsMap, Web!Request, Web!PCs
<1>16. ASSUME NEW rotate \in BOOLEAN, Web!IssueUnheard(r, rotate)
       PROVE  /\ SameCallers
              /\ IsMap(lost', SessionIds, SUBSET Nat) /\ DOMAIN lost' = DOMAIN lost
  <2>1. SameCallers
    BY <1>1, <1>16, GotoType DEF Web!IssueUnheard, Web!PCs
  <2>2. Len(issued'[Web!Of(r)]) \in Nat /\ Web!Of(r) \in DOMAIN lost
    BY <1>16, GoogleIssuesType DEF Web!IssueUnheard
  <2>3. lost' = [lost EXCEPT ![Web!Of(r)] = @ \cup {Len(issued'[Web!Of(r)])}]
    BY <1>16 DEF Web!IssueUnheard
  <2>4. IsMap(lost', SessionIds, SUBSET Nat) /\ DOMAIN lost' = DOMAIN lost
    BY <2>2, <2>3 DEF ServerTypeOK, IsMap
  <2> QED
    BY <2>1, <2>4
<1>17. CASE Web!RefreshFails(r)
  <2>1. SameCallers
    BY <1>17, LeaveType DEF Web!RefreshFails, Web!ReturnError
  <2>2. IsMap(flight', SessionIds, Requests)
    BY <1>17, WithoutType DEF Web!RefreshFails, Web!ReturnError, ServerTypeOK, Web!Without,
       Web!Restrict, Without, Restrict
  <2> QED
    BY <1>1, <1>3, <1>17, <2>1, <2>2 DEF Web!RefreshFails, ServerTypeOK
<1> QED
  BY <1>1, <1>4, <1>5, <1>6, <1>7, <1>8, <1>9, <1>10, <1>11, <1>12, <1>13, <1>14, <1>15,
     <1>16, <1>17 DEF Web!Serve, Web!Refresh, Web!Reply, Web!Issue, Web!IssueUnheard, ServerTypeOK

-----------------------------------------------------------------------------
(* The parts side by side *)

\* The handlers and sweeps of the login flow alone touch nothing that the
\* middleware sees, and only ever add to what has been granted.
LEMMA LoginFlowStep ==
  ASSUME LoginFlow
  PROVE  /\ Next
         /\ UNCHANGED <<now, sessions, logins, mcpVars>>
         /\ grants \subseteq grants'
<1> USE DEF store, history
<1>1. Next /\ UNCHANGED mcpVars
  BY DEF LoginFlow, Next, Sweep
<1>2. UNCHANGED <<now, sessions, logins>> /\ grants \subseteq grants'
  BY DEF LoginFlow, HandleRegister, HandleAuthorize, HandleCallback, ExchangeFails,
     RedirectWithCode, HandleToken, SweepPending, SweepCodes
<1> QED
  BY <1>1, <1>2

\* While the cleanup is about pending entries and codes, the middleware sees it idle.
LEMMA LoginFlowSweep ==
  ASSUME TypeOK, LoginFlow
  PROVE  UNCHANGED SessionSweep
<1>1. CASE UNCHANGED sweep
  BY <1>1 DEF SessionSweep
<1>2. CASE SweepPending \/ SweepCodes
  <2>1. sweep.at # "sessions" /\ sweep'.at # "sessions"
    BY <1>2 DEF SweepPending, SweepCodes, SweepIdle, TypeOK, SweepPoint
  <2> QED
    BY <2>1 DEF SessionSweep
<1> QED
  BY <1>1, <1>2 DEF LoginFlow, HandleRegister, HandleAuthorize, HandleCallback,
     ExchangeFails, RedirectWithCode, HandleToken

\* The end of a login is a step of both parts.
LEMMA LoginStep ==
  ASSUME NEW h \in Handlers, NEW s \in SessionIds, NEW issue \in 0..now,
         NEW arrival \in 0..now, Login(h, s, issue, arrival)
  PROVE  /\ Next /\ Web!CreateSession(s, issue, arrival)
         /\ s \notin DOMAIN logins
         /\ DOMAIN sessions' = DOMAIN sessions \cup {s}
         /\ DOMAIN logins' = DOMAIN logins \cup {s} /\ logins'[s].createdAt = now
         /\ \A x \in DOMAIN logins : logins'[x] = logins[x]
         /\ UNCHANGED <<now, grants, sweep, requests, registered, accepted, redirects>>
BY DEF Login, ExchangeSucceeds, CreateSession, Put, Next

\* So is the cleanup of sessions, ...
LEMMA CleanStep ==
  ASSUME CleanSessions
  PROVE  /\ Next /\ (Web!SweepTick \/ Web!SweepSessions)
         /\ DOMAIN sessions' \subseteq DOMAIN sessions
         /\ UNCHANGED <<now, history>>
BY DEF CleanSessions, SweepTick, SweepSessions, Without, Restrict, Next, Sweep, store

\* ... and every step of the server is one of the login flow, or none, ...
LEMMA ServerStepIsFlow ==
  ASSUME [ServerNext]_serverVars
  PROVE  [Next]_vars
<1>1. CASE LoginFlow
  BY <1>1, LoginFlowStep
<1>2. ASSUME NEW h \in Handlers, NEW s \in SessionIds, NEW issue \in 0..now,
             NEW arrival \in 0..now, Login(h, s, issue, arrival)
      PROVE  Next
  BY <1>2, LoginStep
<1>3. CASE CleanSessions
  BY <1>3, CleanStep
<1>4. CASE RestartServer \/ ServerTick
  BY <1>4 DEF RestartServer, ServerTick, Next
<1> QED
  BY <1>1, <1>2, <1>3, <1>4 DEF ServerNext, serverVars, HandleMcp, ServeMcp

\* What /token hands out is the id of a session.
LEMMA GrantedIsSession ==
  ASSUME TypeOK
  PROVE  Granted \subseteq SessionIds
BY DEF TypeOK, Granted, Grant

\* ... and one of the middleware, or none.
LEMMA ServerStepIsWeb ==
  ASSUME TypeOK, [ServerNext]_serverVars
  PROVE  [Web!Next]_(Web!vars)
<1>1. CASE LoginFlow
  BY <1>1, LoginFlowStep, LoginFlowSweep DEF Web!vars, Web!google, mcpVars, Created
<1>2. ASSUME NEW h \in Handlers, NEW s \in SessionIds, NEW issue \in 0..now,
             NEW arrival \in 0..now, Login(h, s, issue, arrival)
      PROVE  Web!Next
  BY <1>2 DEF Login, Web!Next
<1>3. CASE CleanSessions
  BY <1>3 DEF CleanSessions, Web!Next, Web!Sweep
<1>4. CASE RestartServer \/ ServerTick
  BY <1>4 DEF RestartServer, ServerTick, Web!Next
<1>5. ASSUME NEW r \in Requests, NEW s \in Granted, HandleMcp(r, s)
      PROVE  Web!Next
  BY <1>5, GrantedIsSession DEF HandleMcp, Web!Next
<1>6. ASSUME NEW r \in Requests, ServeMcp(r)
      PROVE  Web!Next
  BY <1>6 DEF ServeMcp, Web!Next
<1>7. CASE UNCHANGED serverVars
  BY <1>7 DEF serverVars, vars, store, history, mcpVars, Web!vars, Web!google, Created,
     SessionSweep
<1> QED
  BY <1>1, <1>2, <1>3, <1>4, <1>5, <1>6, <1>7 DEF ServerNext

\* The server is a login flow: all that OAuthFlowProofs shows is true of it.
THEOREM ServerRunsTheLoginFlow == ServerSpec => Spec
BY ServerStepIsFlow, PTL DEF ServerSpec, ServerInit, Spec

\* And it is a middleware over a store of sessions: so is all of MiddlewareProofs.
THEOREM ServerRunsTheMiddleware == ServerSpec => Web!Spec
<1>1. ServerInit => Web!Init
  BY DEF ServerInit, Init, Web!Init, SweepIdle, SessionSweep, Created, EmptyMap, Web!EmptyMap
<1> QED
  BY <1>1, ServerStepIsWeb, ServerRunsTheLoginFlow, TypeCorrect, PTL DEF ServerSpec, Web!Spec
-----------------------------------------------------------------------------
(* The invariant *)

\* No step of the login flow by itself costs a session its place.
LEMMA LoginFlowKeepsInv ==
  ASSUME ServerTypeOK, TypeOK', PartsAgree, LoginFlow
  PROVE  ServerTypeOK' /\ PartsAgree'
<1>1. UNCHANGED <<now, sessions, logins, SessionSweep, mcpVars>> /\ grants \subseteq grants'
  BY LoginFlowStep, LoginFlowSweep DEF ServerTypeOK
<1>2. ServerTypeOK'
  BY <1>1 DEF ServerTypeOK, mcpVars
<1>3. Web!SessionsAreKept'
  BY <1>1 DEF PartsAgree, Web!SessionsAreKept, Web!OlderThan, Web!Of, Created, mcpVars
<1> QED
  BY <1>1, <1>2, <1>3 DEF PartsAgree, mcpVars

\* A login adds a session that nobody has had before, to both sides at once.
LEMMA LoginKeepsInv ==
  ASSUME ServerTypeOK, TypeOK', PartsAgree, NEW h \in Handlers, NEW s \in SessionIds,
         NEW issue \in 0..now, NEW arrival \in 0..now, Login(h, s, issue, arrival)
  PROVE  ServerTypeOK' /\ PartsAgree'
<1> DEFINE sess == Web!StampedSession(arrival)
<1>1. now \in Nat /\ issue \in Nat /\ arrival \in Nat /\ arrival + TokenLife \in Nat
  BY DelayAssumption DEF ServerTypeOK, TypeOK
<1>2. sess \in Web!Session /\ sess.createdAt = now
  BY <1>1 DEF Web!StampedSession, Web!Session
<1> HIDE DEF sess
<1>3. /\ s \notin DOMAIN logins
      /\ DOMAIN sessions' = DOMAIN sessions \cup {s}
      /\ DOMAIN logins' = DOMAIN logins \cup {s} /\ logins'[s].createdAt = now
      /\ \A x \in DOMAIN logins : logins'[x] = logins[x]
      /\ UNCHANGED <<now, grants, sweep>>
  BY LoginStep
<1>4. /\ session' = Web!Put(session, s, sess) /\ bearers' = bearers \cup {s}
      /\ issued' = Web!Put(issued, s, <<issue>>) /\ rotation' = Web!Put(rotation, s, 1)
      /\ lost' = Web!Put(lost, s, {}) /\ UNCHANGED <<flight, serving>>
  BY LoginStep DEF Web!CreateSession, sess
<1>5. DOMAIN issued = DOMAIN logins /\ DOMAIN rotation = DOMAIN logins
      /\ DOMAIN lost = DOMAIN logins
      /\ DOMAIN session \subseteq DOMAIN logins
  BY DEF PartsAgree, Web!SessionsAreKept, Created
<1>6. /\ DOMAIN session' = DOMAIN session \cup {s} /\ session'[s] = sess
      /\ \A x \in DOMAIN session : session'[x] = session[x]
      /\ DOMAIN issued' = DOMAIN issued \cup {s} /\ issued'[s] = <<issue>>
      /\ \A x \in DOMAIN issued : issued'[x] = issued[x]
      /\ DOMAIN rotation' = DOMAIN rotation \cup {s} /\ rotation'[s] = 1
      /\ \A x \in DOMAIN rotation : rotation'[x] = rotation[x]
      /\ DOMAIN lost' = DOMAIN lost \cup {s} /\ lost'[s] = {}
      /\ \A x \in DOMAIN lost : lost'[x] = lost[x]
  BY <1>3, <1>4, <1>5 DEF Web!Put
<1>7. <<issue>> \in Seq(Nat) /\ Len(<<issue>>) = 1
  BY <1>1
<1>8. ServerTypeOK'
  <2> DEFINE first == <<issue>>
  <2>1. first \in Seq(Nat) /\ issued'[s] = first
    BY <1>6, <1>7
  <2> HIDE DEF first
  <2>2. IsMap(session', SessionIds, Web!Session) /\ IsMap(rotation', SessionIds, Nat)
    BY <1>2, <1>6 DEF ServerTypeOK, IsMap
  <2>3. IsMap(issued', SessionIds, Seq(Nat)) /\ IsMap(lost', SessionIds, SUBSET Nat)
    BY <1>6, <2>1 DEF ServerTypeOK, IsMap
  <2> QED
    BY <1>4, <1>6, <2>2, <2>3 DEF ServerTypeOK
<1>9. Web!SessionsAreKept'
  <2>1. SessionSweep' = SessionSweep
    BY <1>3 DEF SessionSweep
  <2>2. /\ DOMAIN Created' = DOMAIN Created \cup {s} /\ Created'[s] = now
        /\ \A x \in DOMAIN Created : Created'[x] = Created[x]
    BY <1>3 DEF Created
  <2> QED
    BY <1>2, <1>3, <1>4, <1>6, <2>1, <2>2 DEF PartsAgree, Web!SessionsAreKept, Web!OlderThan,
       Web!Of
<1>10. \A x \in DOMAIN logins' : logins'[x].createdAt <= now
  BY <1>1, <1>3 DEF PartsAgree
<1> QED
  BY <1>3, <1>4, <1>6, <1>8, <1>9, <1>10 DEF PartsAgree

\* A new request finds its session, or removes it because it has expired.
LEMMA HandleMcpKeepsInv ==
  ASSUME ServerTypeOK, PartsAgree, NEW r \in Requests, NEW s \in SessionIds, HandleMcp(r, s)
  PROVE  ServerTypeOK' /\ PartsAgree'
<1>1. /\ s \in bearers /\ s \in DOMAIN session
      /\ UNCHANGED <<vars, session, flight, issued, rotation, lost>>
  BY DEF HandleMcp, Web!GetSession, Web!google, ServerTypeOK
<1>2. UNCHANGED <<TypeOK, now, sessions, logins, SessionSweep, Created>>
  BY <1>1 DEF vars, store, history, TypeOK, SessionSweep, Created
<1>3. CASE Web!OlderThan(s, now)
  <2>1. bearers' = bearers \ {s} /\ UNCHANGED serving
    BY <1>3 DEF HandleMcp, Web!GetSession
  <2> QED
    BY <1>1, <1>2, <1>3, <2>1 DEF ServerTypeOK, PartsAgree, Web!SessionsAreKept,
       Web!OlderThan, Web!Of
<1>4. CASE ~Web!OlderThan(s, now)
  <2> DEFINE e == [pc |-> "ensure", session |-> s, access |-> 0, refresh |-> 0, since |-> 0]
  <2>1. serving' = Web!Put(serving, r, e) /\ UNCHANGED bearers
    BY <1>4 DEF HandleMcp, Web!GetSession
  <2>2. e \in Web!Request /\ e.session = s
    BY DEF Web!Request, Web!PCs
  <2> HIDE DEF e
  <2>3. IsMap(serving', Requests, Web!Request)
    BY <2>1, <2>2 DEF ServerTypeOK, IsMap, Web!Put
  <2>4. \A q \in DOMAIN serving' : serving'[q].session \in DOMAIN session
    BY <1>1, <2>1, <2>2 DEF Web!Put, PartsAgree, Web!SessionsAreKept, Web!Of
  <2> QED
    BY <1>1, <1>2, <2>1, <2>3, <2>4 DEF ServerTypeOK, PartsAgree, Web!SessionsAreKept,
       Web!OlderThan, Web!Of
<1> QED
  BY <1>3, <1>4

\* What a request does, up to its answer, it does to its own session.
LEMMA ServeMcpKeepsInv ==
  ASSUME ServerTypeOK, PartsAgree, NEW r \in Requests, ServeMcp(r)
  PROVE  ServerTypeOK' /\ PartsAgree'
<1>1. /\ SameCallers /\ SameSessions
      /\ IsMap(flight', SessionIds, Requests)
      /\ IsMap(issued', SessionIds, Seq(Nat)) /\ DOMAIN issued' = DOMAIN issued
      /\ IsMap(rotation', SessionIds, Nat) /\ DOMAIN rotation' = DOMAIN rotation
      /\ IsMap(lost', SessionIds, SUBSET Nat) /\ DOMAIN lost' = DOMAIN lost
      /\ bearers' = bearers \/ bearers' = bearers \cup {Web!Of(r)}
      /\ r \in DOMAIN serving
  BY RequestStep DEF ServeMcp, PartsAgree
<1>2. UNCHANGED vars
  BY DEF ServeMcp
<1>3. UNCHANGED <<TypeOK, now, sessions, logins, SessionSweep, Created>>
  BY <1>2 DEF vars, store, history, TypeOK, SessionSweep, Created
<1>4. Web!Of(r) \in DOMAIN session
  BY <1>1 DEF PartsAgree, Web!SessionsAreKept, Web!Of
<1>5. ServerTypeOK'
  BY <1>1, <1>3, <1>4 DEF ServerTypeOK, SameCallers, SameSessions
<1>6. Web!SessionsAreKept'
  BY <1>1, <1>3, <1>4 DEF PartsAgree, Web!SessionsAreKept, SameCallers, SameSessions,
     Web!OlderThan, Web!Of
<1> QED
  BY <1>1, <1>3, <1>5, <1>6 DEF PartsAgree, SameCallers, SameSessions

\* The cleanup decides with an old time, by which less has expired.
LEMMA CleanKeepsInv ==
  ASSUME ServerTypeOK, TypeOK', PartsAgree, CleanSessions
  PROVE  ServerTypeOK' /\ PartsAgree'
<1>1. /\ Web!SweepTick \/ Web!SweepSessions
      /\ DOMAIN sessions' \subseteq DOMAIN sessions
      /\ UNCHANGED <<now, history>>
  BY CleanStep
<1>2. UNCHANGED <<session, flight, serving, issued, rotation, lost, Created>>
  BY <1>1 DEF Web!SweepTick, Web!SweepSessions, Web!google
<1>3. now \in Nat /\ SessionSweep.now \in Nat /\ SessionSweep.now <= now
  BY DEF ServerTypeOK, TypeOK, SweepPoint, SessionSweep, PartsAgree, Web!SessionsAreKept
<1>4. SessionSweep'.now <= now
  BY <1>1, <1>3 DEF Web!SweepTick, Web!SweepSessions
<1>5. bearers' \subseteq bearers
  BY <1>1 DEF Web!SweepTick, Web!SweepSessions
<1>6. \A s \in bearers : s \in bearers' \/ Web!OlderThan(s, now)
  <2>1. ASSUME NEW s \in bearers, Web!OlderThan(s, SessionSweep.now)
        PROVE  Web!OlderThan(s, now)
    BY <1>3, <2>1, TTLAssumption DEF Web!OlderThan, ServerTypeOK, IsMap, Web!Session
  <2> QED
    BY <1>1, <2>1 DEF Web!SweepTick, Web!SweepSessions
<1>7. logins' = logins
  BY <1>1 DEF history
<1> QED
  BY <1>1, <1>2, <1>4, <1>5, <1>6, <1>7 DEF ServerTypeOK, PartsAgree, Web!SessionsAreKept,
     Web!OlderThan, Web!Of

\* A restart forgets sessions and requests on both sides.
LEMMA RestartServerKeepsInv ==
  ASSUME ServerTypeOK, TypeOK', PartsAgree, RestartServer
  PROVE  ServerTypeOK' /\ PartsAgree'
<1>1. /\ DOMAIN sessions' = {} /\ sweep' = SweepIdle
      /\ UNCHANGED <<now, logins, grants, issued, rotation, lost, Created>>
  BY DEF RestartServer, Restart, Web!Restart, Web!google, EmptyMap, history
<1>2. /\ bearers' = {} /\ DOMAIN session' = {} /\ DOMAIN flight' = {}
      /\ DOMAIN serving' = {}
  BY DEF RestartServer, Web!Restart, Web!EmptyMap
<1>3. now \in Nat
  BY DEF ServerTypeOK, TypeOK
<1>4. SessionSweep'.now <= now
  BY <1>1, <1>3 DEF SessionSweep, SweepIdle
<1> QED
  BY <1>1, <1>2, <1>4 DEF ServerTypeOK, IsMap, PartsAgree, Web!SessionsAreKept

\* With time sessions only get older.
LEMMA ServerTickKeepsInv ==
  ASSUME ServerTypeOK, TypeOK', PartsAgree, ServerTick
  PROVE  ServerTypeOK' /\ PartsAgree'
<1>1. /\ now' = now + 1
      /\ UNCHANGED <<sessions, logins, grants, sweep, mcpVars>>
  BY DEF ServerTick, Tick, Web!Tick, Web!google, mcpVars, store, history
<1>2. UNCHANGED <<SessionSweep, Created>>
  BY <1>1 DEF SessionSweep, Created
<1>3. now \in Nat /\ SessionSweep.now \in Nat /\ SessionSweep.now <= now
  BY DEF ServerTypeOK, TypeOK, SweepPoint, SessionSweep, PartsAgree, Web!SessionsAreKept
<1>4. \A s \in DOMAIN session : Web!OlderThan(s, now) => Web!OlderThan(s, now + 1)
  BY <1>3, TTLAssumption DEF Web!OlderThan, ServerTypeOK, IsMap, Web!Session
<1>5. SessionSweep.now <= now + 1 /\ \A s \in DOMAIN logins : logins[s].createdAt <= now + 1
  BY <1>3 DEF PartsAgree, ServerTypeOK, TypeOK, IsMap, Session
<1>6. ServerTypeOK'
  BY <1>1 DEF ServerTypeOK, mcpVars
<1>7. Web!SessionsAreKept'
  BY <1>1, <1>2, <1>4, <1>5 DEF PartsAgree, Web!SessionsAreKept, Web!OlderThan, Web!Of, mcpVars
<1> QED
  BY <1>1, <1>2, <1>5, <1>6, <1>7 DEF PartsAgree, mcpVars

\* Whatever the parts do to each other, both keep what the other relies on.
THEOREM ServerInvariance == ServerSpec => []ServerInv
<1>1. ServerInit => ServerTypeOK /\ PartsAgree
  <2> SUFFICES ASSUME ServerInit
               PROVE  ServerTypeOK /\ PartsAgree
    OBVIOUS
  <2>1. TypeOK
    BY EmptyMapType DEF ServerInit, Init, TypeOK, SweepIdle, SweepPoint
  <2> QED
    BY <2>1, EmptyMapType DEF ServerInit, Init, ServerTypeOK, PartsAgree, SweepIdle, SessionSweep,
       Created, Web!SessionsAreKept
<1>2. ServerTypeOK /\ TypeOK' /\ PartsAgree /\ [ServerNext]_serverVars
        => ServerTypeOK' /\ PartsAgree'
  <2> SUFFICES ASSUME ServerTypeOK, TypeOK', PartsAgree, [ServerNext]_serverVars
               PROVE  ServerTypeOK' /\ PartsAgree'
    OBVIOUS
  <2>1. CASE UNCHANGED serverVars
    <3>1. UNCHANGED <<now, sessions, logins, mcpVars, SessionSweep, Created>>
      BY <2>1 DEF serverVars, vars, store, history, SessionSweep, Created
    <3> QED
      BY <3>1 DEF ServerTypeOK, PartsAgree, Web!SessionsAreKept, Web!OlderThan, Web!Of, mcpVars
  <2>2. ASSUME NEW r \in Requests, NEW s \in Granted, HandleMcp(r, s)
        PROVE  ServerTypeOK' /\ PartsAgree'
    BY <2>2, GrantedIsSession, HandleMcpKeepsInv DEF ServerTypeOK
  <2> QED
    BY <2>1, <2>2, LoginFlowKeepsInv, LoginKeepsInv, ServeMcpKeepsInv,
       CleanKeepsInv, RestartServerKeepsInv, ServerTickKeepsInv DEF ServerNext
<1> QED
  BY <1>1, <1>2, ServerRunsTheLoginFlow, TypeCorrect, PTL DEF ServerSpec, ServerInv

-----------------------------------------------------------------------------
(* The server keeps the abstract promise. *)

\* Facts of FlowInv that the steps below need: a grant's session is a login's,
\* the login a request's, and different grants are of different requests.
LEMMA GrantsAreOfLogins ==
  ASSUME TypeOK, FlowInv
  PROVE  /\ \A g \in grants : g.session \in DOMAIN logins
         /\ \A s \in DOMAIN logins : Key(s) \in DOMAIN requests
         /\ \A g1, g2 \in grants : Key(g1.session) = Key(g2.session) => g1 = g2
BY DEF FlowInv, GrantsSpendTheirCode, RedirectsAreOnePerLogin, LoginsAreOnePerKey,
   PendingAreOpenRequests, Key

\* What has been granted stays valid as long as its session is honoured.
LEMMA ValidStays ==
  ASSUME UNCHANGED <<logins, grants>>,
         \A g \in grants : Honoured(g.session)' <=> Honoured(g.session)
  PROVE  Valid' = Valid
BY DEF Valid, Key

\* /authorize is the client's asking, under a key that nobody has used.
LEMMA AuthorizeAsks ==
  ASSUME TypeOK, NEW k \in PendingKeys, NEW c \in ClientIds, NEW uri \in URIs,
         NEW challenge \in Challenges, NEW state \in States,
         HandleAuthorize(k, c, uri, challenge, state), UNCHANGED mcpVars
  PROVE  Promise!Ask(k, c, challenge)
<1> DEFINE p == StampedPending(c, uri, challenge, state)
<1>1. /\ k \notin DOMAIN requests /\ requests' = Put(requests, k, p)
      /\ UNCHANGED <<now, logins, grants>>
  BY DEF HandleAuthorize, StorePending
<1>2. p.client = c /\ p.challenge = challenge
  BY DEF StampedPending
<1> HIDE DEF p
<1>3. Asked' = Promise!Put(Asked, k, [client |-> c, proof |-> challenge])
  BY <1>1, <1>2 DEF Asked, Put, Promise!Put
<1>4. UNCHANGED <<{Granting(g) : g \in grants}, Valid, Admitted>>
  BY <1>1 DEF Granting, Valid, Honoured, Web!OlderThan, Admitted, Key, mcpVars
<1> QED
  BY <1>1, <1>3, <1>4 DEF Promise!Ask, Asked

\* An answer of /token that hands out a bearer token is a grant: the first under its
\* key, of a session that is in the store and young enough to be honoured.
LEMMA TokenGives ==
  ASSUME TypeOK, FlowInv, ServerTypeOK, PartsAgree, NEW c \in ClientIds, NEW secret,
         NEW code \in Codes, NEW v \in Verifiers, HandleToken(c, secret, code, v),
         grants' # grants, UNCHANGED mcpVars
  PROVE  \E k \in PendingKeys, p \in Challenges, login \in 0..now : Promise!Give(k, c, p, login)
<1> DEFINE s == codes[code].session
           g == [client |-> c, code |-> code, session |-> s, verifier |-> v,
                 expires |-> now + ExpiresIn]
           login == logins[s].createdAt
<1>1. /\ code \in DOMAIN codes /\ CodeAccepted(c, code, v)
      /\ grants' = grants \cup {g} /\ g \notin grants
      /\ UNCHANGED <<now, requests, logins>>
  BY DEF HandleToken, GetAuthCode
<1>2. /\ s \in DOMAIN sessions /\ now - sessions[s].createdAt <= CodeTTL
  BY <1>1, GrantedSessionIsThere
<1>3. s \in DOMAIN logins /\ sessions[s] = logins[s] /\ s \in DOMAIN session
      /\ Key(s) \in DOMAIN requests /\ Key(s) \in PendingKeys
  BY <1>2 DEF FlowInv, LoginsAreOnePerKey, PendingAreOpenRequests, PartsAgree, Key, TypeOK,
     IsMap, Session
<1>4. login \in 0..now /\ now - login <= CodeTTL /\ now \in Nat
  BY <1>2, <1>3 DEF PartsAgree, TypeOK, IsMap, Session
<1>5. session[s].createdAt = login /\ Honoured(s)
  <2>1. session[s].createdAt = login
    BY <1>3 DEF PartsAgree, Web!SessionsAreKept, Created
  <2>2. ~Web!OlderThan(s, now)
    BY <1>4, <2>1, TTLAssumption DEF Web!OlderThan
  <2> QED
    BY <1>3, <2>1, <2>2 DEF PartsAgree, Web!SessionsAreKept, Honoured
<1>6. Asked[Key(s)] = [client |-> c, proof |-> S256(v)] /\ Key(s) \in DOMAIN Asked
  BY <1>1, <1>3 DEF FlowInv, CodesMatchTheirRedirects, CodeAccepted, Asked, Key
<1>7. \A x \in grants : Key(x.session) # Key(s)
  <2> SUFFICES ASSUME NEW x \in grants, Key(x.session) = Key(s)
               PROVE  FALSE
    OBVIOUS
  <2>1. x.session = s
    BY <1>3, GrantsAreOfLogins DEF FlowInv, LoginsAreOnePerKey, Key
  <2>2. x.code \in DOMAIN redirects /\ redirects[x.code].session = s /\ x.code \notin DOMAIN codes
    BY <2>1 DEF FlowInv, GrantsSpendTheirCode
  <2>3. code \in DOMAIN redirects /\ redirects[code].session = s
    BY <1>1 DEF FlowInv, CodesMatchTheirRedirects
  <2> QED
    BY <1>1, <2>2, <2>3 DEF FlowInv, RedirectsAreOnePerLogin
<1>8. Granting(g) = [key |-> Key(s), client |-> c, proof |-> S256(v), login |-> login]
  BY DEF Granting
<1>9. {Granting(x) : x \in grants}' = {Granting(x) : x \in grants} \cup {Granting(g)}
  BY <1>1 DEF Granting, Key
<1>10. Valid' = Valid \cup {Key(s)}
  <2>1. \A x : Honoured(x)' <=> Honoured(x)
    BY <1>1 DEF Honoured, Web!OlderThan, mcpVars
  <2>2. \A x : Key(x)' = Key(x)
    BY <1>1 DEF Key
  <2>3. g.session = s
    OBVIOUS
  <2> HIDE DEF g, s
  <2> QED
    BY <1>1, <1>5, <2>1, <2>2, <2>3 DEF Valid
<1>11. UNCHANGED <<Asked, Admitted>>
  BY <1>1 DEF Asked, Admitted, Key, mcpVars
<1>12. Promise!Give(Key(s), c, S256(v), login)
  BY <1>1, <1>4, <1>6, <1>7, <1>8, <1>9, <1>10, <1>11 DEF Promise!Give, Granting
<1> QED
  BY <1>3, <1>4, <1>12 DEF Challenges

\* The rest of the login flow is of no consequence.
LEMMA LoginFlowKeepsPromise ==
  ASSUME TypeOK, FlowInv, ServerTypeOK, PartsAgree, LoginFlow
  PROVE  [Promise!DelegationNext]_(Promise!delegationVars)
<1> DEFINE Quiet == UNCHANGED <<now, requests, logins, grants, mcpVars>>
<1>1. ASSUME Quiet
      PROVE  UNCHANGED Promise!delegationVars
  BY <1>1 DEF Promise!delegationVars, Asked, Granting, Valid, Honoured, Web!OlderThan, Key,
     Admitted, mcpVars
<1>2. UNCHANGED mcpVars
  BY DEF LoginFlow
<1>3. ASSUME NEW k \in PendingKeys, NEW c \in ClientIds, NEW uri \in URIs,
             NEW challenge \in Challenges, NEW state \in States,
             HandleAuthorize(k, c, uri, challenge, state)
      PROVE  Promise!DelegationNext
  BY <1>2, <1>3, AuthorizeAsks DEF Promise!DelegationNext
<1>4. ASSUME NEW c \in ClientIds, NEW secret, NEW code \in Codes, NEW v \in Verifiers,
             HandleToken(c, secret, code, v)
      PROVE  Quiet \/ Promise!DelegationNext
  <2>1. CASE grants' = grants
    BY <1>2, <1>4, <2>1 DEF HandleToken
  <2>2. CASE grants' # grants
    BY <1>2, <1>4, <2>2, TokenGives DEF Promise!DelegationNext
  <2> QED
    BY <2>1, <2>2
<1>5. \/ Quiet
      \/ \E k \in PendingKeys, c \in ClientIds, uri \in URIs, challenge \in Challenges,
            state \in States : HandleAuthorize(k, c, uri, challenge, state)
      \/ \E c \in ClientIds, secret \in ClientIds \cup {""}, code \in Codes, v \in Verifiers :
            HandleToken(c, secret, code, v)
  BY <1>2 DEF LoginFlow, HandleRegister, HandleCallback, ExchangeFails, RedirectWithCode,
     SweepPending, SweepCodes, store, history
<1> QED
  BY <1>1, <1>3, <1>4, <1>5

\* A login by itself makes nothing valid: nobody has been granted its session.
LEMMA LoginKeepsPromise ==
  ASSUME TypeOK, FlowInv, NEW h \in Handlers, NEW s \in SessionIds, NEW issue \in 0..now,
         NEW arrival \in 0..now, ServerTypeOK, PartsAgree, Login(h, s, issue, arrival)
  PROVE  UNCHANGED Promise!delegationVars
<1>1. /\ s \notin DOMAIN logins /\ UNCHANGED <<now, requests, grants>>
      /\ \A x \in DOMAIN logins : logins'[x] = logins[x]
  BY LoginStep
<1>2. /\ session' = Web!Put(session, s, Web!StampedSession(arrival))
      /\ bearers' = bearers \cup {s} /\ UNCHANGED serving
  BY LoginStep DEF Web!CreateSession
<1>3. DOMAIN session \subseteq DOMAIN logins /\ bearers \subseteq DOMAIN session
      /\ \A r \in DOMAIN serving : serving[r].session \in DOMAIN session
  BY DEF PartsAgree, Web!SessionsAreKept, Created, ServerTypeOK, Web!Of
<1>4. \A x \in DOMAIN logins : Key(x)' = Key(x)
  BY <1>1 DEF Key
<1>5. \A x \in DOMAIN logins : Honoured(x)' <=> Honoured(x)
  <2>1. \A x \in DOMAIN session : session'[x] = session[x]
    BY <1>1, <1>2, <1>3 DEF Web!Put
  <2> QED
    BY <1>1, <1>2, <1>3, <2>1 DEF Honoured, Web!OlderThan
<1>6. \A g \in grants : g.session \in DOMAIN logins
  BY GrantsAreOfLogins
<1>7. Valid' = Valid
  BY <1>1, <1>4, <1>5, <1>6 DEF Valid
<1>8. {Granting(g) : g \in grants}' = {Granting(g) : g \in grants}
  BY <1>1, <1>4, <1>6 DEF Granting
<1>9. UNCHANGED <<Asked, Admitted>>
  BY <1>1, <1>2, <1>3, <1>4 DEF Asked, Admitted
<1> QED
  BY <1>1, <1>7, <1>8, <1>9 DEF Promise!delegationVars

\* A request is admitted under the grant its token came from, if that is valid;
\* a session found expired was honoured no more.
LEMMA HandleMcpKeepsPromise ==
  ASSUME TypeOK, FlowInv, ServerTypeOK, PartsAgree, NEW r \in Requests, NEW s \in Granted,
         HandleMcp(r, s)
  PROVE  Promise!DelegationNext \/ UNCHANGED Promise!delegationVars
<1>1. /\ r \notin DOMAIN serving /\ s \in bearers
      /\ UNCHANGED <<vars, session>>
  BY DEF HandleMcp, Web!GetSession
<1>2. UNCHANGED <<now, Asked, logins, grants, {Granting(g) : g \in grants}>>
  BY <1>1 DEF vars, store, history, Asked, Granting, Key
<1>3. CASE Web!OlderThan(s, now)
  <2>1. bearers' = bearers \ {s} /\ UNCHANGED serving
    BY <1>3 DEF HandleMcp, Web!GetSession
  <2>2. \A x : Honoured(x)' <=> Honoured(x)
    BY <1>1, <1>2, <1>3, <2>1 DEF Honoured, Web!OlderThan
  <2>3. Valid' = Valid
    BY <1>2, <2>2, ValidStays
  <2>4. Admitted' = Admitted
    BY <1>2, <2>1 DEF Admitted, Key
  <2> QED
    BY <1>2, <2>3, <2>4 DEF Promise!delegationVars
<1>4. CASE ~Web!OlderThan(s, now)
  <2> DEFINE e == [pc |-> "ensure", session |-> s, access |-> 0, refresh |-> 0, since |-> 0]
  <2>1. serving' = Web!Put(serving, r, e) /\ UNCHANGED bearers
    BY <1>4 DEF HandleMcp, Web!GetSession
  <2>2. e.session = s
    OBVIOUS
  <2> HIDE DEF e
  <2>3. \A x : Honoured(x)' <=> Honoured(x)
    BY <1>1, <1>2, <2>1 DEF Honoured, Web!OlderThan
  <2>4. Valid' = Valid
    BY <1>2, <2>3, ValidStays
  <2>5. Key(s) \in Valid
    BY <1>1, <1>4 DEF Valid, Granted, Honoured
  <2>6. r \notin DOMAIN Admitted
    BY <1>1 DEF Admitted
  <2>7. Admitted' = Promise!Put(Admitted, r, Key(s))
    BY <1>2, <2>1, <2>2 DEF Admitted, Key, Web!Put, Promise!Put
  <2>8. Promise!Admit(r, Key(s))
    BY <1>2, <2>4, <2>5, <2>6, <2>7 DEF Promise!Admit
  <2>9. Key(s) \in PendingKeys
    BY <1>1, GrantsAreOfLogins DEF Granted, Key, TypeOK, IsMap, Session
  <2> QED
    BY <2>8, <2>9 DEF Promise!DelegationNext
<1> QED
  BY <1>3, <1>4

\* While a request is served nothing changes for anyone, even if it puts its
\* session back into the store: only an expired one had been taken out.
LEMMA ServeMcpKeepsPromise ==
  ASSUME ServerTypeOK, PartsAgree, NEW r \in Requests, ServeMcp(r)
  PROVE  Promise!DelegationNext
<1>1. /\ SameCallers /\ SameSessions
      /\ bearers' = bearers \/ bearers' = bearers \cup {Web!Of(r)}
      /\ r \in DOMAIN serving
  BY RequestStep DEF ServeMcp, PartsAgree
<1>2. UNCHANGED <<now, Asked, logins, grants, {Granting(g) : g \in grants}>>
  BY DEF ServeMcp, vars, store, history, Asked, Granting, Key
<1>3. \A x : Honoured(x)' <=> Honoured(x)
  <2>1. Web!Of(r) \in DOMAIN session
    BY <1>1 DEF PartsAgree, Web!SessionsAreKept
  <2>2. \A x \in DOMAIN session : Web!OlderThan(x, now)' <=> Web!OlderThan(x, now)
    BY <1>1, <1>2 DEF SameSessions, Web!OlderThan
  <2>3. \A x \in DOMAIN session : Web!OlderThan(x, now) \/ x \in bearers
    BY DEF PartsAgree, Web!SessionsAreKept
  <2>4. bearers \subseteq DOMAIN session
    BY DEF ServerTypeOK
  <2> QED
    BY <1>1, <2>1, <2>2, <2>3, <2>4 DEF Honoured
<1>4. Valid' = Valid
  BY <1>2, <1>3, ValidStays
<1>5. PICK rs \in SUBSET Requests : rs = DOMAIN serving \ DOMAIN serving'
  BY DEF ServerTypeOK, IsMap
<1>6. Admitted' = Promise!Without(Admitted, rs) /\ rs \subseteq DOMAIN Admitted
  <2>1. DOMAIN serving' = DOMAIN serving \ rs
    BY <1>1, <1>5 DEF SameCallers
  <2>2. \A q \in DOMAIN serving' : serving'[q].session = serving[q].session
    BY <1>1 DEF SameCallers
  <2> QED
    BY <1>2, <1>5, <2>1, <2>2 DEF Admitted, Key, Promise!Without, Promise!Restrict
<1>7. Promise!Finish(rs)
  BY <1>2, <1>4, <1>6 DEF Promise!Finish
<1> QED
  BY <1>7 DEF Promise!DelegationNext

\* The cleanup, late as it is, takes nothing valid.
LEMMA CleanKeepsPromise ==
  ASSUME ServerTypeOK, PartsAgree, CleanSessions
  PROVE  UNCHANGED Promise!delegationVars
<1>1. /\ Web!SweepTick \/ Web!SweepSessions
      /\ UNCHANGED <<now, history>>
  BY CleanStep
<1>2. UNCHANGED <<session, serving>>
  BY <1>1 DEF Web!SweepTick, Web!SweepSessions
<1>3. now \in Nat /\ SessionSweep.now \in Nat /\ SessionSweep.now <= now
  BY DEF ServerTypeOK, TypeOK, SweepPoint, SessionSweep, PartsAgree, Web!SessionsAreKept
<1>4. ASSUME NEW s \in bearers, Web!OlderThan(s, SessionSweep.now)
      PROVE  Web!OlderThan(s, now)
  BY <1>3, <1>4, TTLAssumption DEF Web!OlderThan, ServerTypeOK, IsMap, Web!Session
<1>5. \A x : Honoured(x)' <=> Honoured(x)
  <2>1. \A x : Web!OlderThan(x, now)' <=> Web!OlderThan(x, now)
    BY <1>1, <1>2 DEF Web!OlderThan
  <2> QED
    BY <1>1, <1>4, <2>1 DEF Honoured, Web!SweepTick, Web!SweepSessions
<1>6. Valid' = Valid
  BY <1>1, <1>5, ValidStays DEF history
<1>7. UNCHANGED <<Asked, {Granting(g) : g \in grants}, Admitted>>
  BY <1>1, <1>2 DEF history, Asked, Granting, Admitted, Key
<1> QED
  BY <1>1, <1>6, <1>7 DEF Promise!delegationVars

\* A restart ends every grant and every request.
LEMMA RestartKeepsPromise ==
  ASSUME RestartServer
  PROVE  Promise!Crash
<1>1. UNCHANGED <<now, history>> /\ bearers' = {} /\ serving' = Web!EmptyMap
  BY DEF RestartServer, Restart, Web!Restart
<1>2. Valid' = {}
  BY <1>1 DEF Valid, Honoured
<1>3. Admitted' = Promise!EmptyMap
  BY <1>1 DEF Admitted, Web!EmptyMap, Promise!EmptyMap
<1>4. UNCHANGED <<Asked, {Granting(g) : g \in grants}>>
  BY <1>1 DEF history, Asked, Granting, Key
<1> QED
  BY <1>1, <1>2, <1>3, <1>4 DEF Promise!Crash

\* With time exactly the grants whose login is too old cease to be valid.
LEMMA TickKeepsPromise ==
  ASSUME TypeOK, FlowInv, ServerTypeOK, PartsAgree, ServerTick
  PROVE  Promise!Advance
<1> DEFINE Terms == {Granting(g) : g \in grants}
           Young(g) == now' - logins[g.session].createdAt <= SessionTTL
<1>1. /\ now' = now + 1
      /\ UNCHANGED <<requests, logins, grants, bearers, session, serving>>
  BY DEF ServerTick, Tick, Web!Tick, store, history
<1>2. UNCHANGED <<Asked, Terms, Admitted>>
  BY <1>1 DEF Asked, Granting, Admitted, Key
<1>3. ASSUME NEW g \in grants
      PROVE  Honoured(g.session)' <=> Honoured(g.session) /\ Young(g)
  <2>1. CASE g.session \in bearers
    <3>1. g.session \in DOMAIN session
      BY <2>1 DEF ServerTypeOK
    <3>2. session[g.session].createdAt = logins[g.session].createdAt
      BY <3>1 DEF PartsAgree, Web!SessionsAreKept, Created
    <3>3. session[g.session].createdAt \in Nat /\ now \in Nat
      BY <3>1 DEF ServerTypeOK, TypeOK, IsMap, Web!Session
    <3> QED
      BY <1>1, <3>2, <3>3, TTLAssumption DEF Honoured, Web!OlderThan
  <2>2. CASE g.session \notin bearers
    BY <1>1, <2>2 DEF Honoured
  <2> QED
    BY <2>1, <2>2
<1>4. ASSUME NEW g \in grants
      PROVE  Granting(g).key = Key(g.session)
             /\ (Young(g) <=> now' - Granting(g).login <= SessionTTL)
  <2>1. /\ Granting(g).key = Key(g.session)
        /\ Granting(g).login = logins[g.session].createdAt
    BY DEF Granting
  <2> QED
    BY <2>1, Zenon
<1> HIDE DEF Young
<1>5. \A g1, g2 \in grants : Key(g1.session) = Key(g2.session) => g1 = g2
  BY GrantsAreOfLogins
<1>6. Valid' = {k \in Valid : \E t \in Terms : t.key = k /\ now' - t.login <= SessionTTL}
  <2>1. Valid' = {Key(g.session) : g \in {g \in grants : Honoured(g.session) /\ Young(g)}}
    BY <1>1, <1>3 DEF Valid, Key
  <2>2. ASSUME NEW g \in grants, Honoured(g.session)
        PROVE  Young(g) <=> \E t \in Terms : t.key = Key(g.session) /\ now' - t.login <= SessionTTL
    BY <1>4, <1>5
  <2> QED
    BY <2>1, <2>2 DEF Valid
<1> QED
  BY <1>1, <1>2, <1>6 DEF Promise!Advance

\* From the first request to the last, a client is served exactly on the grant
\* that its own login earned it.
THEOREM GrantsAreHonoured == ServerSpec => ClientsAreServedOnTheirGrants
<1>1. ServerInit => Promise!DelegationInit
  BY DEF ServerInit, Init, EmptyMap, Promise!EmptyMap, Promise!DelegationInit, Asked, Valid,
     Admitted
<1>2. TypeOK /\ FlowInv /\ ServerTypeOK /\ PartsAgree /\ [ServerNext]_serverVars
        => [Promise!DelegationNext]_(Promise!delegationVars)
  <2> SUFFICES ASSUME TypeOK, FlowInv, ServerTypeOK, PartsAgree, [ServerNext]_serverVars
               PROVE  [Promise!DelegationNext]_(Promise!delegationVars)
    OBVIOUS
  <2>1. CASE UNCHANGED serverVars
    BY <2>1 DEF serverVars, vars, store, history, mcpVars, Promise!delegationVars, Asked,
       Granting, Valid, Honoured, Web!OlderThan, Key, Admitted
  <2>2. CASE RestartServer \/ ServerTick
    BY <2>2, RestartKeepsPromise, TickKeepsPromise DEF Promise!DelegationNext
  <2> QED
    BY <2>1, <2>2, LoginFlowKeepsPromise, LoginKeepsPromise, HandleMcpKeepsPromise,
       ServeMcpKeepsPromise, CleanKeepsPromise DEF ServerNext
<1> QED
  BY <1>1, <1>2, ServerRunsTheLoginFlow, TypeCorrect, FlowInvariance, ServerInvariance, PTL
     DEF ServerSpec, ServerInv, ClientsAreServedOnTheirGrants, Promise!DelegationSpec
=============================================================================
