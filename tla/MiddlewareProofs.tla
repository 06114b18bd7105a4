-------------------------- MODULE MiddlewareProofs --------------------------
(* What holds of the requests to /mcp for every set of sessions and requests,  *)
(* every TTL and every delay that the refresh buffer covers.                   *)
EXTENDS Middleware, GoMapTheorems, SequenceTheorems

-----------------------------------------------------------------------------
(* Steps of requests *)

\* No request appears, and none changes its session.
SameCallers ==
  /\ IsMap(request', Requests, Request)
  /\ \A q \in DOMAIN request' :
       q \in DOMAIN request /\ request'[q].session = request[q].session

\* The session of a request stays a session, with the time it was created.
SameSessions ==
  /\ IsMap(session', SessionIds, Session)
  /\ DOMAIN session' = DOMAIN session
  /\ \A s \in DOMAIN session : session'[s].createdAt = session[s].createdAt

LEMMA GotoType ==
  ASSUME TypeOK, NEW r \in DOMAIN request, NEW pc \in PCs, Goto(r, pc)
  PROVE  SameCallers
BY DEF TypeOK, Goto, SameCallers, IsMap, Request

LEMMA ReturnFreshType ==
  ASSUME TypeOK, NEW r \in DOMAIN request, ReturnFresh(r)
  PROVE  SameCallers /\ IsMap(flight', SessionIds, Requests)
<1>1. IsMap(flight', SessionIds, Requests)
  BY WithoutType DEF TypeOK, ReturnFresh
<1>2. DOMAIN request' = DOMAIN request
  BY DEF ReturnFresh
<1>3. request[r] \in Request /\ now \in Nat
  BY DEF TypeOK, IsMap
<1>4. ASSUME NEW q \in DOMAIN request
      PROVE  request'[q] \in Request /\ request'[q].session = request[q].session
  <2>1. CASE q \in Party(r)
    <3>1. request'[q] = [pc |-> "update", session |-> Of(r), access |-> 0, refresh |-> 0,
                         since |-> now]
      BY <2>1 DEF ReturnFresh
    <3>2. Of(q) = Of(r)
      BY <2>1 DEF Party
    <3> QED
      BY <1>3, <3>1, <3>2 DEF Request, PCs, Of
  <2>2. CASE q \notin Party(r)
    BY <2>2 DEF ReturnFresh, TypeOK, IsMap
  <2> QED
    BY <2>1, <2>2
<1> QED
  BY <1>1, <1>2, <1>4 DEF SameCallers, IsMap, TypeOK

LEMMA LeaveType ==
  ASSUME TypeOK, NEW rs, request' = Without(request, rs)
  PROVE  SameCallers
BY WithoutType DEF TypeOK, SameCallers, Without, Restrict

LEMMA GoogleIssuesType ==
  ASSUME TypeOK, SessionsAreKept, NEW r \in Requests, NEW rotate \in BOOLEAN,
         GoogleIssues(r, rotate)
  PROVE  /\ r \in DOMAIN request /\ Of(r) \in DOMAIN session
         /\ Of(r) \in DOMAIN issued /\ Of(r) \in DOMAIN rotation /\ Of(r) \in DOMAIN lost
         /\ IsMap(issued', SessionIds, Seq(Nat)) /\ DOMAIN issued' = DOMAIN issued
         /\ IsMap(rotation', SessionIds, Nat) /\ DOMAIN rotation' = DOMAIN rotation
         /\ Len(issued'[Of(r)]) \in Nat /\ rotation'[Of(r)] \in Nat
<1>1. r \in DOMAIN request
  BY DEF GoogleIssues, At
<1>2. /\ Of(r) \in DOMAIN session /\ now \in Nat
      /\ Of(r) \in DOMAIN issued /\ Of(r) \in DOMAIN rotation /\ Of(r) \in DOMAIN lost
  BY <1>1 DEF TypeOK, SessionsAreKept
<1>3. issued[Of(r)] \in Seq(Nat) /\ rotation[Of(r)] \in Nat
  BY <1>2 DEF TypeOK, IsMap
<1>4. Append(issued[Of(r)], now) \in Seq(Nat) /\ Len(Append(issued[Of(r)], now)) \in Nat
  BY <1>2, <1>3, AppendProperties
<1>5. issued' = [issued EXCEPT ![Of(r)] = Append(@, now)]
  BY DEF GoogleIssues
<1>6. IsMap(issued', SessionIds, Seq(Nat)) /\ DOMAIN issued' = DOMAIN issued
  BY <1>2, <1>4, <1>5 DEF TypeOK, IsMap
<1>7. Len(issued'[Of(r)]) \in Nat
  BY <1>2, <1>4, <1>5
<1>8. rotation' = IF rotate THEN [rotation EXCEPT ![Of(r)] = Len(issued'[Of(r)])] ELSE rotation
  BY DEF GoogleIssues
<1>9. IsMap(rotation', SessionIds, Nat) /\ DOMAIN rotation' = DOMAIN rotation
  BY <1>7, <1>8 DEF TypeOK, IsMap
<1> QED
  BY <1>1, <1>2, <1>6, <1>7, <1>9 DEF IsMap

\* What the steps of Serve and Reply have in common.
LEMMA RequestStep ==
  ASSUME TypeOK, SessionsAreKept, NEW r \in Requests, Serve(r) \/ Reply(r)
  PROVE  /\ SameCallers
         /\ SameSessions
         /\ IsMap(flight', SessionIds, Requests)
         /\ IsMap(issued', SessionIds, Seq(Nat)) /\ DOMAIN issued' = DOMAIN issued
         /\ IsMap(rotation', SessionIds, Nat) /\ DOMAIN rotation' = DOMAIN rotation
         /\ IsMap(lost', SessionIds, SUBSET Nat) /\ DOMAIN lost' = DOMAIN lost
         /\ store' = store \/ store' = store \cup {Of(r)}
         /\ UNCHANGED <<now, sweep, created>>
         /\ r \in DOMAIN request
<1> USE DEF google
<1>1. r \in DOMAIN request
  BY DEF Serve, Reply, Refresh, At, EnsureFreshToken, Do, Recheck, StartWrite, WriteAccess,
     WriteExpiry, WriteRefresh, UpdateSession, ReadToken, Answer, Issue, IssueUnheard,
     GoogleIssues, RefreshFails
<1>2. /\ request[r] \in Request /\ Of(r) \in DOMAIN session /\ Of(r) \in SessionIds
      /\ session[Of(r)] \in Session /\ now \in Nat
  BY <1>1 DEF TypeOK, IsMap, SessionsAreKept
<1>3. UNCHANGED session => SameSessions
  BY DEF SameSessions, TypeOK
<1>4. CASE EnsureFreshToken(r)
  <2>1. SameCallers
    <3>1. CASE Fresh(Of(r))
      <4>1. request' = [request EXCEPT ![r].pc = "update", ![r].since = now]
        BY <1>4, <3>1 DEF EnsureFreshToken
      <4> QED
        BY <1>1, <1>2, <4>1 DEF SameCallers, TypeOK, IsMap, Request, PCs
    <3>2. CASE ~Fresh(Of(r))
      BY <1>1, <1>4, <3>2, GotoType DEF EnsureFreshToken, PCs
    <3> QED
      BY <3>1, <3>2
  <2> QED
    BY <1>1, <1>3, <1>4, <2>1 DEF EnsureFreshToken, TypeOK
<1>5. CASE Do(r)
  <2>1. SameCallers
    BY <1>1, <1>5, GotoType DEF Do, PCs
  <2>2. IsMap(flight', SessionIds, Requests)
    BY <1>2, <1>5, PutType DEF Do, TypeOK
  <2> QED
    BY <1>1, <1>3, <1>5, <2>1, <2>2 DEF Do, TypeOK
<1>6. CASE Recheck(r)
  <2>1. SameCallers /\ IsMap(flight', SessionIds, Requests)
    <3>1. CASE Fresh(Of(r))
      BY <1>1, <1>6, <3>1, ReturnFreshType DEF Recheck
    <3>2. CASE ~Fresh(Of(r))
      <4>1. request' = [request EXCEPT ![r].pc = "calling", ![r].refresh = session[Of(r)].refresh]
        BY <1>6, <3>2 DEF Recheck
      <4>2. session[Of(r)].refresh \in Nat
        BY <1>2 DEF Session
      <4>3. SameCallers
        BY <1>1, <1>2, <4>1, <4>2 DEF SameCallers, TypeOK, IsMap, Request, PCs
      <4> QED
        BY <1>6, <3>2, <4>3 DEF Recheck, TypeOK
    <3> QED
      BY <3>1, <3>2
  <2> QED
    BY <1>1, <1>3, <1>6, <2>1 DEF Recheck, TypeOK
<1>7. CASE StartWrite(r)
  <2>1. SameCallers
    BY <1>1, <1>7, GotoType DEF StartWrite, PCs
  <2>2. SameSessions
    BY <1>2, <1>7 DEF StartWrite, SameSessions, TypeOK, IsMap, Session, Torn
  <2> QED
    BY <1>1, <1>7, <2>1, <2>2 DEF StartWrite, TypeOK
<1>8. CASE WriteAccess(r)
  <2>1. SameCallers
    BY <1>1, <1>8, GotoType DEF WriteAccess, PCs
  <2>2. SameSessions
    BY <1>2, <1>8 DEF WriteAccess, SameSessions, TypeOK, IsMap, Session, Request
  <2> QED
    BY <1>1, <1>8, <2>1, <2>2 DEF WriteAccess, TypeOK
<1>9. CASE WriteExpiry(r)
  <2>1. SameCallers
    BY <1>1, <1>9, GotoType DEF WriteExpiry, PCs
  <2>2. SameSessions
    <3>1. now + TokenLife \in Nat
      BY <1>2, DelayAssumption
    <3> QED
      BY <1>2, <1>9, <3>1 DEF WriteExpiry, SameSessions, TypeOK, IsMap, Session
  <2> QED
    BY <1>1, <1>9, <2>1, <2>2 DEF WriteExpiry, TypeOK
<1>10. CASE WriteRefresh(r)
  <2>1. SameCallers /\ IsMap(flight', SessionIds, Requests)
    BY <1>1, <1>10, ReturnFreshType DEF WriteRefresh
  <2>2. SameSessions
    BY <1>2, <1>3, <1>10 DEF WriteRefresh, SameSessions, TypeOK, IsMap, Session, Request
  <2> QED
    BY <1>1, <1>10, <2>1, <2>2 DEF WriteRefresh, TypeOK
<1>11. CASE UpdateSession(r)
  <2>1. SameCallers
    BY <1>1, <1>11, GotoType DEF UpdateSession, PCs
  <2> QED
    BY <1>1, <1>3, <1>11, <2>1 DEF UpdateSession, TypeOK
<1>12. CASE ReadToken(r)
  <2>1. SameCallers
    BY <1>1, <1>2, <1>12 DEF ReadToken, SameCallers, TypeOK, IsMap, Request, PCs, Session
  <2> QED
    BY <1>1, <1>3, <1>12, <2>1 DEF ReadToken, TypeOK
<1>13. CASE Answer(r)
  <2>1. SameCallers
    BY <1>13, LeaveType DEF Answer
  <2> QED
    BY <1>1, <1>3, <1>13, <2>1 DEF Answer, TypeOK
<1>14. ASSUME NEW rotate \in BOOLEAN, GoogleIssues(r, rotate)
       PROVE  /\ SameSessions
              /\ UNCHANGED <<now, store, session, flight, sweep, created>>
              /\ IsMap(issued', SessionIds, Seq(Nat)) /\ DOMAIN issued' = DOMAIN issued
              /\ IsMap(rotation', SessionIds, Nat) /\ DOMAIN rotation' = DOMAIN rotation
  BY <1>3, <1>14, GoogleIssuesType DEF GoogleIssues
<1>15. ASSUME NEW rotate \in BOOLEAN, Issue(r, rotate)
       PROVE  SameCallers /\ UNCHANGED lost
  <2> DEFINE a == Len(issued'[Of(r)])
             b == IF rotate THEN rotation'[Of(r)] ELSE NoToken
  <2>1. a \in Nat /\ b \in Nat
    BY <1>15, GoogleIssuesType DEF Issue, NoToken
  <2>2. /\ request' = [request EXCEPT ![r].pc = "answered", ![r].since = now,
                                      ![r].access = a, ![r].refresh = b]
        /\ UNCHANGED lost
    BY <1>15 DEF Issue
  <2> HIDE DEF a, b
  <2> QED
    BY <1>1, <1>2, <2>1, <2>2, SMTT(30) DEF SameCallers, TypeOK, IsMap, Request, PCs
<1>16. ASSUME NEW rotate \in BOOLEAN, IssueUnheard(r, rotate)
       PROVE  /\ SameCallers
              /\ IsMap(lost', SessionIds, SUBSET Nat) /\ DOMAIN lost' = DOMAIN lost
  <2>1. SameCallers
    BY <1>1, <1>16, GotoType DEF IssueUnheard, PCs
  <2>2. Len(issued'[Of(r)]) \in Nat /\ Of(r) \in DOMAIN lost
    BY <1>16, GoogleIssuesType DEF IssueUnheard
  <2>3. lost' = [lost EXCEPT ![Of(r)] = @ \cup {Len(issued'[Of(r)])}]
    BY <1>16 DEF IssueUnheard
  <2>4. IsMap(lost', SessionIds, SUBSET Nat) /\ DOMAIN lost' = DOMAIN lost
    BY <2>2, <2>3 DEF TypeOK, IsMap
  <2> QED
    BY <2>1, <2>4
<1>17. CASE RefreshFails(r)
  <2>1. SameCallers
    BY <1>17, LeaveType DEF RefreshFails, ReturnError
  <2>2. IsMap(flight', SessionIds, Requests)
    BY <1>17, WithoutType DEF RefreshFails, ReturnError, TypeOK
  <2> QED
    BY <1>1, <1>3, <1>17, <2>1, <2>2 DEF RefreshFails, TypeOK
<1> QED
  BY <1>1, <1>4, <1>5, <1>6, <1>7, <1>8, <1>9, <1>10, <1>11, <1>12, <1>13, <1>14, <1>15,
     <1>16, <1>17 DEF Serve, Refresh, Reply, Issue, IssueUnheard, TypeOK

\* No step of a request creates a session, and one that a request puts back was
\* there or has expired.
LEMMA RequestKeepsSessions ==
  ASSUME TypeOK, SessionsAreKept, NEW r \in Requests, Serve(r) \/ Reply(r)
  PROVE  TypeOK' /\ SessionsAreKept'
<1>1. /\ SameCallers
      /\ SameSessions
      /\ IsMap(flight', SessionIds, Requests)
      /\ IsMap(issued', SessionIds, Seq(Nat)) /\ DOMAIN issued' = DOMAIN issued
      /\ IsMap(rotation', SessionIds, Nat) /\ DOMAIN rotation' = DOMAIN rotation
      /\ IsMap(lost', SessionIds, SUBSET Nat) /\ DOMAIN lost' = DOMAIN lost
      /\ store' = store \/ store' = store \cup {Of(r)}
      /\ UNCHANGED <<now, sweep, created>>
      /\ Of(r) \in DOMAIN session
  BY RequestStep DEF SessionsAreKept
<1>2. TypeOK'
  BY <1>1 DEF TypeOK, SameCallers, SameSessions
<1>3. SessionsAreKept'
  BY <1>1 DEF SessionsAreKept, SameCallers, SameSessions, OlderThan, Of
<1> QED
  BY <1>2, <1>3

\* A login adds a session that nobody has had before.
LEMMA CreateKeepsSessions ==
  ASSUME TypeOK, SessionsAreKept, NEW s \in SessionIds, NEW issue \in 0..now,
         NEW arrival \in 0..now, CreateSession(s, issue, arrival)
  PROVE  TypeOK' /\ SessionsAreKept'
<1> DEFINE sess == StampedSession(arrival)
<1>1. now \in Nat /\ issue \in Nat /\ arrival \in Nat /\ arrival + TokenLife \in Nat
  BY DelayAssumption DEF TypeOK
<1>2. sess \in Session /\ sess.createdAt = now
  BY <1>1 DEF StampedSession, Session
<1> HIDE DEF sess
<1>3. /\ s \notin DOMAIN created
      /\ session' = Put(session, s, sess) /\ store' = store \cup {s}
      /\ created' = Put(created, s, now)
      /\ issued' = Put(issued, s, <<issue>>) /\ rotation' = Put(rotation, s, 1)
      /\ lost' = Put(lost, s, {})
      /\ UNCHANGED <<now, flight, request, sweep>>
  BY DEF CreateSession, sess
<1>4. /\ DOMAIN session' = DOMAIN session \cup {s} /\ session'[s] = sess
      /\ \A x \in DOMAIN session : session'[x] = session[x]
      /\ DOMAIN created' = DOMAIN created \cup {s} /\ created'[s] = now
      /\ \A x \in DOMAIN created : created'[x] = created[x]
      /\ DOMAIN issued' = DOMAIN issued \cup {s} /\ DOMAIN rotation' = DOMAIN rotation \cup {s}
      /\ DOMAIN lost' = DOMAIN lost \cup {s}
  BY <1>3 DEF Put, SessionsAreKept
<1>5. <<issue>> \in Seq(Nat)
  BY <1>1
<1>6. /\ IsMap(session', SessionIds, Session) /\ IsMap(created', SessionIds, Nat)
      /\ IsMap(issued', SessionIds, Seq(Nat)) /\ IsMap(rotation', SessionIds, Nat)
      /\ IsMap(lost', SessionIds, SUBSET Nat)
  BY <1>1, <1>2, <1>3, <1>5, PutType DEF TypeOK
<1>7. TypeOK'
  BY <1>3, <1>4, <1>6 DEF TypeOK
<1>8. SessionsAreKept'
  BY <1>2, <1>3, <1>4 DEF SessionsAreKept, OlderThan, Of
<1> QED
  BY <1>7, <1>8

\* A new request finds its session, or removes it because it has expired.
LEMMA GetSessionKeepsSessions ==
  ASSUME TypeOK, SessionsAreKept, NEW r \in Requests, NEW s \in SessionIds, GetSession(r, s)
  PROVE  TypeOK' /\ SessionsAreKept'
<1>1. /\ r \notin DOMAIN request /\ s \in store /\ s \in DOMAIN session
      /\ UNCHANGED <<now, session, flight, sweep, google>>
  BY DEF GetSession, TypeOK
<1>2. CASE OlderThan(s, now)
  <2>1. store' = store \ {s} /\ UNCHANGED request
    BY <1>2 DEF GetSession
  <2> QED
    BY <1>1, <1>2, <2>1 DEF TypeOK, SessionsAreKept, OlderThan, Of, google
<1>3. CASE ~OlderThan(s, now)
  <2> DEFINE e == [pc |-> "ensure", session |-> s, access |-> 0, refresh |-> 0, since |-> 0]
  <2>1. request' = Put(request, r, e) /\ UNCHANGED store
    BY <1>3 DEF GetSession
  <2>2. e \in Request /\ e.session = s
    BY DEF Request, PCs
  <2> HIDE DEF e
  <2>3. IsMap(request', Requests, Request)
    BY <2>1, <2>2, PutType DEF TypeOK
  <2>4. \A q \in DOMAIN request' : request'[q].session \in DOMAIN session
    BY <1>1, <2>1, <2>2 DEF Put, SessionsAreKept, Of
  <2> QED
    BY <1>1, <2>1, <2>3, <2>4 DEF TypeOK, SessionsAreKept, OlderThan, Of, google
<1> QED
  BY <1>2, <1>3

\* The cleanup decides with an old time, by which less has expired.
LEMMA SweepKeepsSessions ==
  ASSUME TypeOK, SessionsAreKept, Sweep
  PROVE  TypeOK' /\ SessionsAreKept'
<1>1. UNCHANGED <<now, session, flight, request, google>>
  BY DEF Sweep, SweepTick, SweepSessions
<1>2. now \in Nat /\ sweep.now \in Nat /\ sweep.now <= now
  BY DEF TypeOK, SessionsAreKept
<1>3. sweep' \in [at : {"idle", "sessions"}, now : Nat] /\ sweep'.now <= now
  BY <1>2 DEF Sweep, SweepTick, SweepSessions
<1>4. store' \subseteq store
  BY DEF Sweep, SweepTick, SweepSessions
<1>5. \A s \in store : s \in store' \/ OlderThan(s, now)
  <2>1. ASSUME NEW s \in store, OlderThan(s, sweep.now)
        PROVE  OlderThan(s, now)
    BY <1>2, <2>1, DelayAssumption DEF OlderThan, TypeOK, IsMap, Session
  <2> QED
    BY <2>1 DEF Sweep, SweepTick, SweepSessions
<1> QED
  BY <1>1, <1>3, <1>4, <1>5 DEF TypeOK, SessionsAreKept, OlderThan, Of, google

LEMMA TickKeepsSessions ==
  ASSUME TypeOK, SessionsAreKept, Tick
  PROVE  TypeOK' /\ SessionsAreKept'
<1>1. /\ now' = now + 1
      /\ UNCHANGED <<store, session, flight, request, sweep, google>>
  BY DEF Tick
<1>2. now \in Nat /\ sweep.now \in Nat /\ sweep.now <= now
  BY DEF TypeOK, SessionsAreKept
<1>3. \A s \in DOMAIN session : OlderThan(s, now) => OlderThan(s, now + 1)
  BY <1>2, DelayAssumption DEF OlderThan, TypeOK, IsMap, Session
<1>4. TypeOK'
  BY <1>1, <1>2 DEF TypeOK, google
<1>5. sweep.now <= now + 1
  BY <1>2
<1>6. SessionsAreKept'
  BY <1>1, <1>3, <1>5 DEF SessionsAreKept, OlderThan, Of, google
<1> QED
  BY <1>4, <1>6

\* Every variable keeps its type, and whatever order requests, expiries, sweeps
\* and restarts come in, a session that has not expired is in the store.
THEOREM SessionsInvariance == Spec => [](TypeOK /\ SessionsAreKept)
<1>1. Init => TypeOK /\ SessionsAreKept
  BY EmptyMapType DEF Init, TypeOK, SessionsAreKept
<1>2. TypeOK /\ SessionsAreKept /\ [Next]_vars => TypeOK' /\ SessionsAreKept'
  <2> SUFFICES ASSUME TypeOK, SessionsAreKept, [Next]_vars
               PROVE  TypeOK' /\ SessionsAreKept'
    OBVIOUS
  <2>1. CASE Restart
    <3>1. UNCHANGED <<now, google>> /\ sweep' = [at |-> "idle", now |-> 0]
      BY <2>1 DEF Restart
    <3>2. /\ IsMap(session', SessionIds, Session) /\ DOMAIN session' = {}
          /\ IsMap(flight', SessionIds, Requests)
          /\ IsMap(request', Requests, Request) /\ DOMAIN request' = {}
          /\ store' = {}
      BY <2>1, EmptyMapType DEF Restart
    <3>3. now \in Nat
      BY DEF TypeOK
    <3> QED
      BY <3>1, <3>2, <3>3 DEF TypeOK, SessionsAreKept, google
  <2>2. CASE UNCHANGED vars
    BY <2>2 DEF vars, google, TypeOK, SessionsAreKept, OlderThan, Of
  <2> QED
    BY <2>1, <2>2, RequestKeepsSessions, CreateKeepsSessions, GetSessionKeepsSessions,
       SweepKeepsSessions, TickKeepsSessions DEF Next
<1> QED
  BY <1>1, <1>2, PTL DEF Spec

\* Every variable keeps its type.
THEOREM TypeCorrect == Spec => []TypeOK
BY SessionsInvariance, PTL

-----------------------------------------------------------------------------
(* A session implements the abstract bearer session. *)

\* Each request's step leaves the honoured sessions alone, and admits nobody.
LEMMA RequestFinishes ==
  ASSUME TypeOK, SessionsAreKept, NEW r \in Requests, Serve(r) \/ Reply(r)
  PROVE  Bearer!BearerNext
<1> DEFINE honoured == {s \in store : ~OlderThan(s, now)}
           admitted == [q \in DOMAIN request |-> request[q].session]
<1>1. /\ SameCallers /\ SameSessions
      /\ store' = store \/ store' = store \cup {Of(r)}
      /\ UNCHANGED <<now, created>>
      /\ Of(r) \in DOMAIN session
  BY RequestStep DEF SessionsAreKept
<1>2. honoured' = honoured
  BY <1>1 DEF SameSessions, OlderThan, SessionsAreKept, TypeOK
<1>3. PICK rs \in SUBSET Requests : rs = DOMAIN request \ DOMAIN request'
  BY DEF TypeOK, IsMap
<1>4. admitted' = Without(admitted, rs)
  <2>1. DOMAIN request' = DOMAIN request \ rs
    BY <1>1, <1>3 DEF SameCallers
  <2>2. \A q \in DOMAIN request' : request'[q].session = request[q].session
    BY <1>1 DEF SameCallers
  <2> QED
    BY <2>1, <2>2 DEF Without, Restrict
<1>5. Bearer!Finish(rs)
  BY <1>1, <1>2, <1>3, <1>4 DEF Bearer!Finish, Bearer!Without, Without, Bearer!Restrict, Restrict
<1> QED
  BY <1>5 DEF Bearer!BearerNext

\* Whatever the order of sweeps, expiries and late updates, a bearer token is
\* honoured from its login until its session expires or the server restarts, and
\* never again: the middleware implements the abstract session.
THEOREM SessionsImplementBearers == Spec => SessionsAreHonoured
<1> DEFINE honoured == {s \in store : ~OlderThan(s, now)}
           admitted == [q \in DOMAIN request |-> request[q].session]
<1>1. Init => Bearer!BearerInit
  BY DEF Init, Bearer!BearerInit, Bearer!EmptyMap, EmptyMap
<1>2. TypeOK /\ SessionsAreKept /\ [Next]_vars => [Bearer!BearerNext]_(Bearer!bearerVars)
  <2> SUFFICES ASSUME TypeOK, SessionsAreKept, [Next]_vars
               PROVE  [Bearer!BearerNext]_(Bearer!bearerVars)
    OBVIOUS
  <2>1. ASSUME UNCHANGED <<now, created, session, request>>, honoured' = honoured
        PROVE  UNCHANGED Bearer!bearerVars
    BY <2>1 DEF Bearer!bearerVars
  <2>2. ASSUME NEW s \in SessionIds, NEW issue \in 0..now, NEW arrival \in 0..now,
               CreateSession(s, issue, arrival)
        PROVE  Bearer!BearerNext
    <3>1. /\ s \notin DOMAIN created /\ s \notin DOMAIN session
          /\ store' = store \cup {s} /\ created' = Put(created, s, now)
          /\ session' = Put(session, s, StampedSession(arrival))
          /\ UNCHANGED <<now, request>>
      BY <2>2 DEF CreateSession, SessionsAreKept
    <3>2. /\ session'[s].createdAt = now
          /\ \A x \in DOMAIN session : session'[x] = session[x]
      BY <3>1 DEF Put, StampedSession
    <3>3. ~(now - now > SessionTTL)
      BY DelayAssumption DEF TypeOK
    <3>4. honoured' = honoured \cup {s}
      BY <3>1, <3>2, <3>3 DEF OlderThan, TypeOK
    <3>5. Bearer!Login(s)
      BY <3>1, <3>4 DEF Bearer!Login, Bearer!Put, Put
    <3> QED
      BY <3>5 DEF Bearer!BearerNext
  <2>3. ASSUME NEW r \in Requests, NEW s \in SessionIds, GetSession(r, s)
        PROVE  [Bearer!BearerNext]_(Bearer!bearerVars)
    <3>1. CASE OlderThan(s, now)
      <4>1. honoured' = honoured /\ UNCHANGED <<now, created, session, request>>
        BY <2>3, <3>1 DEF GetSession, OlderThan, google
      <4> QED
        BY <2>1, <4>1
    <3>2. CASE ~OlderThan(s, now)
      <4> DEFINE e == [pc |-> "ensure", session |-> s, access |-> 0, refresh |-> 0, since |-> 0]
      <4>1. /\ r \notin DOMAIN request /\ s \in honoured
            /\ request' = Put(request, r, e)
            /\ UNCHANGED <<now, store, session, created>>
        BY <2>3, <3>2 DEF GetSession, google
      <4>2. honoured' = honoured
        BY <4>1 DEF OlderThan
      <4>3. e.session = s
        OBVIOUS
      <4> HIDE DEF e
      <4>4. admitted' = Put(admitted, r, s)
        BY <4>1, <4>3 DEF Put
      <4>5. Bearer!Admit(r, s)
        BY <4>1, <4>2, <4>4 DEF Bearer!Admit, Bearer!Put, Put
      <4> QED
        BY <4>5 DEF Bearer!BearerNext
    <3> QED
      BY <3>1, <3>2
  <2>4. CASE Sweep
    <3>1. UNCHANGED <<now, created, session, request>> /\ store' \subseteq store
      BY <2>4 DEF Sweep, SweepTick, SweepSessions, google
    <3>2. \A s \in store : ~OlderThan(s, now) => s \in store'
      BY <2>4, <3>1, SweepKeepsSessions DEF SessionsAreKept, TypeOK, OlderThan
    <3>3. honoured' = honoured
      BY <3>1, <3>2 DEF OlderThan
    <3> QED
      BY <2>1, <3>1, <3>3
  <2>5. CASE Restart
    <3>1. honoured' = {} /\ admitted' = Bearer!EmptyMap /\ UNCHANGED <<now, created>>
      BY <2>5 DEF Restart, EmptyMap, Bearer!EmptyMap, google
    <3> QED
      BY <3>1 DEF Bearer!BearerNext, Bearer!Crash
  <2>6. CASE Tick
    <3>1. now' = now + 1 /\ UNCHANGED <<store, session, request, created>>
      BY <2>6 DEF Tick, google
    <3>2. \A s \in store : /\ now \in Nat /\ created[s] \in Nat
                           /\ session[s].createdAt = created[s]
      BY DEF TypeOK, IsMap, SessionsAreKept
    <3>3. honoured' = {s \in honoured : now' - created[s] <= SessionTTL}
      <4>1. ASSUME NEW s \in store
            PROVE  /\ OlderThan(s, now)' <=> now' - created[s] > SessionTTL
                   /\ OlderThan(s, now) => OlderThan(s, now)'
        BY <3>1, <3>2, DelayAssumption DEF OlderThan
      <4>2. ASSUME NEW s \in store
            PROVE  ~(now' - created[s] > SessionTTL) <=> now' - created[s] <= SessionTTL
        BY <3>1, <3>2, DelayAssumption
      <4> QED
        BY <3>1, <4>1, <4>2
    <3>4. Bearer!Advance
      BY <3>1, <3>3 DEF Bearer!Advance
    <3> QED
      BY <3>4 DEF Bearer!BearerNext
  <2>7. CASE UNCHANGED vars
    <3>1. honoured' = honoured /\ UNCHANGED <<now, created, session, request>>
      BY <2>7 DEF vars, google, OlderThan
    <3> QED
      BY <2>1, <3>1
  <2> QED
    BY <2>2, <2>3, <2>4, <2>5, <2>6, <2>7, RequestFinishes DEF Next
<1> QED
  BY <1>1, <1>2, SessionsInvariance, PTL DEF Spec, SessionsAreHonoured, Bearer!BearerSpec

-----------------------------------------------------------------------------
(* The invariant behind the refresh *)

\* What numbers there are.
LEMMA SessionTypes ==
  ASSUME TypeOK, RequestInv, NEW s \in DOMAIN session
  PROVE  /\ s \in SessionIds /\ s \in DOMAIN issued /\ s \in DOMAIN rotation
         /\ issued[s] \in Seq(Nat) /\ Len(issued[s]) \in Nat /\ Len(issued[s]) > 0
         /\ \A n \in 1..Len(issued[s]) : issued[s][n] \in Nat
         /\ Last(s) \in Nat /\ Last(s) <= now /\ now \in Nat
         /\ rotation[s] \in Nat
         /\ session[s] \in Session
         /\ session[s].access \in Nat /\ session[s].refresh \in Nat
         /\ session[s].expiresAt \in Nat
         /\ session[s].access # Torn => issued[s][session[s].access] \in Nat
<1>1. s \in SessionIds /\ s \in DOMAIN issued /\ s \in DOMAIN rotation
  BY DEF TypeOK, IsMap, RequestInv, SessionsAreKept
<1>2. issued[s] \in Seq(Nat) /\ rotation[s] \in Nat /\ session[s] \in Session /\ now \in Nat
  BY <1>1 DEF TypeOK, IsMap
<1>3. Len(issued[s]) \in Nat /\ Len(issued[s]) > 0 /\ Last(s) <= now
  BY <1>1, <1>2 DEF RequestInv, RefreshInv, IssuesAreApart
<1>4. \A n \in 1..Len(issued[s]) : issued[s][n] \in Nat
  BY <1>2
<1>5. Last(s) \in Nat
  BY <1>3, <1>4 DEF Last
<1>6. /\ session[s].access \in Nat /\ session[s].refresh \in Nat
      /\ session[s].expiresAt \in Nat
  BY <1>2 DEF Session
<1>7. session[s].access # Torn => issued[s][session[s].access] \in Nat
  BY <1>3, <1>4, <1>6 DEF RequestInv, RefreshInv, UpToDate, Torn
<1> QED
  BY <1>1, <1>2, <1>3, <1>4, <1>5, <1>6, <1>7

LEMMA RequestTypes ==
  ASSUME TypeOK, RequestInv, NEW r \in DOMAIN request
  PROVE  /\ request[r].access \in Nat /\ request[r].refresh \in Nat
         /\ request[r].since \in Nat /\ Of(r) \in DOMAIN session
BY DEF TypeOK, IsMap, Request, RequestInv, SessionsAreKept

\* A step that changes neither sessions nor tokens, nor a request that has
\* Google's answer in hand, keeps the invariant if the requests that it changes
\* may be where they are.
LEMMA QuietStep ==
  ASSUME RefreshInv, UNCHANGED <<now, session, issued, rotation, lost>>,
         RefreshesAreExclusive',
         \A q \in DOMAIN request : request[q].pc \in AnsweredPCs =>
           q \in DOMAIN request' /\ request'[q] = request[q],
         \A q \in DOMAIN request' :
           \/ q \in DOMAIN request /\ request'[q] = request[q]
           \/ CallIsJustified(q)' /\ AnswerIsCurrent(q)' /\ ToolIsInTime(q)'
  PROVE  RefreshInv'
<1>1. IssuesAreApart'
  BY DEF RefreshInv, IssuesAreApart, Last
<1>2. \A s : Unsettled(s) => Unsettled(s)'
  BY DEF Unsettled, Of
<1>3. ASSUME NEW s \in DOMAIN session
      PROVE  UpToDate(s)'
  BY <1>2, <1>3 DEF RefreshInv, UpToDate, HoldsWhatArrived, Last
<1>4. ASSUME NEW q \in DOMAIN request'
      PROVE  CallIsJustified(q)' /\ AnswerIsCurrent(q)' /\ ToolIsInTime(q)'
  <2>1. CASE q \in DOMAIN request /\ request'[q] = request[q]
    <3>1. CallIsJustified(q) /\ AnswerIsCurrent(q) /\ ToolIsInTime(q)
      BY <2>1 DEF RefreshInv
    <3>2. CallIsJustified(q)'
      BY <2>1, <3>1 DEF CallIsJustified, Fresh, Of
    <3>3. AnswerIsCurrent(q)'
      BY <2>1, <3>1 DEF AnswerIsCurrent, Of, Last
    <3>4. ToolIsInTime(q)'
      BY <2>1, <3>1 DEF ToolIsInTime, Of, Last, Covers
    <3> QED
      BY <3>2, <3>3, <3>4
  <2> QED
    BY <2>1, <1>4
<1> QED
  BY <1>1, <1>3, <1>4 DEF RefreshInv

\* A token that EnsureFreshToken lets through lasts for the request.
LEMMA FreshIsCovered ==
  ASSUME TypeOK, RequestInv, NEW s \in DOMAIN session, Fresh(s)
  PROVE  /\ Covers(Last(s), now)
         /\ session[s].access # Torn => Covers(issued[s][session[s].access], now)
<1>1. now < session[s].expiresAt - RefreshBuffer
  BY DEF Fresh
<1>2. /\ session[s].expiresAt <= Last(s) + ReplyDelay + TokenLife
      /\ session[s].access # Torn =>
           session[s].expiresAt <= issued[s][session[s].access] + ReplyDelay + TokenLife
  BY DEF RequestInv, RefreshInv, UpToDate
<1>3. /\ Last(s) \in Nat /\ now \in Nat /\ session[s].expiresAt \in Nat
      /\ session[s].access # Torn => issued[s][session[s].access] \in Nat
  BY SessionTypes
<1> QED
  BY <1>1, <1>2, <1>3, DelayAssumption DEF Covers

\* When a refresh ends, its leader and those who waited go on with its token,
\* and no other refresh of the session is under way.
LEMMA PartyReturns ==
  ASSUME TypeOK, RequestInv, NEW r \in DOMAIN request, request[r].pc \in LeaderPCs,
         ReturnFresh(r), UNCHANGED <<now, issued>>,
         Covers(Last(Of(r)), now),
         session'[Of(r)].access # Torn =>
           Covers(issued[Of(r)][session'[Of(r)].access], now)
  PROVE  /\ RefreshesAreExclusive'
         /\ DOMAIN request' = DOMAIN request
         /\ \A q \in DOMAIN request :
              \/ request'[q] = request[q] /\ q # r
              \/ /\ q = r \/ request[q].pc = "waiting"
                 /\ CallIsJustified(q)' /\ AnswerIsCurrent(q)' /\ ToolIsInTime(q)'
<1> DEFINE e == [pc |-> "update", session |-> Of(r), access |-> 0, refresh |-> 0, since |-> now]
<1>1. /\ DOMAIN request' = DOMAIN request
      /\ \A q \in DOMAIN request : q \in Party(r) => request'[q] = e
      /\ \A q \in DOMAIN request : q \notin Party(r) => request'[q] = request[q]
      /\ flight' = Without(flight, {Of(r)})
  BY DEF ReturnFresh
<1>2. e.pc = "update" /\ e.session = Of(r) /\ e.since = now
  OBVIOUS
<1> HIDE DEF e
<1>3. now \in Nat
  BY DEF TypeOK
<1>4. ASSUME NEW q \in DOMAIN request, q \in Party(r)
      PROVE  CallIsJustified(q)' /\ AnswerIsCurrent(q)' /\ ToolIsInTime(q)'
  <2>1. request'[q].pc = "update" /\ request'[q].session = Of(r) /\ request'[q].since = now
    BY <1>1, <1>2, <1>4
  <2>2. CallIsJustified(q)' /\ AnswerIsCurrent(q)'
    BY <2>1 DEF CallIsJustified, AnswerIsCurrent, AnsweredPCs
  <2>3. now' - request'[q].since <= RequestSpan
    BY <1>3, <2>1, DelayAssumption
  <2>4. ToolIsInTime(q)'
    <3>1. Of(q)' = Of(r)
      BY <2>1 DEF Of
    <3> QED
      BY <2>1, <2>3, <3>1 DEF ToolIsInTime, Covers, Last
  <2> QED
    BY <2>2, <2>4
<1>5. \A q \in Party(r) : q = r \/ request[q].pc = "waiting"
  BY DEF Party, At
<1>6. RefreshesAreExclusive'
  <2> SUFFICES ASSUME NEW q \in DOMAIN request', request'[q].pc \in LeaderPCs
               PROVE  Of(q)' \in DOMAIN flight' /\ flight'[Of(q)'] = q
    BY DEF RefreshesAreExclusive
  <2>1. q \notin Party(r) /\ request'[q] = request[q]
    BY <1>1, <1>2 DEF LeaderPCs
  <2>2. Of(q) \in DOMAIN flight /\ flight[Of(q)] = q /\ flight[Of(r)] = r /\ q # r
    BY <1>1, <2>1 DEF RequestInv, RefreshInv, RefreshesAreExclusive, Party
  <2>3. Of(q)' = Of(q)
    BY <2>1 DEF Of
  <2> QED
    BY <1>1, <2>2, <2>3 DEF Without, Restrict
<1>7. r \in Party(r)
  BY DEF Party
<1> QED
  BY <1>1, <1>4, <1>5, <1>6, <1>7

LEMMA EnsureKeepsInv ==
  ASSUME TypeOK, RequestInv, NEW r \in Requests, EnsureFreshToken(r)
  PROVE  RefreshInv'
<1>1. /\ r \in DOMAIN request /\ request[r].pc = "ensure"
      /\ UNCHANGED <<now, session, flight, issued, rotation, lost>>
  BY DEF EnsureFreshToken, At, google
<1>2. Of(r) \in DOMAIN session /\ now \in Nat
  BY <1>1, RequestTypes DEF TypeOK
<1>3. /\ DOMAIN request' = DOMAIN request
      /\ \A q \in DOMAIN request : q # r => request'[q] = request[q]
      /\ request'[r].session = Of(r)
      /\ \/ request'[r].pc = "stale"
         \/ request'[r].pc = "update" /\ request'[r].since = now /\ Fresh(Of(r))
  <2>1. request[r] \in Request
    BY <1>1 DEF TypeOK, IsMap
  <2>2. CASE Fresh(Of(r))
    <3>1. request' = [request EXCEPT ![r].pc = "update", ![r].since = now]
      BY <2>2 DEF EnsureFreshToken
    <3> QED
      BY <1>1, <2>1, <2>2, <3>1 DEF Request, Of
  <2>3. CASE ~Fresh(Of(r))
    BY <1>1, <2>1, <2>3 DEF EnsureFreshToken, Goto, Request, Of
  <2> QED
    BY <2>2, <2>3
<1>4. RefreshesAreExclusive'
  BY <1>1, <1>3 DEF RequestInv, RefreshInv, RefreshesAreExclusive, LeaderPCs, Of
<1>5. CallIsJustified(r)' /\ AnswerIsCurrent(r)'
  BY <1>3 DEF CallIsJustified, AnswerIsCurrent, AnsweredPCs
<1>6. ToolIsInTime(r)'
  <2>1. CASE request'[r].pc = "stale"
    BY <2>1 DEF ToolIsInTime, ReturnedPCs
  <2>2. CASE request'[r].pc = "update" /\ request'[r].since = now /\ Fresh(Of(r))
    <3>1. /\ Covers(Last(Of(r)), now)
          /\ session[Of(r)].access # Torn => Covers(issued[Of(r)][session[Of(r)].access], now)
      BY <1>2, <2>2, FreshIsCovered
    <3>2. now - now <= RequestSpan
      BY <1>2, DelayAssumption
    <3>3. Of(r)' = Of(r)
      BY <1>3 DEF Of
    <3> QED
      BY <1>1, <2>2, <3>1, <3>2, <3>3 DEF ToolIsInTime, Covers, Last
  <2> QED
    BY <1>3, <2>1, <2>2
<1>7. \A q \in DOMAIN request : request[q].pc \in AnsweredPCs => q # r
  BY <1>1 DEF AnsweredPCs
<1> QED
  BY <1>1, <1>3, <1>4, <1>5, <1>6, <1>7, QuietStep DEF RequestInv

\* Whoever leads a refresh finds no other one under way.
LEMMA DoKeepsInv ==
  ASSUME TypeOK, RequestInv, NEW r \in Requests, Do(r)
  PROVE  RefreshInv'
<1>1. /\ r \in DOMAIN request /\ request[r].pc = "stale"
      /\ UNCHANGED <<now, session, issued, rotation, lost>>
  BY DEF Do, At, google
<1>2. /\ DOMAIN request' = DOMAIN request
      /\ \A q \in DOMAIN request : q # r => request'[q] = request[q]
      /\ request'[r].session = Of(r)
      /\ \/ request'[r].pc = "waiting" /\ UNCHANGED flight
         \/ /\ request'[r].pc = "recheck"
            /\ Of(r) \notin DOMAIN flight /\ flight' = Put(flight, Of(r), r)
  <2>1. request[r] \in Request
    BY <1>1 DEF TypeOK, IsMap
  <2> QED
    BY <1>1, <2>1 DEF Do, Goto, Request, Of
<1>3. RefreshesAreExclusive'
  <2>1. CASE request'[r].pc = "waiting" /\ UNCHANGED flight
    BY <1>1, <1>2, <2>1 DEF RequestInv, RefreshInv, RefreshesAreExclusive, LeaderPCs, Of
  <2>2. CASE /\ request'[r].pc = "recheck"
             /\ Of(r) \notin DOMAIN flight /\ flight' = Put(flight, Of(r), r)
    <3>1. /\ DOMAIN flight' = DOMAIN flight \cup {Of(r)} /\ flight'[Of(r)] = r
          /\ \A s \in DOMAIN flight : flight'[s] = flight[s]
      BY <2>2 DEF Put
    <3>2. Of(r)' = Of(r) /\ \A q \in DOMAIN request : q # r => Of(q)' = Of(q)
      BY <1>2 DEF Of
    <3> QED
      BY <1>2, <3>1, <3>2 DEF RequestInv, RefreshInv, RefreshesAreExclusive
  <2> QED
    BY <1>2, <2>1, <2>2
<1>4. CallIsJustified(r)' /\ AnswerIsCurrent(r)' /\ ToolIsInTime(r)'
  BY <1>2 DEF CallIsJustified, AnswerIsCurrent, ToolIsInTime, AnsweredPCs, ReturnedPCs
<1>5. \A q \in DOMAIN request : request[q].pc \in AnsweredPCs => q # r
  BY <1>1 DEF AnsweredPCs
<1> QED
  BY <1>1, <1>2, <1>3, <1>4, <1>5, QuietStep DEF RequestInv

\* Nobody else leads a refresh of the session.
LEMMA LeaderIsAlone ==
  ASSUME RefreshInv, NEW r \in DOMAIN request, request[r].pc \in LeaderPCs
  PROVE  \A q \in DOMAIN request : Of(q) = Of(r) /\ request[q].pc \in LeaderPCs => q = r
BY DEF RefreshInv, RefreshesAreExclusive

\* A leader that calls Google has the session's refresh token and has seen the token near its end.
LEMMA RecheckKeepsInv ==
  ASSUME TypeOK, RequestInv, NEW r \in Requests, Recheck(r)
  PROVE  RefreshInv'
<1>1. /\ r \in DOMAIN request /\ request[r].pc = "recheck" /\ request[r].pc \in LeaderPCs
      /\ UNCHANGED <<now, session, issued, rotation, lost>>
  BY DEF Recheck, At, google, LeaderPCs
<1>2. Of(r) \in DOMAIN session
  BY <1>1, RequestTypes
<1>3. CASE Fresh(Of(r))
  <2>1. ReturnFresh(r)
    BY <1>3 DEF Recheck
  <2>2. /\ RefreshesAreExclusive'
        /\ DOMAIN request' = DOMAIN request
        /\ \A q \in DOMAIN request :
             \/ request'[q] = request[q] /\ q # r
             \/ /\ q = r \/ request[q].pc = "waiting"
                /\ CallIsJustified(q)' /\ AnswerIsCurrent(q)' /\ ToolIsInTime(q)'
    BY <1>1, <1>2, <1>3, <2>1, FreshIsCovered, PartyReturns
  <2>3. \A q \in DOMAIN request : request[q].pc \in AnsweredPCs =>
          q # r /\ request[q].pc # "waiting"
    BY <1>1 DEF AnsweredPCs
  <2> QED
    BY <1>1, <2>2, <2>3, QuietStep DEF RequestInv
<1>4. CASE ~Fresh(Of(r))
  <2>1. /\ DOMAIN request' = DOMAIN request
        /\ \A q \in DOMAIN request : q # r => request'[q] = request[q]
        /\ request'[r].session = Of(r) /\ request'[r].pc = "calling"
        /\ request'[r].refresh = session[Of(r)].refresh
        /\ UNCHANGED flight
    <3>1. request[r] \in Request
      BY <1>1 DEF TypeOK, IsMap
    <3> QED
      BY <1>1, <1>4, <3>1, ZenonT(30) DEF Recheck, Request, Of
  <2>2. RefreshesAreExclusive'
    BY <1>1, <2>1 DEF RequestInv, RefreshInv, RefreshesAreExclusive, LeaderPCs, Of
  <2>5. CallIsJustified(r)'
    BY <1>1, <1>4, <2>1 DEF CallIsJustified, Fresh, Of
  <2>6. AnswerIsCurrent(r)' /\ ToolIsInTime(r)'
    BY <2>1 DEF AnswerIsCurrent, ToolIsInTime, AnsweredPCs, ReturnedPCs
  <2>7. \A q \in DOMAIN request : request[q].pc \in AnsweredPCs => q # r
    BY <1>1 DEF AnsweredPCs
  <2> QED
    BY <1>1, <2>1, <2>2, <2>5, <2>6, <2>7, QuietStep DEF RequestInv
<1> QED
  BY <1>3, <1>4

\* A new request is at its beginning.
LEMMA GetSessionKeepsInv ==
  ASSUME TypeOK, RequestInv, NEW r \in Requests, NEW s \in SessionIds, GetSession(r, s)
  PROVE  RefreshInv'
<1>1. r \notin DOMAIN request /\ UNCHANGED <<now, session, flight, issued, rotation, lost>>
  BY DEF GetSession, google
<1>2. \/ UNCHANGED request
      \/ /\ DOMAIN request' = DOMAIN request \cup {r}
         /\ request'[r].pc = "ensure"
         /\ \A q \in DOMAIN request : request'[q] = request[q]
  <2>1. CASE OlderThan(s, now)
    BY <2>1 DEF GetSession
  <2>2. CASE ~OlderThan(s, now)
    <3> DEFINE e == [pc |-> "ensure", session |-> s, access |-> 0, refresh |-> 0, since |-> 0]
    <3>1. request' = Put(request, r, e) /\ e.pc = "ensure"
      BY <2>2 DEF GetSession
    <3> HIDE DEF e
    <3> QED
      BY <1>1, <3>1 DEF Put
  <2> QED
    BY <2>1, <2>2
<1>3. RefreshesAreExclusive'
  BY <1>1, <1>2 DEF RequestInv, RefreshInv, RefreshesAreExclusive, LeaderPCs, Of
<1>4. \A q \in DOMAIN request' :
        \/ q \in DOMAIN request /\ request'[q] = request[q]
        \/ CallIsJustified(q)' /\ AnswerIsCurrent(q)' /\ ToolIsInTime(q)'
  BY <1>2 DEF CallIsJustified, AnswerIsCurrent, ToolIsInTime, AnsweredPCs, ReturnedPCs
<1> QED
  BY <1>1, <1>2, <1>3, <1>4, QuietStep DEF RequestInv

LEMMA UpdateKeepsInv ==
  ASSUME TypeOK, RequestInv, NEW r \in Requests, UpdateSession(r)
  PROVE  RefreshInv'
<1>1. /\ r \in DOMAIN request /\ request[r].pc = "update" /\ request[r] \in Request
      /\ UNCHANGED <<now, session, flight, issued, rotation, lost>>
  BY DEF UpdateSession, At, google, TypeOK, IsMap
<1>2. /\ DOMAIN request' = DOMAIN request
      /\ \A q \in DOMAIN request : q # r => request'[q] = request[q]
      /\ request'[r].session = Of(r) /\ request'[r].pc = "handling"
      /\ request'[r].since = request[r].since
  BY <1>1 DEF UpdateSession, Goto, Request, Of
<1>3. RefreshesAreExclusive'
  BY <1>1, <1>2 DEF RequestInv, RefreshInv, RefreshesAreExclusive, LeaderPCs, Of
<1>4. ToolIsInTime(r)'
  <2>1. ToolIsInTime(r)
    BY <1>1 DEF RequestInv, RefreshInv
  <2>2. Of(r)' = Of(r)
    BY <1>2 DEF Of
  <2> QED
    BY <1>1, <1>2, <2>1, <2>2 DEF ToolIsInTime, ReturnedPCs, Covers, Last
<1>5. CallIsJustified(r)' /\ AnswerIsCurrent(r)'
  BY <1>2 DEF CallIsJustified, AnswerIsCurrent, AnsweredPCs
<1>6. \A q \in DOMAIN request : request[q].pc \in AnsweredPCs => q # r
  BY <1>1 DEF AnsweredPCs
<1> QED
  BY <1>1, <1>2, <1>3, <1>4, <1>5, <1>6, QuietStep DEF RequestInv

\* The tool's copy of the token is as good as the session's.
LEMMA ReadKeepsInv ==
  ASSUME TypeOK, RequestInv, NEW r \in Requests, ReadToken(r)
  PROVE  RefreshInv'
<1>1. /\ r \in DOMAIN request /\ request[r].pc = "handling" /\ request[r] \in Request
      /\ UNCHANGED <<now, session, flight, issued, rotation, lost>>
  BY DEF ReadToken, At, google, TypeOK, IsMap
<1>2. /\ DOMAIN request' = DOMAIN request
      /\ \A q \in DOMAIN request : q # r => request'[q] = request[q]
      /\ request'[r].session = Of(r) /\ request'[r].pc = "using"
      /\ request'[r].since = request[r].since
      /\ request'[r].access = session[Of(r)].access
  <2>1. request' = [request EXCEPT ![r].pc = "using", ![r].access = session[Of(r)].access]
    BY DEF ReadToken
  <2> QED
    BY <1>1, <2>1 DEF Request, Of
<1>3. RefreshesAreExclusive'
  BY <1>1, <1>2 DEF RequestInv, RefreshInv, RefreshesAreExclusive, LeaderPCs, Of
<1>4. ToolIsInTime(r)'
  <2>1. ToolIsInTime(r)
    BY <1>1 DEF RequestInv, RefreshInv
  <2>2. Of(r)' = Of(r) /\ UpToDate(Of(r))
    BY <1>1, <1>2, RequestTypes DEF RequestInv, RefreshInv, Of
  <2> QED
    BY <1>1, <1>2, <2>1, <2>2 DEF ToolIsInTime, UpToDate, ReturnedPCs, Covers, Last
<1>5. CallIsJustified(r)' /\ AnswerIsCurrent(r)'
  BY <1>2 DEF CallIsJustified, AnswerIsCurrent, AnsweredPCs
<1>6. \A q \in DOMAIN request : request[q].pc \in AnsweredPCs => q # r
  BY <1>1 DEF AnsweredPCs
<1> QED
  BY <1>1, <1>2, <1>3, <1>4, <1>5, <1>6, QuietStep DEF RequestInv

LEMMA AnswerKeepsInv ==
  ASSUME TypeOK, RequestInv, NEW r \in Requests, Answer(r)
  PROVE  RefreshInv'
<1>1. /\ r \in DOMAIN request /\ request[r].pc = "using"
      /\ UNCHANGED <<now, session, flight, issued, rotation, lost>>
  BY DEF Answer, At, google
<1>2. /\ DOMAIN request' = DOMAIN request \ {r}
      /\ \A q \in DOMAIN request' : request'[q] = request[q]
  BY DEF Answer, Without, Restrict
<1>3. RefreshesAreExclusive'
  BY <1>1, <1>2 DEF RequestInv, RefreshInv, RefreshesAreExclusive, Of
<1>4. \A q \in DOMAIN request : request[q].pc \in AnsweredPCs => q # r
  BY <1>1 DEF AnsweredPCs
<1> QED
  BY <1>1, <1>2, <1>3, <1>4, QuietStep DEF RequestInv

\* A refresh that fails leaves the session as it was, for the next one.
LEMMA RefreshFailsKeepsInv ==
  ASSUME TypeOK, RequestInv, NEW r \in Requests, RefreshFails(r)
  PROVE  RefreshInv'
<1>1. /\ r \in DOMAIN request /\ request[r].pc \in {"calling", "lost"}
      /\ UNCHANGED <<now, session, issued, rotation, lost>>
      /\ flight' = Without(flight, {Of(r)}) /\ request' = Without(request, Party(r))
  BY DEF RefreshFails, ReturnError, At, google
<1>2. /\ DOMAIN request' = DOMAIN request \ Party(r)
      /\ \A q \in DOMAIN request' : request'[q] = request[q]
      /\ DOMAIN flight' = DOMAIN flight \ {Of(r)}
      /\ \A s \in DOMAIN flight' : flight'[s] = flight[s]
  BY <1>1 DEF Without, Restrict
<1>3. r \in Party(r) /\ \A q \in Party(r) : q = r \/ request[q].pc = "waiting"
  BY DEF Party, At
<1>4. RefreshesAreExclusive'
  <2> SUFFICES ASSUME NEW q \in DOMAIN request', request'[q].pc \in LeaderPCs
               PROVE  Of(q)' \in DOMAIN flight' /\ flight'[Of(q)'] = q
    BY DEF RefreshesAreExclusive
  <2>1. q # r /\ request'[q] = request[q] /\ q \in DOMAIN request
    BY <1>2, <1>3
  <2>2. Of(q) \in DOMAIN flight /\ flight[Of(q)] = q /\ flight[Of(r)] = r
    BY <1>1, <2>1 DEF RequestInv, RefreshInv, RefreshesAreExclusive, LeaderPCs
  <2>3. Of(q)' = Of(q)
    BY <2>1 DEF Of
  <2> QED
    BY <1>2, <2>1, <2>2, <2>3
<1>5. \A q \in DOMAIN request : request[q].pc \in AnsweredPCs => q \notin Party(r)
  BY <1>1, <1>3 DEF AnsweredPCs
<1> QED
  BY <1>1, <1>2, <1>4, <1>5, QuietStep DEF RequestInv
\* What the leader of a refresh does to its session harms no other request:
\* the token of the session only gets newer.
LEMMA OthersKeep ==
  ASSUME TypeOK, RequestInv, NEW r \in DOMAIN request, request[r].pc \in LeaderPCs,
         UNCHANGED now, Of(r)' = Of(r),
         \A s \in DOMAIN session : s # Of(r) =>
           /\ session'[s] = session[s] /\ issued'[s] = issued[s] /\ rotation'[s] = rotation[s],
         Last(Of(r))' \in Nat, Last(Of(r))' >= Last(Of(r)),
         Len(issued'[Of(r)]) \in Nat, Len(issued'[Of(r)]) >= Len(issued[Of(r)]),
         \A n \in 1..Len(issued[Of(r)]) : issued'[Of(r)][n] = issued[Of(r)][n],
         session'[Of(r)].access \in {Torn, session[Of(r)].access, Len(issued[Of(r)])},
         NEW q \in DOMAIN request, q # r, request'[q] = request[q]
  PROVE  CallIsJustified(q)' /\ AnswerIsCurrent(q)' /\ ToolIsInTime(q)'
<1>1. /\ CallIsJustified(q) /\ AnswerIsCurrent(q) /\ ToolIsInTime(q)
      /\ Of(q)' = Of(q) /\ Of(q) \in DOMAIN session
  BY RequestTypes DEF RequestInv, RefreshInv, Of
<1>2. CASE Of(q) # Of(r)
  <2>1. CallIsJustified(q)'
    BY <1>1, <1>2 DEF CallIsJustified, Fresh
  <2>2. AnswerIsCurrent(q)'
    BY <1>1, <1>2 DEF AnswerIsCurrent, Last
  <2>3. ToolIsInTime(q)'
    BY <1>1, <1>2 DEF ToolIsInTime, Last, Covers
  <2> QED
    BY <2>1, <2>2, <2>3
<1>3. CASE Of(q) = Of(r)
  <2> DEFINE s == Of(r)
  <2>1. request[q].pc \notin LeaderPCs
    BY <1>3, LeaderIsAlone DEF RequestInv
  <2>2. CallIsJustified(q)' /\ AnswerIsCurrent(q)'
    BY <2>1 DEF CallIsJustified, AnswerIsCurrent, AnsweredPCs, LeaderPCs
  <2>3. /\ request[q].since \in Nat /\ request[q].access \in Nat
        /\ s \in DOMAIN session
        /\ Len(issued[s]) \in Nat /\ Len(issued[s]) > 0
        /\ \A n \in 1..Len(issued[s]) : issued[s][n] \in Nat
        /\ Last(s) \in Nat /\ session[s].access \in Nat
        /\ session[s].access <= Len(issued[s])
    BY <1>1, <1>3, SessionTypes, RequestTypes DEF RequestInv, RefreshInv, UpToDate
  <2>4. \A n \in Nat \ {Torn} : n <= Len(issued[s]) =>
          issued'[s][n] = issued[s][n] /\ issued[s][n] \in Nat
    BY <2>3 DEF Torn
  <2>5. \A t \in Nat : Covers(Last(s), t) => Covers(Last(s)', t)
    BY <2>3, DelayAssumption DEF Covers
  <2>6. ASSUME request[q].pc \in ReturnedPCs \ {"using"}, session'[s].access # Torn
        PROVE  Covers(issued'[s][session'[s].access], request[q].since)
    <3>1. CASE session'[s].access = session[s].access
      BY <1>1, <1>3, <2>3, <2>4, <2>6, <3>1 DEF ToolIsInTime
    <3>2. CASE session'[s].access = Len(issued[s])
      <4>1. issued'[s][session'[s].access] = Last(s)
        BY <2>3, <3>2 DEF Last
      <4> QED
        BY <1>1, <1>3, <2>6, <4>1 DEF ToolIsInTime
    <3> QED
      BY <2>6, <3>1, <3>2
  <2>7. ASSUME request[q].pc = "using", request[q].access # Torn
        PROVE  /\ request[q].access <= Len(issued'[s])
               /\ Covers(issued'[s][request[q].access], request[q].since)
    <3>1. /\ request[q].access <= Len(issued[s])
          /\ Covers(issued[s][request[q].access], request[q].since)
      BY <1>1, <1>3, <2>7 DEF ToolIsInTime
    <3> QED
      BY <2>3, <2>4, <2>7, <3>1
  <2>8. /\ request[q].pc \in ReturnedPCs => now' - request[q].since <= RequestSpan
        /\ request[q].pc \in ReturnedPCs \ {"using"} => Covers(Last(s)', request[q].since)
    BY <1>1, <1>3, <2>3, <2>5 DEF ToolIsInTime
  <2>9. ToolIsInTime(q)'
    <3>1. Of(q)' = s /\ s' = s
      BY <1>1, <1>3
    <3>2. Last(s)' = issued'[s][Len(issued'[s])]
      BY <3>1 DEF Last
    <3>3. Last(Of(q))' = Last(s)'
      BY <3>1 DEF Last
    <3> HIDE DEF s
    <3> QED
      BY <2>6, <2>7, <2>8, <3>1, <3>2, <3>3 DEF ToolIsInTime, Covers, Last
  <2> QED
    BY <2>2, <2>9
<1> QED
  BY <1>2, <1>3

\* The leader writes Google's answer into the session.
LEMMA WriteStep ==
  ASSUME TypeOK, RequestInv, NEW r \in DOMAIN request, request[r].pc \in AnsweredPCs,
         UNCHANGED <<now, issued, rotation, lost, flight>>,
         DOMAIN request' = DOMAIN request,
         \A q \in DOMAIN request : q # r => request'[q] = request[q],
         request'[r].session = Of(r), request'[r].pc \in AnsweredPCs,
         DOMAIN session' = DOMAIN session,
         \A s \in DOMAIN session : s # Of(r) => session'[s] = session[s],
         session'[Of(r)].access \in {Torn, session[Of(r)].access, Len(issued[Of(r)])},
         session'[Of(r)].expiresAt <= Last(Of(r)) + ReplyDelay + TokenLife,
         session'[Of(r)].access # Torn =>
           session'[Of(r)].expiresAt <=
             issued[Of(r)][session'[Of(r)].access] + ReplyDelay + TokenLife,
         AnswerIsCurrent(r)'
  PROVE  RefreshInv'
<1>1. request[r].pc \in LeaderPCs /\ request'[r].pc \in LeaderPCs
  BY DEF AnsweredPCs, LeaderPCs
<1>2. \A q \in DOMAIN request : Of(q)' = Of(q)
  BY DEF Of
<1>3. RefreshesAreExclusive'
  BY <1>1, <1>2 DEF RequestInv, RefreshInv, RefreshesAreExclusive
<1>4. IssuesAreApart'
  BY DEF RequestInv, RefreshInv, IssuesAreApart, Last
<1>5. /\ Of(r) \in DOMAIN session
      /\ Last(Of(r)) \in Nat /\ Len(issued[Of(r)]) \in Nat
  BY RequestTypes, SessionTypes
<1>6. ASSUME NEW s \in DOMAIN session
      PROVE  UpToDate(s)'
  <2>1. UpToDate(s)
    BY DEF RequestInv, RefreshInv
  <2>2. CASE s # Of(r)
    <3>1. Unsettled(s) => Unsettled(s)'
      BY <1>2, <2>2 DEF Unsettled
    <3> QED
      BY <2>1, <2>2, <3>1 DEF UpToDate, HoldsWhatArrived, Last
  <2>3. CASE s = Of(r)
    <3>1. Unsettled(s)'
      BY <1>2, <2>3 DEF Unsettled
    <3>2. session'[s].access <= Len(issued[s])
      BY <1>5, <2>1, <2>3 DEF UpToDate, Torn
    <3> QED
      BY <2>1, <2>3, <3>1, <3>2 DEF UpToDate, Last
  <2> QED
    BY <2>2, <2>3
<1>7. ASSUME NEW q \in DOMAIN request, q # r
      PROVE  CallIsJustified(q)' /\ AnswerIsCurrent(q)' /\ ToolIsInTime(q)'
  <2>1. /\ Of(r)' = Of(r) /\ Last(Of(r))' = Last(Of(r))
        /\ Len(issued'[Of(r)]) = Len(issued[Of(r)])
    BY <1>2 DEF Last
  <2>2. Last(Of(r))' >= Last(Of(r)) /\ Len(issued'[Of(r)]) >= Len(issued[Of(r)])
    BY <1>5, <2>1
  <2> QED
    BY <1>1, <1>5, <1>7, <2>1, <2>2, OthersKeep
<1>8. CallIsJustified(r)' /\ ToolIsInTime(r)'
  BY DEF CallIsJustified, ToolIsInTime, AnsweredPCs, ReturnedPCs
<1> QED
  BY <1>3, <1>4, <1>6, <1>7, <1>8 DEF RefreshInv

LEMMA StartWriteKeepsInv ==
  ASSUME TypeOK, RequestInv, NEW r \in Requests, StartWrite(r)
  PROVE  RefreshInv'
<1>1. /\ r \in DOMAIN request /\ request[r].pc = "answered" /\ request[r] \in Request
      /\ UNCHANGED <<now, issued, rotation, lost, flight>>
  BY DEF StartWrite, At, google, TypeOK, IsMap
<1>2. /\ DOMAIN request' = DOMAIN request
      /\ \A q \in DOMAIN request : q # r => request'[q] = request[q]
      /\ request'[r].session = Of(r) /\ request'[r].pc = "writing"
      /\ request'[r].access = request[r].access /\ request'[r].since = request[r].since
      /\ request'[r].refresh = request[r].refresh
  BY <1>1 DEF StartWrite, Goto, Request, Of
<1>3. Of(r) \in DOMAIN session /\ session[Of(r)] \in Session /\ UpToDate(Of(r))
  BY <1>1, RequestTypes, SessionTypes DEF RequestInv, RefreshInv
<1>4. /\ DOMAIN session' = DOMAIN session
      /\ \A s \in DOMAIN session : s # Of(r) => session'[s] = session[s]
      /\ session'[Of(r)].access = Torn
      /\ session'[Of(r)].expiresAt = session[Of(r)].expiresAt
      /\ session'[Of(r)].refresh = session[Of(r)].refresh
  BY <1>3 DEF StartWrite, Session
<1>5. AnswerIsCurrent(r)'
  <2>1. AnswerIsCurrent(r) /\ Of(r)' = Of(r)
    BY <1>1, <1>2 DEF RequestInv, RefreshInv, Of
  <2> QED
    BY <1>1, <1>2, <1>4, <2>1 DEF AnswerIsCurrent, AnsweredPCs, Last
<1> QED
  BY <1>1, <1>2, <1>3, <1>4, <1>5, WriteStep DEF UpToDate, AnsweredPCs

LEMMA WriteAccessKeepsInv ==
  ASSUME TypeOK, RequestInv, NEW r \in Requests, WriteAccess(r)
  PROVE  RefreshInv'
<1>1. /\ r \in DOMAIN request /\ request[r].pc = "writing" /\ request[r] \in Request
      /\ UNCHANGED <<now, issued, rotation, lost, flight>>
  BY DEF WriteAccess, At, google, TypeOK, IsMap
<1>2. /\ DOMAIN request' = DOMAIN request
      /\ \A q \in DOMAIN request : q # r => request'[q] = request[q]
      /\ request'[r].session = Of(r) /\ request'[r].pc = "written"
      /\ request'[r].access = request[r].access /\ request'[r].since = request[r].since
      /\ request'[r].refresh = request[r].refresh
  BY <1>1 DEF WriteAccess, Goto, Request, Of
<1>3. Of(r) \in DOMAIN session /\ session[Of(r)] \in Session /\ UpToDate(Of(r))
  BY <1>1, RequestTypes, SessionTypes DEF RequestInv, RefreshInv
<1>4. /\ DOMAIN session' = DOMAIN session
      /\ \A s \in DOMAIN session : s # Of(r) => session'[s] = session[s]
      /\ session'[Of(r)].access = request[r].access
      /\ session'[Of(r)].expiresAt = session[Of(r)].expiresAt
      /\ session'[Of(r)].refresh = session[Of(r)].refresh
  BY <1>3 DEF WriteAccess, Session
<1>5. AnswerIsCurrent(r) /\ request[r].access = Len(issued[Of(r)])
  BY <1>1 DEF RequestInv, RefreshInv, AnswerIsCurrent, AnsweredPCs
<1>6. AnswerIsCurrent(r)'
  <2>1. Of(r)' = Of(r)
    BY <1>2 DEF Of
  <2> QED
    BY <1>1, <1>2, <1>4, <1>5, <2>1 DEF AnswerIsCurrent, AnsweredPCs, Last
<1> QED
  BY <1>1, <1>2, <1>3, <1>4, <1>5, <1>6, WriteStep DEF UpToDate, AnsweredPCs, Last

\* The expiry counts from the answer's arrival, ReplyDelay after its issue at most.
LEMMA WriteExpiryKeepsInv ==
  ASSUME TypeOK, RequestInv, NEW r \in Requests, WriteExpiry(r)
  PROVE  RefreshInv'
<1>1. /\ r \in DOMAIN request /\ request[r].pc = "written" /\ request[r] \in Request
      /\ UNCHANGED <<now, issued, rotation, lost, flight>>
  BY DEF WriteExpiry, At, google, TypeOK, IsMap
<1>2. /\ DOMAIN request' = DOMAIN request
      /\ \A q \in DOMAIN request : q # r => request'[q] = request[q]
      /\ request'[r].session = Of(r) /\ request'[r].pc = "dated"
      /\ request'[r].access = request[r].access /\ request'[r].since = request[r].since
      /\ request'[r].refresh = request[r].refresh
  BY <1>1 DEF WriteExpiry, Goto, Request, Of
<1>3. /\ Of(r) \in DOMAIN session /\ session[Of(r)] \in Session
      /\ Last(Of(r)) \in Nat /\ Last(Of(r)) <= now /\ now \in Nat
  BY <1>1, RequestTypes, SessionTypes
<1>4. /\ DOMAIN session' = DOMAIN session
      /\ \A s \in DOMAIN session : s # Of(r) => session'[s] = session[s]
      /\ session'[Of(r)].access = session[Of(r)].access
      /\ session'[Of(r)].expiresAt = now + TokenLife
      /\ session'[Of(r)].refresh = session[Of(r)].refresh
  BY <1>3 DEF WriteExpiry, Session
<1>5. /\ AnswerIsCurrent(r) /\ session[Of(r)].access = Len(issued[Of(r)])
      /\ now - Last(Of(r)) <= ReplyDelay
  BY <1>1 DEF RequestInv, RefreshInv, AnswerIsCurrent, AnsweredPCs
<1>6. /\ now + TokenLife <= Last(Of(r)) + ReplyDelay + TokenLife
      /\ now + TokenLife >= Last(Of(r)) + TokenLife
  BY <1>3, <1>5, DelayAssumption
<1>7. AnswerIsCurrent(r)'
  <2>1. Of(r)' = Of(r) /\ Last(Of(r))' = Last(Of(r))
    BY <1>1, <1>2 DEF Of, Last
  <2> QED
    BY <1>1, <1>2, <1>4, <1>5, <1>6, <2>1 DEF AnswerIsCurrent, AnsweredPCs
<1>8. issued[Of(r)][session'[Of(r)].access] = Last(Of(r))
  BY <1>4, <1>5 DEF Last
<1> QED
  BY <1>1, <1>2, <1>3, <1>4, <1>5, <1>6, <1>7, <1>8, WriteStep DEF AnsweredPCs
\* When a refresh ends, the session has the last token and the refresh token
\* that goes with it, and remembers when that token expires.
LEMMA WriteRefreshKeepsInv ==
  ASSUME TypeOK, RequestInv, NEW r \in Requests, WriteRefresh(r)
  PROVE  RefreshInv'
<1>1. /\ r \in DOMAIN request /\ request[r].pc = "dated"
      /\ request[r].pc \in LeaderPCs /\ request[r].pc \in AnsweredPCs
      /\ ReturnFresh(r) /\ UNCHANGED <<now, issued, rotation, lost>>
  BY DEF WriteRefresh, At, google, LeaderPCs, AnsweredPCs
<1>2. /\ Of(r) \in DOMAIN session /\ session[Of(r)] \in Session /\ UpToDate(Of(r))
      /\ Last(Of(r)) \in Nat /\ now \in Nat /\ Len(issued[Of(r)]) \in Nat
      /\ AnswerIsCurrent(r)
  BY <1>1, RequestTypes, SessionTypes DEF RequestInv, RefreshInv
<1>3. /\ session[Of(r)].access = Len(issued[Of(r)])
      /\ now - Last(Of(r)) <= ReplyDelay
      /\ session[Of(r)].expiresAt >= Last(Of(r)) + TokenLife
      /\ IF request[r].refresh = NoToken THEN session[Of(r)].refresh = rotation[Of(r)]
         ELSE request[r].refresh = rotation[Of(r)]
  BY <1>1, <1>2 DEF AnswerIsCurrent
<1>4. /\ DOMAIN session' = DOMAIN session
      /\ \A s \in DOMAIN session : s # Of(r) => session'[s] = session[s]
      /\ session'[Of(r)].access = session[Of(r)].access
      /\ session'[Of(r)].expiresAt = session[Of(r)].expiresAt
      /\ session'[Of(r)].refresh = rotation[Of(r)]
  BY <1>2, <1>3 DEF WriteRefresh, Session
<1>5. Covers(Last(Of(r)), now)
  BY <1>2, <1>3, DelayAssumption DEF Covers
<1>6. /\ RefreshesAreExclusive'
      /\ DOMAIN request' = DOMAIN request
      /\ \A q \in DOMAIN request :
           \/ request'[q] = request[q] /\ q # r
           \/ /\ q = r \/ request[q].pc = "waiting"
              /\ CallIsJustified(q)' /\ AnswerIsCurrent(q)' /\ ToolIsInTime(q)'
  BY <1>1, <1>3, <1>4, <1>5, PartyReturns DEF Last
<1>7. Of(r)' = Of(r)
  <2>1. r \in Party(r)
    BY DEF Party
  <2> QED
    BY <1>1, <2>1 DEF ReturnFresh, Of
<1>8. ASSUME NEW q \in DOMAIN request
      PROVE  CallIsJustified(q)' /\ AnswerIsCurrent(q)' /\ ToolIsInTime(q)'
  <2>1. CASE request'[q] = request[q] /\ q # r
    <3>1. Last(Of(r))' = Last(Of(r)) /\ Len(issued'[Of(r)]) = Len(issued[Of(r)])
      BY <1>1, <1>7 DEF Last
    <3>2. Last(Of(r))' >= Last(Of(r)) /\ Len(issued'[Of(r)]) >= Len(issued[Of(r)])
      BY <1>2, <3>1
    <3> QED
      BY <1>1, <1>2, <1>4, <1>7, <2>1, <3>1, <3>2, OthersKeep
  <2> QED
    BY <1>6, <2>1
<1>9. ASSUME NEW s \in DOMAIN session
      PROVE  UpToDate(s)'
  <2>1. UpToDate(s)
    BY DEF RequestInv, RefreshInv
  <2>2. CASE s # Of(r)
    <3>1. ASSUME NEW q \in DOMAIN request, Of(q) = s, request[q].pc \in AnsweredPCs
          PROVE  Of(q)' = s /\ request'[q].pc \in AnsweredPCs
      BY <1>6, <2>2, <3>1 DEF Of, AnsweredPCs
    <3>2. Unsettled(s) => Unsettled(s)'
      BY <1>6, <3>1 DEF Unsettled
    <3> QED
      BY <1>1, <1>4, <2>1, <2>2, <3>2 DEF UpToDate, HoldsWhatArrived, Last
  <2>3. CASE s = Of(r)
    <3>1. Len(issued[Of(r)]) > 0
      BY <1>2, SessionTypes
    <3>2. HoldsWhatArrived(s)'
      BY <1>1, <1>2, <1>3, <1>4, <2>3, <3>1 DEF HoldsWhatArrived, Last, Torn
    <3> QED
      BY <1>1, <1>3, <1>4, <2>1, <2>3, <3>2 DEF UpToDate, Last
  <2> QED
    BY <2>2, <2>3
<1>10. IssuesAreApart'
  BY <1>1 DEF RequestInv, RefreshInv, IssuesAreApart, Last
<1> QED
  BY <1>4, <1>6, <1>8, <1>9, <1>10 DEF RefreshInv

\* Google issues a token when the last one that arrived is near its end, because
\* the leader who asks is alone and has seen that.
LEMMA GoogleIssuesFacts ==
  ASSUME TypeOK, RequestInv, NEW r \in Requests, NEW rotate \in BOOLEAN,
         GoogleIssues(r, rotate), NEW s, s = Of(r)
  PROVE  /\ r \in DOMAIN request /\ request[r].pc = "calling" /\ request[r].pc \in LeaderPCs
         /\ request[r] \in Request /\ s \in DOMAIN session /\ s \in DOMAIN issued
         /\ UNCHANGED <<now, session, flight>>
         /\ Len(issued[s]) \in Nat /\ Len(issued[s]) > 0
         /\ \A n \in 1..Len(issued[s]) : issued[s][n] \in Nat
         /\ Last(s) \in Nat /\ Last(s) <= now /\ now \in Nat
         /\ session[s].access \in Nat /\ session[s].expiresAt \in Nat
         /\ DOMAIN issued' = DOMAIN issued
         /\ Len(issued'[s]) = Len(issued[s]) + 1
         /\ \A n \in 1..Len(issued[s]) : issued'[s][n] = issued[s][n]
         /\ issued'[s][Len(issued[s]) + 1] = now
         /\ \A x \in DOMAIN issued : x # s => issued'[x] = issued[x] /\ rotation'[x] = rotation[x]
         /\ rotation'[s] = IF rotate THEN Len(issued[s]) + 1 ELSE rotation[s]
         /\ rotation[s] \in Nat /\ rotation[s] # NoToken
         /\ session[s].refresh = rotation[s]
         /\ HoldsWhatArrived(s)
         /\ Len(issued[s]) \in lost[s] \/ now - Last(s) >= TokenLife - RefreshBuffer
<1>1. /\ r \in DOMAIN request /\ request[r].pc = "calling" /\ request[r].pc \in LeaderPCs
      /\ request[r] \in Request /\ request[r].refresh = rotation[s]
      /\ UNCHANGED <<now, session, flight>>
      /\ issued' = [issued EXCEPT ![s] = Append(@, now)]
      /\ rotation' = IF rotate THEN [rotation EXCEPT ![s] = Len(issued'[s])] ELSE rotation
  BY DEF GoogleIssues, At, LeaderPCs, TypeOK, IsMap
<1>2. s \in DOMAIN session
  BY <1>1, RequestTypes
<1>3. /\ s \in DOMAIN issued /\ s \in DOMAIN rotation
      /\ issued[s] \in Seq(Nat) /\ Len(issued[s]) \in Nat /\ Len(issued[s]) > 0
      /\ \A n \in 1..Len(issued[s]) : issued[s][n] \in Nat
      /\ Last(s) \in Nat /\ Last(s) <= now /\ now \in Nat
      /\ rotation[s] \in Nat
      /\ session[s].access \in Nat /\ session[s].expiresAt \in Nat
  BY <1>2, SessionTypes
<1>4. /\ DOMAIN issued' = DOMAIN issued
      /\ issued'[s] = Append(issued[s], now)
      /\ \A x \in DOMAIN issued : x # s => issued'[x] = issued[x] /\ rotation'[x] = rotation[x]
  BY <1>1, <1>3 DEF RequestInv, SessionsAreKept
<1>5. /\ Len(issued'[s]) = Len(issued[s]) + 1
      /\ \A n \in 1..Len(issued[s]) : issued'[s][n] = issued[s][n]
      /\ issued'[s][Len(issued[s]) + 1] = now
  BY <1>3, <1>4, AppendProperties
<1>6. rotation'[s] = IF rotate THEN Len(issued[s]) + 1 ELSE rotation[s]
  BY <1>1, <1>3, <1>5
<1>7. /\ session[s].refresh = rotation[s] /\ rotation[s] # NoToken
      /\ HoldsWhatArrived(s) /\ ~Fresh(s) /\ session[s].access <= Len(issued[s])
  <2>1. ~Unsettled(s)
    BY <1>1, LeaderIsAlone DEF Unsettled, AnsweredPCs, LeaderPCs, RequestInv
  <2>2. UpToDate(s) /\ CallIsJustified(r)
    BY <1>1, <1>2 DEF RequestInv, RefreshInv
  <2> QED
    BY <1>1, <2>1, <2>2 DEF UpToDate, CallIsJustified
<1>8. Len(issued[s]) \in lost[s] \/ now - Last(s) >= TokenLife - RefreshBuffer
  <2>1. CASE session[s].access = Len(issued[s])
    <3>1. session[s].expiresAt >= Last(s) + TokenLife
      BY <1>7, <2>1 DEF HoldsWhatArrived, Last
    <3> QED
      BY <1>3, <1>7, <3>1, DelayAssumption DEF Fresh
  <2>2. CASE session[s].access # Len(issued[s])
    <3>1. Len(issued[s]) \in session[s].access + 1 .. Len(issued[s])
      BY <1>3, <1>7, <2>2
    <3> QED
      BY <1>7, <3>1 DEF HoldsWhatArrived
  <2> QED
    BY <2>1, <2>2
<1> QED
  BY <1>1, <1>2, <1>3, <1>4, <1>5, <1>6, <1>7, <1>8

\* Whether its answer arrives or not, an issue keeps the issues apart, and harms
\* no other request.
LEMMA GoogleIssuesKeeps ==
  ASSUME TypeOK, RequestInv, NEW r \in Requests, NEW rotate \in BOOLEAN,
         GoogleIssues(r, rotate),
         DOMAIN request' = DOMAIN request,
         \A q \in DOMAIN request : q # r => request'[q] = request[q],
         request'[r].session = Of(r), request'[r].pc \in LeaderPCs,
         \A x \in DOMAIN issued : x # Of(r) => lost'[x] = lost[x],
         lost[Of(r)] \subseteq lost'[Of(r)]
  PROVE  /\ RefreshesAreExclusive'
         /\ IssuesAreApart'
         /\ \A x \in DOMAIN session : x # Of(r) => UpToDate(x)'
         /\ \A q \in DOMAIN request : q # r =>
              CallIsJustified(q)' /\ AnswerIsCurrent(q)' /\ ToolIsInTime(q)'
<1>1. PICK s : s = Of(r)
  OBVIOUS
<1>2. /\ r \in DOMAIN request /\ request[r].pc = "calling" /\ request[r].pc \in LeaderPCs
      /\ request[r] \in Request /\ s \in DOMAIN session /\ s \in DOMAIN issued
      /\ UNCHANGED <<now, session, flight>>
      /\ Len(issued[s]) \in Nat /\ Len(issued[s]) > 0
      /\ \A n \in 1..Len(issued[s]) : issued[s][n] \in Nat
      /\ Last(s) \in Nat /\ Last(s) <= now /\ now \in Nat
      /\ DOMAIN issued' = DOMAIN issued
      /\ Len(issued'[s]) = Len(issued[s]) + 1
      /\ \A n \in 1..Len(issued[s]) : issued'[s][n] = issued[s][n]
      /\ issued'[s][Len(issued[s]) + 1] = now
      /\ \A x \in DOMAIN issued : x # s => issued'[x] = issued[x] /\ rotation'[x] = rotation[x]
      /\ Len(issued[s]) \in lost[s] \/ now - Last(s) >= TokenLife - RefreshBuffer
  BY <1>1, GoogleIssuesFacts
<1>3. /\ Of(r)' = s /\ \A q \in DOMAIN request : Of(q)' = Of(q)
      /\ Last(s)' = now
  BY <1>1, <1>2 DEF Of, Last
<1>4. RefreshesAreExclusive'
  BY <1>1, <1>2, <1>3 DEF RequestInv, RefreshInv, RefreshesAreExclusive
<1>5. IssuesAreApart'
  <2>1. IssuesAreApart
    BY DEF RequestInv, RefreshInv
  <2>2. ASSUME NEW x \in DOMAIN issued, x # s
        PROVE  /\ Len(issued'[x]) > 0 /\ Last(x)' <= now'
               /\ \A n \in 1..Len(issued'[x]) - 1 :
                    \/ n \in lost'[x]
                    \/ issued'[x][n + 1] - issued'[x][n] >= TokenLife - RefreshBuffer
    BY <1>1, <1>2, <2>1, <2>2 DEF IssuesAreApart, Last
  <2>3. Len(issued'[s]) > 0 /\ Last(s)' <= now'
    BY <1>2, <1>3
  <2>4. ASSUME NEW n \in 1..Len(issued'[s]) - 1
        PROVE  n \in lost'[s] \/ issued'[s][n + 1] - issued'[s][n] >= TokenLife - RefreshBuffer
    <3>1. n \in Nat /\ n \in 1..Len(issued[s])
      BY <1>2
    <3>2. CASE n = Len(issued[s])
      BY <1>1, <1>2, <3>1, <3>2 DEF Last
    <3>3. CASE n # Len(issued[s])
      <4>1. n \in 1..Len(issued[s]) - 1 /\ n + 1 \in 1..Len(issued[s])
        BY <1>2, <3>1, <3>3
      <4>2. issued'[s][n + 1] = issued[s][n + 1] /\ issued'[s][n] = issued[s][n]
        BY <1>2, <3>1, <4>1
      <4> QED
        BY <1>1, <1>2, <2>1, <4>1, <4>2 DEF IssuesAreApart
    <3> QED
      BY <3>2, <3>3
  <2> QED
    BY <1>2, <2>2, <2>3, <2>4 DEF IssuesAreApart
<1>6. ASSUME NEW x \in DOMAIN session, x # s
      PROVE  UpToDate(x)'
  <2>1. UpToDate(x) /\ x \in DOMAIN issued
    BY SessionTypes DEF RequestInv, RefreshInv
  <2>2. Unsettled(x) => Unsettled(x)'
    BY <1>1, <1>2, <1>3, <1>6 DEF Unsettled
  <2>3. HoldsWhatArrived(x) => HoldsWhatArrived(x)'
    BY <1>1, <1>2, <1>6, <2>1 DEF HoldsWhatArrived
  <2> QED
    BY <1>2, <1>6, <2>1, <2>2, <2>3 DEF UpToDate, Last
<1>7. ASSUME NEW q \in DOMAIN request, q # r
      PROVE  CallIsJustified(q)' /\ AnswerIsCurrent(q)' /\ ToolIsInTime(q)'
  <2>1. /\ Len(issued'[s]) \in Nat /\ Len(issued'[s]) >= Len(issued[s])
        /\ Last(Of(r))' = now
    BY <1>2, <1>3 DEF Last
  <2>2. \A x \in DOMAIN session : x \in DOMAIN issued
    BY SessionTypes
  <2>3. /\ UNCHANGED now /\ Of(r)' = Of(r) /\ request'[q] = request[q]
        /\ \A x \in DOMAIN session : x # Of(r) =>
             session'[x] = session[x] /\ issued'[x] = issued[x] /\ rotation'[x] = rotation[x]
        /\ session'[Of(r)].access = session[Of(r)].access
    BY <1>1, <1>2, <1>3, <1>7, <2>2
  <2>4. /\ Last(Of(r))' \in Nat /\ Last(Of(r))' >= Last(Of(r))
        /\ Len(issued'[Of(r)]) \in Nat /\ Len(issued'[Of(r)]) >= Len(issued[Of(r)])
        /\ \A n \in 1..Len(issued[Of(r)]) : issued'[Of(r)][n] = issued[Of(r)][n]
    BY <1>1, <1>2, <2>1
  <2> QED
    BY <1>2, <1>7, <2>3, <2>4, OthersKeep
<1> QED
  BY <1>1, <1>4, <1>5, <1>6, <1>7

\* The bounds on the expiry that a session remembers survive a newer issue.
LEMMA GoogleIssuesBounds ==
  ASSUME TypeOK, RequestInv, NEW r \in Requests, NEW rotate \in BOOLEAN,
         GoogleIssues(r, rotate), NEW s, s = Of(r)
  PROVE  /\ rotation'[s] # NoToken
         /\ session[s].access <= Len(issued'[s])
         /\ session[s].expiresAt <= now + ReplyDelay + TokenLife
         /\ session[s].access # Torn =>
              session[s].expiresAt <= issued'[s][session[s].access] + ReplyDelay + TokenLife
<1>1. /\ s \in DOMAIN session
      /\ Len(issued[s]) \in Nat /\ Len(issued[s]) > 0
      /\ Last(s) \in Nat /\ Last(s) <= now /\ now \in Nat
      /\ session[s].access \in Nat /\ session[s].expiresAt \in Nat
      /\ Len(issued'[s]) = Len(issued[s]) + 1
      /\ \A n \in 1..Len(issued[s]) : issued'[s][n] = issued[s][n]
      /\ rotation'[s] = IF rotate THEN Len(issued[s]) + 1 ELSE rotation[s]
      /\ rotation[s] # NoToken
  BY GoogleIssuesFacts
<1>2. UpToDate(s)
  BY <1>1 DEF RequestInv, RefreshInv
<1>3. rotation'[s] # NoToken
  BY <1>1 DEF NoToken
<1>4. /\ session[s].access <= Len(issued'[s])
      /\ session[s].expiresAt <= now + ReplyDelay + TokenLife
  BY <1>1, <1>2, DelayAssumption, SMTT(30) DEF UpToDate
<1>5. session[s].access # Torn =>
        session[s].expiresAt <= issued'[s][session[s].access] + ReplyDelay + TokenLife
  BY <1>1, <1>2 DEF UpToDate, Torn
<1> QED
  BY <1>3, <1>4, <1>5

\* The leader holds what Google issued.
LEMMA IssueKeepsInv ==
  ASSUME TypeOK, RequestInv, NEW r \in Requests, NEW rotate \in BOOLEAN, Issue(r, rotate)
  PROVE  RefreshInv'
<1>1. GoogleIssues(r, rotate) /\ UNCHANGED lost
  BY DEF Issue
<1>2. PICK s : s = Of(r)
  OBVIOUS
<1>3. /\ r \in DOMAIN request /\ request[r] \in Request /\ s \in DOMAIN session
      /\ UNCHANGED <<now, session, flight>>
      /\ Len(issued[s]) \in Nat /\ now \in Nat
      /\ Len(issued'[s]) = Len(issued[s]) + 1
      /\ issued'[s][Len(issued[s]) + 1] = now
      /\ rotation'[s] = IF rotate THEN Len(issued[s]) + 1 ELSE rotation[s]
      /\ session[s].refresh = rotation[s]
  BY <1>1, <1>2, GoogleIssuesFacts
<1>4. Last(s)' = now
  BY <1>3 DEF Last
<1>5. /\ DOMAIN request' = DOMAIN request
      /\ \A q \in DOMAIN request : q # r => request'[q] = request[q]
      /\ request'[r].session = s /\ request'[r].pc = "answered"
      /\ request'[r].since = now /\ request'[r].access = Len(issued'[s])
      /\ request'[r].refresh = IF rotate THEN rotation'[s] ELSE NoToken
  <2> DEFINE a == Len(issued'[Of(r)])
             b == IF rotate THEN rotation'[Of(r)] ELSE NoToken
  <2>1. request' = [request EXCEPT ![r].pc = "answered", ![r].since = now,
                                   ![r].access = a, ![r].refresh = b]
    BY DEF Issue
  <2>2. a = Len(issued'[s]) /\ b = IF rotate THEN rotation'[s] ELSE NoToken
    BY <1>2
  <2> HIDE DEF a, b
  <2>3. /\ DOMAIN request' = DOMAIN request
        /\ \A q \in DOMAIN request : q # r => request'[q] = request[q]
        /\ request'[r].session = s /\ request'[r].pc = "answered"
        /\ request'[r].since = now /\ request'[r].access = a /\ request'[r].refresh = b
    BY <1>2, <1>3, <2>1 DEF Request, Of
  <2> QED
    BY <2>2, <2>3
<1>6. request'[r].pc \in LeaderPCs
  BY <1>5 DEF LeaderPCs
<1>7. /\ RefreshesAreExclusive' /\ IssuesAreApart'
      /\ \A x \in DOMAIN session : x # s => UpToDate(x)'
      /\ \A q \in DOMAIN request : q # r =>
           CallIsJustified(q)' /\ AnswerIsCurrent(q)' /\ ToolIsInTime(q)'
  BY <1>1, <1>2, <1>5, <1>6, GoogleIssuesKeeps
<1>8. UpToDate(s)'
  <2>1. Unsettled(s)'
    BY <1>3, <1>5 DEF Unsettled, AnsweredPCs, Of
  <2> QED
    BY <1>1, <1>2, <1>3, <1>4, <2>1, GoogleIssuesBounds DEF UpToDate
<1>9. CallIsJustified(r)' /\ AnswerIsCurrent(r)' /\ ToolIsInTime(r)'
  <2>1. CallIsJustified(r)' /\ ToolIsInTime(r)'
    BY <1>5 DEF CallIsJustified, ToolIsInTime, ReturnedPCs
  <2>2. now' - request'[r].since <= ReplyDelay
    BY <1>3, <1>5, DelayAssumption
  <2>3. IF request'[r].refresh = NoToken THEN session'[s].refresh = rotation'[s]
        ELSE request'[r].refresh = rotation'[s]
    BY <1>3, <1>5 DEF NoToken
  <2>4. request'[r].since = issued'[s][Len(issued'[s])]
    BY <1>3, <1>5
  <2>5. Of(r)' = s
    BY <1>5 DEF Of
  <2> QED
    BY <1>5, <2>1, <2>2, <2>3, <2>4, <2>5 DEF AnswerIsCurrent, AnsweredPCs, Last
<1> QED
  BY <1>3, <1>5, <1>7, <1>8, <1>9 DEF RefreshInv

\* After a lost answer the session has what arrived before it.
LEMMA IssueUnheardKeepsInv ==
  ASSUME TypeOK, RequestInv, NEW r \in Requests, NEW rotate \in BOOLEAN,
         IssueUnheard(r, rotate)
  PROVE  RefreshInv'
<1>1. /\ GoogleIssues(r, rotate) /\ Goto(r, "lost")
      /\ lost' = [lost EXCEPT ![Of(r)] = @ \cup {Len(issued'[Of(r)])}]
  BY DEF IssueUnheard
<1>2. PICK s : s = Of(r)
  OBVIOUS
<1>3. /\ r \in DOMAIN request /\ request[r] \in Request /\ s \in DOMAIN session
      /\ s \in DOMAIN issued
      /\ UNCHANGED <<now, session, flight>>
      /\ Len(issued[s]) \in Nat /\ now \in Nat
      /\ session[s].access \in Nat /\ session[s].expiresAt \in Nat
      /\ Len(issued'[s]) = Len(issued[s]) + 1
      /\ \A n \in 1..Len(issued[s]) : issued'[s][n] = issued[s][n]
      /\ issued'[s][Len(issued[s]) + 1] = now
      /\ rotation'[s] = IF rotate THEN Len(issued[s]) + 1 ELSE rotation[s]
      /\ HoldsWhatArrived(s)
  BY <1>1, <1>2, GoogleIssuesFacts
<1>4. Last(s)' = now
  BY <1>3 DEF Last
<1>5. /\ lost'[s] = lost[s] \cup {Len(issued[s]) + 1}
      /\ \A x \in DOMAIN issued : x # s => lost'[x] = lost[x]
  BY <1>1, <1>2, <1>3, GoogleIssuesType DEF RequestInv, SessionsAreKept
<1>6. /\ DOMAIN request' = DOMAIN request
      /\ \A q \in DOMAIN request : q # r => request'[q] = request[q]
      /\ request'[r].session = s /\ request'[r].pc = "lost"
  BY <1>1, <1>2, <1>3 DEF Goto, Request, Of
<1>7. request'[r].pc \in LeaderPCs
  BY <1>6 DEF LeaderPCs
<1>8. /\ RefreshesAreExclusive' /\ IssuesAreApart'
      /\ \A x \in DOMAIN session : x # s => UpToDate(x)'
      /\ \A q \in DOMAIN request : q # r =>
           CallIsJustified(q)' /\ AnswerIsCurrent(q)' /\ ToolIsInTime(q)'
  BY <1>1, <1>2, <1>5, <1>6, <1>7, GoogleIssuesKeeps
<1>9. HoldsWhatArrived(s)'
  <2>1. session[s].access <= Len(issued[s])
    BY <1>3 DEF RequestInv, RefreshInv, UpToDate
  <2>2. /\ session[s].access \in 1..Len(issued[s])
        /\ \A n \in session[s].access + 1 .. Len(issued[s]) : n \in lost[s]
        /\ session[s].refresh = rotation[s] \/ rotation[s] \in lost[s]
        /\ session[s].expiresAt >= issued[s][session[s].access] + TokenLife
    BY <1>3, <2>1 DEF HoldsWhatArrived, Torn
  <2>3. \A n \in session[s].access + 1 .. Len(issued'[s]) : n \in lost'[s]
    BY <1>3, <1>5, <2>2
  <2>4. session[s].refresh = rotation'[s] \/ rotation'[s] \in lost'[s]
    BY <1>3, <1>5, <2>2
  <2>5. session[s].access # Torn
    BY <2>2 DEF Torn
  <2> QED
    BY <1>3, <2>2, <2>3, <2>4, <2>5 DEF HoldsWhatArrived
<1>10. UpToDate(s)'
  BY <1>1, <1>2, <1>3, <1>4, <1>9, GoogleIssuesBounds DEF UpToDate
<1>11. CallIsJustified(r)' /\ AnswerIsCurrent(r)' /\ ToolIsInTime(r)'
  BY <1>6 DEF CallIsJustified, AnswerIsCurrent, ToolIsInTime, AnsweredPCs, ReturnedPCs
<1> QED
  BY <1>3, <1>6, <1>8, <1>10, <1>11 DEF RefreshInv

\* A new session starts with its first token, ReplyDelay after its issue at most.
LEMMA CreateKeepsInv ==
  ASSUME TypeOK, RequestInv, NEW s \in SessionIds, NEW issue \in 0..now,
         NEW arrival \in 0..now, CreateSession(s, issue, arrival)
  PROVE  RefreshInv'
<1>1. /\ s \notin DOMAIN created /\ UNCHANGED <<now, flight, request>>
      /\ now - ReplyDelay <= issue /\ issue <= arrival
      /\ session' = Put(session, s, StampedSession(arrival))
      /\ issued' = Put(issued, s, <<issue>>) /\ rotation' = Put(rotation, s, 1)
      /\ lost' = Put(lost, s, {})
  BY DEF CreateSession
<1>2. /\ DOMAIN session' = DOMAIN session \cup {s} /\ DOMAIN issued' = DOMAIN issued \cup {s}
      /\ s \notin DOMAIN session /\ s \notin DOMAIN issued /\ s \notin DOMAIN rotation
      /\ \A x \in DOMAIN issued : lost'[x] = lost[x]
      /\ \A x \in DOMAIN session : session'[x] = session[x]
      /\ \A x \in DOMAIN issued : issued'[x] = issued[x] /\ rotation'[x] = rotation[x]
      /\ issued'[s] = <<issue>> /\ rotation'[s] = 1
      /\ session'[s].access = 1 /\ session'[s].refresh = 1
      /\ session'[s].expiresAt = arrival + TokenLife
  BY <1>1 DEF Put, RequestInv, SessionsAreKept, StampedSession
<1>3. now \in Nat /\ issue \in Nat /\ arrival \in Nat /\ issue <= now /\ arrival <= now
  BY DEF TypeOK
<1>4. Len(issued'[s]) = 1 /\ issued'[s][1] = issue /\ Last(s)' = issue
  BY <1>2, <1>3 DEF Last
<1>5. \A x \in DOMAIN issued : Last(x)' = Last(x)
  BY <1>2 DEF Last
<1>6. \A q \in DOMAIN request : Of(q)' = Of(q) /\ Of(q) \in DOMAIN session /\ Of(q) \in DOMAIN issued
  BY <1>1, RequestTypes, SessionTypes DEF Of
<1>7. RefreshesAreExclusive'
  BY <1>1, <1>6 DEF RequestInv, RefreshInv, RefreshesAreExclusive
<1>8. IssuesAreApart'
  <2>1. \A n : n \notin 1..Len(issued'[s]) - 1
    BY <1>4
  <2> QED
    <3>1. /\ Len(issued'[s]) > 0 /\ Last(s)' <= now'
          /\ \A n \in 1..Len(issued'[s]) - 1 :
               \/ n \in lost'[s]
               \/ issued'[s][n + 1] - issued'[s][n] >= TokenLife - RefreshBuffer
      BY <1>1, <1>3, <1>4, <2>1
    <3>2. IssuesAreApart
      BY DEF RequestInv, RefreshInv
    <3>3. ASSUME NEW x \in DOMAIN issued
          PROVE  /\ Len(issued'[x]) > 0 /\ Last(x)' <= now'
                 /\ \A n \in 1..Len(issued'[x]) - 1 :
                      \/ n \in lost'[x]
                      \/ issued'[x][n + 1] - issued'[x][n] >= TokenLife - RefreshBuffer
      BY <1>1, <1>2, <1>5, <3>2 DEF IssuesAreApart
    <3> QED
      BY <1>2, <3>1, <3>3 DEF IssuesAreApart
<1>9. ASSUME NEW x \in DOMAIN session'
      PROVE  UpToDate(x)'
  <2>1. CASE x \in DOMAIN session
    <3>1. UpToDate(x) /\ x \in DOMAIN issued
      BY <2>1, SessionTypes DEF RequestInv, RefreshInv
    <3>2. Unsettled(x) => Unsettled(x)'
      BY <1>1 DEF Unsettled, Of
    <3> QED
      BY <1>2, <1>5, <2>1, <3>1, <3>2 DEF UpToDate, HoldsWhatArrived
  <2>2. CASE x = s
    <3>1. arrival + TokenLife <= issue + ReplyDelay + TokenLife /\ arrival + TokenLife >= issue + TokenLife
      BY <1>1, <1>3, DelayAssumption
    <3>2. issued'[s][session'[s].access] = issue
      BY <1>2, <1>4
    <3>3. /\ rotation'[s] # NoToken /\ session'[s].access = Len(issued'[s])
          /\ session'[s].refresh = rotation'[s]
      BY <1>2, <1>4 DEF NoToken
    <3>4. session'[s].access <= Len(issued'[s])
      BY <1>4, <3>3
    <3>5. HoldsWhatArrived(s)'
      BY <1>2, <1>4, <3>1, <3>2, <3>3 DEF HoldsWhatArrived, Torn
    <3> QED
      BY <1>2, <1>4, <2>2, <3>1, <3>2, <3>3, <3>4, <3>5, ZenonT(30) DEF UpToDate
  <2> QED
    BY <1>2, <2>1, <2>2
<1>10. ASSUME NEW q \in DOMAIN request
       PROVE  CallIsJustified(q)' /\ AnswerIsCurrent(q)' /\ ToolIsInTime(q)'
  <2>1. CallIsJustified(q) /\ AnswerIsCurrent(q) /\ ToolIsInTime(q) /\ Last(Of(q))' = Last(Of(q))
    BY <1>1, <1>2, <1>6 DEF RequestInv, RefreshInv, Last
  <2>2. CallIsJustified(q)'
    BY <1>1, <1>2, <1>6, <2>1 DEF CallIsJustified, Fresh
  <2>3. AnswerIsCurrent(q)'
    BY <1>1, <1>2, <1>6, <2>1 DEF AnswerIsCurrent
  <2>4. ToolIsInTime(q)'
    BY <1>1, <1>2, <1>6, <2>1 DEF ToolIsInTime, Covers
  <2> QED
    BY <2>2, <2>3, <2>4
<1> QED
  BY <1>1, <1>7, <1>8, <1>9, <1>10 DEF RefreshInv

\* Time passes only while nobody is at the end of a delay.
LEMMA TickKeepsInv ==
  ASSUME TypeOK, RequestInv, Tick
  PROVE  RefreshInv'
<1>1. /\ now' = now + 1 /\ now \in Nat
      /\ UNCHANGED <<session, flight, request, issued, rotation, lost>>
  BY DEF Tick, google, TypeOK
<1>2. RefreshesAreExclusive'
  BY <1>1 DEF RequestInv, RefreshInv, RefreshesAreExclusive, Of
<1>3. IssuesAreApart'
  <2>1. \A s \in DOMAIN issued : Last(s) \in Nat /\ Last(s) <= now
    <3> SUFFICES ASSUME NEW s \in DOMAIN issued
                 PROVE  Last(s) \in Nat /\ Last(s) <= now
      OBVIOUS
    <3>1. issued[s] \in Seq(Nat) /\ Len(issued[s]) > 0 /\ Last(s) <= now
      BY DEF TypeOK, IsMap, RequestInv, RefreshInv, IssuesAreApart
    <3>2. Len(issued[s]) \in 1..Len(issued[s])
      BY <3>1
    <3> QED
      BY <3>1, <3>2 DEF Last
  <2>2. \A s \in DOMAIN issued : Last(s)' <= now'
    <3>1. \A n \in Nat : n <= now => n <= now'
      BY <1>1
    <3> QED
      BY <1>1, <2>1, <3>1 DEF Last
  <2> QED
    BY <1>1, <2>2 DEF RequestInv, RefreshInv, IssuesAreApart
<1>4. \A s \in DOMAIN session : UpToDate(s)'
  BY <1>1 DEF RequestInv, RefreshInv, UpToDate, HoldsWhatArrived, Unsettled, Of, Last
<1>5. ASSUME NEW r \in DOMAIN request
      PROVE  CallIsJustified(r)' /\ AnswerIsCurrent(r)' /\ ToolIsInTime(r)'
  <2>1. /\ CallIsJustified(r) /\ AnswerIsCurrent(r) /\ ToolIsInTime(r)
        /\ Of(r)' = Of(r) /\ Last(Of(r))' = Last(Of(r))
    BY <1>1 DEF RequestInv, RefreshInv, Of, Last
  <2>2. /\ request[r].since \in Nat /\ Of(r) \in DOMAIN session
        /\ session[Of(r)].expiresAt \in Nat
    BY RequestTypes, SessionTypes
  <2>3. /\ request[r].pc \notin {"writing", "written", "dated"}
        /\ request[r].pc = "answered" => now + 1 - request[r].since <= ReplyDelay
        /\ request[r].pc \in ReturnedPCs => now + 1 - request[r].since <= RequestSpan
    <3>1. ~Urgent(r)
      BY DEF Tick
    <3>2. /\ request[r].pc = "answered" => ~(now - request[r].since >= ReplyDelay)
          /\ request[r].pc \in ReturnedPCs => ~(now - request[r].since >= RequestSpan)
          /\ request[r].pc \notin {"writing", "written", "dated"}
      BY <3>1 DEF Urgent, ReturnedPCs
    <3>3. /\ ~(now - request[r].since >= ReplyDelay) => now + 1 - request[r].since <= ReplyDelay
          /\ ~(now - request[r].since >= RequestSpan) => now + 1 - request[r].since <= RequestSpan
      BY <1>1, <2>2, DelayAssumption
    <3> QED
      BY <3>2, <3>3
  <2>4. CallIsJustified(r)'
    <3>1. ~Fresh(Of(r)) => ~Fresh(Of(r))'
      BY <1>1, <2>1, <2>2, DelayAssumption DEF Fresh
    <3> QED
      BY <1>1, <2>1, <3>1 DEF CallIsJustified
  <2>5. AnswerIsCurrent(r)'
    <3>1. CASE request[r].pc \notin AnsweredPCs
      BY <1>1, <3>1 DEF AnswerIsCurrent
    <3>2. CASE request[r].pc = "answered"
      <4>1. now' - request'[r].since <= ReplyDelay
        BY <1>1, <2>2, <2>3, <3>2
      <4> QED
        BY <1>1, <2>1, <3>2, <4>1 DEF AnswerIsCurrent, AnsweredPCs
    <3> QED
      BY <2>3, <3>1, <3>2 DEF AnsweredPCs
  <2>6. ToolIsInTime(r)'
    <3>1. request'[r].pc \in ReturnedPCs => now' - request'[r].since <= RequestSpan
      BY <1>1, <2>2, <2>3
    <3> QED
      BY <1>1, <2>1, <3>1 DEF ToolIsInTime, Covers
  <2> QED
    BY <2>4, <2>5, <2>6
<1> QED
  BY <1>1, <1>2, <1>3, <1>4, <1>5 DEF RefreshInv

\* What a request relies on between two of its steps stays true, whatever the
\* other requests, the cleanup, Google and restarts do in between.
THEOREM RequestInvariance == Spec => []RequestInv
<1>1. Init => RefreshInv
  <2> SUFFICES ASSUME Init PROVE RefreshInv
    OBVIOUS
  <2>1. DOMAIN session = {} /\ DOMAIN request = {} /\ DOMAIN issued = {}
    BY EmptyMapType DEF Init
  <2> QED
    BY <2>1 DEF RefreshInv, RefreshesAreExclusive, IssuesAreApart
<1>2. TypeOK /\ SessionsAreKept /\ RefreshInv /\ [Next]_vars => RefreshInv'
  <2> SUFFICES ASSUME TypeOK, RequestInv, [Next]_vars
               PROVE  RefreshInv'
    BY DEF RequestInv
  <2>1. ASSUME UNCHANGED <<now, session, flight, request, issued, rotation, lost>>
        PROVE  RefreshInv'
    <3>1. RefreshesAreExclusive'
      BY <2>1 DEF RequestInv, RefreshInv, RefreshesAreExclusive, Of
    <3> QED
      BY <2>1, <3>1, QuietStep DEF RequestInv
  <2>2. CASE Sweep
    BY <2>1, <2>2 DEF Sweep, SweepTick, SweepSessions, google
  <2>3. CASE UNCHANGED vars
    BY <2>1, <2>3 DEF vars, google
  <2>4. CASE Restart
    <3>1. DOMAIN session' = {} /\ DOMAIN request' = {} /\ UNCHANGED <<now, issued, lost>>
      BY <2>4, EmptyMapType DEF Restart, google
    <3>2. IssuesAreApart'
      BY <3>1 DEF RequestInv, RefreshInv, IssuesAreApart, Last
    <3> QED
      BY <3>1, <3>2 DEF RefreshInv, RefreshesAreExclusive
  <2>5. ASSUME NEW r \in Requests, Serve(r) \/ Reply(r)
        PROVE  RefreshInv'
    BY <2>5, EnsureKeepsInv, DoKeepsInv, RecheckKeepsInv, StartWriteKeepsInv,
       WriteAccessKeepsInv, WriteExpiryKeepsInv, WriteRefreshKeepsInv, UpdateKeepsInv,
       ReadKeepsInv, AnswerKeepsInv, IssueKeepsInv, IssueUnheardKeepsInv, RefreshFailsKeepsInv
       DEF Serve, Refresh, Reply
  <2> QED
    BY <2>2, <2>3, <2>4, <2>5, CreateKeepsInv, GetSessionKeepsInv, TickKeepsInv DEF Next
<1> QED
  BY <1>1, <1>2, SessionsInvariance, PTL DEF Spec, RequestInv

\* Google never replaces a token that arrived before it has come within
\* RefreshBuffer of its expiry, however many requests find it stale.
THEOREM TokensAreRefreshedOnce == Spec => []OneRefreshPerToken
<1>1. RequestInv => OneRefreshPerToken
  BY DEF RequestInv, RefreshInv, IssuesAreApart, OneRefreshPerToken
<1> QED
  BY <1>1, RequestInvariance, PTL

\* No two requests use up one refresh token, and a refresh that fails spoils the
\* next one only if Google's answer to it, with a new refresh token, was lost.
THEOREM RefreshTokensAreCurrent == Spec => []RefreshTokenIsCurrent
<1>1. RequestInv => RefreshTokenIsCurrent
  <2> SUFFICES ASSUME RequestInv, NEW r \in DOMAIN request, request[r].pc = "calling"
               PROVE  request[r].refresh = rotation[Of(r)] \/ rotation[Of(r)] \in lost[Of(r)]
    BY DEF RefreshTokenIsCurrent, Of
  <2>1. ~Unsettled(Of(r))
    BY LeaderIsAlone DEF Unsettled, AnsweredPCs, LeaderPCs, RequestInv
  <2>2. Of(r) \in DOMAIN session
    BY DEF RequestInv, SessionsAreKept
  <2> QED
    BY <2>1, <2>2 DEF RequestInv, RefreshInv, CallIsJustified, UpToDate, HoldsWhatArrived
<1> QED
  BY <1>1, RequestInvariance, PTL

\* A tool's token lives until the tool's last use of it, whatever the delays
\* that the buffer covers.
THEOREM TokensLive == Spec => []TokensLiveWhileUsed
<1>1. TypeOK /\ RequestInv => TokensLiveWhileUsed
  <2> SUFFICES ASSUME TypeOK, RequestInv, NEW r \in DOMAIN request,
                      request[r].pc = "using", request[r].access # Torn
               PROVE  now < issued[Of(r)][request[r].access] + TokenLife
    BY DEF TokensLiveWhileUsed, Of
  <2> DEFINE issue == issued[Of(r)][request[r].access]
  <2>1. /\ request[r].access <= Len(issued[Of(r)])
        /\ Covers(issue, request[r].since)
        /\ now - request[r].since <= RequestSpan
    BY DEF RequestInv, RefreshInv, ToolIsInTime, ReturnedPCs
  <2>2. /\ request[r].since \in Nat /\ request[r].access \in Nat /\ now \in Nat
        /\ Len(issued[Of(r)]) \in Nat
        /\ \A n \in 1..Len(issued[Of(r)]) : issued[Of(r)][n] \in Nat
    BY RequestTypes, SessionTypes DEF TypeOK
  <2>3. issue \in Nat
    BY <2>1, <2>2 DEF Torn
  <2> HIDE DEF issue
  <2>4. now < issue + TokenLife
    BY <2>1, <2>2, <2>3, DelayAssumption DEF Covers
  <2> QED
    BY <2>4 DEF issue
<1> QED
  BY <1>1, SessionsInvariance, RequestInvariance, PTL
=============================================================================
