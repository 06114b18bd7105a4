----------------------------- MODULE Middleware -----------------------------
(***************************************************************************)
(* A request to /mcp: internal/auth/middleware.go and EnsureFreshToken of  *)
(* internal/auth/oauth.go, up to the tool call that uses the session's     *)
(* Google access token, beside the cleanup of internal/auth/session.go.    *)
(*                                                                         *)
(* The store hands out a pointer: all requests of a session share one      *)
(* Session, read and written without a lock outside the store's maps.      *)
(* AccessToken is a string, two machine words, so a read that races with   *)
(* its assignment may return neither the old nor the new token: between    *)
(* the two steps of the assignment the field holds Torn.  ExpiresAt is     *)
(* compared by one word (the monotonic reading), so it changes in one      *)
(* step.  RefreshToken is read and written by the leader of a refresh only.*)
(* Stores become visible in program order, as on amd64, where the server   *)
(* is deployed.                                                            *)
(***************************************************************************)
EXTENDS Integers, Sequences, FiniteSets, GoMap

CONSTANTS
  SessionIds,
  Requests,       \* goroutines that serve /mcp
  SessionTTL,     \* 24 hours (sessionTTL)
  TokenLife,      \* how long Google lets an access token live (one hour)
  RefreshBuffer,  \* 5 minutes (EnsureFreshToken)
  ReplyDelay,     \* longest time from Google's issue of a token to its store in a session
  RequestSpan,    \* longest time from EnsureFreshToken to the tool's last use of the token
  MaxTime,        \* bound on the clock
  MaxLosses       \* bound on the answers of Google that a session loses

\* Google's tokens outlive the buffer, and the buffer covers the delays that a
\* token meets before its last use.  Tools run under a 30 or 60 second timeout;
\* before that the library reads the request's body, for which the server sets
\* no timeout: that it arrives in time is an assumption about the client.
ASSUME DelayAssumption ==
  /\ SessionTTL \in Nat /\ TokenLife \in Nat /\ RefreshBuffer \in Nat
  /\ ReplyDelay \in Nat /\ RequestSpan \in Nat /\ MaxTime \in Nat /\ MaxLosses \in Nat
  /\ RefreshBuffer < TokenLife
  /\ ReplyDelay + RequestSpan <= RefreshBuffer

VARIABLES
  now,       \* time.Now()
  store,     \* the keys of Store.sessions
  session,   \* session id -> the Session its pointer refers to
  flight,    \* refreshGroup: session id -> the request that leads its refresh
  request,   \* the requests being served: where each is, and its local variables
  sweep,     \* the cleanup goroutine: where it is and the time it captured
  \* What a restart of the server does not touch:
  created,   \* session id -> when its session was created
  issued,    \* Google: session id -> when it issued the access tokens 1, 2, ...
  rotation,  \* Google: session id -> the refresh token it accepts now, named by
             \* the number of the access token it came with
  lost       \* session id -> the issues whose answers never reached the server

google == <<created, issued, rotation, lost>>
vars == <<now, store, session, flight, request, sweep, google>>

Torn == 0         \* a mixture of two access tokens
NoToken == 0      \* Google's answer carries no new refresh token

Session == [access : Nat, refresh : Nat, expiresAt : Nat, createdAt : Nat]

PCs == {"ensure", "stale", "waiting", "recheck", "calling", "lost", "answered",
        "writing", "written", "dated", "update", "handling", "using"}
Request == [pc : PCs, session : SessionIds, access : Nat, refresh : Nat, since : Nat]

TypeOK ==
  /\ now \in Nat
  /\ store \subseteq DOMAIN session
  /\ IsMap(session, SessionIds, Session)
  /\ IsMap(flight, SessionIds, Requests)
  /\ IsMap(request, Requests, Request)
  /\ sweep \in [at : {"idle", "sessions"}, now : Nat]
  /\ IsMap(created, SessionIds, Nat)
  /\ DOMAIN session \subseteq DOMAIN issued
  /\ IsMap(issued, SessionIds, Seq(Nat))
  /\ IsMap(rotation, SessionIds, Nat)
  /\ IsMap(lost, SessionIds, SUBSET Nat)

At(r, pc) == r \in DOMAIN request /\ request[r].pc = pc
Of(r) == request[r].session
Goto(r, pc) == request' = [request EXCEPT ![r].pc = pc]

OlderThan(s, t) == t - session[s].createdAt > SessionTTL

-----------------------------------------------------------------------------
Init ==
  /\ now = 0
  /\ store = {}
  /\ session = EmptyMap /\ flight = EmptyMap /\ request = EmptyMap
  /\ sweep = [at |-> "idle", now |-> 0]
  /\ created = EmptyMap /\ issued = EmptyMap /\ rotation = EmptyMap /\ lost = EmptyMap

\* A new session: its token's expiry counts from when the token arrived.
SessionStampedNever(arrival) ==        \* faulty: CreatedAt is left zero
  [access |-> 1, refresh |-> 1, expiresAt |-> arrival + TokenLife, createdAt |-> -1]

StampedSession(arrival) ==
  [access |-> 1, refresh |-> 1, expiresAt |-> arrival + TokenLife, createdAt |-> now]

\* CreateSession, at the end of a login: Google issued the first token at
\* `issue`, Exchange returned it at `arrival`, and fetchEmail came in between.
CreateSession(s, issue, arrival) ==
  /\ s \notin DOMAIN created
  /\ now - ReplyDelay <= issue /\ issue <= arrival
  /\ session' = Put(session, s, StampedSession(arrival))
  /\ store' = store \cup {s}
  /\ created' = Put(created, s, now)
  /\ issued' = Put(issued, s, <<issue>>)
  /\ rotation' = Put(rotation, s, 1)
  /\ lost' = Put(lost, s, {})
  /\ UNCHANGED <<now, flight, request, sweep>>

-----------------------------------------------------------------------------
(* Middleware *)

\* A new request calls GetSession: an expired session is deleted on the spot
\* and the request refused; an unknown one is refused without any effect.
AdmitAnyAge(r, s) ==                   \* faulty: GetSession forgets the TTL
  /\ r \notin DOMAIN request
  /\ s \in store
  /\ request' = Put(request, r, [pc |-> "ensure", session |-> s, access |-> 0,
                                 refresh |-> 0, since |-> 0])
  /\ UNCHANGED <<now, store, session, flight, sweep, google>>

GetSession(r, s) ==
  /\ r \notin DOMAIN request
  /\ s \in store
  /\ IF OlderThan(s, now)
     THEN store' = store \ {s} /\ UNCHANGED request
     ELSE /\ request' = Put(request, r, [pc |-> "ensure", session |-> s, access |-> 0,
                                         refresh |-> 0, since |-> 0])
          /\ UNCHANGED store
  /\ UNCHANGED <<now, session, flight, sweep, google>>

\* More than RefreshBuffer away from the expiry the session remembers.
FreshWithoutBuffer(s) == now < session[s].expiresAt        \* faulty

Fresh(s) == now < session[s].expiresAt - RefreshBuffer

\* The fast path of EnsureFreshToken: an unlocked look at ExpiresAt.
EnsureFreshToken(r) ==
  /\ At(r, "ensure")
  /\ IF Fresh(Of(r))
     THEN request' = [request EXCEPT ![r].pc = "update", ![r].since = now]
     ELSE Goto(r, "stale")
  /\ UNCHANGED <<now, store, session, flight, sweep, google>>

\* refreshGroup.Do: the first caller of a session leads, the others wait.
Do(r) ==
  /\ At(r, "stale")
  /\ IF Of(r) \in DOMAIN flight
     THEN Goto(r, "waiting") /\ UNCHANGED flight
     ELSE flight' = Put(flight, Of(r), r) /\ Goto(r, "recheck")
  /\ UNCHANGED <<now, store, session, sweep, google>>

\* Do returns, to its leader and to everyone who waits, the same result.
Party(r) == {r} \cup {q \in DOMAIN request : At(q, "waiting") /\ Of(q) = Of(r)}

ReturnFresh(r) ==
  /\ flight' = Without(flight, {Of(r)})
  /\ request' = [q \in DOMAIN request |->
       IF q \in Party(r)
       THEN [pc |-> "update", session |-> Of(r), access |-> 0, refresh |-> 0, since |-> now]
       ELSE request[q]]

ReturnError(r) ==
  /\ flight' = Without(flight, {Of(r)})
  /\ request' = Without(request, Party(r))

\* The function under Do: a second look, then the call to Google.
CallAnyway(r) ==                       \* faulty: no second look
  /\ At(r, "recheck")
  /\ request' = [request EXCEPT ![r].pc = "calling", ![r].refresh = session[Of(r)].refresh]
  /\ UNCHANGED <<now, store, session, flight, sweep, google>>

Recheck(r) ==
  /\ At(r, "recheck")
  /\ IF Fresh(Of(r))
     THEN ReturnFresh(r)
     ELSE /\ request' = [request EXCEPT ![r].pc = "calling",
                                        ![r].refresh = session[Of(r)].refresh]
          /\ UNCHANGED flight
  /\ UNCHANGED <<now, store, session, sweep, google>>

\* Google issues an access token against its current refresh token, and may
\* replace that too.
GoogleIssues(r, rotate) ==
  /\ At(r, "calling")
  /\ request[r].refresh = rotation[Of(r)]
  /\ issued' = [issued EXCEPT ![Of(r)] = Append(@, now)]
  /\ rotation' = IF rotate THEN [rotation EXCEPT ![Of(r)] = Len(issued'[Of(r)])] ELSE rotation
  /\ UNCHANGED <<now, store, session, flight, sweep, created>>

Issue(r, rotate) ==
  /\ GoogleIssues(r, rotate)
  /\ request' = [request EXCEPT ![r].pc = "answered", ![r].since = now,
                                ![r].access = Len(issued'[Of(r)]),
                                ![r].refresh = IF rotate THEN rotation'[Of(r)] ELSE NoToken]
  /\ UNCHANGED lost

\* The same, but the answer is lost on the way back or cannot be read.
IssueUnheard(r, rotate) ==
  /\ GoogleIssues(r, rotate)
  /\ Cardinality(lost[Of(r)]) < MaxLosses
  /\ lost' = [lost EXCEPT ![Of(r)] = @ \cup {Len(issued'[Of(r)])}]
  /\ Goto(r, "lost")

RetryForever(r) ==                     \* faulty: a retry without a limit
  /\ At(r, "calling")
  /\ Goto(r, "recheck")
  /\ UNCHANGED <<now, store, session, flight, sweep, google>>

\* tokenSource.Token() returns an error: Google refuses the refresh token, cannot
\* be reached, or has issued a token that never arrived.  The session keeps what
\* it has, and everyone who waits gets the error.
RefreshFails(r) ==
  /\ At(r, "calling") \/ At(r, "lost")
  /\ ReturnError(r)
  /\ UNCHANGED <<now, store, session, sweep, google>>

\* session.AccessToken = newToken.AccessToken, in two steps
StartWrite(r) ==
  /\ At(r, "answered")
  /\ session' = [session EXCEPT ![Of(r)].access = Torn]
  /\ Goto(r, "writing")
  /\ UNCHANGED <<now, store, flight, sweep, google>>

WriteAccess(r) ==
  /\ At(r, "writing")
  /\ session' = [session EXCEPT ![Of(r)].access = request[r].access]
  /\ Goto(r, "written")
  /\ UNCHANGED <<now, store, flight, sweep, google>>

\* session.ExpiresAt = newToken.Expiry
KeepOldExpiry(r) ==                    \* faulty: only the token is replaced
  /\ At(r, "written")
  /\ Goto(r, "dated")
  /\ UNCHANGED <<now, store, session, flight, sweep, google>>

WriteExpiry(r) ==
  /\ At(r, "written")
  /\ session' = [session EXCEPT ![Of(r)].expiresAt = now + TokenLife]
  /\ Goto(r, "dated")
  /\ UNCHANGED <<now, store, flight, sweep, google>>

\* session.RefreshToken, if Google sent a new one, and the return from Do
KeepOldRefreshToken(r) ==              \* faulty: the new one is dropped
  /\ At(r, "dated")
  /\ ReturnFresh(r)
  /\ UNCHANGED <<now, store, session, sweep, google>>

WriteRefresh(r) ==
  /\ At(r, "dated")
  /\ session' = IF request[r].refresh = NoToken THEN session
                ELSE [session EXCEPT ![Of(r)].refresh = request[r].refresh]
  /\ ReturnFresh(r)
  /\ UNCHANGED <<now, store, sweep, google>>

UpdateAndRenew(r) ==                   \* faulty: a session that is used starts anew
  /\ At(r, "update")
  /\ session' = [session EXCEPT ![Of(r)].createdAt = now]
  /\ store' = store \cup {Of(r)}
  /\ Goto(r, "handling")
  /\ UNCHANGED <<now, flight, sweep, google>>

\* UpdateSession: the pointer goes back into the map under its old key, even
\* if the key has been removed meanwhile.  CreatedAt is what it was.
UpdateSession(r) ==
  /\ At(r, "update")
  /\ store' = store \cup {Of(r)}
  /\ Goto(r, "handling")
  /\ UNCHANGED <<now, session, flight, sweep, google>>

\* The tool handler takes a copy of session.AccessToken for its client ...
ReadToken(r) ==
  /\ At(r, "handling")
  /\ request' = [request EXCEPT ![r].pc = "using", ![r].access = session[Of(r)].access]
  /\ UNCHANGED <<now, store, session, flight, sweep, google>>

\* ... uses it for its API calls, and answers.
Answer(r) ==
  /\ At(r, "using")
  /\ request' = Without(request, {r})
  /\ UNCHANGED <<now, store, session, flight, sweep, google>>

-----------------------------------------------------------------------------
(* The cleanup goroutine, as far as it concerns sessions, and the clock *)

SweepTick ==
  /\ sweep.at = "idle"
  /\ sweep' = [at |-> "sessions", now |-> now]
  /\ UNCHANGED <<now, store, session, flight, request, google>>

SweepEarly ==                          \* faulty: the last unit does not count
  /\ sweep.at = "sessions"
  /\ store' = {s \in store : sweep.now - session[s].createdAt < SessionTTL}
  /\ sweep' = [at |-> "idle", now |-> 0]
  /\ UNCHANGED <<now, session, flight, request, google>>

SweepSessions ==
  /\ sweep.at = "sessions"
  /\ store' = {s \in store : ~OlderThan(s, sweep.now)}
  /\ sweep' = [at |-> "idle", now |-> 0]
  /\ UNCHANGED <<now, session, flight, request, google>>

Sweep == SweepTick \/ SweepSessions

\* The process dies, in the middle of whatever its requests are doing, and
\* starts again with an empty store.
Restart ==
  /\ store' = {} /\ session' = EmptyMap
  /\ flight' = EmptyMap /\ request' = EmptyMap
  /\ sweep' = [at |-> "idle", now |-> 0]
  /\ UNCHANGED <<now, google>>

\* Time stands still while a leader writes, and otherwise respects the two
\* delays.  Nothing bounds the time spent waiting for Google to act.
Urgent(r) ==
  \/ request[r].pc \in {"writing", "written", "dated"}
  \/ request[r].pc = "answered" /\ now - request[r].since >= ReplyDelay
  \/ /\ request[r].pc \in {"update", "handling", "using"}
     /\ now - request[r].since >= RequestSpan

Tick ==
  /\ now < MaxTime
  /\ \A r \in DOMAIN request : ~Urgent(r)
  /\ now' = now + 1
  /\ UNCHANGED <<store, session, flight, request, sweep, google>>

Refresh(r) ==
  \/ StartWrite(r) \/ WriteAccess(r) \/ WriteExpiry(r) \/ WriteRefresh(r)

\* The steps that a request takes by itself ...
Serve(r) ==
  \/ EnsureFreshToken(r) \/ Do(r) \/ Recheck(r) \/ Refresh(r)
  \/ UpdateSession(r) \/ ReadToken(r) \/ Answer(r)

\* ... and those that are Google's and the network's.
Reply(r) ==
  \/ \E rotate \in BOOLEAN : Issue(r, rotate) \/ IssueUnheard(r, rotate)
  \/ RefreshFails(r)

Next ==
  \/ \E s \in SessionIds, issue, arrival \in 0..now : CreateSession(s, issue, arrival)
  \/ \E r \in Requests, s \in SessionIds : GetSession(r, s)
  \/ \E r \in Requests : Serve(r) \/ Reply(r)
  \/ Sweep
  \/ Restart
  \/ Tick

Spec == Init /\ [][Next]_vars

\* Goroutines are scheduled, no lock is held for longer than a few
\* instructions, and a call to Google ends, if only because its connection does.
FairSpec ==
  /\ Spec
  /\ \A r \in Requests : WF_vars(Serve(r)) /\ WF_vars(Reply(r))
  /\ WF_vars(Sweep)

-----------------------------------------------------------------------------
(* Properties *)

\* One access token is refreshed once: Google never issues a token for a
\* session before the previous one has come within RefreshBuffer of its
\* expiry, however many requests find the old one stale at the same time or
\* arrive at the singleflight late (EnsureFreshToken).  Only a token whose answer
\* was lost is replaced at once.
OneRefreshPerToken ==
  \A s \in DOMAIN issued : \A n \in 1..Len(issued[s]) - 1 :
    n \in lost[s] \/ issued[s][n + 1] - issued[s][n] >= TokenLife - RefreshBuffer

\* Google is asked to refresh with a refresh token it has replaced only if the
\* answer with the new one was lost (EnsureFreshToken).  A user is never sent back
\* to the login because requests of theirs met, or a refresh failed before.
RefreshTokenIsCurrent ==
  \A r \in DOMAIN request :
    LET s == request[r].session IN
    request[r].pc = "calling" =>
      request[r].refresh = rotation[s] \/ rotation[s] \in lost[s]

\* The token a tool uses has not expired, up to the last use, although nobody
\* checks it after EnsureFreshToken and another request may be replacing it.
TokensLiveWhileUsed ==
  \A r \in DOMAIN request :
    request[r].pc = "using" /\ request[r].access # Torn =>
      now < issued[request[r].session][request[r].access] + TokenLife

\* README.md: "k8scope uses your Google access token to call the GKE API".
\* A tool's client carries a token that Google issued for the session.
ToolsUseAnIssuedToken ==
  \A r \in DOMAIN request : request[r].pc = "using" => request[r].access # Torn

\* UpdateSession may put an expired session back, after the cleanup has removed
\* it; in the end it is gone and stays gone.
ExpiredSessionsStayGone ==
  \A s \in SessionIds :
    (s \in DOMAIN session /\ OlderThan(s, now)) ~> [](s \notin store)

\* A session is honoured for its whole life, or until a restart, and not a moment
\* longer: no order of sweeps, expiries found by GetSession and late
\* UpdateSessions takes one out early or brings one back.
Bearer == INSTANCE BearerSession WITH
  Sessions <- SessionIds, Callers <- Requests, TTL <- SessionTTL,
  born <- created,
  honoured <- {s \in store : ~OlderThan(s, now)},
  admitted <- [r \in DOMAIN request |-> request[r].session]

SessionsAreHonoured == Bearer!BearerSpec

\* Every admitted request is answered, whether it leads a refresh, waits for
\* one or finds the token fresh.
RequestsAreAnswered ==
  \A r \in Requests : r \in DOMAIN request ~> r \notin DOMAIN request

\* Why the properties above hold: what a request may rely on between two of its
\* steps.  A refresh has one leader, who alone changes the fields of the
\* session; the expiry that a session remembers lies between the true end of
\* its last token that arrived and ReplyDelay after it.
Last(s) == issued[s][Len(issued[s])]

LeaderPCs == {"recheck", "calling", "lost", "answered", "writing", "written", "dated"}
AnsweredPCs == {"answered", "writing", "written", "dated"}
ReturnedPCs == {"update", "handling", "using"}

\* A token issued at `issue` may be used for RequestSpan from `time` on.
Covers(issue, time) == time < issue + ReplyDelay + TokenLife - RefreshBuffer

SessionsAreKept ==
  /\ sweep.now <= now
  /\ DOMAIN session \subseteq DOMAIN created
  /\ DOMAIN issued = DOMAIN created /\ DOMAIN rotation = DOMAIN created
  /\ DOMAIN lost = DOMAIN created
  /\ \A s \in DOMAIN session :
       /\ session[s].createdAt = created[s]
       /\ OlderThan(s, now) \/ s \in store
  /\ \A r \in DOMAIN request : Of(r) \in DOMAIN session

RefreshesAreExclusive ==
  \A r \in DOMAIN request : request[r].pc \in LeaderPCs =>
    Of(r) \in DOMAIN flight /\ flight[Of(r)] = r

IssuesAreApart ==
  \A s \in DOMAIN issued :
    /\ Len(issued[s]) > 0 /\ Last(s) <= now
    /\ \A n \in 1..Len(issued[s]) - 1 :
         n \in lost[s] \/ issued[s][n + 1] - issued[s][n] >= TokenLife - RefreshBuffer

Unsettled(s) == \E r \in DOMAIN request : Of(r) = s /\ request[r].pc \in AnsweredPCs

\* The session has both tokens of the last answer that arrived.
HoldsWhatArrived(s) ==
  /\ session[s].access # Torn
  /\ \A n \in session[s].access + 1 .. Len(issued[s]) : n \in lost[s]
  /\ session[s].refresh = rotation[s] \/ rotation[s] \in lost[s]
  /\ session[s].expiresAt >= issued[s][session[s].access] + TokenLife

UpToDate(s) ==
  /\ rotation[s] # NoToken
  /\ session[s].access <= Len(issued[s])
  /\ session[s].expiresAt <= Last(s) + ReplyDelay + TokenLife
  /\ session[s].access # Torn =>
       session[s].expiresAt <= issued[s][session[s].access] + ReplyDelay + TokenLife
  /\ Unsettled(s) \/ HoldsWhatArrived(s)

CallIsJustified(r) ==
  request[r].pc = "calling" =>
    request[r].refresh = session[Of(r)].refresh /\ ~Fresh(Of(r))

AnswerIsCurrent(r) ==
  LET s == Of(r) IN
  request[r].pc \in AnsweredPCs =>
    /\ request[r].access = Len(issued[s]) /\ request[r].since = Last(s)
    /\ now - request[r].since <= ReplyDelay
    /\ IF request[r].refresh = NoToken THEN session[s].refresh = rotation[s]
       ELSE request[r].refresh = rotation[s]
    /\ request[r].pc \in {"written", "dated"} => session[s].access = request[r].access
    /\ request[r].pc = "dated" => session[s].expiresAt >= Last(s) + TokenLife

ToolIsInTime(r) ==
  LET s == Of(r) IN
  /\ request[r].pc \in ReturnedPCs => now - request[r].since <= RequestSpan
  /\ request[r].pc \in ReturnedPCs \ {"using"} =>
       /\ Covers(Last(s), request[r].since)
       /\ session[s].access # Torn => Covers(issued[s][session[s].access], request[r].since)
  /\ request[r].pc = "using" /\ request[r].access # Torn =>
       /\ request[r].access <= Len(issued[s])
       /\ Covers(issued[s][request[r].access], request[r].since)

RefreshInv ==
  /\ RefreshesAreExclusive
  /\ IssuesAreApart
  /\ \A s \in DOMAIN session : UpToDate(s)
  /\ \A r \in DOMAIN request : CallIsJustified(r) /\ AnswerIsCurrent(r) /\ ToolIsInTime(r)

RequestInv == SessionsAreKept /\ RefreshInv
=============================================================================
