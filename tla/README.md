# k8scope: TLA+ models and proofs

k8scope is an MCP server that lets an assistant look at GKE clusters with the
user's own Google identity. This directory holds TLA+ models of the parts of
it that keep state or race, the TLC configurations that check them, and TLAPS
proofs of the properties that matter most. Paths are relative to the
repository's root; `PROJECT.json` maps every definition to the lines it models.

Run a model with `tlc -config MCOAuthFlow_flow.cfg MCOAuthFlow`, a proof with
`tlapm OAuthFlowProofs.tla`.

## 1. Inventory

| Part | Code | State | Operations |
|---|---|---|---|
| Session store | `internal/auth/session.go` | four maps, each with its mutex: sessions, pending authorizations, codes, clients | create, get (one-time for pending and codes), update, cleanup goroutine |
| Login handlers | `internal/auth/oauth.go` | none of their own | `/register`, `/authorize`, `/callback`, `/token` |
| Token refresh, auth middleware | `oauth.go` 337-372, `middleware.go` | fields of the shared `*Session`, the singleflight group | GetSession, EnsureFreshToken, UpdateSession |
| Rate limiter | `internal/auth/ratelimit.go` | map IP -> limiter and lastSeen | get, Allow, prune |
| Clusters | `internal/k8s/client.go` | `clusterCache` under an RWMutex | getCachedClusterDetails, client construction |
| Tools | `internal/tools/*.go` | none | one handler per MCP tool |
| Lifecycle | `cmd/server/main.go` | the process, its listener and its connections | start, signal, Shutdown, forced and clean end, panic recovery |
| Metadata, health, CORS | `oauth.go`, `main.go` | none | they print constants or pass the request on |

**How they interact.** The login handlers meet only in the store: `/authorize`
leaves a pending entry under a random key, Google sends the browser back to
`/callback` with that key, `/callback` exchanges Google's code, creates the
session and leaves a code, `/token` takes the code and answers with the session
id as bearer token. Every `/mcp` request then gets the *pointer* to its session
from the store, refreshes it if need be, puts it back and hands it to a tool
handler through the context; the handler copies the access token out of it,
looks its cluster up in the shared cache, and calls the Kubernetes API.
Cleanup and pruning goroutines run beside all of this, and `main` waits for a
signal, drains the connections and stops them. Nothing is persisted.

**What is hard.** The browser may repeat a request or never come back; entries
expire at different times and are swept by a goroutine that decides with an old
time; a restart forgets half of a login; all requests of a session share one
unlocked struct; Google's answer to a refresh may be lost after it has issued and
replaced tokens; a slow fetch may overwrite a newer one; limiters are looked up
in one critical section and used after it; a tool call's own deadline is all
that bounds how long it uses a token; a shutdown meets streams that never end.
`PROJECT.json` lists each under "hazards" with its line.

**What makes each part correct.**

* Login: keys and codes work once and not after their TTL; a login gives one
  bearer token, to the client that began it, for the verifier of that login; a
  code is sent only to that request's loopback URI, where the client can read it
  and its own `state` (unless the URI has a query or a fragment); a new bearer
  token has a session behind it that lasts nearly as long as `expires_in` says; only
  what has expired is swept, and all of that is.
* Requests: one refresh per token that arrived, however many requests find it stale;
  the refresh token used is the last that arrived; a tool's token is one that Google
  issued and still accepts; every request is answered; a session is honoured
  from its login to its expiry or a restart, and never again.
* Rate limiter: the rate holds across pruning; refusals are deserved.
* Clusters: bounded staleness, and never somebody else's cluster.
* Tools: a call ends before its token does and before what it knows of its
  cluster is too old; within the limits, lists are whole, logs reach their end, and
  timed events left out are older than those shown.
* Lifecycle: requests in flight get their grace, a clean end is clean, and the
  process does end.

## 2. Modules

| Module | Models |
|---|---|
| `GoMap` | Go's maps: `Put`, `Without`, `EmptyMap`, and the typing predicate `IsMap` |
| `LoopbackURI` | isLoopbackURI, matchesRegisteredURI over parsed URIs |
| `OneTimeTicket` | abstract: a one-time, time-limited secret |
| `OAuthFlow` | store and login handlers, cleanup, restart; implements `OneTimeTicket` twice |
| `BearerSession` | abstract: a bearer token that works from its login to its end |
| `Middleware` | GetSession, refresh, UpdateSession and the tool's use of the token; implements `BearerSession` |
| `Delegation` | abstract: what the whole authentication promises to a client and to the user who lets it act |
| `AuthServer` | `OAuthFlow` and `Middleware` over one store, one cleanup goroutine and one clock; implements `Delegation` |
| `TokenBucket` | abstract: a bucket per IP that is never forgotten |
| `RateLimiter` | per-IP limiters, their token buckets, pruning; implements `TokenBucket` |
| `ClusterCache` | the cluster cache over clusters that change |
| `ToolCall` | what all tool handlers have in common, composed with `ClusterCache`, whose assumption on time it discharges |
| `ToolResults` | what every tool answers |
| `Lifecycle` | the process: signals, connections, Shutdown, the end |
| `MC...` | instances for TLC |
| `GoMapTheorems`, `...Proofs` | theorems and proofs, one module for each of the above that has theorems (`ToolCallProofs` has those of `ClusterCache` too) |

**Conventions.** A map of the program is a function whose domain is the set of
its keys. An action is one critical section together with the straight-line
code around it that no other goroutine can observe; where a handler blocks on
the network or takes a second lock it is split. Local variables of a goroutine
that is between two actions live in a map from the goroutine. Variables named
under "what left the server" or "Google" are not state of the program: they
record what has been sent, so that properties can speak of it. A definition
marked *faulty* is a plausible bug in the definition below it; nothing uses it,
and each property is seen to fail when some faulty variant takes its
definition's place.

**OAuthFlow.** `/callback` is three actions, `HandleCallback` (GetPending),
`ExchangeFails` / `ExchangeSucceeds` (Google's answer, CreateSession) and
`RedirectWithCode` (StoreAuthCode and the redirect); the other handlers are one
action each. The handler's goroutine moves from `exchanging` to `storing`. The
cleanup is a loop of four actions that carries the time it read at the start.
`Restart` empties everything but the history. `randomHex` never repeats itself:
128 or 256 random bits are taken as unique. SHA-256 is injective. The redirect
is a string put together from the URI, the code and the decoded state; what the
client finds in it is `Delivered`: the state unless it has a character that a
query gives a meaning to, and the code unless the URI has a query of its own; and
neither if the URI has a fragment, which the loopback rule accepts and behind which
the query then stands. `ExpiresIn` is what `/token` announces.
`/register` knows both kinds of client, public ones and those with a secret,
which `/token` then asks for.

**Middleware.** A request is a record with a `pc`. The assignment of
`AccessToken`, a string of two machine words, is two steps with the value
`Torn` between them; `ExpiresAt` and `RefreshToken` are one step each (only the
first is read by others, through one word). Stores are visible in program
order, as on amd64; a weaker order would make more mixtures possible, and one
is enough to break `ToolsUseAnIssuedToken`. `Issue` and `IssueUnheard` are Google's
steps: it issues a token for its current refresh token and may replace that, and its
answer arrives or is lost. `RefreshFails` is the error that the leader gets, whether
Google has issued or not: the session keeps what it has, and if the refresh token was
replaced, no later refresh succeeds. `lost` has the issues whose answers never arrived. The function under
`singleflight.Do` is run by the request in `flight`; the others wait and return
with it. Here a session is made by `CreateSession` alone, with a token that Google
issued some time before; the login that leads to it is OAuthFlow's. `Restart`
empties the server and spares Google.

**BearerSession** is the middleware's side of the promise: a session that exists is
honoured. The refinement takes as honoured what is in the store and has not
expired; so an early deletion, a gap, or a return from the dead would each be a
step that the abstract session does not have.

**AuthServer** extends OAuthFlow and instantiates Middleware (`Web`) over the same
clock, cleanup and sessions. A step is one of the login flow alone, one of a request
alone, or one of both at once: the end of a login (`Login`) makes the session for
both, the cleanup of sessions prunes for both, and restarts and the clock are common.
`Store.sessions` is `bearers` with the structs its pointers refer to in `session`;
OAuthFlow's own `sessions` is that map without what requests do to it, which the
login flow never looks at. The middleware admits any id that is in the store
(`HandleMcp` has no guard). Session ids are 32 random bytes and /token alone hands
them out, so the requests that are enumerated carry ids out of `Granted`: that ids
are not guessed is an assumption of the model and not checked by it.

**Delegation** has no codes, sessions or tokens: a client asks under a key with a
challenge, is granted that key at most once, and calls are admitted under valid
grants. A key is valid from the grant until `SessionTTL` after the user's login,
which was at most `CodeTTL` before, or until a restart; there is no other way to
become valid or to cease to be. Codes that reach another client, a session that is
swept before its code is redeemed, one put back after its end, or a call under
somebody else's login would each be a step that Delegation does not have.

**RateLimiter.** Bucket levels are counted in units of time, so that a token
every `Interval` needs no fractions. A bucket stays a value after its limiter
has been pruned, because a request may still hold it. Any address is an IP here.
**TokenBucket** knows no limiters: an IP has a bucket that is full at first and is
never replaced. An IP without a limiter counts as one whose bucket is full
(`Holdings`), so the refinement says that nobody can tell whether it has been pruned.

**ClusterCache.** Endpoint and CA are one value, the version of a cluster,
which `Change` advances. The lookup, GKE's answer and the store are separate. A
cluster is its project, location and name; the cache knows it by a key made of
all three (`Key`).

**ToolCall** extends ClusterCache by the calls themselves: the handler's deadline
(30 seconds, 60 for logs), the token it copied, and whether it needs a cluster at
all. The token was checked up to `BodySpan` before the handler starts, because the
transport reads the request's body in between. The clock does not pass a deadline while its call is in progress, because the
context ends every wait then. ClusterCache's own clock is bounded by `FetchSpan`;
`CallsUseTheCache` says that this bound follows from the deadlines.

**ToolResults.** A tool reads the API once and computes its answer from that,
so a call is one action over one collection or log that changes between calls.
Every handler has its action, also those that only differ in what they print, so
that each is seen to use the limit, the namespace and the note it uses. The API
lists objects in the order of their names, a page of `ListLimit` of those in the
namespace asked for. `get_resource_yaml` looks in the collection named by the
kind with an s (`PluralByS`); which collection holds a kind is the API's
(`Resource`). GKE's list may lack a location. Events in `Untimed` carry only an
EventTime, as those of the newer API do; the sort key of `get_events`,
`LastTimestamp`, is zero for them.

**Lifecycle.** `main` is where it is in its own text: before signal.Notify,
waiting, in Shutdown, or stopping the goroutines. `quit` has room for one signal.
Connections are those of net/http: new, active, idle, each with a countdown, which
is the handler's remaining work or the time that its silence is tolerated. `Never`
is an SSE stream, or a call to Google, which no timeout ends. The goroutine of
ListenAndServe gets an error if the listener fails (`ListenerFails`) and then ends the
process (`ExitOnFailure`), even if main has begun a shutdown in between; if Shutdown
closed the listener, it gets ErrServerClosed, which ends that goroutine and nothing
else, so there is no step.

## 3. What is checked

| Run | Properties | Shows |
|---|---|---|
| `flow` | `TypeOK`, `AtMostOneGrantPerLogin`, `FlowInv`, `PendingKeysAreOneTimeTickets`, `CodesAreOneTimeTickets`, `SweepIsExact`, `ExpiresInIsNearlyTrue` | the safety of the login under duplicated and reordered requests, sweeps, restarts; refinement of the abstract ticket; the announced expiry |
| `redirects` | `CodesGoToTheRequestersLoopback`, `ClientsReadTheirCode`, `ExpiredIsPruned` | URIs that differ by port, path, query, fragment or host, or do not parse, and states that need escaping; the cleanup leaves nothing |
| `refresh` | `RequestInv`, `TypeOK`, `OneRefreshPerToken`, `RefreshTokenIsCurrent`, `TokensLiveWhileUsed`, `SessionsAreHonoured`, `ExpiredSessionsStayGone`, `RequestsAreAnswered` | requests meeting around two refreshes, one of which Google may answer in vain, and the session's end; refinement of the bearer session, liveness of requests |
| `server` | `ServerInv`, `ClientsAreServedOnTheirGrants` | login flow and requests over one store; refinement of the delegation |
| `torn` (violated) | `ToolsUseAnIssuedToken` | see the findings |
| `limiter` | `TypeOK`, `RateIsBounded`, `RefusedOnlyWhenSpent`, `PruningIsInvisible` | a burst, refills, a pruning and a return; refinement of the token bucket |
| `clusters` | `CallTypeOK`, `StalenessIsBounded`, `OwnCluster`, `TokensOutliveCalls`, `CallsUseTheCache` | calls with either deadline, overlapping and overtaking fetches of two clusters of one name |
| `limits` | `TypeOK`, `ListsAreWholeWithinTheLimit`, `EventsAreRecentWithinTheLimit`, `LogsReachTheEndWithinTheCap` | every tool's answers below, at and above the limits, over events with and without a LastTimestamp |
| `events`, `logs`, `yaml` (violated) | `EventsAreTheMostRecent`, `LogsReachTheEnd`, `YAMLOfAnyResource` | see the findings |
| `shutdown` | `TypeOK`, `RequestsGetTheirGrace`, `GracefulIsClean`, `BackgroundOutlivesRequests`, `EndsAfterSignal` | three connections at every stage, signals at any time and repeated, a listener that may fail before them |

**Bounds.** Every clock stops at `MaxTime`, and TTLs are one to five units; the
code compares times only with TTLs, so a clock that runs past the longest TTL,
with an entry made at the start, has passed every boundary there is (in the
`flow` run, a code outliving its session's last unit and a pending entry that
expires while its callback arrives). Two logins, keys, codes and handlers are
enough for one to interfere with another: the properties compare at most two.
Two clients with two verifiers let a code reach the wrong client. `refresh` has
two requests, so that one may wait for the other or come to the singleflight after
it has finished, and a clock of five over a token of four with a buffer of two, which
allows a second refresh, and over a session that ends at three, so that an
UpdateSession may follow the expiry and the sweep. `MaxLosses` is one: after a lost
answer a refresh is tried again and either succeeds or, if the refresh token was
replaced, fails for good. `server` has one login and two
clients, of which the wrong one may try to redeem it, and two requests: what several
logins do to each other is `flow`'s question, and the parts meet in one session. `limiter` has one burst of two, a full
refill (4), an idle time past the limit (5) and room for a second burst (11).
`clusters` has a TTL of two and a clock of four, with deadlines of one and two, so
that an entry stored late by an overtaken fetch is hit, grows too old, and is not;
its `TokenMargin` is just the longest deadline and a `BodySpan` of one.
`limits` has lists of four with a limit of three, in two namespaces of
which one fits the page, two of the four without a LastTimestamp, and logs of four lines with a cap of two. `shutdown` has a
grace period of three and handlers that need none, less, as much, more, or for
ever; three connections are enough for one to be idle, one active and one new
when Shutdown begins, and the connections do not otherwise meet.

Only `shutdown` turns off the check for deadlocks, because there the process
really ends; that it does not stop anywhere else after a signal is
`EndsAfterSignal`. In all other runs there is always a request left to make.

**Assumptions on time.** Straight-line code takes no time: the clock does not
tick between CreateSession and StoreAuthCode, nor between two field assignments
of a refresh. `ReplyDelay` bounds the time from Google's issue of a token to its
store in a session, `RequestSpan` the time from EnsureFreshToken to the tool's
last use, and their sum is at most the refresh buffer of five minutes. ToolCall
gives the reason for the second: a tool's calls end with its context after 30 or
60 seconds, which together with `BodySpan`, the time that a request's body takes, is
within `TokenMargin`, what is left of the buffer. That a body arrives within
`BodySpan` is assumed of the clients: the server has a timeout for headers and none
for bodies. `AskSpan`
bounds the time from `get` to `Allow`; with it, a limiter that is pruned is a full
one (`LimitAssumption`: five requests at six seconds each are far below ten
minutes). In Lifecycle a handler returns when its work is done and Shutdown's
context ends on time; the tick of Shutdown's poll is not modelled.

**Fairness.** `ExpiredIsPruned` and `ExpiredSessionsStayGone` assume weak
fairness of the cleanup's steps: its ticker fires for ever, and the mutexes it
takes are held for a few instructions. `RequestsAreAnswered` also assumes it of
each goroutine's own steps (the Go scheduler) and of a call to Google ending in
an answer or an error. The code sets no timeout on that call
(`context.Background()`, default client), so this last assumption is about the
network; it is listed as a hazard. `EndsAfterSignal` assumes that `main` is scheduled,
that time goes on, and that responses and timeouts that are due happen; it does not
assume that handlers end. No fairness is assumed of clients, of the exchange
in `/callback`, or, outside Lifecycle, of the clock.

## 4. What is proved

`OAuthFlowProofs`, for every set of clients, keys, codes, sessions, verifiers,
URIs and handlers and every TTL with `CodeTTL <= SessionTTL`:

* `TypeCorrect`: `TypeOK` is inductive by itself.
* `FlowInvariance`: `FlowInv` is inductive together with `TypeOK`. None of the
  wanted properties is: that a login has one grant needs that its code is spent
  once (`GrantsSpendTheirCode`), that a login has one code
  (`RedirectsAreOnePerLogin`, `StoringIsPrompt`) and a key one login
  (`LoginsAreOnePerKey`, `ExchangesAreExclusive`), up to the one-time pending
  entry (`PendingAreOpenRequests`). `CodesMatchTheirRedirects` adds that a code
  in the store has its session beside it, or is itself older than a session may
  be. There is one lemma per action.
* `OneGrantPerLogin`, `GrantsAreTheRequesters`, `CodesStayOnLoopback` and
  `CodesAreRead` follow from it. `ExpiryIsAnnounced` is an action property that does:
  the session behind a new grant is in the store, and its end is not after the
  announced one and at most `CodeTTL` before it.
* `SweepsAreExact`: nothing is removed early (`SweepIsSafe`), although the cleanup's
  time may be old, because less has expired by an older time; and nothing that had
  expired is left (`SweepsAreThorough`). The second needs an invariant of its own for
  pending entries, which are pruned one lock before the end (`PendingStaysSwept`):
  what the handlers add meanwhile is too young for the time of the sweep.
* `KeysImplementTickets` and `CodesImplementTickets`: `Spec` implements
  `OneTimeTicket` for pending keys and for codes. `accepted` and the codes of
  `grants` are what has been redeemed; every action issues, redeems or lets lapse
  tickets, advances the clock, or stutters. The ticket that is redeemed is in
  time because the TTL is tested when the entry is taken.

`MiddlewareProofs`, for every set of sessions and requests, every lifetime and
every delay with `ReplyDelay + RequestSpan <= RefreshBuffer < TokenLife`:

* `SessionsInvariance`: `SessionsAreKept`, that a session which has not expired is
  in the store, in whatever order sweeps and late updates come. With it
  `SessionsImplementBearers`: every step is a step of `BearerSession` or a stutter.
* `RequestInvariance`: `RequestInv`, the inductive invariant of the refresh, of
  which the run `refresh` checks the same formula. A refresh has one leader, who is
  in `flight` (`RefreshesAreExclusive`). The expiry that the session remembers lies
  between the true end of the last token that arrived and `ReplyDelay` after it, and
  what Google issued since is lost (`HoldsWhatArrived`), except while a leader is still
  storing an answer (`UpToDate`). So a leader whose recheck fails calls with the
  session's refresh token for a token that is within the buffer (`CallIsJustified`);
  what it stores is the last that Google issued (`AnswerIsCurrent`); and whoever
  returns has a token that covers the rest of the request (`ToolIsInTime`), also if
  another request replaces it meanwhile.
* `TokensAreRefreshedOnce`, `RefreshTokensAreCurrent`, `TokensLive` follow. The first
  two speak of tokens that arrived: after a lost answer the code does ask again at
  once, and does ask with a refresh token that Google has replaced; nothing in the
  code could know better.

`AuthServerProofs`, for all of these constants at once:

* `ServerRunsTheLoginFlow` and `ServerRunsTheMiddleware`: every step of the server is
  a step of `OAuthFlow` or a stutter, and one of `Middleware` or a stutter. So every
  theorem of `OAuthFlowProofs` is one about the server, and is cited as such.
  (The theorems of `MiddlewareProofs` hold of it as well, but the prover cannot cite
  theorems of an instantiated module; the facts about requests that are needed here
  are proved again under the instance's names, in the first part of the module.)
* `ServerInvariance`: types, and `PartsAgree`, which neither part could state: what
  the login flow takes for a session is one that the middleware knows and, until it
  expires, keeps in the store, with the login's own time.
* `GrantsAreHonoured`: the server implements `Delegation`. The step that needs most
  is /token's answer (`TokenGives`): the grant is the first under its key because its
  code was spent (`FlowInv`), and is honoured from then on because a session that is
  as young as its code has not expired and is therefore in the store (`PartsAgree`).
  Time ends exactly the grants it should (`TickKeepsPromise`), and no sweep, late
  update or expiry found by a request ends or revives one.

`RateLimiterProofs`, for every burst, interval and number of IPs and requests:

* `LimiterInvariance`: whoever is between `get` and `Allow` holds the limiter that
  is in the map, since the pruning spares what was seen less than `IdleLimit` ago;
  limiters are not shared; and what an IP has got through from any request on,
  together with what its bucket holds, was paid for by one burst and the time since
  (`Paid`). Replacing a pruned limiter keeps that because it would have been full.
* `RateBound` follows from it by arithmetic alone. `RefusalsAreEarned` needs the
  converse, `Earned`: what is missing from a bucket was let through.
* `PruningIsNotSeen`: the limiters implement `TokenBucket`. A tick adds to what an IP
  holds exactly what it adds to an ideal bucket, and the pruning changes nothing,
  since what it replaces is full by then.

`ToolCallProofs`, for every set of clusters and calls, every positive TTL, every
`FetchSpan` and all timeouts:

* `TypeCorrect`, and `CacheInvariance`: an entry lies under its own cluster's
  key and was current at most `FetchSpan` before its date, and so on for what is
  on its way. The staleness bound is not inductive without it, since the entry
  that makes a call stale may have been stored long before.
* `StalenessBound` and `CallsGetTheirOwnCluster` follow, of ClusterCache.
* `CallInvariance`: a call's deadline is at most `FetchSpan` after any answer it
  has in hand. So `DeadlinesBoundFetches`: ToolCall implements ClusterCache, whose
  bound on the fetch it had assumed, and `CallsAreNotStale` and
  `CallsGetTheirCluster` carry its theorems over.
* `TokensLastForCalls`.

`LifecycleProofs`, for every set of connections and all settings: `LifeInvariance`
(when Shutdown has returned nil no connection is left, and how the process ended
says where `main` was), and from it `GraceIsGiven`, `CleanEnds`, `BackgroundStays`.

`ToolResultsProofs`, for every collection, log and limit: an answer is a page of
the collection as it is (`AnswerInvariance`). That a page is never longer than its
limit, and is whole when the collection is within it, are lemmas about the
elements' ranks (by the pigeonhole principle); `ListsAreWhole`,
`EventsAreRecent`, `LogsReachTheirEnd` follow.

`GoMapTheorems` holds the lemmas on maps. The only assumptions are the named
ASSUMEs of the modules, which TLC evaluates on every run.

Every invariant and every safety property of the runs that pass is thus proved.

**Only model-checked.** Liveness, which is out of the prover's reach:
`ExpiredIsPruned`, `ExpiredSessionsStayGone`, `RequestsAreAnswered` and
`EndsAfterSignal`. No recursive operator and no induction over data occurs.

## 5. Findings

* `torn`: EnsureFreshToken assigns `session.AccessToken` under no lock while
  tool handlers of other requests read it: a tool call may carry a mixture of
  two tokens. It takes a request admitted while the token was fresh that is
  still before its tool's first lines when another one refreshes.
* `events`: `get_events` sorts and cuts the first 200 events of the API's
  order, so in a larger collection the latest events may be missing.
* `logs`: `get_pod_logs` cuts the last `tail_lines` lines after their first
  megabyte, so the latest lines are the ones left out.
* `yaml`: `get_resource_yaml` names the collection by the kind with an s, so it
  never finds an Ingress or a NetworkPolicy, although it announces any resource.

Seen on the way and not checked by a run of their own: also within the limit,
`get_events` may leave out the most recent events, if those carry only an EventTime,
although `README.md:77` promises recent ones (`EventsAreRecentWithinTheLimit` says
what is left of that); a redirect URI with a fragment is accepted and then carries
neither code nor state to its client; only `list_pods` and `get_nodes` say that a list
was cut; `describe_pod` announces events and shows none; `expires_in` counts 24 hours
from `/token`'s answer, while the session's began at `/callback`
(`ExpiresInIsNearlyTrue` bounds the difference); a deployment without replicas is
listed with one and described with none.

## 6. What is not modelled

`/.well-known/...`, `/health` and CORS keep no state. The columns and headings
of answers, the regular expressions for arguments, logging, and the parsing of
requests are data; a request that is refused before it reaches the store changes
nothing and has no action. Escaping is modelled by its effect on what the client
reads and not character by character. Metadata of a session (email) is left out.
The SSE transport of the MCP library is external: Lifecycle knows its streams as
handlers that never end.

## 7. What could follow

The modules are in the order in which they were planned: the login, the requests,
the limiter, the cache, the tools, the calls, the lifecycle, their proofs, and the
login and the requests as one server. What is left:

1. Lifecycle over the goroutines of `ToolCall`, so that a tool's deadline is the
   length of a handler's work instead of a member of `Works`.
2. `AuthServer` with `ToolCall` in the place of the middleware's abstract use of the
   token, so that `RequestSpan` is a consequence there too.
