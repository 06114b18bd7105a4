--------------------------- MODULE ToolCallProofs ---------------------------
(* What holds of the cluster cache and of the deadlines of the tool calls, for  *)
(* every set of clusters and calls, every TTL and all timeouts.  The deadlines  *)
(* keep the calls within what the cache assumes of a fetch, so that what is     *)
(* proved of the cache first holds of the calls.                                *)
EXTENDS ToolCall, GoMapTheorems

-----------------------------------------------------------------------------
(* The cluster cache: its inductive invariant *)

\* Details that were current at time t or later, of a cluster that has them in
\* its past or present.
CurrentSince(d, t) ==
  /\ d.version \in 1..Len(changes[d.cluster]) + 1
  /\ d.version <= Len(changes[d.cluster]) => t <= changes[d.cluster][d.version]

\* Versions come up in time.
ChangesArePast == \A c \in Clusters : \A n \in 1..Len(changes[c]) : changes[c][n] <= now

\* An entry lies under the key of its own cluster, and was current at most
\* FetchSpan before its date.
EntriesAreRecent ==
  \A k \in DOMAIN cache :
    /\ k = Key(cache[k].details.cluster)
    /\ CurrentSince(cache[k].details, cache[k].cachedAt - FetchSpan)
    /\ cache[k].cachedAt <= now

\* So it is with the answers that are on their way to the cache.
FetchesAreRecent ==
  \A r \in DOMAIN fetched :
    /\ fetched[r].details.cluster = fetched[r].cluster
    /\ CurrentSince(fetched[r].details, fetched[r].at)
    /\ fetched[r].at <= now /\ now - fetched[r].at <= FetchSpan

\* And a call has used details that were current, at the time, within the bound.
AnswersAreRecent ==
  \A r \in DOMAIN answered :
    /\ answered[r].details.cluster = answered[r].cluster
    /\ answered[r].at <= now
    /\ CurrentSince(answered[r].details, answered[r].at - (TTL + FetchSpan) + 1)

CacheInv == ChangesArePast /\ EntriesAreRecent /\ FetchesAreRecent /\ AnswersAreRecent

-----------------------------------------------------------------------------
(* Types *)

\* What GKE answers are the details of the cluster that was asked for.
LEMMA CurrentType ==
  ASSUME TypeOK, NEW c \in Clusters
  PROVE  Current(c) \in Details /\ Current(c).cluster = c
BY DEF TypeOK, Current, Details

\* Every variable keeps its type: the cache holds entries under keys of the
\* cluster, and a call is given details of some cluster.
THEOREM TypeCorrect == Spec => []TypeOK
<1>1. Init => TypeOK
  BY EmptyMapType, SpanAssumption DEF Init, TypeOK
<1>2. TypeOK /\ [Next]_vars => TypeOK'
  <2> SUFFICES ASSUME TypeOK, [Next]_vars PROVE TypeOK'
    OBVIOUS
  <2> USE DEF TypeOK
  <2>1. ASSUME NEW r \in Requests, NEW c \in Clusters, Lookup(r, c)
        PROVE  TypeOK'
    <3>1. CASE Hit(c)
      <4>1. cache[Key(c)].details \in Details
        BY <3>1 DEF Hit, IsMap, Cached
      <4>2. [cluster |-> c, details |-> cache[Key(c)].details, at |-> now] \in Answered
        BY <4>1 DEF Answered
      <4>3. IsMap(answered', Requests, Answered)
        BY <2>1, <3>1, <4>2, PutType DEF Lookup
      <4> QED
        BY <2>1, <3>1, <4>3 DEF Lookup
    <3>2. CASE ~Hit(c)
      <4>1. IsMap(fetching', Requests, Clusters)
        BY <2>1, <3>2, PutType DEF Lookup
      <4> QED
        BY <2>1, <3>2, <4>1 DEF Lookup
    <3> QED
      BY <3>1, <3>2
  <2>2. ASSUME NEW r \in Requests, Fetch(r)
        PROVE  TypeOK'
    <3>1. fetching[r] \in Clusters
      BY <2>2 DEF Fetch, IsMap
    <3>2. [cluster |-> fetching[r], details |-> Current(fetching[r]), at |-> now] \in Fetched
      BY <3>1, CurrentType DEF Fetched
    <3>3. IsMap(fetched', Requests, Fetched)
      BY <2>2, <3>2, PutType DEF Fetch
    <3>4. IsMap(fetching', Requests, Clusters)
      BY <2>2, WithoutType DEF Fetch
    <3> QED
      BY <2>2, <3>3, <3>4 DEF Fetch
  <2>3. ASSUME NEW r \in Requests, FetchFails(r)
        PROVE  TypeOK'
    BY <2>3, WithoutType DEF FetchFails
  <2>4. ASSUME NEW r \in Requests, Store(r)
        PROVE  TypeOK'
    <3>1. fetched[r] \in Fetched
      BY <2>4 DEF Store, IsMap
    <3>2. /\ Key(fetched[r].cluster) \in Keys
          /\ Dated(fetched[r].details) \in Cached
          /\ [cluster |-> fetched[r].cluster, details |-> fetched[r].details, at |-> now]
               \in Answered
      BY <3>1 DEF Fetched, Keys, Dated, Cached, Answered
    <3>3. /\ IsMap(cache', Keys, Cached)
          /\ IsMap(answered', Requests, Answered)
      BY <2>4, <3>2, PutType DEF Store
    <3>4. IsMap(fetched', Requests, Fetched)
      BY <2>4, WithoutType DEF Store
    <3> QED
      BY <2>4, <3>3, <3>4 DEF Store
  <2>5. ASSUME NEW r \in Requests, Leave(r)
        PROVE  TypeOK'
    BY <2>5, WithoutType DEF Leave
  <2>6. ASSUME NEW c \in Clusters, Change(c)
        PROVE  TypeOK'
    BY <2>6 DEF Change
  <2>7. CASE Tick
    BY <2>7 DEF Tick
  <2>8. CASE UNCHANGED vars
    BY <2>8 DEF vars
  <2> QED
    BY <2>1, <2>2, <2>3, <2>4, <2>5, <2>6, <2>7, <2>8 DEF Next
<1> QED
  BY <1>1, <1>2, PTL DEF Spec

-----------------------------------------------------------------------------
(* Staleness *)

\* Two clusters never share a key.
LEMMA KeyInjective ==
  ASSUME NEW c \in Clusters, NEW d \in Clusters, Key(c) = Key(d)
  PROVE  c = d
BY DEF Clusters, Key

\* A change comes after everything that has been dated so far.
LEMMA ChangeKeepsRecency ==
  ASSUME TypeOK, NEW c \in Clusters, Change(c),
         NEW d \in Details, NEW t \in Int, t <= now, CurrentSince(d, t)
  PROVE  CurrentSince(d, t)'
<1>1. CASE d.cluster = c
  <2>1. /\ changes[c] \in Seq(Nat) /\ now \in Nat
        /\ changes'[c] = Append(changes[c], now)
    BY DEF TypeOK, Change
  <2> QED
    BY <1>1, <2>1 DEF CurrentSince, Details
<1>2. CASE d.cluster # c
  <2>1. d.cluster \in Clusters /\ changes'[d.cluster] = changes[d.cluster]
    BY <1>2 DEF TypeOK, Change, Details
  <2> QED
    BY <2>1 DEF CurrentSince
<1> QED
  BY <1>1, <1>2

\* The strengthening of the staleness bound and of OwnCluster: whatever is in
\* the cache, or on its way there or to a call, was current at the time that
\* its date allows for.
THEOREM CacheInvariance == Spec => []CacheInv
<1>1. Init => CacheInv
  BY EmptyMapType DEF Init, CacheInv, ChangesArePast, EntriesAreRecent, FetchesAreRecent,
     AnswersAreRecent
<1>2. TypeOK /\ CacheInv /\ [Next]_vars => CacheInv'
  <2> SUFFICES ASSUME TypeOK, CacheInv, [Next]_vars PROVE CacheInv'
    OBVIOUS
  <2> USE DEF CacheInv, TypeOK
  <2>1. ASSUME NEW r \in Requests, NEW c \in Clusters, Lookup(r, c)
        PROVE  CacheInv'
    <3>1. UNCHANGED <<now, cache, fetched, changes>>
      BY <2>1 DEF Lookup
    <3>2. AnswersAreRecent'
      <4>1. CASE Hit(c)
        <5>1. /\ cache[Key(c)] \in Cached
              /\ now - cache[Key(c)].cachedAt < TTL
              /\ Key(c) = Key(cache[Key(c)].details.cluster)
              /\ CurrentSince(cache[Key(c)].details, cache[Key(c)].cachedAt - FetchSpan)
          BY <4>1 DEF Hit, IsMap, EntriesAreRecent
        <5>2. cache[Key(c)].details.cluster = c
          BY <5>1, KeyInjective DEF Cached, Details
        <5>3. changes[c] \in Seq(Nat)
          OBVIOUS
        <5>4. CurrentSince(cache[Key(c)].details, now - (TTL + FetchSpan) + 1)
          BY <5>1, <5>2, <5>3, SpanAssumption, SMTT(30) DEF CurrentSince, Cached, Details
        <5>5. answered' = Put(answered, r, [cluster |-> c, details |-> cache[Key(c)].details,
                                            at |-> now])
          BY <2>1, <4>1 DEF Lookup
        <5>6. /\ answered'[r].details.cluster = answered'[r].cluster
              /\ answered'[r].at <= now
              /\ CurrentSince(answered'[r].details, answered'[r].at - (TTL + FetchSpan) + 1)
          BY <5>2, <5>4, <5>5 DEF Put
        <5>7. \A q \in DOMAIN answered' : q # r => q \in DOMAIN answered /\ answered'[q] = answered[q]
          BY <5>5 DEF Put
        <5> QED
          BY <3>1, <5>6, <5>7 DEF AnswersAreRecent, CurrentSince
      <4>2. CASE ~Hit(c)
        BY <2>1, <3>1, <4>2 DEF Lookup, AnswersAreRecent, CurrentSince
      <4> QED
        BY <4>1, <4>2
    <3> QED
      BY <3>1, <3>2 DEF ChangesArePast, EntriesAreRecent, FetchesAreRecent, CurrentSince
  <2>2. ASSUME NEW r \in Requests, Fetch(r)
        PROVE  CacheInv'
    <3>1. UNCHANGED <<now, cache, answered, changes>>
      BY <2>2 DEF Fetch
    <3>2. fetching[r] \in Clusters
      BY <2>2 DEF Fetch, IsMap
    <3>3. /\ Current(fetching[r]).cluster = fetching[r]
          /\ CurrentSince(Current(fetching[r]), now)
      BY <3>2 DEF Current, CurrentSince
    <3>4. fetched' = Put(fetched, r, [cluster |-> fetching[r], details |-> Current(fetching[r]),
                                      at |-> now])
      BY <2>2 DEF Fetch
    <3>5. /\ fetched'[r].details.cluster = fetched'[r].cluster
          /\ CurrentSince(fetched'[r].details, fetched'[r].at)
          /\ fetched'[r].at <= now /\ now - fetched'[r].at <= FetchSpan
      BY <3>3, <3>4, SpanAssumption DEF Put
    <3>6. \A q \in DOMAIN fetched' : q # r => q \in DOMAIN fetched /\ fetched'[q] = fetched[q]
      BY <3>4 DEF Put
    <3>7. FetchesAreRecent'
      BY <3>1, <3>5, <3>6 DEF FetchesAreRecent, CurrentSince
    <3> QED
      BY <3>1, <3>7 DEF ChangesArePast, EntriesAreRecent, AnswersAreRecent, CurrentSince
  <2>3. ASSUME NEW r \in Requests, FetchFails(r)
        PROVE  CacheInv'
    <3>1. UNCHANGED <<now, cache, answered, changes>>
      BY <2>3 DEF FetchFails
    <3>2. FetchesAreRecent'
      BY <2>3, <3>1 DEF FetchFails, FetchesAreRecent, CurrentSince, Without, Restrict
    <3> QED
      BY <3>1, <3>2 DEF ChangesArePast, EntriesAreRecent, AnswersAreRecent, CurrentSince
  <2>4. ASSUME NEW r \in Requests, Store(r)
        PROVE  CacheInv'
    <3>1. UNCHANGED <<now, changes>>
      BY <2>4 DEF Store
    <3>2. /\ fetched[r] \in Fetched
          /\ fetched[r].details.cluster = fetched[r].cluster
          /\ CurrentSince(fetched[r].details, fetched[r].at)
          /\ fetched[r].at <= now /\ now - fetched[r].at <= FetchSpan
      BY <2>4 DEF Store, IsMap, FetchesAreRecent
    <3>3. changes[fetched[r].cluster] \in Seq(Nat)
      BY <3>2 DEF Fetched
    <3>4. /\ CurrentSince(fetched[r].details, now - FetchSpan)
          /\ CurrentSince(fetched[r].details, now - (TTL + FetchSpan) + 1)
      BY <3>2, <3>3, SpanAssumption, SMTT(30) DEF CurrentSince, Fetched, Details
    <3>5. EntriesAreRecent'
      <4>1. cache' = Put(cache, Key(fetched[r].cluster),
                         [details |-> fetched[r].details, cachedAt |-> now])
        BY <2>4 DEF Store, Dated
      <4>2. \A k \in DOMAIN cache' :
              \/ k \in DOMAIN cache /\ cache'[k] = cache[k]
              \/ /\ k = Key(fetched[r].cluster)
                 /\ cache'[k] = [details |-> fetched[r].details, cachedAt |-> now]
        BY <4>1 DEF Put
      <4> SUFFICES ASSUME NEW k \in DOMAIN cache'
                   PROVE  /\ k = Key(cache'[k].details.cluster)
                          /\ CurrentSince(cache'[k].details, cache'[k].cachedAt - FetchSpan)
                          /\ cache'[k].cachedAt <= now
        BY <3>1 DEF EntriesAreRecent, CurrentSince
      <4>3. CASE k \in DOMAIN cache /\ cache'[k] = cache[k]
        BY <4>3 DEF EntriesAreRecent
      <4>4. CASE /\ k = Key(fetched[r].cluster)
                 /\ cache'[k] = [details |-> fetched[r].details, cachedAt |-> now]
        BY <3>2, <3>4, <4>4
      <4> QED
        BY <4>2, <4>3, <4>4
    <3>6. AnswersAreRecent'
      <4>1. answered' = Put(answered, r, [cluster |-> fetched[r].cluster,
                                          details |-> fetched[r].details, at |-> now])
        BY <2>4 DEF Store
      <4>2. /\ answered'[r].details.cluster = answered'[r].cluster
            /\ answered'[r].at <= now
            /\ CurrentSince(answered'[r].details, answered'[r].at - (TTL + FetchSpan) + 1)
        BY <3>2, <3>4, <4>1 DEF Put
      <4>3. \A q \in DOMAIN answered' : q # r => q \in DOMAIN answered /\ answered'[q] = answered[q]
        BY <4>1 DEF Put
      <4> QED
        BY <3>1, <4>2, <4>3 DEF AnswersAreRecent, CurrentSince
    <3>7. FetchesAreRecent'
      BY <2>4, <3>1 DEF Store, FetchesAreRecent, CurrentSince, Without, Restrict
    <3> QED
      BY <3>1, <3>5, <3>6, <3>7 DEF ChangesArePast
  <2>5. ASSUME NEW r \in Requests, Leave(r)
        PROVE  CacheInv'
    <3>1. UNCHANGED <<now, cache, fetching, fetched, changes>>
      BY <2>5 DEF Leave
    <3>2. AnswersAreRecent'
      BY <2>5, <3>1 DEF Leave, AnswersAreRecent, CurrentSince, Without, Restrict
    <3> QED
      BY <3>1, <3>2 DEF ChangesArePast, EntriesAreRecent, FetchesAreRecent, CurrentSince
  <2>6. ASSUME NEW c \in Clusters, Change(c)
        PROVE  CacheInv'
    <3>1. UNCHANGED <<now, cache, fetching, fetched, answered>>
      BY <2>6 DEF Change
    <3>2. ChangesArePast'
      BY <2>6, <3>1 DEF Change, ChangesArePast
    <3>3. EntriesAreRecent'
      <4> SUFFICES ASSUME NEW k \in DOMAIN cache
                   PROVE  CurrentSince(cache[k].details, cache[k].cachedAt - FetchSpan)'
        BY <3>1 DEF EntriesAreRecent
      <4>1. /\ cache[k].details \in Details
            /\ cache[k].cachedAt \in Nat /\ cache[k].cachedAt <= now
            /\ CurrentSince(cache[k].details, cache[k].cachedAt - FetchSpan)
        BY DEF EntriesAreRecent, IsMap, Cached
      <4>2. /\ cache[k].cachedAt - FetchSpan \in Int
            /\ cache[k].cachedAt - FetchSpan <= now
        BY <4>1, SpanAssumption
      <4> HIDE DEF TypeOK, CacheInv
      <4> QED
        BY <2>6, <3>1, <4>1, <4>2, ChangeKeepsRecency
    <3>4. FetchesAreRecent'
      BY <2>6, <3>1, ChangeKeepsRecency DEF FetchesAreRecent, IsMap, Fetched
    <3>5. AnswersAreRecent'
      BY <2>6, <3>1, ChangeKeepsRecency, SpanAssumption DEF AnswersAreRecent, IsMap, Answered
    <3> QED
      BY <3>2, <3>3, <3>4, <3>5
  <2>7. CASE Tick
    <3>1. UNCHANGED <<cache, fetching, fetched, answered, changes>> /\ now' = now + 1
      BY <2>7 DEF Tick
    <3>2. \A r \in DOMAIN fetched : now - fetched[r].at < FetchSpan
      BY <2>7 DEF Tick
    <3>3. ChangesArePast'
      BY <3>1 DEF ChangesArePast
    <3>4. FetchesAreRecent'
      BY <3>1, <3>2, SpanAssumption DEF FetchesAreRecent, CurrentSince, IsMap, Fetched
    <3>5. AnswersAreRecent'
      BY <3>1 DEF AnswersAreRecent, CurrentSince, IsMap, Answered
    <3>6. EntriesAreRecent'
      BY <3>1 DEF EntriesAreRecent, CurrentSince, IsMap, Cached
    <3> QED
      BY <3>3, <3>4, <3>5, <3>6
  <2>8. CASE UNCHANGED vars
    BY <2>8 DEF vars, ChangesArePast, EntriesAreRecent, FetchesAreRecent, AnswersAreRecent,
       CurrentSince
  <2> QED
    BY <2>1, <2>2, <2>3, <2>4, <2>5, <2>6, <2>7, <2>8 DEF Next
<1> QED
  BY <1>1, <1>2, TypeCorrect, PTL DEF Spec

\* For every TTL and every length of a fetch, no call is given details that were
\* replaced TTL + FetchSpan ago, in whatever order fetches of a cluster end.
THEOREM StalenessBound == Spec => []StalenessIsBounded
<1>1. TypeOK /\ CacheInv => StalenessIsBounded
  <2> SUFFICES ASSUME TypeOK, CacheInv, NEW r \in DOMAIN answered,
                      answered[r].details.version <= Len(changes[answered[r].details.cluster])
               PROVE  answered[r].at
                        - changes[answered[r].details.cluster][answered[r].details.version]
                        < TTL + FetchSpan
    BY DEF StalenessIsBounded
  <2>1. answered[r] \in Answered /\ answered[r].details \in Details
    BY DEF TypeOK, IsMap, Answered
  <2>2. /\ changes[answered[r].details.cluster] \in Seq(Nat)
        /\ answered[r].details.version \in 1..Len(changes[answered[r].details.cluster])
    BY <2>1 DEF TypeOK, Details, CacheInv, AnswersAreRecent, CurrentSince
  <2>3. /\ answered[r].at \in Nat
        /\ changes[answered[r].details.cluster][answered[r].details.version] \in Nat
    BY <2>1, <2>2 DEF Answered
  <2>4. answered[r].at - (TTL + FetchSpan) + 1
          <= changes[answered[r].details.cluster][answered[r].details.version]
    BY DEF CacheInv, AnswersAreRecent, CurrentSince
  <2> QED
    BY <2>3, <2>4, SpanAssumption
<1> QED
  BY <1>1, TypeCorrect, CacheInvariance, PTL

\* For every set of clusters, a call gets the details of the one it asked for.
THEOREM CallsGetTheirOwnCluster == Spec => []OwnCluster
<1>1. CacheInv => OwnCluster
  BY DEF CacheInv, AnswersAreRecent, OwnCluster
<1> QED
  BY <1>1, CacheInvariance, PTL

-----------------------------------------------------------------------------
(* The calls and their deadlines *)

\* A call is in one stage at a time, and list_clusters needs no cluster.
StagesAreApart ==
  /\ DOMAIN fetching \cap DOMAIN fetched = {}
  /\ DOMAIN fetching \cap DOMAIN answered = {}
  /\ DOMAIN fetched \cap DOMAIN answered = {}
  /\ DOMAIN fetching \cup DOMAIN fetched \cup DOMAIN answered \subseteq DOMAIN calls
  /\ \A r \in DOMAIN fetching \cup DOMAIN fetched \cup DOMAIN answered :
       calls[r].tool # "list_clusters"

\* No deadline has passed, and none is further away than FetchSpan from now or
\* from the answer that the call has in hand.
DeadlinesHold ==
  /\ \A r \in DOMAIN calls :
       /\ now <= calls[r].deadline
       /\ calls[r].deadline <= now + FetchSpan
       /\ calls[r].deadline <= calls[r].expiry
  /\ \A r \in DOMAIN fetched : calls[r].deadline <= fetched[r].at + FetchSpan

CallInv ==
  /\ now \in Nat
  /\ IsMap(calls, Requests, Call)
  /\ \A r \in DOMAIN fetched : fetched[r].at \in Nat
  /\ StagesAreApart
  /\ DeadlinesHold

-----------------------------------------------------------------------------
\* A new call has its deadline ahead, and a token that is good until then.
LEMMA NewCallInTime ==
  ASSUME now \in Nat, IsMap(calls, Requests, Call), NEW r \in Requests, NEW tool \in Tools,
         r \notin DOMAIN calls, NewCall(r, tool)
  PROVE  /\ IsMap(calls', Requests, Call)
         /\ DOMAIN calls' = DOMAIN calls \cup {r}
         /\ \A q \in DOMAIN calls : calls'[q] = calls[q]
         /\ calls'[r].tool = tool
         /\ now <= calls'[r].deadline
         /\ calls'[r].deadline <= now + FetchSpan
         /\ calls'[r].deadline <= calls'[r].expiry
<1>0. PICK checked \in CheckTimes :
        calls' = Put(calls, r, [tool |-> tool, deadline |-> Deadline(tool),
                                expiry |-> checked + TokenMargin])
  BY DEF NewCall
<1> DEFINE d == Deadline(tool)
           x == checked + TokenMargin
           e == [tool |-> tool, deadline |-> d, expiry |-> x]
<1>1. calls' = Put(calls, r, e)
  BY <1>0
<1>2. d \in Nat /\ now <= d /\ d <= now + FetchSpan /\ d <= x /\ x \in Nat
  BY TimeoutAssumption, SpanAssumption DEF Deadline, CheckTimes
<1> HIDE DEF d, x
<1>3. e \in Call /\ e.tool = tool /\ e.deadline = d /\ e.expiry = x
  BY <1>2 DEF Call
<1> HIDE DEF e
<1>4. IsMap(calls', Requests, Call)
  BY <1>1, <1>3, PutType
<1>5. /\ DOMAIN calls' = DOMAIN calls \cup {r} /\ calls'[r] = e
      /\ \A q \in DOMAIN calls : calls'[q] = calls[q]
  BY <1>1 DEF Put
<1> QED
  BY <1>2, <1>3, <1>4, <1>5

\* What holds of the calls before a step that takes some of them away, or
\* advances their stages, holds after it.
LEMMA SubsetKeepsDeadlines ==
  ASSUME CallInv, UNCHANGED now,
         DOMAIN calls' \subseteq DOMAIN calls,
         \A q \in DOMAIN calls' : calls'[q] = calls[q],
         StagesAreApart',
         \A q \in DOMAIN fetched' :
           \/ q \in DOMAIN fetched /\ fetched'[q] = fetched[q]
           \/ fetched'[q].at = now
  PROVE  CallInv'
<1>1. IsMap(calls', Requests, Call)
  BY DEF CallInv, IsMap
<1>2. DeadlinesHold'
  <2>1. \A q \in DOMAIN calls' :
          /\ now <= calls'[q].deadline /\ calls'[q].deadline <= now + FetchSpan
          /\ calls'[q].deadline <= calls'[q].expiry
    BY DEF CallInv, DeadlinesHold
  <2>2. \A q \in DOMAIN fetched' : q \in DOMAIN calls'
    BY DEF StagesAreApart
  <2> QED
    BY <2>1, <2>2 DEF CallInv, DeadlinesHold
<1> QED
  BY <1>1, <1>2 DEF CallInv

\* Calls advance through their stages, always within their deadlines.
THEOREM CallInvariance == CallSpec => []CallInv
<1>1. CallInit => CallInv
  BY EmptyMapType DEF CallInit, Init, CallInv, StagesAreApart, DeadlinesHold
<1>2. CallInv /\ [CallNext]_callVars => CallInv'
  <2> SUFFICES ASSUME CallInv, [CallNext]_callVars PROVE CallInv'
    OBVIOUS
  <2> USE DEF CallInv
  <2>1. ASSUME NEW r \in Requests, StartListClusters(r)
        PROVE  CallInv'
    <3>1. /\ r \notin DOMAIN calls /\ NewCall(r, "list_clusters")
          /\ UNCHANGED <<now, fetching, fetched, answered>>
      BY <2>1 DEF StartListClusters, vars
    <3>2. /\ IsMap(calls', Requests, Call)
          /\ DOMAIN calls' = DOMAIN calls \cup {r}
          /\ \A q \in DOMAIN calls : calls'[q] = calls[q]
          /\ now <= calls'[r].deadline
          /\ calls'[r].deadline <= now + FetchSpan
          /\ calls'[r].deadline <= calls'[r].expiry
      BY <3>1, NewCallInTime DEF Tools
    <3>3. StagesAreApart'
      BY <3>1, <3>2 DEF StagesAreApart
    <3>4. DeadlinesHold'
      BY <3>1, <3>2 DEF DeadlinesHold, StagesAreApart
    <3> QED
      BY <3>1, <3>2, <3>3, <3>4
  <2>2. ASSUME NEW r \in Requests, NEW tool \in Tools, NEW c \in Clusters, StartCall(r, tool, c)
        PROVE  CallInv'
    <3>1. /\ r \notin DOMAIN calls /\ tool # "list_clusters" /\ NewCall(r, tool)
          /\ Lookup(r, c)
          /\ UNCHANGED <<now, fetched>>
      BY <2>2 DEF StartCall, Lookup
    <3>2. /\ IsMap(calls', Requests, Call)
          /\ DOMAIN calls' = DOMAIN calls \cup {r}
          /\ \A q \in DOMAIN calls : calls'[q] = calls[q]
          /\ calls'[r].tool = tool
          /\ now <= calls'[r].deadline
          /\ calls'[r].deadline <= now + FetchSpan
          /\ calls'[r].deadline <= calls'[r].expiry
      BY <3>1, NewCallInTime
    <3>3. /\ r \notin DOMAIN fetching \cup DOMAIN fetched \cup DOMAIN answered
          /\ \/ DOMAIN answered' = DOMAIN answered \cup {r} /\ UNCHANGED fetching
             \/ DOMAIN fetching' = DOMAIN fetching \cup {r} /\ UNCHANGED answered
      BY <3>1 DEF Lookup, Put
    <3>4. StagesAreApart'
      BY <3>1, <3>2, <3>3 DEF StagesAreApart
    <3>5. DeadlinesHold'
      BY <3>1, <3>2 DEF DeadlinesHold, StagesAreApart
    <3> QED
      BY <3>1, <3>2, <3>4, <3>5
  <2>3. ASSUME NEW r \in Requests, GetClient(r)
        PROVE  CallInv'
    <3>1. CASE Fetch(r)
      <4> DEFINE f == [cluster |-> fetching[r], details |-> Current(fetching[r]), at |-> now]
      <4>1. /\ r \in DOMAIN fetching /\ fetching' = Without(fetching, {r})
            /\ fetched' = Put(fetched, r, f) /\ f.at = now
            /\ UNCHANGED <<now, answered, calls>>
        BY <2>3, <3>1 DEF Fetch, GetClient
      <4> HIDE DEF f
      <4>2. /\ DOMAIN fetching' = DOMAIN fetching \ {r}
            /\ DOMAIN fetched' = DOMAIN fetched \cup {r}
            /\ fetched'[r].at = now
            /\ \A q \in DOMAIN fetched : q # r => fetched'[q] = fetched[q]
        BY <4>1 DEF Put, Without, Restrict
      <4>3. StagesAreApart'
        BY <4>1, <4>2 DEF StagesAreApart
      <4> QED
        BY <4>1, <4>2, <4>3, SubsetKeepsDeadlines
    <3>2. CASE Store(r)
      <4>1. /\ r \in DOMAIN fetched /\ fetched' = Without(fetched, {r})
            /\ DOMAIN answered' = DOMAIN answered \cup {r}
            /\ UNCHANGED <<now, fetching, calls>>
        BY <2>3, <3>2 DEF Store, GetClient, Put
      <4>2. /\ DOMAIN fetched' = DOMAIN fetched \ {r}
            /\ \A q \in DOMAIN fetched' : fetched'[q] = fetched[q]
        BY <4>1 DEF Without, Restrict
      <4>3. StagesAreApart'
        BY <4>1, <4>2 DEF StagesAreApart
      <4> QED
        BY <4>1, <4>2, <4>3, SubsetKeepsDeadlines
    <3> QED
      BY <2>3, <3>1, <3>2 DEF GetClient
  <2>4. ASSUME NEW r \in Requests, Finish(r)
        PROVE  CallInv'
    <3>1. /\ calls' = Without(calls, {r}) /\ UNCHANGED <<now, fetching, fetched>>
          /\ r \notin DOMAIN fetching \cup DOMAIN fetched
          /\ DOMAIN answered' = DOMAIN answered \ {r}
      BY <2>4 DEF Finish, Leave, vars, Without, Restrict, StagesAreApart
    <3>2. /\ DOMAIN calls' = DOMAIN calls \ {r}
          /\ \A q \in DOMAIN calls' : calls'[q] = calls[q]
      BY <3>1 DEF Without, Restrict
    <3>3. StagesAreApart'
      BY <3>1, <3>2 DEF StagesAreApart
    <3> QED
      BY <3>1, <3>2, <3>3, SubsetKeepsDeadlines
  <2>5. ASSUME NEW r \in Requests, Abandon(r)
        PROVE  CallInv'
    <3>1. /\ calls' = Without(calls, {r}) /\ UNCHANGED <<now, answered>>
          /\ r \in DOMAIN fetching \cup DOMAIN fetched
          /\ fetching' = Without(fetching, {r}) /\ fetched' = Without(fetched, {r})
      BY <2>5 DEF Abandon, FetchFails
    <3>2. /\ DOMAIN calls' = DOMAIN calls \ {r}
          /\ \A q \in DOMAIN calls' : calls'[q] = calls[q]
          /\ DOMAIN fetching' = DOMAIN fetching \ {r}
          /\ DOMAIN fetched' = DOMAIN fetched \ {r}
          /\ \A q \in DOMAIN fetched' : fetched'[q] = fetched[q]
      BY <3>1 DEF Without, Restrict
    <3>3. StagesAreApart'
      BY <3>1, <3>2, ZenonT(30) DEF StagesAreApart
    <3> QED
      BY <3>1, <3>2, <3>3, SubsetKeepsDeadlines
  <2>6. ASSUME NEW c \in Clusters, ChangeCluster(c)
        PROVE  CallInv'
    BY <2>6 DEF ChangeCluster, Change, StagesAreApart, DeadlinesHold
  <2>7. CASE CallTick
    <3>1. /\ now' = now + 1 /\ UNCHANGED <<fetching, fetched, answered, calls>>
          /\ \A r \in DOMAIN calls : now < calls[r].deadline
      BY <2>7 DEF CallTick
    <3>2. \A r \in DOMAIN calls : calls[r].deadline \in Nat
      BY DEF IsMap, Call
    <3>3. \A r \in DOMAIN calls : now' <= calls[r].deadline /\ calls[r].deadline <= now' + FetchSpan
      BY <3>1, <3>2, SpanAssumption DEF DeadlinesHold
    <3>4. DeadlinesHold'
      BY <3>1, <3>3 DEF DeadlinesHold
    <3>5. StagesAreApart'
      BY <3>1 DEF StagesAreApart
    <3> QED
      BY <3>1, <3>4, <3>5
  <2>8. CASE UNCHANGED callVars
    BY <2>8 DEF callVars, vars, StagesAreApart, DeadlinesHold
  <2> QED
    BY <2>1, <2>2, <2>3, <2>4, <2>5, <2>6, <2>7, <2>8 DEF CallNext
<1> QED
  BY <1>1, <1>2, PTL DEF CallSpec

\* Calls use the cache as it assumes: time never passes while an answer of GKE
\* has been in somebody's hand for FetchSpan, because their deadline is earlier.
THEOREM DeadlinesBoundFetches == CallSpec => CallsUseTheCache
<1>1. CallInit => Init
  BY DEF CallInit
<1>2. CallInv /\ [CallNext]_callVars => [Next]_vars
  <2> SUFFICES ASSUME CallInv, [CallNext]_callVars PROVE [Next]_vars
    OBVIOUS
  <2>1. ASSUME NEW r \in Requests, StartListClusters(r)
        PROVE  UNCHANGED vars
    BY <2>1 DEF StartListClusters
  <2>2. ASSUME NEW r \in Requests, NEW tool \in Tools, NEW c \in Clusters, StartCall(r, tool, c)
        PROVE  Next
    BY <2>2 DEF StartCall, Next
  <2>3. ASSUME NEW r \in Requests, GetClient(r)
        PROVE  Next
    BY <2>3 DEF GetClient, Next
  <2>4. ASSUME NEW r \in Requests, Finish(r)
        PROVE  [Next]_vars
    BY <2>4 DEF Finish, Next
  <2>5. ASSUME NEW r \in Requests, Abandon(r)
        PROVE  Next
    BY <2>5 DEF Abandon, Next
  <2>6. ASSUME NEW c \in Clusters, ChangeCluster(c)
        PROVE  Next
    BY <2>6 DEF ChangeCluster, Next
  <2>7. CASE CallTick
    <3>1. ASSUME NEW r \in DOMAIN fetched
          PROVE  now - fetched[r].at < FetchSpan
      <4>1. r \in DOMAIN calls
        BY DEF CallInv, StagesAreApart
      <4>2. /\ now < calls[r].deadline /\ calls[r].deadline <= fetched[r].at + FetchSpan
            /\ now \in Nat /\ calls[r].deadline \in Nat /\ fetched[r].at \in Nat
        BY <2>7, <4>1 DEF CallTick, CallInv, DeadlinesHold, IsMap, Call
      <4> QED
        BY <4>2, SpanAssumption
    <3>2. Tick
      BY <2>7, <3>1 DEF CallTick, Tick
    <3> QED
      BY <3>2 DEF Next
  <2>8. CASE UNCHANGED callVars
    BY <2>8 DEF callVars
  <2> QED
    BY <2>1, <2>2, <2>3, <2>4, <2>5, <2>6, <2>7, <2>8 DEF CallNext
<1> QED
  BY <1>1, <1>2, CallInvariance, PTL DEF CallSpec, Spec, CallsUseTheCache

\* Every variable keeps its type.
THEOREM CallTypeCorrect == CallSpec => []CallTypeOK
<1>1. TypeOK /\ CallInv => CallTypeOK
  BY DEF CallInv, CallTypeOK, StagesAreApart
<1> QED
  BY <1>1, DeadlinesBoundFetches, TypeCorrect, CallInvariance, PTL DEF CallsUseTheCache

\* A call never outlives the token it copied, whatever it waits for.
THEOREM TokensLastForCalls == CallSpec => []TokensOutliveCalls
<1>1. CallInv => TokensOutliveCalls
  <2> SUFFICES ASSUME CallInv, NEW r \in DOMAIN calls
               PROVE  now <= calls[r].expiry
    BY DEF TokensOutliveCalls
  <2>1. calls[r] \in Call /\ now \in Nat
    BY DEF CallInv, IsMap
  <2> QED
    BY <2>1 DEF CallInv, DeadlinesHold, Call
<1> QED
  BY <1>1, CallInvariance, PTL

\* So the calls inherit the bound on the staleness of what they are given.
THEOREM CallsAreNotStale == CallSpec => []StalenessIsBounded
BY DeadlinesBoundFetches, StalenessBound, PTL DEF CallsUseTheCache

\* And they get the cluster they asked for.
THEOREM CallsGetTheirCluster == CallSpec => []OwnCluster
BY DeadlinesBoundFetches, CallsGetTheirOwnCluster, PTL DEF CallsUseTheCache
=============================================================================
