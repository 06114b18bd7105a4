---------------------------- MODULE ClusterCache ----------------------------
(***************************************************************************)
(* The cluster cache of internal/k8s/client.go.  A tool call looks a       *)
(* cluster's endpoint and CA up under the read lock; on a miss it fetches  *)
(* them from the GKE API without any lock, so several fetches of one       *)
(* cluster may overlap and end in any order, and then stores what it got.  *)
(* Endpoint and CA change together (a recreated cluster): a version of the *)
(* cluster, counted from 1.                                                *)
(***************************************************************************)
EXTENDS Integers, Sequences, GoMap

CONSTANTS
  Projects, Locations, Names,
  Requests,    \* tool calls
  TTL,         \* 10 minutes (clusterCacheTTL)
  FetchSpan,   \* longest time from GKE's answer to the entry's cachedAt
  MaxTime,     \* bound on the clock
  MaxChanges   \* bound on the changes of a cluster

\* A fetch ends within the tool's timeout of 30 or 60 seconds.
ASSUME SpanAssumption ==
  /\ TTL \in Nat \ {0} /\ FetchSpan \in Nat
  /\ MaxTime \in Nat /\ MaxChanges \in Nat

\* ClusterInfo
Clusters == [project : Projects, location : Locations, name : Names]

VARIABLES
  now,         \* time.Now()
  cache,       \* clusterCache
  fetching,    \* calls that missed: the cluster each wants
  fetched,     \* calls with GKE's answer in hand, not stored yet
  answered,    \* calls that have their endpoint and CA, and when they got them
  changes      \* GKE: cluster -> when its versions 2, 3, ... came up

vars == <<now, cache, fetching, fetched, answered, changes>>

\* What a call gets: the endpoint and CA of a cluster, in some version.
Details == [cluster : Clusters, version : Nat]
Cached == [details : Details, cachedAt : Nat]
Fetched == [cluster : Clusters, details : Details, at : Nat]
Answered == [cluster : Clusters, details : Details, at : Nat]

\* The cache key "project/location/name": no part contains a slash (clusterInfo
\* matches all three against expressions without one), so it is the triple.
KeyWithoutLocation(c) == <<c.project, c.name>>         \* faulty

Key(c) == <<c.project, c.location, c.name>>

Keys == {Key(c) : c \in Clusters}

TypeOK ==
  /\ now \in Nat
  /\ IsMap(cache, Keys, Cached)
  /\ IsMap(fetching, Requests, Clusters)
  /\ IsMap(fetched, Requests, Fetched)
  /\ IsMap(answered, Requests, Answered)
  /\ changes \in [Clusters -> Seq(Nat)]

Current(c) == [cluster |-> c, version |-> Len(changes[c]) + 1]

Init ==
  /\ now = 0
  /\ cache = EmptyMap
  /\ fetching = EmptyMap /\ fetched = EmptyMap /\ answered = EmptyMap
  /\ changes = [c \in Clusters |-> <<>>]

\* An entry younger than the TTL is used.
HitAtAnyAge(c) == Key(c) \in DOMAIN cache              \* faulty

Hit(c) == Key(c) \in DOMAIN cache /\ now - cache[Key(c)].cachedAt < TTL

\* getCachedClusterDetails, under the read lock
Lookup(r, c) ==
  /\ r \notin DOMAIN fetching \cup DOMAIN fetched \cup DOMAIN answered
  /\ IF Hit(c)
     THEN /\ answered' = Put(answered, r, [cluster |-> c, details |-> cache[Key(c)].details,
                                           at |-> now])
          /\ UNCHANGED fetching
     ELSE fetching' = Put(fetching, r, c) /\ UNCHANGED answered
  /\ UNCHANGED <<now, cache, fetched, changes>>

\* getClusterDetails: GKE answers with the cluster as it is.
Fetch(r) ==
  /\ r \in DOMAIN fetching
  /\ fetched' = Put(fetched, r, [cluster |-> fetching[r], details |-> Current(fetching[r]),
                                 at |-> now])
  /\ fetching' = Without(fetching, {r})
  /\ UNCHANGED <<now, cache, answered, changes>>

\* The API call fails, or the CA does not decode: the cache stays as it is.
FetchFails(r) ==
  /\ r \in DOMAIN fetching \cup DOMAIN fetched
  /\ fetching' = Without(fetching, {r})
  /\ fetched' = Without(fetched, {r})
  /\ UNCHANGED <<now, cache, answered, changes>>

\* The entry is dated by the time of storing it.
Undated(details) == [details |-> details, cachedAt |-> -1]     \* faulty

Dated(details) == [details |-> details, cachedAt |-> now]

\* The answer is stored under the write lock, over whatever is there, and used.
Store(r) ==
  /\ r \in DOMAIN fetched
  /\ LET f == fetched[r]
     IN /\ cache' = Put(cache, Key(f.cluster), Dated(f.details))
        /\ answered' = Put(answered, r, [cluster |-> f.cluster, details |-> f.details,
                                         at |-> now])
  /\ fetched' = Without(fetched, {r})
  /\ UNCHANGED <<now, fetching, changes>>

\* The call goes on to the Kubernetes API, without the cache.
Leave(r) ==
  /\ r \in DOMAIN answered
  /\ answered' = Without(answered, {r})
  /\ UNCHANGED <<now, cache, fetching, fetched, changes>>

\* GKE: a cluster is recreated, or its CA is rotated.
Change(c) ==
  /\ Len(changes[c]) < MaxChanges
  /\ changes' = [changes EXCEPT ![c] = Append(@, now)]
  /\ UNCHANGED <<now, cache, fetching, fetched, answered>>

Tick ==
  /\ now < MaxTime
  /\ \A r \in DOMAIN fetched : now - fetched[r].at < FetchSpan
  /\ now' = now + 1
  /\ UNCHANGED <<cache, fetching, fetched, answered, changes>>

Next ==
  \/ \E r \in Requests, c \in Clusters : Lookup(r, c)
  \/ \E r \in Requests : Fetch(r) \/ FetchFails(r) \/ Store(r) \/ Leave(r)
  \/ \E c \in Clusters : Change(c)
  \/ Tick

Spec == Init /\ [][Next]_vars

-----------------------------------------------------------------------------
(* Properties *)

\* No call is given an endpoint or CA that was replaced TTL + FetchSpan ago,
\* although entries are dated by when they were stored, and a slow fetch may
\* store an older version over a newer one (getCachedClusterDetails).
StalenessIsBounded ==
  \A r \in DOMAIN answered :
    LET a == answered[r]
        since == changes[a.details.cluster]
    IN a.details.version <= Len(since) => a.at - since[a.details.version] < TTL + FetchSpan

\* A call gets the details of the cluster it asked for, not of one that shares
\* its cache entry.
OwnCluster == \A r \in DOMAIN answered : answered[r].details.cluster = answered[r].cluster
=============================================================================
