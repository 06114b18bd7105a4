------------------------------ MODULE ToolCall ------------------------------
(***************************************************************************)
(* A call of an MCP tool, from the handler's first line to its answer:     *)
(* what all handlers of internal/tools have in common, over the cluster    *)
(* cache.  A handler puts a deadline on its context, takes the access      *)
(* token out of the session, looks its cluster up in the cache or at GKE,  *)
(* calls the Kubernetes API with the token, and prints what it got.  The   *)
(* context ends every wait: at the deadline, or earlier when the caller    *)
(* goes away.  ClusterCache assumes a bound on the time between GKE's      *)
(* answer and its storing; here it follows from the deadlines.             *)
(***************************************************************************)
EXTENDS ClusterCache

CONSTANTS
  CallTimeout,   \* 30 seconds, for all handlers but
  LogTimeout,    \* 60 seconds (handleGetPodLogs)
  BodySpan,      \* the longest time that the body of a POST takes to arrive
  TokenMargin    \* how long a token is good for, at least, once EnsureFreshToken has returned

\* FetchSpan is the longest deadline, and the refresh buffer of five minutes
\* covers it together with BodySpan.  No timeout of the server bounds BodySpan:
\* there is none on reading a body (main), so that this much is assumed of the
\* clients.
ASSUME TimeoutAssumption ==
  /\ CallTimeout \in Nat \ {0} /\ LogTimeout \in Nat \ {0}
  /\ BodySpan \in Nat /\ TokenMargin \in Nat
  /\ CallTimeout <= FetchSpan /\ LogTimeout <= FetchSpan
  /\ BodySpan + FetchSpan <= TokenMargin

VARIABLE calls   \* call -> its tool, its deadline, and when its token expires

callVars == <<vars, calls>>

\* The tools differ here in their deadline and in whether they need a cluster.
Tools == {"list_clusters", "get_pod_logs", "other"}

Call == [tool : Tools, deadline : Nat, expiry : Nat]

CallTypeOK ==
  /\ TypeOK
  /\ IsMap(calls, Requests, Call)
  /\ DOMAIN fetching \cup DOMAIN fetched \cup DOMAIN answered \subseteq DOMAIN calls

CallInit == Init /\ calls = EmptyMap

\* context.WithTimeout
NoDeadline(tool) == now + MaxTime                      \* faulty

Deadline(tool) == now + IF tool = "get_pod_logs" THEN LogTimeout ELSE CallTimeout

\* When EnsureFreshToken may have returned for a handler that starts now: the
\* transport has read the body of the request in between.
CheckTimes == {t \in 0..now : now - t <= BodySpan}

\* The auth middleware has checked the token; SessionFromContext gives it.
NewCall(r, tool) ==
  \E checked \in CheckTimes :
    calls' = Put(calls, r, [tool |-> tool, deadline |-> Deadline(tool),
                            expiry |-> checked + TokenMargin])

\* handleListClusters asks GKE for the list, without the cache.
StartListClusters(r) ==
  /\ r \notin DOMAIN calls
  /\ NewCall(r, "list_clusters")
  /\ UNCHANGED vars

\* Every other handler needs a client for the cluster it is asked about
\* (clusterInfo: a project, a location and a name that match their expressions).
StartCall(r, tool, c) ==
  /\ r \notin DOMAIN calls
  /\ tool # "list_clusters"
  /\ NewCall(r, tool)
  /\ Lookup(r, c)

\* NewClientForUser, while it waits for GKE and once it has its answer.
GetClient(r) == (Fetch(r) \/ Store(r)) /\ UNCHANGED calls

\* The Kubernetes API, or GKE for list_clusters, has answered or failed: the
\* result goes back to the caller.
Finish(r) ==
  /\ calls' = Without(calls, {r})
  /\ \/ Leave(r)
     \/ r \in DOMAIN calls /\ calls[r].tool = "list_clusters" /\ UNCHANGED vars

\* No client: GKE failed, or the context ended.
Abandon(r) ==
  /\ calls' = Without(calls, {r})
  /\ FetchFails(r)

ChangeCluster(c) == Change(c) /\ UNCHANGED calls

\* The context ends a call at its deadline.
CallTick ==
  /\ now < MaxTime
  /\ \A r \in DOMAIN calls : now < calls[r].deadline
  /\ now' = now + 1
  /\ UNCHANGED <<cache, fetching, fetched, answered, changes, calls>>

CallNext ==
  \/ \E r \in Requests, tool \in Tools, c \in Clusters : StartCall(r, tool, c)
  \/ \E r \in Requests :
       StartListClusters(r) \/ GetClient(r) \/ Finish(r) \/ Abandon(r)
  \/ \E c \in Clusters : ChangeCluster(c)
  \/ CallTick

CallSpec == CallInit /\ [][CallNext]_callVars

-----------------------------------------------------------------------------
(* Properties *)

\* The token that a handler took from the session is good until the handler has
\* answered: it goes to GKE and to Kubernetes at any moment until then, and
\* nothing checks it again (the handlers' deadlines, EnsureFreshToken's buffer).
TokensOutliveCalls == \A r \in DOMAIN calls : now <= calls[r].expiry

\* What GKE has answered is stored within the longest deadline, so that the
\* calls use the cache in the way that bounds its staleness.
CallsUseTheCache == Spec
=============================================================================
