----------------------------- MODULE ToolResults -----------------------------
(***************************************************************************)
(* What the MCP tools answer: the handlers of internal/tools/tools.go and  *)
(* tools_extended.go over a cluster that changes between calls.  A handler *)
(* reads the cluster in one call to its API and computes its answer from   *)
(* that, so it is one action; what comes before that call, and its time    *)
(* limit, is ToolCall's.  The cluster is one collection of objects, which  *)
(* is all that a call reads, and one container's log.  The columns and     *)
(* headings of the answers are left out.                                   *)
(***************************************************************************)
EXTENDS Integers, FiniteSets, Sequences, GoMap

CONSTANTS
  Names,        \* names of objects, numbered in the order in which the API lists them
  NamespaceOf,  \* name -> the namespace it is in, "" if it is in none
  KindOf,       \* name -> its kind, in lower case
  Untimed,      \* events that carry EventTime only, as those of the newer API do
  Resource,     \* kind -> the name of its collection in the API: a stem and an ending
  ListLimit,    \* ListOptions.Limit: 500 objects, 200 events
  ShowLimit,    \* 50 events
  Tails,        \* tail_lines arguments
  LogCap,       \* maxLogBytes, counted in lines
  MaxTime,      \* bound on the clock
  MaxLines      \* bound on the log

ASSUME LimitAssumption ==
  /\ Names \subseteq Nat /\ Tails \subseteq Nat
  /\ ListLimit \in Nat \ {0} /\ ShowLimit \in Nat /\ LogCap \in Nat
  /\ MaxTime \in Nat /\ MaxLines \in Nat

ASSUME ObjectAssumption ==
  DOMAIN NamespaceOf = Names /\ DOMAIN KindOf = Names /\ Untimed \subseteq Names

VARIABLES
  now,
  objects,     \* the collection: name -> when it appeared, or an event last happened
  lines,       \* how many lines the container has logged
  answer       \* the last answer, until the cluster changes

vars == <<now, objects, lines, answer>>

AnyNamespace == ""
Namespaces == {NamespaceOf[n] : n \in Names} \cup {AnyNamespace}

\* Lists that look at Continue, and the other tools that list.
MarkedLists == {"list_pods", "get_nodes"}
SilentLists == {"list_namespaces", "list_deployments", "list_services", "list_ingresses",
                "list_jobs", "list_hpa", "list_pvcs", "list_configmaps",
                "list_statefulsets", "list_daemonsets", "list_crds", "get_crd_instances"}
Tools == MarkedLists \cup SilentLists \cup
         {"list_clusters", "get_events", "get_pod_logs", "describe_pod",
          "describe_deployment", "get_resource_yaml"}

\* `ns` is the namespace asked for, `arg` the object, or how many log lines.
\* `shown` are the objects or log lines in the answer, `more` its note that
\* there are others.
NoAnswer == [tool |-> "none"]
ErrorResult == [tool |-> "error"]
Answer(tool, ns, arg, shown, more) ==
  [tool |-> tool, ns |-> ns, arg |-> arg, shown |-> shown, more |-> more]

TypeOK ==
  /\ now \in Nat
  /\ IsMap(objects, Names, Nat)
  /\ lines \in Nat
  /\ \/ answer \in {NoAnswer, ErrorResult}
     \/ /\ answer.tool \in Tools
        /\ answer.shown \subseteq Nat
        /\ answer.tool = "get_pod_logs" => Cardinality(answer.shown) <= LogCap
        /\ answer.tool \notin {"get_pod_logs", "list_clusters"} =>
             Cardinality(answer.shown) <= ListLimit

Init == now = 0 /\ objects = EmptyMap /\ lines = 0 /\ answer = NoAnswer

-----------------------------------------------------------------------------
(* The Kubernetes API *)

\* An object appears, or an event happens again.
Touch(n) ==
  /\ objects' = Put(objects, n, now)
  /\ answer' = NoAnswer
  /\ UNCHANGED <<now, lines>>

Vanish(n) ==
  /\ n \in DOMAIN objects
  /\ objects' = Without(objects, {n})
  /\ answer' = NoAnswer
  /\ UNCHANGED <<now, lines>>

Log ==
  /\ lines < MaxLines
  /\ lines' = lines + 1
  /\ answer' = NoAnswer
  /\ UNCHANGED <<now, objects>>

Tick == now < MaxTime /\ now' = now + 1 /\ UNCHANGED <<objects, lines, answer>>

In(ns) == {n \in DOMAIN objects : ns \in {AnyNamespace, NamespaceOf[n]}}

\* List with a Limit: the first objects in the order of their names, and a
\* Continue token if there are more.
WholeList(ns) == In(ns)                                \* faulty: no Limit

FilteredAfterwards(ns) ==              \* faulty: the namespace is applied to the page
  {n \in In(ns) : Cardinality({m \in DOMAIN objects : m < n}) < ListLimit}

Items(ns) == {n \in In(ns) : Cardinality({m \in In(ns) : m < n}) < ListLimit}

Continue(ns) == Items(ns) # In(ns)

\* What get_events sorts by: the zero time for an event without LastTimestamp.
LastTimestamp(n) == IF n \in Untimed THEN -1 ELSE objects[n]

\* Get: an object is found under its own namespace only.
Found(ns, n) == n \in DOMAIN objects /\ NamespaceOf[n] = ns

-----------------------------------------------------------------------------
(* What handlers have in common *)

Reply(a) == answer' = a /\ UNCHANGED <<now, objects, lines>>

\* Every handler may end in errResult or safeErr: without a session, for an
\* invalid argument, or when the API fails or its deadline passes.
Fails == Reply(ErrorResult)

\* All lists but two print what they got and no more.
SilentList(tool, ns) == Reply(Answer(tool, ns, 0, Items(ns), FALSE))

\* handleListPods and handleGetNodes add a note if there is a Continue token.
MarkedList(tool, ns) == Reply(Answer(tool, ns, 0, Items(ns), Continue(ns)))

\* An object is printed if the API has it; if not, its error is the answer.
Describe(tool, ns, n, known) ==
  Reply(Answer(tool, ns, n, IF known /\ Found(ns, n) THEN {n} ELSE {}, FALSE))

-----------------------------------------------------------------------------
(* The handlers.  Without a namespace, lists cover all of them. *)

\* GKE leaves out the locations it cannot reach and says so in a field that
\* nobody reads (for this tool, the location of a cluster is its namespace).
HandleListClusters(missing) ==
  Reply(Answer("list_clusters", AnyNamespace, 0,
               {n \in DOMAIN objects : NamespaceOf[n] # missing}, FALSE))

HandleListPods(ns) == MarkedList("list_pods", ns)
HandleGetNodes == MarkedList("get_nodes", AnyNamespace)

HandleListNamespaces == SilentList("list_namespaces", AnyNamespace)
HandleListDeployments(ns) == SilentList("list_deployments", ns)
HandleListServices(ns) == SilentList("list_services", ns)
HandleListIngresses(ns) == SilentList("list_ingresses", ns)
HandleListJobs(ns) == SilentList("list_jobs", ns)
HandleListHPA(ns) == SilentList("list_hpa", ns)
HandleListPVCs(ns) == SilentList("list_pvcs", ns)
HandleListConfigMaps(ns) == SilentList("list_configmaps", ns)
HandleListStatefulSets(ns) == SilentList("list_statefulsets", ns)
HandleListDaemonSets(ns) == SilentList("list_daemonsets", ns)
HandleListCRDs == SilentList("list_crds", AnyNamespace)
HandleGetCRDInstances(ns) == SilentList("get_crd_instances", ns)

HandleDescribePod(ns, n) == Describe("describe_pod", ns, n, TRUE)
HandleDescribeDeployment(ns, n) == Describe("describe_deployment", ns, n, TRUE)

\* The collection is taken to be the kind with an s.
PluralByS(kind) == <<kind, "s">>

HandleGetResourceYAML(ns, n) ==
  Describe("get_resource_yaml", ns, n, Resource[KindOf[n]] = PluralByS(KindOf[n]))

\* Of the events listed, those with the latest LastTimestamp; which of two
\* equal ones is not said, because sort.Slice is not stable.
Earliest(S) ==                                         \* faulty: sorted the other way
  {T \in SUBSET S :
     /\ Cardinality(T) = IF Cardinality(S) < ShowLimit THEN Cardinality(S) ELSE ShowLimit
     /\ \A e \in T, f \in S \ T : LastTimestamp(e) <= LastTimestamp(f)}

Latest(S) ==
  {T \in SUBSET S :
     /\ Cardinality(T) = IF Cardinality(S) < ShowLimit THEN Cardinality(S) ELSE ShowLimit
     /\ \A e \in T, f \in S \ T : LastTimestamp(e) >= LastTimestamp(f)}

HandleGetEvents(ns) ==
  \E shown \in Latest(Items(ns)) : Reply(Answer("get_events", ns, 0, shown, FALSE))

\* The stream begins `tail` lines before the end; the first LogCap lines of it
\* are read.
HeadOfLog(tail) ==                                     \* faulty: TailLines is not passed
  Reply(Answer("get_pod_logs", AnyNamespace, tail,
               {l \in 1..lines : l <= tail /\ l <= LogCap}, FALSE))

HandleGetPodLogs(tail) ==
  LET stream == {l \in 1..lines : l > lines - tail}
  IN Reply(Answer("get_pod_logs", AnyNamespace, tail,
                  {l \in stream : Cardinality({m \in stream : m < l}) < LogCap}, FALSE))

-----------------------------------------------------------------------------
(* Register *)

ListTools ==
  \/ HandleGetNodes \/ HandleListNamespaces \/ HandleListCRDs
  \/ \E ns \in Namespaces :
       \/ HandleListClusters(ns)
       \/ HandleListPods(ns) \/ HandleListDeployments(ns) \/ HandleListServices(ns)
       \/ HandleListIngresses(ns) \/ HandleListJobs(ns) \/ HandleListHPA(ns)
       \/ HandleListPVCs(ns) \/ HandleListConfigMaps(ns) \/ HandleListStatefulSets(ns)
       \/ HandleListDaemonSets(ns) \/ HandleGetCRDInstances(ns) \/ HandleGetEvents(ns)

GetTools ==
  \/ \E ns \in Namespaces, n \in Names :
       \/ HandleDescribePod(ns, n) \/ HandleDescribeDeployment(ns, n)
       \/ HandleGetResourceYAML(ns, n)
  \/ \E tail \in Tails : HandleGetPodLogs(tail)

Next ==
  \/ \E n \in Names : Touch(n) \/ Vanish(n)
  \/ Log
  \/ Tick
  \/ Fails
  \/ ListTools
  \/ GetTools

Spec == Init /\ [][Next]_vars

-----------------------------------------------------------------------------
(* Properties *)

\* Lists are whole while the namespace asked for is within the limit, however
\* many objects there are in the others: twelve of them say nothing when they
\* are cut.
ListsAreWholeWithinTheLimit ==
  answer.tool \in SilentLists \cup MarkedLists /\ Cardinality(In(answer.ns)) <= ListLimit =>
    answer.shown = In(answer.ns)

\* While a namespace has no more events than are listed, get_events leaves out,
\* of those with a LastTimestamp, none that is more recent than one it shows, and
\* none in favour of one without; of those without it may leave out any.
EventsAreRecentWithinTheLimit ==
  answer.tool = "get_events" /\ Cardinality(In(answer.ns)) <= ListLimit =>
    \A e \in answer.shown, f \in In(answer.ns) \ answer.shown :
      f \notin Untimed => e \notin Untimed /\ objects[e] >= objects[f]

\* While the lines asked for fit in LogCap, get_pod_logs ends with the last one.
LogsReachTheEndWithinTheCap ==
  answer.tool = "get_pod_logs" /\ answer.arg \in 1..LogCap /\ lines > 0 =>
    lines \in answer.shown

\* README.md: "Recent K8s events sorted by time": get_events leaves out no event
\* that is more recent than one it shows.
EventsAreTheMostRecent ==
  answer.tool = "get_events" =>
    \A e \in answer.shown, f \in In(answer.ns) \ answer.shown : objects[e] >= objects[f]

\* README.md: "Tail logs from a pod's container": get_pod_logs ends with the
\* last line.
LogsReachTheEnd ==
  answer.tool = "get_pod_logs" /\ answer.arg > 0 /\ lines > 0 => lines \in answer.shown

\* README.md: "Full YAML of any Kubernetes resource": get_resource_yaml shows
\* every resource that there is.
YAMLOfAnyResource ==
  answer.tool = "get_resource_yaml" /\ Found(answer.ns, answer.arg) =>
    answer.shown = {answer.arg}
=============================================================================
