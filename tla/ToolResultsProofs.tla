-------------------------- MODULE ToolResultsProofs --------------------------
(* What the tools answer, for every collection, log and limit.                 *)
EXTENDS ToolResults, GoMapTheorems, FiniteSetTheorems

\* An answer is about the collection and the log as they are: what changes them
\* takes the answer away.
AnswersAreCurrent ==
  /\ answer.tool \in SilentLists => answer.shown = Items(answer.ns)
  /\ answer.tool \in MarkedLists =>
       answer.shown = Items(answer.ns) /\ answer.more = Continue(answer.ns)
  /\ answer.tool = "get_events" => answer.shown \in Latest(Items(answer.ns))
  /\ answer.tool = "get_pod_logs" =>
       LET stream == {l \in 1..lines : l > lines - answer.arg}
       IN answer.shown = {l \in stream : Cardinality({m \in stream : m < l}) < LogCap}

AnswerInv == IsFiniteSet(DOMAIN objects) /\ TypeOK /\ AnswersAreCurrent

-----------------------------------------------------------------------------
(* Pages *)

\* The first elements of a set, as many as a limit allows.
FirstOf(S, limit) == {n \in S : Cardinality({m \in S : m < n}) < limit}

\* A page is never longer than its limit.
LEMMA PageIsBounded ==
  ASSUME NEW S \in SUBSET Nat, IsFiniteSet(S), NEW limit \in Nat
  PROVE  IsFiniteSet(FirstOf(S, limit)) /\ Cardinality(FirstOf(S, limit)) <= limit
<1> DEFINE P == FirstOf(S, limit)
           Before(n) == {m \in S : m < n}
           rank == [n \in P |-> Cardinality(Before(n))]
<1>1. IsFiniteSet(P) /\ Cardinality(P) \in Nat
  <2>1. P \in SUBSET S
    BY DEF FirstOf
  <2> QED
    BY <2>1, FS_Subset, FS_CardinalityType
<1>2. \A n \in S : IsFiniteSet(Before(n)) /\ Cardinality(Before(n)) \in Nat
  <2> SUFFICES ASSUME NEW n \in S
               PROVE  IsFiniteSet(Before(n)) /\ Cardinality(Before(n)) \in Nat
    OBVIOUS
  <2>1. Before(n) \in SUBSET S
    OBVIOUS
  <2> QED
    BY <2>1, FS_Subset, FS_CardinalityType
<1>3. \A x, y \in S : x < y => Cardinality(Before(x)) < Cardinality(Before(y))
  <2> SUFFICES ASSUME NEW x \in S, NEW y \in S, x < y
               PROVE  Cardinality(Before(x)) < Cardinality(Before(y))
    OBVIOUS
  <2>1. x \in Nat /\ y \in Nat /\ \A m \in S : m \in Nat
    OBVIOUS
  <2>2. x \in Before(y)
    OBVIOUS
  <2>3. x \notin Before(x)
    BY <2>1
  <2>4. Before(x) \in SUBSET Before(y)
    <3>1. ASSUME NEW m \in S, m < x
          PROVE  m < y
      BY <2>1, <3>1
    <3> QED
      BY <3>1
  <2> HIDE DEF Before
  <2>5. Cardinality(Before(x)) <= Cardinality(Before(y))
    BY <1>2, <2>4, FS_Subset
  <2>6. Cardinality(Before(x)) # Cardinality(Before(y))
    BY <1>2, <2>2, <2>3, <2>4, FS_Subset
  <2> QED
    BY <1>2, <2>5, <2>6
<1>4. ASSUME Cardinality(P) > limit
      PROVE  FALSE
  <2> DEFINE T == 0..(limit - 1)
  <2>1. IsFiniteSet(T) /\ Cardinality(T) = limit
    <3>1. /\ IsFiniteSet(T)
          /\ Cardinality(T) = IF 0 > limit - 1 THEN 0 ELSE (limit - 1) - 0 + 1
      BY FS_Interval
    <3> QED
      BY <3>1
  <2>2. rank \in [P -> T]
    <3>1. ASSUME NEW n \in P
          PROVE  Cardinality(Before(n)) \in T
      <4>1. n \in S /\ Cardinality(Before(n)) < limit
        BY DEF FirstOf
      <4>2. Cardinality(Before(n)) \in Nat
        BY <1>2, <4>1
      <4> QED
        BY <4>1, <4>2
    <3> QED
      BY <3>1
  <2> HIDE DEF T, P, rank
  <2>3. PICK x, y \in P : x # y /\ rank[x] = rank[y]
    <3>1. Cardinality(T) < Cardinality(P)
      BY <1>1, <1>4, <2>1
    <3> QED
      BY <1>1, <2>1, <2>2, <3>1, FS_PigeonHole
  <2>4. x \in S /\ y \in S /\ Cardinality(Before(x)) = Cardinality(Before(y))
    BY <2>3 DEF FirstOf, P, rank
  <2>5. x < y \/ y < x
    BY <2>3, <2>4
  <2> QED
    BY <1>2, <1>3, <2>4, <2>5
<1> QED
  BY <1>1, <1>4

\* A set within the limit is its own page.
LEMMA PageIsWhole ==
  ASSUME NEW S, IsFiniteSet(S), NEW limit \in Nat, Cardinality(S) <= limit,
         NEW n \in S, n \in Nat
  PROVE  n \in FirstOf(S, limit)
<1> DEFINE B == {m \in S : m < n}
<1>1. B \in SUBSET S /\ n \notin B
  OBVIOUS
<1>2. /\ Cardinality(B) <= Cardinality(S) /\ Cardinality(B) # Cardinality(S)
      /\ Cardinality(B) \in Nat /\ Cardinality(S) \in Nat
  BY <1>1, FS_Subset, FS_CardinalityType
<1> QED
  BY <1>2 DEF FirstOf

LEMMA ItemsArePage == \A ns : Items(ns) = FirstOf(In(ns), ListLimit)
BY DEF Items, FirstOf

LEMMA CollectionType ==
  ASSUME AnswerInv, NEW ns
  PROVE  /\ In(ns) \in SUBSET Nat /\ IsFiniteSet(In(ns))
         /\ Items(ns) \in SUBSET Nat /\ IsFiniteSet(Items(ns))
         /\ Cardinality(Items(ns)) <= ListLimit
<1>1. In(ns) \in SUBSET DOMAIN objects /\ DOMAIN objects \subseteq Nat
  BY LimitAssumption DEF In, AnswerInv, TypeOK, IsMap
<1>2. In(ns) \in SUBSET Nat /\ IsFiniteSet(In(ns))
  BY <1>1, FS_Subset DEF AnswerInv
<1>3. Items(ns) \in SUBSET Nat
  BY <1>2 DEF Items
<1> QED
  BY <1>2, <1>3, ItemsArePage, PageIsBounded, LimitAssumption

LEMMA WholeWithinTheLimit ==
  ASSUME AnswerInv, NEW ns, Cardinality(In(ns)) <= ListLimit
  PROVE  Items(ns) = In(ns)
<1>1. In(ns) \in SUBSET Nat /\ IsFiniteSet(In(ns))
  BY CollectionType
<1>2. \A n \in In(ns) : n \in FirstOf(In(ns), ListLimit)
  BY <1>1, PageIsWhole, LimitAssumption
<1> QED
  BY <1>2, ItemsArePage DEF FirstOf

-----------------------------------------------------------------------------
(* The steps *)

\* What a list, or get_events, may answer.
LEMMA ListIsTyped ==
  ASSUME AnswerInv, NEW tool \in Tools \ {"get_pod_logs"}, NEW ns, NEW arg, NEW more,
         NEW shown \in SUBSET Items(ns), Reply(Answer(tool, ns, arg, shown, more))
  PROVE  IsFiniteSet(DOMAIN objects)' /\ TypeOK'
<1>1. /\ shown \in SUBSET Nat
      /\ Cardinality(shown) <= ListLimit
  <2>1. /\ Items(ns) \in SUBSET Nat /\ IsFiniteSet(Items(ns))
        /\ Cardinality(Items(ns)) <= ListLimit
    BY CollectionType
  <2>2. /\ IsFiniteSet(shown) /\ Cardinality(shown) <= Cardinality(Items(ns))
        /\ Cardinality(shown) \in Nat /\ Cardinality(Items(ns)) \in Nat
    BY <2>1, FS_Subset, FS_CardinalityType
  <2> QED
    BY <2>1, <2>2, LimitAssumption
<1>2. answer' = Answer(tool, ns, arg, shown, more) /\ UNCHANGED <<now, objects, lines>>
  BY DEF Reply
<1>3. answer'.tool = tool /\ answer'.shown = shown
  BY <1>2 DEF Answer
<1> QED
  BY <1>1, <1>2, <1>3 DEF AnswerInv, TypeOK

LEMMA SilentListKeepsInv ==
  ASSUME AnswerInv, NEW tool \in SilentLists, NEW ns, SilentList(tool, ns)
  PROVE  AnswerInv'
<1>1. Reply(Answer(tool, ns, 0, Items(ns), FALSE)) /\ tool \in Tools \ {"get_pod_logs"}
  BY DEF SilentList, Tools, SilentLists
<1>2. (IsFiniteSet(DOMAIN objects) /\ TypeOK)'
  BY <1>1, ListIsTyped
<1>3. answer'.tool = tool /\ answer'.ns = ns /\ answer'.shown = Items(ns) /\ UNCHANGED objects
  BY <1>1 DEF Reply, Answer
<1>4. Items(ns)' = Items(ns)
  BY <1>3 DEF Items, In
<1>5. AnswersAreCurrent'
  BY <1>3, <1>4 DEF AnswersAreCurrent, SilentLists, MarkedLists, Items, In
<1> QED
  BY <1>2, <1>5 DEF AnswerInv

LEMMA MarkedListKeepsInv ==
  ASSUME AnswerInv, NEW tool \in MarkedLists, NEW ns, MarkedList(tool, ns)
  PROVE  AnswerInv'
<1>1. Reply(Answer(tool, ns, 0, Items(ns), Continue(ns))) /\ tool \in Tools \ {"get_pod_logs"}
  BY DEF MarkedList, Tools, MarkedLists
<1>2. (IsFiniteSet(DOMAIN objects) /\ TypeOK)'
  BY <1>1, ListIsTyped
<1>3. /\ answer'.tool = tool /\ answer'.ns = ns /\ answer'.shown = Items(ns)
      /\ answer'.more = Continue(ns) /\ UNCHANGED objects
  BY <1>1 DEF Reply, Answer
<1>4. AnswersAreCurrent'
  BY <1>3 DEF AnswersAreCurrent, SilentLists, MarkedLists, Items, In, Continue
<1> QED
  BY <1>2, <1>4 DEF AnswerInv

LEMMA EventsKeepInv ==
  ASSUME AnswerInv, NEW ns, HandleGetEvents(ns)
  PROVE  AnswerInv'
<1>1. PICK shown \in Latest(Items(ns)) : Reply(Answer("get_events", ns, 0, shown, FALSE))
  BY DEF HandleGetEvents
<1>2. shown \in SUBSET Items(ns)
  BY DEF Latest
<1>3. (IsFiniteSet(DOMAIN objects) /\ TypeOK)'
  BY <1>1, <1>2, ListIsTyped DEF Tools
<1>4. /\ answer'.tool = "get_events" /\ answer'.ns = ns /\ answer'.shown = shown
      /\ UNCHANGED objects
  BY <1>1 DEF Reply, Answer
<1>5. AnswersAreCurrent'
  BY <1>1, <1>4 DEF AnswersAreCurrent, SilentLists, MarkedLists, Items, In, Latest,
     LastTimestamp
<1> QED
  BY <1>3, <1>5 DEF AnswerInv

LEMMA DescribeKeepsInv ==
  ASSUME AnswerInv, NEW tool \in {"describe_pod", "describe_deployment", "get_resource_yaml"},
         NEW ns, NEW n \in Names, NEW known, Describe(tool, ns, n, known)
  PROVE  AnswerInv'
<1> DEFINE shown == IF known /\ Found(ns, n) THEN {n} ELSE {}
<1>1. answer' = Answer(tool, ns, n, shown, FALSE) /\ UNCHANGED <<now, objects, lines>>
  BY DEF Describe, Reply
<1>2. shown \subseteq Nat /\ Cardinality(shown) <= ListLimit
  <2>1. ListLimit \in Nat /\ 1 <= ListLimit /\ n \in Nat
    BY LimitAssumption
  <2>2. shown = {n} \/ shown = {}
    OBVIOUS
  <2>3. Cardinality({n}) = 1 /\ Cardinality({}) = 0
    BY FS_EmptySet, FS_Singleton
  <2> HIDE DEF shown
  <2> QED
    BY <2>1, <2>2, <2>3
<1> HIDE DEF shown
<1>3. answer'.tool = tool /\ answer'.shown = shown
  BY <1>1 DEF Answer
<1>4. TypeOK'
  BY <1>1, <1>2, <1>3 DEF AnswerInv, TypeOK, Tools
<1>5. AnswersAreCurrent'
  BY <1>3 DEF AnswersAreCurrent, SilentLists, MarkedLists
<1> QED
  BY <1>1, <1>4, <1>5 DEF AnswerInv

LEMMA LogsKeepInv ==
  ASSUME AnswerInv, NEW tail \in Tails, HandleGetPodLogs(tail)
  PROVE  AnswerInv'
<1> DEFINE stream == {l \in 1..lines : l > lines - tail}
<1>1. /\ answer' = Answer("get_pod_logs", AnyNamespace, tail, FirstOf(stream, LogCap), FALSE)
      /\ UNCHANGED <<now, objects, lines>>
  BY DEF HandleGetPodLogs, Reply, FirstOf
<1>2. lines \in Nat /\ LogCap \in Nat
  BY LimitAssumption DEF AnswerInv, TypeOK
<1>3. stream \in SUBSET (1..lines) /\ IsFiniteSet(1..lines)
  BY <1>2, FS_Interval
<1>4. stream \in SUBSET Nat /\ IsFiniteSet(stream)
  BY <1>2, <1>3, FS_Subset
<1>5. FirstOf(stream, LogCap) \subseteq Nat /\ Cardinality(FirstOf(stream, LogCap)) <= LogCap
  <2>1. FirstOf(stream, LogCap) \subseteq stream
    BY DEF FirstOf
  <2> QED
    BY <1>2, <1>4, <2>1, PageIsBounded
<1> HIDE DEF stream
<1>6. /\ answer'.tool = "get_pod_logs" /\ answer'.arg = tail
      /\ answer'.shown = FirstOf(stream, LogCap)
  BY <1>1 DEF Answer
<1>7. TypeOK'
  BY <1>1, <1>5, <1>6 DEF AnswerInv, TypeOK, Tools
<1>8. AnswersAreCurrent'
  BY <1>1, <1>6 DEF AnswersAreCurrent, SilentLists, MarkedLists, stream, FirstOf
<1> QED
  BY <1>1, <1>7, <1>8 DEF AnswerInv

LEMMA ClustersKeepInv ==
  ASSUME AnswerInv, NEW missing, HandleListClusters(missing)
  PROVE  AnswerInv'
<1> DEFINE shown == {n \in DOMAIN objects : NamespaceOf[n] # missing}
<1>1. /\ answer' = Answer("list_clusters", AnyNamespace, 0, shown, FALSE)
      /\ UNCHANGED <<now, objects, lines>>
  BY DEF HandleListClusters, Reply
<1>2. shown \subseteq Nat
  BY LimitAssumption DEF AnswerInv, TypeOK, IsMap
<1> HIDE DEF shown
<1>3. answer'.tool = "list_clusters" /\ answer'.shown = shown
  BY <1>1 DEF Answer
<1>4. TypeOK'
  BY <1>1, <1>2, <1>3 DEF AnswerInv, TypeOK, Tools
<1>5. AnswersAreCurrent'
  BY <1>3 DEF AnswersAreCurrent, SilentLists, MarkedLists
<1> QED
  BY <1>1, <1>4, <1>5 DEF AnswerInv

LEMMA SameAnswerSameCluster ==
  ASSUME AnswersAreCurrent, UNCHANGED <<objects, lines, answer>>
  PROVE  AnswersAreCurrent'
<1>1. \A ns : In(ns)' = In(ns)
  BY DEF In
<1>2. \A ns : Items(ns)' = Items(ns)
  BY <1>1 DEF Items
<1>3. \A ns : Continue(ns)' = Continue(ns)
  BY <1>1, <1>2 DEF Continue
<1>4. Latest(Items(answer.ns))' = Latest(Items(answer.ns))
  BY <1>2 DEF Latest, LastTimestamp
<1> QED
  BY <1>2, <1>3, <1>4 DEF AnswersAreCurrent

\* The cluster changes, and the answer is no longer one about it; or time passes,
\* or a handler fails.
LEMMA ClusterKeepsInv ==
  ASSUME AnswerInv,
         \/ \E n \in Names : Touch(n) \/ Vanish(n)
         \/ Log \/ Tick \/ Fails
  PROVE  AnswerInv'
<1>1. now \in Nat /\ lines \in Nat /\ IsMap(objects, Names, Nat) /\ IsFiniteSet(DOMAIN objects)
  BY DEF AnswerInv, TypeOK
<1>2. now' \in Nat /\ lines' \in Nat
  <2>1. CASE UNCHANGED <<now, lines>> \/ Log
    BY <1>1, <2>1 DEF Log
  <2>2. CASE Tick
    BY <1>1, <2>2 DEF Tick
  <2> QED
    BY <2>1, <2>2 DEF Touch, Vanish, Fails, Reply
<1>3. IsMap(objects', Names, Nat) /\ IsFiniteSet(DOMAIN objects')
  <2>1. ASSUME NEW n \in Names, Touch(n)
        PROVE  IsMap(objects', Names, Nat) /\ IsFiniteSet(DOMAIN objects')
    <3>1. DOMAIN Put(objects, n, now) = DOMAIN objects \cup {n}
      BY DEF Put
    <3> QED
      BY <1>1, <2>1, <3>1, PutType, FS_AddElement DEF Touch
  <2>2. ASSUME NEW n \in Names, Vanish(n)
        PROVE  IsMap(objects', Names, Nat) /\ IsFiniteSet(DOMAIN objects')
    <3>1. DOMAIN Without(objects, {n}) = DOMAIN objects \ {n}
      BY DEF Without, Restrict
    <3> QED
      BY <1>1, <2>2, <3>1, WithoutType, FS_RemoveElement DEF Vanish
  <2>3. CASE Log \/ Tick \/ Fails
    BY <1>1, <2>3 DEF Log, Tick, Fails, Reply
  <2> QED
    BY <2>1, <2>2, <2>3
<1>4. CASE answer' \in {NoAnswer, ErrorResult}
  <2>1. answer'.tool \in {"none", "error"}
    BY <1>4 DEF NoAnswer, ErrorResult
  <2>2. AnswersAreCurrent'
    BY <2>1 DEF AnswersAreCurrent, SilentLists, MarkedLists
  <2> QED
    BY <1>2, <1>3, <1>4, <2>2 DEF AnswerInv, TypeOK
<1>5. CASE Tick
  <2>1. UNCHANGED <<objects, lines, answer>>
    BY <1>5 DEF Tick
  <2> QED
    BY <1>2, <2>1, SameAnswerSameCluster DEF AnswerInv, TypeOK
<1> QED
  BY <1>4, <1>5 DEF Touch, Vanish, Log, Fails, Reply

\* Whatever tool is called on whatever cluster, the answer is of its kind.
THEOREM AnswerInvariance == Spec => []AnswerInv
<1>1. Init => AnswerInv
  <2> SUFFICES ASSUME Init PROVE AnswerInv
    OBVIOUS
  <2>1. IsMap(objects, Names, Nat) /\ IsFiniteSet(DOMAIN objects)
    BY EmptyMapType, FS_EmptySet DEF Init
  <2>2. answer.tool = "none"
    BY DEF Init, NoAnswer
  <2> QED
    BY <2>1, <2>2 DEF Init, AnswerInv, TypeOK, AnswersAreCurrent, SilentLists, MarkedLists
<1>2. AnswerInv /\ [Next]_vars => AnswerInv'
  <2> SUFFICES ASSUME AnswerInv, [Next]_vars PROVE AnswerInv'
    OBVIOUS
  <2>1. CASE (\E n \in Names : Touch(n) \/ Vanish(n)) \/ Log \/ Tick \/ Fails
    BY <2>1, ClusterKeepsInv
  <2>2. CASE ListTools
    <3>1. CASE HandleGetNodes \/ HandleListNamespaces \/ HandleListCRDs
      BY <3>1, SilentListKeepsInv, MarkedListKeepsInv
         DEF HandleGetNodes, HandleListNamespaces, HandleListCRDs, SilentLists, MarkedLists
    <3>2. ASSUME NEW ns \in Namespaces,
                 HandleListClusters(ns) \/ HandleListPods(ns) \/ HandleGetEvents(ns)
          PROVE  AnswerInv'
      BY <3>2, ClustersKeepInv, MarkedListKeepsInv, EventsKeepInv
         DEF HandleListPods, MarkedLists
    <3>3. ASSUME NEW ns \in Namespaces,
                 \/ HandleListDeployments(ns) \/ HandleListServices(ns)
                 \/ HandleListIngresses(ns) \/ HandleListJobs(ns) \/ HandleListHPA(ns)
                 \/ HandleListPVCs(ns) \/ HandleListConfigMaps(ns)
                 \/ HandleListStatefulSets(ns) \/ HandleListDaemonSets(ns)
                 \/ HandleGetCRDInstances(ns)
          PROVE  AnswerInv'
      <4>1. PICK tool \in SilentLists : SilentList(tool, ns)
        BY <3>3 DEF HandleListDeployments, HandleListServices, HandleListIngresses,
           HandleListJobs, HandleListHPA, HandleListPVCs, HandleListConfigMaps,
           HandleListStatefulSets, HandleListDaemonSets, HandleGetCRDInstances, SilentLists
      <4> QED
        BY <4>1, SilentListKeepsInv
    <3> QED
      BY <2>2, <3>1, <3>2, <3>3 DEF ListTools
  <2>3. CASE GetTools
    <3>1. ASSUME NEW ns \in Namespaces, NEW n \in Names,
                 \/ HandleDescribePod(ns, n) \/ HandleDescribeDeployment(ns, n)
                 \/ HandleGetResourceYAML(ns, n)
          PROVE  AnswerInv'
      BY <3>1, DescribeKeepsInv
         DEF HandleDescribePod, HandleDescribeDeployment, HandleGetResourceYAML
    <3> QED
      BY <2>3, <3>1, LogsKeepInv DEF GetTools
  <2>4. CASE UNCHANGED vars
    BY <2>4, SameAnswerSameCluster DEF vars, AnswerInv, TypeOK
  <2> QED
    BY <2>1, <2>2, <2>3, <2>4 DEF Next
<1> QED
  BY <1>1, <1>2, PTL DEF Spec

\* Every variable keeps its type, and no answer is longer than its limit.
THEOREM TypeCorrect == Spec => []TypeOK
<1>1. AnswerInv => TypeOK
  BY DEF AnswerInv
<1> QED
  BY <1>1, AnswerInvariance, PTL

\* A list is whole if the namespace asked for is within the limit.
THEOREM ListsAreWhole == Spec => []ListsAreWholeWithinTheLimit
<1>1. AnswerInv => ListsAreWholeWithinTheLimit
  BY WholeWithinTheLimit DEF AnswerInv, AnswersAreCurrent, ListsAreWholeWithinTheLimit
<1> QED
  BY <1>1, AnswerInvariance, PTL

\* Within the limit, no event with a LastTimestamp that is left out is later than
\* one that is shown, and those without give way to it.
THEOREM EventsAreRecent == Spec => []EventsAreRecentWithinTheLimit
<1>1. AnswerInv => EventsAreRecentWithinTheLimit
  <2> SUFFICES ASSUME AnswerInv, answer.tool = "get_events",
                      Cardinality(In(answer.ns)) <= ListLimit,
                      NEW e \in answer.shown, NEW f \in In(answer.ns) \ answer.shown,
                      f \notin Untimed
               PROVE  e \notin Untimed /\ objects[e] >= objects[f]
    BY DEF EventsAreRecentWithinTheLimit
  <2>1. answer.shown \in Latest(In(answer.ns))
    BY WholeWithinTheLimit DEF AnswerInv, AnswersAreCurrent
  <2>2. LastTimestamp(e) >= LastTimestamp(f)
    BY <2>1 DEF Latest
  <2>3. objects[f] \in Nat /\ LastTimestamp(f) = objects[f]
    BY DEF AnswerInv, TypeOK, IsMap, In, LastTimestamp
  <2>4. e \notin Untimed
    BY <2>2, <2>3 DEF LastTimestamp
  <2> QED
    BY <2>2, <2>3, <2>4 DEF LastTimestamp
<1> QED
  BY <1>1, AnswerInvariance, PTL

\* A tail that fits is shown to its end.
THEOREM LogsReachTheirEnd == Spec => []LogsReachTheEndWithinTheCap
<1>1. AnswerInv => LogsReachTheEndWithinTheCap
  <2> SUFFICES ASSUME AnswerInv, answer.tool = "get_pod_logs", answer.arg \in 1..LogCap,
                      lines > 0
               PROVE  lines \in answer.shown
    BY DEF LogsReachTheEndWithinTheCap
  <2> DEFINE stream == {l \in 1..lines : l > lines - answer.arg}
             before == {m \in stream : m < lines}
             first == lines - answer.arg + 1
  <2>1. lines \in Nat /\ LogCap \in Nat /\ answer.arg \in Nat
        /\ 1 <= answer.arg /\ answer.arg <= LogCap
    BY LimitAssumption DEF AnswerInv, TypeOK
  <2>2. lines \in stream
    BY <2>1
  <2>3. before \in SUBSET (first..(lines - 1))
    BY <2>1
  <2>4. /\ IsFiniteSet(first..(lines - 1))
        /\ Cardinality(first..(lines - 1)) = answer.arg - 1
    <3>1. /\ IsFiniteSet(first..(lines - 1))
          /\ Cardinality(first..(lines - 1)) =
               IF first > lines - 1 THEN 0 ELSE (lines - 1) - first + 1
      <4>1. first \in Int /\ lines - 1 \in Int
        BY <2>1
      <4> HIDE DEF first
      <4> QED
        BY <4>1, FS_Interval
    <3> QED
      BY <2>1, <3>1
  <2>5. Cardinality(before) <= answer.arg - 1 /\ Cardinality(before) \in Nat
    <3> HIDE DEF first, before
    <3>1. IsFiniteSet(before) /\ Cardinality(before) <= Cardinality(first..(lines - 1))
      BY <2>3, <2>4, FS_Subset
    <3> QED
      BY <2>4, <3>1, FS_CardinalityType
  <2>6. Cardinality(before) < LogCap
    BY <2>1, <2>5
  <2>7. answer.shown = {l \in stream : Cardinality({m \in stream : m < l}) < LogCap}
    BY DEF AnswerInv, AnswersAreCurrent
  <2> QED
    BY <2>2, <2>6, <2>7
<1> QED
  BY <1>1, AnswerInvariance, PTL
=============================================================================
