-------------------------------- MODULE GoMap --------------------------------
(***************************************************************************)
(* Go's built-in map: a function whose DOMAIN is the set of present keys.  *)
(* Every map of the program (sessions, pending, codes, clients, limiters,  *)
(* clusterCache) is one of these.                                          *)
(***************************************************************************)
EXTENDS Functions

\* make(map[K]V)
EmptyMap == [k \in {} |-> k]

\* m[k] = v
Put(m, k, v) == [x \in DOMAIN m \cup {k} |-> IF x = k THEN v ELSE m[x]]

\* delete(m, k) for every k in ks
Without(m, ks) == Restrict(m, DOMAIN m \ ks)

\* m is a map[K]V
IsMap(m, K, V) == DOMAIN m \subseteq K /\ \A k \in DOMAIN m : m[k] \in V
=============================================================================
