--------------------------- MODULE GoMapTheorems ---------------------------
(* What the operations on Go maps preserve. *)
EXTENDS GoMap, TLAPS

\* Storing a value of the map's type keeps the map's type.
LEMMA PutType ==
  ASSUME NEW m, NEW K, NEW V, IsMap(m, K, V), NEW k \in K, NEW v \in V
  PROVE  IsMap(Put(m, k, v), K, V)
BY DEF IsMap, Put

\* Deleting entries keeps the map's type.
LEMMA WithoutType ==
  ASSUME NEW m, NEW K, NEW V, IsMap(m, K, V), NEW ks
  PROVE  IsMap(Without(m, ks), K, V)
BY DEF IsMap, Without, Restrict

\* A new map is a map of every type, and has no keys.
LEMMA EmptyMapType ==
  /\ DOMAIN EmptyMap = {}
  /\ \A K, V : IsMap(EmptyMap, K, V)
BY DEF IsMap, EmptyMap
=============================================================================
