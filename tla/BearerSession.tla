---------------------------- MODULE BearerSession ----------------------------
(***************************************************************************)
(* What a bearer token promises: it is honoured from the login that made   *)
(* it for as long as the server runs and at most TTL, without a gap, and   *)
(* when that is over, never again.  A request that has been admitted may   *)
(* finish later than that.                                                 *)
(***************************************************************************)
EXTENDS Integers, GoMap

CONSTANTS Sessions, Callers, TTL

VARIABLES
  now,       \* the clock
  born,      \* session -> the time of its login, for every session ever made
  honoured,  \* the sessions whose bearer tokens are accepted
  admitted   \* caller -> the session its request was admitted under

bearerVars == <<now, born, honoured, admitted>>

BearerInit ==
  /\ now = 0
  /\ born = EmptyMap
  /\ honoured = {}
  /\ admitted = EmptyMap

Login(s) ==
  /\ s \notin DOMAIN born
  /\ born' = Put(born, s, now)
  /\ honoured' = honoured \cup {s}
  /\ UNCHANGED <<now, admitted>>

Admit(r, s) ==
  /\ s \in honoured /\ r \notin DOMAIN admitted
  /\ admitted' = Put(admitted, r, s)
  /\ UNCHANGED <<now, born, honoured>>

Finish(rs) ==
  /\ rs \subseteq DOMAIN admitted
  /\ admitted' = Without(admitted, rs)
  /\ UNCHANGED <<now, born, honoured>>

Advance ==
  /\ now' = now + 1
  /\ honoured' = {s \in honoured : now' - born[s] <= TTL}
  /\ UNCHANGED <<born, admitted>>

Crash ==
  /\ honoured' = {}
  /\ admitted' = EmptyMap
  /\ UNCHANGED <<now, born>>

BearerNext ==
  \/ \E s \in Sessions : Login(s) \/ \E r \in Callers : Admit(r, s)
  \/ \E rs \in SUBSET Callers : Finish(rs)
  \/ Advance
  \/ Crash

BearerSpec == BearerInit /\ [][BearerNext]_bearerVars
=============================================================================
