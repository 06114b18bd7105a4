----------------------------- MODULE Delegation -----------------------------
(***************************************************************************)
(* What the whole of the authentication promises, to a client and to the   *)
(* user who lets it act: a client asks under a fresh key, naming itself    *)
(* and a challenge; once at most, the key is granted, to that client and   *)
(* against that challenge; a grant is valid from then until TTL after the  *)
(* user's login, which was at most Claim earlier, or until the server      *)
(* restarts, without a gap and never again; and requests are admitted      *)
(* under valid grants only.                                                *)
(***************************************************************************)
EXTENDS Integers, GoMap

CONSTANTS Keys, Clients, Proofs, Callers, TTL, Claim

VARIABLES
  now,       \* the clock
  asked,     \* key -> the client that asked for it and the proof it must give
  granted,   \* what has been granted: the key, to whom, for what, and the login's time
  valid,     \* the keys whose grants are honoured
  admitted   \* caller -> the key its request was admitted under

delegationVars == <<now, asked, granted, valid, admitted>>

DelegationInit ==
  /\ now = 0
  /\ asked = EmptyMap
  /\ granted = {}
  /\ valid = {}
  /\ admitted = EmptyMap

Ask(k, c, p) ==
  /\ k \notin DOMAIN asked
  /\ asked' = Put(asked, k, [client |-> c, proof |-> p])
  /\ UNCHANGED <<now, granted, valid, admitted>>

Give(k, c, p, login) ==
  /\ k \in DOMAIN asked /\ asked[k] = [client |-> c, proof |-> p]
  /\ \A g \in granted : g.key # k
  /\ now - login <= Claim
  /\ granted' = granted \cup {[key |-> k, client |-> c, proof |-> p, login |-> login]}
  /\ valid' = valid \cup {k}
  /\ UNCHANGED <<now, asked, admitted>>

Admit(r, k) ==
  /\ k \in valid /\ r \notin DOMAIN admitted
  /\ admitted' = Put(admitted, r, k)
  /\ UNCHANGED <<now, asked, granted, valid>>

\* A request that has been admitted may finish at any time, even after its grant.
Finish(rs) ==
  /\ rs \subseteq DOMAIN admitted
  /\ admitted' = Without(admitted, rs)
  /\ UNCHANGED <<now, asked, granted, valid>>

Advance ==
  /\ now' = now + 1
  /\ valid' = {k \in valid : \E g \in granted : g.key = k /\ now' - g.login <= TTL}
  /\ UNCHANGED <<asked, granted, admitted>>

Crash ==
  /\ valid' = {}
  /\ admitted' = EmptyMap
  /\ UNCHANGED <<now, asked, granted>>

DelegationNext ==
  \/ \E k \in Keys, c \in Clients, p \in Proofs : Ask(k, c, p)
  \/ \E k \in Keys, c \in Clients, p \in Proofs, login \in 0..now : Give(k, c, p, login)
  \/ \E r \in Callers, k \in Keys : Admit(r, k)
  \/ \E rs \in SUBSET Callers : Finish(rs)
  \/ Advance
  \/ Crash

DelegationSpec == DelegationInit /\ [][DelegationNext]_delegationVars
=============================================================================
