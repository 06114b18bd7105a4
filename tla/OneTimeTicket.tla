---------------------------- MODULE OneTimeTicket ----------------------------
(***************************************************************************)
(* What a one-time, time-limited secret promises its holder and its        *)
(* issuer.  The pending-authorization keys and the authorization codes of  *)
(* the session store are both meant to be such tickets: a ticket is issued *)
(* once, is redeemed at most once and never later than TTL after its       *)
(* issue, and a ticket that is no longer live never comes back.            *)
(***************************************************************************)
EXTENDS Integers, GoMap

CONSTANTS Tickets, TTL

VARIABLES
  now,       \* the clock
  born,      \* ticket -> the time it was issued, for every ticket ever issued
  live,      \* the tickets the issuer would still look at
  redeemed   \* the tickets that bought something

ticketVars == <<now, born, live, redeemed>>

TicketInit ==
  /\ now = 0
  /\ born = EmptyMap
  /\ live = {}
  /\ redeemed = {}

Issue(t) ==
  /\ t \notin DOMAIN born
  /\ born' = Put(born, t, now)
  /\ live' = live \cup {t}
  /\ UNCHANGED <<now, redeemed>>

Redeem(t) ==
  /\ t \in live
  /\ now - born[t] <= TTL
  /\ live' = live \ {t}
  /\ redeemed' = redeemed \cup {t}
  /\ UNCHANGED <<now, born>>

\* Tickets may be withdrawn for any other reason: spoiled by a refused
\* request, pruned, or forgotten in a restart.
Lapse(ts) ==
  /\ ts \subseteq live
  /\ live' = live \ ts
  /\ UNCHANGED <<now, born, redeemed>>

Advance ==
  /\ now' = now + 1
  /\ UNCHANGED <<born, live, redeemed>>

TicketNext ==
  \/ \E t \in Tickets : Issue(t) \/ Redeem(t)
  \/ \E ts \in SUBSET Tickets : Lapse(ts)
  \/ Advance

TicketSpec == TicketInit /\ [][TicketNext]_ticketVars
=============================================================================
