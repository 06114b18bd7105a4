----------------------------- MODULE TokenBucket -----------------------------
(***************************************************************************)
(* What a rate limiter promises every IP: a bucket of Burst tokens that is *)
(* full at the start, gains a token per Interval and loses one with every  *)
(* request that it lets through, forever.  A bucket is never replaced and  *)
(* never forgotten.  Its level is counted in units of time, so that one    *)
(* token is a level of Interval.                                           *)
(***************************************************************************)
EXTENDS Integers, Sequences

CONSTANTS IPs, Burst, Interval

VARIABLES
  now,       \* the clock
  level,     \* ip -> what its bucket holds
  accepted   \* ip -> the times at which requests were let through

bucketVars == <<now, level, accepted>>

Brim == Burst * Interval

BucketInit ==
  /\ now = 0
  /\ level = [ip \in IPs |-> Brim]
  /\ accepted = [ip \in IPs |-> <<>>]

\* A request that is refused changes nothing.
Spend(ip) ==
  /\ level[ip] >= Interval
  /\ level' = [level EXCEPT ![ip] = @ - Interval]
  /\ accepted' = [accepted EXCEPT ![ip] = Append(@, now)]
  /\ UNCHANGED now

Drip ==
  /\ now' = now + 1
  /\ level' = [ip \in IPs |-> IF level[ip] < Brim THEN level[ip] + 1 ELSE Brim]
  /\ UNCHANGED accepted

BucketNext == Drip \/ \E ip \in IPs : Spend(ip)

BucketSpec == BucketInit /\ [][BucketNext]_bucketVars
=============================================================================
