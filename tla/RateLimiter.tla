----------------------------- MODULE RateLimiter -----------------------------
(***************************************************************************)
(* The per-IP rate limiter of internal/auth/ratelimit.go.  A request looks *)
(* its IP's limiter up under the map's mutex and asks it after the mutex   *)
(* is released; a goroutine prunes limiters that have not been looked up   *)
(* for IdleLimit.  A limiter (golang.org/x/time/rate) is a bucket of Burst *)
(* tokens that gains one per Interval; its level is counted here in units  *)
(* of time, so that one token is a level of Interval.                      *)
(***************************************************************************)
EXTENDS Integers, Sequences, GoMap

CONSTANTS
  IPs, Requests,
  Burst,       \* 5 requests
  Interval,    \* 6 seconds
  IdleLimit,   \* 10 minutes
  AskSpan,     \* longest time between get and Allow
  MaxTime      \* bound on the clock

\* A limiter that nobody has looked up for IdleLimit is full again, even if the
\* last request to look it up was slow to ask it.
ASSUME LimitAssumption ==
  /\ Burst \in Nat \ {0} /\ Interval \in Nat \ {0}
  /\ IdleLimit \in Nat /\ AskSpan \in Nat /\ MaxTime \in Nat
  /\ Burst * Interval + AskSpan <= IdleLimit

VARIABLES
  now,        \* time.Now()
  limiters,   \* ipLimiter.limiters: ip -> the number of its limiter and lastSeen
  bucket,     \* limiter -> its level when it last granted a token, and that time
  asking,     \* requests between get and Allow: the limiter each has in hand
  accepted    \* ip -> the times at which requests were let through

vars == <<now, limiters, bucket, asking, accepted>>

Full == Burst * Interval

Entry == [limiter : Nat, lastSeen : Nat]
Bucket == [level : 0..Full, last : Nat]
Asking == [ip : IPs, limiter : Nat, since : Nat]

TypeOK ==
  /\ now \in Nat
  /\ IsMap(limiters, IPs, Entry)
  /\ bucket \in Seq(Bucket)
  /\ IsMap(asking, Requests, Asking)
  /\ accepted \in [IPs -> Seq(Nat)]

Init ==
  /\ now = 0
  /\ limiters = EmptyMap /\ bucket = <<>> /\ asking = EmptyMap
  /\ accepted = [ip \in IPs |-> <<>>]

\* rate.NewLimiter: full from the start.
EmptyLimiter == [level |-> 0, last |-> now]            \* faulty

GenerousLimiter == [level |-> Full + Interval, last |-> now]  \* faulty: a burst too many

NewLimiter == [level |-> Full, last |-> now]

\* get: the limiter of the IP, made on its first request, and seen just now.
Get(r, ip) ==
  /\ r \notin DOMAIN asking
  /\ LET known == ip \in DOMAIN limiters
         l == IF known THEN limiters[ip].limiter ELSE Len(bucket) + 1
     IN /\ bucket' = IF known THEN bucket ELSE Append(bucket, NewLimiter)
        /\ limiters' = Put(limiters, ip, [limiter |-> l, lastSeen |-> now])
        /\ asking' = Put(asking, r, [ip |-> ip, limiter |-> l, since |-> now])
  /\ UNCHANGED <<now, accepted>>

\* Limiter.advance: what the bucket holds by now.
Level(b) == IF b.level + (now - b.last) > Full THEN Full ELSE b.level + (now - b.last)

\* Limiter.Allow, then the handler or a 429.
Allow(r) ==
  /\ r \in DOMAIN asking
  /\ LET l == asking[r].limiter
         ip == asking[r].ip
     IN IF Level(bucket[l]) >= Interval
        THEN /\ bucket' = [bucket EXCEPT ![l] =
                  [level |-> Level(bucket[l]) - Interval, last |-> now]]
             /\ accepted' = [accepted EXCEPT ![ip] = Append(@, now)]
        ELSE UNCHANGED <<bucket, accepted>>
  /\ asking' = Without(asking, {r})
  /\ UNCHANGED <<now, limiters>>

\* The pruning goroutine, on any of its ticks.
PruneAll ==                                            \* faulty: busy ones too
  /\ limiters' = EmptyMap
  /\ UNCHANGED <<now, bucket, asking, accepted>>

Prune ==
  /\ limiters' = Without(limiters,
       {ip \in DOMAIN limiters : now - limiters[ip].lastSeen > IdleLimit})
  /\ UNCHANGED <<now, bucket, asking, accepted>>

Tick ==
  /\ now < MaxTime
  /\ \A r \in DOMAIN asking : now - asking[r].since < AskSpan
  /\ now' = now + 1
  /\ UNCHANGED <<limiters, bucket, asking, accepted>>

Next ==
  \/ \E r \in Requests, ip \in IPs : Get(r, ip)
  \/ \E r \in Requests : Allow(r)
  \/ Prune
  \/ Tick

Spec == Init /\ [][Next]_vars

-----------------------------------------------------------------------------
(* Properties *)

\* "10 requests per minute, burst of 5" (get): in any stretch of time an IP
\* gets at most Burst requests through and one more per Interval, although
\* pruning gives it a new, full limiter now and then.
RateIsBounded ==
  \A ip \in IPs : \A i, j \in 1..Len(accepted[ip]) :
    i <= j =>
      j - i + 1 <= Burst + (accepted[ip][j] - accepted[ip][i]) \div Interval

\* A request is refused only if its IP has had a whole burst let through in
\* the time that the bucket takes to fill (get, Allow).
RefusedOnlyWhenSpent ==
  [][\A r \in Requests :
       Allow(r) /\ UNCHANGED accepted =>
         LET a == accepted[asking[r].ip]
         IN Len(a) >= Burst /\ now - a[Len(a) - Burst + 1] < Full]_vars

\* What the IP may spend at once: all of a new limiter, if it has none (get).
Holdings(ip) ==
  IF ip \in DOMAIN limiters THEN Level(bucket[limiters[ip].limiter]) ELSE Full

Ideal == INSTANCE TokenBucket WITH level <- [ip \in IPs |-> Holdings(ip)]

\* No IP can tell that limiters are pruned and made anew (newIPLimiter, get):
\* it is served as from one token bucket of its own, kept forever.
PruningIsInvisible == Ideal!BucketSpec
=============================================================================
