-------------------------- MODULE RateLimiterProofs --------------------------
(* The rate that the limiter lets an IP have, for every burst, interval and    *)
(* number of concurrent requests, over any number of prunings.                 *)
EXTENDS RateLimiter, GoMapTheorems, SequenceTheorems

\* Whoever is about to ask a limiter has the one that is in the map, and got it
\* less than AskSpan ago; so no pruned limiter is ever asked.
AskersHoldTheLimiter ==
  \A r \in DOMAIN asking :
    LET e == limiters[asking[r].ip] IN
    /\ asking[r].ip \in DOMAIN limiters
    /\ asking[r].limiter = e.limiter
    /\ asking[r].since <= e.lastSeen
    /\ now - asking[r].since <= AskSpan

\* Each IP has its own limiter, last charged at most AskSpan after it was seen.
LimitersAreApart ==
  /\ \A ip \in DOMAIN limiters :
       /\ limiters[ip].limiter \in 1..Len(bucket)
       /\ limiters[ip].lastSeen <= now
       /\ bucket[limiters[ip].limiter].last <= limiters[ip].lastSeen + AskSpan
       /\ bucket[limiters[ip].limiter].last <= now
  /\ \A ip, other \in DOMAIN limiters :
       limiters[ip].limiter = limiters[other].limiter => ip = other

\* What the requests from the i-th to the j-th cost.
Cost(i, j) == (j - i + 1) * Interval

\* What was let through from the i-th request on and what is left have been paid
\* for by one burst and the time since.
Paid(ip) ==
  \A i \in 1..Len(accepted[ip]) :
    /\ Cost(i, Len(accepted[ip])) + Holdings(ip) <= Full + (now - accepted[ip][i])
    /\ \A j \in i..Len(accepted[ip]) :
         Cost(i, j) <= Full + (accepted[ip][j] - accepted[ip][i])

LimiterInv == AskersHoldTheLimiter /\ LimitersAreApart /\ \A ip \in IPs : Paid(ip)

-----------------------------------------------------------------------------
(* Numbers *)

LEMMA FullType == Full \in Nat /\ Interval \in Nat /\ Interval > 0 /\ Interval <= Full
<1>1. Burst \in Nat /\ Burst >= 1 /\ Interval \in Nat /\ Interval >= 1
  BY LimitAssumption
<1>2. \A b, n \in Nat : b * n \in Nat
  OBVIOUS
<1>3. \A b, n \in Nat : b >= 1 => n <= b * n
  OBVIOUS
<1> QED
  BY <1>1, <1>2, <1>3 DEF Full

\* One more request costs one Interval.
LEMMA OneMore ==
  ASSUME NEW i \in Int, NEW j \in Int
  PROVE  /\ Cost(i, j) \in Int
         /\ Cost(i, j + 1) = Cost(i, j) + Interval
         /\ Cost(i, i) = Interval
<1> DEFINE k == j - i + 1
<1>1. /\ k \in Int /\ (j + 1) - i + 1 = k + 1 /\ i - i + 1 = 1
      /\ Interval \in Int
  BY LimitAssumption
<1> HIDE DEF k
<1>2. k * Interval \in Int /\ (k + 1) * Interval = k * Interval + Interval /\ 1 * Interval = Interval
  BY <1>1
<1>3. Cost(i, j) = k * Interval
  BY DEF Cost, k
<1>4. Cost(i, j + 1) = (k + 1) * Interval
  BY <1>1, Zenon DEF Cost
<1>5. Cost(i, i) = 1 * Interval
  BY <1>1, Zenon DEF Cost
<1> QED
  BY <1>2, <1>3, <1>4, <1>5, Zenon

LEMMA LevelType ==
  ASSUME now \in Nat, NEW b \in Bucket
  PROVE  /\ Level(b) \in Int /\ Level(b) <= Full
         /\ b.last <= now => Level(b) \in 0..Full /\ Level(b) >= b.level
         /\ b.level + (now - b.last) >= Full => Level(b) = Full
         /\ Level(b) <= b.level + (now - b.last)
BY FullType DEF Level, Bucket
-----------------------------------------------------------------------------
(* The steps *)

\* Types of what an IP in the map has.
LEMMA EntryTypes ==
  ASSUME TypeOK, LimitersAreApart, NEW ip \in DOMAIN limiters
  PROVE  /\ ip \in IPs
         /\ limiters[ip].limiter \in 1..Len(bucket) /\ limiters[ip].limiter \in Nat
         /\ limiters[ip].lastSeen \in Nat /\ limiters[ip].lastSeen <= now
         /\ bucket[limiters[ip].limiter] \in Bucket
         /\ bucket[limiters[ip].limiter].last \in Nat
         /\ bucket[limiters[ip].limiter].last <= limiters[ip].lastSeen + AskSpan
         /\ bucket[limiters[ip].limiter].last <= now
         /\ Holdings(ip) = Level(bucket[limiters[ip].limiter])
<1>1. ip \in IPs /\ limiters[ip] \in Entry
  BY DEF TypeOK, IsMap
<1>2. limiters[ip].limiter \in Nat /\ limiters[ip].lastSeen \in Nat
  BY <1>1 DEF Entry
<1>3. limiters[ip].limiter \in 1..Len(bucket) /\ bucket \in Seq(Bucket)
  BY DEF TypeOK, LimitersAreApart
<1>4. bucket[limiters[ip].limiter] \in Bucket
  BY <1>3
<1>5. bucket[limiters[ip].limiter].last \in Nat
  BY <1>4 DEF Bucket
<1> QED
  BY <1>1, <1>2, <1>3, <1>4, <1>5 DEF LimitersAreApart, Holdings

LEMMA HoldingsType ==
  ASSUME TypeOK, LimitersAreApart, NEW ip \in IPs
  PROVE  Holdings(ip) \in 0..Full
<1>1. CASE ip \in DOMAIN limiters
  BY <1>1, EntryTypes, LevelType DEF TypeOK
<1>2. CASE ip \notin DOMAIN limiters
  BY <1>2, FullType DEF Holdings
<1> QED
  BY <1>1, <1>2

LEMMA AcceptedTypes ==
  ASSUME TypeOK, NEW ip \in IPs
  PROVE  /\ accepted[ip] \in Seq(Nat) /\ Len(accepted[ip]) \in Nat /\ now \in Nat
         /\ \A i \in 1..Len(accepted[ip]) : accepted[ip][i] \in Nat
<1>1. accepted[ip] \in Seq(Nat) /\ now \in Nat
  BY DEF TypeOK
<1> QED
  BY <1>1

\* An IP that holds no more than before, or one unit more per unit of time, has
\* still paid for all it was let through.
LEMMA PaidKeeps ==
  ASSUME TypeOK, LimitersAreApart, NEW ip \in IPs, Paid(ip),
         accepted' = accepted, now' \in Nat, Holdings(ip)' \in Int,
         Holdings(ip)' - Holdings(ip) <= now' - now
  PROVE  Paid(ip)'
<1>1. Holdings(ip) \in Int /\ Holdings(ip)' \in Int /\ now \in Nat /\ now' \in Nat
  BY HoldingsType DEF TypeOK
<1>2. \A i \in 1..Len(accepted[ip]) :
        /\ accepted[ip][i] \in Int /\ Cost(i, Len(accepted[ip])) \in Int
  <2> SUFFICES ASSUME NEW i \in 1..Len(accepted[ip])
               PROVE  /\ accepted[ip][i] \in Int
                      /\ Cost(i, Len(accepted[ip])) \in Int
    OBVIOUS
  <2>1. i \in Int /\ Len(accepted[ip]) \in Int /\ accepted[ip][i] \in Int
    BY AcceptedTypes
  <2> QED
    BY <2>1, OneMore
<1>3. ASSUME NEW i \in 1..Len(accepted[ip])
      PROVE  Cost(i, Len(accepted[ip])) + Holdings(ip)'
               <= Full + (now' - accepted[ip][i])
  <2> DEFINE cost == Cost(i, Len(accepted[ip]))
             a == accepted[ip][i]
  <2>1. cost + Holdings(ip) <= Full + (now - a) /\ cost \in Int /\ a \in Int
    BY <1>2 DEF Paid
  <2> HIDE DEF cost, a
  <2>2. cost + Holdings(ip)' <= Full + (now' - a)
    BY <1>1, <2>1, FullType, SMTT(30)
  <2> QED
    BY <2>2 DEF cost, a
<1> QED
  BY <1>3 DEF Paid

LEMMA GetKeepsInv ==
  ASSUME TypeOK, LimiterInv, NEW r \in Requests, NEW ip \in IPs, Get(r, ip)
  PROVE  TypeOK' /\ LimiterInv' /\ \A x \in IPs : Holdings(x)' = Holdings(x)
<1> DEFINE known == ip \in DOMAIN limiters
           l == IF known THEN limiters[ip].limiter ELSE Len(bucket) + 1
           e == [limiter |-> l, lastSeen |-> now]
           a == [ip |-> ip, limiter |-> l, since |-> now]
<1>1. /\ r \notin DOMAIN asking /\ UNCHANGED <<now, accepted>>
      /\ bucket' = IF known THEN bucket ELSE Append(bucket, NewLimiter)
      /\ limiters' = Put(limiters, ip, e) /\ asking' = Put(asking, r, a)
  BY DEF Get
<1>2. /\ now \in Nat /\ bucket \in Seq(Bucket) /\ Len(bucket) \in Nat /\ AskSpan \in Nat
      /\ LimitersAreApart /\ AskersHoldTheLimiter
  BY LimitAssumption DEF TypeOK, LimiterInv
<1>3. NewLimiter \in Bucket /\ NewLimiter.level = Full /\ NewLimiter.last = now
  BY <1>2, FullType DEF NewLimiter, Bucket
<1>4. /\ bucket' \in Seq(Bucket) /\ Len(bucket') \in Nat /\ Len(bucket') >= Len(bucket)
      /\ \A n \in 1..Len(bucket) : bucket'[n] = bucket[n]
      /\ l \in 1..Len(bucket') /\ l \in Nat
      /\ known => bucket'[l] = bucket[l]
      /\ ~known => bucket'[l] = NewLimiter /\ l = Len(bucket) + 1
  <2>1. CASE known
    BY <1>1, <1>2, <2>1, EntryTypes
  <2>2. CASE ~known
    BY <1>1, <1>2, <1>3, <2>2, AppendProperties
  <2> QED
    BY <2>1, <2>2
<1>5. bucket'[l].last <= now + AskSpan /\ bucket'[l].last <= now
  <2>1. CASE known
    BY <1>2, <1>4, <2>1, EntryTypes
  <2>2. CASE ~known
    BY <1>2, <1>3, <1>4, <2>2
  <2> QED
    BY <2>1, <2>2
<1>6. \A x \in DOMAIN limiters : x # ip => limiters[x].limiter # l /\ limiters[x].limiter \in 1..Len(bucket)
  <2>1. CASE known
    BY <1>2, <2>1, EntryTypes DEF LimitersAreApart
  <2>2. CASE ~known
    BY <1>2, <1>4, <2>2, EntryTypes
  <2> QED
    BY <2>1, <2>2
<1>7. known => limiters[ip].limiter = l /\ Holdings(ip) = Level(bucket[l])
  BY <1>2, EntryTypes
<1>8. ~known => Holdings(ip) = Full
  BY DEF Holdings
<1> HIDE DEF l, known
<1>9. /\ e \in Entry /\ e.limiter = l /\ e.lastSeen = now
      /\ a \in Asking /\ a.ip = ip /\ a.limiter = l /\ a.since = now
  BY <1>2, <1>4 DEF Entry, Asking
<1> HIDE DEF e, a
<1>10. /\ DOMAIN limiters' = DOMAIN limiters \cup {ip} /\ limiters'[ip] = e
       /\ \A x \in DOMAIN limiters : x # ip => limiters'[x] = limiters[x]
       /\ DOMAIN asking' = DOMAIN asking \cup {r} /\ asking'[r] = a
       /\ \A q \in DOMAIN asking : asking'[q] = asking[q]
  BY <1>1 DEF Put
<1>11. TypeOK'
  BY <1>1, <1>4, <1>9, PutType DEF TypeOK
<1>12. LimitersAreApart'
  <2>1. ASSUME NEW x \in DOMAIN limiters'
        PROVE  /\ limiters'[x].limiter \in 1..Len(bucket')
               /\ limiters'[x].lastSeen <= now'
               /\ bucket'[limiters'[x].limiter].last <= limiters'[x].lastSeen + AskSpan
               /\ bucket'[limiters'[x].limiter].last <= now'
    <3>1. CASE x = ip
      BY <1>1, <1>2, <1>4, <1>5, <1>9, <1>10, <3>1
    <3>2. CASE x # ip
      BY <1>1, <1>2, <1>4, <1>10, <2>1, <3>2, EntryTypes
    <3> QED
      BY <3>1, <3>2
  <2>2. ASSUME NEW x \in DOMAIN limiters', NEW y \in DOMAIN limiters',
               limiters'[x].limiter = limiters'[y].limiter
        PROVE  x = y
    BY <1>2, <1>6, <1>9, <1>10, <2>2 DEF LimitersAreApart
  <2> QED
    BY <2>1, <2>2 DEF LimitersAreApart
<1>13. AskersHoldTheLimiter'
  <2> SUFFICES ASSUME NEW q \in DOMAIN asking'
               PROVE  /\ asking'[q].ip \in DOMAIN limiters'
                      /\ asking'[q].limiter = limiters'[asking'[q].ip].limiter
                      /\ asking'[q].since <= limiters'[asking'[q].ip].lastSeen
                      /\ now' - asking'[q].since <= AskSpan
    BY DEF AskersHoldTheLimiter
  <2>1. CASE q = r
    BY <1>1, <1>2, <1>9, <1>10, <2>1
  <2>2. CASE q # r /\ asking[q].ip # ip
    BY <1>1, <1>2, <1>10, <2>2 DEF AskersHoldTheLimiter
  <2>3. CASE q # r /\ asking[q].ip = ip
    <3>1. q \in DOMAIN asking /\ asking'[q] = asking[q] /\ asking[q] \in Asking
      BY <1>10, <2>3 DEF TypeOK, IsMap
    <3>2. known /\ asking[q].limiter = l /\ asking[q].since <= limiters[ip].lastSeen
      BY <1>2, <1>7, <2>3, <3>1 DEF AskersHoldTheLimiter, known
    <3>3. asking[q].since <= now
      BY <1>2, <3>1, <3>2, EntryTypes DEF Asking, known
    <3> QED
      BY <1>1, <1>2, <1>9, <1>10, <2>3, <3>1, <3>2, <3>3 DEF AskersHoldTheLimiter
  <2> QED
    BY <2>1, <2>2, <2>3
<1>14. ASSUME NEW x \in IPs
       PROVE  Paid(x)' /\ Holdings(x)' = Holdings(x)
  <2>1. Holdings(x)' = Holdings(x)
    <3>1. CASE x = ip /\ known
      BY <1>1, <1>4, <1>7, <1>9, <1>10, <3>1 DEF Holdings, Level
    <3>2. CASE x = ip /\ ~known
      <4>1. Level(NewLimiter) = Full
        BY <1>2, <1>3, FullType DEF Level
      <4> QED
        BY <1>1, <1>3, <1>4, <1>8, <1>9, <1>10, <3>2, <4>1 DEF Holdings, Level
    <3>3. CASE x # ip
      BY <1>1, <1>2, <1>4, <1>6, <1>10, <3>3 DEF Holdings, Level
    <3> QED
      BY <3>1, <3>2, <3>3
  <2>2. Holdings(x) \in Int
    BY <1>2, HoldingsType
  <2> QED
    BY <1>1, <1>2, <1>11, <1>12, <2>1, <2>2, PaidKeeps DEF LimiterInv
<1> QED
  BY <1>11, <1>12, <1>13, <1>14 DEF LimiterInv
\* A request of the IP is let through.
Grant(ip) ==
  /\ accepted' = [accepted EXCEPT ![ip] = Append(@, now)]
  /\ Holdings(ip) >= Interval /\ Holdings(ip)' = Holdings(ip) - Interval
  /\ \A x \in IPs : x # ip => Holdings(x)' = Holdings(x)

\* A request that is let through pays one Interval out of what its IP holds; one
\* that is refused pays nothing.
LEMMA AllowKeepsInv ==
  ASSUME TypeOK, LimiterInv, NEW r \in Requests, Allow(r)
  PROVE  /\ TypeOK' /\ LimiterInv' /\ UNCHANGED now
         /\ asking[r].ip \in IPs
         /\ \/ /\ UNCHANGED accepted /\ Holdings(asking[r].ip) < Interval
               /\ \A x \in IPs : Holdings(x)' = Holdings(x)
            \/ Grant(asking[r].ip)
<1>1. /\ r \in DOMAIN asking /\ asking[r] \in Asking /\ asking' = Without(asking, {r})
      /\ UNCHANGED <<now, limiters>>
  BY DEF Allow, TypeOK, IsMap
<1>2. PICK ip \in IPs : ip = asking[r].ip
  BY <1>1 DEF Asking
<1>3. PICK l \in Nat : l = asking[r].limiter
  BY <1>1 DEF Asking
<1>4. /\ LimitersAreApart /\ AskersHoldTheLimiter /\ now \in Nat /\ now' = now
      /\ IsMap(asking', Requests, Asking) /\ IsMap(limiters', IPs, Entry)
      /\ bucket \in Seq(Bucket) /\ accepted \in [IPs -> Seq(Nat)]
  BY <1>1, WithoutType DEF LimiterInv, TypeOK
<1>5. /\ ip \in DOMAIN limiters /\ l = limiters[ip].limiter
      /\ l \in 1..Len(bucket) /\ bucket[l] \in Bucket
      /\ bucket[l].last <= now /\ now <= limiters[ip].lastSeen + AskSpan
      /\ Holdings(ip) = Level(bucket[l])
  <2>1. /\ ip \in DOMAIN limiters /\ l = limiters[ip].limiter
        /\ asking[r].since <= limiters[ip].lastSeen /\ now - asking[r].since <= AskSpan
    BY <1>1, <1>2, <1>3, <1>4 DEF AskersHoldTheLimiter
  <2>2. asking[r].since \in Nat /\ limiters[ip].lastSeen \in Nat
    BY <1>1, <1>4, <2>1, EntryTypes DEF Asking
  <2> QED
    BY <1>4, <2>1, <2>2, EntryTypes, LimitAssumption
<1>6. /\ DOMAIN asking' \subseteq DOMAIN asking
      /\ \A q \in DOMAIN asking' : asking'[q] = asking[q]
  BY <1>1 DEF Without, Restrict
<1>7. AskersHoldTheLimiter'
  BY <1>1, <1>4, <1>6 DEF AskersHoldTheLimiter
<1>8. CASE ~(Level(bucket[l]) >= Interval) /\ UNCHANGED <<bucket, accepted>>
  <2>1. TypeOK'
    BY <1>1, <1>4, <1>8 DEF TypeOK
  <2>2. LimitersAreApart'
    BY <1>1, <1>4, <1>8 DEF LimitersAreApart
  <2>3. ASSUME NEW x \in IPs
        PROVE  Paid(x)' /\ Holdings(x)' = Holdings(x)
    BY <1>1, <1>8 DEF LimiterInv, Paid, Holdings, Level
  <2>4. Holdings(ip) < Interval
    <3>1. Level(bucket[l]) \in 0..Full
      BY <1>4, <1>5, LevelType
    <3> QED
      BY <1>5, <1>8, <3>1, FullType
  <2> QED
    BY <1>1, <1>2, <1>7, <1>8, <2>1, <2>2, <2>3, <2>4 DEF LimiterInv
<1>9. CASE Level(bucket[l]) >= Interval
  <2> DEFINE b == [level |-> Level(bucket[l]) - Interval, last |-> now]
  <2>1. /\ bucket' = [bucket EXCEPT ![l] = b]
        /\ accepted' = [accepted EXCEPT ![ip] = Append(@, now)]
    BY <1>2, <1>3, <1>9 DEF Allow
  <2>2. /\ Level(bucket[l]) \in 0..Full
        /\ b \in Bucket /\ b.level = Level(bucket[l]) - Interval /\ b.last = now
    <3>1. Level(bucket[l]) \in 0..Full
      BY <1>4, <1>5, LevelType
    <3>2. Level(bucket[l]) - Interval \in 0..Full
      BY <1>9, <3>1, FullType
    <3> QED
      BY <1>4, <3>1, <3>2 DEF Bucket
  <2> HIDE DEF b
  <2>3. /\ bucket' \in Seq(Bucket) /\ Len(bucket') = Len(bucket) /\ bucket'[l] = b
        /\ \A n \in 1..Len(bucket) : n # l => bucket'[n] = bucket[n]
    BY <1>4, <1>5, <2>1, <2>2
  <2>4. /\ accepted[ip] \in Seq(Nat) /\ Len(accepted[ip]) \in Nat
        /\ accepted'[ip] = Append(accepted[ip], now)
        /\ accepted' \in [IPs -> Seq(Nat)]
        /\ \A x \in IPs : x # ip => accepted'[x] = accepted[x]
    BY <1>4, <2>1, AppendProperties
  <2>5. TypeOK'
    BY <1>4, <2>3, <2>4 DEF TypeOK
  <2>6. LimitersAreApart'
    <3>1. ASSUME NEW x \in DOMAIN limiters'
          PROVE  /\ limiters'[x].limiter \in 1..Len(bucket')
                 /\ limiters'[x].lastSeen <= now'
                 /\ bucket'[limiters'[x].limiter].last <= limiters'[x].lastSeen + AskSpan
                 /\ bucket'[limiters'[x].limiter].last <= now'
      <4>1. CASE x = ip
        BY <1>1, <1>4, <1>5, <2>2, <2>3, <4>1, EntryTypes
      <4>2. CASE x # ip
        <5>1. x \in DOMAIN limiters /\ limiters[x].limiter # l
          BY <1>1, <1>4, <1>5, <3>1, <4>2 DEF LimitersAreApart
        <5> QED
          BY <1>1, <1>4, <2>3, <5>1, EntryTypes
      <4> QED
        BY <4>1, <4>2
    <3> QED
      BY <1>1, <1>4, <3>1 DEF LimitersAreApart
  <2>7. ASSUME NEW x \in IPs, x # ip
        PROVE  Paid(x)' /\ Holdings(x)' = Holdings(x)
    <3>1. Holdings(x)' = Holdings(x)
      <4>1. CASE x \in DOMAIN limiters
        <5>1. limiters[x].limiter # l /\ limiters[x].limiter \in 1..Len(bucket)
          BY <1>4, <1>5, <2>7, <4>1 DEF LimitersAreApart
        <5> QED
          BY <1>1, <2>3, <4>1, <5>1 DEF Holdings, Level
      <4>2. CASE x \notin DOMAIN limiters
        BY <1>1, <4>2 DEF Holdings
      <4> QED
        BY <4>1, <4>2
    <3> QED
      BY <1>1, <2>4, <2>7, <3>1 DEF LimiterInv, Paid
  <2>8. Paid(ip)' /\ Holdings(ip)' = Level(bucket[l]) - Interval
    <3> DEFINE n == Len(accepted[ip])
               a == accepted[ip]
               h == Level(bucket[l])
    <3>1. Holdings(ip)' = h - Interval
      <4>1. Holdings(ip)' = IF b.level + (now - b.last) > Full THEN Full
                            ELSE b.level + (now - b.last)
        BY <1>1, <1>4, <1>5, <2>3 DEF Holdings, Level
      <4>2. h \in 0..Full /\ b.level = h - Interval /\ b.last = now
        BY <2>2
      <4> HIDE DEF h
      <4> QED
        BY <1>4, <4>1, <4>2, FullType
    <3>2. /\ Len(accepted'[ip]) = n + 1 /\ accepted'[ip][n + 1] = now
          /\ \A i \in 1..n : accepted'[ip][i] = a[i]
      BY <1>4, <2>4, AppendProperties
    <3>3. /\ \A i \in 1..n : a[i] \in Nat
          /\ \A i \in 1..n : Cost(i, n) + h <= Full + (now - a[i])
          /\ \A i \in 1..n : \A j \in i..n : Cost(i, j) <= Full + (a[j] - a[i])
      BY <1>5, AcceptedTypes DEF LimiterInv, Paid
    <3>4. n \in Nat /\ h \in Int /\ h >= Interval /\ h <= Full /\ Full \in Nat /\ Interval \in Nat
          /\ Interval <= Full
      BY <1>9, <2>2, <2>4, FullType
    <3> HIDE DEF n, a, h
    <3>5. ASSUME NEW i \in 1..n + 1
          PROVE  /\ Cost(i, n + 1) + (h - Interval) <= Full + (now - accepted'[ip][i])
                 /\ Cost(i, n + 1) <= Full + (now - accepted'[ip][i])
      <4>1. CASE i = n + 1
        <5>1. Cost(i, n + 1) = Interval
          BY <3>4, <4>1, OneMore
        <5> QED
          BY <1>4, <3>2, <3>4, <4>1, <5>1
      <4>2. CASE i \in 1..n
        <5>1. /\ Cost(i, n) + h <= Full + (now - a[i])
              /\ a[i] \in Nat /\ accepted'[ip][i] = a[i]
          BY <3>2, <3>3, <4>2
        <5>2. Cost(i, n) \in Int /\ Cost(i, n + 1) = Cost(i, n) + Interval
          BY <3>4, OneMore
        <5> DEFINE c == Cost(i, n)
                   x == a[i]
        <5>3. /\ c \in Int /\ x \in Nat /\ c + h <= Full + (now - x)
              /\ Cost(i, n + 1) = c + Interval /\ accepted'[ip][i] = x
          BY <5>1, <5>2
        <5> HIDE DEF c, x
        <5>4. /\ c + Interval + (h - Interval) <= Full + (now - x)
              /\ c + Interval <= Full + (now - x)
          BY <1>4, <3>4, <5>3
        <5> QED
          BY <5>3, <5>4, Zenon
      <4> QED
        BY <3>4, <4>1, <4>2
    <3>6. ASSUME NEW i \in 1..n + 1, NEW j \in i..n + 1
          PROVE  Cost(i, j) <= Full + (accepted'[ip][j] - accepted'[ip][i])
      <4>1. CASE j = n + 1
        BY <3>2, <3>5, <4>1
      <4>2. CASE j # n + 1
        <5>1. i \in 1..n /\ j \in i..n /\ j \in 1..n
          BY <3>4, <4>2
        <5> QED
          BY <3>2, <3>3, <5>1
      <4> QED
        BY <4>1, <4>2
    <3>7. Paid(ip)'
      BY <1>4, <3>1, <3>2, <3>5, <3>6 DEF Paid
    <3> QED
      BY <3>1, <3>7 DEF h
  <2>9. Grant(ip)
    BY <1>5, <1>9, <2>1, <2>7, <2>8 DEF Grant
  <2> QED
    BY <1>2, <1>4, <1>7, <2>5, <2>6, <2>7, <2>8, <2>9 DEF LimiterInv
<1> QED
  BY <1>2, <1>3, <1>8, <1>9 DEF Allow
\* Whoever has been silent for so long that it is pruned would hold a full
\* limiter by now, and has no request on the way to it.
LEMMA PruneKeepsInv ==
  ASSUME TypeOK, LimiterInv, Prune
  PROVE  TypeOK' /\ LimiterInv' /\ \A x \in IPs : Holdings(x)' = Holdings(x)
<1>1. /\ UNCHANGED <<now, bucket, asking, accepted>>
      /\ limiters' = Without(limiters,
           {ip \in DOMAIN limiters : now - limiters[ip].lastSeen > IdleLimit})
  BY DEF Prune
<1>2. /\ DOMAIN limiters' \subseteq DOMAIN limiters
      /\ \A ip \in DOMAIN limiters' : limiters'[ip] = limiters[ip]
      /\ \A ip \in DOMAIN limiters \ DOMAIN limiters' : now - limiters[ip].lastSeen > IdleLimit
      /\ \A ip \in DOMAIN limiters' : ~(now - limiters[ip].lastSeen > IdleLimit)
  BY <1>1 DEF Without, Restrict
<1>3. LimitersAreApart /\ AskersHoldTheLimiter /\ now \in Nat /\ IsMap(asking, Requests, Asking)
  BY DEF LimiterInv, TypeOK
<1>4. TypeOK'
  BY <1>1, WithoutType DEF TypeOK
<1>5. LimitersAreApart'
  BY <1>1, <1>2, <1>3 DEF LimitersAreApart
<1>6. AskersHoldTheLimiter'
  <2> SUFFICES ASSUME NEW r \in DOMAIN asking
               PROVE  asking[r].ip \in DOMAIN limiters'
    BY <1>1, <1>2, <1>3 DEF AskersHoldTheLimiter
  <2> DEFINE ip == asking[r].ip
  <2>1. /\ ip \in DOMAIN limiters
        /\ asking[r].since <= limiters[ip].lastSeen /\ now - asking[r].since <= AskSpan
        /\ asking[r].since \in Nat
    BY <1>3 DEF AskersHoldTheLimiter, IsMap, Asking
  <2>2. limiters[ip].lastSeen \in Nat
    BY <1>3, <2>1, EntryTypes
  <2> HIDE DEF ip
  <2>3. AskSpan <= IdleLimit /\ AskSpan \in Nat /\ IdleLimit \in Nat
    <3>1. Full + AskSpan <= IdleLimit /\ AskSpan \in Nat /\ IdleLimit \in Nat
      BY LimitAssumption DEF Full
    <3> QED
      BY <3>1, FullType
  <2>4. ~(now - limiters[ip].lastSeen > IdleLimit)
    BY <1>3, <2>1, <2>2, <2>3
  <2> QED
    BY <1>2, <2>1, <2>4 DEF ip
<1>7. ASSUME NEW ip \in IPs
      PROVE  Paid(ip)' /\ Holdings(ip)' = Holdings(ip)
  <2>1. Holdings(ip)' = Holdings(ip)
    <3>1. CASE ip \notin DOMAIN limiters \/ ip \in DOMAIN limiters'
      BY <1>1, <1>2, <3>1 DEF Holdings, Level
    <3>2. CASE ip \in DOMAIN limiters \ DOMAIN limiters'
      <4> DEFINE b == bucket[limiters[ip].limiter]
                 seen == limiters[ip].lastSeen
      <4>1. /\ b \in Bucket /\ b.level \in Nat /\ b.last \in Nat /\ seen \in Nat
            /\ b.last <= seen + AskSpan /\ Holdings(ip) = Level(b)
        BY <1>3, <3>2, EntryTypes, FullType DEF Bucket
      <4>2. now - seen > IdleLimit
        BY <1>2, <3>2
      <4>3. Full + AskSpan <= IdleLimit /\ AskSpan \in Nat /\ IdleLimit \in Nat
        BY LimitAssumption DEF Full
      <4> HIDE DEF b, seen
      <4>4. b.level + (now - b.last) >= Full
        BY <1>3, <4>1, <4>2, <4>3, FullType
      <4>5. Holdings(ip) = Full
        BY <1>3, <4>1, <4>4, LevelType
      <4> QED
        BY <3>2, <4>5 DEF Holdings
    <3> QED
      BY <3>1, <3>2
  <2> QED
    BY <1>1, <2>1 DEF LimiterInv, Paid
<1> QED
  BY <1>4, <1>5, <1>6, <1>7 DEF LimiterInv

\* A limiter gains no more than the time that passes.
LEMMA TickKeepsInv ==
  ASSUME TypeOK, LimiterInv, Tick
  PROVE  /\ TypeOK' /\ LimiterInv'
         /\ \A x \in IPs :
              Holdings(x)' = IF Holdings(x) < Full THEN Holdings(x) + 1 ELSE Full
<1>1. /\ now' = now + 1 /\ UNCHANGED <<limiters, bucket, asking, accepted>>
      /\ \A r \in DOMAIN asking : now - asking[r].since < AskSpan
  BY DEF Tick
<1>2. LimitersAreApart /\ AskersHoldTheLimiter /\ now \in Nat /\ now' \in Nat
  BY <1>1 DEF LimiterInv, TypeOK
<1>3. TypeOK'
  BY <1>1, <1>2 DEF TypeOK
<1>4. LimitersAreApart'
  <2>1. \A ip \in DOMAIN limiters :
          /\ limiters[ip].lastSeen <= now + 1
          /\ bucket[limiters[ip].limiter].last <= now + 1
    BY <1>2, EntryTypes
  <2> QED
    BY <1>1, <1>2, <2>1 DEF LimitersAreApart
<1>5. AskersHoldTheLimiter'
  <2>1. \A r \in DOMAIN asking : now' - asking[r].since <= AskSpan
    <3> SUFFICES ASSUME NEW r \in DOMAIN asking
                 PROVE  now' - asking[r].since <= AskSpan
      OBVIOUS
    <3>1. asking[r].since \in Nat /\ now - asking[r].since < AskSpan
      BY <1>1 DEF TypeOK, IsMap, Asking
    <3> QED
      BY <1>1, <1>2, <3>1, LimitAssumption
  <2> QED
    BY <1>1, <1>2, <2>1 DEF AskersHoldTheLimiter
<1>6. ASSUME NEW ip \in IPs
      PROVE  /\ Paid(ip)'
             /\ Holdings(ip)' = IF Holdings(ip) < Full THEN Holdings(ip) + 1 ELSE Full
  <2>1. /\ Holdings(ip)' \in Int /\ Holdings(ip) \in Int /\ Holdings(ip)' <= Holdings(ip) + 1
        /\ Holdings(ip)' = IF Holdings(ip) < Full THEN Holdings(ip) + 1 ELSE Full
    <3>1. CASE ip \in DOMAIN limiters
      <4> DEFINE b == bucket[limiters[ip].limiter]
      <4>1. b \in Bucket /\ b.level \in Nat /\ b.last \in Nat /\ Holdings(ip) = Level(b)
        BY <1>2, <3>1, EntryTypes, FullType DEF Bucket
      <4>2. Holdings(ip)' = IF b.level + (now' - b.last) > Full THEN Full
                            ELSE b.level + (now' - b.last)
        BY <1>1, <3>1 DEF Holdings, Level
      <4>3. Holdings(ip) = IF b.level + (now - b.last) > Full THEN Full
                           ELSE b.level + (now - b.last)
        BY <4>1 DEF Level
      <4> HIDE DEF b
      <4> QED
        BY <1>1, <1>2, <4>1, <4>2, <4>3, FullType
    <3>2. CASE ip \notin DOMAIN limiters
      BY <1>1, <3>2, FullType DEF Holdings
    <3> QED
      BY <3>1, <3>2
  <2>2. Holdings(ip)' - Holdings(ip) <= now' - now
    BY <1>1, <1>2, <2>1
  <2> QED
    BY <1>1, <1>2, <2>1, <2>2, PaidKeeps DEF LimiterInv
<1> QED
  BY <1>3, <1>4, <1>5, <1>6 DEF LimiterInv

\* Whatever requests of whatever IPs come together, and whatever is pruned
\* between a request's look for its limiter and its question to it, every IP pays.
THEOREM LimiterInvariance == Spec => [](TypeOK /\ LimiterInv)
<1>1. Init => TypeOK /\ LimiterInv
  <2> SUFFICES ASSUME Init PROVE TypeOK /\ LimiterInv
    OBVIOUS
  <2>1. TypeOK
    BY EmptyMapType DEF Init, TypeOK
  <2>2. DOMAIN limiters = {} /\ DOMAIN asking = {} /\ \A ip \in IPs : Len(accepted[ip]) = 0
    BY EmptyMapType DEF Init
  <2> QED
    BY <2>1, <2>2 DEF LimiterInv, AskersHoldTheLimiter, LimitersAreApart, Paid
<1>2. TypeOK /\ LimiterInv /\ [Next]_vars => TypeOK' /\ LimiterInv'
  <2> SUFFICES ASSUME TypeOK, LimiterInv, [Next]_vars
               PROVE  TypeOK' /\ LimiterInv'
    OBVIOUS
  <2>1. CASE UNCHANGED vars
    BY <2>1 DEF vars, TypeOK, LimiterInv, AskersHoldTheLimiter, LimitersAreApart, Paid,
       Holdings, Level
  <2> QED
    BY <2>1, GetKeepsInv, AllowKeepsInv, PruneKeepsInv, TickKeepsInv DEF Next
<1> QED
  BY <1>1, <1>2, PTL DEF Spec

\* Every variable keeps its type.
THEOREM TypeCorrect == Spec => []TypeOK
BY LimiterInvariance, PTL

LEMMA QuotientBounds ==
  ASSUME NEW m \in Int, NEW d \in Int, NEW n \in Nat, n > 0, m * n <= d
  PROVE  m <= d \div n
<1>1. d \div n \in Int /\ d < n * (d \div n) + n
  OBVIOUS
<1> QED
  BY <1>1

\* In every stretch of time, however often its limiter is pruned meanwhile, an IP
\* gets no more than a burst and one request per interval through.
THEOREM RateBound == Spec => []RateIsBounded
<1>1. TypeOK /\ LimiterInv => RateIsBounded
  <2> SUFFICES ASSUME TypeOK, LimiterInv, NEW ip \in IPs,
                      NEW i \in 1..Len(accepted[ip]), NEW j \in 1..Len(accepted[ip]), i <= j
               PROVE  j - i + 1 <= Burst + (accepted[ip][j] - accepted[ip][i]) \div Interval
    BY DEF RateIsBounded
  <2> DEFINE d == accepted[ip][j] - accepted[ip][i]
             k == j - i + 1
  <2>1. Cost(i, j) <= Full + d
    <3>1. Len(accepted[ip]) \in Nat
      BY AcceptedTypes
    <3>2. j \in i..Len(accepted[ip])
      BY <3>1
    <3> QED
      BY <3>2 DEF LimiterInv, Paid
  <2>2. d \in Int /\ k \in Int /\ Burst \in Int /\ Interval \in Nat /\ Interval > 0
    <3>1. accepted[ip][i] \in Nat /\ accepted[ip][j] \in Nat /\ Len(accepted[ip]) \in Nat
      BY AcceptedTypes
    <3>2. d \in Int /\ k \in Int
      BY <3>1
    <3>3. Burst \in Int /\ Interval \in Nat /\ Interval > 0
      BY LimitAssumption
    <3> QED
      BY <3>2, <3>3
  <2>3. k * Interval <= Burst * Interval + d
    BY <2>1 DEF Cost, Full
  <2> HIDE DEF d, k
  <2>4. (k - Burst) * Interval <= d
    BY <2>2, <2>3
  <2>5. k - Burst \in Int /\ k - Burst <= d \div Interval /\ d \div Interval \in Int
    BY <2>2, <2>4, QuotientBounds
  <2>6. k <= Burst + d \div Interval
    BY <2>2, <2>5
  <2> QED
    BY <2>6 DEF d, k
<1> QED
  BY <1>1, LimiterInvariance, PTL
-----------------------------------------------------------------------------
(* Nobody is refused too early. *)

\* What the IP holds and what it has been let through make up a burst, and since
\* any request that was let through, at least the time that has passed.
Earned(ip) ==
  LET n == Len(accepted[ip]) IN
  /\ Holdings(ip) + Cost(1, n) >= Full
  /\ \A i \in 1..n :
       \/ Holdings(ip) + Cost(i + 1, n) >= Full
       \/ Holdings(ip) + Cost(i + 1, n) >= now - accepted[ip][i]

LEMMA CostIsPositive ==
  ASSUME NEW n \in Nat, NEW i \in 1..n + 1
  PROVE  Cost(i, n) \in Nat
<1>1. n - i + 1 \in Nat /\ Interval \in Nat
  BY LimitAssumption
<1>2. \A k, m \in Nat : k * m \in Nat
  OBVIOUS
<1> QED
  BY <1>1, <1>2 DEF Cost

\* Without a request let through, what is held grows with time, up to a burst.
LEMMA EarnedKeeps ==
  ASSUME TypeOK, LimiterInv, NEW ip \in IPs, Earned(ip), UNCHANGED accepted,
         \/ now' = now /\ Holdings(ip)' = Holdings(ip)
         \/ now' = now + 1 /\ (Holdings(ip)' = Full \/ Holdings(ip)' = Holdings(ip) + 1)
  PROVE  Earned(ip)'
<1> DEFINE n == Len(accepted[ip])
           h == Holdings(ip)
           g == Holdings(ip)'
<1>1. /\ n \in Nat /\ h \in Int /\ now \in Nat /\ g \in Int /\ Full \in Nat
      /\ \A i \in 1..n : accepted[ip][i] \in Nat
  BY AcceptedTypes, HoldingsType, FullType DEF LimiterInv
<1>2. Cost(1, n) \in Nat /\ \A i \in 1..n : Cost(i + 1, n) \in Nat
  <2>1. 1 \in 1..n + 1 /\ \A i \in 1..n : i + 1 \in 1..n + 1
    BY <1>1
  <2> QED
    BY <1>1, <2>1, CostIsPositive
<1>3. /\ h + Cost(1, n) >= Full
      /\ \A i \in 1..n : \/ h + Cost(i + 1, n) >= Full
                         \/ h + Cost(i + 1, n) >= now - accepted[ip][i]
  BY DEF Earned
<1>4. \/ now' = now /\ g = h
      \/ now' = now + 1 /\ (g = Full \/ g = h + 1)
  OBVIOUS
<1> HIDE DEF h, g, n
<1>5. g + Cost(1, n) >= Full
  <2> DEFINE c == Cost(1, n)
  <2>1. c \in Nat /\ h + c >= Full
    BY <1>2, <1>3
  <2> HIDE DEF c
  <2>2. g + c >= Full
    BY <1>1, <1>4, <2>1
  <2> QED
    BY <2>2 DEF c
<1>6. ASSUME NEW i \in 1..n
      PROVE  \/ g + Cost(i + 1, n) >= Full
             \/ g + Cost(i + 1, n) >= now' - accepted[ip][i]
  <2> DEFINE c == Cost(i + 1, n)
             a == accepted[ip][i]
  <2>1. c \in Nat /\ a \in Nat /\ (h + c >= Full \/ h + c >= now - a)
    BY <1>1, <1>2, <1>3
  <2> HIDE DEF c, a
  <2>2. g + c >= Full \/ g + c >= now' - a
    BY <1>1, <1>4, <2>1
  <2> QED
    BY <2>2 DEF c, a
<1> QED
  BY <1>5, <1>6 DEF Earned, n, g

LEMMA GrantKeepsEarned ==
  ASSUME TypeOK, LimiterInv, NEW ip \in IPs, Earned(ip), Grant(ip), UNCHANGED now
  PROVE  Earned(ip)'
<1> DEFINE n == Len(accepted[ip])
           h == Holdings(ip)
           b == accepted'[ip]
<1>1. /\ n \in Nat /\ h \in Int /\ now \in Nat /\ Full \in Nat
      /\ Interval \in Nat /\ Interval > 0 /\ Interval <= h
      /\ \A i \in 1..n : accepted[ip][i] \in Nat
  BY AcceptedTypes, HoldingsType, FullType DEF LimiterInv, Grant
<1>2. /\ Len(b) = n + 1 /\ b[n + 1] = now
      /\ \A i \in 1..n : b[i] = accepted[ip][i]
  BY AcceptedTypes, AppendProperties DEF TypeOK, Grant
<1>3. /\ h + Cost(1, n) >= Full
      /\ \A i \in 1..n : \/ h + Cost(i + 1, n) >= Full
                         \/ h + Cost(i + 1, n) >= now - accepted[ip][i]
  BY DEF Earned
<1>4. Holdings(ip)' = h - Interval
  BY DEF Grant
<1> HIDE DEF h, n, b
<1>5. h - Interval + Cost(1, n + 1) >= Full
  <2>1. Cost(1, n) \in Int /\ Cost(1, n + 1) = Cost(1, n) + Interval
    BY <1>1, OneMore
  <2> QED
    BY <1>1, <1>3, <2>1
<1>6. ASSUME NEW i \in 1..n + 1
      PROVE  \/ h - Interval + Cost(i + 1, n + 1) >= Full
             \/ h - Interval + Cost(i + 1, n + 1) >= now - b[i]
  <2>1. CASE i = n + 1
    <3>1. i + 1 \in 1..(n + 1) + 1 /\ n + 1 \in Nat
      BY <1>1, <2>1
    <3>2. Cost(i + 1, n + 1) \in Nat
      BY <3>1, CostIsPositive
    <3> QED
      BY <1>1, <1>2, <2>1, <3>2
  <2>2. CASE i \in 1..n
    <3> DEFINE c == Cost(i + 1, n)
               a == accepted[ip][i]
    <3>1. i + 1 \in Int /\ n \in Int
      BY <1>1
    <3>2. c \in Int /\ Cost(i + 1, n + 1) = c + Interval
      BY <3>1, OneMore
    <3>3. a \in Nat /\ b[i] = a /\ (h + c >= Full \/ h + c >= now - a)
      BY <1>1, <1>2, <1>3, <2>2
    <3> HIDE DEF c, a
    <3>4. h - Interval + (c + Interval) >= Full \/ h - Interval + (c + Interval) >= now - a
      BY <1>1, <3>2, <3>3
    <3> QED
      BY <3>2, <3>3, <3>4, Zenon
  <2> QED
    BY <1>1, <2>1, <2>2
<1> QED
  BY <1>2, <1>4, <1>5, <1>6 DEF Earned, b

\* An IP that is refused has been let through as often as the burst allows,
\* within the time that a burst takes to come back.
LEMMA RefusedHasSpent ==
  ASSUME TypeOK, LimiterInv, NEW ip \in IPs, Earned(ip), Holdings(ip) < Interval
  PROVE  LET a == accepted[ip]
         IN Len(a) >= Burst /\ now - a[Len(a) - Burst + 1] < Full
<1> DEFINE n == Len(accepted[ip])
           h == Holdings(ip)
           i == n - Burst + 1
<1>1. /\ n \in Nat /\ h \in Int /\ h >= 0 /\ h < Interval /\ now \in Nat
      /\ Burst \in Nat /\ Burst >= 1 /\ Interval \in Nat /\ Interval > 0
      /\ \A k \in 1..n : accepted[ip][k] \in Nat
  BY AcceptedTypes, HoldingsType, LimitAssumption DEF LimiterInv
<1>2. h + n * Interval >= Burst * Interval
  <2>1. n - 1 + 1 = n /\ h + Cost(1, n) >= Full
    BY <1>1 DEF Earned
  <2>2. Cost(1, n) = n * Interval
    BY <2>1 DEF Cost
  <2> QED
    BY <2>1, <2>2 DEF Full
<1>3. n >= Burst
  <2> SUFFICES ASSUME n + 1 <= Burst PROVE FALSE
    BY <1>1
  <2>1. (n + 1) * Interval <= Burst * Interval /\ (n + 1) * Interval = n * Interval + Interval
    <3> DEFINE d == Burst - (n + 1)
    <3> HIDE DEF n, h, i
    <3>1. d \in Nat /\ Burst = (n + 1) + d
      <4>1. n \in Int /\ Burst \in Int /\ n + 1 <= Burst
        BY <1>1
      <4> QED
        BY <4>1
    <3> HIDE DEF d
    <3>2. \A x, y \in Nat : x * y \in Nat
      OBVIOUS
    <3>3. d * Interval \in Nat
      BY <1>1, <3>1, <3>2
    <3>4. ((n + 1) + d) * Interval = (n + 1) * Interval + d * Interval
      BY <1>1, <3>1
    <3>5. (n + 1) * Interval = n * Interval + Interval /\ n * Interval \in Int
      BY <1>1
    <3>6. Burst * Interval = (n + 1) * Interval + d * Interval
      BY <3>1, <3>4, Zenon
    <3> QED
      BY <1>1, <3>3, <3>5, <3>6
  <2>2. n * Interval \in Int /\ Burst * Interval \in Int
    BY <1>1
  <2> QED
    BY <1>1, <1>2, <2>1, <2>2
<1>4. i \in 1..n
  BY <1>1, <1>3
<1>5. h + Cost(i + 1, n) < Full
  <2>1. n - (i + 1) + 1 = Burst - 1
    BY <1>1
  <2>2. Cost(i + 1, n) = (Burst - 1) * Interval
    BY <2>1, Zenon DEF Cost
  <2>3. /\ (Burst - 1) * Interval = Burst * Interval - Interval
        /\ Burst * Interval \in Int
    BY <1>1
  <2> DEFINE f == Burst * Interval
  <2>4. Cost(i + 1, n) = f - Interval /\ f \in Int
    BY <2>2, <2>3
  <2> HIDE DEF f
  <2>5. h + (f - Interval) < f
    BY <1>1, <2>4
  <2> QED
    BY <2>4, <2>5 DEF Full, f
<1>6. /\ \/ h + Cost(i + 1, n) >= Full
         \/ h + Cost(i + 1, n) >= now - accepted[ip][i]
      /\ Cost(i + 1, n) \in Int
  <2>1. i + 1 \in Int /\ n \in Int
    BY <1>1
  <2>2. Cost(i + 1, n) \in Int
    BY <2>1, OneMore
  <2>3. \/ h + Cost(i + 1, n) >= Full
        \/ h + Cost(i + 1, n) >= now - accepted[ip][i]
    <3> HIDE DEF i
    <3> QED
      BY <1>4 DEF Earned
  <2> QED
    BY <2>2, <2>3
<1>7. accepted[ip][i] \in Nat
  BY <1>1, <1>4
<1> HIDE DEF i, h
<1>8. now - accepted[ip][i] < Full
  BY <1>1, <1>5, <1>6, <1>7, FullType
<1> QED
  BY <1>3, <1>8 DEF i

\* What is earned stays earned.
THEOREM EarningsInvariance == Spec => []\A ip \in IPs : Earned(ip)
<1>1. Init => \A ip \in IPs : Earned(ip)
  <2> SUFFICES ASSUME Init, NEW ip \in IPs PROVE Earned(ip)
    OBVIOUS
  <2>1. Len(accepted[ip]) = 0 /\ Holdings(ip) = Full
    BY EmptyMapType DEF Init, Holdings
  <2>2. 1 \in 1..0 + 1 /\ 0 \in Nat
    OBVIOUS
  <2>3. Cost(1, 0) \in Nat
    BY <2>2, CostIsPositive
  <2> QED
    BY <2>1, <2>3, FullType DEF Earned
<1>2. TypeOK /\ LimiterInv /\ (\A ip \in IPs : Earned(ip)) /\ [Next]_vars
        => (\A ip \in IPs : Earned(ip))'
  <2> SUFFICES ASSUME TypeOK, LimiterInv, \A x \in IPs : Earned(x), [Next]_vars,
                      NEW ip \in IPs
               PROVE  Earned(ip)'
    OBVIOUS
  <2>1. ASSUME NEW r \in Requests, NEW x \in IPs, Get(r, x)
        PROVE  Earned(ip)'
    <3>1. now' = now /\ UNCHANGED accepted
      BY <2>1 DEF Get
    <3> QED
      BY <2>1, <3>1, GetKeepsInv, EarnedKeeps
  <2>2. ASSUME NEW r \in Requests, Allow(r)
        PROVE  Earned(ip)'
    <3>1. \/ UNCHANGED accepted /\ Holdings(ip)' = Holdings(ip)
          \/ Grant(ip)
          \/ accepted'[ip] = accepted[ip] /\ Holdings(ip)' = Holdings(ip)
      <4>1. /\ asking[r].ip \in IPs
            /\ \/ UNCHANGED accepted /\ Holdings(ip)' = Holdings(ip)
               \/ Grant(asking[r].ip)
        BY <2>2, AllowKeepsInv
      <4>2. Grant(asking[r].ip) /\ ip # asking[r].ip =>
              accepted'[ip] = accepted[ip] /\ Holdings(ip)' = Holdings(ip)
        BY DEF Grant
      <4> QED
        BY <4>1, <4>2
    <3>2. UNCHANGED now
      BY <2>2, AllowKeepsInv
    <3>3. CASE accepted'[ip] = accepted[ip] /\ Holdings(ip)' = Holdings(ip)
      BY <3>2, <3>3 DEF Earned
    <3> QED
      BY <3>1, <3>2, <3>3, GrantKeepsEarned
  <2>3. CASE Prune
    <3>1. now' = now /\ UNCHANGED accepted
      BY <2>3 DEF Prune
    <3> QED
      BY <2>3, <3>1, PruneKeepsInv, EarnedKeeps
  <2>4. CASE Tick
    <3>1. now' = now + 1 /\ UNCHANGED accepted
      BY <2>4 DEF Tick
    <3> QED
      BY <2>4, <3>1, TickKeepsInv, EarnedKeeps
  <2>5. CASE UNCHANGED vars
    BY <2>5 DEF vars, Earned, Holdings, Level
  <2> QED
    BY <2>1, <2>2, <2>3, <2>4, <2>5 DEF Next
<1> QED
  BY <1>1, <1>2, LimiterInvariance, PTL DEF Spec

\* However requests, prunings and time interleave, a 429 goes only to an IP that
\* has just had a whole burst.
THEOREM RefusalsAreEarned == Spec => RefusedOnlyWhenSpent
<1>1. TypeOK /\ LimiterInv /\ (\A ip \in IPs : Earned(ip)) /\ [Next]_vars =>
        [\A r \in Requests :
           Allow(r) /\ UNCHANGED accepted =>
             LET a == accepted[asking[r].ip]
             IN Len(a) >= Burst /\ now - a[Len(a) - Burst + 1] < Full]_vars
  <2> SUFFICES ASSUME TypeOK, LimiterInv, \A ip \in IPs : Earned(ip),
                      NEW r \in Requests, Allow(r), UNCHANGED accepted
               PROVE  LET a == accepted[asking[r].ip]
                      IN Len(a) >= Burst /\ now - a[Len(a) - Burst + 1] < Full
    OBVIOUS
  <2> DEFINE ip == asking[r].ip
  <2>1. ip \in IPs /\ (Holdings(ip) < Interval \/ Grant(ip))
    BY AllowKeepsInv
  <2>2. ~Grant(ip)
    <3>1. SUFFICES ASSUME Grant(ip) PROVE FALSE
      OBVIOUS
    <3>2. accepted'[ip] = Append(accepted[ip], now)
      BY <2>1, <3>1 DEF Grant, TypeOK
    <3>3. Len(Append(accepted[ip], now)) = Len(accepted[ip]) + 1 /\ Len(accepted[ip]) \in Nat
      BY <2>1, AcceptedTypes, AppendProperties
    <3> QED
      BY <3>2, <3>3
  <2> QED
    BY <2>1, <2>2, RefusedHasSpent
<1> QED
  BY <1>1, LimiterInvariance, EarningsInvariance, PTL DEF Spec, RefusedOnlyWhenSpent
-----------------------------------------------------------------------------
(* The limiters of the map, however often they are pruned and made anew, are   *)
(* the buckets that the IPs were promised.                                     *)

LEMMA IdealInit == Init => Ideal!BucketInit
<1> SUFFICES ASSUME Init PROVE Ideal!BucketInit
  OBVIOUS
<1>1. \A ip \in IPs : Holdings(ip) = Full
  BY EmptyMapType DEF Init, Holdings
<1> QED
  BY <1>1 DEF Init, Ideal!BucketInit, Ideal!Brim, Full

\* A request that is let through spends a token of its IP's bucket, time drips
\* into every bucket, and looking a limiter up or pruning it changes no bucket.
LEMMA IdealStep ==
  ASSUME TypeOK, LimiterInv, [Next]_vars
  PROVE  [Ideal!BucketNext]_Ideal!bucketVars
<1> DEFINE level == [ip \in IPs |-> Holdings(ip)]
           levelP == [ip \in IPs |-> Holdings(ip)']
<1>1. ASSUME UNCHANGED <<now, accepted>>, \A ip \in IPs : Holdings(ip)' = Holdings(ip)
      PROVE  UNCHANGED Ideal!bucketVars
  <2>1. levelP = level
    BY <1>1
  <2> QED
    BY <1>1, <2>1 DEF Ideal!bucketVars
<1>2. ASSUME NEW r \in Requests, NEW ip \in IPs, Get(r, ip)
      PROVE  UNCHANGED Ideal!bucketVars
  BY <1>1, <1>2, GetKeepsInv DEF Get
<1>3. ASSUME NEW r \in Requests, Allow(r)
      PROVE  Ideal!BucketNext \/ UNCHANGED Ideal!bucketVars
  <2>1. /\ UNCHANGED now /\ asking[r].ip \in IPs
        /\ \/ UNCHANGED accepted /\ \A x \in IPs : Holdings(x)' = Holdings(x)
           \/ Grant(asking[r].ip)
    BY <1>3, AllowKeepsInv
  <2>2. ASSUME NEW ip \in IPs, Grant(ip)
        PROVE  Ideal!Spend(ip)
    <3>1. levelP = [level EXCEPT ![ip] = @ - Interval]
      BY <2>2 DEF Grant
    <3>2. level[ip] >= Interval
      BY <2>2 DEF Grant
    <3> QED
      BY <2>1, <2>2, <3>1, <3>2 DEF Ideal!Spend, Grant
  <2>3. CASE Grant(asking[r].ip)
    BY <2>1, <2>2, <2>3 DEF Ideal!BucketNext
  <2> QED
    BY <1>1, <2>1, <2>3
<1>4. CASE Prune
  BY <1>1, <1>4, PruneKeepsInv DEF Prune
<1>5. CASE Tick
  <2>1. /\ now' = now + 1 /\ UNCHANGED accepted
        /\ \A x \in IPs : Holdings(x)' = IF Holdings(x) < Full THEN Holdings(x) + 1 ELSE Full
    BY <1>5, TickKeepsInv DEF Tick
  <2>2. levelP = [ip \in IPs |-> IF level[ip] < Full THEN level[ip] + 1 ELSE Full]
    BY <2>1
  <2> QED
    BY <2>1, <2>2 DEF Ideal!BucketNext, Ideal!Drip, Ideal!Brim, Full
<1>6. CASE UNCHANGED vars
  BY <1>1, <1>6 DEF vars, Holdings, Level
<1> QED
  BY <1>2, <1>3, <1>4, <1>5, <1>6 DEF Next

\* Through any sequence of look-ups, answers and prunings, an IP is served as from
\* one bucket that is kept forever.
THEOREM PruningIsNotSeen == Spec => PruningIsInvisible
<1>1. Init => Ideal!BucketInit
  BY IdealInit
<1>2. TypeOK /\ LimiterInv /\ [Next]_vars => [Ideal!BucketNext]_Ideal!bucketVars
  BY IdealStep
<1> QED
  BY <1>1, <1>2, LimiterInvariance, PTL DEF Spec, PruningIsInvisible, Ideal!BucketSpec
=============================================================================
