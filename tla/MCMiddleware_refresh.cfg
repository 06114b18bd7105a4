\* Two requests of one session, over two refreshes, one of whose answers may be lost,
\* its expiry and its return.
CONSTANTS
  SessionIds = {s1}
  Requests = {r1, r2}
  SessionTTL = 3
  TokenLife = 4
  RefreshBuffer = 2
  ReplyDelay = 1
  RequestSpan = 1
  MaxTime = 5
  MaxLosses = 1
SPECIFICATION FairSpec
INVARIANTS RequestInv TypeOK OneRefreshPerToken RefreshTokenIsCurrent TokensLiveWhileUsed
PROPERTIES SessionsAreHonoured ExpiredSessionsStayGone RequestsAreAnswered
