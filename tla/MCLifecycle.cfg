\* Three connections, with handlers that end within the grace period, with it, after
\* it, and never.  The process really stops.
CONSTANTS
  Conns = {c1, c2, c3}
  Works = {0, 2, 3, 4}
  Grace = 3
  HeaderTimeout = 3
  IdleTimeout = 4
  NewSpan = 1
SPECIFICATION FairSpec
INVARIANTS TypeOK RequestsGetTheirGrace GracefulIsClean BackgroundOutlivesRequests
PROPERTIES EndsAfterSignal
CHECK_DEADLOCK FALSE
