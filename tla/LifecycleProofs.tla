-------------------------- MODULE LifecycleProofs --------------------------
(* How the process ends, for every set of connections, every length of their   *)
(* handlers and every setting of the timeouts.                                 *)
EXTENDS Lifecycle, GoMapTheorems

\* What main has done by the time it is where it is.
MainInv ==
  /\ main # "stopping" => background = Goroutines
  /\ Signalled => serve # "listening"
  /\ main = "stopping" => DOMAIN conns = {}

\* What the ways to end the process say about where main was.
ExitInv ==
  /\ exit = "ok" => main = "stopping" /\ background = {}
  /\ exit = "forced" => main = "draining" /\ elapsed = Grace
  /\ exit = "failed" => serve = "failed"
  /\ exit = "killed" => main = "starting"

LifeInv == TypeOK /\ MainInv /\ ExitInv

-----------------------------------------------------------------------------
(* The steps *)

LEMMA NumberTypes ==
  /\ Grace \in Nat /\ HeaderTimeout \in Nat /\ IdleTimeout \in Nat
  /\ \A work \in Works \cup {Never} : work \in Nat \cup {Never}
BY SpanAssumption

LEMMA AfterResponseType ==
  ASSUME LifeInv, NEW c \in DOMAIN conns, conns' = AfterResponse(c)
  PROVE  IsMap(conns', Conns, Conn) /\ (DOMAIN conns = {} => DOMAIN conns' = {})
<1>1. c \in Conns
  BY DEF LifeInv, TypeOK, IsMap
<1>2. [state |-> "idle", left |-> IdleTimeout] \in Conn
  BY NumberTypes DEF Conn
<1> QED
  BY <1>1, <1>2, PutType, WithoutType DEF AfterResponse, LifeInv, TypeOK

\* Connections come and go while the process runs, and come no more after the
\* signal.
LEMMA ConnectionsKeepInv ==
  ASSUME LifeInv, Running, NEW c \in Conns,
         \/ Accept(c) \/ Respond(c) \/ Recover(c) \/ Close(c)
         \/ \E work \in Works \cup {Never} : Request(c, work)
  PROVE  LifeInv'
<1>1. UNCHANGED <<main, quit, serve, background, elapsed, exit>>
  BY DEF Accept, Respond, Recover, Close, Request
<1>2. IsMap(conns, Conns, Conn)
  BY DEF LifeInv, TypeOK
<1>3. IsMap(conns', Conns, Conn) /\ (main = "stopping" => DOMAIN conns' = {})
  <2>1. CASE Accept(c)
    <3>1. [state |-> "new", left |-> HeaderTimeout] \in Conn
      BY NumberTypes DEF Conn
    <3>2. main # "stopping"
      BY <2>1 DEF Accept, LifeInv, MainInv, Signalled
    <3> QED
      BY <1>2, <2>1, <3>1, <3>2, PutType DEF Accept
  <2>2. CASE Respond(c) \/ Recover(c)
    <3>1. c \in DOMAIN conns /\ conns' = AfterResponse(c)
      BY <2>2 DEF Respond, Recover, In
    <3> QED
      BY <3>1, AfterResponseType DEF LifeInv, MainInv
  <2>3. CASE Close(c)
    <3>1. conns' = Without(conns, {c}) /\ c \in DOMAIN conns
      BY <2>3 DEF Close
    <3> QED
      BY <1>2, <3>1, WithoutType DEF LifeInv, MainInv
  <2>4. ASSUME NEW work \in Works \cup {Never}, Request(c, work)
        PROVE  IsMap(conns', Conns, Conn) /\ (main = "stopping" => DOMAIN conns' = {})
    <3>1. [state |-> "active", left |-> work] \in Conn
      BY NumberTypes DEF Conn
    <3>2. /\ c \in DOMAIN conns
          /\ conns' = [conns EXCEPT ![c] = [state |-> "active", left |-> work]]
      BY <2>4 DEF Request, In
    <3> QED
      BY <1>2, <3>1, <3>2 DEF IsMap, LifeInv, MainInv
  <2> QED
    BY <2>1, <2>2, <2>3, <2>4
<1> QED
  BY <1>1, <1>3 DEF LifeInv, TypeOK, MainInv, ExitInv, Signalled

LEMMA MainKeepsInv ==
  ASSUME LifeInv, Running, Main
  PROVE  LifeInv'
<1> USE DEF LifeInv, TypeOK, MainInv, ExitInv, Running, Signalled
<1>1. CASE Notify
  BY <1>1 DEF Notify
<1>2. CASE StartShutdown
  BY <1>2 DEF StartShutdown, CloseListener
<1>3. CASE CloseIdleConns
  <2>1. /\ conns' = Without(conns, Idle)
        /\ main' = IF DOMAIN conns' = {} THEN "stopping" ELSE "draining"
        /\ main = "draining"
        /\ UNCHANGED <<quit, serve, background, elapsed, exit>>
    BY <1>3 DEF CloseIdleConns
  <2>2. IsMap(conns', Conns, Conn)
    BY <2>1, WithoutType
  <2> QED
    BY <2>1, <2>2
<1>4. CASE ForceExit
  BY <1>4, NumberTypes DEF ForceExit, GraceLeft
<1>5. ASSUME NEW g \in Goroutines, StopBackground(g)
      PROVE  LifeInv'
  BY <1>5 DEF StopBackground
<1>6. CASE Return
  BY <1>6 DEF Return
<1> QED
  BY <1>1, <1>2, <1>3, <1>4, <1>5, <1>6 DEF Main

\* Nothing that should have ended by now is still counted down.
LEMMA TickKeepsInv ==
  ASSUME LifeInv, Running, Tick
  PROVE  LifeInv'
<1>1. /\ UNCHANGED <<main, quit, serve, background, exit>>
      /\ conns' = [c \in DOMAIN conns |-> Older(conns[c])]
      /\ \A c \in DOMAIN conns : conns[c].left # 0
      /\ elapsed' = IF Signalled THEN elapsed + 1 ELSE 0
      /\ Signalled => elapsed < Grace
  BY DEF Tick, Left, GraceLeft
<1>2. elapsed' \in 0..Grace
  BY <1>1, NumberTypes DEF LifeInv, TypeOK
<1>3. ASSUME NEW c \in DOMAIN conns
      PROVE  Older(conns[c]) \in Conn
  <2>1. conns[c] \in Conn /\ conns[c].left # 0
    BY <1>1 DEF LifeInv, TypeOK, IsMap
  <2> QED
    BY <2>1 DEF Older, Conn, Never
<1>4. IsMap(conns', Conns, Conn) /\ DOMAIN conns' = DOMAIN conns
  BY <1>1, <1>3 DEF LifeInv, TypeOK, IsMap
<1> QED
  BY <1>1, <1>2, <1>4 DEF LifeInv, TypeOK, MainInv, ExitInv, Running, Signalled

\* Signals, failures of the listener and connections come in any order.
THEOREM LifeInvariance == Spec => []LifeInv
<1>1. Init => LifeInv
  <2> SUFFICES ASSUME Init PROVE LifeInv
    OBVIOUS
  <2>1. IsMap(conns, Conns, Conn)
    BY EmptyMapType DEF Init
  <2>2. 0 \in 0..Grace
    BY NumberTypes
  <2>3. TypeOK
    BY <2>1, <2>2 DEF Init, TypeOK
  <2> QED
    BY <2>3 DEF Init, LifeInv, MainInv, ExitInv, Signalled
<1>2. LifeInv /\ [Next]_vars => LifeInv'
  <2> SUFFICES ASSUME LifeInv, [Next]_vars PROVE LifeInv'
    OBVIOUS
  <2>1. CASE Running /\ (ListenerFails \/ ExitOnFailure)
    BY <2>1 DEF ListenerFails, ExitOnFailure, LifeInv, TypeOK, MainInv, ExitInv, Running, Signalled
  <2>2. CASE Running /\ Signal
    BY <2>2 DEF Signal, LifeInv, TypeOK, MainInv, ExitInv, Running, Signalled
  <2>3. CASE UNCHANGED vars
    BY <2>3 DEF vars, LifeInv, TypeOK, MainInv, ExitInv, Signalled
  <2> QED
    BY <2>1, <2>2, <2>3, ConnectionsKeepInv, MainKeepsInv, TickKeepsInv DEF Next
<1> QED
  BY <1>1, <1>2, PTL DEF Spec

\* Every variable keeps its type.
THEOREM TypeCorrect == Spec => []TypeOK
<1>1. LifeInv => TypeOK
  BY DEF LifeInv
<1> QED
  BY <1>1, LifeInvariance, PTL

\* No request is cut off before the grace period has passed, however many there
\* are and however long they run.
THEOREM GraceIsGiven == Spec => []RequestsGetTheirGrace
<1>1. LifeInv => RequestsGetTheirGrace
  <2> SUFFICES ASSUME LifeInv, ~Running, exit # "killed",
                      ~(exit = "failed" /\ serve = "failed"), NEW c \in In("active")
               PROVE  Left(c) = Never \/ Left(c) >= Grace - elapsed
    BY DEF RequestsGetTheirGrace
  <2>1. c \in DOMAIN conns /\ conns[c] \in Conn
    BY DEF In, LifeInv, TypeOK, IsMap
  <2>2. exit = "forced" /\ elapsed = Grace
    BY <2>1 DEF LifeInv, TypeOK, MainInv, ExitInv, Running
  <2>3. Grace - elapsed = 0
    BY <2>2, NumberTypes
  <2>4. Left(c) = Never \/ Left(c) \in Nat
    BY <2>1 DEF Left, Conn
  <2> QED
    BY <2>3, <2>4
<1> QED
  BY <1>1, LifeInvariance, PTL

\* A graceful end leaves nobody behind.
THEOREM CleanEnds == Spec => []GracefulIsClean
<1>1. LifeInv => GracefulIsClean
  BY DEF LifeInv, MainInv, ExitInv, GracefulIsClean, In
<1> QED
  BY <1>1, LifeInvariance, PTL

\* The background goroutines are there as long as anybody is served.
THEOREM BackgroundStays == Spec => []BackgroundOutlivesRequests
<1>1. LifeInv => BackgroundOutlivesRequests
  BY DEF LifeInv, MainInv, BackgroundOutlivesRequests, In
<1> QED
  BY <1>1, LifeInvariance, PTL
=============================================================================
