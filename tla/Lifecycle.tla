------------------------------ MODULE Lifecycle ------------------------------
(***************************************************************************)
(* The life of the server process: main of cmd/server/main.go with the     *)
(* goroutine that runs ListenAndServe, the connections of net/http and the *)
(* two background goroutines.  A connection is new until its first byte,   *)
(* active while a handler runs, and idle between requests.  Time is kept   *)
(* in countdowns: how long a handler will still run, how long a silent     *)
(* connection is still kept, how much of the grace period has passed.      *)
(*                                                                         *)
(* Shutdown, as net/http implements it, closes the listener, then closes   *)
(* idle connections again and again until none is left or its context is   *)
(* done.  A connection accepted before that may still deliver a request.   *)
(***************************************************************************)
EXTENDS Integers, GoMap

CONSTANTS
  Conns,
  Works,          \* how long handlers run that end by themselves
  Grace,          \* 15 seconds (the context of Shutdown)
  HeaderTimeout,  \* 10 seconds (ReadHeaderTimeout)
  IdleTimeout,    \* 120 seconds (IdleTimeout)
  NewSpan         \* 5 seconds: what Shutdown grants a connection without a byte

ASSUME SpanAssumption ==
  /\ Works \subseteq Nat
  /\ Grace \in Nat \ {0} /\ IdleTimeout \in Nat \ {0}
  /\ NewSpan \in Nat /\ HeaderTimeout \in Nat /\ NewSpan < HeaderTimeout

VARIABLES
  main,        \* where main is
  quit,        \* the channel of signals, of capacity one, holds a signal
  serve,       \* the listener: open, failed, or closed by Shutdown
  conns,       \* connection -> its state and countdown
  background,  \* the cleanup and pruning goroutines that still run
  elapsed,     \* time since main took a signal out of quit
  exit         \* how the process ended

vars == <<main, quit, serve, conns, background, elapsed, exit>>

\* An SSE stream, or a call to Google, which has no timeout either.
Never == -1

Goroutines == {"cleanup", "prune"}

Conn == [state : {"new", "active", "idle"}, left : Nat \cup {Never}]

TypeOK ==
  /\ main \in {"starting", "waiting", "draining", "stopping"}
  /\ quit \in BOOLEAN
  /\ serve \in {"listening", "failed", "closed"}
  /\ IsMap(conns, Conns, Conn)
  /\ background \subseteq Goroutines
  /\ elapsed \in 0..Grace
  /\ exit \in {"running", "ok", "forced", "failed", "killed"}

Running == exit = "running"
Signalled == main \in {"draining", "stopping"}
In(state) == {c \in DOMAIN conns : conns[c].state = state}
Left(c) == conns[c].left

\* StartCleanup, NewRateLimitMiddleware and the goroutine of ListenAndServe
\* are all started before main asks for signals.
Init ==
  /\ main = "starting"
  /\ quit = FALSE
  /\ serve = "listening"
  /\ conns = EmptyMap
  /\ background = Goroutines
  /\ elapsed = 0
  /\ exit = "running"

-----------------------------------------------------------------------------
(* Connections: external, as net/http handles them under the timeouts given *)

Accept(c) ==
  /\ serve = "listening" /\ c \notin DOMAIN conns
  /\ conns' = Put(conns, c, [state |-> "new", left |-> HeaderTimeout])
  /\ UNCHANGED <<main, quit, serve, background, elapsed, exit>>

\* A request arrives and its handler starts, also during a shutdown.
Request(c, work) ==
  /\ c \in In("new") \cup In("idle")
  /\ conns' = [conns EXCEPT ![c] = [state |-> "active", left |-> work]]
  /\ UNCHANGED <<main, quit, serve, background, elapsed, exit>>

\* What becomes of a connection after its response: keep-alive ends when
\* Shutdown begins.
AfterResponse(c) ==
  IF Signalled THEN Without(conns, {c})
  ELSE Put(conns, c, [state |-> "idle", left |-> IdleTimeout])

\* The handler returns.
Respond(c) ==
  /\ c \in In("active") /\ Left(c) = 0
  /\ conns' = AfterResponse(c)
  /\ UNCHANGED <<main, quit, serve, background, elapsed, exit>>

\* recoverMiddleware: a handler that panics is answered with 500, and neither
\* the process nor its connection notices.
Recover(c) ==
  /\ c \in In("active")
  /\ conns' = AfterResponse(c)
  /\ UNCHANGED <<main, quit, serve, background, elapsed, exit>>

\* The peer goes away, and with it a handler that heeds its request's context;
\* or one of the server's two timeouts on silence passes.
Close(c) ==
  /\ c \in DOMAIN conns
  /\ conns' = Without(conns, {c})
  /\ UNCHANGED <<main, quit, serve, background, elapsed, exit>>

-----------------------------------------------------------------------------
(* The goroutine of ListenAndServe *)

\* The listener fails, and ListenAndServe returns the error.  Once Shutdown has
\* begun, what it returns is ErrServerClosed.
ListenerFails ==
  /\ serve = "listening"
  /\ serve' = "failed"
  /\ UNCHANGED <<main, quit, conns, background, elapsed, exit>>

ExitOnAnyError ==                      \* faulty: ErrServerClosed is an error too
  /\ serve # "listening"
  /\ exit' = "failed"
  /\ UNCHANGED <<main, quit, serve, conns, background, elapsed>>

\* The goroutine has seen an error other than ErrServerClosed.  Main may have
\* begun a shutdown since.
ExitOnFailure ==
  /\ serve = "failed"
  /\ exit' = "failed"
  /\ UNCHANGED <<main, quit, serve, conns, background, elapsed>>

-----------------------------------------------------------------------------
(* Signals and main *)

\* SIGTERM or SIGINT: fatal before signal.Notify, then one is kept in quit and
\* the others are dropped.
Signal ==
  /\ IF main = "starting"
     THEN exit' = "killed" /\ UNCHANGED quit
     ELSE quit' = TRUE /\ UNCHANGED exit
  /\ UNCHANGED <<main, serve, conns, background, elapsed>>

Notify ==
  /\ main = "starting"
  /\ main' = "waiting"
  /\ UNCHANGED <<quit, serve, conns, background, elapsed, exit>>

CloseListener == serve' = IF serve = "failed" THEN "failed" ELSE "closed"

\* <-quit, and the beginning of Shutdown, which closes the listener.
StopBackgroundFirst ==                 \* faulty: the order of main's last steps
  /\ main = "waiting" /\ quit
  /\ main' = "draining"
  /\ quit' = FALSE
  /\ CloseListener
  /\ background' = {}
  /\ UNCHANGED <<conns, elapsed, exit>>

StartShutdown ==
  /\ main = "waiting" /\ quit
  /\ main' = "draining"
  /\ quit' = FALSE
  /\ CloseListener
  /\ UNCHANGED <<conns, background, elapsed, exit>>

\* What Shutdown takes for idle: also a connection that has been silent since
\* it was accepted, for longer than NewSpan.
Idle == In("idle") \cup {c \in In("new") : HeaderTimeout - Left(c) > NewSpan}

\* Shutdown closes what is idle; with nothing left it returns nil.
ReturnWithoutWaiting ==                \* faulty: active connections do not count
  /\ main = "draining"
  /\ conns' = Without(conns, Idle)
  /\ main' = "stopping"
  /\ UNCHANGED <<quit, serve, background, elapsed, exit>>

CloseIdleConns ==
  /\ main = "draining"
  /\ conns' = Without(conns, Idle)
  /\ main' = IF DOMAIN conns' = {} THEN "stopping" ELSE "draining"
  /\ UNCHANGED <<quit, serve, background, elapsed, exit>>

\* context.WithTimeout: the context of Shutdown is not done yet.
NoDeadline == TRUE                     \* faulty: context.Background() alone

GraceLeft == elapsed < Grace

\* The context is done first: Shutdown returns an error, and main gives up.
WaitForever ==                         \* faulty: Shutdown without a deadline
  FALSE /\ UNCHANGED vars

ForceExit ==
  /\ main = "draining"
  /\ ~GraceLeft
  /\ exit' = "forced"
  /\ UNCHANGED <<main, quit, serve, conns, background, elapsed>>

\* stopCleanup, stopRateLimiter, and the end of main.
StopBackground(g) ==
  /\ main = "stopping" /\ g \in background
  /\ g = "prune" => "cleanup" \notin background
  /\ background' = background \ {g}
  /\ UNCHANGED <<main, quit, serve, conns, elapsed, exit>>

Return ==
  /\ main = "stopping" /\ background = {}
  /\ exit' = "ok"
  /\ UNCHANGED <<main, quit, serve, conns, background, elapsed>>

-----------------------------------------------------------------------------
(* The clock: a handler returns, and the context is done, on time. *)

Older(conn) == IF conn.left = Never THEN conn ELSE [conn EXCEPT !.left = @ - 1]

Tick ==
  /\ main # "starting"
  /\ \A c \in DOMAIN conns : Left(c) # 0
  /\ Signalled => GraceLeft
  /\ conns' = [c \in DOMAIN conns |-> Older(conns[c])]
  /\ elapsed' = IF Signalled THEN elapsed + 1 ELSE 0
  /\ UNCHANGED <<main, quit, serve, background, exit>>

Main ==
  \/ Notify
  \/ StartShutdown
  \/ CloseIdleConns
  \/ ForceExit
  \/ \E g \in Goroutines : StopBackground(g)
  \/ Return

\* A response, or a timeout on silence, that is due.
Due(c) == Respond(c) \/ (Left(c) = 0 /\ Close(c))

Next ==
  /\ Running
  /\ \/ \E c \in Conns :
          \/ Accept(c) \/ Respond(c) \/ Recover(c) \/ Close(c)
          \/ \E work \in Works \cup {Never} : Request(c, work)
     \/ ListenerFails
     \/ ExitOnFailure
     \/ Signal
     \/ Main
     \/ Tick

Spec == Init /\ [][Next]_vars

\* The goroutines are scheduled and time goes on.  Nothing is assumed of the
\* clients, and nothing of handlers that may run for ever.
FairSpec ==
  /\ Spec
  /\ WF_vars(Running /\ Main) /\ WF_vars(Running /\ Tick)
  /\ \A c \in Conns : WF_vars(Running /\ c \in DOMAIN conns /\ Due(c))

-----------------------------------------------------------------------------
(* Properties *)

\* "Give in-flight requests 15 seconds to complete." (main)  When the process
\* ends, a request in flight would have gone on past the grace period, whatever
\* the goroutine of ListenAndServe does with ErrServerClosed and however often
\* the signal is repeated.  Only a signal before Notify, and a listener that has
\* failed before the shutdown began, end the process at once.
RequestsGetTheirGrace ==
  ~Running /\ exit # "killed" /\ ~(exit = "failed" /\ serve = "failed") =>
    \A c \in In("active") : Left(c) = Never \/ Left(c) >= Grace - elapsed

\* "server stopped gracefully" (main) is true: nobody was cut off, and the
\* background goroutines have been stopped.
GracefulIsClean == exit = "ok" => In("active") = {} /\ background = {}

\* While a request may still be served, the cleanup and the pruning go on, so
\* that the store and the limiter do not grow during a drain (main's order).
\* Expired entries are refused either way: the store's getters test the TTL.
BackgroundOutlivesRequests ==
  Running /\ In("active") # {} => background = Goroutines

\* After a signal that main has asked for, the process ends, although SSE
\* streams stay open for ever and a call to Google has no timeout of its own.
EndsAfterSignal == quit \/ Signalled ~> ~Running
=============================================================================
