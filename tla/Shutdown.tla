------------------------------ MODULE Shutdown ------------------------------
(***************************************************************************)
(* The end of a process.  CloseOnlyNotified (pkg/core/util.go) publishes   *)
(* EventStopping on a signal and waits for the handlers, GraceShutdown at  *)
(* most, and then for as long as NotifyStarted had waited; the event bus   *)
(* calls the handlers one after the other in the order of registration     *)
(* (pkg/core/eventbus.go).  The handlers that take time: RootCtx and       *)
(* NewChanAdaptor sleep for GraceShutdown once they have cancelled or      *)
(* closed, and gin's (pkg/ginshared/gin.go) lasts as long as its own       *)
(* timeout.  The handler of AppendToFile (pkg/core/fileAppender.go) works  *)
(* on a channel others are using.                                          *)
(***************************************************************************)
EXTENDS Integers, Sequences, FiniteSets, SequencesExt

CONSTANTS
  Handlers,       \* the handlers registered for EventStopping; "gin" and "file" may be two of them
  Lasts,          \* Lasts[h]: the time handler h takes
  GraceShutdown,
  Delay,          \* SCM_DUR_STARTED
  MaxLines        \* bound on the messages for the file

ASSUME ShutdownAssumption ==
  /\ IsFiniteSet(Handlers) /\ Lasts \in [Handlers -> Nat]
  /\ GraceShutdown \in Nat \ {0} /\ Delay \in Nat /\ MaxLines \in Nat

VARIABLES
  order,      \* the handlers in the order of their registration
  delay,      \* the variable delay: 0 until the process has started
  svc,        \* "running", "stopping", "delay" or "exited"
  exitBy,     \* "none", "done", "grace", "fatal" or "panic"
  clock,      \* time since the signal
  at,         \* the handler EventStopping has come to
  until,      \* when it returns, or Pending
  leaveAt,    \* when the delay is over
  inFlight,   \* an HTTP request is being served
  line,       \* the channel and goroutine of AppendToFile, and the goroutine that sends
  sent, written, swallowed,
  unwritten   \* lines that could not be marshalled or written

busVars == <<order, delay, svc, exitBy, clock, at, until, leaveAt, inFlight>>
fileVars == <<line, sent, written, swallowed, unwritten>>
shutdownVars == <<order, delay, svc, exitBy, clock, at, until, leaveAt, inFlight,
                  line, sent, written, swallowed, unwritten>>

Pending == -1

ShutdownTypeOK ==
  /\ order \in SetToSeqs(Handlers) /\ delay \in {0, Delay}
  /\ svc \in {"running", "stopping", "delay", "exited"}
  /\ exitBy \in {"none", "done", "grace", "fatal", "panic"}
  /\ clock \in Nat /\ at \in 1 .. Len(order) + 1 /\ until \in Int /\ leaveAt \in Nat
  /\ line \in [open : BOOLEAN, sender : {"idle", "sending"}, writer : {"ready", "busy", "ended"}]
  /\ sent \in 0 .. MaxLines /\ written \in 0 .. MaxLines /\ swallowed \in Nat
  /\ unwritten \in 0 .. MaxLines

ShutdownInit ==
  /\ order \in SetToSeqs(Handlers) /\ delay \in {0, Delay}
  /\ svc = "running" /\ exitBy = "none" /\ clock = 0 /\ leaveAt = 0
  /\ at = 1 /\ until = Pending /\ inFlight \in BOOLEAN
  /\ line = [open |-> TRUE, sender |-> "idle", writer |-> "ready"]
  /\ sent = 0 /\ written = 0 /\ swallowed = 0 /\ unwritten = 0

Up == svc # "exited"

Exit(how) == svc' = "exited" /\ exitBy' = how

Handler == order[at]

-----------------------------------------------------------------------------
(* CloseOnlyNotified *)

Signal ==
  /\ svc = "running" /\ svc' = "stopping"
  /\ UNCHANGED <<order, delay, exitBy, clock, at, until, leaveAt, inFlight, fileVars>>

HandlersThrough == at = Len(order) + 1

\* Slip: there is no select on ctx.Done().
NeverOver == FALSE

GraceOver == clock >= GraceShutdown

\* The select: the handlers are through, or the grace is over.
HandlersOrGrace ==
  /\ svc = "stopping"
  /\ \/ HandlersThrough /\ exitBy' = "done"
     \/ GraceOver /\ exitBy' = "grace"
  /\ svc' = "delay" /\ leaveAt' = clock + delay
  /\ UNCHANGED <<order, delay, clock, at, until, inFlight, fileVars>>

Leave ==
  /\ svc = "delay" /\ clock = leaveAt
  /\ svc' = "exited"
  /\ UNCHANGED <<order, delay, exitBy, clock, at, until, leaveAt, inFlight, fileVars>>

-----------------------------------------------------------------------------
(* Publish: the goroutine goes on with the handlers when the grace is over. *)

Publishing == svc \in {"stopping", "delay"} /\ at <= Len(order)

\* AppendToFile's handler takes a message that waits to be sent, or else closes.  (The
\* one it takes is not written, and the channel stays open.)
BeginHandler ==
  /\ Publishing /\ until = Pending
  /\ until' = clock + Lasts[Handler]
  /\ IF Handler # "file" \/ ~line.open THEN UNCHANGED fileVars
     ELSE \/ /\ line.sender = "sending"
             /\ line' = [line EXCEPT !.sender = "idle"]
             /\ sent' = sent + 1 /\ swallowed' = swallowed + 1
             /\ UNCHANGED <<written, unwritten>>
          \/ /\ line.sender = "idle"
             /\ line' = [line EXCEPT !.open = FALSE]
             /\ UNCHANGED <<sent, written, swallowed, unwritten>>
  /\ UNCHANGED <<order, delay, svc, exitBy, clock, at, leaveAt, inFlight>>

\* Gin's: Shutdown waits for the requests, the handler for its timeout.  A request that
\* takes longer ends the process on the spot (logger.Fatal).
EndHandler ==
  /\ Publishing /\ until = clock
  /\ IF Handler = "gin" /\ inFlight
     THEN Exit("fatal") /\ UNCHANGED <<at, until>>
     ELSE at' = at + 1 /\ until' = Pending /\ UNCHANGED <<svc, exitBy>>
  /\ UNCHANGED <<order, delay, clock, leaveAt, inFlight, fileVars>>

RequestEnds ==
  /\ Up /\ inFlight /\ inFlight' = FALSE
  /\ UNCHANGED <<order, delay, svc, exitBy, clock, at, until, leaveAt, fileVars>>

-----------------------------------------------------------------------------
(* AppendToFile: its channel has no buffer; senders know nothing of its end. *)

SendLine ==
  /\ Up /\ line.sender = "idle" /\ sent < MaxLines
  /\ line' = [line EXCEPT !.sender = "sending"]
  /\ UNCHANGED <<busVars, sent, written, swallowed, unwritten>>

LinePanics ==
  /\ Up /\ line.sender = "sending" /\ ~line.open
  /\ Exit("panic")
  /\ UNCHANGED <<order, delay, clock, at, until, leaveAt, inFlight, fileVars>>

TakeLine ==
  /\ Up /\ line.sender = "sending" /\ line.writer = "ready" /\ line.open
  /\ line' = [line EXCEPT !.sender = "idle", !.writer = "busy"]
  /\ sent' = sent + 1
  /\ UNCHANGED <<busVars, written, swallowed, unwritten>>

\* Slip: what is in hand when the channel closes is not written.
WriteLineOpen ==
  /\ Up /\ line.writer = "busy"
  /\ line' = [line EXCEPT !.writer = "ready"]
  /\ written' = IF line.open THEN written + 1 ELSE written
  /\ UNCHANGED <<busVars, sent, swallowed, unwritten>>

\* An error, of the marshaller or of the file, is logged.
WriteLine ==
  /\ Up /\ line.writer = "busy"
  /\ line' = [line EXCEPT !.writer = "ready"]
  /\ \/ written' = written + 1 /\ UNCHANGED unwritten
     \/ unwritten' = unwritten + 1 /\ UNCHANGED written
  /\ UNCHANGED <<busVars, sent, swallowed>>

WriterEndsFile ==
  /\ Up /\ line.writer = "ready" /\ ~line.open
  /\ line' = [line EXCEPT !.writer = "ended"]
  /\ UNCHANGED <<busVars, sent, written, swallowed, unwritten>>

-----------------------------------------------------------------------------

\* Timers are prompt: nothing that is due waits for the next tick.
Tick ==
  /\ svc \in {"stopping", "delay"}
  /\ Publishing => until > clock
  /\ svc = "stopping" => ~HandlersThrough /\ ~GraceOver
  /\ svc = "delay" => clock < leaveAt
  /\ clock' = clock + 1
  /\ UNCHANGED <<order, delay, svc, exitBy, at, until, leaveAt, inFlight, fileVars>>

ShutdownNext ==
  \/ Signal \/ HandlersOrGrace \/ Leave \/ BeginHandler \/ EndHandler \/ RequestEnds
  \/ SendLine \/ LinePanics \/ TakeLine \/ WriteLine \/ WriterEndsFile \/ Tick

ShutdownSpec == ShutdownInit /\ [][ShutdownNext]_shutdownVars

-----------------------------------------------------------------------------
(* Properties *)

\* The time the first k handlers take, for each k.
Spent == LET spent[k \in 0 .. Len(order)] ==
               IF k = 0 THEN 0 ELSE spent[k - 1] + Lasts[order[k]]
         IN  spent

LastsBefore(i) == Spent[i - 1]

\* The process is gone GraceShutdown and the delay after the signal, however many
\* handlers sleep; and it does not go, unless by a panic or by gin's Fatal, before it
\* has called every handler the time of those registered earlier leaves room for: a
\* second handler that sleeps for the grace has the delay, and a third one nothing
\* (CloseOnlyNotified, util.go:96-119).
ShutdownOrderly ==
  /\ clock > GraceShutdown + delay => svc = "exited"
  /\ svc = "exited" /\ exitBy \in {"done", "grace"} =>
       \A i \in 1 .. Len(order) :
         LastsBefore(i) < GraceShutdown + delay => i < at \/ (i = at /\ until # Pending)

\* Every message the channel of AppendToFile has taken is in the file, in the hand of its
\* goroutine, or failed to be marshalled or written, but for the one that its own handler
\* may have received, in whose place the channel is not closed (fileAppender.go:24-31).
LinesKept ==
  /\ sent = written + unwritten + swallowed + (IF line.writer = "busy" THEN 1 ELSE 0)
  /\ swallowed <= 1 /\ (swallowed = 1 => line.open)
=============================================================================
