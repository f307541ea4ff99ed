-------------------------- MODULE ServiceLifecycle --------------------------
(***************************************************************************)
(* The order service as a process (cmd/order-service/main.go): reading the *)
(* environment, starting, the goroutine that serves gRPC and the one that  *)
(* runs the outbox publisher, and the way out: errCh, the signal context,  *)
(* GracefulStop and the deferred calls in their order.                     *)
(*                                                                         *)
(* The publisher's loop is here with what a stop does to it: its context   *)
(* is canceled, or the writer and the pool are closed, at any point of a   *)
(* batch.  Its statements and writes may also fail with nobody stopping    *)
(* anything, as often as they like.  Lapsing leases and other publishers   *)
(* are OutboxRelay's.  The calls into pgx, kafka-go and grpc-go follow     *)
(* what main.go and publisher.go rely on: a call that returns an error,    *)
(* for a canceled context or any other reason, may have had its effect.    *)
(***************************************************************************)
EXTENDS Integers, Sequences, FiniteSetsExt

CONSTANTS
  Settings,    \* environments the process may be started in
  Calls,       \* requests clients send
  NumRows,     \* outbox rows waiting when the process starts
  NotANumber   \* a setting that does not parse, or not into its 32 bits

ASSUME SettingsAssumption ==
  \A s \in Settings :
     /\ s.url \in {"", "url"}
     /\ s.brokers \subseteq {"", "broker"}
     /\ s.batch \in Int \union {NotANumber}
     /\ s.interval \in Int \union {NotANumber}

ASSUME RowsAssumption == NumRows \in Nat

Rows == 1..NumRows

VARIABLES
  main,          \* the call run() is at
  result,        \* what it is going to return
  cfg,           \* the config it has loaded
  signaled,      \* SIGINT or SIGTERM has come
  ctxDone,       \* ctx is canceled
  server,        \* the goroutine that serves
  stopped,       \* GracefulStop has been called
  calls,         \* what has become of each request
  errCh,         \* errors in the channel
  publisher,     \* the goroutine that publishes
  batch,         \* rows it has claimed and not yet been through
  rows,          \* the outbox
  pending,       \* rows whose message is in the writer
  written,       \* rows whose message is in the topic
  failed,        \* history: rows whose claim, write or mark failed with nothing stopping
  writerClosed,
  poolClosed

vars == <<main, result, cfg, signaled, ctxDone, server, stopped, calls, errCh,
          publisher, batch, rows, pending, written, failed, writerClosed,
          poolClosed>>

grpc == <<server, stopped, calls>>
outbox == <<publisher, batch, rows, pending, written, failed>>
resources == <<writerClosed, poolClosed>>

NoConfig == [brokers |-> {}, batch |-> 0, interval |-> 0]

Init ==
  /\ main = "config"
  /\ result = "none"
  /\ cfg = NoConfig
  /\ signaled = FALSE
  /\ ctxDone = FALSE
  /\ server = "none"
  /\ stopped = FALSE
  /\ calls = [c \in Calls |-> "none"]
  /\ errCh = <<>>
  /\ publisher = "none"
  /\ batch = {}
  /\ rows = [r \in Rows |-> "new"]
  /\ pending = {}
  /\ written = {}
  /\ failed = {}
  /\ writerClosed = FALSE
  /\ poolClosed = FALSE

-----------------------------------------------------------------------------
(* The environment *)

\* Mutant: only a setting that does not parse is replaced.
PositiveOrGiven(value, fallback) ==
  IF value = NotANumber THEN fallback ELSE value

\* int32FromEnv, durationFromEnv and the same checks in NewOutboxPublisher.
PositiveOr(value, fallback) ==
  IF value # NotANumber /\ value > 0 THEN value ELSE fallback

\* splitCSV drops blank parts, and getenvDefault only replaces a blank whole.
Brokers(parts) ==
  IF parts = {} THEN {"broker"} ELSE parts \ {""}

Config(s) ==
  [brokers |-> Brokers(s.brokers),
   batch |-> PositiveOr(s.batch, 100),
   interval |-> PositiveOr(s.interval, 1)]

-----------------------------------------------------------------------------
(* run() *)

\* The call at hand fails and run returns, by way of the calls deferred so far.
Return(error, deferred) ==
  /\ main' = deferred
  /\ result' = error
  /\ UNCHANGED <<cfg, signaled, ctxDone, grpc, errCh, outbox, resources>>

Continue(label) ==
  /\ main' = label
  /\ UNCHANGED <<result, signaled, ctxDone, errCh, resources>>

LoadConfig ==
  /\ main = "config"
  /\ \E s \in Settings :
       \/ s.url = "" /\ Return("config", "exited")
       \/ /\ s.url # ""
          /\ Continue("connect")
          /\ cfg' = Config(s)
          /\ UNCHANGED <<grpc, outbox>>

\* pgxpool.New and pool.Ping; the latter fails on a canceled context.
Connect ==
  /\ main = "connect"
  /\ \/ Return("connect", "stop")
     \/ Continue("ping") /\ UNCHANGED <<cfg, grpc, outbox>>

Ping ==
  /\ main = "ping"
  /\ \/ Return("ping", "closePool")
     \/ ~ctxDone /\ Continue("listen") /\ UNCHANGED <<cfg, grpc, outbox>>

\* net.Listen, and then both goroutines.
Listen ==
  /\ main = "listen"
  /\ \/ Return("listen", "closeWriter")
     \/ /\ Continue("select")
        /\ server' = "start"
        /\ publisher' = "start"
        /\ UNCHANGED <<cfg, stopped, calls, batch, rows, pending, written, failed>>

\* Mutant: the error branch falls through to the final return nil.
ReceiveSwallowed ==
  /\ main = "select"
  /\ errCh # <<>>
  /\ main' = "gracefulStop"
  /\ result' = "nil"
  /\ errCh' = Tail(errCh)
  /\ UNCHANGED <<cfg, signaled, ctxDone, grpc, outbox, resources>>

\* case err := <-errCh; a nil leads to the same place as the signal.
Receive ==
  /\ main = "select"
  /\ errCh # <<>>
  /\ main' = "gracefulStop"
  /\ result' = Head(errCh)
  /\ errCh' = Tail(errCh)
  /\ UNCHANGED <<cfg, signaled, ctxDone, grpc, outbox, resources>>

\* case <-ctx.Done().
SignalReceived ==
  /\ main = "select"
  /\ ctxDone
  /\ main' = "gracefulStop"
  /\ result' = "nil"
  /\ UNCHANGED <<cfg, signaled, ctxDone, grpc, errCh, outbox, resources>>

\* GracefulStop accepts no more requests, then waits for those it has.
StopAccepting ==
  /\ main = "gracefulStop"
  /\ ~stopped
  /\ stopped' = TRUE
  /\ UNCHANGED <<main, result, cfg, signaled, ctxDone, server, calls, errCh, outbox,
                 resources>>

\* Mutant: Stop in the place of GracefulStop, without its canceling of requests.
StoppedNotWaiting ==
  /\ main = "gracefulStop"
  /\ stopped
  /\ Continue("closeWriter")
  /\ UNCHANGED <<cfg, grpc, outbox>>

Stopped ==
  /\ main = "gracefulStop"
  /\ stopped
  /\ \A c \in Calls : calls[c] # "running"
  /\ Continue("closeWriter")
  /\ UNCHANGED <<cfg, grpc, outbox>>

\* writer.Close refuses further writes, then waits for those it has.
CloseWriter ==
  /\ main = "closeWriter"
  /\ ~writerClosed
  /\ writerClosed' = TRUE
  /\ UNCHANGED <<main, result, cfg, signaled, ctxDone, grpc, errCh, outbox, poolClosed>>

\* Mutant: run waits for the publisher before it gives up the pool.
WriterClosedAwaiting ==
  /\ main = "closeWriter"
  /\ writerClosed
  /\ pending = {} /\ publisher \in {"none", "done"}
  /\ Continue("closePool")
  /\ UNCHANGED <<cfg, grpc, outbox>>

WriterClosed ==
  /\ main = "closeWriter"
  /\ writerClosed
  /\ pending = {} /\ publisher # "writing"
  /\ Continue("closePool")
  /\ UNCHANGED <<cfg, grpc, outbox>>

\* Statements on their way.
Querying == publisher \in {"claiming", "markingPublished", "markingFailed"}

\* pool.Close lends no more connections, then waits for those in use.
ClosePool ==
  /\ main = "closePool"
  /\ ~poolClosed
  /\ poolClosed' = TRUE
  /\ UNCHANGED <<main, result, cfg, signaled, ctxDone, grpc, errCh, outbox, writerClosed>>

PoolClosed ==
  /\ main = "closePool"
  /\ poolClosed
  /\ ~Querying
  /\ Continue("stop")
  /\ UNCHANGED <<cfg, grpc, outbox>>

\* stop() was deferred first and so runs last.
Stop ==
  /\ main = "stop"
  /\ ctxDone' = TRUE
  /\ main' = "return"
  /\ UNCHANGED <<result, cfg, signaled, grpc, errCh, outbox, resources>>

\* main returns, or os.Exit(1): whatever is still running is gone.
Exit ==
  /\ main = "return"
  /\ main' = "exited"
  /\ calls' = [c \in Calls |-> IF calls[c] = "running" THEN "failed" ELSE calls[c]]
  /\ UNCHANGED <<result, cfg, signaled, ctxDone, server, stopped, errCh, outbox,
                 resources>>

Run ==
  \/ LoadConfig \/ Connect \/ Ping \/ Listen
  \/ Receive \/ SignalReceived
  \/ StopAccepting \/ Stopped
  \/ CloseWriter \/ WriterClosed \/ ClosePool \/ PoolClosed \/ Stop \/ Exit

\* Before signal.NotifyContext and after stop() a signal kills the process.  In
\* between one cancels ctx, and another one has no effect.
Signal ==
  /\ main \notin {"config", "return", "exited"}
  /\ ~signaled
  /\ signaled' = TRUE
  /\ ctxDone' = TRUE
  /\ UNCHANGED <<main, result, cfg, grpc, errCh, outbox, resources>>

-----------------------------------------------------------------------------
(* The goroutine that serves *)

Alive == main # "exited"

ServerGoto(label) ==
  /\ server' = label
  /\ UNCHANGED <<main, result, cfg, signaled, ctxDone, stopped, calls, errCh, outbox,
                 resources>>

Serve ==
  /\ Alive
  /\ server = "start"
  /\ ServerGoto(IF stopped THEN "sendNil" ELSE "serving")

ServeReturns ==
  /\ Alive
  /\ server = "serving"
  /\ stopped
  /\ ServerGoto("sendNil")

\* The listener breaks; connections that are open go on.
ServeFails ==
  /\ Alive
  /\ server = "serving"
  /\ ~stopped
  /\ ServerGoto("sendError")

Send(error) ==
  /\ Len(errCh) < 2
  /\ errCh' = Append(errCh, error)
  /\ UNCHANGED <<main, result, cfg, signaled, ctxDone, stopped, calls, batch, rows,
                 pending, written, failed, resources>>

ServerSends ==
  /\ Alive
  /\ server \in {"sendNil", "sendError"}
  /\ Send(IF server = "sendNil" THEN "nil" ELSE "serve")
  /\ server' = "done"
  /\ UNCHANGED publisher

\* A request comes on an open connection, until GracefulStop refuses it.
Accept(c) ==
  /\ Alive
  /\ server \notin {"none", "start"}
  /\ ~stopped
  /\ calls[c] = "none"
  /\ calls' = [calls EXCEPT ![c] = "running"]
  /\ UNCHANGED <<main, result, cfg, signaled, ctxDone, server, stopped, errCh, outbox,
                 resources>>

\* A handler needs the pool.
Answer(c) ==
  /\ Alive
  /\ calls[c] = "running"
  /\ calls' = [calls EXCEPT ![c] = IF poolClosed THEN "failed" ELSE "answered"]
  /\ UNCHANGED <<main, result, cfg, signaled, ctxDone, server, stopped, errCh, outbox,
                 resources>>

-----------------------------------------------------------------------------
(* The goroutine that publishes: Run and PublishOnce *)

process == <<main, result, cfg, signaled, ctxDone, grpc, errCh, resources>>

Goto(label) == publisher' = label

\* The event the loop is at; a claim returns them oldest first.
Current == Min(batch)

\* On to the next event of the batch, or out of the loop.
NextEvent(rest) ==
  /\ batch' = rest
  /\ Goto(IF rest = {} THEN "wait" ELSE "publish")

\* Mutant: the statements are not given the context.
CallFailsClosed == poolClosed

\* A statement begun on a canceled context or a closed pool fails at once.
CallFails == ctxDone \/ poolClosed

\* time.NewTicker panics on an interval that is not positive.
StartPublisher ==
  /\ Alive
  /\ publisher = "start"
  /\ IF cfg.interval > 0
     THEN Goto("claim") /\ UNCHANGED <<main, result>>
     ELSE main' = "exited" /\ result' = "panic" /\ UNCHANGED publisher
  /\ UNCHANGED <<cfg, signaled, ctxDone, grpc, errCh, resources, batch, rows, pending,
                 written, failed>>

\* A call fails: unless something is being stopped, the rows it was about are marked.
Blame(S) ==
  failed' = IF ctxDone \/ poolClosed THEN failed ELSE failed \union S

BeginClaim ==
  /\ Alive
  /\ publisher = "claim"
  /\ Goto(IF CallFails THEN "wait" ELSE "claiming")
  /\ UNCHANGED <<process, batch, rows, pending, written, failed>>

\* The oldest rows waiting, as many as the batch size allows.
Claimed ==
  LET free == {r \in Rows : rows[r] = "new"}
  IN  {r \in free : Cardinality({q \in free : q < r}) < cfg.batch}

Lease == rows' = [r \in Rows |-> IF r \in Claimed THEN "leased" ELSE rows[r]]

Claim ==
  /\ Alive
  /\ publisher = "claiming"
  /\ Lease
  /\ NextEvent(Claimed)
  /\ UNCHANGED <<process, pending, written, failed>>

\* Mutant: Run returns the error of an iteration.
AfterClaimErrorReturn == "sendError"

\* Run logs the error of an iteration and goes on.
AfterClaimError == "wait"

\* The claim fails.  The rows may be leased all the same, and nobody knows of them.
ClaimFails ==
  /\ Alive
  /\ publisher = "claiming"
  /\ \/ Lease /\ Blame(Claimed)
     \/ UNCHANGED <<rows, failed>>
  /\ Goto(AfterClaimError)
  /\ UNCHANGED <<process, batch, pending, written>>

\* WriteMessages hands the message to the writer.  A closed writer or one without
\* brokers refuses it; on a canceled context it may go either way.
BeginPublish ==
  /\ Alive
  /\ publisher = "publish"
  /\ \/ /\ ~writerClosed /\ cfg.brokers # {}
        /\ pending' = pending \union {Current}
        /\ Goto("writing")
     \/ /\ writerClosed \/ cfg.brokers = {} \/ ctxDone
        /\ Goto("markFailed")
        /\ UNCHANGED pending
  /\ UNCHANGED <<process, batch, rows, written, failed>>

\* It then waits for the writer, whose error may only mean that the acknowledgement
\* was lost, or no longer once ctx is canceled: the message stays with the writer.
Publish ==
  /\ Alive
  /\ publisher = "writing"
  /\ \/ /\ Current \notin pending /\ Current \in written
        /\ Goto("markPublished")
        /\ UNCHANGED failed
     \/ /\ Current \notin pending \/ ctxDone
        /\ Goto("markFailed")
        /\ Blame({Current} \intersect written)
  /\ UNCHANGED <<process, batch, rows, pending, written>>

BeginMarkPublished ==
  /\ Alive
  /\ publisher = "markPublished"
  /\ \/ ~CallFails /\ Goto("markingPublished") /\ UNCHANGED batch
     \/ CallFails /\ Goto("wait") /\ batch' = {}
  /\ UNCHANGED <<process, rows, pending, written, failed>>

SetRow(status) == rows' = [rows EXCEPT ![Current] = status]

MarkPublished ==
  /\ Alive
  /\ publisher = "markingPublished"
  /\ SetRow("published")
  /\ NextEvent(batch \ {Current})
  /\ UNCHANGED <<process, pending, written, failed>>

\* Its error returns from PublishOnce, with the rest of the batch still leased.
MarkPublishedFails ==
  /\ Alive
  /\ publisher = "markingPublished"
  /\ SetRow("published") \/ UNCHANGED rows
  /\ Goto("wait")
  /\ batch' = {}
  /\ Blame(batch)
  /\ UNCHANGED <<process, pending, written>>

BeginMarkFailed ==
  /\ Alive
  /\ publisher = "markFailed"
  /\ \/ ~CallFails /\ Goto("markingFailed") /\ UNCHANGED batch
     \/ CallFails /\ NextEvent(batch \ {Current})
  /\ UNCHANGED <<process, rows, pending, written, failed>>

MarkFailed ==
  /\ Alive
  /\ publisher = "markingFailed"
  /\ SetRow("new")
  /\ NextEvent(batch \ {Current})
  /\ UNCHANGED <<process, pending, written, failed>>

\* Its error is ignored.
MarkFailedFails ==
  /\ Alive
  /\ publisher = "markingFailed"
  /\ SetRow("new") \/ UNCHANGED rows
  /\ NextEvent(batch \ {Current})
  /\ Blame({Current})
  /\ UNCHANGED <<process, pending, written>>

\* The select of Run: with both cases ready, either.
Wait ==
  /\ Alive
  /\ publisher = "wait"
  /\ Goto("claim") \/ (ctxDone /\ Goto("sendNil"))
  /\ UNCHANGED <<process, batch, rows, pending, written, failed>>

PublisherSends ==
  /\ Alive
  /\ publisher \in {"sendNil", "sendError"}
  /\ Send(IF publisher = "sendNil" THEN "nil" ELSE "run")
  /\ Goto("done")
  /\ UNCHANGED server

\* The writer's own goroutine writes the message, or gives it up.
Write(r) ==
  /\ Alive
  /\ r \in pending
  /\ pending' = pending \ {r}
  /\ written' = written \union {r} \/ UNCHANGED written
  /\ UNCHANGED <<process, publisher, batch, rows, failed>>

Server == Serve \/ ServeReturns \/ ServerSends

Publisher ==
  \/ StartPublisher \/ BeginClaim \/ Claim \/ ClaimFails
  \/ BeginPublish \/ Publish
  \/ BeginMarkPublished \/ MarkPublished \/ MarkPublishedFails
  \/ BeginMarkFailed \/ MarkFailed \/ MarkFailedFails
  \/ Wait \/ PublisherSends

Next ==
  \/ Run \/ Signal
  \/ Server \/ ServeFails
  \/ \E c \in Calls : Accept(c) \/ Answer(c)
  \/ Publisher
  \/ \E r \in Rows : Write(r)

Spec == Init /\ [][Next]_vars

\* Goroutines are scheduled, calls return, the writer gives up after its attempts,
\* and every request is answered (OrderStore's RequestsAnswered).
FairSpec ==
  /\ Spec
  /\ WF_vars(Run) /\ WF_vars(Server) /\ WF_vars(Publisher)
  /\ \A c \in Calls : WF_vars(Answer(c))
  /\ \A r \in Rows : WF_vars(Write(r))

-----------------------------------------------------------------------------
(* Properties *)

StartErrors == {"config", "connect", "ping", "listen"}

\* The type invariant.
TypeOK ==
  /\ main \in {"config", "connect", "ping", "listen", "select", "gracefulStop",
               "closeWriter", "closePool", "stop", "return", "exited"}
  /\ result \in StartErrors \union {"none", "nil", "serve", "run", "panic"}
  /\ cfg \in [brokers : SUBSET {"broker"}, batch : Nat, interval : Nat]
  /\ signaled \in BOOLEAN /\ ctxDone \in BOOLEAN /\ stopped \in BOOLEAN
  /\ writerClosed \in BOOLEAN /\ poolClosed \in BOOLEAN
  /\ server \in {"none", "start", "serving", "sendNil", "sendError", "done"}
  /\ calls \in [Calls -> {"none", "running", "answered", "failed"}]
  /\ errCh \in Seq({"nil", "serve", "run"})
  /\ publisher \in {"none", "start", "claim", "claiming", "publish", "writing",
                    "markPublished", "markingPublished", "markFailed",
                    "markingFailed", "wait", "sendNil", "sendError", "done"}
  /\ batch \subseteq Rows
  /\ rows \in [Rows -> {"new", "leased", "published"}]
  /\ pending \subseteq Rows
  /\ written \subseteq Rows
  /\ failed \subseteq Rows

\* A request the server accepted is answered, whichever way run() returns: the
\* pool is closed, and the process ends, only after GracefulStop has waited.
HandlersFinish == \A c \in Calls : calls[c] # "failed"

\* Exit status 0 means the process was asked to stop and left nothing half done
\* that it could have finished; any other names the start-up step that failed or
\* the listener.  No error of the publisher and no setting ends the process.  The
\* converse is not claimed: a signal during Ping exits with 1, and with a signal and
\* a broken listener at once either may win.
ExitTruthful ==
  main = "exited" =>
    \/ /\ result = "nil"
       /\ signaled
       /\ writerClosed /\ poolClosed /\ pending = {}
       /\ \A c \in Calls : calls[c] # "running"
    \/ result \in StartErrors
    \/ result = "serve"

\* The publisher stops only because it is told to: while nobody has asked the
\* process to stop, no failed claim, publish or mark ends its loop.
PublisherGoesOn == publisher \in {"sendNil", "sendError", "done"} => ctxDone

\* The message the publisher is waiting for or about to mark.
UnderWay ==
  IF publisher \in {"writing", "markPublished", "markingPublished"} THEN {Current} ELSE {}

\* Rows the next run of the service finds leased by nobody alive, or is going to
\* publish a second time.
LeftBehind ==
  {r \in Rows : rows[r] = "leased" /\ r \notin batch}
    \union {r \in (pending \union written) \ UnderWay : rows[r] # "published"}

\* Those that no failed claim, write or mark accounts for.
Dropped == LeftBehind \ failed

\* main does not wait for the publisher, so a stop may leave rows leased and
\* messages written without a mark: one batch at most.  What is left behind with
\* nothing stopping is what a failed claim, write or mark was about.
StopLeavesAtMostABatch ==
  /\ Cardinality(Dropped) <= cfg.batch
  /\ Dropped # {} => ctxDone \/ poolClosed

Starting == {"config", "connect", "ping", "listen"}
Closing == {"closeWriter", "closePool", "stop", "return", "exited"}
Leaving == {"stop", "return", "exited"}
Working == {"publish", "writing", "markPublished", "markingPublished", "markFailed",
            "markingFailed"}

\* The goroutines start together, with a config that has been checked; run() has
\* something to return from the select on, and only a signal or run() itself
\* cancels ctx.
Phases ==
  /\ result = "none" <=> main \in Starting \union {"select"}
  /\ main \in Starting => publisher = "none"
  /\ main = "select" => publisher # "none"
  /\ server = "none" <=> publisher = "none"
  /\ publisher # "none" \/ main \in {"connect", "ping", "listen"} => cfg.interval > 0
  /\ ctxDone => signaled \/ main \in {"return", "exited"}

\* GracefulStop comes before the deferred calls and lets no request through.
Requests ==
  /\ main \in Starting \union {"select"} => ~stopped
  /\ main \in Closing => stopped \/ server = "none"
  /\ main \in Closing \/ server = "none" => \A c \in Calls : calls[c] # "running"
  /\ \A c \in Calls : calls[c] # "failed"

\* Each resource is closed once run() is past it, and the writer is empty.
Closed ==
  /\ poolClosed => main \in Leaving \union {"closePool"}
  /\ main \in Leaving => poolClosed \/ publisher = "none"
  /\ main \in Leaving \union {"closePool"} => writerClosed \/ publisher = "none"
  /\ publisher = "none" \/ main \in Leaving \union {"closePool"} => pending = {}
  /\ result \in {"nil", "serve"} => publisher # "none"

\* What a goroutine may have reported: nil only because it was told to stop.
Reports == IF stopped \/ ctxDone THEN {"nil", "serve"} ELSE {"serve"}

Reported ==
  /\ errCh \in Seq(Reports)
  /\ server = "sendNil" => stopped
  /\ publisher # "sendError"
  /\ publisher \in {"sendNil", "done"} => ctxDone
  /\ result = "nil" => signaled
  /\ result \in StartErrors \union {"none", "nil", "serve"}

\* Failures apart, the publisher leaves nothing behind before a stop, claims nothing
\* after it, and what it leaves behind and what it still works on are one batch.
Batches ==
  /\ publisher \in Working <=> batch # {}
  /\ \A r \in batch : rows[r] = "leased"
  /\ publisher = "none" => \A r \in Rows : rows[r] = "new" /\ r \notin written
  /\ Dropped # {} => (ctxDone \/ poolClosed) /\ publisher # "claiming"
  /\ Cardinality(Dropped \union batch) <= cfg.batch

\* The inductive invariant.
IInv == TypeOK /\ Phases /\ Requests /\ Closed /\ Reported /\ Batches

\* Asked to stop, or with a listener that broke, or with a start-up that failed,
\* the process ends: no two of main, the goroutines, the writer, the pool and the
\* requests wait for each other.
Terminates ==
  signaled \/ server = "sendError" \/ result # "none" ~> main = "exited"
=============================================================================
