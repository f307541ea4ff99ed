--------------------------- MODULE LifecycleProofs ---------------------------
(***************************************************************************)
(* Proofs about ServiceLifecycle, for every environment the process may be *)
(* started in, every set of requests and every number of waiting rows.     *)
(***************************************************************************)
EXTENDS ServiceLifecycle, SequenceTheorems, FiniteSetTheorems, WellFoundedInduction,
        TLAPS

-----------------------------------------------------------------------------
(* Facts about the operators *)

\* A setting is replaced unless it is a positive number.
LEMMA PositiveOrType ==
  ASSUME NEW v \in Int \union {NotANumber}, NEW d \in Nat \ {0}
  PROVE  PositiveOr(v, d) \in Nat \ {0}
BY DEF PositiveOr

LEMMA ConfigType ==
  ASSUME NEW s \in Settings
  PROVE  /\ Config(s) \in [brokers : SUBSET {"broker"}, batch : Nat, interval : Nat]
         /\ Config(s).interval > 0
<1>1. /\ s.brokers \subseteq {"", "broker"}
      /\ s.batch \in Int \union {NotANumber}
      /\ s.interval \in Int \union {NotANumber}
  BY SettingsAssumption
<1>2. Brokers(s.brokers) \in SUBSET {"broker"}
  BY <1>1 DEF Brokers
<1>3. 100 \in Nat \ {0} /\ 1 \in Nat \ {0}
  OBVIOUS
<1>4. /\ PositiveOr(s.batch, 100) \in Nat \ {0}
      /\ PositiveOr(s.interval, 1) \in Nat \ {0}
  BY <1>1, <1>3, PositiveOrType, Zenon
<1>5. QED
  BY <1>2, <1>4 DEF Config

\* A set of rows that is not empty has a first and a last one.
LEMMA MinType == ASSUME NEW S \in SUBSET Rows, S # {} PROVE Min(S) \in S
<1>1. S \subseteq Nat
  BY RowsAssumption DEF Rows
<1>2. PICK x \in S : \A y \in S : <<y, x>> \notin OpToRel(<, Nat)
  BY <1>1, WFMin, NatLessThanWellFounded, Zenon
<1>3. \A y \in S : x =< y
  <2> TAKE y \in S
  <2>1. ~ (y < x)
    BY <1>1, <1>2 DEF OpToRel
  <2>2. QED
    BY <2>1, <1>1
<1>4. QED
  BY <1>3 DEF Min

LEMMA LastExists ==
  ASSUME NEW S \in SUBSET Rows, S # {} PROVE \E x \in S : \A y \in S : y <= x
<1> DEFINE D == {NumRows - r : r \in S}
<1>1. NumRows \in Nat /\ S \subseteq 1..NumRows
  BY RowsAssumption DEF Rows
<1>2. D \subseteq Nat /\ D # {}
  <2>1. \A r \in S : NumRows - r \in Nat
    BY <1>1
  <2>2. QED
    BY <2>1
<1>3. PICK d \in D : \A e \in D : <<e, d>> \notin OpToRel(<, Nat)
  BY <1>2, WFMin, NatLessThanWellFounded, Zenon
<1>4. PICK x \in S : d = NumRows - x
  OBVIOUS
<1>5. \A y \in S : y <= x
  <2> TAKE y \in S
  <2>1. NumRows - y \in D
    OBVIOUS
  <2>2. ~ (NumRows - y < d)
    BY <1>2, <1>3, <2>1 DEF OpToRel
  <2>3. QED
    BY <1>1, <1>4, <2>2
<1>6. QED
  BY <1>5

\* Sets of rows are finite.
LEMMA RowsFinite ==
  ASSUME NEW S \in SUBSET Rows PROVE IsFiniteSet(S) /\ Cardinality(S) \in Nat
<1>1. IsFiniteSet(Rows)
  BY RowsAssumption, FS_Interval DEF Rows
<1>2. QED
  BY <1>1, FS_Subset, FS_CardinalityType

\* A claim takes no more than the batch size.
LEMMA ClaimedSize ==
  ASSUME cfg.batch \in Nat
  PROVE  Claimed \subseteq Rows /\ Cardinality(Claimed) <= cfg.batch
<1> DEFINE free == {r \in Rows : rows[r] = "new"}
           before(r) == {q \in free : q < r}
<1>1. Claimed = {r \in free : Cardinality(before(r)) < cfg.batch}
  BY DEF Claimed
<1>2. Claimed \subseteq Rows
  BY <1>1
<1>3. CASE Claimed = {}
  BY <1>2, <1>3, FS_EmptySet
<1>4. CASE Claimed # {}
  <2>1. PICK x \in Claimed : \A y \in Claimed : y <= x
    BY <1>2, <1>4, LastExists
  <2>2. Claimed \ {x} \subseteq before(x)
    <3> SUFFICES ASSUME NEW y \in Claimed \ {x} PROVE y \in free /\ y < x
      OBVIOUS
    <3>1. y <= x /\ y # x /\ y \in Rows /\ x \in Rows
      BY <1>2, <2>1
    <3>2. QED
      BY <1>1, <3>1, RowsAssumption DEF Rows
  <2>3. before(x) \in SUBSET Rows /\ Claimed \ {x} \in SUBSET Rows
    BY <1>2
  <2>4. /\ IsFiniteSet(before(x)) /\ Cardinality(before(x)) \in Nat
        /\ IsFiniteSet(Claimed) /\ Cardinality(Claimed) \in Nat
    BY <1>2, <2>3, RowsFinite
  <2>5. Cardinality(Claimed \ {x}) <= Cardinality(before(x))
    BY <2>2, <2>4, FS_Subset
  <2>6. Cardinality(Claimed \ {x}) = Cardinality(Claimed) - 1
    BY <2>1, <2>4, FS_RemoveElement
  <2>7. Cardinality(before(x)) < cfg.batch
    BY <1>1, <2>1
  <2>8. Cardinality(Claimed) <= cfg.batch
    BY <2>4, <2>5, <2>6, <2>7
  <2>9. QED
    BY <1>2, <2>8
<1>5. QED
  BY <1>3, <1>4

\* A smaller set of rows has no more rows.
LEMMA NoMoreRows ==
  ASSUME NEW S \in SUBSET Rows, NEW T \in SUBSET S, NEW n \in Nat, Cardinality(S) <= n
  PROVE  Cardinality(T) <= n
<1>1. IsFiniteSet(S) /\ Cardinality(S) \in Nat /\ Cardinality(T) \in Nat
  BY RowsFinite
<1>2. Cardinality(T) <= Cardinality(S)
  BY <1>1, FS_Subset
<1>3. QED
  BY <1>1, <1>2

\* Reports stay reports when run() or a signal asks for the stop.
LEMMA ReportsGrow ==
  ASSUME errCh \in Seq(Reports), UNCHANGED errCh,
         stopped => stopped', ctxDone => ctxDone'
  PROVE  errCh' \in Seq(Reports')
<1>1. Reports \subseteq Reports'
  BY DEF Reports
<1>2. QED
  BY <1>1, SeqMonotonic

\* The event a publisher at work is at.
LEMMA CurrentType ==
  ASSUME TypeOK, batch # {}
  PROVE  Current \in batch /\ Current \in Rows
BY MinType DEF TypeOK, Current

LEMMA DroppedType ==
  ASSUME TypeOK
  PROVE  Dropped \subseteq Rows
BY DEF TypeOK, LeftBehind, Dropped

-----------------------------------------------------------------------------
(* Init *)

LEMMA InitIInv == ASSUME Init PROVE IInv
<1>1. TypeOK
  <2>1. NoConfig \in [brokers : SUBSET {"broker"}, batch : Nat, interval : Nat]
    BY DEF NoConfig
  <2>2. errCh \in Seq({"nil", "serve", "run"})
    BY EmptySeq DEF Init
  <2>3. QED
    BY <2>1, <2>2 DEF Init, TypeOK, StartErrors
<1>2. Phases
  BY DEF Init, Phases, Starting
<1>3. Requests
  BY DEF Init, Requests, Closing
<1>4. Closed
  BY DEF Init, Closed, Leaving
<1>5. Reported
  <2>1. errCh \in Seq(Reports)
    BY EmptySeq DEF Init
  <2>2. QED
    BY <2>1 DEF Init, Reported
<1>6. Batches
  <2>1. Dropped = {}
    BY DEF Init, LeftBehind, Dropped
  <2>2. Cardinality(Dropped \union batch) = 0
    BY <2>1, FS_EmptySet DEF Init
  <2>3. QED
    BY <2>1, <2>2 DEF Init, Batches, Working, NoConfig
<1>7. QED
  BY <1>1, <1>2, <1>3, <1>4, <1>5, <1>6 DEF IInv

-----------------------------------------------------------------------------
(* run() *)

\* Either there is no database to go to, or the config is a checked one.
LEMMA LoadConfigCases ==
  ASSUME LoadConfig
  PROVE  /\ main = "config"
         /\ \/ Return("config", "exited")
            \/ /\ Continue("connect")
               /\ UNCHANGED <<grpc, outbox>>
               /\ cfg' \in [brokers : SUBSET {"broker"}, batch : Nat, interval : Nat]
               /\ cfg'.interval > 0
<1>1. CASE Return("config", "exited")
  BY <1>1, Zenon DEF LoadConfig
<1>2. CASE \E s \in Settings :
             Continue("connect") /\ cfg' = Config(s) /\ UNCHANGED <<grpc, outbox>>
  BY <1>2, ConfigType, Zenon DEF LoadConfig
<1>3. QED
  BY <1>1, <1>2, Zenon DEF LoadConfig

\* The type invariant, one action at a time.
LEMMA RunType == ASSUME TypeOK, Run PROVE TypeOK'
<1> USE DEF TypeOK, StartErrors, grpc, outbox, resources, Return, Continue
<1>1. CASE LoadConfig
  BY <1>1, LoadConfigCases
<1>2. CASE Connect
  BY <1>2 DEF Connect
<1>3. CASE Ping
  BY <1>3 DEF Ping
<1>4. CASE Listen
  BY <1>4 DEF Listen
<1>5. CASE Receive
  <2>1. Head(errCh) \in {"nil", "serve", "run"} /\ Tail(errCh) \in Seq({"nil", "serve", "run"})
    BY <1>5, HeadTailProperties DEF Receive
  <2>2. QED
    BY <1>5, <2>1 DEF Receive
<1>6. CASE SignalReceived
  BY <1>6 DEF SignalReceived
<1>7. CASE StopAccepting \/ CloseWriter \/ ClosePool \/ Stop
  <2>1. /\ ctxDone' \in BOOLEAN /\ stopped' \in BOOLEAN
        /\ writerClosed' \in BOOLEAN /\ poolClosed' \in BOOLEAN
    BY <1>7, Zenon DEF StopAccepting, CloseWriter, ClosePool, Stop
  <2>2. QED
    BY <1>7, <2>1 DEF StopAccepting, CloseWriter, ClosePool, Stop
<1>8. CASE Stopped
  BY <1>8 DEF Stopped
<1>9. CASE WriterClosed \/ PoolClosed
  BY <1>9 DEF WriterClosed, PoolClosed
<1>10. CASE Exit
  BY <1>10 DEF Exit
<1>11. QED
  BY <1>1, <1>2, <1>3, <1>4, <1>5, <1>6, <1>7, <1>8, <1>9, <1>10 DEF Run

LEMMA RunPhases == ASSUME IInv, Run PROVE Phases'
<1> USE DEF Phases, Starting, grpc, outbox, resources, Return, Continue
<1>1. TypeOK /\ Phases /\ Requests /\ Reported
  BY DEF IInv
<1>2. CASE LoadConfig
  BY <1>1, <1>2, LoadConfigCases
<1>3. CASE Connect \/ Ping \/ Listen
  BY <1>1, <1>3 DEF Connect, Ping, Listen
<1>4. CASE Receive
  <2>1. Head(errCh) \in Reports
    BY <1>1, <1>4, HeadTailProperties DEF Receive, Reported
  <2>2. QED
    BY <1>1, <1>4, <2>1 DEF Receive, Reports
<1>5. CASE SignalReceived \/ StopAccepting \/ Stopped
  BY <1>1, <1>5 DEF SignalReceived, StopAccepting, Stopped
<1>6. CASE CloseWriter \/ WriterClosed \/ ClosePool \/ PoolClosed
  BY <1>1, <1>6 DEF CloseWriter, WriterClosed, ClosePool, PoolClosed
<1>7. CASE Stop \/ Exit
  BY <1>1, <1>7 DEF Stop, Exit
<1>8. QED
  BY <1>2, <1>3, <1>4, <1>5, <1>6, <1>7 DEF Run

LEMMA RunRequests == ASSUME IInv, Run PROVE Requests'
<1> USE DEF Requests, Starting, Closing, grpc, outbox, resources, Return, Continue
<1>1. TypeOK /\ Phases /\ Requests
  BY DEF IInv
<1>2. CASE LoadConfig \/ Connect \/ Ping \/ Listen
  BY <1>1, <1>2, LoadConfigCases DEF Connect, Ping, Listen, Phases, Starting
<1>3. CASE Receive \/ SignalReceived \/ StopAccepting \/ Stopped
  BY <1>1, <1>3 DEF Receive, SignalReceived, StopAccepting, Stopped
<1>4. CASE CloseWriter \/ WriterClosed \/ ClosePool \/ PoolClosed
  BY <1>1, <1>4 DEF CloseWriter, WriterClosed, ClosePool, PoolClosed
<1>5. CASE Stop \/ Exit
  BY <1>1, <1>5 DEF Stop, Exit
<1>6. QED
  BY <1>2, <1>3, <1>4, <1>5 DEF Run

LEMMA RunClosed == ASSUME IInv, Run PROVE Closed'
<1> USE DEF Closed, Leaving, grpc, outbox, resources, Return, Continue
<1>1. TypeOK /\ Phases /\ Closed /\ Reported
  BY DEF IInv
<1>2. CASE LoadConfig \/ Connect \/ Ping \/ Listen
  BY <1>1, <1>2, LoadConfigCases DEF Connect, Ping, Listen, Phases, Starting
<1>3. CASE Receive \/ SignalReceived
  BY <1>1, <1>3 DEF Receive, SignalReceived, Phases, Starting
<1>4. CASE StopAccepting \/ Stopped \/ CloseWriter \/ WriterClosed
  BY <1>1, <1>4 DEF StopAccepting, Stopped, CloseWriter, WriterClosed
<1>5. CASE ClosePool \/ PoolClosed \/ Stop \/ Exit
  BY <1>1, <1>5 DEF ClosePool, PoolClosed, Stop, Exit
<1>6. QED
  BY <1>2, <1>3, <1>4, <1>5 DEF Run

LEMMA RunReported == ASSUME IInv, Run PROVE Reported'
<1> USE DEF grpc, outbox, resources, Return, Continue
<1>1. TypeOK /\ Phases /\ Requests /\ Reported
  BY DEF IInv
<1>2. CASE Receive
  <2>1. Head(errCh) \in Reports /\ Tail(errCh) \in Seq(Reports)
    BY <1>1, <1>2, HeadTailProperties DEF Receive, Reported
  <2>2. Reports' = Reports
    BY <1>2 DEF Receive, Reports
  <2>3. ~stopped /\ (ctxDone => signaled)
    BY <1>1, <1>2 DEF Receive, Requests, Phases
  <2>4. Head(errCh) = "nil" => signaled
    BY <2>1, <2>3 DEF Reports
  <2>5. QED
    BY <1>1, <1>2, <2>1, <2>2, <2>4 DEF Receive, Reported, StartErrors, Reports
<1>3. CASE ~Receive
  <2>1. UNCHANGED errCh /\ (stopped => stopped') /\ (ctxDone => ctxDone')
    <3>1. CASE LoadConfig \/ Connect \/ Ping \/ Listen
      BY <3>1, LoadConfigCases DEF Connect, Ping, Listen
    <3>2. CASE SignalReceived \/ StopAccepting \/ Stopped \/ CloseWriter \/ WriterClosed
      BY <3>2 DEF SignalReceived, StopAccepting, Stopped, CloseWriter, WriterClosed
    <3>3. CASE ClosePool \/ PoolClosed \/ Stop \/ Exit
      BY <3>3 DEF ClosePool, PoolClosed, Stop, Exit
    <3>4. QED
      BY <1>3, <3>1, <3>2, <3>3 DEF Run
  <2>2. errCh' \in Seq(Reports')
    BY <1>1, <2>1, ReportsGrow DEF Reported
  <2>3. CASE LoadConfig \/ Connect \/ Ping \/ Listen
    BY <1>1, <2>2, <2>3, LoadConfigCases
    DEF Connect, Ping, Listen, Reported, StartErrors, Phases, Starting
  <2>4. CASE SignalReceived
    BY <1>1, <2>2, <2>4 DEF SignalReceived, Reported, Phases
  <2>5. CASE StopAccepting \/ Stopped \/ CloseWriter \/ WriterClosed
    BY <1>1, <2>2, <2>5 DEF StopAccepting, Stopped, CloseWriter, WriterClosed, Reported
  <2>6. CASE ClosePool \/ PoolClosed \/ Stop \/ Exit
    BY <1>1, <2>2, <2>6 DEF ClosePool, PoolClosed, Stop, Exit, Reported
  <2>7. QED
    BY <1>3, <2>3, <2>4, <2>5, <2>6 DEF Run
<1>4. QED
  BY <1>2, <1>3

\* Nothing is claimed, written or left behind until the publisher starts.
LEMMA NothingYet ==
  ASSUME TypeOK, Closed, Batches, publisher = "none"
  PROVE  batch = {} /\ Dropped = {}
<1>1. batch = {}
  BY DEF Batches, Working
<1>2. Dropped = {}
  <2>1. /\ \A r \in Rows : rows[r] = "new" /\ r \notin written
        /\ pending = {}
    BY DEF Batches, Closed
  <2>2. pending \union written = {}
    BY <2>1 DEF TypeOK
  <2>3. QED
    BY <2>1, <2>2 DEF LeftBehind, UnderWay, Dropped
<1>3. QED
  BY <1>1, <1>2

\* Steps that leave the publisher and the outbox alone.
LEMMA BatchesKept ==
  ASSUME TypeOK, Batches, UNCHANGED <<outbox, cfg>>,
         ctxDone => ctxDone', poolClosed => poolClosed'
  PROVE  Batches'
<1>1. Dropped' = Dropped
  BY DEF LeftBehind, UnderWay, Current, outbox, Dropped
<1>2. QED
  BY <1>1 DEF Batches, outbox

LEMMA RunBatches == ASSUME IInv, Run PROVE Batches'
<1> USE DEF grpc, outbox, resources, Return, Continue
<1>1. TypeOK /\ Phases /\ Closed /\ Batches
  BY DEF IInv
<1>2. TypeOK'
  BY <1>1, RunType
<1>3. CASE LoadConfig
  <2>1. publisher = "none" /\ UNCHANGED outbox
    BY <1>1, <1>3, LoadConfigCases DEF Phases, Starting
  <2>2. batch = {} /\ Dropped = {} /\ Dropped' = {}
    <3>1. Dropped' = Dropped
      BY <2>1 DEF LeftBehind, UnderWay, Current, Dropped
    <3>2. QED
      BY <1>1, <2>1, <3>1, NothingYet
  <2>3. Cardinality(Dropped' \union batch') <= cfg'.batch
    BY <1>2, <2>1, <2>2, FS_EmptySet DEF TypeOK
  <2>4. QED
    BY <1>1, <2>1, <2>2, <2>3 DEF Batches
<1>4. CASE Connect \/ Ping \/ (Listen /\ UNCHANGED publisher)
  BY <1>1, <1>4, BatchesKept DEF Connect, Ping, Listen
<1>5. CASE Listen /\ publisher' # publisher
  <2>1. /\ publisher = "none" /\ publisher' = "start"
        /\ UNCHANGED <<batch, rows, pending, written, failed, cfg>>
    BY <1>1, <1>5 DEF Listen, Phases, Starting
  <2>2. batch = {} /\ Dropped = {}
    BY <1>1, <2>1, NothingYet
  <2>3. Dropped' = Dropped
    BY <2>1 DEF LeftBehind, UnderWay, Dropped
  <2>4. QED
    BY <1>1, <2>1, <2>2, <2>3 DEF Batches, Working
<1>6. CASE Receive \/ SignalReceived \/ StopAccepting \/ Stopped \/ CloseWriter
  BY <1>1, <1>6, BatchesKept
  DEF Receive, SignalReceived, StopAccepting, Stopped, CloseWriter
<1>7. CASE WriterClosed \/ ClosePool \/ PoolClosed \/ Stop \/ Exit
  BY <1>1, <1>7, BatchesKept DEF WriterClosed, ClosePool, PoolClosed, Stop, Exit
<1>8. QED
  BY <1>3, <1>4, <1>5, <1>6, <1>7 DEF Run

LEMMA RunStep == ASSUME IInv, Run PROVE IInv'
<1>1. TypeOK'
  BY RunType DEF IInv
<1>2. QED
  BY <1>1, RunPhases, RunRequests, RunClosed, RunReported, RunBatches DEF IInv

-----------------------------------------------------------------------------
(* Signals, the server and its requests *)

LEMMA SignalStep == ASSUME IInv, Signal PROVE IInv'
<1> USE DEF Signal, grpc, outbox, resources
<1>1. TypeOK /\ Phases /\ Requests /\ Closed /\ Reported /\ Batches
  BY DEF IInv
<1>2. TypeOK'
  <2>1. signaled' \in BOOLEAN /\ ctxDone' \in BOOLEAN
    BY Zenon
  <2>2. QED
    BY <1>1, <2>1 DEF TypeOK
<1>3. Phases'
  BY <1>1 DEF Phases, Starting
<1>4. Requests'
  BY <1>1 DEF Requests, Starting, Closing
<1>5. Closed'
  BY <1>1 DEF Closed, Leaving
<1>6. Reported'
  <2>1. errCh' \in Seq(Reports')
    BY <1>1, ReportsGrow DEF Reported
  <2>2. QED
    BY <1>1, <2>1 DEF Reported
<1>7. Batches'
  BY <1>1, BatchesKept
<1>8. QED
  BY <1>2, <1>3, <1>4, <1>5, <1>6, <1>7 DEF IInv

\* A goroutine's report.
LEMMA SendType ==
  ASSUME NEW S, errCh \in Seq(S), NEW e \in S, Send(e)
  PROVE  errCh' \in Seq(S)
BY AppendProperties DEF Send

LEMMA ServerStep == ASSUME IInv, Server \/ ServeFails PROVE IInv'
<1> USE DEF Server, ServerGoto, grpc, outbox, resources
<1>1. TypeOK /\ Phases /\ Requests /\ Closed /\ Reported /\ Batches
  BY DEF IInv
<1>2. /\ UNCHANGED <<main, result, cfg, signaled, ctxDone, stopped, calls, outbox,
                     resources>>
      /\ server # "none"
      /\ server' \in {"serving", "sendNil", "sendError", "done"}
      /\ server' = "sendNil" => stopped
  BY DEF Serve, ServeReturns, ServeFails, ServerSends, Send
<1>3. errCh' \in Seq({"nil", "serve", "run"}) /\ errCh' \in Seq(Reports')
  <2>1. Reports' = Reports
    BY <1>2 DEF Reports
  <2>2. CASE ServerSends
    <3> DEFINE e == IF server = "sendNil" THEN "nil" ELSE "serve"
    <3>1. Send(e) /\ e \in {"nil", "serve", "run"} /\ e \in Reports
      BY <1>1, <2>2 DEF ServerSends, Reported, Reports
    <3>2. QED
      BY <1>1, <2>1, <3>1, SendType DEF TypeOK, Reported
  <2>3. CASE ~ServerSends
    BY <1>1, <2>1, <2>3 DEF Serve, ServeReturns, ServeFails, TypeOK, Reported
  <2>4. QED
    BY <2>2, <2>3
<1>4. TypeOK'
  BY <1>1, <1>2, <1>3 DEF TypeOK
<1>5. Phases'
  BY <1>1, <1>2 DEF Phases, Starting
<1>6. Requests'
  BY <1>1, <1>2 DEF Requests, Starting, Closing
<1>7. Closed'
  BY <1>1, <1>2 DEF Closed, Leaving
<1>8. Reported'
  BY <1>1, <1>2, <1>3 DEF Reported
<1>9. Batches'
  BY <1>1, <1>2, BatchesKept
<1>10. QED
  BY <1>4, <1>5, <1>6, <1>7, <1>8, <1>9 DEF IInv

LEMMA CallStep == ASSUME IInv, NEW c \in Calls, Accept(c) \/ Answer(c) PROVE IInv'
<1> USE DEF Accept, Answer, grpc, outbox, resources
<1>1. TypeOK /\ Phases /\ Requests /\ Closed /\ Reported /\ Batches
  BY DEF IInv
<1>2. UNCHANGED <<main, result, cfg, signaled, ctxDone, server, stopped, errCh, outbox,
                  resources>>
  OBVIOUS
<1>3. TypeOK'
  BY <1>1 DEF TypeOK
<1>4. Phases'
  BY <1>1, <1>2 DEF Phases, Starting
<1>5. Requests'
  <2>1. CASE Accept(c)
    <3>1. main \notin Closing /\ server # "none"
      BY <1>1, <2>1 DEF Requests
    <3>2. QED
      BY <1>1, <2>1, <3>1 DEF Requests, TypeOK
  <2>2. CASE Answer(c)
    <3>1. main \notin Closing
      BY <1>1, <2>2 DEF Requests
    <3>2. ~poolClosed
      BY <1>1, <3>1 DEF Closed, Leaving, Closing
    <3>3. QED
      BY <1>1, <2>2, <3>2 DEF Requests, TypeOK
  <2>3. QED
    BY <2>1, <2>2
<1>6. Closed'
  BY <1>1, <1>2 DEF Closed, Leaving
<1>7. Reported'
  BY <1>1, <1>2 DEF Reported, Reports
<1>8. Batches'
  BY <1>1, <1>2, BatchesKept
<1>9. QED
  BY <1>3, <1>4, <1>5, <1>6, <1>7, <1>8 DEF IInv

-----------------------------------------------------------------------------
(* The publisher *)

\* What no step of the publisher touches.
LEMMA PublisherKeeps ==
  ASSUME IInv, Publisher
  PROVE  /\ UNCHANGED <<main, result, cfg, signaled, ctxDone, grpc, resources>>
         /\ publisher # "none" /\ publisher' # "none" /\ publisher' # "sendError"
         /\ publisher' \in {"sendNil", "done"} => ctxDone
         /\ publisher' = "claiming" => publisher \in {"claim", "claiming"}
<1> USE DEF Goto, Send, process
<1>1. publisher = "start" => cfg.interval > 0
  BY DEF IInv, Phases
<1>2. CASE StartPublisher
  BY <1>1, <1>2 DEF StartPublisher
<1>3. CASE BeginClaim \/ Claim \/ ClaimFails
  BY <1>3 DEF BeginClaim, Claim, ClaimFails, NextEvent, AfterClaimError
<1>4. CASE BeginPublish \/ Publish
  BY <1>4 DEF BeginPublish, Publish
<1>5. CASE BeginMarkPublished \/ MarkPublished \/ MarkPublishedFails
  BY <1>5 DEF BeginMarkPublished, MarkPublished, MarkPublishedFails, NextEvent
<1>6. CASE BeginMarkFailed \/ MarkFailed \/ MarkFailedFails
  BY <1>6 DEF BeginMarkFailed, MarkFailed, MarkFailedFails, NextEvent
<1>7. CASE Wait
  BY <1>7 DEF Wait
<1>8. CASE PublisherSends
  BY <1>8 DEF PublisherSends, IInv, Reported, grpc, resources
<1>9. QED
  BY <1>2, <1>3, <1>4, <1>5, <1>6, <1>7, <1>8 DEF Publisher

\* The rows stay rows, in the states rows have.
LEMMA PublisherType == ASSUME IInv, Publisher PROVE TypeOK'
<1> USE DEF Goto, process
<1>1. TypeOK /\ Reported /\ Batches
  BY DEF IInv
<1>2. UNCHANGED <<main, result, cfg, signaled, ctxDone, grpc, resources>>
  BY PublisherKeeps
<1>3. Claimed \subseteq Rows
  BY DEF Claimed
<1>4. batch # {} => Current \in Rows
  BY <1>1, CurrentType
<1>5. /\ batch' \subseteq Rows
      /\ pending' \subseteq Rows
      /\ written' \subseteq Rows
      /\ rows' \in [Rows -> {"new", "leased", "published"}]
  <2>1. CASE StartPublisher
    BY <1>1, <2>1 DEF StartPublisher, TypeOK
  <2>2. CASE BeginClaim \/ Claim \/ ClaimFails
    BY <1>1, <1>3, <2>2 DEF BeginClaim, Claim, ClaimFails, Lease, NextEvent, TypeOK
  <2>3. CASE BeginPublish \/ Publish
    BY <1>1, <1>4, <2>3 DEF BeginPublish, Publish, Batches, Working, TypeOK
  <2>4. CASE BeginMarkPublished \/ MarkPublished \/ MarkPublishedFails
    BY <1>1, <2>4
    DEF BeginMarkPublished, MarkPublished, MarkPublishedFails, SetRow, NextEvent, TypeOK
  <2>5. CASE BeginMarkFailed \/ MarkFailed \/ MarkFailedFails
    BY <1>1, <2>5
    DEF BeginMarkFailed, MarkFailed, MarkFailedFails, SetRow, NextEvent, TypeOK
  <2>6. CASE Wait \/ PublisherSends
    BY <1>1, <2>6 DEF Wait, PublisherSends, Send, TypeOK
  <2>7. QED
    BY <2>1, <2>2, <2>3, <2>4, <2>5, <2>6 DEF Publisher
<1>6. publisher' \in {"start", "claim", "claiming", "publish", "writing", "markPublished",
                      "markingPublished", "markFailed", "markingFailed", "wait",
                      "sendNil", "sendError", "done"}
  <2>1. CASE StartPublisher
    BY <1>2, <2>1 DEF StartPublisher
  <2>2. CASE BeginClaim \/ Claim \/ ClaimFails
    BY <2>2 DEF BeginClaim, Claim, ClaimFails, NextEvent, AfterClaimError
  <2>3. CASE BeginPublish \/ Publish
    BY <2>3 DEF BeginPublish, Publish
  <2>4. CASE BeginMarkPublished \/ MarkPublished \/ MarkPublishedFails
    BY <2>4 DEF BeginMarkPublished, MarkPublished, MarkPublishedFails, NextEvent
  <2>5. CASE BeginMarkFailed \/ MarkFailed \/ MarkFailedFails
    BY <2>5 DEF BeginMarkFailed, MarkFailed, MarkFailedFails, NextEvent
  <2>6. CASE Wait \/ PublisherSends
    BY <2>6 DEF Wait, PublisherSends, Send
  <2>7. QED
    BY <2>1, <2>2, <2>3, <2>4, <2>5, <2>6 DEF Publisher
<1>7. errCh' \in Seq({"nil", "serve", "run"})
  <2>1. CASE PublisherSends
    <3>1. Send(IF publisher = "sendNil" THEN "nil" ELSE "run")
      BY <2>1 DEF PublisherSends
    <3>2. QED
      BY <1>1, <3>1, SendType DEF TypeOK
  <2>2. CASE ~PublisherSends
    <3>1. UNCHANGED errCh
      BY <2>2
      DEF Publisher, StartPublisher, BeginClaim, Claim, ClaimFails, BeginPublish, Publish,
          BeginMarkPublished, MarkPublished, MarkPublishedFails, BeginMarkFailed,
          MarkFailed, MarkFailedFails, Wait
    <3>2. QED
      BY <1>1, <3>1 DEF TypeOK
  <2>3. QED
    BY <2>1, <2>2
<1>8. failed' \subseteq Rows
  <2>1. \/ UNCHANGED failed
        \/ \E S \in {Claimed, {Current} \intersect written, batch, {Current}} :
              Blame(S) /\ S \subseteq Rows
    <3>1. CASE ClaimFails
      BY <1>3, <3>1 DEF ClaimFails
    <3>2. CASE Publish
      BY <1>1, <3>2 DEF Publish, TypeOK
    <3>3. CASE MarkPublishedFails
      BY <1>1, <3>3 DEF MarkPublishedFails, TypeOK
    <3>4. CASE MarkFailedFails
      BY <1>1, <1>4, <3>4 DEF MarkFailedFails, Batches, Working
    <3>5. CASE ~(ClaimFails \/ Publish \/ MarkPublishedFails \/ MarkFailedFails)
      BY <3>5 DEF Publisher, StartPublisher, BeginClaim, Claim, BeginPublish,
                  BeginMarkPublished, MarkPublished, BeginMarkFailed, MarkFailed, Wait,
                  PublisherSends, Send
    <3>6. QED
      BY <3>1, <3>2, <3>3, <3>4, <3>5
  <2>2. QED
    BY <1>1, <2>1 DEF Blame, TypeOK
<1>9. QED
  BY <1>1, <1>2, <1>5, <1>6, <1>7, <1>8 DEF TypeOK, grpc, resources

\* All but what concerns the batch.
LEMMA PublisherOthers ==
  ASSUME IInv, Publisher PROVE Phases' /\ Requests' /\ Closed' /\ Reported'
<1> USE DEF grpc, resources
<1>1. TypeOK /\ Phases /\ Requests /\ Closed /\ Reported
  BY DEF IInv
<1>2. /\ UNCHANGED <<main, result, cfg, signaled, ctxDone, grpc, resources>>
      /\ publisher # "none" /\ publisher' # "none" /\ publisher' # "sendError"
      /\ publisher' \in {"sendNil", "done"} => ctxDone
  BY PublisherKeeps
<1>3. Phases'
  BY <1>1, <1>2 DEF Phases, Starting
<1>4. Requests'
  BY <1>1, <1>2 DEF Requests, Starting, Closing
<1>5. Closed'
  <2>1. CASE BeginPublish /\ pending' # pending
    <3>1. ~writerClosed
      BY <2>1 DEF BeginPublish
    <3>2. main \notin Leaving \union {"closePool"}
      BY <1>1, <1>2, <3>1 DEF Closed
    <3>3. QED
      BY <1>1, <1>2, <3>2 DEF Closed
  <2>2. CASE UNCHANGED pending
    BY <1>1, <1>2, <2>2 DEF Closed
  <2>3. UNCHANGED pending \/ BeginPublish
    BY DEF Publisher, StartPublisher, BeginClaim, Claim, ClaimFails, Publish,
           BeginMarkPublished, MarkPublished, MarkPublishedFails, BeginMarkFailed,
           MarkFailed, MarkFailedFails, Wait, PublisherSends, Send
  <2>4. QED
    BY <2>1, <2>2, <2>3
<1>6. Reported'
  <2>1. Reports' = Reports
    BY <1>2 DEF Reports
  <2>2. CASE PublisherSends
    <3>1. publisher = "sendNil" /\ Send("nil")
      BY <1>1, <2>2 DEF PublisherSends, Reported
    <3>2. "nil" \in Reports
      BY <1>1, <3>1 DEF Reports, Reported
    <3>3. errCh' \in Seq(Reports)
      BY <1>1, <3>1, <3>2, SendType DEF Reported
    <3>4. QED
      BY <1>1, <1>2, <2>1, <3>3 DEF Reported
  <2>3. CASE UNCHANGED errCh
    BY <1>1, <1>2, <2>1, <2>3 DEF Reported
  <2>4. UNCHANGED errCh \/ PublisherSends
    BY DEF Publisher, StartPublisher, BeginClaim, Claim, ClaimFails, BeginPublish, Publish,
           BeginMarkPublished, MarkPublished, MarkPublishedFails, BeginMarkFailed,
           MarkFailed, MarkFailedFails, Wait, process
  <2>5. QED
    BY <2>2, <2>3, <2>4
<1>7. QED
  BY <1>3, <1>4, <1>5, <1>6

\* A dropped row is leased and in nobody's batch, or in the writer or the topic
\* without a mark and without anybody about to mark it, and no failure was about it.
LEMMA InDropped ==
  ASSUME TypeOK, NEW r
  PROVE  r \in Dropped <=>
           /\ r \in Rows /\ r \notin failed
           /\ \/ rows[r] = "leased" /\ r \notin batch
              \/ /\ r \in pending \union written /\ r \notin UnderWay
                 /\ rows[r] # "published"
BY DEF TypeOK, LeftBehind, Dropped

\* Only a failure with nothing stopping is blamed on rows.
LEMMA Blamed ==
  ASSUME NEW S, Blame(S)
  PROVE  failed \subseteq failed' /\ (S \subseteq failed' \/ ctxDone \/ poolClosed)
BY DEF Blame

\* Steps that claim nothing drop no more than what they had in hand, and that only
\* after a stop.
LEMMA BatchesFollow ==
  ASSUME TypeOK, TypeOK', Batches,
         UNCHANGED <<cfg, ctxDone, poolClosed>>,
         publisher' \notin {"none", "claiming"},
         publisher' \in Working <=> batch' # {},
         batch' \subseteq batch,
         \A r \in batch' : rows'[r] = "leased",
         \A r \in Dropped' :
           r \in Dropped \/ (r \in batch /\ (ctxDone \/ poolClosed))
  PROVE  Batches'
<1>1. Dropped \union batch \in SUBSET Rows
  BY DroppedType DEF TypeOK
<1>2. Dropped' \union batch' \in SUBSET (Dropped \union batch)
  OBVIOUS
<1>3. cfg.batch \in Nat /\ Cardinality(Dropped \union batch) <= cfg.batch
  BY DEF TypeOK, Batches
<1>4. Cardinality(Dropped' \union batch') <= cfg.batch
  BY <1>1, <1>2, <1>3, NoMoreRows
<1>5. Dropped' # {} => ctxDone' \/ poolClosed'
  BY DEF Batches
<1>6. QED
  BY <1>4, <1>5 DEF Batches

\* A claim: whoever claims has nothing in hand and has dropped nothing.
LEMMA ClaimBatches == ASSUME IInv, Claim \/ ClaimFails PROVE Batches'
<1> USE DEF Goto, process
<1>1. TypeOK /\ Batches
  BY DEF IInv
<1>2. TypeOK'
  BY PublisherType DEF Publisher
<1>3. /\ publisher = "claiming" /\ publisher' \notin {"none", "claiming"}
      /\ UNCHANGED <<cfg, ctxDone, poolClosed, pending, written>>
  BY DEF Claim, ClaimFails, NextEvent, AfterClaimError, resources
<1>4. batch = {} /\ Dropped = {}
  BY <1>1, <1>3 DEF Batches, Working
<1>5. UnderWay = {}
  BY <1>3 DEF UnderWay
<1>6. \A r \in Claimed : r \in Rows /\ rows[r] = "new"
  BY DEF Claimed
<1>7. Claimed \subseteq Rows /\ Cardinality(Claimed) <= cfg.batch
  BY <1>1, ClaimedSize DEF TypeOK
<1>8. CASE Claim
  <2>1. batch' = Claimed /\ publisher' \in {"wait", "publish"}
        /\ (publisher' = "wait" <=> batch' = {}) /\ UNCHANGED failed
    BY <1>8 DEF Claim, NextEvent
  <2>2. \A r \in Rows : rows'[r] = IF r \in Claimed THEN "leased" ELSE rows[r]
    BY <1>8 DEF Claim, Lease
  <2>3. UnderWay' = {}
    BY <2>1 DEF UnderWay
  <2>4. Dropped' = {}
    <3> SUFFICES ASSUME NEW r \in Dropped' PROVE FALSE
      OBVIOUS
    <3>1. /\ r \in Rows /\ r \notin failed
          /\ \/ rows'[r] = "leased" /\ r \notin batch'
             \/ r \in pending' \union written' /\ rows'[r] # "published"
      BY <1>2, <2>1 DEF TypeOK, LeftBehind, Dropped
    <3>2. r \in Dropped
      BY <1>1, <1>3, <1>4, <1>5, <1>6, <2>1, <2>2, <3>1, InDropped
    <3>3. QED
      BY <1>4, <3>2
  <2>5. Cardinality(Dropped' \union batch') <= cfg'.batch
    BY <1>3, <1>7, <2>1, <2>4
  <2>6. QED
    BY <1>3, <1>6, <2>1, <2>2, <2>4, <2>5 DEF Batches, Working
<1>9. CASE ClaimFails
  <2>1. batch' = {} /\ publisher' = "wait"
    BY <1>4, <1>9 DEF ClaimFails, AfterClaimError
  <2>2. UnderWay' = {}
    BY <2>1 DEF UnderWay
  <2>3. CASE UNCHANGED <<rows, failed>>
    <3>1. Dropped' = Dropped
      BY <1>3, <1>4, <1>5, <2>1, <2>2, <2>3 DEF LeftBehind, Dropped
    <3>2. QED
      BY <1>1, <1>3, <1>4, <2>1, <3>1 DEF Batches, Working
  <2>4. CASE Lease /\ Blame(Claimed)
    <3>1. \A r \in Rows : rows'[r] = IF r \in Claimed THEN "leased" ELSE rows[r]
      BY <2>4 DEF Lease
    <3>2. failed \subseteq failed' /\ (Claimed \subseteq failed' \/ ctxDone \/ poolClosed)
      BY <2>4, Blamed
    <3>3. Dropped' \subseteq Claimed
      <4> SUFFICES ASSUME NEW r \in Dropped', r \notin Claimed PROVE FALSE
        OBVIOUS
      <4>1. /\ r \in Rows /\ r \notin failed'
            /\ \/ rows'[r] = "leased"
               \/ r \in pending' \union written' /\ rows'[r] # "published"
        BY <1>2 DEF TypeOK, LeftBehind, Dropped
      <4>2. r \in Dropped
        BY <1>1, <1>3, <1>4, <1>5, <3>1, <3>2, <4>1, InDropped
      <4>3. QED
        BY <1>4, <4>2
    <3>4. Dropped' # {} => ctxDone \/ poolClosed
      BY <3>2, <3>3 DEF Dropped
    <3>5. Dropped' \union batch' \in SUBSET Claimed
      BY <2>1, <3>3
    <3>6. Cardinality(Dropped' \union batch') <= cfg'.batch
      BY <1>1, <1>3, <1>7, <3>5, NoMoreRows DEF TypeOK
    <3>7. QED
      BY <1>3, <2>1, <3>4, <3>6 DEF Batches, Working
  <2>5. QED
    BY <1>9, <2>3, <2>4 DEF ClaimFails
<1>10. QED
  BY <1>8, <1>9

\* The steps in between: nothing in hand changes.
LEMMA IdleBatches ==
  ASSUME IInv, StartPublisher \/ BeginClaim \/ Wait \/ PublisherSends
  PROVE  Batches'
<1> USE DEF Goto, process
<1>1. TypeOK /\ Phases /\ Batches
  BY DEF IInv
<1>2. /\ publisher \notin Working /\ publisher' \notin Working
      /\ UNCHANGED <<cfg, ctxDone, poolClosed, batch, rows, pending, written, failed>>
      /\ publisher' # "none"
      /\ publisher' = "claiming" => ~CallFails
  <2>1. publisher = "start" => cfg.interval > 0
    BY <1>1 DEF Phases
  <2>2. CASE StartPublisher
    BY <2>1, <2>2 DEF StartPublisher, resources, Working
  <2>3. CASE BeginClaim \/ Wait
    BY <2>3 DEF BeginClaim, Wait, resources, Working
  <2>4. CASE PublisherSends
    BY <2>4 DEF PublisherSends, Send, resources, Working
  <2>5. QED
    BY <2>2, <2>3, <2>4
<1>3. UnderWay = {} /\ UnderWay' = {}
  BY <1>2 DEF UnderWay, Working
<1>4. Dropped' = Dropped
  BY <1>2, <1>3 DEF LeftBehind, Dropped
<1>5. QED
  BY <1>1, <1>2, <1>4 DEF Batches, CallFails

\* Publishing: the message at hand may be left with the writer.
LEMMA PublishBatches == ASSUME IInv, BeginPublish \/ Publish PROVE Batches'
<1> USE DEF Goto, process
<1>1. TypeOK /\ Batches
  BY DEF IInv
<1>2. TypeOK'
  BY PublisherType DEF Publisher
<1>3. /\ publisher \in {"publish", "writing"}
      /\ publisher' \in {"writing", "markPublished", "markFailed"}
      /\ UNCHANGED <<cfg, ctxDone, poolClosed, batch, rows, written>>
      /\ failed \subseteq failed'
  BY Blamed DEF BeginPublish, Publish, resources
<1>4. Current' = Current /\ Current \in batch /\ Current \in Rows
  BY <1>1, <1>3, CurrentType DEF Current, Batches, Working
<1>5. \A r \in Dropped' : r \in Dropped \/ (r \in batch /\ (ctxDone \/ poolClosed))
  <2> SUFFICES ASSUME NEW r \in Dropped', r \notin Dropped
               PROVE  r \in batch /\ (ctxDone \/ poolClosed)
    OBVIOUS
  <2>1. /\ r \in Rows /\ r \notin failed'
        /\ \/ rows'[r] = "leased" /\ r \notin batch'
           \/ /\ r \in pending' \union written' /\ r \notin UnderWay'
              /\ rows'[r] # "published"
    BY <1>2 DEF TypeOK, LeftBehind, Dropped
  <2>2. /\ ~(rows[r] = "leased" /\ r \notin batch)
        /\ r \in pending \union written /\ rows[r] # "published" => r \in UnderWay
    BY <1>1, <1>3, <2>1, InDropped
  <2>3. r \in pending' \union written' /\ r \notin UnderWay' /\ rows[r] # "published"
    BY <1>3, <2>1, <2>2
  <2>4. r \notin pending \union written \/ r \in UnderWay
    BY <2>2, <2>3
  <2>5. CASE BeginPublish
    <3>1. pending' = pending \/ (pending' = pending \union {Current} /\ publisher' = "writing")
      BY <2>5 DEF BeginPublish
    <3>2. UnderWay = {}
      BY <2>5 DEF BeginPublish, UnderWay
    <3>3. QED
      BY <1>3, <1>4, <2>3, <2>4, <3>1, <3>2 DEF UnderWay
  <2>6. CASE Publish
    <3>1. pending' = pending /\ UnderWay = {Current}
      BY <2>6 DEF Publish, UnderWay
    <3>2. r = Current
      BY <1>3, <2>3, <2>4, <3>1
    <3>3. publisher' # "markPublished"
      BY <1>4, <2>3, <3>2 DEF UnderWay
    <3>4. (Current \notin pending \/ ctxDone) /\ Blame({Current} \intersect written)
      BY <2>6, <3>3 DEF Publish
    <3>5. CASE ctxDone
      BY <1>4, <3>2, <3>5
    <3>6. CASE Current \notin pending
      <4>1. r \in {Current} \intersect written
        BY <1>3, <2>3, <3>1, <3>2, <3>6
      <4>2. QED
        BY <1>4, <2>1, <3>2, <3>4, <4>1, Blamed
    <3>7. QED
      BY <3>4, <3>5, <3>6
  <2>7. QED
    BY <2>5, <2>6
<1>6. batch # {}
  BY <1>4
<1>7. QED
  BY <1>1, <1>2, <1>3, <1>5, <1>6, BatchesFollow DEF Batches, Working

\* Marking: an event in hand is marked; it is dropped only after a stop.
LEMMA MarkBatches ==
  ASSUME IInv, \/ BeginMarkPublished \/ MarkPublished \/ MarkPublishedFails
               \/ BeginMarkFailed \/ MarkFailed \/ MarkFailedFails
  PROVE  Batches'
<1> USE DEF Goto, process
<1>1. TypeOK /\ Batches
  BY DEF IInv
<1>2. TypeOK'
  BY PublisherType DEF Publisher
<1>3. /\ publisher \in {"markPublished", "markingPublished", "markFailed",
                        "markingFailed"}
      /\ UNCHANGED <<cfg, ctxDone, poolClosed, pending, written>>
  BY DEF BeginMarkPublished, MarkPublished, MarkPublishedFails, BeginMarkFailed,
         MarkFailed, MarkFailedFails, resources
<1>4. Current \in batch /\ Current \in Rows
  BY <1>1, <1>3, CurrentType DEF Batches, Working
<1>5. /\ publisher' \notin {"none", "claiming"}
      /\ publisher' \in Working <=> batch' # {}
      /\ batch' \subseteq batch
  <2>1. CASE BeginMarkPublished
    BY <1>4, <2>1 DEF BeginMarkPublished, Working
  <2>2. CASE MarkPublished
    BY <2>2 DEF MarkPublished, NextEvent, Working
  <2>3. CASE MarkPublishedFails
    BY <2>3 DEF MarkPublishedFails, Working
  <2>4. CASE BeginMarkFailed
    BY <1>4, <2>4 DEF BeginMarkFailed, NextEvent, Working
  <2>5. CASE MarkFailed \/ MarkFailedFails
    BY <2>5 DEF MarkFailed, MarkFailedFails, NextEvent, Working
  <2>6. QED
    BY <2>1, <2>2, <2>3, <2>4, <2>5
<1>6. \/ UNCHANGED rows
      \/ /\ rows' \in {[rows EXCEPT ![Current] = "published"],
                       [rows EXCEPT ![Current] = "new"]}
         /\ Current \notin batch'
  BY DEF BeginMarkPublished, MarkPublished, MarkPublishedFails, BeginMarkFailed,
         MarkFailed, MarkFailedFails, SetRow, NextEvent
<1>7. \A r \in batch' : rows'[r] = "leased"
  BY <1>1, <1>4, <1>5, <1>6 DEF TypeOK, Batches
<1>8. failed \subseteq failed'
  BY Blamed DEF BeginMarkPublished, MarkPublished, MarkPublishedFails, BeginMarkFailed,
                MarkFailed, MarkFailedFails
<1>9. \A r \in Dropped' : r \in Dropped \/ (r \in batch /\ (ctxDone \/ poolClosed))
  <2> SUFFICES ASSUME NEW r \in Dropped', r \notin Dropped
               PROVE  r \in batch /\ (ctxDone \/ poolClosed)
    OBVIOUS
  <2>1. /\ r \in Rows /\ r \notin failed'
        /\ \/ rows'[r] = "leased" /\ r \notin batch'
           \/ /\ r \in pending' \union written' /\ r \notin UnderWay'
              /\ rows'[r] # "published"
    BY <1>2 DEF TypeOK, LeftBehind, Dropped
  <2>2. /\ ~(rows[r] = "leased" /\ r \notin batch)
        /\ r \in pending \union written /\ rows[r] # "published" => r \in UnderWay
    BY <1>1, <1>8, <2>1, InDropped
  <2>3. r # Current => rows'[r] = rows[r]
    BY <1>1, <1>4, <1>6, <2>1 DEF TypeOK
  <2>4. r \in batch
    BY <1>3, <1>4, <2>1, <2>2, <2>3 DEF UnderWay
  <2>5. CASE BeginMarkPublished
    <3>1. CASE ~CallFails
      <4>1. UNCHANGED <<batch, rows>> /\ publisher' = "markingPublished"
        BY <2>5, <3>1 DEF BeginMarkPublished
      <4>2. UnderWay' = UnderWay
        BY <2>5, <4>1 DEF BeginMarkPublished, UnderWay, Current
      <4>3. QED
        BY <1>3, <2>1, <2>2, <4>1, <4>2
    <3>2. QED
      BY <2>4, <3>1 DEF CallFails
  <2>6. CASE MarkPublished
    <3>1. r # Current
      BY <1>1, <1>4, <2>1, <2>6 DEF MarkPublished, SetRow, NextEvent, TypeOK
    <3>2. UnderWay = {Current}
      BY <2>6 DEF MarkPublished, UnderWay
    <3>3. ~(rows'[r] = "leased" /\ r \notin batch')
      BY <2>2, <2>3, <2>6, <3>1 DEF MarkPublished, NextEvent
    <3>4. QED
      BY <1>3, <2>1, <2>2, <2>3, <3>1, <3>2, <3>3
  <2>7. CASE MarkPublishedFails
    BY <2>1, <2>4, <2>7, Blamed DEF MarkPublishedFails
  <2>8. CASE BeginMarkFailed
    <3>1. UnderWay = {}
      BY <2>8 DEF BeginMarkFailed, UnderWay
    <3>2. ~CallFails => UNCHANGED <<batch, rows>>
      BY <2>8 DEF BeginMarkFailed
    <3>3. QED
      BY <1>3, <2>1, <2>2, <2>4, <3>1, <3>2, <2>8 DEF BeginMarkFailed, CallFails
  <2>9. CASE MarkFailed \/ MarkFailedFails
    <3>1. UnderWay = {}
      BY <2>9 DEF MarkFailed, MarkFailedFails, UnderWay
    <3>2. rows[Current] = "leased"
      BY <1>1, <1>4 DEF Batches
    <3>3. ~(r \in pending \union written /\ rows[r] # "published")
      BY <2>2, <3>1
    <3>4. rows'[r] = "leased" /\ r \notin batch'
      BY <1>1, <1>3, <1>4, <2>1, <2>3, <3>2, <3>3
    <3>5. r = Current
      BY <2>4, <2>9, <3>4 DEF MarkFailed, MarkFailedFails, NextEvent
    <3>6. ~MarkFailed
      BY <1>1, <1>4, <3>4, <3>5 DEF MarkFailed, SetRow, TypeOK
    <3>7. Blame({Current})
      BY <2>9, <3>6 DEF MarkFailedFails
    <3>8. QED
      BY <2>1, <2>4, <3>5, <3>7, Blamed
  <2>10. QED
    BY <2>5, <2>6, <2>7, <2>8, <2>9
<1>10. QED
  BY <1>1, <1>2, <1>3, <1>5, <1>7, <1>9, BatchesFollow

LEMMA PublisherStep == ASSUME IInv, Publisher PROVE IInv'
<1>1. TypeOK' /\ Phases' /\ Requests' /\ Closed' /\ Reported'
  BY PublisherType, PublisherOthers
<1>2. Batches'
  BY IdleBatches, ClaimBatches, PublishBatches, MarkBatches DEF Publisher
<1>3. QED
  BY <1>1, <1>2 DEF IInv

LEMMA WriteStep == ASSUME IInv, NEW r \in Rows, Write(r) PROVE IInv'
<1> USE DEF Write, process, grpc, resources
<1>1. TypeOK /\ Phases /\ Requests /\ Closed /\ Reported /\ Batches
  BY DEF IInv
<1>2. /\ UNCHANGED <<main, result, cfg, signaled, ctxDone, grpc, errCh, resources,
                     publisher, batch, rows, failed>>
      /\ pending # {} /\ publisher # "none"
      /\ pending' \subseteq pending
      /\ pending' \union written' \subseteq pending \union written
  BY <1>1 DEF Closed
<1>3. TypeOK'
  BY <1>1 DEF TypeOK
<1>4. Phases' /\ Requests'
  BY <1>1, <1>2 DEF Phases, Requests, Starting, Closing
<1>5. Closed'
  BY <1>1, <1>2 DEF Closed, Leaving
<1>6. Reported'
  BY <1>1, <1>2 DEF Reported, Reports
<1>7. Batches'
  <2>1. UnderWay' = UnderWay
    BY <1>2 DEF UnderWay, Current
  <2>2. Dropped' \subseteq Dropped
    BY <1>2, <2>1 DEF LeftBehind, Dropped
  <2>3. Dropped' \union batch' \in SUBSET (Dropped \union batch)
    BY <1>2, <2>2
  <2>4. Dropped \union batch \in SUBSET Rows
    BY <1>1, DroppedType DEF TypeOK
  <2>5. Cardinality(Dropped' \union batch') <= cfg.batch
    BY <1>1, <2>3, <2>4, NoMoreRows DEF TypeOK, Batches
  <2>6. QED
    BY <1>1, <1>2, <2>2, <2>5 DEF Batches
<1>8. QED
  BY <1>3, <1>4, <1>5, <1>6, <1>7 DEF IInv

-----------------------------------------------------------------------------
(* The theorems *)

LEMMA NextStep == ASSUME IInv, [Next]_vars PROVE IInv'
<1>1. CASE Next
  BY <1>1, RunStep, SignalStep, ServerStep, CallStep, PublisherStep, WriteStep DEF Next
<1>2. CASE UNCHANGED vars
  <2>1. /\ TypeOK' /\ Phases' /\ Requests' /\ Closed'
    BY <1>2 DEF IInv, vars, TypeOK, Phases, Requests, Closed
  <2>2. Reported'
    BY <1>2 DEF IInv, vars, Reported, Reports
  <2>3. Batches'
    BY <1>2, BatchesKept DEF IInv, vars, outbox
  <2>4. QED
    BY <2>1, <2>2, <2>3 DEF IInv
<1>3. QED
  BY <1>1, <1>2

\* The inductive invariant of the process: its phases, resources, reports and what
\* its publisher leaves behind.
THEOREM Invariance == Spec => []IInv
BY InitIInv, NextStep, PTL DEF Spec

\* Every variable keeps its type, in every environment.
THEOREM TypeCorrect == Spec => []TypeOK
<1>1. IInv => TypeOK
  BY DEF IInv
<1>2. QED
  BY <1>1, Invariance, PTL

\* A request the server accepted never finds the pool closed and is never cut off
\* by the end of the process.
THEOREM RequestsFinish == Spec => []HandlersFinish
<1>1. IInv => HandlersFinish
  BY DEF IInv, Requests, HandlersFinish
<1>2. QED
  BY <1>1, Invariance, PTL

\* The exit status tells a stop that was asked for from a failure.
THEOREM ExitCorrect == Spec => []ExitTruthful
<1>1. ASSUME IInv PROVE ExitTruthful
  <2>1. main = "exited" => result # "none"
    BY <1>1 DEF IInv, Phases, Starting
  <2>2. main = "exited" => pending = {} /\ \A c \in Calls : calls[c] # "running"
    BY <1>1 DEF IInv, Closed, Leaving, Requests, Closing
  <2>3. main = "exited" /\ result = "nil" => signaled /\ writerClosed /\ poolClosed
    BY <1>1 DEF IInv, Closed, Leaving, Reported
  <2>4. result \in StartErrors \union {"none", "nil", "serve"}
    BY <1>1 DEF IInv, Reported
  <2>5. QED
    BY <2>1, <2>2, <2>3, <2>4 DEF ExitTruthful
<1>2. QED
  BY <1>1, Invariance, PTL

\* No error ends the publisher's loop.
THEOREM PublisherCorrect == Spec => []PublisherGoesOn
<1>1. IInv => PublisherGoesOn
  BY DEF IInv, Reported, PublisherGoesOn
<1>2. QED
  BY <1>1, Invariance, PTL

\* Whenever the stop comes, and whatever has failed before, what it leaves behind is
\* one batch at most; without a stop only failed calls leave anything behind.
THEOREM StopCorrect == Spec => []StopLeavesAtMostABatch
<1>1. ASSUME IInv PROVE StopLeavesAtMostABatch
  <2>1. TypeOK /\ Batches
    BY <1>1 DEF IInv
  <2>2. Dropped \union batch \in SUBSET Rows /\ cfg.batch \in Nat
    BY <2>1, DroppedType DEF TypeOK
  <2>3. Cardinality(Dropped) <= cfg.batch
    BY <2>1, <2>2, NoMoreRows DEF Batches
  <2>4. QED
    BY <2>1, <2>3 DEF Batches, StopLeavesAtMostABatch
<1>2. QED
  BY <1>1, Invariance, PTL
=============================================================================
