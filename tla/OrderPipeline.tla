--------------------------- MODULE OrderPipeline ---------------------------
(***************************************************************************)
(* Requests and publishers together: OrderStore's transactions put rows in *)
(* order_outbox, OutboxRelay's workers carry them to Kafka.  The two meet  *)
(* in that table and nowhere else: a row can be claimed from the commit    *)
(* that inserts it.                                                        *)
(*                                                                         *)
(* OutboxRelay numbers the rows by created_at, which is when their         *)
(* transaction began.  ByAge tells which row will have which number; the   *)
(* transactions may still begin and commit in any order, so the model      *)
(* allows, for each ByAge, more than the database does.                    *)
(***************************************************************************)
EXTENDS OrderStore, Sequences

CONSTANTS
  ByAge,   \* the rows the orders may get in order_outbox, by created_at
  Workers, BatchSize, NumPartitions, Poison, MaxFaults, None   \* see OutboxRelay

RowOf(e) == [order |-> e.order, type |-> e.type]

Events == DOMAIN ByAge

\* An order has one row of either type: whoever updates it read it, so its create
\* had begun, and committed, before.
ASSUME ByAgeAssumption ==
  /\ ByAge \in Seq([order : Creators, type : {"orders.created", "orders.updated"}])
  /\ \A o \in Creators : \E m, n \in Events :
       /\ m < n
       /\ ByAge[m] = [order |-> o, type |-> "orders.created"]
       /\ ByAge[n] = [order |-> o, type |-> "orders.updated"]
  /\ \A m, n \in Events : ByAge[m] = ByAge[n] => m = n

ASSUME PublishersAssumption ==
  /\ BatchSize \in Nat \ {0}
  /\ NumPartitions \in Nat \ {0}
  /\ MaxFaults \in Nat
  /\ Poison \subseteq Events
  /\ None \notin Workers

VARIABLES
  published, lockedBy, expired, locked, batch, doing, topic, turn, faults, suspect,
  stalled

relayVars == <<published, lockedBy, expired, locked, batch, doing, topic, turn, faults,
               suspect, stalled>>

Number(e) == CHOOSE n \in Events : ByAge[n] = RowOf(e)

\* What ClaimUnpublished can see.
visible == {Number(e) : e \in outbox}

R == INSTANCE OutboxRelay WITH
       NumEvents <- Len(ByAge),
       OrderOf <- [n \in Events |-> ByAge[n].order],
       pc <- doing

PipelineInit ==
  /\ Init
  /\ published = {}
  /\ lockedBy = [n \in Events |-> None]
  /\ expired = {}
  /\ locked = [w \in Workers |-> {}]
  /\ batch = [w \in Workers |-> {}]
  /\ doing = [w \in Workers |-> "idle"]
  /\ topic = <<>>
  /\ turn = [w \in Workers |-> 0]
  /\ faults = 0
  /\ suspect = {}
  /\ stalled = {}

Request(r) ==
  /\ Step(r) \/ CommitUnacknowledged(r) \/ Fail(r)
  /\ UNCHANGED relayVars

Relay ==
  /\ UNCHANGED vars
  /\ \/ \E n \in Events : R!Lapse(n)
     \/ \E w \in Workers : R!Work(w) \/ R!Trouble(w)

PipelineNext == (\E r \in Requests : Request(r)) \/ Relay

allVars == <<vars, relayVars>>

PipelineSpec == PipelineInit /\ [][PipelineNext]_allVars

Serving(w) == UNCHANGED vars /\ R!Work(w)

Taken(w, n) == UNCHANGED vars /\ R!PublishAck(w) /\ R!Current(w) = n

Lapsing(n) == UNCHANGED vars /\ R!Orphaned(n) /\ R!Lapse(n)

\* The fairness of OrderStore and of OutboxRelay.
FairPipelineSpec ==
  /\ PipelineSpec
  /\ \A r \in Requests : WF_allVars(InFlight(r) /\ Step(r) /\ UNCHANGED relayVars)
  /\ \A w \in Workers : WF_allVars(Serving(w))
  /\ \A w \in Workers, n \in Events : SF_allVars(Taken(w, n))
  /\ \A n \in Events : WF_allVars(Lapsing(n))

-----------------------------------------------------------------------------
(* Properties *)

Heard(o, type) ==
  \E i \in DOMAIN topic : ByAge[topic[i].event] = [order |-> o, type |-> type]

Ended(o) == orders[o].status \in {"FILLED", "CANCELED"}

\* Whatever request fails at whatever statement, Kafka never hears of an order or
\* of an end of one that is not in the orders table, and what it hears of an end is
\* how the order ended.
TopicTellsTruth ==
  \A o \in Creators :
     /\ Heard(o, "orders.created") => Exists(o)
     /\ Heard(o, "orders.updated") =>
          Ended(o) /\ AnnouncedOnce(o, "orders.updated", orders[o].status)

\* Every order that is stored, and every end of one, reaches Kafka in the end,
\* whether or not its caller was told and past a crash of a publisher.
AnnouncedInTheEnd ==
  <>[](\A o \in Creators :
         /\ Exists(o) => Heard(o, "orders.created")
         /\ Ended(o) => Heard(o, "orders.updated"))

\* The requests offer the relay its rows as OutboxRelay assumes: one at a time,
\* an order's creation first, and never taking one back.
RefinesRelay == R!Spec
=============================================================================
