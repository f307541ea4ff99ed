---------------------------- MODULE OutboxRelay ----------------------------
(***************************************************************************)
(* The outbox publishers (events/publisher.go), the delivery columns of    *)
(* order_outbox they lease rows with (the Claim, MarkPublished and         *)
(* MarkFailed statements of sqlc/order.sql.go) and the Kafka topic they    *)
(* write to (events/kafka_publisher.go).                                   *)
(*                                                                         *)
(* A worker is one run of the service process: its random workerID is used *)
(* once, so a restart is another worker, idle until then.  Events are      *)
(* numbered by their created_at, which is when their transaction began,    *)
(* not when it committed.  retry_count and last_error are left out:        *)
(* nothing reads them.                                                     *)
(***************************************************************************)
EXTENDS Integers, Sequences, FiniteSetsExt

CONSTANTS
  Workers,        \* publisher runs, over all time
  NumEvents,      \* outbox rows ever inserted
  OrderOf,        \* the order an event is about; its symbol is the message key
  BatchSize,      \* OUTBOX_BATCH_SIZE
  NumPartitions,  \* partitions of the orders topic
  Poison,         \* events Kafka never accepts, such as oversized messages
  MaxFaults,      \* bound on crashes, lost answers and leases lapsing under work
  None            \* no worker: locked_by is NULL

Events == 1..NumEvents

ASSUME RelayAssumption ==
  /\ NumEvents \in Nat
  /\ BatchSize \in Nat \ {0}
  /\ NumPartitions \in Nat \ {0}
  /\ MaxFaults \in Nat
  /\ Poison \subseteq Events
  /\ None \notin Workers
  /\ DOMAIN OrderOf = Events

VARIABLES
  visible,    \* rows whose transaction has committed
  published,  \* rows with published_at set
  lockedBy,   \* locked_by of each row
  expired,    \* leased rows whose locked_at is older than lockTimeout
  locked,     \* rows a worker's claim under way has locked and not yet leased
  batch,      \* events a worker has claimed and not yet been through
  pc,         \* what a worker does next, with the oldest event of its batch
  topic,      \* the messages Kafka has appended, with their partitions
  turn,       \* the partition a worker's writer takes next
  faults,     \* faults so far
  suspect,    \* history: events whose lease lapsed or whose write was repeated
  stalled     \* history: events whose publish failed, and events leased or being
              \* claimed when another claim took later events of the order

vars == <<visible, published, lockedBy, expired, locked, batch, pc, topic, turn, faults,
          suspect, stalled>>

Init ==
  /\ visible = {}
  /\ published = {}
  /\ lockedBy = [e \in Events |-> None]
  /\ expired = {}
  /\ locked = [w \in Workers |-> {}]
  /\ batch = [w \in Workers |-> {}]
  /\ pc = [w \in Workers |-> "idle"]
  /\ topic = <<>>
  /\ turn = [w \in Workers |-> 0]
  /\ faults = 0
  /\ suspect = {}
  /\ stalled = {}

-----------------------------------------------------------------------------
\* An outbox row commits.  Rows of different orders become visible in any order;
\* an update of an order begins only after its creation has committed.
Insert(e) ==
  /\ e \notin visible
  /\ \A d \in Events : d < e /\ OrderOf[d] = OrderOf[e] => d \in visible
  /\ visible' = visible \union {e}
  /\ UNCHANGED <<published, lockedBy, expired, locked, batch, pc, topic, turn,
                 faults, suspect, stalled>>

\* The event `for event := range events' is at: batches come ordered by created_at.
Current(w) == Min(batch[w])

Fault == faults < MaxFaults /\ faults' = faults + 1

-----------------------------------------------------------------------------
(* ClaimUnpublished *)

\* Mutants: the query without its lock condition, without its published_at
\* condition, and without reclaiming old leases.
EligibleLocked == visible \ published

EligiblePublished == {e \in visible : lockedBy[e] = None \/ e \in expired}

EligibleNoReclaim == {e \in visible \ published : lockedBy[e] = None}

Eligible == {e \in visible \ published : lockedBy[e] = None \/ e \in expired}

\* Rows that another worker's claim has locked and not yet leased.
BeingClaimed(w) == UNION {locked[v] : v \in Workers \ {w}}

\* Rows that the UPDATE of another worker's mark may have locked.
BeingMarked(w) ==
  {Current(v) : v \in {u \in Workers \ {w} : pc[u] \in {"markPublished", "markFailed"}}}

\* Mutant: ORDER BY created_at DESC.
Newest(S, n) == {e \in S : Cardinality({d \in S : d > e}) < n}

\* ORDER BY created_at LIMIT n.
Oldest(S, n) == {e \in S : Cardinality({d \in S : d < e}) < n}

\* The statement takes the lease of the rows it returns.
Lease(w, rows) ==
  /\ rows # {}
  /\ lockedBy' = [e \in Events |-> IF e \in rows THEN w ELSE lockedBy[e]]
  /\ expired' = expired \ rows

\* What the SELECT may lock.  SKIP LOCKED passes over every row of another claim,
\* and over a row being marked if its UPDATE has come that far.
Candidates(w) ==
  {Oldest((Eligible \ BeingClaimed(w)) \ skipped, BatchSize) :
     skipped \in SUBSET (BeingMarked(w) \intersect Eligible)}

\* Earlier events of the same orders that are leased, or that a claim which may yet
\* be rolled back has locked.
PassedOver(w, rows) ==
  {d \in visible \ published :
     /\ d \in BeingClaimed(w) \/ (lockedBy[d] # None /\ d \notin expired)
     /\ \E e \in rows : d < e /\ OrderOf[d] = OrderOf[e]}

Goto(w, label) == pc' = [pc EXCEPT ![w] = label]

\* WITH candidates AS (SELECT ... FOR UPDATE SKIP LOCKED): the rows are locked, and
\* nobody sees a lease yet.
BeginClaim(w) ==
  /\ pc[w] = "idle"
  /\ \E rows \in Candidates(w) :
       /\ rows # {}
       /\ locked' = [locked EXCEPT ![w] = rows]
       /\ stalled' = stalled \union PassedOver(w, rows)
  /\ Goto(w, "claim")
  /\ UNCHANGED <<visible, published, lockedBy, expired, batch, topic, turn, faults,
                 suspect>>

\* The locks end with the statement, whether it commits or is rolled back.
Unlock(w) == locked' = [locked EXCEPT ![w] = {}]

\* UPDATE ... WHERE id IN candidates, committed: the rows are leased and returned.
Claim(w) ==
  /\ pc[w] = "claim"
  /\ Lease(w, locked[w])
  /\ Unlock(w)
  /\ batch' = [batch EXCEPT ![w] = locked[w]]
  /\ Goto(w, "publish")
  /\ UNCHANGED <<visible, published, topic, turn, faults, suspect, stalled>>

\* PublishOnce returns an error and the worker knows of no rows.  The statement was
\* rolled back, or it had committed and only its answer was lost.
ClaimError(w) ==
  /\ pc[w] = "claim"
  /\ Fault
  /\ \/ Lease(w, locked[w])
     \/ UNCHANGED <<lockedBy, expired>>
  /\ Unlock(w)
  /\ Goto(w, "idle")
  /\ UNCHANGED <<visible, published, batch, topic, turn, suspect, stalled>>

-----------------------------------------------------------------------------
(* Publish *)

\* Mutant: partitions counted from one.
PartitionFromOne(w) == turn[w] + 1

\* kafka.Writer without a Balancer: each message goes to the next partition.
PartitionOf(w) == turn[w]

NextTurn(w) == turn' = [turn EXCEPT ![w] = (@ + 1) % NumPartitions]

Message(w) == [event |-> Current(w), partition |-> PartitionOf(w)]

\* Mutant: a publish error is logged and otherwise ignored.
AfterPublishErrorIgnored == "markPublished"

\* Where a publish error leads: MarkFailed, then the next event.
AfterPublishError == "markFailed"

PublishAck(w) ==
  /\ pc[w] = "publish"
  /\ Current(w) \notin Poison
  /\ topic' = Append(topic, Message(w))
  /\ NextTurn(w)
  /\ Goto(w, "markPublished")
  /\ UNCHANGED <<visible, published, lockedBy, expired, locked, batch, faults, suspect,
                 stalled>>

\* Nothing was written.
PublishError(w) ==
  /\ pc[w] = "publish"
  /\ NextTurn(w)
  /\ Goto(w, AfterPublishError)
  /\ stalled' = stalled \union {Current(w)}
  /\ UNCHANGED <<visible, published, lockedBy, expired, locked, batch, topic, faults,
                 suspect>>

\* The message was written, the acknowledgement lost: Publish returns an error.
PublishUnacknowledged(w) ==
  /\ pc[w] = "publish"
  /\ Current(w) \notin Poison
  /\ Fault
  /\ topic' = Append(topic, Message(w))
  /\ NextTurn(w)
  /\ Goto(w, AfterPublishError)
  /\ suspect' = suspect \union {Current(w)}
  /\ stalled' = stalled \union {Current(w)}
  /\ UNCHANGED <<visible, published, lockedBy, expired, locked, batch>>

\* The writer retries a request whose acknowledgement it missed, then succeeds.
PublishRepeated(w) ==
  /\ pc[w] = "publish"
  /\ Current(w) \notin Poison
  /\ Fault
  /\ topic' = topic \o <<Message(w), Message(w)>>
  /\ NextTurn(w)
  /\ Goto(w, "markPublished")
  /\ suspect' = suspect \union {Current(w)}
  /\ UNCHANGED <<visible, published, lockedBy, expired, locked, batch, stalled>>

-----------------------------------------------------------------------------
(* MarkPublished and MarkFailed *)

\* Mutant: the UPDATE without its locked_by condition.
HoldsAnyone(w, e) == e \notin published

\* WHERE id = $1 AND locked_by = $2 AND published_at IS NULL.
Holds(w, e) == lockedBy[e] = w /\ e \notin published

\* The UPDATE waits for a claim that has the row locked, and then looks again.
Waits(w, e) == Holds(w, e) /\ e \in BeingClaimed(w)

\* Mutant: the SET lists forget locked_by and locked_at.
ReleaseNothing(e) == UNCHANGED <<lockedBy, expired>>

Release(e) ==
  /\ lockedBy' = [lockedBy EXCEPT ![e] = None]
  /\ expired' = expired \ {e}

SetPublished(w, e) ==
  IF Holds(w, e) THEN published' = published \union {e} /\ Release(e)
                 ELSE UNCHANGED <<published, lockedBy, expired>>

\* The loop goes on to the next event, or PublishOnce returns.
Advance(w) ==
  LET rest == batch[w] \ {Current(w)}
  IN  /\ batch' = [batch EXCEPT ![w] = rest]
      /\ Goto(w, IF rest = {} THEN "idle" ELSE "publish")

MarkPublished(w) ==
  /\ pc[w] = "markPublished"
  /\ ~Waits(w, Current(w))
  /\ SetPublished(w, Current(w))
  /\ Advance(w)
  /\ UNCHANGED <<visible, locked, topic, turn, faults, suspect, stalled>>

\* MarkPublished fails, before or after the database applied it: PublishOnce
\* returns, and the rest of the batch stays leased with nobody working on it.
MarkPublishedError(w) ==
  /\ pc[w] = "markPublished"
  /\ Fault
  /\ \/ ~Waits(w, Current(w)) /\ SetPublished(w, Current(w))
     \/ UNCHANGED <<published, lockedBy, expired>>
  /\ batch' = [batch EXCEPT ![w] = {}]
  /\ Goto(w, "idle")
  /\ UNCHANGED <<visible, locked, topic, turn, suspect, stalled>>

MarkFailed(w) ==
  /\ pc[w] = "markFailed"
  /\ ~Waits(w, Current(w))
  /\ IF Holds(w, Current(w)) THEN Release(Current(w)) ELSE UNCHANGED <<lockedBy, expired>>
  /\ Advance(w)
  /\ UNCHANGED <<visible, published, locked, topic, turn, faults, suspect, stalled>>

\* Its error is ignored: the row stays leased and the loop goes on.
MarkFailedError(w) ==
  /\ pc[w] = "markFailed"
  /\ Fault
  /\ Advance(w)
  /\ UNCHANGED <<visible, published, lockedBy, expired, locked, topic, turn, suspect,
                 stalled>>

-----------------------------------------------------------------------------
(* Time and crashes *)

\* No worker is going to mark the row on the lease it has.
Orphaned(e) == \A w \in Workers : lockedBy[e] = w => e \notin batch[w]

\* lockTimeout passes on a lease.  On a row still being worked on that takes a
\* batch slower than lockTimeout, or clocks that disagree: a fault.
Lapse(e) ==
  /\ lockedBy[e] # None
  /\ e \notin expired
  /\ IF Orphaned(e) THEN UNCHANGED faults ELSE Fault
  /\ expired' = expired \union {e}
  /\ suspect' = suspect \union {e}
  /\ UNCHANGED <<visible, published, lockedBy, locked, batch, pc, topic, turn, stalled>>

\* The process stops, by a crash or by a shutdown that does not wait for the
\* publisher.  A claim under way is rolled back or commits all the same.  Some other
\* run of the process remains or comes.
Crash(w) ==
  /\ pc[w] # "dead"
  /\ \E v \in Workers \ {w} : pc[v] # "dead"
  /\ Fault
  /\ Goto(w, "dead")
  /\ batch' = [batch EXCEPT ![w] = {}]
  /\ \/ pc[w] = "claim" /\ Lease(w, locked[w])
     \/ UNCHANGED <<lockedBy, expired>>
  /\ Unlock(w)
  /\ UNCHANGED <<visible, published, topic, turn, suspect, stalled>>

Work(w) ==
  \/ BeginClaim(w)
  \/ Claim(w)
  \/ PublishAck(w)
  \/ PublishError(w)
  \/ MarkPublished(w)
  \/ MarkFailed(w)

Trouble(w) ==
  \/ ClaimError(w)
  \/ PublishUnacknowledged(w)
  \/ PublishRepeated(w)
  \/ MarkPublishedError(w)
  \/ MarkFailedError(w)
  \/ Crash(w)

Next ==
  \/ \E e \in Events : Insert(e) \/ Lapse(e)
  \/ \E w \in Workers : Work(w) \/ Trouble(w)

Spec == Init /\ [][Next]_vars

\* The ticker makes a worker try again and its loop never blocks for good; a
\* lease nobody works on lapses with time; Kafka, asked again and again for a
\* message it can take, takes it once.
FairSpec ==
  /\ Spec
  /\ \A w \in Workers : WF_vars(Work(w))
  /\ \A w \in Workers, e \in Events : SF_vars(PublishAck(w) /\ Current(w) = e)
  /\ \A e \in Events : WF_vars(Orphaned(e) /\ Lapse(e))

-----------------------------------------------------------------------------
(* Properties *)

Labels == {"idle", "claim", "publish", "markPublished", "markFailed", "dead"}

\* The type invariant.
TypeOK ==
  /\ visible \subseteq Events
  /\ published \subseteq Events
  /\ lockedBy \in [Events -> Workers \union {None}]
  /\ expired \subseteq Events
  /\ locked \in [Workers -> SUBSET Events]
  /\ batch \in [Workers -> SUBSET Events]
  /\ pc \in [Workers -> Labels]
  /\ topic \in Seq([event : Events, partition : 0..NumPartitions - 1])
  /\ turn \in [Workers -> 0..NumPartitions - 1]
  /\ faults \in 0..MaxFaults
  /\ suspect \subseteq Events
  /\ stalled \subseteq Events

Logged == {topic[i].event : i \in DOMAIN topic}

\* The publisher marks events published only after Kafka succeeds, through
\* crashes, lapsed leases and late answers of workers that lost them.
PublishedImpliesLogged == published \subseteq Logged

\* An event is in the topic twice only if a lease on it lapsed or a write of it
\* was repeated or reported lost: never because two workers raced for it.
DuplicateOnlyIfSuspect ==
  \A i, j \in DOMAIN topic :
     i # j /\ topic[i].event = topic[j].event => topic[i].event \in suspect

\* A lease that has not lapsed ends only by its holder marking that very event,
\* and is never taken over: locked_by in both UPDATEs fences stale workers.
LeaseFencing ==
  [][\A e \in Events : LET h == lockedBy[e] IN
       h # None /\ e \notin expired /\ lockedBy'[e] # h =>
         /\ lockedBy'[e] = None
         /\ pc[h] \in {"markPublished", "markFailed"}
         /\ e = Current(h)
         /\ e \notin batch'[h]]_vars

\* A published row is out of play: no lease, no claim, and it stays published.
PublishedIsFinal ==
  [][\A e \in published : e \in published' /\ lockedBy'[e] = None]_vars

\* A worker has a batch exactly while it is working through it.
BatchShape ==
  \A w \in Workers : batch[w] # {} <=> pc[w] \notin {"idle", "claim", "dead"}

\* A worker has rows locked exactly while its claim is under way: rows anyone could
\* claim, and that no other claim has.
LockShape ==
  \A w \in Workers :
    /\ locked[w] # {} <=> pc[w] = "claim"
    /\ locked[w] \subseteq Eligible
    /\ locked[w] \intersect BeingClaimed(w) = {}

\* A worker about to call MarkPublished has seen Kafka take the event.
MarkedLogged == \A w \in Workers : pc[w] = "markPublished" => Current(w) \in Logged

\* A published row has been released by the statement that marked it.
PublishedReleased == \A e \in published : lockedBy[e] = None

\* An event under no suspicion is in the batch of its leaseholder only, and once
\* it is in the topic it is published or out of every worker's reach but the
\* one about to mark it.
Unsuspected(e) ==
  /\ e \notin expired
  /\ \A w \in Workers : e \in batch[w] => lockedBy[e] = w
  /\ e \in Logged => \/ e \in published
                     \/ /\ lockedBy[e] # None
                        /\ \A w \in Workers : e \in batch[w] =>
                             pc[w] = "markPublished" /\ Current(w) = e

\* The inductive invariant: why no event is written twice without suspicion.
IInv ==
  /\ TypeOK
  /\ BatchShape
  /\ LockShape
  /\ MarkedLogged
  /\ PublishedImpliesLogged
  /\ PublishedReleased
  /\ \A e \in Events \ suspect : Unsuspected(e)
  /\ DuplicateOnlyIfSuspect

LoggedBefore(d, e) ==
  \E i \in DOMAIN topic :
     topic[i].event = d /\ \A j \in 1..i : topic[j].event # e

\* Events of one order reach Kafka in order except past one whose publish failed or
\* was reported lost, or that was leased, or locked by a claim that may be rolled
\* back, when the later one was claimed: publishers claim by age, skip what others
\* have, and do not keep an order together.
OvertakenOnlyIfStalled ==
  \A d, e \in Events :
     /\ d < e /\ OrderOf[d] = OrderOf[e]
     /\ e \in Logged
     => LoggedBefore(d, e) \/ d \in stalled

\* Every committed event Kafka can accept is eventually marked published,
\* provided fewer events than a batch are poison.
EventuallyPublished ==
  Cardinality(Poison) < BatchSize =>
    \A e \in Events \ Poison : e \in visible ~> e \in published

\* ROADMAP.md: orders events use the symbol as Kafka key for per-symbol ordering,
\* so messages about one order share a partition.
KeyToOnePartition ==
  \A i, j \in DOMAIN topic :
     OrderOf[topic[i].event] = OrderOf[topic[j].event]
     => topic[i].partition = topic[j].partition

\* The same line's purpose: an event is not overtaken by a later one of its order.
PerOrderOrder ==
  \A d, e \in Events :
     d < e /\ OrderOf[d] = OrderOf[e] /\ e \in Logged => LoggedBefore(d, e)

\* The relay, seen through what it promises the consumers of the topic.
Delivery == INSTANCE AtLeastOnce WITH
              offered <- visible,
              log <- [i \in DOMAIN topic |-> topic[i].event],
              settled <- published

\* Leases, batches, retries and crashes implement at-least-once delivery.
RefinesAtLeastOnce == Delivery!Spec
=============================================================================
