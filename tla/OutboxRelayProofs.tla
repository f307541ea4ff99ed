-------------------------- MODULE OutboxRelayProofs --------------------------
(***************************************************************************)
(* Proofs about OutboxRelay, for every set of workers, number of events,   *)
(* batch size, number of partitions and number of faults.                  *)
(***************************************************************************)
EXTENDS OutboxRelay, SequenceTheorems, WellFoundedInduction, TLAPS

Messages == [event : Events, partition : 0..NumPartitions - 1]

-----------------------------------------------------------------------------
(* Facts about the operators *)

\* A set of events that is not empty has an oldest one.
LEMMA MinType == ASSUME NEW S \in SUBSET Events, S # {} PROVE Min(S) \in S
<1>1. S \subseteq Nat
  BY RelayAssumption DEF Events
<1>2. PICK x \in S : \A y \in S : <<y, x>> \notin OpToRel(<, Nat)
  BY <1>1, WFMin, NatLessThanWellFounded, Zenon
<1>3. \A y \in S : x =< y
  <2> TAKE y \in S
  <2>1. ~ (y < x)
    BY <1>1, <1>2 DEF OpToRel
  <2>2. QED
    BY <2>1, <1>1
<1>4. QED
  BY <1>3 DEF Min

\* Going on to another partition stays among the partitions.
LEMMA TurnType ==
  ASSUME TypeOK, NEW w \in Workers, NextTurn(w)
  PROVE  turn' \in [Workers -> 0..NumPartitions - 1]
<1>1. NumPartitions \in Nat /\ NumPartitions > 0
  BY RelayAssumption
<1>2. \A t \in 0..NumPartitions - 1 : (t + 1) % NumPartitions \in 0..NumPartitions - 1
  BY <1>1
<1>3. QED
  BY <1>2 DEF TypeOK, NextTurn

\* What a worker publishes is a message.
LEMMA MessageType ==
  ASSUME TypeOK, NEW w \in Workers, Current(w) \in Events
  PROVE  /\ Message(w) \in Messages
         /\ Message(w).event = Current(w)
BY DEF TypeOK, Message, Messages, PartitionOf

\* Appending a message adds its event to those logged.
LEMMA AppendLogs ==
  ASSUME topic \in Seq(Messages), NEW m \in Messages, topic' = Append(topic, m)
  PROVE  /\ topic' \in Seq(Messages)
         /\ DOMAIN topic' = 1..Len(topic) + 1
         /\ \A i \in DOMAIN topic : i \in 1..Len(topic) /\ topic'[i] = topic[i]
         /\ topic'[Len(topic) + 1] = m
         /\ Logged' = Logged \union {m.event}
<1>1. /\ topic' \in Seq(Messages)
      /\ Len(topic') = Len(topic) + 1
      /\ \A i \in 1..Len(topic) : topic'[i] = topic[i]
      /\ topic'[Len(topic) + 1] = m
  BY AppendProperties
<1>2. Len(topic) \in Nat /\ DOMAIN topic = 1..Len(topic)
  BY LenProperties
<1>3. DOMAIN topic' = 1..Len(topic) + 1
  BY <1>1, LenProperties
<1>4. Logged' = Logged \union {m.event}
  BY <1>1, <1>2, <1>3 DEF Logged
<1>5. QED
  BY <1>1, <1>2, <1>3, <1>4

\* Appending it twice does no more to the events logged.
LEMMA AppendTwiceLogs ==
  ASSUME topic \in Seq(Messages), NEW m \in Messages, topic' = topic \o <<m, m>>
  PROVE  /\ topic' \in Seq(Messages)
         /\ DOMAIN topic' = 1..Len(topic) + 2
         /\ \A i \in DOMAIN topic : i \in 1..Len(topic) /\ topic'[i] = topic[i]
         /\ topic'[Len(topic) + 1] = m /\ topic'[Len(topic) + 2] = m
         /\ Logged' = Logged \union {m.event}
<1>1. <<m, m>> \in Seq(Messages) /\ Len(<<m, m>>) = 2
      /\ <<m, m>>[1] = m /\ <<m, m>>[2] = m
  OBVIOUS
<1>2. Len(topic) \in Nat /\ DOMAIN topic = 1..Len(topic)
  BY LenProperties
<1>3. /\ topic' \in Seq(Messages)
      /\ Len(topic') = Len(topic) + 2
      /\ \A i \in 1..Len(topic) + 2 :
           topic'[i] = IF i <= Len(topic) THEN topic[i] ELSE <<m, m>>[i - Len(topic)]
  BY <1>1, ConcatProperties
<1>4. DOMAIN topic' = 1..Len(topic) + 2
  BY <1>3, LenProperties
<1>5. \A i \in 1..Len(topic) : topic'[i] = topic[i]
  BY <1>2, <1>3
<1>6. topic'[Len(topic) + 1] = <<m, m>>[1] /\ topic'[Len(topic) + 2] = <<m, m>>[2]
  BY <1>2, <1>3
<1>7. \A i \in DOMAIN topic' : topic'[i].event \in Logged \union {m.event}
  <2> TAKE i \in DOMAIN topic'
  <2>1. CASE i \in 1..Len(topic)
    BY <2>1, <1>2, <1>5 DEF Logged
  <2>2. CASE i = Len(topic) + 1 \/ i = Len(topic) + 2
    BY <2>2, <1>1, <1>6
  <2>3. QED
    BY <2>1, <2>2, <1>2, <1>4
<1>8. Logged' = Logged \union {m.event}
  <2>1. Logged' \subseteq Logged \union {m.event}
    BY <1>7 DEF Logged
  <2>2. Logged \subseteq Logged'
    <3>1. \A i \in DOMAIN topic : i \in DOMAIN topic' /\ topic'[i] = topic[i]
      BY <1>2, <1>4, <1>5
    <3>2. QED
      BY <3>1 DEF Logged
  <2>3. m.event \in Logged'
    <3>1. Len(topic) + 1 \in DOMAIN topic' /\ topic'[Len(topic) + 1] = m
      BY <1>1, <1>2, <1>4, <1>6
    <3>2. QED
      BY <3>1 DEF Logged
  <2>4. QED
    BY <2>1, <2>2, <2>3
<1>9. QED
  BY <1>1, <1>2, <1>3, <1>4, <1>5, <1>6, <1>8

\* A worker in the middle of its batch is at one of its events.
LEMMA CurrentType ==
  ASSUME TypeOK, BatchShape, NEW w \in Workers,
         pc[w] \in {"publish", "markPublished", "markFailed"}
  PROVE  batch[w] # {} /\ Current(w) \in batch[w] /\ Current(w) \in Events
<1>1. batch[w] \in SUBSET Events /\ batch[w] # {}
  BY DEF TypeOK, BatchShape
<1>2. QED
  BY <1>1, MinType DEF Current

-----------------------------------------------------------------------------
(* Row locks *)

\* Locks stay in shape while claims under way keep theirs, claims that end drop
\* theirs, and nobody takes a locked row out of play.
LEMMA LocksStep ==
  ASSUME IInv, locked' \in [Workers -> SUBSET Events],
         \A v \in Workers :
           \/ locked'[v] = locked[v] /\ (pc'[v] = "claim" <=> pc[v] = "claim")
           \/ locked'[v] = {} /\ pc'[v] # "claim",
         \A v \in Workers : locked'[v] \subseteq Eligible'
  PROVE  LockShape'
<1>1. ASSUME NEW v \in Workers
      PROVE  locked'[v] # {} <=> pc'[v] = "claim"
  BY DEF IInv, LockShape
<1>2. \A v, u \in Workers : u # v => locked[v] \intersect locked[u] = {}
  BY DEF IInv, LockShape, BeingClaimed
<1>3. \A v, u \in Workers : u # v => locked'[v] \intersect locked'[u] = {}
  BY <1>2
<1>4. \A v \in Workers : locked'[v] \intersect BeingClaimed(v)' = {}
  BY <1>3 DEF BeingClaimed
<1>5. QED
  BY <1>1, <1>4 DEF LockShape

\* A locked row that is not suspect is leased by nobody.
LEMMA LockedFree ==
  ASSUME IInv, NEW v \in Workers, NEW e \in locked[v]
  PROVE  /\ e \in visible /\ e \notin published
         /\ lockedBy[e] = None \/ e \in expired
         /\ \A u \in Workers : e \in locked[u] => u = v
BY DEF IInv, LockShape, Eligible, BeingClaimed

-----------------------------------------------------------------------------
(* Steps that touch neither the topic nor a batch *)

\* An insert shows the rows and nothing else.
LEMMA InsertStep == ASSUME IInv, NEW e \in Events, Insert(e) PROVE IInv'
<1>1. /\ TypeOK' /\ BatchShape' /\ PublishedReleased'
  BY DEF IInv, TypeOK, BatchShape, PublishedReleased, Insert
<1>2. LockShape'
  BY DEF IInv, LockShape, BeingClaimed, Eligible, Insert
<1>3. /\ MarkedLogged' /\ PublishedImpliesLogged' /\ DuplicateOnlyIfSuspect'
  BY DEF IInv, MarkedLogged, PublishedImpliesLogged, DuplicateOnlyIfSuspect, Logged,
         Current, Insert
<1>4. \A d \in Events \ suspect' : Unsuspected(d)'
  BY DEF IInv, Unsuspected, Logged, Current, Insert
<1>5. QED
  BY <1>1, <1>3, <1>4, <1>2 DEF IInv

\* A lapse puts the event under suspicion.
LEMMA LapseStep == ASSUME IInv, NEW e \in Events, Lapse(e) PROVE IInv'
<1>1. faults' \in 0..MaxFaults
  BY RelayAssumption DEF IInv, TypeOK, Lapse, Fault
<1>2. /\ TypeOK' /\ BatchShape' /\ PublishedReleased'
  BY <1>1 DEF IInv, TypeOK, BatchShape, PublishedReleased, Lapse
<1>3. LockShape'
  BY DEF IInv, LockShape, BeingClaimed, Eligible, Lapse
<1>4. /\ MarkedLogged' /\ PublishedImpliesLogged' /\ DuplicateOnlyIfSuspect'
  BY DEF IInv, MarkedLogged, PublishedImpliesLogged, DuplicateOnlyIfSuspect, Logged,
         Current, Lapse
<1>5. \A d \in Events \ suspect' : Unsuspected(d)'
  BY DEF IInv, Unsuspected, Logged, Current, Lapse
<1>6. QED
  BY <1>2, <1>4, <1>5, <1>3 DEF IInv

-----------------------------------------------------------------------------
(* Claims *)

\* The rows a claim leases were free and, unless suspect, never written.
LEMMA LeaseFacts ==
  ASSUME IInv, NEW w \in Workers, NEW rows \in SUBSET Eligible, Lease(w, rows)
  PROVE  /\ rows \subseteq Events
         /\ lockedBy' \in [Events -> Workers \union {None}]
         /\ expired' \subseteq Events
         /\ \A e \in published : lockedBy'[e] = None
         /\ \A e \in rows : lockedBy'[e] = w /\ e \notin published
         /\ \A e \in Events \ rows : lockedBy'[e] = lockedBy[e]
         /\ \A e \in rows \ suspect : e \notin Logged /\ \A v \in Workers : e \notin batch[v]
<1>1. rows \subseteq Events /\ rows \intersect published = {}
  BY DEF Eligible, IInv, TypeOK
<1>2. lockedBy' \in [Events -> Workers \union {None}] /\ expired' \subseteq Events
  BY DEF IInv, TypeOK, Lease
<1>3. /\ \A e \in rows : lockedBy'[e] = w
      /\ \A e \in Events \ rows : lockedBy'[e] = lockedBy[e]
  BY <1>1 DEF Lease
<1>4. \A e \in published : lockedBy'[e] = None
  BY <1>1, <1>3 DEF IInv, TypeOK, PublishedReleased
<1>5. ASSUME NEW e \in rows \ suspect
      PROVE  e \notin Logged /\ \A v \in Workers : e \notin batch[v]
  <2>1. Unsuspected(e)
    BY <1>1 DEF IInv
  <2>2. lockedBy[e] = None
    BY <2>1 DEF Unsuspected, Eligible
  <2>3. QED
    BY <1>1, <2>1, <2>2, RelayAssumption DEF Unsuspected
<1>6. QED
  BY <1>1, <1>2, <1>3, <1>4, <1>5

\* A claim locks rows that no other claim has.
LEMMA BeginClaimStep == ASSUME IInv, NEW w \in Workers, BeginClaim(w) PROVE IInv'
<1>1. PICK rows \in SUBSET (Eligible \ BeingClaimed(w)) :
        /\ rows # {}
        /\ locked' = [locked EXCEPT ![w] = rows]
        /\ stalled' = stalled \union PassedOver(w, rows)
  BY DEF BeginClaim, Candidates, Oldest
<1>2. /\ pc[w] = "idle" /\ pc'[w] = "claim" /\ locked'[w] = rows
      /\ \A v \in Workers \ {w} : pc'[v] = pc[v] /\ locked'[v] = locked[v]
      /\ UNCHANGED <<visible, published, lockedBy, expired, batch, topic, turn, faults, suspect>>
      /\ Logged' = Logged /\ Eligible' = Eligible
  BY <1>1 DEF BeginClaim, Goto, Logged, Eligible, IInv, TypeOK
<1>3. TypeOK'
  <2>1. rows \subseteq Events /\ stalled' \subseteq Events
    BY <1>1 DEF PassedOver, Eligible, IInv, TypeOK
  <2>2. locked' \in [Workers -> SUBSET Events] /\ pc' \in [Workers -> Labels]
    BY <1>1, <2>1 DEF BeginClaim, Goto, Labels, IInv, TypeOK
  <2>3. QED
    BY <1>2, <2>1, <2>2 DEF IInv, TypeOK
<1>4. BatchShape' /\ MarkedLogged'
  BY <1>2 DEF IInv, BatchShape, MarkedLogged, Current
<1>5. LockShape'
  <2>1. \A v \in Workers : (locked'[v] # {} <=> pc'[v] = "claim") /\ locked'[v] \subseteq Eligible'
    BY <1>1, <1>2 DEF IInv, LockShape
  <2>2. \A v, u \in Workers : u # v => locked[v] \intersect locked[u] = {}
    BY DEF IInv, LockShape, BeingClaimed
  <2>3. \A u \in Workers : u # w => rows \intersect locked[u] = {}
    BY DEF BeingClaimed
  <2>4. \A v, u \in Workers : u # v => locked'[v] \intersect locked'[u] = {}
    BY <1>2, <2>2, <2>3
  <2>5. \A v \in Workers : locked'[v] \intersect BeingClaimed(v)' = {}
    BY <2>4 DEF BeingClaimed
  <2>6. QED
    BY <2>1, <2>5 DEF LockShape
<1>6. PublishedImpliesLogged' /\ PublishedReleased' /\ DuplicateOnlyIfSuspect'
  BY <1>2 DEF IInv, PublishedImpliesLogged, PublishedReleased, DuplicateOnlyIfSuspect
<1>7. ASSUME NEW e \in Events \ suspect' PROVE Unsuspected(e)'
  <2>1. Unsuspected(e)
    BY <1>2 DEF IInv
  <2>2. \A v \in Workers : pc[v] = "markPublished" => pc'[v] = "markPublished"
    BY <1>2
  <2>3. QED
    BY <2>1, <2>2, <1>2 DEF Unsuspected, Current
<1>8. QED
  BY <1>3, <1>4, <1>5, <1>6, <1>7 DEF IInv

\* What the lease of its locked rows leaves of the other claims' locks, whatever
\* the worker does next.
LEMMA UnlockStep ==
  ASSUME IInv, NEW w \in Workers, Unlock(w), pc'[w] # "claim",
         \A v \in Workers \ {w} : pc'[v] = pc[v],
         \/ Lease(w, locked[w])
         \/ UNCHANGED <<lockedBy, expired>>,
         UNCHANGED <<visible, published>>
  PROVE  locked' \in [Workers -> SUBSET Events] /\ LockShape'
<1>1. /\ locked' \in [Workers -> SUBSET Events] /\ locked'[w] = {}
      /\ \A v \in Workers \ {w} : locked'[v] = locked[v]
  BY DEF Unlock, IInv, TypeOK
<1>2. ASSUME NEW v \in Workers \ {w}, NEW e \in locked[v] PROVE e \in Eligible'
  <2>1. e \in visible /\ e \notin published /\ (lockedBy[e] = None \/ e \in expired)
        /\ e \notin locked[w] /\ e \in Events
    BY LockedFree DEF IInv, TypeOK
  <2>2. lockedBy'[e] = lockedBy[e] /\ (e \in expired => e \in expired')
    BY <2>1 DEF Lease
  <2>3. QED
    BY <2>1, <2>2 DEF Eligible
<1>3. \A v \in Workers : locked'[v] \subseteq Eligible'
  BY <1>1, <1>2
<1>4. QED
  BY <1>1, <1>3, LocksStep

\* A claimed batch is made of events that no other worker has and, unless
\* suspect, that nobody has written.
LEMMA ClaimStep == ASSUME IInv, NEW w \in Workers, Claim(w) PROVE IInv'
<1> DEFINE rows == locked[w]
<1>1. /\ rows \in SUBSET Eligible /\ rows # {} /\ Lease(w, rows) /\ Unlock(w)
      /\ batch' = [batch EXCEPT ![w] = rows]
      /\ pc[w] = "claim" /\ Goto(w, "publish")
      /\ UNCHANGED <<visible, published, topic, turn, faults, suspect, stalled>>
  BY DEF Claim, Lease, IInv, LockShape
<1>2. /\ rows \subseteq Events
      /\ lockedBy' \in [Events -> Workers \union {None}]
      /\ expired' \subseteq Events
      /\ \A e \in published : lockedBy'[e] = None
      /\ \A e \in rows : lockedBy'[e] = w /\ e \notin published
      /\ \A e \in Events \ rows : lockedBy'[e] = lockedBy[e]
      /\ \A e \in rows \ suspect : e \notin Logged /\ \A v \in Workers : e \notin batch[v]
  BY <1>1, LeaseFacts
<1>3. Logged' = Logged /\ batch[w] = {}
  BY <1>1 DEF Logged, IInv, BatchShape
<1>4. /\ batch'[w] = rows /\ pc'[w] = "publish"
      /\ \A v \in Workers \ {w} :
           batch'[v] = batch[v] /\ pc'[v] = pc[v] /\ Current(v)' = Current(v)
  BY <1>1 DEF Goto, Current, IInv, TypeOK
<1>5. locked' \in [Workers -> SUBSET Events] /\ LockShape'
  BY <1>1, <1>4, UnlockStep
<1>6. TypeOK'
  <2>1. pc' \in [Workers -> Labels] /\ batch' \in [Workers -> SUBSET Events]
    BY <1>1, <1>2 DEF Goto, Labels, IInv, TypeOK
  <2>2. QED
    BY <1>1, <1>2, <1>5, <2>1 DEF IInv, TypeOK
<1>7. BatchShape' /\ MarkedLogged'
  BY <1>1, <1>3, <1>4 DEF IInv, BatchShape, MarkedLogged
<1>8. PublishedImpliesLogged' /\ PublishedReleased' /\ DuplicateOnlyIfSuspect'
  BY <1>1, <1>2, <1>3 DEF IInv, PublishedImpliesLogged, PublishedReleased,
                          DuplicateOnlyIfSuspect
<1>9. ASSUME NEW e \in Events \ suspect' PROVE Unsuspected(e)'
  <2>1. Unsuspected(e) /\ e \notin suspect
    BY <1>1 DEF IInv
  <2>2. CASE e \in rows
    BY <2>1, <2>2, <1>1, <1>2, <1>3, <1>4 DEF Unsuspected, Lease
  <2>3. CASE e \notin rows
    <3>1. e \notin expired' /\ lockedBy'[e] = lockedBy[e] /\ e \notin batch'[w]
      BY <2>1, <2>3, <1>1, <1>2, <1>4 DEF Unsuspected, Lease
    <3>2. QED
      BY <2>1, <3>1, <1>1, <1>3, <1>4 DEF Unsuspected
  <2>4. QED
    BY <2>2, <2>3
<1>10. QED
  BY <1>5, <1>6, <1>7, <1>8, <1>9 DEF IInv

\* A worker that gives up its batch or its claim leaves rows leased that nobody has
\* in a batch, and gives back its locks, whether or not the claim took the leases.
LEMMA GiveUpStep ==
  ASSUME IInv, NEW w \in Workers, NEW label \in {"idle", "dead"}, Goto(w, label),
         batch' = [batch EXCEPT ![w] = {}], Unlock(w),
         \/ Lease(w, locked[w])
         \/ UNCHANGED <<lockedBy, expired>>,
         UNCHANGED <<visible, published, topic, turn, suspect, stalled>>,
         faults' \in 0..MaxFaults
  PROVE  IInv'
<1> DEFINE rows == locked[w]
<1>1. /\ Logged' = Logged
      /\ batch'[w] = {} /\ pc'[w] = label
      /\ \A v \in Workers \ {w} :
           batch'[v] = batch[v] /\ pc'[v] = pc[v] /\ Current(v)' = Current(v)
  BY DEF Goto, Logged, Current, IInv, TypeOK
<1>2. rows \in SUBSET Eligible
  BY DEF IInv, LockShape
<1>3. /\ lockedBy' \in [Events -> Workers \union {None}] /\ expired' \subseteq expired
      /\ \A e \in published : lockedBy'[e] = None
      /\ \A e \in Events :
           \/ lockedBy'[e] = lockedBy[e]
           \/ /\ e \notin published /\ lockedBy'[e] = w
              /\ e \notin suspect => e \notin Logged /\ \A v \in Workers : e \notin batch[v]
  <2>1. CASE Lease(w, rows)
    <3>1. expired' \subseteq expired
      BY <2>1 DEF Lease
    <3>2. QED
      BY <1>2, <2>1, <3>1, LeaseFacts
  <2>2. CASE UNCHANGED <<lockedBy, expired>>
    BY <2>2 DEF IInv, TypeOK, PublishedReleased
  <2>3. QED
    BY <2>1, <2>2
<1>4. locked' \in [Workers -> SUBSET Events] /\ LockShape'
  BY <1>1, UnlockStep
<1>5. TypeOK'
  <2>1. pc' \in [Workers -> Labels] /\ batch' \in [Workers -> SUBSET Events]
    BY DEF Goto, Labels, IInv, TypeOK
  <2>2. QED
    BY <1>3, <1>4, <2>1 DEF IInv, TypeOK
<1>6. BatchShape' /\ MarkedLogged'
  BY <1>1 DEF IInv, BatchShape, MarkedLogged
<1>7. PublishedImpliesLogged' /\ PublishedReleased' /\ DuplicateOnlyIfSuspect'
  BY <1>1, <1>3 DEF IInv, PublishedImpliesLogged, PublishedReleased, DuplicateOnlyIfSuspect
<1>8. ASSUME NEW e \in Events \ suspect' PROVE Unsuspected(e)'
  <2>1. Unsuspected(e) /\ e \notin expired'
    BY <1>3 DEF IInv, Unsuspected
  <2>2. \A v \in Workers : e \in batch'[v] => v # w /\ e \in batch[v]
    BY <1>1
  <2>3. CASE lockedBy'[e] = lockedBy[e]
    BY <2>1, <2>2, <2>3, <1>1 DEF Unsuspected
  <2>4. CASE e \notin Logged /\ \A v \in Workers : e \notin batch[v]
    BY <2>1, <2>2, <2>4, <1>1 DEF Unsuspected
  <2>5. QED
    BY <2>3, <2>4, <1>3
<1>9. QED
  BY <1>4, <1>5, <1>6, <1>7, <1>8 DEF IInv

\* A claim that fails, rolled back or committed.
LEMMA ClaimErrorStep == ASSUME IInv, NEW w \in Workers, ClaimError(w) PROVE IInv'
<1>1. faults' \in 0..MaxFaults
  BY RelayAssumption DEF ClaimError, Fault, IInv, TypeOK
<1>2. batch' = [batch EXCEPT ![w] = {}]
  <2>1. batch[w] = {} /\ batch' = batch
    BY DEF ClaimError, IInv, BatchShape
  <2>2. QED
    BY <2>1 DEF IInv, TypeOK
<1>3. QED
  BY <1>1, <1>2, GiveUpStep DEF ClaimError

-----------------------------------------------------------------------------
(* Writes to the topic *)

\* The event a worker writes is in its own batch; unless suspect, it is leased
\* by that worker and not in the topic yet.
LEMMA WriterFacts ==
  ASSUME IInv, NEW w \in Workers, pc[w] = "publish"
  PROVE  /\ batch[w] # {} /\ Current(w) \in batch[w] /\ Current(w) \in Events
         /\ \A e \in batch[w] \ suspect : lockedBy[e] = w /\ e \notin Logged
<1>1. batch[w] # {} /\ Current(w) \in batch[w] /\ Current(w) \in Events
  BY CurrentType DEF IInv
<1>2. ASSUME NEW e \in batch[w] \ suspect PROVE lockedBy[e] = w /\ e \notin Logged
  <2>1. e \in Events
    BY DEF IInv, TypeOK
  <2>2. Unsuspected(e)
    BY <2>1 DEF IInv
  <2>3. lockedBy[e] = w /\ w # None
    BY <2>2, RelayAssumption DEF Unsuspected
  <2>4. e \notin published
    BY <2>3 DEF IInv, PublishedReleased
  <2>5. QED
    BY <2>2, <2>3, <2>4 DEF Unsuspected
<1>3. QED
  BY <1>1, <1>2

\* Whatever became of a write, the invariant stays if the worker goes on as it
\* should: to MarkPublished only if the event is in the topic, and with the event
\* under suspicion if it is in the topic and the worker goes elsewhere.
LEMMA WriteStep ==
  ASSUME IInv, NEW w \in Workers, pc[w] = "publish",
         NEW label \in {"markPublished", "markFailed"}, Goto(w, label),
         UNCHANGED <<visible, published, lockedBy, expired, locked, batch>>,
         NextTurn(w), faults' \in 0..MaxFaults,
         stalled' \subseteq Events, suspect' \subseteq Events, suspect \subseteq suspect',
         topic' \in Seq(Messages), Logged \subseteq Logged',
         Logged' \subseteq Logged \union {Current(w)},
         label = "markPublished" => Current(w) \in Logged',
         label = "markFailed" /\ Current(w) \in Logged' => Current(w) \in Logged \union suspect',
         DuplicateOnlyIfSuspect'
  PROVE  IInv'
<1>1. batch[w] # {} /\ Current(w) \in batch[w] /\ Current(w) \in Events
      /\ \A e \in batch[w] \ suspect : lockedBy[e] = w /\ e \notin Logged
  BY WriterFacts
<1>2. /\ pc'[w] = label
      /\ \A v \in Workers \ {w} : pc'[v] = pc[v]
      /\ \A v \in Workers : Current(v)' = Current(v)
  BY DEF Goto, IInv, TypeOK, Current
<1>3. TypeOK'
  <2>1. turn' \in [Workers -> 0..NumPartitions - 1]
    BY TurnType DEF IInv
  <2>2. pc' \in [Workers -> Labels]
    BY DEF IInv, TypeOK, Goto, Labels
  <2>3. QED
    BY <2>1, <2>2 DEF IInv, TypeOK, Messages
<1>4. BatchShape' /\ PublishedImpliesLogged' /\ PublishedReleased'
  BY <1>1, <1>2 DEF IInv, BatchShape, PublishedImpliesLogged, PublishedReleased
<1>5. LockShape'
  BY <1>2, LocksStep DEF IInv, TypeOK, LockShape, Eligible
<1>6. MarkedLogged'
  BY <1>2 DEF IInv, MarkedLogged
<1>7. ASSUME NEW e \in Events \ suspect' PROVE Unsuspected(e)'
  <2>1. Unsuspected(e) /\ e \notin suspect
    BY DEF IInv
  <2>2. e \notin expired' /\ \A v \in Workers : e \in batch'[v] => lockedBy'[e] = v
    BY <2>1 DEF Unsuspected
  <2>3. CASE e = Current(w)
    <3>1. lockedBy[e] = w /\ e \notin Logged /\ w # None
      BY <2>1, <2>3, <1>1, RelayAssumption
    <3>2. e \in Logged' => label = "markPublished"
      BY <2>3, <3>1
    <3>3. \A v \in Workers : e \in batch[v] => v = w
      BY <2>1, <3>1 DEF Unsuspected
    <3>4. QED
      BY <2>2, <2>3, <3>1, <3>2, <3>3, <1>2 DEF Unsuspected
  <2>4. CASE e # Current(w)
    <3>1. e \in Logged' => e \in Logged
      BY <2>4
    <3>2. e \in Logged => e \notin batch[w]
      BY <2>1, <1>1
    <3>3. QED
      BY <2>1, <2>2, <3>1, <3>2, <1>2 DEF Unsuspected
  <2>5. QED
    BY <2>3, <2>4
<1>8. QED
  BY <1>3, <1>4, <1>6, <1>7, <1>5 DEF IInv

\* A message appended once duplicates nothing that is not suspect.
LEMMA AppendOnce ==
  ASSUME IInv, NEW w \in Workers, pc[w] = "publish", topic' = Append(topic, Message(w)),
         suspect \subseteq suspect'
  PROVE  DuplicateOnlyIfSuspect'
<1>1. Current(w) \in batch[w] /\ \A e \in batch[w] \ suspect : e \notin Logged
  BY WriterFacts
<1>2. Message(w) \in Messages /\ Message(w).event = Current(w)
  BY WriterFacts, MessageType DEF IInv
<1>3. /\ DOMAIN topic' = 1..Len(topic) + 1
      /\ \A i \in DOMAIN topic : i \in 1..Len(topic) /\ topic'[i] = topic[i]
      /\ topic'[Len(topic) + 1] = Message(w)
  BY <1>2, AppendLogs DEF IInv, TypeOK, Messages
<1>4. DOMAIN topic = 1..Len(topic) /\ Len(topic) \in Nat
  BY LenProperties DEF IInv, TypeOK
<1>5. Current(w) \in Logged => Current(w) \in suspect
  BY <1>1
<1>6. \A i \in DOMAIN topic : topic[i].event \in Logged
  BY DEF Logged
<1>7. SUFFICES ASSUME NEW i \in DOMAIN topic', NEW j \in DOMAIN topic',
                      i # j, topic'[i].event = topic'[j].event
               PROVE  topic'[i].event \in suspect
  BY DEF DuplicateOnlyIfSuspect
<1>8. CASE i \in DOMAIN topic /\ j \in DOMAIN topic
  BY <1>3, <1>7, <1>8 DEF IInv, DuplicateOnlyIfSuspect
<1>9. CASE i \in DOMAIN topic /\ j = Len(topic) + 1
  BY <1>2, <1>3, <1>5, <1>6, <1>7, <1>9
<1>10. CASE i = Len(topic) + 1 /\ j \in DOMAIN topic
  BY <1>2, <1>3, <1>5, <1>6, <1>7, <1>10
<1>11. QED
  BY <1>3, <1>4, <1>7, <1>8, <1>9, <1>10

\* The acknowledged write.
LEMMA PublishAckStep == ASSUME IInv, NEW w \in Workers, PublishAck(w) PROVE IInv'
<1>1. pc[w] = "publish" /\ topic' = Append(topic, Message(w)) /\ suspect' = suspect
      /\ Goto(w, "markPublished") /\ NextTurn(w)
      /\ UNCHANGED <<visible, published, lockedBy, expired, locked, batch, faults, stalled>>
  BY DEF PublishAck
<1>2. DuplicateOnlyIfSuspect'
  BY <1>1, AppendOnce
<1>3. Message(w) \in Messages /\ Message(w).event = Current(w)
  BY <1>1, WriterFacts, MessageType DEF IInv
<1>4. topic' \in Seq(Messages) /\ Logged' = Logged \union {Current(w)}
  BY <1>1, <1>3, AppendLogs DEF IInv, TypeOK, Messages
<1>5. faults' \in 0..MaxFaults /\ stalled' \subseteq Events /\ suspect' \subseteq Events
  BY <1>1 DEF IInv, TypeOK
<1>6. QED
  BY <1>1, <1>2, <1>4, <1>5, WriteStep

\* The refused write leaves the topic alone.
LEMMA PublishErrorStep == ASSUME IInv, NEW w \in Workers, PublishError(w) PROVE IInv'
<1>1. pc[w] = "publish" /\ UNCHANGED <<topic, suspect, faults>>
      /\ Goto(w, "markFailed") /\ NextTurn(w)
      /\ UNCHANGED <<visible, published, lockedBy, expired, locked, batch>>
      /\ stalled' = stalled \union {Current(w)}
  BY DEF PublishError, AfterPublishError
<1>2. Logged' = Logged /\ DuplicateOnlyIfSuspect'
  BY <1>1 DEF IInv, Logged, DuplicateOnlyIfSuspect
<1>3. /\ topic' \in Seq(Messages)
      /\ faults' \in 0..MaxFaults /\ stalled' \subseteq Events /\ suspect' \subseteq Events
  BY <1>1, WriterFacts DEF IInv, TypeOK, Messages
<1>4. QED
  BY <1>1, <1>2, <1>3, WriteStep

\* The write whose acknowledgement is lost.
LEMMA PublishUnacknowledgedStep ==
  ASSUME IInv, NEW w \in Workers, PublishUnacknowledged(w) PROVE IInv'
<1>1. pc[w] = "publish" /\ topic' = Append(topic, Message(w))
      /\ Goto(w, "markFailed") /\ NextTurn(w) /\ Fault
      /\ UNCHANGED <<visible, published, lockedBy, expired, locked, batch>>
      /\ stalled' = stalled \union {Current(w)} /\ suspect' = suspect \union {Current(w)}
  BY DEF PublishUnacknowledged, AfterPublishError
<1>2. DuplicateOnlyIfSuspect'
  BY <1>1, AppendOnce
<1>3. Message(w) \in Messages /\ Message(w).event = Current(w)
  BY <1>1, WriterFacts, MessageType DEF IInv
<1>4. topic' \in Seq(Messages) /\ Logged' = Logged \union {Current(w)}
  BY <1>1, <1>3, AppendLogs DEF IInv, TypeOK, Messages
<1>5. stalled' \subseteq Events /\ suspect' \subseteq Events
  BY <1>1, WriterFacts DEF IInv, TypeOK
<1>6. faults' \in 0..MaxFaults
  BY <1>1, RelayAssumption DEF Fault, IInv, TypeOK
<1>7. QED
  BY <1>1, <1>2, <1>4, <1>5, <1>6, WriteStep

\* The write the client library repeats.
LEMMA PublishRepeatedStep ==
  ASSUME IInv, NEW w \in Workers, PublishRepeated(w) PROVE IInv'
<1>1. pc[w] = "publish" /\ topic' = topic \o <<Message(w), Message(w)>>
      /\ Goto(w, "markPublished") /\ NextTurn(w) /\ Fault
      /\ UNCHANGED <<visible, published, lockedBy, expired, locked, batch, stalled>>
      /\ suspect' = suspect \union {Current(w)}
  BY DEF PublishRepeated
<1>2. Message(w) \in Messages /\ Message(w).event = Current(w)
  BY <1>1, WriterFacts, MessageType DEF IInv
<1>3. /\ topic' \in Seq(Messages) /\ Logged' = Logged \union {Current(w)}
      /\ DOMAIN topic' = 1..Len(topic) + 2
      /\ \A i \in DOMAIN topic : i \in 1..Len(topic) /\ topic'[i] = topic[i]
      /\ topic'[Len(topic) + 1] = Message(w) /\ topic'[Len(topic) + 2] = Message(w)
  BY <1>1, <1>2, AppendTwiceLogs DEF IInv, TypeOK, Messages
<1>4. DOMAIN topic = 1..Len(topic) /\ Len(topic) \in Nat
  BY LenProperties DEF IInv, TypeOK
<1>5. DuplicateOnlyIfSuspect'
  <2>1. SUFFICES ASSUME NEW i \in DOMAIN topic', NEW j \in DOMAIN topic',
                        i # j, topic'[i].event = topic'[j].event
                 PROVE  topic'[i].event \in suspect'
    BY DEF DuplicateOnlyIfSuspect
  <2>2. CASE i \in DOMAIN topic /\ j \in DOMAIN topic
    BY <1>1, <1>3, <2>1, <2>2 DEF IInv, DuplicateOnlyIfSuspect
  <2>3. CASE i \notin DOMAIN topic \/ j \notin DOMAIN topic
    <3>1. topic'[i].event = Current(w)
      BY <1>2, <1>3, <1>4, <2>1, <2>3
    <3>2. QED
      BY <1>1, <3>1
  <2>4. QED
    BY <2>2, <2>3
<1>6. stalled' \subseteq Events /\ suspect' \subseteq Events
  BY <1>1, WriterFacts DEF IInv, TypeOK
<1>7. faults' \in 0..MaxFaults
  BY <1>1, RelayAssumption DEF Fault, IInv, TypeOK
<1>8. QED
  BY <1>1, <1>3, <1>5, <1>6, <1>7, WriteStep

-----------------------------------------------------------------------------
(* Marks and crashes *)

\* A worker drops the event it is at, or that and the rest of its batch, after
\* doing nothing to the row or releasing its lease, in which case the row is
\* published exactly if Kafka took the event.
LEMMA MarkStep ==
  ASSUME IInv, NEW w \in Workers, pc[w] \in {"markPublished", "markFailed"},
         NEW rest \in SUBSET (batch[w] \ {Current(w)}),
         batch' = [batch EXCEPT ![w] = rest],
         Goto(w, IF rest = {} THEN "idle" ELSE "publish"),
         \/ UNCHANGED <<published, lockedBy, expired>>
         \/ /\ Holds(w, Current(w)) /\ Release(Current(w))
            /\ Current(w) \notin BeingClaimed(w)
            /\ \/ pc[w] = "markPublished" /\ published' = published \union {Current(w)}
               \/ pc[w] = "markFailed" /\ published' = published,
         UNCHANGED <<visible, locked, topic, turn, suspect>>,
         faults' \in 0..MaxFaults, stalled' \subseteq Events
  PROVE  IInv'
<1>1. batch[w] # {} /\ Current(w) \in batch[w] /\ Current(w) \in Events
  BY CurrentType DEF IInv
<1>2. /\ batch'[w] = rest /\ rest \subseteq Events
      /\ pc'[w] = IF rest = {} THEN "idle" ELSE "publish"
      /\ \A v \in Workers \ {w} :
           batch'[v] = batch[v] /\ pc'[v] = pc[v] /\ Current(v)' = Current(v)
  BY DEF Goto, IInv, TypeOK, Current
<1>3. Logged' = Logged
  BY DEF Logged
<1>4. /\ published' \subseteq published \union {Current(w)}
      /\ published \subseteq published'
      /\ expired' \subseteq expired
      /\ \A e \in Events \ {Current(w)} : lockedBy'[e] = lockedBy[e]
      /\ lockedBy'[Current(w)] \in {lockedBy[Current(w)], None}
  BY <1>1 DEF Release, IInv, TypeOK
<1>5. TypeOK'
  <2>1. pc' \in [Workers -> Labels] /\ batch' \in [Workers -> SUBSET Events]
    BY <1>2 DEF IInv, TypeOK, Goto, Labels
  <2>2. lockedBy' \in [Events -> Workers \union {None}]
    BY DEF IInv, TypeOK, Release
  <2>3. QED
    BY <1>1, <1>4, <2>1, <2>2 DEF IInv, TypeOK
<1>6. BatchShape'
  BY <1>2 DEF IInv, BatchShape
<1>7. LockShape'
  <2>1. ASSUME NEW v \in Workers, NEW e \in locked[v] PROVE e \in Eligible'
    <3>1. e \in visible /\ e \notin published /\ (lockedBy[e] = None \/ e \in expired)
          /\ e \in Events
      BY LockedFree DEF IInv, TypeOK
    <3>2. CASE UNCHANGED <<published, lockedBy, expired>>
      BY <3>1, <3>2 DEF Eligible
    <3>3. CASE Release(Current(w)) /\ Current(w) \notin BeingClaimed(w)
      <4>1. v # w
        BY DEF IInv, LockShape
      <4>2. e # Current(w)
        BY <3>3, <4>1 DEF BeingClaimed
      <4>3. lockedBy'[e] = lockedBy[e] /\ e \notin published' /\ (e \in expired => e \in expired')
        BY <3>1, <3>3, <4>2, <1>4 DEF Release
      <4>4. QED
        BY <3>1, <4>3 DEF Eligible
    <3>4. QED
      BY <3>2, <3>3
  <2>2. QED
    BY <1>2, <2>1, LocksStep DEF IInv, TypeOK
<1>8. MarkedLogged'
  BY <1>2, <1>3 DEF IInv, MarkedLogged
<1>9. PublishedImpliesLogged'
  BY <1>3 DEF IInv, PublishedImpliesLogged, MarkedLogged
<1>10. PublishedReleased'
  <2>1. Current(w) \in published' \ published => lockedBy'[Current(w)] = None
    BY <1>1 DEF Release, IInv, TypeOK
  <2>2. QED
    BY <1>4, <2>1 DEF IInv, TypeOK, PublishedReleased
<1>11. DuplicateOnlyIfSuspect'
  BY DEF IInv, DuplicateOnlyIfSuspect
<1>12. ASSUME NEW e \in Events \ suspect' PROVE Unsuspected(e)'
  <2>1. Unsuspected(e) /\ e \notin suspect
    BY DEF IInv
  <2>2. e \notin expired'
    BY <2>1, <1>4 DEF Unsuspected
  <2>3. CASE e # Current(w)
    <3>1. /\ \A v \in Workers : e \in batch'[v] => e \in batch[v]
          /\ lockedBy'[e] = lockedBy[e]
      BY <2>3, <1>2, <1>4
    <3>2. e \in Logged /\ e \notin published => e \notin batch[w]
      BY <2>1, <2>3 DEF Unsuspected
    <3>3. QED
      BY <2>1, <2>2, <3>1, <3>2, <1>2, <1>3, <1>4 DEF Unsuspected
  <2>4. CASE e = Current(w)
    <3>1. \A v \in Workers : e \in batch[v] => v = w
      BY <2>1, <2>4, <1>1 DEF Unsuspected
    <3>2. \A v \in Workers : e \notin batch'[v]
      BY <2>4, <3>1, <1>2
    <3>3. lockedBy[e] = w /\ w # None /\ e \notin published
      BY <2>1, <2>4, <1>1, RelayAssumption DEF Unsuspected, IInv, PublishedReleased
    <3>4. pc[w] = "markFailed" => e \notin Logged
      BY <2>1, <2>4, <3>3, <1>1 DEF Unsuspected
    <3>5. e \in Logged => e \in published' \/ lockedBy'[e] # None
      BY <2>4, <3>3, <3>4
    <3>6. QED
      BY <2>2, <3>2, <3>5, <1>3 DEF Unsuspected
  <2>5. QED
    BY <2>3, <2>4
<1>13. QED
  BY <1>5, <1>6, <1>8, <1>9, <1>10, <1>11, <1>12, <1>7 DEF IInv

\* MarkPublished, whether or not the worker still holds the lease.
LEMMA MarkPublishedStep == ASSUME IInv, NEW w \in Workers, MarkPublished(w) PROVE IInv'
<1>1. PICK rest \in SUBSET (batch[w] \ {Current(w)}) :
        /\ batch' = [batch EXCEPT ![w] = rest]
        /\ Goto(w, IF rest = {} THEN "idle" ELSE "publish")
  BY DEF MarkPublished, Advance
<1>2. /\ pc[w] = "markPublished"
      /\ UNCHANGED <<visible, locked, topic, turn, suspect>>
      /\ \/ UNCHANGED <<published, lockedBy, expired>>
         \/ /\ Holds(w, Current(w)) /\ Release(Current(w))
            /\ Current(w) \notin BeingClaimed(w)
            /\ published' = published \union {Current(w)}
  BY DEF MarkPublished, SetPublished, Waits
<1>3. faults' \in 0..MaxFaults /\ stalled' \subseteq Events
  BY DEF MarkPublished, IInv, TypeOK
<1>4. QED
  BY <1>1, <1>2, <1>3, MarkStep

\* MarkPublished with an error: the worker drops its whole batch.
LEMMA MarkPublishedErrorStep ==
  ASSUME IInv, NEW w \in Workers, MarkPublishedError(w) PROVE IInv'
<1>1. /\ pc[w] = "markPublished"
      /\ UNCHANGED <<visible, locked, topic, turn, suspect>>
      /\ batch' = [batch EXCEPT ![w] = {}]
      /\ Goto(w, "idle")
      /\ \/ UNCHANGED <<published, lockedBy, expired>>
         \/ /\ Holds(w, Current(w)) /\ Release(Current(w))
            /\ Current(w) \notin BeingClaimed(w)
            /\ published' = published \union {Current(w)}
  BY DEF MarkPublishedError, SetPublished, Waits
<1>2. faults' \in 0..MaxFaults
  BY RelayAssumption DEF MarkPublishedError, Fault, IInv, TypeOK
<1>3. stalled' \subseteq Events
  BY DEF MarkPublishedError, IInv, TypeOK
<1>4. {} \in SUBSET (batch[w] \ {Current(w)})
  OBVIOUS
<1>5. QED
  BY <1>1, <1>2, <1>3, <1>4, MarkStep

\* MarkFailed, whether or not the worker still holds the lease.
LEMMA MarkFailedStep == ASSUME IInv, NEW w \in Workers, MarkFailed(w) PROVE IInv'
<1>1. PICK rest \in SUBSET (batch[w] \ {Current(w)}) :
        /\ batch' = [batch EXCEPT ![w] = rest]
        /\ Goto(w, IF rest = {} THEN "idle" ELSE "publish")
  BY DEF MarkFailed, Advance
<1>2. /\ pc[w] = "markFailed"
      /\ UNCHANGED <<visible, published, locked, topic, turn, suspect>>
      /\ \/ UNCHANGED <<published, lockedBy, expired>>
         \/ /\ Holds(w, Current(w)) /\ Release(Current(w))
            /\ Current(w) \notin BeingClaimed(w)
  BY DEF MarkFailed, Waits
<1>3. faults' \in 0..MaxFaults /\ stalled' \subseteq Events
  BY DEF MarkFailed, IInv, TypeOK
<1>4. QED
  BY <1>1, <1>2, <1>3, MarkStep

\* MarkFailed with an error.
LEMMA MarkFailedErrorStep ==
  ASSUME IInv, NEW w \in Workers, MarkFailedError(w) PROVE IInv'
<1>1. PICK rest \in SUBSET (batch[w] \ {Current(w)}) :
        /\ batch' = [batch EXCEPT ![w] = rest]
        /\ Goto(w, IF rest = {} THEN "idle" ELSE "publish")
  BY DEF MarkFailedError, Advance
<1>2. /\ pc[w] = "markFailed"
      /\ UNCHANGED <<visible, published, lockedBy, expired, locked, topic, turn, suspect>>
  BY DEF MarkFailedError
<1>3. faults' \in 0..MaxFaults /\ stalled' \subseteq Events
  BY RelayAssumption DEF MarkFailedError, Fault, IInv, TypeOK
<1>4. QED
  BY <1>1, <1>2, <1>3, MarkStep

\* A crash gives up the batch, or the claim under way.
LEMMA CrashStep == ASSUME IInv, NEW w \in Workers, Crash(w) PROVE IInv'
<1>1. faults' \in 0..MaxFaults
  BY RelayAssumption DEF Crash, Fault, IInv, TypeOK
<1>2. QED
  BY <1>1, GiveUpStep DEF Crash

-----------------------------------------------------------------------------
(* The theorems *)

\* The invariant holds at the start.
LEMMA InvInit == Init => IInv
<1>1. SUFFICES ASSUME Init PROVE IInv
  OBVIOUS
<1>2. Logged = {}
  BY <1>1 DEF Init, Logged
<1>3. TypeOK
  BY <1>1, RelayAssumption DEF Init, TypeOK, Labels
<1>4. BatchShape /\ MarkedLogged /\ LockShape
  BY <1>1 DEF Init, BatchShape, MarkedLogged, LockShape, BeingClaimed
<1>5. PublishedImpliesLogged /\ PublishedReleased /\ DuplicateOnlyIfSuspect
  BY <1>1 DEF Init, PublishedImpliesLogged, PublishedReleased, DuplicateOnlyIfSuspect
<1>6. \A e \in Events \ suspect : Unsuspected(e)
  BY <1>1, <1>2 DEF Init, Unsuspected
<1>7. QED
  BY <1>3, <1>4, <1>5, <1>6 DEF IInv

\* Every step keeps it.
LEMMA InvStep == IInv /\ [Next]_vars => IInv'
<1>1. SUFFICES ASSUME IInv, [Next]_vars PROVE IInv'
  OBVIOUS
<1>2. CASE \E e \in Events : Insert(e) \/ Lapse(e)
  BY <1>1, <1>2, InsertStep, LapseStep
<1>3. ASSUME NEW w \in Workers, Work(w) PROVE IInv'
  BY <1>1, <1>3, BeginClaimStep, ClaimStep, PublishAckStep, PublishErrorStep, MarkPublishedStep,
     MarkFailedStep DEF Work
<1>4. ASSUME NEW w \in Workers, Trouble(w) PROVE IInv'
  BY <1>1, <1>4, ClaimErrorStep, PublishUnacknowledgedStep, PublishRepeatedStep,
     MarkPublishedErrorStep, MarkFailedErrorStep, CrashStep DEF Trouble
<1>5. CASE UNCHANGED vars
  <2>1. LockShape'
    BY <1>1, <1>5 DEF vars, IInv, LockShape, BeingClaimed, Eligible
  <2>2. TypeOK' /\ BatchShape' /\ MarkedLogged' /\ PublishedImpliesLogged'
        /\ PublishedReleased' /\ DuplicateOnlyIfSuspect'
    BY <1>1, <1>5 DEF vars, IInv, TypeOK, BatchShape, MarkedLogged, Logged, Current,
                      PublishedImpliesLogged, PublishedReleased, DuplicateOnlyIfSuspect
  <2>3. \A e \in Events \ suspect' : Unsuspected(e)'
    BY <1>1, <1>5 DEF vars, IInv, Unsuspected, Logged, Current
  <2>4. QED
    BY <2>2, <2>3, <2>1 DEF IInv
<1>6. QED
  BY <1>1, <1>2, <1>3, <1>4, <1>5 DEF Next

\* The inductive invariant is an invariant.
THEOREM Invariance == Spec => []IInv
BY InvInit, InvStep, PTL DEF Spec

\* Every variable keeps its type.
THEOREM TypeCorrect == Spec => []TypeOK
<1>1. IInv => TypeOK
  BY DEF IInv
<1>2. QED
  BY <1>1, Invariance, PTL

\* However workers, faults and lapsed leases interleave, an event is marked
\* published only if Kafka has it.
THEOREM PublishedCorrect == Spec => []PublishedImpliesLogged
<1>1. IInv => PublishedImpliesLogged
  BY DEF IInv
<1>2. QED
  BY <1>1, Invariance, PTL

\* Two workers never write the same event unless a lease on it lapsed or a write
\* of it was repeated or reported lost.
THEOREM DuplicatesCorrect == Spec => []DuplicateOnlyIfSuspect
<1>1. IInv => DuplicateOnlyIfSuspect
  BY DEF IInv
<1>2. QED
  BY <1>1, Invariance, PTL

\* A published row is never leased, claimed or unpublished again.
THEOREM PublishedFinal == Spec => PublishedIsFinal
<1>1. ASSUME IInv, [Next]_vars, NEW e \in published
      PROVE  e \in published' /\ lockedBy'[e] = None
  <2>1. e \in published'
    BY <1>1 DEF Next, vars, Insert, Lapse, Work, Trouble, BeginClaim, Claim, ClaimError, PublishAck,
               PublishError, PublishUnacknowledged, PublishRepeated, MarkPublished,
               MarkPublishedError, MarkFailed, MarkFailedError, Crash, SetPublished
  <2>2. IInv'
    BY <1>1, InvStep
  <2>3. QED
    BY <2>1, <2>2 DEF IInv, PublishedReleased
<1>2. IInv /\ [Next]_vars =>
        [\A e \in published : e \in published' /\ lockedBy'[e] = None]_vars
  BY <1>1
<1>3. QED
  BY <1>2, Invariance, PTL DEF Spec, PublishedIsFinal

\* Dropping the event it is at, a worker no longer has it in its batch.
LEMMA AdvanceDrops ==
  ASSUME TypeOK, NEW w \in Workers, Advance(w) PROVE Current(w) \notin batch'[w]
BY DEF TypeOK, Advance

\* locked_by fences stale workers: a lease that has not lapsed ends only by its
\* holder marking that event, and passes to nobody.
THEOREM LeasesFenced == Spec => LeaseFencing
<1> DEFINE Ended(e) ==
      /\ lockedBy'[e] = None
      /\ pc[lockedBy[e]] \in {"markPublished", "markFailed"}
      /\ e = Current(lockedBy[e])
      /\ e \notin batch'[lockedBy[e]]
<1>1. ASSUME IInv, [Next]_vars, NEW e \in Events, lockedBy[e] # None, e \notin expired,
             lockedBy'[e] # lockedBy[e]
      PROVE  Ended(e)
  <2>1. ASSUME NEW w \in Workers, NEW rows \in SUBSET Eligible, Lease(w, rows)
        PROVE  FALSE
    BY <1>1, <2>1 DEF Lease, Eligible
  <2>2. ASSUME NEW w \in Workers, pc[w] \in {"markPublished", "markFailed"},
               Holds(w, Current(w)), Release(Current(w)), Current(w) \notin batch'[w]
        PROVE  Ended(e)
    <3>1. e = Current(w)
      BY <1>1, <2>2 DEF Release, IInv, TypeOK
    <3>2. lockedBy[e] = w /\ lockedBy'[e] = None
      BY <1>1, <2>2, <3>1 DEF Holds, Release, IInv, TypeOK
    <3>3. QED
      BY <2>2, <3>1, <3>2
  <2>3. ASSUME NEW w \in Workers, Claim(w) \/ ClaimError(w) \/ Crash(w) PROVE FALSE
    <3>1. locked[w] \in SUBSET Eligible
      BY <1>1 DEF IInv, LockShape
    <3>2. Lease(w, locked[w])
      BY <1>1, <2>3 DEF Claim, ClaimError, Crash
    <3>3. QED
      BY <2>1, <3>1, <3>2
  <2>4. ASSUME NEW w \in Workers, MarkPublished(w) PROVE Ended(e)
    <3>1. Current(w) \notin batch'[w]
      BY <1>1, <2>4, AdvanceDrops DEF MarkPublished, IInv
    <3>2. QED
      BY <1>1, <2>2, <2>4, <3>1 DEF MarkPublished, SetPublished
  <2>5. ASSUME NEW w \in Workers, MarkPublishedError(w) PROVE Ended(e)
    <3>1. Current(w) \notin batch'[w]
      BY <1>1, <2>5 DEF MarkPublishedError, IInv, TypeOK
    <3>2. QED
      BY <1>1, <2>2, <2>5, <3>1 DEF MarkPublishedError, SetPublished
  <2>6. ASSUME NEW w \in Workers, MarkFailed(w) PROVE Ended(e)
    <3>1. Current(w) \notin batch'[w]
      BY <1>1, <2>6, AdvanceDrops DEF MarkFailed, IInv
    <3>2. QED
      BY <1>1, <2>2, <2>6, <3>1 DEF MarkFailed
  <2>7. QED
    BY <1>1, <2>3, <2>4, <2>5, <2>6 DEF Next, vars, Work, Trouble, Insert, Lapse, BeginClaim,
       PublishAck, PublishError, PublishUnacknowledged, PublishRepeated, MarkFailedError
<1>2. IInv /\ [Next]_vars =>
        [\A e \in Events : LET h == lockedBy[e] IN
           h # None /\ e \notin expired /\ lockedBy'[e] # h =>
             /\ lockedBy'[e] = None
             /\ pc[h] \in {"markPublished", "markFailed"}
             /\ e = Current(h)
             /\ e \notin batch'[h]]_vars
  BY <1>1
<1>3. QED
  BY <1>2, Invariance, PTL DEF Spec, LeaseFencing

=============================================================================
