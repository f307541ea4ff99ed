------------------------ MODULE RelayDeliveryProofs ------------------------
(***************************************************************************)
(* What consumers of the topic are promised: OutboxRelay implements        *)
(* AtLeastOnce, and when events of one order may arrive out of order.      *)
(* Proofs for every set of workers, number of events, partitions and       *)
(* faults.                                                                 *)
(***************************************************************************)
EXTENDS OutboxRelayProofs, FiniteSetTheorems

\* The events of a sequence of messages.
EventsIn(s) == [i \in DOMAIN s |-> s[i].event]

-----------------------------------------------------------------------------
\* They are a sequence of the same length.
LEMMA EventsInSeq ==
  ASSUME NEW s \in Seq(Messages)
  PROVE  /\ EventsIn(s) \in Seq(Events) /\ Len(EventsIn(s)) = Len(s)
         /\ \A i \in 1..Len(s) : EventsIn(s)[i] = s[i].event
<1>1. DOMAIN s = 1..Len(s) /\ Len(s) \in Nat /\ \A i \in 1..Len(s) : s[i] \in Messages
  BY LenProperties, ElementOfSeq
<1>2. EventsIn(s) \in [1..Len(s) -> Events]
  BY <1>1 DEF EventsIn, Messages
<1>3. EventsIn(s) \in Seq(Events)
  BY <1>1, <1>2
<1>4. DOMAIN EventsIn(s) = 1..Len(s)
  BY <1>2
<1>5. Len(EventsIn(s)) = Len(s)
  BY <1>1, <1>3, <1>4, LenProperties
<1>6. QED
  BY <1>1, <1>3, <1>5 DEF EventsIn

\* The event of a message appended is appended.
LEMMA EventsInAppend ==
  ASSUME NEW s \in Seq(Messages), NEW m \in Messages
  PROVE  EventsIn(Append(s, m)) = Append(EventsIn(s), m.event)
<1> DEFINE t == Append(s, m)
           a == EventsIn(t)
           b == Append(EventsIn(s), m.event)
<1>1. m.event \in Events
  BY DEF Messages
<1>2. /\ t \in Seq(Messages) /\ Len(t) = Len(s) + 1 /\ Len(s) \in Nat
      /\ \A i \in 1..Len(s) : t[i] = s[i]
      /\ t[Len(s) + 1] = m
  BY AppendProperties, LenProperties
<1>3. /\ b \in Seq(Events) /\ Len(b) = Len(s) + 1
      /\ \A i \in 1..Len(s) : b[i] = s[i].event
      /\ b[Len(s) + 1] = m.event
  BY <1>1, EventsInSeq, AppendProperties
<1>4. /\ a \in Seq(Events) /\ Len(a) = Len(s) + 1
      /\ \A i \in 1..Len(s) + 1 : a[i] = t[i].event
  BY <1>2, EventsInSeq
<1>5. \A i \in 1..Len(s) + 1 : a[i] = b[i]
  BY <1>2, <1>3, <1>4
<1> HIDE DEF a, b
<1>6. a = b
  BY <1>3, <1>4, <1>5, SeqEqual
<1>7. QED
  BY <1>6 DEF a, b

\* So it is when the message is appended twice.
LEMMA EventsInTwice ==
  ASSUME NEW s \in Seq(Messages), NEW m \in Messages
  PROVE  EventsIn(s \o <<m, m>>) = EventsIn(s) \o <<m.event, m.event>>
<1> DEFINE t == s \o <<m, m>>
           a == EventsIn(t)
           b == EventsIn(s) \o <<m.event, m.event>>
<1>1. m.event \in Events
  BY DEF Messages
<1>2. /\ t \in Seq(Messages) /\ Len(t) = Len(s) + 2 /\ Len(s) \in Nat
      /\ \A i \in 1..Len(s) : t[i] = s[i]
      /\ t[Len(s) + 1] = m /\ t[Len(s) + 2] = m
  <2>1. <<m, m>> \in Seq(Messages) /\ Len(<<m, m>>) = 2
        /\ <<m, m>>[1] = m /\ <<m, m>>[2] = m
    OBVIOUS
  <2>2. /\ t \in Seq(Messages) /\ Len(t) = Len(s) + 2
        /\ \A i \in 1..Len(s) + 2 :
             t[i] = IF i <= Len(s) THEN s[i] ELSE <<m, m>>[i - Len(s)]
    BY <2>1, ConcatProperties
  <2>3. Len(s) \in Nat
    BY LenProperties
  <2>4. t[Len(s) + 1] = <<m, m>>[1] /\ t[Len(s) + 2] = <<m, m>>[2]
    BY <2>2, <2>3
  <2>5. QED
    BY <2>1, <2>2, <2>3, <2>4
<1>3. /\ b \in Seq(Events) /\ Len(b) = Len(s) + 2
      /\ \A i \in 1..Len(s) : b[i] = s[i].event
      /\ b[Len(s) + 1] = m.event /\ b[Len(s) + 2] = m.event
  <2> DEFINE c == <<m.event, m.event>>
  <2>1. c \in Seq(Events) /\ Len(c) = 2 /\ c[1] = m.event /\ c[2] = m.event
    BY <1>1
  <2>2. /\ EventsIn(s) \in Seq(Events) /\ Len(EventsIn(s)) = Len(s)
        /\ \A i \in 1..Len(s) : EventsIn(s)[i] = s[i].event
    BY EventsInSeq
  <2> HIDE DEF c
  <2>3. /\ EventsIn(s) \o c \in Seq(Events) /\ Len(EventsIn(s) \o c) = Len(s) + 2
        /\ \A i \in 1..Len(s) + 2 :
             (EventsIn(s) \o c)[i] = IF i <= Len(s) THEN EventsIn(s)[i] ELSE c[i - Len(s)]
    <3>1. /\ EventsIn(s) \o c \in Seq(Events)
          /\ Len(EventsIn(s) \o c) = Len(EventsIn(s)) + Len(c)
          /\ \A i \in 1..Len(EventsIn(s)) + Len(c) :
               (EventsIn(s) \o c)[i] = IF i <= Len(EventsIn(s)) THEN EventsIn(s)[i]
                                       ELSE c[i - Len(EventsIn(s))]
      <4>1. EventsIn(s) \in Seq(Events) /\ c \in Seq(Events)
        BY <2>1, <2>2
      <4>2. QED
        BY <4>1, ConcatProperties, Zenon
    <3>2. QED
      BY <2>1, <2>2, <3>1
  <2>4. /\ (EventsIn(s) \o c)[Len(s) + 1] = c[1]
        /\ (EventsIn(s) \o c)[Len(s) + 2] = c[2]
    BY <1>2, <2>3
  <2>5. /\ EventsIn(s) \o c \in Seq(Events) /\ Len(EventsIn(s) \o c) = Len(s) + 2
        /\ \A i \in 1..Len(s) : (EventsIn(s) \o c)[i] = s[i].event
        /\ (EventsIn(s) \o c)[Len(s) + 1] = m.event
        /\ (EventsIn(s) \o c)[Len(s) + 2] = m.event
    BY <1>2, <2>1, <2>2, <2>3, <2>4
  <2>6. QED
    BY <2>5 DEF c
<1>4. /\ a \in Seq(Events) /\ Len(a) = Len(s) + 2
      /\ \A i \in 1..Len(s) + 2 : a[i] = t[i].event
  BY <1>2, EventsInSeq
<1> HIDE DEF a, b, t
<1>5. \A i \in 1..Len(s) + 2 : a[i] = b[i]
  <2> TAKE i \in 1..Len(s) + 2
  <2>1. i \in 1..Len(s) \/ i = Len(s) + 1 \/ i = Len(s) + 2
    BY <1>2
  <2>2. a[i] = t[i].event
    BY <1>4
  <2>3. QED
    BY <2>1, <2>2, <1>2, <1>3
<1>6. a = b
  BY <1>3, <1>4, <1>5, SeqEqual
<1>7. QED
  BY <1>6 DEF a, b, t

-----------------------------------------------------------------------------
\* Workers have only rows that are visible.
Offered == \A w \in Workers : batch[w] \subseteq visible

\* Claims take visible rows, and nothing becomes invisible.
LEMMA OfferedStep == IInv /\ Offered /\ [Next]_vars => Offered'
<1> SUFFICES ASSUME IInv, Offered, [Next]_vars, NEW v \in Workers
             PROVE  batch'[v] \subseteq visible'
  BY DEF Offered
<1>1. visible \subseteq visible'
  BY DEF Next, vars, Insert, Lapse, Work, Trouble, BeginClaim, Claim, ClaimError, PublishAck,
         PublishError, PublishUnacknowledged, PublishRepeated, MarkPublished,
         MarkPublishedError, MarkFailed, MarkFailedError, Crash
<1>2. CASE UNCHANGED batch
  BY <1>1, <1>2 DEF Offered
<1>3. ASSUME NEW w \in Workers, NEW S \in SUBSET visible, batch' = [batch EXCEPT ![w] = S]
      PROVE  batch'[v] \subseteq visible'
  BY <1>1, <1>3 DEF Offered, IInv, TypeOK
<1>4. ASSUME NEW w \in Workers, Advance(w)
      PROVE  batch'[v] \subseteq visible'
  <2> DEFINE rest == batch[w] \ {Current(w)}
  <2>1. rest \in SUBSET visible
    BY DEF Offered
  <2>2. batch' = [batch EXCEPT ![w] = rest]
    BY <1>4 DEF Advance
  <2>3. QED
    BY <1>3, <2>1, <2>2
<1>5. ASSUME NEW w \in Workers, Claim(w)
      PROVE  batch'[v] \subseteq visible'
  <2>1. batch' = [batch EXCEPT ![w] = locked[w]]
    BY <1>5 DEF Claim
  <2>2. locked[w] \subseteq visible
    BY DEF IInv, LockShape, Eligible
  <2>3. QED
    BY <1>3, <2>1, <2>2
<1>6. CASE \E e \in Events : Insert(e) \/ Lapse(e)
  BY <1>2, <1>6 DEF Insert, Lapse
<1>7. ASSUME NEW w \in Workers, Work(w) \/ Trouble(w)
      PROVE  batch'[v] \subseteq visible'
  BY <1>2, <1>3, <1>4, <1>5, <1>7
     DEF Work, Trouble, BeginClaim, ClaimError, PublishAck, PublishError, PublishUnacknowledged,
         PublishRepeated, MarkPublished, MarkPublishedError, MarkFailed, MarkFailedError, Crash
<1>8. QED
  BY <1>2, <1>6, <1>7 DEF Next, vars

\* Workers have visible rows in every state.
LEMMA OfferedInvariant == Spec => []Offered
<1>1. Init => Offered
  BY DEF Init, Offered
<1>2. QED
  BY <1>1, OfferedStep, Invariance, PTL DEF Spec

-----------------------------------------------------------------------------
\* A step that leaves the rows' visibility, the topic and published_at alone, or
\* changes one of them.
LEMMA StepsOnPromise ==
  ASSUME IInv, Next
  PROVE  \/ UNCHANGED <<visible, topic, published>>
         \/ \E e \in Events :
              \/ /\ e \notin visible /\ visible' = visible \union {e}
                 /\ UNCHANGED <<topic, published>>
              \/ /\ e \notin published /\ e \in Logged
                 /\ published' = published \union {e}
                 /\ UNCHANGED <<visible, topic>>
         \/ \E w \in Workers :
              /\ pc[w] = "publish"
              /\ \/ topic' = Append(topic, Message(w))
                 \/ topic' = topic \o <<Message(w), Message(w)>>
              /\ UNCHANGED <<visible, published>>
<1>1. CASE \E e \in Events : Insert(e) \/ Lapse(e)
  BY <1>1 DEF Insert, Lapse
<1>2. ASSUME NEW w \in Workers, BeginClaim(w) \/ Claim(w) \/ ClaimError(w) \/ PublishError(w)
                                  \/ MarkFailed(w) \/ MarkFailedError(w) \/ Crash(w)
      PROVE  UNCHANGED <<visible, topic, published>>
  BY <1>2 DEF BeginClaim, Claim, ClaimError, PublishError, MarkFailed, MarkFailedError, Crash
<1>3. ASSUME NEW w \in Workers,
             PublishAck(w) \/ PublishUnacknowledged(w) \/ PublishRepeated(w)
      PROVE  /\ pc[w] = "publish"
             /\ \/ topic' = Append(topic, Message(w))
                \/ topic' = topic \o <<Message(w), Message(w)>>
             /\ UNCHANGED <<visible, published>>
  BY <1>3 DEF PublishAck, PublishUnacknowledged, PublishRepeated
<1>4. ASSUME NEW w \in Workers, MarkPublished(w) \/ MarkPublishedError(w)
      PROVE  \/ UNCHANGED <<visible, topic, published>>
             \/ \E e \in Events : /\ e \notin published /\ e \in Logged
                                  /\ published' = published \union {e}
                                  /\ UNCHANGED <<visible, topic>>
  <2>1. pc[w] = "markPublished" /\ UNCHANGED <<visible, topic>>
    BY <1>4 DEF MarkPublished, MarkPublishedError
  <2>2. Current(w) \in Events /\ Current(w) \in Logged
    BY <2>1, CurrentType DEF IInv, MarkedLogged
  <2>3. \/ published' = published
        \/ Current(w) \notin published /\ published' = published \union {Current(w)}
    BY <1>4 DEF MarkPublished, MarkPublishedError, SetPublished, Holds
  <2>4. QED
    BY <2>1, <2>2, <2>3
<1>5. QED
  BY <1>1, <1>2, <1>3, <1>4 DEF Next, Work, Trouble

\* Through leases, batches, retries and crashes the relay only ever offers an event,
\* delivers an offered one once or twice more, or settles a delivered one.
THEOREM DeliveryRefined == Spec => RefinesAtLeastOnce
<1>1. Init => Delivery!Init
  BY DEF Init, Delivery!Init
<1>2. IInv /\ Offered /\ [Next]_vars => [Delivery!Next]_Delivery!vars
  <2> SUFFICES ASSUME IInv, Offered, [Next]_vars PROVE [Delivery!Next]_Delivery!vars
    OBVIOUS
  <2>1. CASE UNCHANGED <<visible, topic, published>>
    BY <2>1 DEF Delivery!vars
  <2>2. ASSUME NEW e \in Events, e \notin visible, visible' = visible \union {e},
               UNCHANGED <<topic, published>>
        PROVE  Delivery!Next
    BY <2>2 DEF Delivery!Next, Delivery!Offer
  <2>3. ASSUME NEW e \in Events, e \notin published, e \in Logged,
               published' = published \union {e}, UNCHANGED <<visible, topic>>
        PROVE  Delivery!Next
    <3>1. Delivery!Settle(e)
      BY <2>3 DEF Delivery!Settle, Logged
    <3>2. QED
      BY <3>1 DEF Delivery!Next
  <2>4. ASSUME NEW w \in Workers, pc[w] = "publish", UNCHANGED <<visible, published>>,
               \/ topic' = Append(topic, Message(w))
               \/ topic' = topic \o <<Message(w), Message(w)>>
        PROVE  Delivery!Next
    <3>1. PICK e \in Events : e = Current(w)
      BY <2>4, WriterFacts
    <3>2. Message(w) \in Messages /\ Message(w).event = e
      BY <3>1, MessageType DEF IInv
    <3>3. e \in visible
      BY <2>4, <3>1, WriterFacts DEF Offered
    <3>4. topic \in Seq(Messages)
      BY DEF IInv, TypeOK, Messages
    <3>5. \/ EventsIn(topic') = Append(EventsIn(topic), e)
          \/ EventsIn(topic') = EventsIn(topic) \o <<e, e>>
      BY <2>4, <3>2, <3>4, EventsInAppend, EventsInTwice
    <3>6. Delivery!Deliver(e)
      BY <2>4, <3>3, <3>5 DEF Delivery!Deliver, EventsIn
    <3>7. QED
      BY <3>6 DEF Delivery!Next
  <2>5. CASE Next
    BY <2>1, <2>2, <2>3, <2>4, <2>5, StepsOnPromise
  <2>6. QED
    BY <2>1, <2>5 DEF vars
<1>3. QED
  BY <1>1, <1>2, OfferedInvariant, Invariance, PTL DEF Spec, RefinesAtLeastOnce, Delivery!Spec

\* What is in the topic was in a worker's batch.
LEMMA LoggedStep ==
  IInv /\ Offered /\ Logged \subseteq visible /\ [Next]_vars => (Logged \subseteq visible)'
<1> SUFFICES ASSUME IInv, Offered, Logged \subseteq visible, [Next]_vars
             PROVE  Logged' \subseteq visible'
  OBVIOUS
<1>1. ASSUME NEW w \in Workers, pc[w] = "publish", UNCHANGED visible,
             \/ topic' = Append(topic, Message(w))
             \/ topic' = topic \o <<Message(w), Message(w)>>
      PROVE  Logged' \subseteq visible'
  <2>1. Current(w) \in visible /\ Current(w) \in Events
    BY <1>1, WriterFacts DEF Offered
  <2>2. Message(w) \in Messages /\ Message(w).event = Current(w)
    BY <2>1, MessageType DEF IInv
  <2>3. topic \in Seq(Messages)
    BY DEF IInv, TypeOK, Messages
  <2>4. Logged' = Logged \union {Current(w)}
    BY <1>1, <2>2, <2>3, AppendLogs, AppendTwiceLogs
  <2>5. QED
    BY <1>1, <2>1, <2>4
<1>2. CASE UNCHANGED topic /\ visible \subseteq visible'
  BY <1>2 DEF Logged
<1>3. QED
  BY <1>1, <1>2, StepsOnPromise DEF vars

\* Kafka has only what was inserted.
THEOREM OnlyOffered == Spec => [](Logged \subseteq visible)
<1>1. Init => Logged \subseteq visible
  BY DEF Init, Logged
<1>2. QED
  BY <1>1, LoggedStep, OfferedInvariant, Invariance, PTL DEF Spec

-----------------------------------------------------------------------------
(* Order of the events of one order *)

\* Nothing of a batch is older than its current event.
LEMMA MinLeast ==
  ASSUME NEW S \in SUBSET Events, NEW e \in S PROVE Min(S) <= e
<1>1. S \subseteq Nat /\ S # {}
  BY RelayAssumption DEF Events
<1>2. PICK x \in S : \A y \in S : <<y, x>> \notin OpToRel(<, Nat)
  BY <1>1, WFMin, NatLessThanWellFounded, Zenon
<1>3. \A y \in S : x <= y
  <2> TAKE y \in S
  <2>1. ~ (y < x)
    BY <1>1, <1>2 DEF OpToRel
  <2>2. QED
    BY <2>1, <1>1
<1>4. \A y \in S : Min(S) <= y
  BY <1>3 DEF Min
<1>5. QED
  BY <1>4

\* The oldest rows of a set have no gap: what is older than one of them is one.
LEMMA OldestClosed ==
  ASSUME NEW S \in SUBSET Events, NEW e \in Oldest(S, BatchSize), NEW d \in S, d < e
  PROVE  d \in Oldest(S, BatchSize)
<1> DEFINE Below(x) == {y \in S : y < x}
<1>1. e \in S /\ Cardinality(Below(e)) < BatchSize
  BY DEF Oldest
<1>2. S \subseteq Int /\ BatchSize \in Int
  BY RelayAssumption DEF Events
<1>3. IsFiniteSet(Events)
  BY RelayAssumption, FS_Interval DEF Events
<1>4. IsFiniteSet(Below(e)) /\ Below(d) \subseteq Below(e)
  <2>1. Below(e) \subseteq Events
    OBVIOUS
  <2>2. Below(d) \subseteq Below(e)
    <3> SUFFICES ASSUME NEW y \in S, y < d PROVE y < e
      OBVIOUS
    <3>1. y \in Int /\ d \in Int /\ e \in Int
      BY <1>1, <1>2
    <3>2. QED
      BY <3>1
  <2>3. QED
    BY <1>3, <2>1, <2>2, FS_Subset
<1>5. /\ Cardinality(Below(d)) <= Cardinality(Below(e))
      /\ Cardinality(Below(d)) \in Nat /\ Cardinality(Below(e)) \in Nat
  BY <1>4, FS_Subset, FS_CardinalityType
<1>6. Cardinality(Below(d)) < BatchSize
  BY <1>1, <1>2, <1>5
<1>7. QED
  BY <1>6 DEF Oldest

\* Two events of one order, in the order of their transactions.
Earlier(d, e) == d < e /\ OrderOf[d] = OrderOf[e]

\* Events of an order become visible in its order.
VisibleInOrder ==
  \A d, e \in Events : Earlier(d, e) /\ e \in visible => d \in visible

\* Whoever is about to call MarkFailed has given the event up.
FailedStalled == \A w \in Workers : pc[w] = "markFailed" => Current(w) \in stalled

\* What is older than an event of a set, and of its order, is in the topic, was gone
\* past, or is in the set too.
Closed(S) ==
  \A e \in S : \A d \in Events :
    Earlier(d, e) => d \in Logged \/ d \in stalled \/ d \in S

\* So it is for the rows a claim has locked, and then for the batch it returned.
BatchInOrder == \A w \in Workers : Closed(locked[w]) /\ Closed(batch[w])

\* The inductive invariant, on top of IInv.
OrderInv ==
  /\ Offered
  /\ VisibleInOrder
  /\ FailedStalled
  /\ BatchInOrder
  /\ OvertakenOnlyIfStalled

\* Steps that write nothing and lock nothing: a batch loses only its current event,
\* which is in the topic or given up, or all of it, or is what its claim had locked.
LEMMA QuietOrder ==
  ASSUME IInv, OrderInv, NEW w \in Workers,
         UNCHANGED <<visible, topic>>, stalled \subseteq stalled',
         \A v \in Workers \ {w} : /\ batch'[v] = batch[v] /\ locked'[v] = locked[v]
                                 /\ pc'[v] = pc[v],
         locked'[w] = locked[w] \/ locked'[w] = {},
         \/ batch'[w] = batch[w]
         \/ batch'[w] = {}
         \/ batch'[w] = locked[w]
         \/ pc[w] \in {"markPublished", "markFailed"}
            /\ batch'[w] = batch[w] \ {Current(w)},
         pc'[w] = "markFailed" => Current(w)' \in stalled'
  PROVE  OrderInv'
<1>1. Logged' = Logged
  BY DEF Logged
<1>2. Offered' /\ VisibleInOrder'
  <2>1. locked[w] \subseteq visible
    BY DEF IInv, LockShape, Eligible
  <2>2. QED
    BY <2>1 DEF OrderInv, Offered, VisibleInOrder, Earlier
<1>3. FailedStalled'
  BY DEF OrderInv, FailedStalled, Current
<1>4. BatchInOrder'
  <2> SUFFICES ASSUME NEW v \in Workers, NEW S \in {locked'[v], batch'[v]}, NEW e \in S,
                      NEW d \in Events, Earlier(d, e)
               PROVE  d \in Logged \/ d \in stalled' \/ d \in S
    BY <1>1 DEF BatchInOrder, Closed, Earlier
  <2>1. CASE S = locked[v] \/ S = batch[v]
    BY <2>1 DEF OrderInv, BatchInOrder, Closed
  <2>2. CASE S = batch'[w] /\ v = w /\ pc[w] \in {"markPublished", "markFailed"}
             /\ batch'[w] = batch[w] \ {Current(w)}
    <3>1. Current(w) \in Logged \/ Current(w) \in stalled
      BY <2>2 DEF IInv, MarkedLogged, OrderInv, FailedStalled
    <3>2. d \in Logged \/ d \in stalled \/ d \in batch[w]
      BY <2>2 DEF OrderInv, BatchInOrder, Closed
    <3>3. QED
      BY <2>2, <3>1, <3>2
  <2>3. QED
    BY <2>1, <2>2
<1>5. OvertakenOnlyIfStalled'
  BY <1>1 DEF OrderInv, OvertakenOnlyIfStalled, LoggedBefore
<1>6. QED
  BY <1>2, <1>3, <1>4, <1>5 DEF OrderInv

\* A claim locks the earlier events of an order with a later one, unless they are in
\* the topic, given up, leased, or in another claim's hands.
LEMMA BeginClaimOrder ==
  ASSUME IInv, OrderInv, NEW w \in Workers, BeginClaim(w)
  PROVE  OrderInv'
<1> DEFINE free == Eligible \ BeingClaimed(w)
<1>1. PICK skipped \in SUBSET (BeingMarked(w) \intersect Eligible) :
        LET rows == Oldest(free \ skipped, BatchSize)
        IN  /\ locked' = [locked EXCEPT ![w] = rows]
            /\ stalled' = stalled \union PassedOver(w, rows)
  BY DEF BeginClaim, Candidates
<1> DEFINE rows == Oldest(free \ skipped, BatchSize)
<1>2. /\ locked'[w] = rows /\ pc'[w] = "claim"
      /\ stalled' = stalled \union PassedOver(w, rows)
      /\ \A v \in Workers \ {w} : locked'[v] = locked[v] /\ pc'[v] = pc[v]
      /\ UNCHANGED <<visible, topic, batch>> /\ Logged' = Logged
  BY <1>1 DEF BeginClaim, Goto, IInv, TypeOK, Logged
<1>3. free \subseteq Events /\ rows \subseteq free \ skipped /\ free \subseteq visible
  BY DEF Eligible, Oldest, IInv, TypeOK
<1>4. Offered' /\ VisibleInOrder'
  BY <1>2, <1>3 DEF OrderInv, Offered, VisibleInOrder, Earlier
<1>5. FailedStalled'
  BY <1>2 DEF OrderInv, FailedStalled, Current
<1>6. BatchInOrder'
  <2> SUFFICES ASSUME NEW v \in Workers, NEW S \in {locked'[v], batch'[v]}, NEW e \in S,
                      NEW d \in Events, Earlier(d, e)
               PROVE  d \in Logged \/ d \in stalled' \/ d \in S
    BY <1>2 DEF BatchInOrder, Closed, Earlier
  <2>1. CASE S = locked[v] \/ S = batch[v]
    BY <1>2, <2>1 DEF OrderInv, BatchInOrder, Closed
  <2>2. CASE S = rows
    <3>1. e \in free /\ e \in Events /\ e \in visible /\ d < e /\ OrderOf[d] = OrderOf[e]
      BY <1>3, <2>2 DEF Earlier
    <3>2. d \in visible
      BY <3>1 DEF OrderInv, VisibleInOrder, Earlier
    <3>3. CASE d \in published
      BY <3>3 DEF IInv, PublishedImpliesLogged
    <3>4. CASE d \in free \ skipped
      <4>1. free \ skipped \in SUBSET Events
        BY <1>3
      <4>2. e \in rows /\ d < e
        BY <2>2, <3>1
      <4> HIDE DEF free
      <4>3. d \in rows
        BY <3>4, <4>1, <4>2, OldestClosed
      <4>4. QED
        BY <2>2, <4>3
    <3>5. CASE d \in skipped
      <4>1. PICK u \in Workers : pc[u] \in {"markPublished", "markFailed"} /\ d = Current(u)
        BY <3>5 DEF BeingMarked
      <4>2. QED
        BY <1>2, <4>1 DEF IInv, MarkedLogged, OrderInv, FailedStalled
    <3>6. CASE d \notin published /\ d \notin free
      <4>1. d \in BeingClaimed(w) \/ (lockedBy[d] # None /\ d \notin expired)
        BY <3>2, <3>6 DEF Eligible
      <4>2. d \in PassedOver(w, rows)
        BY <2>2, <3>1, <3>2, <3>6, <4>1 DEF PassedOver
      <4>3. QED
        BY <1>2, <4>2
    <3>7. QED
      BY <3>3, <3>4, <3>5, <3>6
  <2>3. QED
    BY <1>2, <2>1, <2>2
<1>7. OvertakenOnlyIfStalled'
  BY <1>2 DEF OrderInv, OvertakenOnlyIfStalled, LoggedBefore
<1>8. QED
  BY <1>4, <1>5, <1>6, <1>7 DEF OrderInv

\* A worker writes an event when all that is older in its batch has been dealt with.
LEMMA WriteOrder ==
  ASSUME IInv, OrderInv, NEW w \in Workers, pc[w] = "publish",
         UNCHANGED <<visible, locked, batch>>, stalled \subseteq stalled',
         \/ topic' = Append(topic, Message(w))
         \/ topic' = topic \o <<Message(w), Message(w)>>,
         NEW label \in {"markPublished", "markFailed"}, Goto(w, label),
         label = "markFailed" => Current(w) \in stalled'
  PROVE  OrderInv'
<1> DEFINE c == Current(w)
<1>1. c \in batch[w] /\ c \in Events /\ batch[w] \subseteq Events
  BY WriterFacts DEF IInv, TypeOK
<1>2. Message(w) \in Messages /\ Message(w).event = c /\ topic \in Seq(Messages)
  BY <1>1, MessageType DEF IInv, TypeOK, Messages
<1>3. /\ \A i \in DOMAIN topic : i \in DOMAIN topic' /\ topic'[i] = topic[i]
      /\ Logged' = Logged \union {c}
  <2>1. DOMAIN topic = 1..Len(topic) /\ Len(topic) \in Nat
    BY <1>2, LenProperties
  <2>2. CASE topic' = Append(topic, Message(w))
    <3>1. /\ DOMAIN topic' = 1..Len(topic) + 1
          /\ \A i \in DOMAIN topic : topic'[i] = topic[i]
          /\ Logged' = Logged \union {c}
      BY <1>2, <2>2, AppendLogs
    <3>2. QED
      BY <2>1, <3>1
  <2>3. CASE topic' = topic \o <<Message(w), Message(w)>>
    <3>1. /\ DOMAIN topic' = 1..Len(topic) + 2
          /\ \A i \in DOMAIN topic : topic'[i] = topic[i]
          /\ Logged' = Logged \union {c}
      BY <1>2, <2>3, AppendTwiceLogs
    <3>2. QED
      BY <2>1, <3>1
  <2>4. QED
    BY <2>2, <2>3
<1>4. Offered' /\ VisibleInOrder'
  BY DEF OrderInv, Offered, VisibleInOrder, Earlier
<1>5. pc'[w] = label /\ \A v \in Workers \ {w} : pc'[v] = pc[v]
  BY DEF Goto, IInv, TypeOK
<1>6. FailedStalled'
  BY <1>5 DEF OrderInv, FailedStalled, Current
<1>7. BatchInOrder'
  BY <1>3 DEF OrderInv, BatchInOrder, Closed, Earlier
<1>8. OvertakenOnlyIfStalled'
  <2> SUFFICES ASSUME NEW d \in Events, NEW e \in Events, d < e, OrderOf[d] = OrderOf[e],
                      e \in Logged', d \notin stalled'
               PROVE  LoggedBefore(d, e)'
    BY DEF OvertakenOnlyIfStalled
  <2>1. ASSUME LoggedBefore(d, e) PROVE LoggedBefore(d, e)'
    <3>1. PICK i \in DOMAIN topic :
            topic[i].event = d /\ \A j \in 1..i : topic[j].event # e
      BY <2>1 DEF LoggedBefore
    <3>2. \A j \in 1..i : j \in DOMAIN topic
      BY <1>2, LenProperties
    <3>3. QED
      BY <1>3, <3>1, <3>2 DEF LoggedBefore
  <2>2. CASE e \in Logged
    BY <2>1, <2>2 DEF OrderInv, OvertakenOnlyIfStalled
  <2>3. CASE e \notin Logged
    <3>1. e = c
      BY <1>3, <2>3
    <3>2. d \notin batch[w]
      <4>1. ASSUME d \in batch[w] PROVE FALSE
        <5>1. Min(batch[w]) <= d
          BY <1>1, <4>1, MinLeast
        <5>2. e <= d /\ d < e /\ d \in Int /\ e \in Int
          BY <3>1, <5>1, RelayAssumption DEF Current, Events
        <5>3. QED
          BY <5>2
      <4>2. QED
        BY <4>1
    <3>3. d \in Logged
      BY <1>1, <3>1, <3>2 DEF OrderInv, BatchInOrder, Closed, Earlier
    <3>4. PICK i \in DOMAIN topic : topic[i].event = d
      BY <3>3 DEF Logged
    <3>5. \A j \in 1..i : topic[j].event # e
      <4>1. \A j \in 1..i : j \in DOMAIN topic
        BY <1>2, <3>4, LenProperties
      <4>2. QED
        BY <2>3, <4>1 DEF Logged
    <3>6. QED
      BY <2>1, <3>4, <3>5 DEF LoggedBefore
  <2>4. QED
    BY <2>2, <2>3
<1>9. QED
  BY <1>4, <1>6, <1>7, <1>8 DEF OrderInv

\* Every step keeps the order, or gives up the event it leaves behind.
LEMMA OrderStep == IInv /\ OrderInv /\ [Next]_vars => OrderInv'
<1> SUFFICES ASSUME IInv, OrderInv, [Next]_vars PROVE OrderInv'
  OBVIOUS
<1>1. CASE UNCHANGED <<visible, topic, locked, batch, pc, stalled>>
  <2>1. Offered' /\ VisibleInOrder' /\ FailedStalled'
    BY <1>1 DEF OrderInv, Offered, VisibleInOrder, FailedStalled, Current, Earlier
  <2>2. BatchInOrder' /\ OvertakenOnlyIfStalled'
    BY <1>1 DEF OrderInv, BatchInOrder, Closed, OvertakenOnlyIfStalled, LoggedBefore, Logged, Earlier
  <2>3. QED
    BY <2>1, <2>2 DEF OrderInv
<1>2. ASSUME NEW f \in Events, Insert(f)
      PROVE  OrderInv'
  <2>1. Offered' /\ FailedStalled'
    BY <1>2 DEF OrderInv, Offered, FailedStalled, Current, Insert
  <2>2. VisibleInOrder'
    BY <1>2 DEF OrderInv, VisibleInOrder, Earlier, Insert
  <2>3. BatchInOrder' /\ OvertakenOnlyIfStalled'
    BY <1>2 DEF OrderInv, BatchInOrder, Closed, OvertakenOnlyIfStalled, LoggedBefore, Logged, Earlier,
                Insert
  <2>4. QED
    BY <2>1, <2>2, <2>3 DEF OrderInv
<1>3. ASSUME NEW w \in Workers, PublishError(w)
      PROVE  OrderInv'
  <2>1. /\ UNCHANGED <<visible, topic, locked, batch>>
        /\ stalled' = stalled \union {Current(w)} /\ Current(w)' = Current(w)
        /\ \A v \in Workers \ {w} : pc'[v] = pc[v]
    BY <1>3 DEF PublishError, Goto, Current, IInv, TypeOK
  <2>2. QED
    BY <2>1, QuietOrder
<1>4. ASSUME NEW w \in Workers, PublishAck(w) \/ PublishRepeated(w) \/ PublishUnacknowledged(w)
      PROVE  OrderInv'
  <2>1. CASE PublishAck(w)
    BY <2>1, WriteOrder DEF PublishAck
  <2>2. CASE PublishRepeated(w)
    BY <2>2, WriteOrder DEF PublishRepeated
  <2>3. CASE PublishUnacknowledged(w)
    <3>1. Goto(w, "markFailed") /\ Current(w) \in stalled' /\ stalled \subseteq stalled'
      BY <2>3 DEF PublishUnacknowledged, AfterPublishError
    <3>2. QED
      BY <2>3, <3>1, WriteOrder DEF PublishUnacknowledged
  <2>4. QED
    BY <1>4, <2>1, <2>2, <2>3
<1>5. ASSUME NEW w \in Workers, MarkPublished(w) \/ MarkFailed(w) \/ MarkFailedError(w)
      PROVE  OrderInv'
  <2>1. /\ pc[w] \in {"markPublished", "markFailed"} /\ Advance(w)
        /\ UNCHANGED <<visible, locked, topic, stalled>>
    BY <1>5 DEF MarkPublished, MarkFailed, MarkFailedError
  <2>2. /\ batch'[w] = batch[w] \ {Current(w)}
        /\ pc'[w] # "markFailed"
        /\ \A v \in Workers \ {w} : batch'[v] = batch[v] /\ pc'[v] = pc[v]
    BY <2>1 DEF Advance, Goto, IInv, TypeOK
  <2>3. QED
    BY <2>1, <2>2, QuietOrder
<1>6. ASSUME NEW w \in Workers,
             MarkPublishedError(w) \/ Claim(w) \/ ClaimError(w) \/ Crash(w)
      PROVE  OrderInv'
  <2>1. /\ UNCHANGED <<visible, topic, stalled>>
        /\ batch'[w] \in {batch[w], {}, locked[w]} /\ locked'[w] \in {locked[w], {}}
        /\ pc'[w] # "markFailed"
        /\ \A v \in Workers \ {w} : /\ batch'[v] = batch[v] /\ locked'[v] = locked[v]
                                   /\ pc'[v] = pc[v]
    BY <1>6 DEF MarkPublishedError, Claim, ClaimError, Crash, Unlock, Goto, IInv, TypeOK
  <2>2. QED
    BY <2>1, QuietOrder
<1>7. ASSUME NEW w \in Workers, BeginClaim(w)
      PROVE  OrderInv'
  BY <1>7, BeginClaimOrder
<1>8. ASSUME NEW f \in Events, Lapse(f)
      PROVE  OrderInv'
  BY <1>1, <1>8 DEF Lapse
<1>9. CASE UNCHANGED vars
  BY <1>1, <1>9 DEF vars
<1>10. QED
  BY <1>2, <1>3, <1>4, <1>5, <1>6, <1>7, <1>8, <1>9 DEF Next, Work, Trouble

\* Several publishers sharing the outbox keep the events of an order in order, except
\* past one whose publish failed, or that was leased, or locked by another claim, when
\* the later one was claimed.
THEOREM OrderKept == Spec => []OvertakenOnlyIfStalled
<1>1. Init => OrderInv
  BY DEF Init, OrderInv, Offered, VisibleInOrder, FailedStalled, BatchInOrder,
         Closed, OvertakenOnlyIfStalled, Logged
<1>2. OrderInv => OvertakenOnlyIfStalled
  BY DEF OrderInv
<1>3. QED
  BY <1>1, <1>2, OrderStep, Invariance, PTL DEF Spec
=============================================================================
