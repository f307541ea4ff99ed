------------------------ MODULE OrderPipelineProofs ------------------------
(***************************************************************************)
(* Requests and publishers together: for any number of orders, requests    *)
(* and publishers, the store feeds the relay as OutboxRelay assumes, and   *)
(* Kafka hears of nothing that is not in the orders table.  What the relay *)
(* guarantees is taken from its own proofs, instantiated.                  *)
(***************************************************************************)
EXTENDS OrderPipeline, OrderAnswersProofs, SequenceTheorems

RP == INSTANCE RelayDeliveryProofs WITH
        NumEvents <- Len(ByAge),
        OrderOf <- [n \in Events |-> ByAge[n].order],
        pc <- doing

Types == {"orders.created", "orders.updated"}

-----------------------------------------------------------------------------
(* Numbers of rows *)

\* The constants are what the relay takes them to be.
LEMMA RelayConstants == RP!RelayAssumption
<1>1. Len(ByAge) \in Nat /\ Events = 1..Len(ByAge)
  BY ByAgeAssumption, LenProperties DEF Events
<1>2. QED
  BY <1>1, PublishersAssumption DEF RP!RelayAssumption, RP!Events

\* The events of the relay are the rows.
LEMMA SameEvents == R!Events = Events /\ RP!Events = Events
<1>1. Events = 1..Len(ByAge)
  BY ByAgeAssumption, LenProperties DEF Events
<1>2. QED
  BY <1>1 DEF R!Events, RP!Events

\* A row of an order has one number.
LEMMA NumberOfRow ==
  ASSUME NEW e, e.order \in Creators, e.type \in Types
  PROVE  /\ Number(e) \in Events /\ ByAge[Number(e)] = RowOf(e)
         /\ \A n \in Events : ByAge[n] = RowOf(e) => n = Number(e)
<1>1. \E n \in Events : ByAge[n] = RowOf(e)
  BY ByAgeAssumption DEF Types, RowOf
<1>2. Number(e) \in Events /\ ByAge[Number(e)] = RowOf(e)
  BY <1>1 DEF Number
<1>3. QED
  BY <1>2, ByAgeAssumption

\* What precedes a row of the same order: nothing the first, the first the second.
LEMMA NumberBefore ==
  ASSUME NEW e, e.order \in Creators, e.type \in Types,
         NEW d \in Events, d < Number(e), ByAge[d].order = e.order
  PROVE  /\ e.type = "orders.updated"
         /\ ByAge[d] = [order |-> e.order, type |-> "orders.created"]
<1>1. PICK m \in Events, n \in Events :
        /\ m < n
        /\ ByAge[m] = [order |-> e.order, type |-> "orders.created"]
        /\ ByAge[n] = [order |-> e.order, type |-> "orders.updated"]
  BY ByAgeAssumption
<1>2. /\ Number(e) \in Events
      /\ ByAge[Number(e)] = [order |-> e.order, type |-> e.type]
  BY NumberOfRow DEF RowOf
<1>3. \A i \in Events : ByAge[i] \in [order : Creators, type : Types]
  <2>1. ByAge \in Seq([order : Creators, type : Types])
    BY ByAgeAssumption DEF Types
  <2>2. Events = 1..Len(ByAge)
    BY <2>1, LenProperties DEF Events
  <2>3. QED
    BY <2>1, <2>2, ElementOfSeq
<1>4. ByAge[d] = [order |-> e.order, type |-> ByAge[d].type] /\ ByAge[d].type \in Types
  BY <1>3
<1>5. d \in Int /\ m \in Int /\ n \in Int /\ Number(e) \in Int
  <2>1. Events \subseteq Int
    BY ByAgeAssumption, LenProperties DEF Events
  <2>2. QED
    BY <1>1, <1>2, <2>1
<1>6. d \in {m, n} /\ Number(e) \in {m, n}
  <2>1. \A i, j \in Events : ByAge[i] = ByAge[j] => i = j
    BY ByAgeAssumption
  <2>2. d \in {m, n}
    BY <1>1, <1>4, <2>1 DEF Types
  <2>3. Number(e) \in {m, n}
    BY <1>1, <1>2, <2>1 DEF Types
  <2>4. QED
    BY <2>2, <2>3
<1>7. d = m /\ Number(e) = n
  BY <1>1, <1>5, <1>6
<1>8. QED
  BY <1>1, <1>2, <1>7

-----------------------------------------------------------------------------
(* The store's part of a step *)

\* The requests run as in OrderStore, whatever the publishers do.
LEMMA StoreRuns == PipelineSpec => []IInv
<1>1. PipelineInit => Init
  BY DEF PipelineInit
<1>2. [PipelineNext]_allVars => [Next]_vars
  BY DEF PipelineNext, Request, Relay, allVars, Next
<1>3. QED
  BY <1>1, <1>2, InvInit, InvStep, PTL DEF PipelineSpec

\* The rows of the outbox have an order and a type.
LEMMA OutboxRows ==
  ASSUME IInv, NEW e \in outbox
  PROVE  e.order \in Creators /\ e.type \in Types /\ Exists(e.order)
BY DEF IInv, TxInv, TypeOK, Event, Types, OutboxMatchesOrders

\* A commit shows the relay nothing, or one row it has not seen and whose
\* predecessor it has.
LEMMA CommitInserts ==
  ASSUME IInv, NEW r \in Requests, pc[r] = "commit", Apply(r), UNCHANGED relayVars
  PROVE  UNCHANGED R!vars \/ \E n \in R!Events : R!Insert(n)
<1> DEFINE e == OutboxEvent(r)
           o == local[r].id
<1>1. \/ tx[r].events = {}
      \/ tx[r].events = {e} /\ (r \in Creators \/ local[r].status # "PENDING")
  BY CommitFacts DEF IInv
<1>2. CASE tx[r].events = {}
  BY <1>2 DEF Apply, visible, relayVars, R!vars
<1>3. CASE tx[r].events = {e} /\ (r \in Creators \/ local[r].status # "PENDING")
  <2>1. /\ o \in Creators /\ e.order = o
        /\ e.type = IF r \in Creators THEN "orders.created" ELSE "orders.updated"
    BY CommitFacts, EventFacts DEF IInv, OutboxEvent, CreatedEvent, UpdatedEvent
  <2>2. e.type \in Types
    BY <2>1 DEF Types
  <2>3. Number(e) \in Events /\ ByAge[Number(e)] = RowOf(e)
    BY <2>1, <2>2, NumberOfRow
  <2>4. visible' = visible \union {Number(e)}
    BY <1>3 DEF Apply, visible
  <2>5. /\ r \in Creators => ~Exists(o)
        /\ r \notin Creators => Exists(o) /\ orders[o].status = "PENDING"
    BY CommitFacts DEF IInv
  <2>6. \A f \in outbox : ~(f.order = o /\ f.type = e.type)
    <3>1. CASE r \in Creators
      BY <2>5, <3>1, OutboxRows
    <3>2. CASE r \notin Creators
      <4>1. EventsOf(o, "orders.updated") = {}
        BY <2>1, <2>5, <3>2 DEF IInv, TxInv, OutboxMatchesOrders
      <4>2. QED
        BY <2>1, <3>2, <4>1 DEF EventsOf
    <3>3. QED
      BY <3>1, <3>2
  <2>7. Number(e) \notin visible
    <3> SUFFICES ASSUME NEW f \in outbox, Number(f) = Number(e) PROVE FALSE
      BY DEF visible
    <3>1. RowOf(f) = RowOf(e)
      BY <2>3, OutboxRows, NumberOfRow
    <3>2. f.order = e.order /\ f.type = e.type
      BY <3>1 DEF RowOf
    <3>3. QED
      BY <2>1, <2>6, <3>2
  <2>8. ASSUME NEW d \in Events, d < Number(e), ByAge[d].order = ByAge[Number(e)].order
        PROVE  d \in visible
    <3>1. ByAge[Number(e)].order = e.order
      BY <2>3 DEF RowOf
    <3>2. /\ e.type = "orders.updated"
          /\ ByAge[d] = [order |-> o, type |-> "orders.created"]
      BY <2>1, <2>2, <2>8, <3>1, NumberBefore
    <3>3. Exists(o)
      BY <2>1, <2>5, <3>2
    <3>4. PICK f \in outbox : f.order = o /\ f.type = "orders.created"
      BY <2>1, <3>3 DEF IInv, TxInv, OutboxMatchesOrders, AnnouncedOnce, EventsOf
    <3>5. d = Number(f)
      BY <3>2, <3>4, OutboxRows, NumberOfRow DEF RowOf
    <3>6. QED
      BY <3>5 DEF visible
  <2>9. R!Insert(Number(e))
    BY <2>3, <2>4, <2>7, <2>8, SameEvents DEF R!Insert, relayVars
  <2>10. QED
    BY <2>3, <2>9, SameEvents
<1>4. QED
  BY <1>1, <1>2, <1>3

\* A step of the whole is a step of the relay or nothing to it.
LEMMA RelayStep == IInv /\ [PipelineNext]_allVars => [R!Next]_R!vars
<1> SUFFICES ASSUME IInv, [PipelineNext]_allVars PROVE [R!Next]_R!vars
  OBVIOUS
<1>1. CASE UNCHANGED allVars
  BY <1>1 DEF allVars, vars, relayVars, visible, R!vars
<1>2. ASSUME NEW r \in Requests, Request(r)
      PROVE  [R!Next]_R!vars
  <2>1. [Next]_vars /\ UNCHANGED relayVars
    BY <1>2 DEF Request, Next
  <2>2. CASE UNCHANGED <<orders, outbox>>
    BY <2>1, <2>2 DEF relayVars, visible, R!vars
  <2>3. CASE \E q \in Requests : pc[q] = "commit" /\ Apply(q)
    BY <2>1, <2>3, CommitInserts DEF R!Next
  <2>4. QED
    BY <2>1, <2>2, <2>3, StepsOnTables
<1>3. CASE Relay
  <2>1. \/ \E n \in Events : R!Lapse(n)
        \/ \E w \in Workers : R!Work(w) \/ R!Trouble(w)
    BY <1>3 DEF Relay
  <2>2. QED
    BY <2>1, SameEvents DEF R!Next
<1>4. QED
  BY <1>1, <1>2, <1>3 DEF PipelineNext

\* The requests offer the relay its rows as OutboxRelay assumes: one at a time, an
\* order's creation first, and never taking one back; so what is proved of OutboxRelay
\* holds of publishers fed by requests.
THEOREM RelayRefined == PipelineSpec => RefinesRelay
<1>1. PipelineInit => R!Init
  BY SameEvents DEF PipelineInit, Init, visible, R!Init
<1>2. QED
  BY <1>1, StoreRuns, RelayStep, PTL DEF PipelineSpec, RefinesRelay, R!Spec

-----------------------------------------------------------------------------
(* What Kafka hears *)

\* The relay of the proofs is the relay of the model: the claims,
LEMMA SameClaims ==
  ASSUME NEW w \in Workers
  PROVE  /\ R!Candidates(w) = RP!Candidates(w)
         /\ \A S : R!PassedOver(w, S) = RP!PassedOver(w, S)
         /\ R!BeingClaimed(w) = RP!BeingClaimed(w)
         /\ \A S : R!Lease(w, S) <=> RP!Lease(w, S)
<1>1. R!Eligible = RP!Eligible
  BY DEF R!Eligible, RP!Eligible
<1>2. R!BeingMarked(w) = RP!BeingMarked(w)
  BY DEF R!BeingMarked, RP!BeingMarked, R!Current, RP!Current, R!Min, RP!Min
<1>3. \A S : R!Cardinality(S) = RP!Cardinality(S)
  BY DEF R!Cardinality, RP!Cardinality
<1>4. \A S : R!Oldest(S, BatchSize) = RP!Oldest(S, BatchSize)
  BY <1>3 DEF R!Oldest, RP!Oldest
<1>5. R!BeingClaimed(w) = RP!BeingClaimed(w)
  BY DEF R!BeingClaimed, RP!BeingClaimed
<1>6. R!Candidates(w) = RP!Candidates(w)
  BY <1>1, <1>2, <1>4, <1>5 DEF R!Candidates, RP!Candidates
<1>7. \A S : R!PassedOver(w, S) = RP!PassedOver(w, S)
  BY <1>5 DEF R!PassedOver, RP!PassedOver
<1>8. \A S : R!Lease(w, S) <=> RP!Lease(w, S)
  BY SameEvents DEF R!Lease, RP!Lease
<1>9. QED
  BY <1>5, <1>6, <1>7, <1>8

\* and all its steps.
LEMMA SameRelay == R!Spec => RP!Spec
<1>1. R!Init => RP!Init
  BY DEF R!Init, RP!Init, R!Events, RP!Events
<1>2. ASSUME NEW n \in Events
      PROVE  R!Insert(n) => RP!Insert(n)
  BY DEF R!Insert, RP!Insert, R!Events, RP!Events
<1>3. ASSUME NEW n \in Events
      PROVE  R!Lapse(n) => RP!Lapse(n)
  BY DEF R!Lapse, RP!Lapse, R!Orphaned, RP!Orphaned, R!Fault, RP!Fault
<1>4. ASSUME NEW w \in Workers
      PROVE  /\ R!BeginClaim(w) => RP!BeginClaim(w)
             /\ R!Claim(w) => RP!Claim(w)
             /\ R!ClaimError(w) => RP!ClaimError(w)
             /\ R!Crash(w) => RP!Crash(w)
  <2>1. R!BeginClaim(w) => RP!BeginClaim(w)
    BY SameClaims DEF R!BeginClaim, RP!BeginClaim, R!Goto, RP!Goto
  <2>2. R!Claim(w) => RP!Claim(w)
    BY SameClaims DEF R!Claim, RP!Claim, R!Unlock, RP!Unlock, R!Goto, RP!Goto
  <2>3. R!ClaimError(w) => RP!ClaimError(w)
    BY SameClaims DEF R!ClaimError, RP!ClaimError, R!Unlock, RP!Unlock, R!Goto, RP!Goto,
                      R!Fault, RP!Fault
  <2>4. R!Crash(w) => RP!Crash(w)
    BY SameClaims DEF R!Crash, RP!Crash, R!Unlock, RP!Unlock, R!Goto, RP!Goto,
                      R!Fault, RP!Fault
  <2>5. QED
    BY <2>1, <2>2, <2>3, <2>4
<1>5. ASSUME NEW w \in Workers
      PROVE  R!PublishAck(w) => RP!PublishAck(w)
  BY DEF R!PublishAck, RP!PublishAck, R!Message, RP!Message, R!Current, RP!Current,
         R!NextTurn, RP!NextTurn, R!Goto, RP!Goto, R!PartitionOf, RP!PartitionOf,
         R!Min, RP!Min
<1>6. ASSUME NEW w \in Workers
      PROVE  R!PublishError(w) => RP!PublishError(w)
  BY DEF R!PublishError, RP!PublishError, R!Current, RP!Current, R!NextTurn,
         RP!NextTurn, R!Goto, RP!Goto, R!Min, RP!Min, R!AfterPublishError,
         RP!AfterPublishError
<1>7. ASSUME NEW w \in Workers
      PROVE  R!PublishUnacknowledged(w) => RP!PublishUnacknowledged(w)
  BY DEF R!PublishUnacknowledged, RP!PublishUnacknowledged, R!Fault, RP!Fault,
         R!Message, RP!Message, R!Current, RP!Current, R!NextTurn, RP!NextTurn,
         R!Goto, RP!Goto, R!PartitionOf, RP!PartitionOf, R!Min, RP!Min,
         R!AfterPublishError, RP!AfterPublishError
<1>8. ASSUME NEW w \in Workers
      PROVE  R!PublishRepeated(w) => RP!PublishRepeated(w)
  BY DEF R!PublishRepeated, RP!PublishRepeated, R!Fault, RP!Fault, R!Message,
         RP!Message, R!Current, RP!Current, R!NextTurn, RP!NextTurn, R!Goto,
         RP!Goto, R!PartitionOf, RP!PartitionOf, R!Min, RP!Min
<1>9. ASSUME NEW w \in Workers
      PROVE  R!MarkPublished(w) => RP!MarkPublished(w)
  BY SameClaims DEF R!MarkPublished, RP!MarkPublished, R!Waits, RP!Waits, R!SetPublished, RP!SetPublished,
         R!Holds, RP!Holds, R!Release, RP!Release, R!Advance, RP!Advance,
         R!Current, RP!Current, R!Goto, RP!Goto, R!Min, RP!Min
<1>10. ASSUME NEW w \in Workers
      PROVE  R!MarkPublishedError(w) => RP!MarkPublishedError(w)
  BY SameClaims DEF R!MarkPublishedError, RP!MarkPublishedError, R!Waits, RP!Waits, R!Fault, RP!Fault,
         R!SetPublished, RP!SetPublished, R!Holds, RP!Holds, R!Release, RP!Release,
         R!Goto, RP!Goto, R!Current, RP!Current, R!Min, RP!Min
<1>11. ASSUME NEW w \in Workers
      PROVE  R!MarkFailed(w) => RP!MarkFailed(w)
  BY SameClaims DEF R!MarkFailed, RP!MarkFailed, R!Waits, RP!Waits, R!Holds, RP!Holds, R!Release, RP!Release,
         R!Advance, RP!Advance, R!Current, RP!Current, R!Goto, RP!Goto, R!Min,
         RP!Min
<1>12. ASSUME NEW w \in Workers
      PROVE  R!MarkFailedError(w) => RP!MarkFailedError(w)
  BY DEF R!MarkFailedError, RP!MarkFailedError, R!Fault, RP!Fault, R!Advance,
         RP!Advance, R!Current, RP!Current, R!Goto, RP!Goto, R!Min, RP!Min
<1>13. R!Next => RP!Next
  BY <1>2, <1>3, <1>4, <1>5, <1>6, <1>7, <1>8, <1>9, <1>10, <1>11, <1>12, SameEvents
     DEF R!Next, RP!Next, R!Work, RP!Work, R!Trouble, RP!Trouble
<1>14. [R!Next]_R!vars => [RP!Next]_RP!vars
  BY <1>13 DEF R!vars, RP!vars
<1>15. QED
  BY <1>1, <1>14, PTL DEF R!Spec, RP!Spec

\* Whatever request fails at whatever statement and whatever publisher crashes, Kafka
\* never hears of an order, or of an end of one, that is not in the orders table, and
\* what it hears of an end is how the order ended.
THEOREM TopicTruthful == PipelineSpec => []TopicTellsTruth
<1>1. IInv /\ RP!Logged \subseteq visible => TopicTellsTruth
  <2> SUFFICES ASSUME IInv, RP!Logged \subseteq visible, NEW o \in Creators, NEW type \in Types,
                      Heard(o, type)
               PROVE  /\ Exists(o)
                      /\ type = "orders.updated" =>
                           Ended(o) /\ AnnouncedOnce(o, "orders.updated", orders[o].status)
    BY DEF TopicTellsTruth, Types
  <2>1. PICK n : n \in visible /\ ByAge[n] = [order |-> o, type |-> type]
    BY DEF Heard, RP!Logged
  <2>2. PICK e \in outbox : n = Number(e)
    BY <2>1 DEF visible
  <2>3. RowOf(e) = [order |-> o, type |-> type]
    BY <2>1, <2>2, OutboxRows, NumberOfRow
  <2>4. e.order = o /\ e.type = type
    BY <2>3 DEF RowOf
  <2>5. Exists(o)
    BY <2>4, OutboxRows
  <2>6. ASSUME type = "orders.updated"
        PROVE  Ended(o) /\ AnnouncedOnce(o, "orders.updated", orders[o].status)
    <3>1. EventsOf(o, "orders.updated") # {}
      BY <2>4, <2>6 DEF EventsOf
    <3>2. /\ orders[o].status # "PENDING"
          /\ AnnouncedOnce(o, "orders.updated", orders[o].status)
      BY <2>5, <3>1 DEF IInv, TxInv, OutboxMatchesOrders
    <3>3. orders[o].status \in Statuses
      BY <2>5 DEF IInv, TxInv, RowShape
    <3>4. QED
      BY <3>2, <3>3 DEF Ended, Statuses
  <2>7. QED
    BY <2>5, <2>6
<1>2. RP!RelayAssumption
  BY RelayConstants
<1>3. RP!Spec => [](RP!Logged \subseteq visible)
  BY <1>2, RP!OnlyOffered
<1>4. QED
  BY <1>1, <1>3, StoreRuns, RelayRefined, SameRelay, PTL DEF RefinesRelay

\* What is proved of the publishers alone holds of publishers fed by requests: rows are
\* marked only once Kafka has them, come twice only after a lapsed lease or a doubtful
\* write, and the end of an order overtakes its creation only if the publish of that
\* failed, or it was leased or in another claim's hands when the end was claimed.
THEOREM GuaranteesKept ==
  PipelineSpec => [](/\ R!PublishedImpliesLogged
                     /\ R!DuplicateOnlyIfSuspect
                     /\ R!OvertakenOnlyIfStalled)
<1>1. RP!Spec => [](/\ RP!PublishedImpliesLogged
                    /\ RP!DuplicateOnlyIfSuspect
                    /\ RP!OvertakenOnlyIfStalled)
  <2>1. RP!RelayAssumption
    BY RelayConstants
  <2>2. RP!Spec => []RP!PublishedImpliesLogged
    BY <2>1, RP!PublishedCorrect
  <2>3. RP!Spec => []RP!DuplicateOnlyIfSuspect
    BY <2>1, RP!DuplicatesCorrect
  <2>4. RP!Spec => []RP!OvertakenOnlyIfStalled
    BY <2>1, RP!OrderKept
  <2>5. QED
    BY <2>2, <2>3, <2>4, PTL
<1>2. RP!PublishedImpliesLogged => R!PublishedImpliesLogged
  BY DEF R!PublishedImpliesLogged, RP!PublishedImpliesLogged, R!Logged, RP!Logged
<1>3. RP!DuplicateOnlyIfSuspect => R!DuplicateOnlyIfSuspect
  BY DEF R!DuplicateOnlyIfSuspect, RP!DuplicateOnlyIfSuspect
<1>4. RP!OvertakenOnlyIfStalled => R!OvertakenOnlyIfStalled
  BY SameEvents DEF R!OvertakenOnlyIfStalled, RP!OvertakenOnlyIfStalled, R!Logged, RP!Logged,
                    R!LoggedBefore, RP!LoggedBefore
<1>5. QED
  BY <1>1, <1>2, <1>3, <1>4, RelayRefined, SameRelay, PTL DEF RefinesRelay
=============================================================================
