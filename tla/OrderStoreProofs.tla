-------------------------- MODULE OrderStoreProofs --------------------------
(***************************************************************************)
(* Proofs about OrderStore, for every set of requests, terms and sizes.    *)
(***************************************************************************)
EXTENDS OrderStore, TLAPS

-----------------------------------------------------------------------------
(* The domain operators return rows *)

\* The absent row is a Row.
LEMMA NoRowType == NoRow \in Row
BY DEF NoRow, Draft, Row

\* A quantity a caller may ask for is an integer; so is NoTerms' one.
LEMMA QtyType == ASSUME NEW t \in Terms \union {NoTerms} PROVE t.qty \in Int
<1>1. NoTerms.qty = 0
  BY DEF NoTerms
<1>2. \A u \in Terms : u.qty \in Int
  BY TermsAssumption
<1>3. CASE t \in Terms
  BY <1>2, <1>3
<1>4. CASE t = NoTerms
  BY <1>1, <1>4
<1>5. QED
  BY <1>3, <1>4

\* A draft becomes a PENDING Row with the id drawn for it.
LEMMA NormalizeType ==
  ASSUME NEW t \in Terms, NEW r \in Creators
  PROVE  /\ Normalize(Draft(t), r) \in Row
         /\ Normalize(Draft(t), r).id = r
         /\ Normalize(Draft(t), r).status = "PENDING"
<1>1. /\ Draft(t) \in Row
      /\ Draft(t).id = "" /\ Draft(t).terms = t /\ Draft(t).remaining = 0
  BY DEF Draft, Row
<1>2. t.qty \in Int
  BY QtyType
<1>3. \A q \in Int, o \in Row :
        /\ [o EXCEPT !.id = r, !.status = "PENDING", !.remaining = q] \in Row
        /\ [o EXCEPT !.id = r, !.status = "PENDING", !.remaining = q].id = r
        /\ [o EXCEPT !.id = r, !.status = "PENDING", !.remaining = q].status = "PENDING"
  BY DEF Row, Statuses
<1>4. Normalize(Draft(t), r)
        = [Draft(t) EXCEPT !.id = r, !.status = "PENDING", !.remaining = t.qty]
  BY <1>1 DEF Normalize
<1>5. QED
  BY <1>1, <1>2, <1>3, <1>4

\* Filling an order keeps it a Row, with its id, PENDING or FILLED if it was
\* PENDING.
LEMMA FillType ==
  ASSUME NEW o \in Row, NEW n \in Int
  PROVE  /\ ApplyFill(o, n) \in Row
         /\ ApplyFill(o, n).id = o.id
         /\ o.status = "PENDING" => ApplyFill(o, n).status \in {"PENDING", "FILLED"}
<1>1. o.remaining \in Int
  BY DEF Row
<1>2. o.remaining - n \in Int
  BY <1>1
<1>3. QED
  BY <1>1, <1>2 DEF ApplyFill, Row, Statuses

\* Canceling an order in memory or in the table keeps it a Row, with its id.
LEMMA CancelType ==
  ASSUME NEW o \in Row
  PROVE  /\ Cancel(o) \in Row /\ Cancel(o).id = o.id
         /\ Cancel(o).status = "CANCELED"
         /\ CancelRow(o) \in Row /\ CancelRow(o).id = o.id
         /\ CancelRow(o).status = "CANCELED"
         /\ CancelRow(o).terms = o.terms
BY DEF Cancel, CancelRow, Row, Statuses

\* The INSERT stores a Row with the order's id, terms and status.
LEMMA InsertType ==
  ASSUME NEW o \in Row
  PROVE  /\ InsertRow(o) \in Row /\ InsertRow(o).id = o.id
         /\ InsertRow(o).status = o.status
         /\ InsertRow(o).terms = o.terms
<1>1. o.terms.qty \in Int
  BY QtyType DEF Row
<1>2. QED
  BY <1>1 DEF InsertRow, Row

\* The execution UPDATE takes only remaining quantity and status from memory.
LEMMA ExecutionType ==
  ASSUME NEW o \in Row, NEW p \in Row
  PROVE  /\ ExecutionRow(o, p) \in Row /\ ExecutionRow(o, p).id = o.id
         /\ ExecutionRow(o, p).status = p.status
         /\ ExecutionRow(o, p).terms = o.terms
BY DEF ExecutionRow, Row

\* An outbox message built from a Row is an Event.
LEMMA EventType ==
  ASSUME NEW r \in Requests, NEW o \in Row
  PROVE  CreatedEvent(r, o) \in Event /\ UpdatedEvent(r, o) \in Event
BY DEF CreatedEvent, UpdatedEvent, Event, Row, Statuses

\* Every verdict of the validation is an outcome.
LEMMA ErrorType ==
  ASSUME NEW o, NEW n
  PROVE  /\ NormalizeError(o) \in Errors \union {OK}
         /\ ValidateError(o) \in Errors \union {OK}
         /\ FillError(o, n) \in Errors \union {OK}
         /\ CancelError(o) \in Errors \union {OK}
         /\ ExecutionError(o) \in Errors \union {OK}
         /\ CancelOrderError(o) \in Errors \union {OK}
         /\ EventError(o) \in {"blank symbol", OK}
<1>1. ValidateError(o) \in Errors \union {OK}
  BY DEF ValidateError, Errors
<1>2. NormalizeError(o) \in Errors \union {OK}
  BY DEF NormalizeError, Errors
<1>3. FillError(o, n) \in Errors \union {OK}
  BY DEF FillError, Errors
<1>4. CancelError(o) \in Errors \union {OK}
  BY DEF CancelError, Errors
<1>5. ExecutionError(o) \in Errors \union {OK}
  BY <1>1 DEF ExecutionError, Errors
<1>6. CancelOrderError(o) \in Errors \union {OK}
  BY <1>1 DEF CancelOrderError, Errors
<1>7. EventError(o) \in {"blank symbol", OK}
  BY DEF EventError
<1>8. QED
  BY <1>1, <1>2, <1>3, <1>4, <1>5, <1>6, <1>7

-----------------------------------------------------------------------------
(* Type correctness *)

\* Replying keeps pc and reply typed.
LEMMA AnswerType ==
  ASSUME TypeOK, NEW r \in Requests, NEW error \in Outcomes, NEW o \in Row,
         Answer(r, error, o)
  PROVE  /\ pc' \in [Requests -> Labels]
         /\ reply' \in [Requests -> [error : Outcomes, order : Row]]
BY DEF TypeOK, Answer, Goto, Labels

\* Entering the repository keeps pc, local and reply typed.
LEMMA EnterType ==
  ASSUME TypeOK, NEW r \in Requests, NEW o \in Row,
         NEW error \in Errors \union {OK}, Enter(r, o, error)
  PROVE  /\ pc' \in [Requests -> Labels]
         /\ local' \in [Requests -> Row]
         /\ reply' \in [Requests -> [error : Outcomes, order : Row]]
<1>1. CASE error = OK
  BY <1>1 DEF TypeOK, Enter, Goto, Labels
<1>2. CASE error # OK
  <2>1. Answer(r, error, NoRow) /\ UNCHANGED local
    BY <1>2 DEF Enter
  <2>2. error \in Outcomes
    BY DEF Outcomes
  <2>3. QED
    BY <2>1, <2>2, NoRowType, AnswerType DEF TypeOK
<1>3. QED
  BY <1>1, <1>2

\* Rolling back keeps tx and pool typed.
LEMMA RollbackType ==
  ASSUME TypeOK, NEW r \in Requests, Rollback(r)
  PROVE  /\ tx' \in [Requests -> [row : Row, events : SUBSET Event]]
         /\ pool' \subseteq Requests
BY NoRowType DEF TypeOK, Rollback, NoTx

\* Reads of the tables and of memory are typed.
LEMMA ReadType ==
  ASSUME TypeOK
  PROVE  /\ \A o \in Creators : orders[o] \in Row
         /\ \A r \in Requests : local[r] \in Row /\ tx[r].row \in Row
         /\ \A r \in Requests : tx[r].events \subseteq Event
         /\ \A r \in Requests : pc[r] \in Labels
BY DEF TypeOK

\* The row a request in flight writes is a Row with the id of its order.
LEMMA RowToWriteType ==
  ASSUME TypeOK, NEW r \in Requests, LocalShape(r), InFlight(r), RowShape
  PROVE  /\ RowToWrite(r) \in Row
         /\ RowToWrite(r).id = local[r].id
         /\ RowToWrite(r).status = local[r].status
<1>1. local[r] \in Row /\ local[r].id \in Creators /\ orders[local[r].id] \in Row
  BY ReadType DEF LocalShape
<1>2. CASE r \in Creators
  BY <1>1, <1>2, InsertType DEF RowToWrite
<1>3. CASE r \notin Creators
  <2>1. orders[local[r].id].id = local[r].id
    BY <1>1, <1>3 DEF LocalShape, RowShape
  <2>2. CASE r \in Cancelers
    BY <1>1, <1>3, <2>1, <2>2, CancelType DEF RowToWrite, LocalShape
  <2>3. CASE r \notin Cancelers
    BY <1>1, <1>3, <2>1, <2>3, ExecutionType DEF RowToWrite
  <2>4. QED
    BY <2>2, <2>3
<1>4. QED
  BY <1>2, <1>3

-----------------------------------------------------------------------------
(* Steps that leave the tables alone *)

\* A step of one request that changes neither table keeps the invariant if it
\* keeps the request's own shape and takes no lock another one has.
LEMMA QuietStep ==
  ASSUME TxInv, TypeOK', NEW r \in Requests,
         UNCHANGED <<orders, outbox>>,
         pc[r] # "done",
         \A q \in Requests \ {r} :
            pc'[q] = pc[q] /\ local'[q] = local[q] /\ tx'[q] = tx[q],
         LocalShape(r)', TxShape(r)',
         \A q \in Requests \ {r} :
            Writing(r)' /\ Writing(q) => local[q].id # local'[r].id
  PROVE  TxInv'
<1>1. RowShape'
  <2>1. Creators \subseteq Requests
    BY DEF Requests
  <2>2. \A o \in Creators : pc'[o] # "done" => pc[o] # "done"
    BY <2>1
  <2>3. QED
    BY <2>2 DEF TxInv, RowShape, Exists
<1>2. \A q \in Requests : LocalShape(q)'
  <2>1. \A q \in Requests \ {r} : LocalShape(q)'
    BY DEF TxInv, LocalShape, InFlight, Exists
  <2>2. QED
    BY <2>1
<1>3. \A q \in Requests : TxShape(q)'
  <2> SUFFICES ASSUME NEW q \in Requests \ {r} PROVE TxShape(q)'
    OBVIOUS
  <2>1. RowToWrite(q)' = RowToWrite(q) /\ OutboxEvent(q)' = OutboxEvent(q)
    BY DEF RowToWrite, OutboxEvent, Announced
  <2>2. TxShape(q)
    BY DEF TxInv
  <2>3. QED
    BY <2>1, <2>2 DEF TxShape, Writing
<1>4. LocksExclusive'
  <2> SUFFICES ASSUME NEW p \in Requests, NEW q \in Requests, Writing(p)', Writing(q)',
                      local'[p].id = local'[q].id
               PROVE  p = q
    BY DEF LocksExclusive
  <2>1. CASE p # r /\ q # r
    BY <2>1 DEF TxInv, LocksExclusive, Writing
  <2>2. CASE p = r \/ q = r
    BY <2>2 DEF Writing
  <2>3. QED
    BY <2>1, <2>2
<1>5. OutboxMatchesOrders'
  BY DEF TxInv, OutboxMatchesOrders, Exists, AnnouncedOnce, EventsOf
<1>6. QED
  BY <1>1, <1>2, <1>3, <1>4, <1>5 DEF TxInv

\* So does answering a caller and dropping what the transaction had done.
LEMMA AnswerStep ==
  ASSUME TxInv, TypeOK', NEW r \in Requests,
         UNCHANGED <<orders, outbox, local>>,
         pc[r] # "done",
         pc' = [pc EXCEPT ![r] = "done"],
         tx' = [tx EXCEPT ![r] = NoTx]
  PROVE  TxInv'
<1>1. /\ pc'[r] = "done" /\ tx'[r] = NoTx
      /\ \A q \in Requests \ {r} : pc'[q] = pc[q] /\ tx'[q] = tx[q]
  BY DEF TxInv, TypeOK
<1>2. LocalShape(r)' /\ TxShape(r)' /\ ~Writing(r)'
  BY <1>1 DEF LocalShape, InFlight, TxShape, Writing
<1>3. QED
  BY <1>1, <1>2, QuietStep

\* Starting a request: it is answered, or enters with an order of its own.
LEMMA EnterStep ==
  ASSUME TxInv, NEW r \in Requests, pc[r] = "idle",
         NEW o \in Row, NEW error \in Errors \union {OK}, Enter(r, o, error),
         UNCHANGED <<orders, outbox, tx, pool, committed>>,
         taken' \in [Fillers -> Int],
         error = OK =>
           /\ o.id \in Creators
           /\ r \in Creators => o.id = r /\ o.status = "PENDING"
           /\ r \notin Creators => Exists(o.id)
           /\ r \in Cancelers => o.status = "CANCELED"
           /\ r \in Fillers => o.status \in {"PENDING", "FILLED"}
  PROVE  TxInv'
<1>1. TypeOK'
  BY EnterType DEF TxInv, TypeOK
<1>2. tx[r] = NoTx
  BY DEF TxInv, TxShape, Writing
<1>3. CASE error = OK
  <2>1. /\ pc'[r] = "begin" /\ local'[r] = o
        /\ \A q \in Requests \ {r} : pc'[q] = pc[q] /\ local'[q] = local[q]
    BY <1>3 DEF Enter, Goto, TxInv, TypeOK
  <2>2. LocalShape(r)' /\ TxShape(r)' /\ ~Writing(r)'
    BY <1>2, <1>3, <2>1 DEF LocalShape, InFlight, TxShape, Writing, Exists
  <2>3. QED
    BY <1>1, <2>1, <2>2, QuietStep
<1>4. CASE error # OK
  <2>1. pc' = [pc EXCEPT ![r] = "done"] /\ UNCHANGED local
    BY <1>4 DEF Enter, Answer, Goto
  <2>2. tx' = [tx EXCEPT ![r] = NoTx]
    BY <1>2 DEF TxInv, TypeOK
  <2>3. QED
    BY <1>1, <2>1, <2>2, AnswerStep
<1>5. QED
  BY <1>3, <1>4

\* A create is validated and given an id of its own.
LEMMA StartCreateStep ==
  ASSUME TxInv, NEW r \in Creators, StartCreate(r)
  PROVE  TxInv'
<1>1. PICK t \in Terms :
        Enter(r, Normalize(Draft(t), r),
              IF NormalizeError(Draft(t)) # OK THEN NormalizeError(Draft(t))
              ELSE ValidateError(Normalize(Draft(t), r)))
  BY DEF StartCreate
<1>2. r \in Requests
  BY DEF Requests
<1>3. r \notin Cancelers /\ r \notin Fillers
  BY RequestsAssumption
<1>4. taken' \in [Fillers -> Int]
  BY DEF TxInv, TypeOK, StartCreate
<1> DEFINE error == IF NormalizeError(Draft(t)) # OK THEN NormalizeError(Draft(t))
                    ELSE ValidateError(Normalize(Draft(t), r))
<1>5. error \in Errors \union {OK}
  BY ErrorType
<1>6. QED
  BY <1>1, <1>2, <1>3, <1>4, <1>5, NormalizeType, EnterStep DEF StartCreate

\* A cancel reads the order outside its transaction.
LEMMA StartCancelStep ==
  ASSUME TxInv, NEW r \in Cancelers, StartCancel(r)
  PROVE  TxInv'
<1> DEFINE error(o) == IF Find(o) # OK THEN Find(o)
                       ELSE IF CancelError(orders[o]) # OK THEN CancelError(orders[o])
                       ELSE CancelOrderError(Cancel(orders[o]))
<1>1. PICK o \in Creators : Enter(r, Cancel(orders[o]), error(o))
  BY DEF StartCancel
<1>2. r \in Requests /\ r \notin Creators /\ r \notin Fillers
  BY RequestsAssumption DEF Requests
<1>3. taken' \in [Fillers -> Int]
  BY DEF TxInv, TypeOK, StartCancel
<1>4. Find(o) \in Errors \union {OK}
  BY DEF Find, Errors
<1>5. error(o) \in Errors \union {OK}
  BY <1>4, ErrorType
<1>6. /\ orders[o] \in Row
      /\ Cancel(orders[o]) \in Row /\ Cancel(orders[o]).id = orders[o].id
      /\ Cancel(orders[o]).status = "CANCELED"
  BY ReadType, CancelType DEF TxInv
<1>7. error(o) = OK => Exists(o) /\ orders[o].id = o
  BY DEF Find, Exists, TxInv, RowShape, OK
<1>8. QED
  BY <1>1, <1>2, <1>3, <1>5, <1>6, <1>7, EnterStep DEF StartCancel

\* An execution reads the order outside its transaction.
LEMMA StartFillStep ==
  ASSUME TxInv, NEW r \in Fillers, StartFill(r)
  PROVE  TxInv'
<1> DEFINE error(o, n) == IF Find(o) # OK THEN Find(o)
                          ELSE IF FillError(orders[o], n) # OK THEN FillError(orders[o], n)
                          ELSE ExecutionError(ApplyFill(orders[o], n))
<1>1. PICK o \in Creators, n \in FillSizes :
        /\ Enter(r, ApplyFill(orders[o], n), error(o, n))
        /\ \/ taken' = [taken EXCEPT ![r] = n]
           \/ taken' = [taken EXCEPT ![r] = taken[r]]
  BY DEF StartFill
<1>2. r \in Requests /\ r \notin Creators /\ r \notin Cancelers
  BY RequestsAssumption DEF Requests
<1>3. n \in Int
  BY LimitsAssumption
<1>4. taken' \in [Fillers -> Int]
  BY <1>1, <1>3 DEF TxInv, TypeOK
<1>5. Find(o) \in Errors \union {OK}
  BY DEF Find, Errors
<1>6. error(o, n) \in Errors \union {OK}
  BY <1>5, ErrorType
<1>7. orders[o] \in Row
  BY ReadType DEF TxInv
<1>8. /\ ApplyFill(orders[o], n) \in Row
      /\ ApplyFill(orders[o], n).id = orders[o].id
      /\ orders[o].status = "PENDING" =>
           ApplyFill(orders[o], n).status \in {"PENDING", "FILLED"}
  BY <1>3, <1>7, FillType
<1>9. error(o, n) = OK => Exists(o) /\ orders[o].id = o /\ orders[o].status = "PENDING"
  BY DEF Find, Exists, FillError, TxInv, RowShape, OK
<1>10. QED
  BY <1>1, <1>2, <1>4, <1>6, <1>8, <1>9, EnterStep DEF StartFill

\* Begin takes a connection.
LEMMA BeginStep ==
  ASSUME TxInv, NEW r \in Requests, BeginTx(r)
  PROVE  TxInv'
<1>1. TypeOK'
  BY DEF BeginTx, Goto, TxInv, TypeOK, Labels
<1>2. /\ pc'[r] = "write"
      /\ \A q \in Requests \ {r} : pc'[q] = pc[q]
  BY DEF BeginTx, Goto, TxInv, TypeOK
<1>3. LocalShape(r) /\ TxShape(r)
  BY DEF TxInv
<1>4. LocalShape(r)' /\ TxShape(r)' /\ ~Writing(r)'
  BY <1>2, <1>3 DEF BeginTx, LocalShape, InFlight, TxShape, Writing, Exists
<1>5. QED
  BY <1>1, <1>2, <1>4, QuietStep DEF BeginTx

\* The INSERT of a new order, whose id no other transaction has in hand.
LEMMA InsertOrderStep ==
  ASSUME TxInv, NEW r \in Creators, InsertOrder(r)
  PROVE  TxInv'
<1>1. r \in Requests
  BY DEF Requests
<1>2. InsertRow(local[r]) \in Row
  BY <1>1, ReadType, InsertType DEF TxInv
<1>3. TypeOK'
  BY <1>1, <1>2 DEF InsertOrder, Goto, TxInv, TypeOK, Labels
<1>4. /\ pc'[r] = "outbox" /\ tx'[r].row = InsertRow(local[r])
      /\ tx'[r].events = tx[r].events
      /\ \A q \in Requests \ {r} : pc'[q] = pc[q] /\ tx'[q] = tx[q]
  BY <1>1 DEF InsertOrder, Goto, TxInv, TypeOK
<1>5. LocalShape(r) /\ tx[r] = NoTx
  BY <1>1 DEF TxInv, TxShape, Writing, InsertOrder
<1>6. LocalShape(r)'
  BY <1>4, <1>5 DEF InsertOrder, LocalShape, InFlight, Exists
<1>7. TxShape(r)'
  BY <1>4, <1>5 DEF InsertOrder, TxShape, Writing, RowToWrite, NoTx
<1>8. ASSUME NEW q \in Requests \ {r}, Writing(q)
      PROVE  local[q].id # local'[r].id
  <2>1. LocalShape(q) /\ local[r].id = r /\ InFlight(q)
    BY <1>5, <1>8 DEF TxInv, LocalShape, InFlight, InsertOrder, Writing
  <2>2. CASE q \in Creators
    BY <2>1, <2>2 DEF LocalShape, InsertOrder
  <2>3. CASE q \notin Creators
    <3>1. Exists(local[q].id) /\ ~Exists(r)
      BY <2>1, <2>3 DEF LocalShape, InsertOrder, TxInv, RowShape
    <3>2. QED
      BY <2>1, <3>1 DEF InsertOrder
  <2>4. QED
    BY <2>2, <2>3
<1>9. QED
  BY <1>1, <1>3, <1>4, <1>6, <1>7, <1>8, QuietStep DEF InsertOrder

\* The unique violation gives up a transaction that has written nothing.
LEMMA DuplicateKeyStep ==
  ASSUME TxInv, NEW r \in Creators, DuplicateKey(r)
  PROVE  TxInv'
<1>1. r \in Requests
  BY DEF Requests
<1>2. TypeOK'
  BY <1>1, RollbackType DEF DuplicateKey, Goto, TxInv, TypeOK, Labels
<1>3. /\ pc'[r] = "existing" /\ tx'[r] = NoTx
      /\ \A q \in Requests \ {r} : pc'[q] = pc[q] /\ tx'[q] = tx[q]
  BY <1>1 DEF DuplicateKey, Rollback, Goto, TxInv, TypeOK
<1>4. LocalShape(r)
  BY <1>1 DEF TxInv
<1>5. LocalShape(r)' /\ TxShape(r)' /\ ~Writing(r)'
  BY <1>3, <1>4 DEF DuplicateKey, LocalShape, InFlight, TxShape, Writing, Exists
<1>6. QED
  BY <1>1, <1>2, <1>3, <1>5, QuietStep DEF DuplicateKey

\* Answering with the order that owns the key.
LEMMA GetExistingStep ==
  ASSUME TxInv, NEW r \in Creators, GetExisting(r)
  PROVE  TxInv'
<1> DEFINE found == {o \in Creators : orders[o].terms.key = local[r].terms.key}
<1>1. r \in Requests
  BY DEF Requests
<1>2. PICK error \in Outcomes, o \in Row : Answer(r, error, o)
  <2>1. CASE found = {}
    BY <2>1, NoRowType DEF GetExisting, Outcomes, Errors
  <2>2. CASE found # {}
    <3>1. orders[CHOOSE o \in found : TRUE] \in Row
      BY <2>2 DEF TxInv, TypeOK
    <3>2. QED
      BY <2>2, <3>1 DEF GetExisting, Outcomes
  <2>3. QED
    BY <2>1, <2>2
<1>3. TypeOK'
  BY <1>1, <1>2, AnswerType DEF GetExisting, TxInv, TypeOK
<1>4. tx[r] = NoTx
  BY <1>1 DEF GetExisting, TxInv, TxShape, Writing
<1>5. tx' = [tx EXCEPT ![r] = NoTx]
  BY <1>4 DEF GetExisting, TxInv, TypeOK
<1>6. QED
  BY <1>1, <1>2, <1>3, <1>5, AnswerStep DEF GetExisting, Answer, Goto

\* An UPDATE of a PENDING row that no other transaction has in hand.
LEMMA UpdateStep ==
  ASSUME TxInv, NEW r \in Requests, r \notin Creators,
         NEW next \in {"outbox", "commit"},
         (next = "outbox") <=> (local[r].status # "PENDING"),
         Update(r, RowToWrite(r), next)
  PROVE  TxInv'
<1>1. LocalShape(r) /\ InFlight(r) /\ tx[r] = NoTx
  BY DEF Update, InFlight, TxInv, TxShape, Writing
<1>2. RowToWrite(r) \in Row
  BY <1>1, RowToWriteType DEF TxInv
<1>3. TypeOK'
  <2>1. next \in Labels /\ "diagnose" \in Labels
    BY DEF Labels
  <2>2. pc' \in [Requests -> Labels]
    BY <2>1 DEF Update, Goto, TxInv, TypeOK
  <2>3. tx' \in [Requests -> [row : Row, events : SUBSET Event]]
    <3>1. tx' = tx \/ tx' = [tx EXCEPT ![r].row = RowToWrite(r)]
      BY DEF Update
    <3>2. tx \in [Requests -> [row : Row, events : SUBSET Event]]
      BY DEF TxInv, TypeOK
    <3>3. QED
      BY <1>2, <3>1, <3>2
  <2>4. QED
    BY <2>2, <2>3 DEF Update, TxInv, TypeOK
<1>4. CASE WhereMatches(r)
  <2>1. /\ pc'[r] = next /\ tx'[r].row = RowToWrite(r) /\ tx'[r].events = {}
        /\ \A q \in Requests \ {r} : pc'[q] = pc[q] /\ tx'[q] = tx[q]
    BY <1>1, <1>4 DEF Update, Goto, TxInv, TypeOK, NoTx
  <2>2. LocalShape(r)'
    BY <1>1, <2>1 DEF Update, LocalShape, InFlight, Exists
  <2>3. TxShape(r)'
    <3>1. RowToWrite(r)' = RowToWrite(r)
      BY DEF RowToWrite, Update
    <3>2. QED
      BY <1>4, <2>1, <3>1 DEF Update, TxShape, Writing, WhereMatches
  <2>4. ASSUME NEW q \in Requests \ {r}, Writing(q)
        PROVE  local[q].id # local'[r].id
    <3>1. LocalShape(q) /\ InFlight(q) /\ tx[q].row = RowToWrite(q)
      BY <2>4 DEF TxInv, TxShape, InFlight, Writing
    <3>2. tx[q].row.id = local[q].id
      BY <3>1, RowToWriteType DEF TxInv
    <3>3. QED
      BY <3>2 DEF Update, RowLocked
  <2>5. QED
    BY <1>3, <2>1, <2>2, <2>3, <2>4, QuietStep DEF Update
<1>5. CASE ~WhereMatches(r)
  <2>1. /\ pc'[r] = "diagnose" /\ tx'[r] = NoTx
        /\ \A q \in Requests \ {r} : pc'[q] = pc[q] /\ tx'[q] = tx[q]
    BY <1>1, <1>5 DEF Update, Goto, TxInv, TypeOK
  <2>2. LocalShape(r)' /\ TxShape(r)' /\ ~Writing(r)'
    BY <1>1, <2>1 DEF Update, LocalShape, InFlight, TxShape, Writing, Exists
  <2>3. QED
    BY <1>3, <2>1, <2>2, QuietStep DEF Update
<1>6. QED
  BY <1>4, <1>5

\* The UPDATE of CancelOrder.
LEMMA CancelUpdateStep ==
  ASSUME TxInv, NEW r \in Cancelers, CancelUpdate(r)
  PROVE  TxInv'
<1>1. r \in Requests /\ r \notin Creators
  BY RequestsAssumption DEF Requests
<1>2. local[r].status = "CANCELED"
  BY <1>1 DEF TxInv, LocalShape, InFlight, CancelUpdate, Update
<1>3. RowToWrite(r) = CancelRow(orders[local[r].id])
  BY <1>1 DEF RowToWrite
<1>4. QED
  BY <1>1, <1>2, <1>3, UpdateStep DEF CancelUpdate

\* The UPDATE of UpdateOrderExecution.
LEMMA FillUpdateStep ==
  ASSUME TxInv, NEW r \in Fillers, FillUpdate(r)
  PROVE  TxInv'
<1>1. r \in Requests /\ r \notin Creators /\ r \notin Cancelers
  BY RequestsAssumption DEF Requests
<1>2. local[r].status \in {"PENDING", "FILLED"}
  BY <1>1 DEF TxInv, LocalShape, InFlight, FillUpdate, Update
<1>3. RowToWrite(r) = ExecutionRow(orders[local[r].id], local[r])
  BY <1>1 DEF RowToWrite
<1> DEFINE next == IF local[r].status = "FILLED" THEN "outbox" ELSE "commit"
<1>4. next \in {"outbox", "commit"} /\ ((next = "outbox") <=> (local[r].status # "PENDING"))
  BY <1>2
<1>5. QED
  BY <1>1, <1>3, <1>4, UpdateStep DEF FillUpdate

\* Explaining an UPDATE that matched no row.
LEMMA DiagnoseStep ==
  ASSUME TxInv, NEW r \in Requests, Diagnose(r)
  PROVE  TxInv'
<1>1. PICK error \in Outcomes : Answer(r, error, NoRow)
  BY DEF Diagnose, Outcomes, Errors
<1>2. /\ pc' \in [Requests -> Labels]
      /\ reply' \in [Requests -> [error : Outcomes, order : Row]]
  BY <1>1, NoRowType, AnswerType DEF TxInv
<1>3. TypeOK'
  BY <1>2, RollbackType DEF Diagnose, TxInv, TypeOK
<1>4. QED
  BY <1>1, <1>3, AnswerStep DEF Diagnose, Answer, Rollback, Goto

\* The outbox row joins the transaction of the row it announces.
LEMMA InsertEventStep ==
  ASSUME TxInv, NEW r \in Requests, InsertEvent(r)
  PROVE  TxInv'
<1>1. OutboxEvent(r) \in Event
  BY ReadType, EventType DEF TxInv, OutboxEvent, Announced
<1>2. TypeOK'
  BY <1>1 DEF InsertEvent, Goto, TxInv, TypeOK, Labels
<1>3. /\ pc'[r] = "commit" /\ tx'[r].events = {OutboxEvent(r)}
      /\ tx'[r].row = tx[r].row
      /\ \A q \in Requests \ {r} : pc'[q] = pc[q] /\ tx'[q] = tx[q]
  BY DEF InsertEvent, Goto, TxInv, TypeOK
<1>4. LocalShape(r) /\ TxShape(r) /\ Writing(r)
  BY DEF TxInv, InsertEvent, Writing
<1>5. LocalShape(r)'
  BY <1>3, <1>4 DEF InsertEvent, LocalShape, InFlight, Exists
<1>6. TxShape(r)'
  <2>1. RowToWrite(r)' = RowToWrite(r) /\ OutboxEvent(r)' = OutboxEvent(r)
    BY <1>3 DEF InsertEvent, RowToWrite, OutboxEvent, Announced
  <2>2. QED
    BY <1>3, <1>4, <2>1 DEF InsertEvent, TxShape, Writing
<1>7. ASSUME NEW q \in Requests \ {r}, Writing(q)
      PROVE  local[q].id # local'[r].id
  BY <1>4, <1>7 DEF TxInv, LocksExclusive, InsertEvent
<1>8. QED
  BY <1>2, <1>3, <1>5, <1>6, <1>7, QuietStep DEF InsertEvent

\* A blank symbol, found only when the event is built, undoes the order.
LEMMA RefuseEventStep ==
  ASSUME TxInv, NEW r \in Requests, RefuseEvent(r)
  PROVE  TxInv'
<1>1. EventError(Announced(r)) \in Outcomes
  BY ErrorType DEF Outcomes
<1>2. TypeOK'
  BY <1>1, NoRowType, AnswerType, RollbackType DEF RefuseEvent, TxInv, TypeOK
<1>3. QED
  BY <1>2, AnswerStep DEF RefuseEvent, Answer, Rollback, Goto

\* A failure loses what was not committed.
LEMMA FailStep ==
  ASSUME TxInv, NEW r \in Requests, Fail(r)
  PROVE  TxInv'
<1>1. "context canceled" \in Outcomes
  BY DEF Outcomes
<1>2. TypeOK'
  BY <1>1, NoRowType, AnswerType, RollbackType DEF Fail, TxInv, TypeOK
<1>3. QED
  BY <1>2, AnswerStep DEF Fail, InFlight, Answer, Rollback, Goto

-----------------------------------------------------------------------------
(* Commits *)

\* What a request about to commit has in hand.
LEMMA CommitFacts ==
  ASSUME TxInv, NEW r \in Requests, pc[r] = "commit"
  PROVE  /\ local[r].id \in Creators
         /\ tx[r].row = RowToWrite(r) /\ tx[r].row \in Row
         /\ tx[r].row.id = local[r].id /\ tx[r].row.status = local[r].status
         /\ r \in Creators => local[r].id = r /\ local[r].status = "PENDING" /\ ~Exists(r)
         /\ r \notin Creators => /\ Exists(local[r].id)
                                 /\ orders[local[r].id].status = "PENDING"
         /\ local[r].status \in Statuses
         /\ tx[r].events = IF r \in Creators \/ local[r].status # "PENDING"
                           THEN {OutboxEvent(r)} ELSE {}
<1>1. LocalShape(r) /\ TxShape(r) /\ InFlight(r) /\ Writing(r) /\ RowShape
  BY DEF TxInv, InFlight, Writing
<1>2. /\ RowToWrite(r) \in Row
      /\ RowToWrite(r).id = local[r].id /\ RowToWrite(r).status = local[r].status
  BY <1>1, RowToWriteType DEF TxInv
<1>3. r \in Creators => ~Exists(r)
  BY <1>1 DEF RowShape
<1>4. local[r].status \in Statuses
  BY <1>1 DEF LocalShape, Statuses, Requests
<1>5. QED
  BY <1>1, <1>2, <1>3, <1>4 DEF LocalShape, TxShape

\* The event of a commit: the first one of a new order, or the only one that
\* closes an order, with the status of the row.
LEMMA EventFacts ==
  ASSUME TxInv, NEW r \in Requests, pc[r] = "commit"
  PROVE  /\ OutboxEvent(r).order = local[r].id
         /\ OutboxEvent(r).status = local[r].status
         /\ r \in Creators => OutboxEvent(r).type = "orders.created"
         /\ r \notin Creators => OutboxEvent(r).type = "orders.updated"
<1>1. CASE r \in Creators
  BY <1>1, CommitFacts DEF OutboxEvent, Announced, CreatedEvent
<1>2. CASE r \notin Creators
  BY <1>2 DEF OutboxEvent, Announced, UpdatedEvent
<1>3. QED
  BY <1>1, <1>2

\* A commit replaces one row, which is no longer in any other transaction's
\* hand, and adds the event that belongs to the change.
LEMMA ApplyStep ==
  ASSUME TxInv, NEW r \in Requests, pc[r] = "commit", Apply(r), Rollback(r),
         NEW error \in Outcomes, NEW o \in Row, Answer(r, error, o),
         UNCHANGED <<local, taken>>
  PROVE  TxInv'
<1> DEFINE id == local[r].id
<1>1. /\ id \in Creators /\ orders' = [orders EXCEPT ![id] = tx[r].row]
      /\ tx[r].row \in Row /\ tx[r].row.id = id
      /\ tx[r].row.status = local[r].status /\ local[r].status \in Statuses
  BY CommitFacts DEF Apply
<1>2. TypeOK'
  BY <1>1, AnswerType, RollbackType DEF Apply, TxInv, TypeOK
<1>3. /\ pc'[r] = "done" /\ tx'[r] = NoTx
      /\ \A q \in Requests \ {r} : pc'[q] = pc[q] /\ tx'[q] = tx[q]
      /\ orders'[id] = tx[r].row
      /\ \A p \in Creators \ {id} : orders'[p] = orders[p]
  BY <1>1 DEF Answer, Rollback, Goto, TxInv, TypeOK
<1>4. Exists(id)' /\ \A p \in Creators : Exists(p) => Exists(p)'
  <2>1. NoRow.id = "" /\ "" \notin Creators
    BY RequestsAssumption DEF NoRow, Draft, Requests
  <2>2. tx[r].row # NoRow
    BY <1>1, <2>1
  <2>3. ASSUME NEW p \in Creators, Exists(p) PROVE Exists(p)'
    <3>1. CASE p = id
      BY <1>3, <2>2, <3>1 DEF Exists
    <3>2. CASE p # id
      BY <1>3, <2>3, <3>2 DEF Exists
    <3>3. QED
      BY <3>1, <3>2
  <2>4. QED
    BY <1>3, <2>2, <2>3 DEF Exists
<1>5. RowShape'
  <2>1. r \in Creators => id = r
    BY CommitFacts
  <2>2. r \notin Creators => Exists(id)
    BY CommitFacts
  <2>3. Creators \subseteq Requests
    BY DEF Requests
  <2>4. \A p \in Creators : pc'[p] # "done" => p # r /\ pc[p] # "done"
    BY <1>3, <2>3
  <2>5. \A p \in Creators \ {id} : Exists(p)' <=> Exists(p)
    BY <1>3 DEF Exists
  <2>6. \A p \in Creators : pc'[p] # "done" => p # id
    BY <2>1, <2>2, <2>4 DEF TxInv, RowShape
  <2>7. QED
    BY <1>1, <1>3, <2>4, <2>5, <2>6 DEF TxInv, RowShape
<1>6. ASSUME NEW q \in Requests
      PROVE  LocalShape(q)'
  <2>1. CASE q = r
    BY <1>3, <2>1 DEF LocalShape, InFlight
  <2>2. CASE q # r
    BY <1>3, <1>4, <2>2 DEF TxInv, LocalShape, InFlight
  <2>3. QED
    BY <2>1, <2>2
<1>7. ASSUME NEW q \in Requests
      PROVE  TxShape(q)'
  <2>1. CASE q = r
    BY <1>3, <2>1 DEF TxShape, Writing
  <2>2. CASE q # r /\ ~Writing(q)
    BY <1>3, <2>2 DEF TxInv, TxShape, Writing
  <2>3. CASE q # r /\ Writing(q)
    <3>1. local[q].id # id /\ local[q].id \in Creators
      BY <2>3 DEF TxInv, LocksExclusive, Writing, LocalShape, InFlight
    <3>2. RowToWrite(q)' = RowToWrite(q) /\ OutboxEvent(q)' = OutboxEvent(q)
      BY <1>3, <2>3, <3>1 DEF RowToWrite, OutboxEvent, Announced
    <3>3. TxShape(q)
      BY DEF TxInv
    <3>4. QED
      BY <1>3, <2>3, <3>1, <3>2, <3>3 DEF TxShape, Writing
  <2>4. QED
    BY <2>1, <2>2, <2>3
<1>8. LocksExclusive'
  BY <1>3 DEF TxInv, LocksExclusive, Writing
<1>9. OutboxMatchesOrders'
  <2> DEFINE ev == OutboxEvent(r)
  <2>1. \A p \in Creators \ {id} : Exists(p)' <=> Exists(p)
    BY <1>3 DEF Exists
  <2>2. outbox' = outbox \/ (outbox' = outbox \union {ev} /\ ev.order = id)
    BY CommitFacts, EventFacts DEF Apply
  <2>3. \A p \in Creators \ {id} : \A type : EventsOf(p, type)' = EventsOf(p, type)
    BY <2>2 DEF EventsOf
  <2>4. \A e \in outbox' : e.order \in Creators /\ Exists(e.order)'
    <3>1. \A e \in outbox : e.order \in Creators /\ Exists(e.order)'
      BY <1>4 DEF TxInv, OutboxMatchesOrders
    <3>2. QED
      BY <1>1, <1>4, <2>2, <3>1
  <2>5. ASSUME NEW p \in Creators \ {id}, Exists(p)'
        PROVE  /\ AnnouncedOnce(p, "orders.created", "PENDING")'
               /\ IF orders'[p].status = "PENDING"
                  THEN EventsOf(p, "orders.updated")' = {}
                  ELSE AnnouncedOnce(p, "orders.updated", orders[p].status)'
    <3>1. orders'[p] = orders[p] /\ Exists(p)
      BY <1>3, <2>1, <2>5
    <3>2. /\ AnnouncedOnce(p, "orders.created", "PENDING")
          /\ IF orders[p].status = "PENDING"
             THEN EventsOf(p, "orders.updated") = {}
             ELSE AnnouncedOnce(p, "orders.updated", orders[p].status)
      BY <3>1 DEF TxInv, OutboxMatchesOrders
    <3>3. outbox \subseteq outbox'
      BY <2>2
    <3>4. QED
      BY <2>3, <3>1, <3>2, <3>3 DEF AnnouncedOnce
  <2>6. /\ AnnouncedOnce(id, "orders.created", "PENDING")'
        /\ IF orders'[id].status = "PENDING"
           THEN EventsOf(id, "orders.updated")' = {}
           ELSE AnnouncedOnce(id, "orders.updated", orders[id].status)'
    <3>0. orders'[id].status = local[r].status
      BY <1>1, <1>3
    <3>1. CASE r \in Creators
      <4>1. /\ outbox' = outbox \union {ev} /\ ev.order = id
            /\ ev.type = "orders.created" /\ ev.status = "PENDING"
            /\ local[r].status = "PENDING" /\ ~Exists(id)
        BY <3>1, CommitFacts, EventFacts DEF Apply
      <4>2. \A e \in outbox : e.order # id
        BY <4>1 DEF TxInv, OutboxMatchesOrders
      <4>3. EventsOf(id, "orders.created")' = {ev} /\ EventsOf(id, "orders.updated")' = {}
        BY <4>1, <4>2 DEF EventsOf
      <4>4. QED
        BY <3>0, <4>1, <4>3 DEF AnnouncedOnce
    <3>2. CASE r \notin Creators
      <4>1. Exists(id) /\ orders[id].status = "PENDING"
        BY <3>2, CommitFacts
      <4>2. /\ EventsOf(id, "orders.updated") = {}
            /\ AnnouncedOnce(id, "orders.created", "PENDING")
        BY <1>1, <4>1 DEF TxInv, OutboxMatchesOrders
      <4>3. CASE local[r].status = "PENDING"
        <5>1. outbox' = outbox
          BY <3>2, <4>3, CommitFacts DEF Apply
        <5>2. QED
          BY <3>0, <4>2, <4>3, <5>1 DEF AnnouncedOnce, EventsOf
      <4>4. CASE local[r].status # "PENDING"
        <5>1. /\ outbox' = outbox \union {ev} /\ ev.order = id
              /\ ev.type = "orders.updated" /\ ev.status = local[r].status
          BY <3>2, <4>4, CommitFacts, EventFacts DEF Apply
        <5>2. /\ EventsOf(id, "orders.updated")' = {ev}
              /\ EventsOf(id, "orders.created")' = EventsOf(id, "orders.created")
          BY <4>2, <5>1 DEF EventsOf
        <5>3. QED
          BY <3>0, <4>2, <4>4, <5>1, <5>2 DEF AnnouncedOnce
      <4>5. QED
        BY <4>3, <4>4
    <3>3. QED
      BY <3>1, <3>2
  <2>7. QED
    BY <2>4, <2>5, <2>6 DEF OutboxMatchesOrders
<1>10. QED
  BY <1>2, <1>5, <1>6, <1>7, <1>8, <1>9 DEF TxInv

-----------------------------------------------------------------------------
(* The inductive invariant and what follows from it *)

\* An empty database satisfies the invariant.
LEMMA TxInvInit == Init => TxInv
<1> SUFFICES ASSUME Init PROVE TxInv
  OBVIOUS
<1>1. TypeOK
  <2>1. NoReply \in [error : Outcomes, order : Row]
    BY NoRowType DEF NoReply, Outcomes
  <2>2. NoTx \in [row : Row, events : SUBSET Event]
    BY NoRowType DEF NoTx
  <2>3. QED
    BY <2>1, <2>2, NoRowType DEF Init, TypeOK, Labels
<1>2. \A o \in Creators : ~Exists(o)
  BY DEF Init, Exists
<1>3. RowShape /\ LocksExclusive
  BY <1>2 DEF Init, RowShape, LocksExclusive, Writing
<1>4. \A r \in Requests : LocalShape(r) /\ TxShape(r)
  BY DEF Init, LocalShape, InFlight, TxShape, Writing
<1>5. OutboxMatchesOrders
  BY <1>2 DEF Init, OutboxMatchesOrders
<1>6. QED
  BY <1>1, <1>3, <1>4, <1>5 DEF TxInv

\* Every step of every request preserves it.
LEMMA TxInvStep == TxInv /\ [Next]_vars => TxInv'
<1> SUFFICES ASSUME TxInv, [Next]_vars PROVE TxInv'
  OBVIOUS
<1>1. CASE UNCHANGED vars
  <2>1. TypeOK' /\ RowShape' /\ LocksExclusive'
    BY <1>1 DEF vars, TxInv, TypeOK, RowShape, Exists, LocksExclusive, Writing
  <2>2. OutboxMatchesOrders'
    BY <1>1 DEF vars, TxInv, OutboxMatchesOrders, Exists, AnnouncedOnce, EventsOf
  <2>3. \A r \in Requests : LocalShape(r)'
    BY <1>1 DEF vars, TxInv, LocalShape, InFlight, Exists
  <2>4. \A r \in Requests : TxShape(r)'
    BY <1>1 DEF vars, TxInv, TxShape, Writing, RowToWrite, OutboxEvent, Announced
  <2>5. QED
    BY <2>1, <2>2, <2>3, <2>4 DEF TxInv
<1>2. ASSUME NEW r \in Requests, Commit(r)
      PROVE  TxInv'
  <2>1. tx[r].row \in Row /\ NoRow \in Row /\ OK \in Outcomes
    BY ReadType, NoRowType DEF TxInv, Outcomes
  <2>2. PICK o \in Row : Answer(r, OK, o)
    BY <1>2, <2>1 DEF Commit
  <2>3. QED
    BY <1>2, <2>1, <2>2, ApplyStep DEF Commit
<1>3. ASSUME NEW r \in Requests, CommitUnacknowledged(r)
      PROVE  TxInv'
  <2>1. NoRow \in Row /\ "connection lost" \in Outcomes
    BY NoRowType DEF Outcomes
  <2>2. QED
    BY <1>3, <2>1, ApplyStep DEF CommitUnacknowledged
<1>4. CASE Next
  <2>1. PICK r \in Requests : Step(r) \/ CommitUnacknowledged(r) \/ Fail(r)
    BY <1>4 DEF Next
  <2>2. CASE r \in Creators /\ (StartCreate(r) \/ InsertOrder(r) \/ DuplicateKey(r)
                                  \/ GetExisting(r))
    BY <2>2, StartCreateStep, InsertOrderStep, DuplicateKeyStep, GetExistingStep
  <2>3. CASE r \in Cancelers /\ (StartCancel(r) \/ CancelUpdate(r))
    BY <2>3, StartCancelStep, CancelUpdateStep
  <2>4. CASE r \in Fillers /\ (StartFill(r) \/ FillUpdate(r))
    BY <2>4, StartFillStep, FillUpdateStep
  <2>5. CASE BeginTx(r) \/ Diagnose(r) \/ InsertEvent(r) \/ RefuseEvent(r)
    BY <2>5, BeginStep, DiagnoseStep, InsertEventStep, RefuseEventStep
  <2>6. CASE Commit(r) \/ CommitUnacknowledged(r) \/ Fail(r)
    BY <2>6, <1>2, <1>3, FailStep
  <2>7. QED
    BY <2>1, <2>2, <2>3, <2>4, <2>5, <2>6 DEF Step
<1>5. QED
  BY <1>1, <1>4

\* The service keeps the invariant, whatever the requests and however they
\* interleave, fail or lose their acknowledgements.
THEOREM TxInvariance == Spec => []TxInv
<1>1. QED
  BY TxInvInit, TxInvStep, PTL DEF Spec

\* Type correctness.
THEOREM TypeCorrect == Spec => []TypeOK
<1>1. TxInv => TypeOK
  BY DEF TxInv
<1>2. QED
  BY <1>1, TxInvariance, PTL

\* The transactional outbox of repository/postgres.go: a stored order has exactly
\* one orders.created event, a terminal one exactly one orders.updated event with
\* its status, and no event speaks of anything that is not stored.
THEOREM OutboxCorrect == Spec => []OutboxMatchesOrders
<1>1. TxInv => OutboxMatchesOrders
  BY DEF TxInv
<1>2. QED
  BY <1>1, TxInvariance, PTL

\* A commit changes a stored order only as the life cycle allows.
LEMMA ApplyLawful ==
  ASSUME TxInv, NEW r \in Requests, pc[r] = "commit", Apply(r),
         NEW o \in Creators, Exists(o)
  PROVE  Lawful(orders[o], orders'[o])
<1> DEFINE id == local[r].id
<1>1. /\ id \in Creators /\ orders' = [orders EXCEPT ![id] = RowToWrite(r)]
      /\ RowToWrite(r).id = id /\ RowToWrite(r).status = local[r].status
      /\ local[r].status \in Statuses
  BY CommitFacts DEF Apply
<1>2. CASE o # id
  BY <1>1, <1>2 DEF TxInv, TypeOK, Lawful
<1>3. CASE o = id
  <2>1. orders'[o] = RowToWrite(r)
    BY <1>1, <1>3 DEF TxInv, TypeOK
  <2>2. r \notin Creators /\ orders[o].status = "PENDING" /\ orders[o].id = o
    BY <1>3, CommitFacts DEF TxInv, RowShape
  <2>3. RowToWrite(r).terms = orders[o].terms
    <3>1. orders[o] \in Row /\ local[r] \in Row
      BY ReadType DEF TxInv
    <3>2. QED
      BY <1>3, <2>2, <3>1, CancelType, ExecutionType DEF RowToWrite
  <2>4. local[r].status = "PENDING" \/ CanTransition("PENDING", local[r].status)
    BY <1>1 DEF Statuses, CanTransition
  <2>5. QED
    BY <1>1, <1>3, <2>1, <2>2, <2>3, <2>4 DEF Lawful
<1>4. QED
  BY <1>2, <1>3

\* The life cycle of domain/order.go holds in the table under every interleaving:
\* terminal rows never move, statuses move as CanTransition allows, and identity
\* and terms never change.
THEOREM LifecycleCorrect == Spec => LifecycleRespected
<1>1. ASSUME TxInv, [Next]_vars, NEW o \in Creators, Exists(o)
      PROVE  Lawful(orders[o], orders'[o])
  <2>1. CASE UNCHANGED orders
    BY <2>1 DEF Lawful
  <2>2. CASE \E r \in Requests : pc[r] = "commit" /\ Apply(r)
    BY <1>1, <2>2, ApplyLawful
  <2>3. UNCHANGED orders \/ \E r \in Requests : pc[r] = "commit" /\ Apply(r)
    <3>1. CASE UNCHANGED vars
      BY <3>1 DEF vars
    <3>2. CASE Next
      <4>1. PICK r \in Requests : Step(r) \/ CommitUnacknowledged(r) \/ Fail(r)
        BY <3>2 DEF Next
      <4>2. CASE Commit(r) \/ CommitUnacknowledged(r)
        BY <4>2 DEF Commit, CommitUnacknowledged
      <4>3. CASE StartCreate(r) \/ InsertOrder(r) \/ DuplicateKey(r) \/ GetExisting(r)
        BY <4>3 DEF StartCreate, InsertOrder, DuplicateKey, GetExisting
      <4>4. CASE StartCancel(r) \/ CancelUpdate(r) \/ StartFill(r) \/ FillUpdate(r)
        BY <4>4 DEF StartCancel, CancelUpdate, StartFill, FillUpdate, Update
      <4>5. CASE BeginTx(r) \/ Diagnose(r) \/ InsertEvent(r) \/ RefuseEvent(r) \/ Fail(r)
        BY <4>5 DEF BeginTx, Diagnose, InsertEvent, RefuseEvent, Fail
      <4>6. QED
        BY <4>1, <4>2, <4>3, <4>4, <4>5 DEF Step
    <3>3. QED
      BY <1>1, <3>1, <3>2
  <2>4. QED
    BY <2>1, <2>2, <2>3
<1>2. TxInv /\ [Next]_vars
        => [\A o \in Creators : Exists(o) => Lawful(orders[o], orders'[o])]_vars
  BY <1>1
<1>3. QED
  BY <1>2, TxInvariance, PTL DEF Spec, LifecycleRespected
=============================================================================
