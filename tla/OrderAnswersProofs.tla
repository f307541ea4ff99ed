------------------------ MODULE OrderAnswersProofs ------------------------
(***************************************************************************)
(* What callers of OrderStore are told is in its tables, and OrderStore    *)
(* implements OrderLedger: proofs on top of TxInv, for every set of        *)
(* requests, terms and sizes.                                              *)
(***************************************************************************)
EXTENDS OrderStoreProofs

-----------------------------------------------------------------------------
(* The validations *)

\* What passes validateOrder.
LEMMA ValidFacts ==
  ASSUME NEW o \in Row, ValidateError(o) = OK
  PROVE  /\ o.terms.side \in Sides
         /\ o.terms.price > 0 /\ o.terms.qty > 0
         /\ 0 <= o.remaining /\ o.remaining <= o.terms.qty
         /\ o.status \in Statuses
<1>1. /\ o.terms.side \in Sides
      /\ ~(o.terms.price <= 0) /\ ~(o.terms.qty <= 0)
      /\ ~(o.remaining < 0) /\ ~(o.remaining > o.terms.qty)
      /\ o.status \in Statuses
  BY Zenon DEF ValidateError, OK
<1>2. o.remaining \in Int /\ o.terms \in Terms \union {NoTerms}
  BY DEF Row
<1>3. o.terms.price \in Int
  <2>1. NoTerms.price = 0
    BY DEF NoTerms
  <2>2. CASE o.terms \in Terms
    BY <2>2, TermsAssumption
  <2>3. CASE o.terms = NoTerms
    BY <2>1, <2>3
  <2>4. QED
    BY <1>2, <2>2, <2>3
<1>4. o.terms.qty \in Int
  BY <1>2, QtyType
<1>5. QED
  BY <1>1, <1>2, <1>3, <1>4

\* None of the validations blames a conflict or a missing order.
LEMMA ErrorsPlain ==
  ASSUME NEW o, NEW n
  PROVE  /\ NormalizeError(o) \notin {"ErrOrderUpdateConflict", "ErrOrderNotFound"}
         /\ ValidateError(o) \notin {"ErrOrderUpdateConflict", "ErrOrderNotFound"}
         /\ FillError(o, n) \notin {"ErrOrderUpdateConflict", "ErrOrderNotFound"}
         /\ CancelError(o) \notin {"ErrOrderUpdateConflict", "ErrOrderNotFound"}
         /\ ExecutionError(o) \notin {"ErrOrderUpdateConflict", "ErrOrderNotFound"}
         /\ CancelOrderError(o) \notin {"ErrOrderUpdateConflict", "ErrOrderNotFound"}
         /\ EventError(o) \notin {"ErrOrderUpdateConflict", "ErrOrderNotFound"}
<1>1. ValidateError(o) \notin {"ErrOrderUpdateConflict", "ErrOrderNotFound"}
  BY DEF ValidateError, OK
<1>2. NormalizeError(o) \notin {"ErrOrderUpdateConflict", "ErrOrderNotFound"}
  BY DEF NormalizeError, OK
<1>3. FillError(o, n) \notin {"ErrOrderUpdateConflict", "ErrOrderNotFound"}
  BY DEF FillError, OK
<1>4. CancelError(o) \notin {"ErrOrderUpdateConflict", "ErrOrderNotFound"}
  BY DEF CancelError, OK
<1>5. ExecutionError(o) \notin {"ErrOrderUpdateConflict", "ErrOrderNotFound"}
  BY <1>1 DEF ExecutionError, OK
<1>6. CancelOrderError(o) \notin {"ErrOrderUpdateConflict", "ErrOrderNotFound"}
  BY <1>1 DEF CancelOrderError, OK
<1>7. EventError(o) \notin {"ErrOrderUpdateConflict", "ErrOrderNotFound"}
  BY DEF EventError, OK
<1>8. QED
  BY <1>1, <1>2, <1>3, <1>4, <1>5, <1>6, <1>7

\* mapOrderError answers Aborted and NotFound for one error each.
LEMMA CodeFacts ==
  ASSUME NEW error
  PROVE  /\ GrpcCode(error) = "Aborted" => error = "ErrOrderUpdateConflict"
         /\ GrpcCode(error) = "NotFound" => error = "ErrOrderNotFound"
BY DEF GrpcCode, OK

\* A row with a key is there.
LEMMA KeyExists ==
  ASSUME NEW o \in Creators, orders[o].terms.key # NoKey
  PROVE  Exists(o)
<1>1. NoRow.terms = NoTerms /\ NoTerms.key = NoKey
  BY DEF NoRow, Draft, NoTerms
<1>2. QED
  BY <1>1 DEF Exists

\* So is one with a status.
LEMMA StatusExists ==
  ASSUME NEW o \in Creators, orders[o].status \in Statuses
  PROVE  Exists(o)
<1>1. NoRow.status = ""
  BY DEF NoRow, Draft
<1>2. QED
  BY <1>1 DEF Exists, Statuses

-----------------------------------------------------------------------------
(* Steps that store nothing *)

\* Going on in the same call: who takes a key has it to itself, and who looks for
\* a cause will find one.
LEMMA GoOn ==
  ASSUME IInv, TxInv', NEW r \in Requests, InFlight(r),
         NEW label \in Labels \ {"idle", "done"}, Goto(r, label),
         UNCHANGED <<orders, local, reply, committed>>,
         /\ r \in Creators /\ label \in {"outbox", "commit"}
         /\ local[r].terms.key # NoKey
         => KeyOwned(r),
         label = "existing" => r \in Creators /\ KeyTaken(r),
         label = "diagnose" => orders[local[r].id].status \in {"FILLED", "CANCELED"}
  PROVE  IInv'
<1>1. /\ pc'[r] = label
      /\ \A q \in Requests \ {r} : pc'[q] = pc[q]
  BY DEF Goto, IInv, TxInv, TypeOK
<1>2. Creators \subseteq Requests
  BY DEF Requests
<1>3. StoredRowsConsistent' /\ OneOrderPerKey'
  BY DEF IInv, StoredRowsConsistent, OneOrderPerKey, Exists
<1>4. KeysHeld'
  <2> SUFFICES ASSUME NEW q \in Creators, Writing(q)', local[q].terms.key # NoKey
               PROVE  KeyOwned(q)'
    BY DEF KeysHeld
  <2>1. \A p \in Creators \ {r} : Writing(p)' <=> Writing(p)
    BY <1>1, <1>2 DEF Writing
  <2>2. KeyOwned(q)
    <3>1. CASE q = r
      BY <1>1, <3>1 DEF Writing
    <3>2. CASE q # r
      BY <2>1, <3>2 DEF IInv, KeysHeld
    <3>3. QED
      BY <3>1, <3>2
  <2>3. \A o \in Creators : orders[o].terms.key # local[q].terms.key
    BY <2>2 DEF KeyOwned
  <2>4. ASSUME NEW p \in Creators \ {q}, Writing(p)'
        PROVE  local[p].terms.key # local[q].terms.key
    <3>1. CASE p # r
      BY <2>1, <2>2, <2>4, <3>1 DEF KeyOwned
    <3>2. CASE p = r
      <4>1. q # r /\ Writing(q)
        BY <2>1, <2>4, <3>2
      <4>2. CASE local[r].terms.key = NoKey
        BY <3>2, <4>2
      <4>3. CASE local[r].terms.key # NoKey
        <5>1. KeyOwned(r)
          BY <1>1, <2>4, <3>2, <4>3 DEF Writing
        <5>2. QED
          BY <3>2, <4>1, <5>1 DEF KeyOwned
      <4>4. QED
        BY <4>2, <4>3
    <3>3. QED
      BY <3>1, <3>2
  <2>5. QED
    BY <2>3, <2>4 DEF KeyOwned
<1>5. ASSUME NEW q \in Requests
      PROVE  LocalChecked(q)'
  <2>1. LocalChecked(q)
    BY DEF IInv
  <2>2. CASE q = r
    BY <1>1, <2>1, <2>2 DEF LocalChecked, InFlight, KeyTaken, Acknowledged
  <2>3. CASE q # r
    BY <1>1, <2>1, <2>3 DEF LocalChecked, InFlight, KeyTaken, Acknowledged
  <2>4. QED
    BY <2>2, <2>3
<1>6. \A q \in Requests : Acknowledged(q)' => Acknowledged(q)
  BY <1>1 DEF Acknowledged, InFlight
<1>7. TermsKept'
  BY <1>2, <1>6 DEF IInv, TermsKept, Exists
<1>8. RepliesInformed'
  BY <1>1 DEF IInv, RepliesInformed, InFlight
<1>9. AcknowledgedIsDurable'
  BY <1>6 DEF IInv, AcknowledgedIsDurable, Exists
<1>10. QED
  BY <1>3, <1>4, <1>5, <1>7, <1>8, <1>9 DEF IInv

\* Answering a caller for whom nothing is stored: with an error, or with the order
\* that has the caller's key.
LEMMA Tell ==
  ASSUME IInv, TxInv', NEW r \in Requests, pc[r] # "done",
         NEW error \in Outcomes, NEW o \in Row, Answer(r, error, o),
         UNCHANGED <<orders, local, committed>>,
         error # "ErrOrderUpdateConflict",
         error = "ErrOrderNotFound" => local[r].id = "",
         error = OK =>
           /\ r \in Creators /\ local[r].terms.key # NoKey
           /\ o.id \in Creators /\ o.id # r
           /\ Exists(o.id) /\ o = orders[o.id]
           /\ o.terms.key = local[r].terms.key
  PROVE  IInv'
<1>1. /\ pc'[r] = "done" /\ reply'[r].error = error /\ reply'[r].order = o
      /\ \A q \in Requests \ {r} : pc'[q] = pc[q] /\ reply'[q] = reply[q]
  BY DEF Answer, Goto, IInv, TxInv, TypeOK
<1>2. Creators \subseteq Requests
  BY DEF Requests
<1>3. StoredRowsConsistent' /\ OneOrderPerKey'
  BY DEF IInv, StoredRowsConsistent, OneOrderPerKey, Exists
<1>4. KeysHeld'
  <2>1. \A q \in Creators : Writing(q)' => Writing(q)
    BY <1>1, <1>2 DEF Writing
  <2>2. QED
    BY <2>1 DEF IInv, KeysHeld, KeyOwned
<1>5. ASSUME NEW q \in Requests
      PROVE  LocalChecked(q)'
  <2>1. LocalChecked(q)
    BY DEF IInv
  <2>2. CASE q = r
    BY <1>1, <2>2 DEF LocalChecked, InFlight, Acknowledged
  <2>3. CASE q # r
    BY <1>1, <2>1, <2>3 DEF LocalChecked, InFlight, KeyTaken, Acknowledged
  <2>4. QED
    BY <2>2, <2>3
<1>6. /\ \A q \in Requests \ {r} : Acknowledged(q)' => Acknowledged(q)
      /\ Acknowledged(r)' => error = OK
  BY <1>1 DEF Acknowledged
<1>7. TermsKept'
  <2>1. \A p \in Creators : Exists(p)' => orders'[p].terms = local'[p].terms
    BY DEF IInv, TermsKept, Exists
  <2>2. ASSUME NEW q \in Creators, Acknowledged(q)'
        PROVE  /\ reply'[q].order.terms = orders'[reply'[q].order.id].terms
               /\ reply'[q].order.id # q => local'[q].terms.key # NoKey
    <3>1. CASE q = r
      BY <1>1, <1>6, <2>2, <3>1
    <3>2. CASE q # r
      BY <1>1, <1>2, <1>6, <2>2, <3>2 DEF IInv, TermsKept
    <3>3. QED
      BY <3>1, <3>2
  <2>3. QED
    BY <2>1, <2>2 DEF TermsKept
<1>8. RepliesInformed'
  <2>1. ASSUME NEW q \in Requests
        PROVE  /\ reply'[q].error # "ErrOrderUpdateConflict"
               /\ pc'[q] = "done" /\ local'[q].id # "" => reply'[q].error # "ErrOrderNotFound"
    <3>1. CASE q = r
      BY <1>1, <3>1
    <3>2. CASE q # r
      BY <1>1, <3>2 DEF IInv, RepliesInformed
    <3>3. QED
      BY <3>1, <3>2
  <2>2. QED
    BY <2>1 DEF RepliesInformed
<1>9. AcknowledgedIsDurable'
  <2>1. ASSUME NEW q \in Requests \ {r}, Acknowledged(q)'
        PROVE  /\ q \in committed \/ (q \in Creators /\ reply'[q].order.id # q)
               /\ q \in Creators =>
                    /\ reply'[q].order.id \in Creators
                    /\ Exists(reply'[q].order.id)
                    /\ orders[reply'[q].order.id].terms.key = local[q].terms.key
               /\ q \in Cancelers => orders[local[q].id].status = "CANCELED"
               /\ q \in Fillers /\ local[q].status = "FILLED" =>
                    orders[local[q].id].status = "FILLED"
    <3>1. reply'[q] = reply[q] /\ Acknowledged(q)
      BY <1>1, <1>6, <2>1
    <3>2. QED
      BY <3>1 DEF IInv, AcknowledgedIsDurable
  <2>2. ASSUME Acknowledged(r)'
        PROVE  /\ r \in Creators /\ reply'[r].order.id # r
               /\ reply'[r].order.id \in Creators
               /\ Exists(reply'[r].order.id)
               /\ orders[reply'[r].order.id].terms.key = local[r].terms.key
    BY <1>1, <1>6, <2>2
  <2>3. r \in Creators => r \notin Cancelers /\ r \notin Fillers
    BY RequestsAssumption
  <2>4. QED
    BY <2>1, <2>2, <2>3 DEF AcknowledgedIsDurable, Exists
<1>10. QED
  BY <1>3, <1>4, <1>5, <1>7, <1>8, <1>9 DEF IInv

\* Entering the repository with an order that passed its checks.
LEMMA EnterChecked ==
  ASSUME IInv, TxInv', NEW r \in Requests, pc[r] = "idle",
         NEW o \in Row, NEW error \in Errors \union {OK}, Enter(r, o, error),
         UNCHANGED <<orders, committed>>,
         error # "ErrOrderUpdateConflict",
         error = OK =>
           /\ ValidateError(o) = OK
           /\ r \in Creators => o.canceledAt = "NULL"
           /\ r \notin Creators => o.terms = orders[o.id].terms
           /\ r \in Fillers => (o.status = "FILLED" <=> o.remaining = 0)
  PROVE  IInv'
<1>1. CASE error # OK
  <2>1. Answer(r, error, NoRow) /\ UNCHANGED local
    BY <1>1 DEF Enter
  <2>2. local[r].id = ""
    <3>1. NoRow.id = ""
      BY DEF NoRow, Draft
    <3>2. QED
      BY <3>1 DEF IInv, LocalChecked
  <2>3. error \in Outcomes
    BY DEF Outcomes
  <2>4. QED
    BY <1>1, <2>1, <2>2, <2>3, NoRowType, Tell
<1>2. CASE error = OK
  <2>1. /\ pc'[r] = "begin" /\ local'[r] = o /\ reply' = reply
        /\ \A q \in Requests \ {r} : pc'[q] = pc[q] /\ local'[q] = local[q]
    BY <1>2 DEF Enter, Goto, IInv, TxInv, TypeOK
  <2>2. Creators \subseteq Requests
    BY DEF Requests
  <2>3. StoredRowsConsistent' /\ OneOrderPerKey'
    BY DEF IInv, StoredRowsConsistent, OneOrderPerKey, Exists
  <2>4. KeysHeld'
    <3>1. \A q \in Creators : Writing(q)' => q # r /\ Writing(q) /\ local'[q] = local[q]
      BY <2>1, <2>2 DEF Writing
    <3>2. QED
      BY <3>1 DEF IInv, KeysHeld, KeyOwned
  <2>5. ASSUME NEW q \in Requests
        PROVE  LocalChecked(q)'
    <3>1. LocalChecked(q)
      BY DEF IInv
    <3>2. CASE q = r
      BY <1>2, <2>1, <3>2 DEF LocalChecked, InFlight, Acknowledged
    <3>3. CASE q # r
      BY <2>1, <3>1, <3>3 DEF LocalChecked, InFlight, KeyTaken, Acknowledged
    <3>4. QED
      BY <3>2, <3>3
  <2>6. \A q \in Requests : Acknowledged(q)' => q # r /\ Acknowledged(q)
    BY <2>1 DEF Acknowledged
  <2>7. TermsKept'
    <3>1. ASSUME NEW p \in Creators, Exists(p)'
          PROVE  orders'[p].terms = local'[p].terms
      <4>1. p # r /\ Exists(p)
        BY <3>1 DEF IInv, TxInv, RowShape, Exists
      <4>2. QED
        BY <2>1, <2>2, <4>1 DEF IInv, TermsKept
    <3>2. \A q \in Creators : Acknowledged(q)' =>
            /\ reply'[q].order.terms = orders'[reply'[q].order.id].terms
            /\ reply'[q].order.id # q => local'[q].terms.key # NoKey
      BY <2>1, <2>2, <2>6 DEF IInv, TermsKept
    <3>3. QED
      BY <3>1, <3>2 DEF TermsKept
  <2>8. RepliesInformed'
    BY <2>1 DEF IInv, RepliesInformed
  <2>9. AcknowledgedIsDurable'
    BY <2>1, <2>6 DEF IInv, AcknowledgedIsDurable, Exists
  <2>10. QED
    BY <2>3, <2>4, <2>5, <2>7, <2>8, <2>9 DEF IInv
<1>3. QED
  BY <1>1, <1>2

-----------------------------------------------------------------------------
(* The steps of the three calls *)

\* A create that is validated is PENDING with nothing canceled.
LEMMA StartCreateKeeps ==
  ASSUME IInv, TxInv', NEW r \in Creators, StartCreate(r)
  PROVE  IInv'
<1> DEFINE order(t) == Normalize(Draft(t), r)
           error(t) == IF NormalizeError(Draft(t)) # OK THEN NormalizeError(Draft(t))
                       ELSE ValidateError(order(t))
<1>1. PICK t \in Terms : Enter(r, order(t), error(t))
  BY DEF StartCreate
<1>2. r \in Requests /\ r \notin Cancelers /\ r \notin Fillers
  BY RequestsAssumption DEF Requests
<1>3. /\ error(t) \in Errors \union {OK}
      /\ error(t) # "ErrOrderUpdateConflict"
      /\ error(t) = OK => ValidateError(order(t)) = OK
  BY ErrorType, ErrorsPlain
<1>4. order(t) \in Row
  BY NormalizeType
<1>5. order(t).canceledAt = "NULL"
  BY DEF Normalize, Draft
<1>6. QED
  BY <1>1, <1>2, <1>3, <1>4, <1>5, EnterChecked DEF StartCreate

\* A cancel that is accepted has the terms of the order it read.
LEMMA StartCancelKeeps ==
  ASSUME IInv, TxInv', NEW r \in Cancelers, StartCancel(r)
  PROVE  IInv'
<1> DEFINE error(o) == IF Find(o) # OK THEN Find(o)
                       ELSE IF CancelError(orders[o]) # OK THEN CancelError(orders[o])
                       ELSE CancelOrderError(Cancel(orders[o]))
<1>1. PICK o \in Creators : Enter(r, Cancel(orders[o]), error(o))
  BY DEF StartCancel
<1>2. r \in Requests /\ r \notin Creators /\ r \notin Fillers
  BY RequestsAssumption DEF Requests
<1>3. Find(o) \in Errors \union {OK} /\ Find(o) # "ErrOrderUpdateConflict"
  BY DEF Find, Errors, OK
<1>4. error(o) \in Errors \union {OK} /\ error(o) # "ErrOrderUpdateConflict"
  BY <1>3, ErrorType, ErrorsPlain
<1>5. error(o) = OK => /\ ValidateError(Cancel(orders[o])) = OK
                       /\ Exists(o) /\ orders[o].id = o
  BY DEF Find, Exists, OK, CancelOrderError, IInv, TxInv, RowShape
<1>6. orders[o] \in Row
  BY ReadType DEF IInv, TxInv
<1>7. /\ Cancel(orders[o]) \in Row /\ Cancel(orders[o]).id = orders[o].id
      /\ Cancel(orders[o]).terms = orders[o].terms
  BY <1>6, CancelType DEF Cancel, Row
<1>8. QED
  BY <1>1, <1>2, <1>4, <1>5, <1>7, EnterChecked DEF StartCancel

\* So has an execution, which is FILLED exactly when nothing remains.
LEMMA StartFillKeeps ==
  ASSUME IInv, TxInv', NEW r \in Fillers, StartFill(r)
  PROVE  IInv'
<1> DEFINE error(o, n) == IF Find(o) # OK THEN Find(o)
                          ELSE IF FillError(orders[o], n) # OK THEN FillError(orders[o], n)
                          ELSE ExecutionError(ApplyFill(orders[o], n))
<1>1. PICK o \in Creators, n \in FillSizes :
        Enter(r, ApplyFill(orders[o], n), error(o, n))
  BY DEF StartFill
<1>2. r \in Requests /\ r \notin Creators /\ r \notin Cancelers
  BY RequestsAssumption DEF Requests
<1>3. Find(o) \in Errors \union {OK} /\ Find(o) # "ErrOrderUpdateConflict"
  BY DEF Find, Errors, OK
<1>4. error(o, n) \in Errors \union {OK} /\ error(o, n) # "ErrOrderUpdateConflict"
  BY <1>3, ErrorType, ErrorsPlain
<1>5. error(o, n) = OK =>
        /\ Find(o) = OK
        /\ ExecutionError(ApplyFill(orders[o], n)) = OK
  OBVIOUS
<1>6. error(o, n) = OK =>
        /\ ValidateError(ApplyFill(orders[o], n)) = OK
        /\ ApplyFill(orders[o], n).status = "FILLED" <=> ApplyFill(orders[o], n).remaining = 0
  <2>1. \A p : ExecutionError(p) = OK =>
           ValidateError(p) = OK /\ (p.status = "FILLED" <=> p.remaining = 0)
    BY Zenon DEF ExecutionError, OK
  <2>2. QED
    BY <1>5, <2>1
<1>7. error(o, n) = OK => Exists(o) /\ orders[o].id = o
  BY <1>5 DEF Find, Exists, OK, IInv, TxInv, RowShape
<1>8. orders[o] \in Row /\ n \in Int
  BY ReadType, LimitsAssumption DEF IInv, TxInv
<1>9. ApplyFill(orders[o], n) \in Row /\ ApplyFill(orders[o], n).id = orders[o].id
  BY <1>8, FillType
<1>10. ApplyFill(orders[o], n).terms = orders[o].terms
  BY <1>8 DEF ApplyFill, Row
<1>11. QED
  BY <1>1, <1>2, <1>4, <1>6, <1>7, <1>9, <1>10, EnterChecked DEF StartFill

\* An INSERT goes through only on a key nobody has or is about to have.
LEMMA InsertOrderKeeps ==
  ASSUME IInv, TxInv', NEW r \in Creators, InsertOrder(r)
  PROVE  IInv'
<1>1. r \in Requests /\ InFlight(r)
  BY DEF Requests, InsertOrder, InFlight
<1>2. "outbox" \in Labels \ {"idle", "done"}
  BY DEF Labels
<1>3. local[r].terms.key # NoKey => KeyOwned(r)
  <2> SUFFICES ASSUME local[r].terms.key # NoKey PROVE KeyOwned(r)
    OBVIOUS
  <2>1. \A o \in Creators : orders[o].terms.key # local[r].terms.key
    BY DEF InsertOrder, KeyTaken
  <2>2. ASSUME NEW q \in Creators \ {r}, Writing(q)
        PROVE  local[q].terms.key # local[r].terms.key
    <3>1. q \in Requests /\ local[q] \in Row
      BY ReadType DEF Requests, IInv, TxInv
    <3>2. tx[q].row = InsertRow(local[q])
      BY <2>2, <3>1 DEF IInv, TxInv, TxShape, RowToWrite
    <3>3. tx[q].row.terms = local[q].terms
      BY <3>1, <3>2, InsertType
    <3>4. QED
      BY <3>1, <3>3 DEF InsertOrder, KeyContended
  <2>3. QED
    BY <2>1, <2>2 DEF KeyOwned
<1>4. QED
  BY <1>1, <1>2, <1>3, GoOn DEF InsertOrder

\* The INSERT that does not knows that the key is taken.
LEMMA DuplicateKeyKeeps ==
  ASSUME IInv, TxInv', NEW r \in Creators, DuplicateKey(r)
  PROVE  IInv'
<1>1. r \in Requests /\ InFlight(r)
  BY DEF Requests, DuplicateKey, InFlight
<1>2. "existing" \in Labels \ {"idle", "done"}
  BY DEF Labels
<1>3. QED
  BY <1>1, <1>2, GoOn DEF DuplicateKey

\* Rows are never deleted, so the order that has the key is found.
LEMMA GetExistingKeeps ==
  ASSUME IInv, TxInv', NEW r \in Creators, GetExisting(r)
  PROVE  IInv'
<1> DEFINE found == {o \in Creators : orders[o].terms.key = local[r].terms.key}
           o == CHOOSE p \in found : TRUE
<1>1. r \in Requests /\ pc[r] = "existing" /\ pc[r] # "done"
  BY DEF Requests, GetExisting
<1>2. KeyTaken(r)
  BY <1>1 DEF IInv, LocalChecked
<1>3. found # {} /\ local[r].terms.key # NoKey
  BY <1>2 DEF KeyTaken
<1>4. o \in found
  BY <1>3
<1>5. Answer(r, OK, orders[o]) /\ orders[o] \in Row /\ OK \in Outcomes
  BY <1>3, <1>4 DEF GetExisting, Outcomes, IInv, TxInv, TypeOK
<1>6. Exists(o) /\ orders[o].id = o
  BY <1>3, <1>4, KeyExists DEF IInv, TxInv, RowShape
<1>7. o # r
  BY <1>1, <1>6 DEF IInv, TxInv, RowShape
<1>8. QED
  BY <1>1, <1>3, <1>4, <1>5, <1>6, <1>7, Tell DEF GetExisting, OK

\* Taking a connection.
LEMMA BeginKeeps ==
  ASSUME IInv, TxInv', NEW r \in Requests, BeginTx(r)
  PROVE  IInv'
<1>1. InFlight(r) /\ "write" \in Labels \ {"idle", "done"}
  BY DEF BeginTx, InFlight, Labels
<1>2. QED
  BY <1>1, GoOn DEF BeginTx

\* An UPDATE that matches no row missed a terminal one.
LEMMA UpdateKeeps ==
  ASSUME IInv, TxInv', NEW r \in Requests, r \notin Creators, NEW row,
         NEW next \in {"outbox", "commit"}, Update(r, row, next)
  PROVE  IInv'
<1>1. InFlight(r)
  BY DEF Update, InFlight
<1>2. {"outbox", "commit", "diagnose"} \subseteq Labels \ {"idle", "done"}
  BY DEF Labels
<1>3. CASE WhereMatches(r)
  BY <1>1, <1>2, <1>3, GoOn DEF Update
<1>4. CASE ~WhereMatches(r)
  <2>1. local[r].id \in Creators /\ Exists(local[r].id)
    BY <1>1 DEF IInv, TxInv, LocalShape
  <2>2. orders[local[r].id].status \in {"FILLED", "CANCELED"}
    BY <1>4, <2>1 DEF IInv, TxInv, RowShape, WhereMatches, Statuses
  <2>3. QED
    BY <1>1, <1>2, <1>4, <2>2, GoOn DEF Update
<1>5. QED
  BY <1>3, <1>4

\* The UPDATE of CancelOrder.
LEMMA CancelUpdateKeeps ==
  ASSUME IInv, TxInv', NEW r \in Cancelers, CancelUpdate(r)
  PROVE  IInv'
<1>1. r \in Requests /\ r \notin Creators
  BY RequestsAssumption DEF Requests
<1>2. QED
  BY <1>1, UpdateKeeps DEF CancelUpdate

\* The UPDATE of UpdateOrderExecution.
LEMMA FillUpdateKeeps ==
  ASSUME IInv, TxInv', NEW r \in Fillers, FillUpdate(r)
  PROVE  IInv'
<1>1. r \in Requests /\ r \notin Creators
  BY RequestsAssumption DEF Requests
<1>2. QED
  BY <1>1, UpdateKeeps DEF FillUpdate

\* The second SELECT finds the terminal row.
LEMMA DiagnoseKeeps ==
  ASSUME IInv, TxInv', NEW r \in Requests, Diagnose(r)
  PROVE  IInv'
<1>1. pc[r] = "diagnose" /\ InFlight(r)
  BY DEF Diagnose, InFlight
<1>2. /\ orders[local[r].id].status \in {"FILLED", "CANCELED"}
      /\ local[r].id \in Creators
  BY <1>1 DEF IInv, LocalChecked, TxInv, LocalShape
<1>3. Exists(local[r].id)
  BY <1>2, StatusExists DEF Statuses
<1>4. Answer(r, "ErrOrderTerminal", NoRow)
  BY <1>2, <1>3 DEF Diagnose, Exists
<1>5. /\ "ErrOrderTerminal" \in Outcomes /\ "ErrOrderTerminal" # OK
      /\ "ErrOrderTerminal" # "ErrOrderNotFound"
      /\ "ErrOrderTerminal" # "ErrOrderUpdateConflict"
  BY DEF Outcomes, Errors, OK
<1>6. QED
  BY <1>1, <1>4, <1>5, NoRowType, Tell DEF Diagnose

\* The outbox row joins the transaction.
LEMMA InsertEventKeeps ==
  ASSUME IInv, TxInv', NEW r \in Requests, InsertEvent(r)
  PROVE  IInv'
<1>1. InFlight(r) /\ Writing(r) /\ "commit" \in Labels \ {"idle", "done"}
  BY DEF InsertEvent, InFlight, Writing, Labels
<1>2. r \in Creators /\ local[r].terms.key # NoKey => KeyOwned(r)
  BY <1>1 DEF IInv, KeysHeld
<1>3. QED
  BY <1>1, <1>2, GoOn DEF InsertEvent

\* A blank symbol and a failure are reported as what they are.
LEMMA RefusalKeeps ==
  ASSUME IInv, TxInv', NEW r \in Requests, RefuseEvent(r) \/ Fail(r)
  PROVE  IInv'
<1>1. CASE RefuseEvent(r)
  <2>1. /\ EventError(Announced(r)) \in Outcomes
        /\ EventError(Announced(r)) # OK
        /\ EventError(Announced(r)) \notin {"ErrOrderUpdateConflict", "ErrOrderNotFound"}
        /\ pc[r] # "done"
    BY <1>1, ErrorType, ErrorsPlain DEF RefuseEvent, Outcomes
  <2>2. QED
    BY <1>1, <2>1, NoRowType, Tell DEF RefuseEvent
<1>2. CASE Fail(r)
  <2>1. /\ "context canceled" \in Outcomes /\ "context canceled" # OK
        /\ "context canceled" # "ErrOrderNotFound"
        /\ "context canceled" # "ErrOrderUpdateConflict"
        /\ pc[r] # "done"
    BY <1>2 DEF Outcomes, OK, Fail, InFlight
  <2>2. QED
    BY <1>2, <2>1, NoRowType, Tell DEF Fail
<1>3. QED
  BY <1>1, <1>2

-----------------------------------------------------------------------------
(* Commits *)

\* A commit writes one row; terms are as they were and terminal rows stay.
LEMMA ApplyFacts ==
  ASSUME IInv, NEW r \in Requests, pc[r] = "commit", Apply(r)
  PROVE  /\ local[r].id \in Creators
         /\ orders'[local[r].id] = RowToWrite(r) /\ RowToWrite(r).id = local[r].id
         /\ RowToWrite(r).status = local[r].status
         /\ RowToWrite(r).terms = local[r].terms
         /\ \A p \in Creators \ {local[r].id} : orders'[p] = orders[p]
         /\ \A p \in Creators : Exists(p) =>
              Exists(p)' /\ orders'[p].terms = orders[p].terms
         /\ \A p \in Creators :
              orders[p].status \in {"FILLED", "CANCELED"} => orders'[p] = orders[p]
<1> DEFINE id == local[r].id
<1>1. /\ id \in Creators /\ orders' = [orders EXCEPT ![id] = RowToWrite(r)]
      /\ RowToWrite(r).id = id /\ RowToWrite(r).status = local[r].status
      /\ RowToWrite(r) \in Row
      /\ r \in Creators => local[r].id = r /\ ~Exists(r)
      /\ r \notin Creators => orders[id].status = "PENDING" /\ Exists(id)
  BY CommitFacts DEF IInv, Apply
<1>2. /\ orders'[id] = RowToWrite(r)
      /\ \A p \in Creators \ {id} : orders'[p] = orders[p]
  BY <1>1 DEF IInv, TxInv, TypeOK
<1>3. orders[id] \in Row /\ local[r] \in Row
  BY <1>1, ReadType DEF IInv, TxInv
<1>4. RowToWrite(r).terms = local[r].terms
  <2>1. CASE r \in Creators
    BY <1>3, <2>1, InsertType DEF RowToWrite
  <2>2. CASE r \notin Creators
    <3>1. local[r].terms = orders[id].terms
      BY <2>2 DEF IInv, LocalChecked, InFlight
    <3>2. QED
      BY <1>3, <2>2, <3>1, CancelType, ExecutionType DEF RowToWrite
  <2>3. QED
    BY <2>1, <2>2
<1>5. ASSUME NEW p \in Creators, Exists(p)
      PROVE  Exists(p)' /\ orders'[p].terms = orders[p].terms
  <2>1. Lawful(orders[p], orders'[p])
    BY <1>5, ApplyLawful DEF IInv
  <2>2. orders[p].id = p
    BY <1>5 DEF IInv, TxInv, RowShape
  <2>3. NoRow.id = "" /\ "" \notin Creators
    BY RequestsAssumption DEF NoRow, Draft, Requests
  <2>4. QED
    BY <2>1, <2>2, <2>3 DEF Lawful, Exists
<1>6. ASSUME NEW p \in Creators, orders[p].status \in {"FILLED", "CANCELED"}
      PROVE  orders'[p] = orders[p]
  <2>1. Exists(p)
    BY <1>6, StatusExists DEF Statuses
  <2>2. QED
    BY <1>1, <1>2, <1>6, <2>1
<1>7. QED
  BY <1>1, <1>2, <1>4, <1>5, <1>6

\* The row it writes is consistent.
LEMMA WrittenConsistent ==
  ASSUME IInv, NEW r \in Requests, pc[r] = "commit"
  PROVE  /\ SchemaAccepts(RowToWrite(r))
         /\ RowToWrite(r).status = "FILLED" <=> RowToWrite(r).remaining = 0
         /\ RowToWrite(r).status = "CANCELED" <=> RowToWrite(r).canceledAt = "SET"
<1> DEFINE id == local[r].id
           row == RowToWrite(r)
<1>1. /\ id \in Creators
      /\ r \in Creators => local[r].status = "PENDING"
      /\ r \notin Creators => orders[id].status = "PENDING" /\ Exists(id)
  BY CommitFacts DEF IInv
<1>2. orders[id] \in Row /\ local[r] \in Row
  BY <1>1, ReadType DEF IInv, TxInv
<1>3. LocalChecked(r) /\ InFlight(r) /\ LocalShape(r)
  BY DEF IInv, InFlight, TxInv
<1>4. /\ local[r].terms.side \in Sides
      /\ local[r].terms.price > 0 /\ local[r].terms.qty > 0
      /\ 0 <= local[r].remaining /\ local[r].remaining <= local[r].terms.qty
      /\ local[r].status \in Statuses
  BY <1>2, <1>3, ValidFacts DEF LocalChecked
<1>5. local[r].terms.qty \in Int
  BY <1>2, QtyType DEF Row
<1>6. CASE r \in Creators
  <2>1. /\ row.terms = local[r].terms /\ row.status = "PENDING"
        /\ row.remaining = local[r].terms.qty /\ row.canceledAt = "NULL"
    BY <1>1, <1>2, <1>3, <1>6 DEF RowToWrite, InsertRow, LocalChecked, Row
  <2>2. SchemaAccepts(row)
    BY <1>4, <1>5, <2>1 DEF SchemaAccepts, Statuses
  <2>3. row.remaining # 0
    BY <1>4, <1>5, <2>1
  <2>4. QED
    BY <2>1, <2>2, <2>3
<1>7. CASE r \notin Creators
  <2>1. /\ SchemaAccepts(orders[id]) /\ orders[id].status = "PENDING"
        /\ orders[id].remaining # 0 /\ orders[id].canceledAt # "SET"
    BY <1>1, <1>7 DEF IInv, StoredRowsConsistent
  <2>2. CASE r \in Cancelers
    <3>1. /\ row.terms = orders[id].terms /\ row.status = "CANCELED"
          /\ row.remaining = orders[id].remaining /\ row.canceledAt = "SET"
      BY <1>2, <1>7, <2>2 DEF RowToWrite, CancelRow, Row
    <3>2. SchemaAccepts(row)
      BY <2>1, <3>1 DEF SchemaAccepts, Statuses
    <3>3. QED
      BY <2>1, <3>1, <3>2
  <2>3. CASE r \notin Cancelers
    <3>1. r \in Fillers
      BY <1>7, <2>3 DEF Requests
    <3>2. /\ row.terms = orders[id].terms /\ row.status = local[r].status
          /\ row.remaining = local[r].remaining
          /\ row.canceledAt = orders[id].canceledAt
      BY <1>2, <1>7, <2>3 DEF RowToWrite, ExecutionRow, Row
    <3>3. /\ local[r].terms = orders[id].terms
          /\ local[r].status \in {"PENDING", "FILLED"}
          /\ local[r].status = "FILLED" <=> local[r].remaining = 0
      BY <1>3, <1>7, <3>1 DEF LocalChecked, LocalShape
    <3>4. SchemaAccepts(row)
      BY <1>4, <3>2, <3>3 DEF SchemaAccepts
    <3>5. QED
      BY <2>1, <3>2, <3>3, <3>4
  <2>4. QED
    BY <2>2, <2>3
<1>8. QED
  BY <1>6, <1>7

\* A commit keeps the tables consistent, one order per key and every promise made,
\* whether or not its own acknowledgement arrives.
LEMMA CommitKeeps ==
  ASSUME IInv, TxInv', NEW r \in Requests, pc[r] = "commit", Apply(r),
         NEW error \in {OK, "connection lost"}, NEW o \in Row, Answer(r, error, o),
         error = OK /\ r \in Creators => o = tx[r].row,
         UNCHANGED local
  PROVE  IInv'
<1> DEFINE id == local[r].id
<1>1. /\ id \in Creators
      /\ orders'[id] = RowToWrite(r) /\ orders'[id].id = id
      /\ orders'[id].status = local[r].status
      /\ orders'[id].terms = local[r].terms
      /\ \A p \in Creators \ {id} : orders'[p] = orders[p]
      /\ committed' = committed \union {r}
  BY ApplyFacts DEF Apply
<1>2. \A p \in Creators : Exists(p) => Exists(p)' /\ orders'[p].terms = orders[p].terms
  BY ApplyFacts
<1>3. \A p \in Creators :
        orders[p].status \in {"FILLED", "CANCELED"} => orders'[p] = orders[p]
  BY ApplyFacts
<1>4. /\ pc'[r] = "done" /\ reply'[r].error = error /\ reply'[r].order = o
      /\ \A q \in Requests \ {r} : pc'[q] = pc[q] /\ reply'[q] = reply[q]
  BY DEF Answer, Goto, IInv, TxInv, TypeOK
<1>5. Creators \subseteq Requests
  BY DEF Requests
<1>6. /\ r \in Creators => id = r /\ ~Exists(r)
      /\ r \notin Creators => Exists(id)
      /\ tx[r].row = RowToWrite(r)
  BY CommitFacts DEF IInv
<1>7. Exists(id)'
  <2>1. NoRow.id = "" /\ "" \notin Creators
    BY RequestsAssumption DEF NoRow, Draft, Requests
  <2>2. QED
    BY <1>1, <2>1 DEF Exists
<1>8. \A p \in Creators : Exists(p)' => Exists(p) \/ (p = id /\ r \in Creators)
  BY <1>1, <1>6 DEF Exists
<1>9. StoredRowsConsistent'
  <2>1. ASSUME NEW p \in Creators, Exists(p)'
        PROVE  /\ orders'[p].id = p
               /\ SchemaAccepts(orders'[p])
               /\ orders'[p].status = "FILLED" <=> orders'[p].remaining = 0
               /\ orders'[p].status = "CANCELED" <=> orders'[p].canceledAt = "SET"
    <3>1. CASE p = id
      BY <1>1, <3>1, WrittenConsistent
    <3>2. CASE p # id
      <4>1. orders'[p] = orders[p] /\ Exists(p)
        BY <1>1, <1>8, <2>1, <3>2
      <4>2. QED
        BY <4>1 DEF IInv, StoredRowsConsistent
    <3>3. QED
      BY <3>1, <3>2
  <2>2. \A p \in Creators : SchemaAccepts(orders'[p]) <=> SchemaAccepts(orders[p])'
    BY DEF SchemaAccepts
  <2>3. QED
    BY <2>1, <2>2 DEF StoredRowsConsistent
<1>10. ASSUME r \in Creators, local[r].terms.key # NoKey
       PROVE  \A p \in Creators \ {id} : orders'[p].terms.key # local[r].terms.key
  <2>1. Writing(r)
    BY DEF Writing
  <2>2. KeyOwned(r)
    BY <1>10, <2>1 DEF IInv, KeysHeld
  <2>3. QED
    BY <1>1, <2>2 DEF KeyOwned
<1>11. OneOrderPerKey'
  <2> SUFFICES ASSUME NEW p \in Creators, NEW q \in Creators, Exists(p)', Exists(q)',
                      p # q, orders'[p].terms.key # NoKey
               PROVE  orders'[p].terms.key # orders'[q].terms.key
    BY DEF OneOrderPerKey
  <2>1. CASE Exists(p) /\ Exists(q)
    BY <1>2, <2>1 DEF IInv, OneOrderPerKey
  <2>2. CASE p = id /\ r \in Creators
    BY <1>1, <1>10, <2>2
  <2>3. CASE q = id /\ r \in Creators
    BY <1>1, <1>10, <2>3
  <2>4. QED
    BY <1>8, <2>1, <2>2, <2>3
<1>12. KeysHeld'
  <2> SUFFICES ASSUME NEW q \in Creators, Writing(q)', local[q].terms.key # NoKey
               PROVE  KeyOwned(q)'
    BY DEF KeysHeld
  <2>1. \A p \in Creators : Writing(p)' => p # r /\ Writing(p)
    BY <1>4, <1>5 DEF Writing
  <2>2. KeyOwned(q) /\ q # r
    BY <2>1 DEF IInv, KeysHeld
  <2>3. ASSUME NEW p \in Creators
        PROVE  orders'[p].terms.key # local[q].terms.key
    <3>1. CASE p # id
      BY <1>1, <2>2, <3>1 DEF KeyOwned
    <3>2. CASE p = id /\ r \notin Creators
      BY <1>2, <1>6, <2>2, <3>2 DEF KeyOwned
    <3>3. CASE p = id /\ r \in Creators
      <4>1. Writing(r)
        BY DEF Writing
      <4>2. QED
        BY <1>1, <2>2, <3>3, <4>1 DEF KeyOwned
    <3>4. QED
      BY <3>1, <3>2, <3>3
  <2>4. \A p \in Creators \ {q} : Writing(p)' => local[p].terms.key # local[q].terms.key
    BY <2>1, <2>2 DEF KeyOwned
  <2>5. QED
    BY <2>3, <2>4 DEF KeyOwned
<1>13. ASSUME NEW q \in Requests
       PROVE  LocalChecked(q)'
  <2>1. CASE q = r
    BY <1>1, <1>4, <2>1 DEF LocalChecked, InFlight, Acknowledged
  <2>2. CASE q # r
    <3>1. LocalChecked(q) /\ pc'[q] = pc[q] /\ reply'[q] = reply[q]
      BY <1>4, <2>2 DEF IInv
    <3>2. InFlight(q) /\ q \notin Creators => local[q].terms = orders'[local[q].id].terms
      <4>1. InFlight(q) /\ q \notin Creators =>
              local[q].id \in Creators /\ Exists(local[q].id)
        BY DEF IInv, TxInv, LocalShape
      <4>2. QED
        BY <1>2, <3>1, <4>1 DEF LocalChecked
    <3>3. KeyTaken(q) => KeyTaken(q)'
      <4> SUFFICES ASSUME KeyTaken(q) PROVE KeyTaken(q)'
        OBVIOUS
      <4>1. PICK p \in Creators : orders[p].terms.key = local[q].terms.key
        BY DEF KeyTaken
      <4>2. local[q].terms.key # NoKey
        BY DEF KeyTaken
      <4>3. Exists(p)
        BY <4>1, <4>2, KeyExists
      <4>4. orders'[p].terms.key = local[q].terms.key
        BY <1>2, <4>1, <4>3
      <4>5. QED
        BY <4>2, <4>4 DEF KeyTaken
    <3>4. pc[q] = "diagnose" => orders'[local[q].id].status \in {"FILLED", "CANCELED"}
      <4>1. pc[q] = "diagnose" => local[q].id \in Creators
        BY DEF IInv, TxInv, LocalShape, InFlight
      <4>2. QED
        BY <1>3, <3>1, <4>1 DEF LocalChecked
    <3>5. QED
      BY <3>1, <3>2, <3>3, <3>4 DEF LocalChecked, InFlight, Acknowledged
  <2>3. QED
    BY <2>1, <2>2
<1>14. /\ \A q \in Requests \ {r} : Acknowledged(q)' => Acknowledged(q)
       /\ Acknowledged(r)' => error = OK
  BY <1>4 DEF Acknowledged
<1>15. TermsKept'
  <2>1. ASSUME NEW p \in Creators, Exists(p)'
        PROVE  orders'[p].terms = local'[p].terms
    <3>1. CASE Exists(p)
      BY <1>2, <3>1 DEF IInv, TermsKept
    <3>2. CASE ~Exists(p)
      BY <1>1, <1>6, <1>8, <2>1, <3>2
    <3>3. QED
      BY <3>1, <3>2
  <2>2. ASSUME NEW q \in Creators, Acknowledged(q)'
        PROVE  /\ reply'[q].order.terms = orders'[reply'[q].order.id].terms
               /\ reply'[q].order.id # q => local'[q].terms.key # NoKey
    <3>1. CASE q = r
      BY <1>1, <1>4, <1>6, <1>14, <2>2, <3>1
    <3>2. CASE q # r
      <4>1. Acknowledged(q) /\ reply'[q] = reply[q]
        BY <1>4, <1>5, <1>14, <2>2, <3>2
      <4>2. reply[q].order.id \in Creators /\ Exists(reply[q].order.id)
        BY <1>5, <4>1 DEF IInv, AcknowledgedIsDurable
      <4>3. QED
        BY <1>2, <4>1, <4>2 DEF IInv, TermsKept
    <3>3. QED
      BY <3>1, <3>2
  <2>3. QED
    BY <2>1, <2>2 DEF TermsKept
<1>16. RepliesInformed'
  <2>1. ASSUME NEW q \in Requests
        PROVE  /\ reply'[q].error # "ErrOrderUpdateConflict"
               /\ pc'[q] = "done" /\ local'[q].id # "" => reply'[q].error # "ErrOrderNotFound"
    <3>1. CASE q = r
      BY <1>4, <3>1 DEF OK
    <3>2. CASE q # r
      BY <1>4, <3>2 DEF IInv, RepliesInformed
    <3>3. QED
      BY <3>1, <3>2
  <2>2. QED
    BY <2>1 DEF RepliesInformed
<1>17. AcknowledgedIsDurable'
  <2>1. ASSUME NEW q \in Requests \ {r}, Acknowledged(q)'
        PROVE  /\ q \in committed' \/ (q \in Creators /\ reply'[q].order.id # q)
               /\ q \in Creators =>
                    /\ reply'[q].order.id \in Creators
                    /\ Exists(reply[q].order.id)'
                    /\ orders'[reply'[q].order.id].terms.key = local[q].terms.key
               /\ q \in Cancelers => orders'[local[q].id].status = "CANCELED"
               /\ q \in Fillers /\ local[q].status = "FILLED" =>
                    orders'[local[q].id].status = "FILLED"
    <3>1. reply'[q] = reply[q] /\ Acknowledged(q)
      BY <1>4, <1>14, <2>1
    <3>2. q \in committed' \/ (q \in Creators /\ reply'[q].order.id # q)
      BY <1>1, <3>1 DEF IInv, AcknowledgedIsDurable
    <3>3. q \in Creators =>
            /\ reply[q].order.id \in Creators
            /\ Exists(reply[q].order.id)
            /\ orders[reply[q].order.id].terms.key = local[q].terms.key
      BY <3>1 DEF IInv, AcknowledgedIsDurable
    <3>4. q \in Creators =>
            /\ Exists(reply[q].order.id)'
            /\ orders'[reply[q].order.id].terms.key = local[q].terms.key
      <4>1. ASSUME NEW p \in Creators, Exists(p),
                   orders[p].terms.key = local[q].terms.key, p = reply[q].order.id
            PROVE  /\ Exists(reply[q].order.id)'
                   /\ orders'[reply[q].order.id].terms.key = local[q].terms.key
        <5>1. Exists(p)' /\ orders'[p].terms = orders[p].terms
          BY <1>2, <4>1
        <5>2. QED
          BY <3>1, <4>1, <5>1 DEF Exists
      <4>2. QED
        BY <3>3, <4>1
    <3>5. /\ q \in Cancelers => orders[local[q].id].status = "CANCELED"
          /\ q \in Fillers /\ local[q].status = "FILLED" =>
               orders[local[q].id].status = "FILLED"
      BY <3>1 DEF IInv, AcknowledgedIsDurable
    <3>6. q \notin Creators => local[q].id \in Creators
      BY <3>1 DEF IInv, LocalChecked
    <3>7. /\ q \in Cancelers => orders'[local[q].id].status = "CANCELED"
          /\ q \in Fillers /\ local[q].status = "FILLED" =>
               orders'[local[q].id].status = "FILLED"
      <4>1. q \in Cancelers \/ q \in Fillers => q \notin Creators
        BY RequestsAssumption
      <4>2. QED
        BY <1>3, <3>5, <3>6, <4>1
    <3>8. QED
      BY <3>1, <3>2, <3>3, <3>4, <3>7
  <2>2. ASSUME Acknowledged(r)'
        PROVE  /\ r \in committed'
               /\ r \in Creators =>
                    /\ reply'[r].order.id \in Creators
                    /\ Exists(o.id)'
                    /\ orders'[reply'[r].order.id].terms.key = local[r].terms.key
               /\ r \in Cancelers => orders'[local[r].id].status = "CANCELED"
               /\ r \in Fillers /\ local[r].status = "FILLED" =>
                    orders'[local[r].id].status = "FILLED"
    <3>1. r \in Cancelers => local[r].status = "CANCELED"
      BY DEF IInv, TxInv, LocalShape, InFlight
    <3>2. QED
      BY <1>1, <1>4, <1>6, <1>7, <1>14, <2>2, <3>1
  <2>3. QED
    BY <1>4, <2>1, <2>2 DEF AcknowledgedIsDurable, Exists
<1>18. QED
  BY <1>9, <1>11, <1>12, <1>13, <1>15, <1>16, <1>17 DEF IInv

-----------------------------------------------------------------------------
(* The inductive invariant and what follows from it *)

\* Nobody has been told anything of an empty database.
LEMMA InvInit == Init => IInv
<1> SUFFICES ASSUME Init PROVE IInv
  OBVIOUS
<1>1. TxInv
  BY TxInvInit
<1>2. /\ \A o \in Creators : ~Exists(o)
      /\ \A r \in Requests : ~Acknowledged(r) /\ ~Writing(r) /\ pc[r] = "idle"
  BY DEF Init, Exists, Acknowledged, Writing
<1>3. Creators \subseteq Requests
  BY DEF Requests
<1>4. StoredRowsConsistent /\ OneOrderPerKey /\ KeysHeld /\ TermsKept
  BY <1>2, <1>3 DEF StoredRowsConsistent, OneOrderPerKey, KeysHeld, TermsKept
<1>5. \A r \in Requests : LocalChecked(r)
  BY <1>2 DEF Init, LocalChecked, InFlight
<1>6. RepliesInformed
  BY DEF Init, RepliesInformed, NoReply
<1>7. AcknowledgedIsDurable
  BY <1>2 DEF AcknowledgedIsDurable
<1>8. QED
  BY <1>1, <1>4, <1>5, <1>6, <1>7 DEF IInv

\* Every step of every request preserves it.
LEMMA InvStep == IInv /\ [Next]_vars => IInv'
<1> SUFFICES ASSUME IInv, [Next]_vars PROVE IInv'
  OBVIOUS
<1>1. TxInv'
  BY TxInvStep DEF IInv
<1>2. CASE UNCHANGED vars
  <2>1. StoredRowsConsistent' /\ OneOrderPerKey'
    BY <1>2 DEF vars, IInv, StoredRowsConsistent, OneOrderPerKey, Exists
  <2>2. KeysHeld'
    BY <1>2 DEF vars, IInv, KeysHeld, KeyOwned, Writing
  <2>3. \A r \in Requests : LocalChecked(r)'
    BY <1>2 DEF vars, IInv, LocalChecked, InFlight, KeyTaken, Acknowledged
  <2>4. TermsKept' /\ RepliesInformed'
    BY <1>2 DEF vars, IInv, TermsKept, RepliesInformed, Exists, Acknowledged
  <2>5. AcknowledgedIsDurable'
    BY <1>2 DEF vars, IInv, AcknowledgedIsDurable, Exists, Acknowledged
  <2>6. QED
    BY <1>1, <2>1, <2>2, <2>3, <2>4, <2>5 DEF IInv
<1>3. ASSUME NEW r \in Requests, Commit(r)
      PROVE  IInv'
  <2>1. tx[r].row \in Row /\ NoRow \in Row
    BY ReadType, NoRowType DEF IInv, TxInv
  <2>2. CASE r \in Creators
    BY <1>1, <1>3, <2>1, <2>2, CommitKeeps DEF Commit
  <2>3. CASE r \notin Creators
    BY <1>1, <1>3, <2>1, <2>3, CommitKeeps DEF Commit
  <2>4. QED
    BY <2>2, <2>3
<1>4. ASSUME NEW r \in Requests, CommitUnacknowledged(r)
      PROVE  IInv'
  <2>1. NoRow \in Row /\ "connection lost" # OK
    BY NoRowType DEF OK
  <2>2. QED
    BY <1>1, <1>4, <2>1, CommitKeeps DEF CommitUnacknowledged
<1>5. CASE Next
  <2>1. PICK r \in Requests : Step(r) \/ CommitUnacknowledged(r) \/ Fail(r)
    BY <1>5 DEF Next
  <2>2. CASE r \in Creators /\ (StartCreate(r) \/ InsertOrder(r) \/ DuplicateKey(r)
                                  \/ GetExisting(r))
    BY <1>1, <2>2, StartCreateKeeps, InsertOrderKeeps, DuplicateKeyKeeps, GetExistingKeeps
  <2>3. CASE r \in Cancelers /\ (StartCancel(r) \/ CancelUpdate(r))
    BY <1>1, <2>3, StartCancelKeeps, CancelUpdateKeeps
  <2>4. CASE r \in Fillers /\ (StartFill(r) \/ FillUpdate(r))
    BY <1>1, <2>4, StartFillKeeps, FillUpdateKeeps
  <2>5. CASE BeginTx(r) \/ Diagnose(r) \/ InsertEvent(r)
    BY <1>1, <2>5, BeginKeeps, DiagnoseKeeps, InsertEventKeeps
  <2>6. CASE RefuseEvent(r) \/ Fail(r)
    BY <1>1, <2>6, RefusalKeeps
  <2>7. CASE Commit(r) \/ CommitUnacknowledged(r)
    BY <2>7, <1>3, <1>4
  <2>8. QED
    BY <2>1, <2>2, <2>3, <2>4, <2>5, <2>6, <2>7 DEF Step
<1>6. QED
  BY <1>2, <1>5

\* The tables and the answers given keep the invariant, whatever the requests and
\* however they interleave, fail or lose their acknowledgements.
THEOREM Invariance == Spec => []IInv
<1>1. QED
  BY InvInit, InvStep, PTL DEF Spec

\* UpdateOrderExecution and CancelOrder leave every row as the schema and the
\* domain want it, whichever of them overlap.
THEOREM RowsCorrect == Spec => []StoredRowsConsistent
<1>1. IInv => StoredRowsConsistent
  BY DEF IInv
<1>2. QED
  BY <1>1, Invariance, PTL

\* The unique index: an idempotency key belongs to one order.
THEOREM KeysCorrect == Spec => []OneOrderPerKey
<1>1. IInv => OneOrderPerKey
  BY DEF IInv
<1>2. QED
  BY <1>1, Invariance, PTL

\* An answer of OK is never taken back: what it says is committed.
THEOREM AnswersDurable == Spec => []AcknowledgedIsDurable
<1>1. IInv => AcknowledgedIsDurable
  BY DEF IInv
<1>2. QED
  BY <1>1, Invariance, PTL

\* Creates acknowledged for one key were told of the one order that has it.
THEOREM RetriesAgree == Spec => []RetryGetsSameOrder
<1>1. IInv => RetryGetsSameOrder
  <2> SUFFICES ASSUME IInv, NEW q \in Creators, NEW r \in Creators,
                      Acknowledged(q), Acknowledged(r),
                      local[q].terms.key = local[r].terms.key,
                      local[q].terms.key # NoKey
               PROVE  reply[q].order.id = reply[r].order.id
    BY DEF RetryGetsSameOrder
  <2>1. ASSUME NEW p \in {q, r}
        PROVE  /\ reply[p].order.id \in Creators /\ Exists(reply[p].order.id)
               /\ orders[reply[p].order.id].terms.key = local[q].terms.key
    BY DEF IInv, AcknowledgedIsDurable, Requests
  <2>2. OneOrderPerKey
    BY DEF IInv
  <2>3. QED
    BY <2>1, <2>2 DEF OneOrderPerKey
<1>2. QED
  BY <1>1, Invariance, PTL

\* A create is told of an order with its own terms, unless its key was used for
\* others.
THEOREM TermsAnswered == Spec => []CreateGetsOwnTerms
<1>1. IInv => CreateGetsOwnTerms
  <2> SUFFICES ASSUME IInv, NEW r \in Creators, Acknowledged(r),
                      \A q \in Creators : local[q].terms.key = local[r].terms.key =>
                         local[r].terms.key = NoKey \/ local[q].terms = local[r].terms
               PROVE  reply[r].order.terms = local[r].terms
    BY DEF CreateGetsOwnTerms
  <2> DEFINE id == reply[r].order.id
  <2>1. /\ id \in Creators /\ Exists(id)
        /\ orders[id].terms.key = local[r].terms.key
    BY DEF IInv, AcknowledgedIsDurable, Requests
  <2>2. /\ reply[r].order.terms = orders[id].terms
        /\ orders[id].terms = local[id].terms
        /\ id # r => local[r].terms.key # NoKey
    BY <2>1 DEF IInv, TermsKept
  <2>3. QED
    BY <2>1, <2>2
<1>2. QED
  BY <1>1, Invariance, PTL

\* The loser of a race is told that the order is terminal: never Aborted, and never
\* NotFound of an order it has read.
THEOREM LosersTold == Spec => []LoserLearnsWhy
<1>1. IInv => LoserLearnsWhy
  BY CodeFacts DEF IInv, RepliesInformed, LoserLearnsWhy
<1>2. QED
  BY <1>1, Invariance, PTL

-----------------------------------------------------------------------------
(* OrderStore implements OrderLedger *)

\* An order as the ledger has it.
Entry(o) == [status |-> orders[o].status, key |-> orders[o].terms.key]

\* An event as the ledger has it.
Note(e) == [id |-> e.id, order |-> e.order, status |-> e.status]

\* An announcement has the id of a request that is over.
MarksSpent == \A e \in outbox : e.id \in Requests /\ pc[e.id] = "done"

\* The event of a request has its id, order and status.
LEMMA NoteOfEvent ==
  ASSUME TxInv, NEW r \in Requests, pc[r] = "commit"
  PROVE  Note(OutboxEvent(r))
           = [id |-> r, order |-> local[r].id, status |-> local[r].status]
<1>1. OutboxEvent(r).id = r
  BY DEF OutboxEvent, CreatedEvent, UpdatedEvent
<1>2. QED
  BY <1>1, EventFacts DEF Note

\* A step leaves the tables alone or commits one request.
LEMMA StepsOnTables ==
  ASSUME IInv, [Next]_vars
  PROVE  \/ /\ UNCHANGED <<orders, outbox>>
            /\ \A q \in Requests : pc[q] = "done" => pc'[q] = "done"
         \/ \E r \in Requests : /\ pc[r] = "commit" /\ Apply(r)
                                /\ pc' = [pc EXCEPT ![r] = "done"]
<1> DEFINE Quiet(r) == /\ UNCHANGED <<orders, outbox>> /\ pc[r] # "done"
                       /\ \E label \in Labels : Goto(r, label)
<1>1. CASE UNCHANGED vars
  BY <1>1 DEF vars
<1>2. CASE Next
  <2>1. PICK r \in Requests : Step(r) \/ CommitUnacknowledged(r) \/ Fail(r)
    BY <1>2 DEF Next
  <2>2. CASE Commit(r) \/ CommitUnacknowledged(r)
    BY <2>2 DEF Commit, CommitUnacknowledged, Answer, Goto
  <2>3. CASE Quiet(r)
    BY <2>3 DEF Goto, IInv, TxInv, TypeOK
  <2>4. CASE StartCreate(r) \/ StartCancel(r) \/ StartFill(r)
    <3>1. /\ UNCHANGED <<orders, outbox>> /\ pc[r] = "idle"
          /\ \E o, error : Enter(r, o, error)
      BY <2>4 DEF StartCreate, StartCancel, StartFill
    <3>2. Goto(r, "begin") \/ Goto(r, "done")
      BY <3>1 DEF Enter, Answer
    <3>3. QED
      BY <2>3, <3>1, <3>2 DEF Labels
  <2>5. CASE InsertOrder(r) \/ DuplicateKey(r) \/ GetExisting(r)
    BY <2>3, <2>5 DEF InsertOrder, DuplicateKey, GetExisting, Answer, Labels
  <2>6. CASE CancelUpdate(r) \/ FillUpdate(r)
    BY <2>3, <2>6 DEF CancelUpdate, FillUpdate, Update, Labels
  <2>7. CASE BeginTx(r) \/ Diagnose(r) \/ InsertEvent(r) \/ RefuseEvent(r) \/ Fail(r)
    BY <2>3, <2>7 DEF BeginTx, Diagnose, InsertEvent, RefuseEvent, Fail, InFlight, Answer,
                      Labels
  <2>8. QED
    BY <2>1, <2>2, <2>4, <2>5, <2>6, <2>7 DEF Step
<1>3. QED
  BY <1>1, <1>2

\* A commit spends the id of its request.
LEMMA MarksSpentStep == IInv /\ MarksSpent /\ [Next]_vars => MarksSpent'
<1> SUFFICES ASSUME IInv, MarksSpent, [Next]_vars PROVE MarksSpent'
  OBVIOUS
<1>1. CASE /\ UNCHANGED <<orders, outbox>>
           /\ \A q \in Requests : pc[q] = "done" => pc'[q] = "done"
  BY <1>1 DEF MarksSpent
<1>2. ASSUME NEW r \in Requests, pc[r] = "commit", Apply(r),
             pc' = [pc EXCEPT ![r] = "done"]
      PROVE  MarksSpent'
  <2>1. \A q \in Requests : q = r \/ pc[q] = "done" => pc'[q] = "done"
    BY <1>2 DEF IInv, TxInv, TypeOK
  <2>2. OutboxEvent(r).id = r
    BY DEF OutboxEvent, CreatedEvent, UpdatedEvent
  <2>3. \A e \in outbox' : e \in outbox \/ e = OutboxEvent(r)
    <3>1. tx[r].events \subseteq {OutboxEvent(r)}
      BY <1>2, CommitFacts DEF IInv
    <3>2. QED
      BY <1>2, <3>1 DEF Apply
  <2>4. QED
    BY <2>1, <2>2, <2>3 DEF MarksSpent
<1>3. QED
  BY <1>1, <1>2, StepsOnTables

\* The commit of a create opens its order, that of a cancel or a closing execution
\* closes it, and that of any other execution does nothing the ledger knows of.
LEMMA CommitRefines ==
  ASSUME IInv, MarksSpent, NEW r \in Requests, pc[r] = "commit", Apply(r)
  PROVE  [Ledger!Next]_Ledger!vars
<1> DEFINE id == local[r].id
           book == [o \in Creators |-> Entry(o)]
           log == {Note(e) : e \in outbox}
           note == [id |-> r, order |-> id, status |-> local[r].status]
<1>1. /\ id \in Creators
      /\ orders'[id].status = local[r].status
      /\ orders'[id].terms = local[r].terms
      /\ \A p \in Creators \ {id} : orders'[p] = orders[p]
  BY ApplyFacts
<1>2. /\ r \in Creators => id = r /\ local[r].status = "PENDING" /\ ~Exists(r)
      /\ r \notin Creators => orders[id].status = "PENDING" /\ Exists(id)
      /\ local[r].status \in Statuses
      /\ outbox' = outbox \union IF r \in Creators \/ local[r].status # "PENDING"
                                 THEN {OutboxEvent(r)} ELSE {}
  BY CommitFacts DEF IInv, Apply
<1>3. book' = [book EXCEPT ![id] = [status |-> local[r].status, key |-> local[r].terms.key]]
  BY <1>1 DEF Entry
<1>4. \A a \in log : a.id # r
  BY DEF Note, MarksSpent
<1>5. r \in Creators \/ local[r].status # "PENDING" => log' = log \union {note}
  <2>1. Note(OutboxEvent(r)) = note
    BY NoteOfEvent DEF IInv
  <2>2. ASSUME outbox' = outbox \union {OutboxEvent(r)}
        PROVE  log' = log \union {Note(OutboxEvent(r))}
    BY <2>2 DEF Note
  <2>3. QED
    BY <1>2, <2>1, <2>2
<1>6. CASE r \in Creators
  <2> DEFINE k == local[r].terms.key
  <2>1. book[r] = [status |-> "", key |-> NoKey]
    <3>1. NoRow.status = "" /\ NoRow.terms = NoTerms /\ NoTerms.key = NoKey
      BY DEF NoRow, Draft, NoTerms
    <3>2. QED
      BY <1>2, <1>6, <3>1 DEF Exists, Entry
  <2>2. k \in {t.key : t \in Terms}
    <3>1. ValidateError(local[r]) = OK /\ local[r] \in Row
      BY ReadType DEF IInv, LocalChecked, InFlight, TxInv
    <3>2. local[r].terms.side \in Sides
      BY <3>1, ValidFacts
    <3>3. NoTerms.side = "" /\ "" \notin Sides
      BY DEF NoTerms, Sides
    <3>4. local[r].terms \in Terms
      BY <3>1, <3>2, <3>3 DEF Row
    <3>5. QED
      BY <3>4
  <2>3. k # NoKey => \A p \in Creators : book[p].key # k
    BY <1>6 DEF IInv, KeysHeld, KeyOwned, Writing, Entry
  <2>4. PICK q \in {t.key : t \in Terms} : q = k
    BY <2>2
  <2>5. Ledger!Open(r, q)
    BY <2>4, <1>2, <1>3, <1>4, <1>5, <1>6, <2>1, <2>3
       DEF Ledger!Open, Ledger!Announce, Ledger!Unopened, Entry, Note
  <2>6. QED
    BY <1>6, <2>5 DEF Ledger!Next
<1>7. CASE r \notin Creators /\ local[r].status # "PENDING"
  <2>1. local[r].status \in {"FILLED", "CANCELED"}
    BY <1>2, <1>7 DEF Statuses
  <2>2. local[r].terms = orders[id].terms
    BY <1>7 DEF IInv, LocalChecked, InFlight
  <2>3. book' = [book EXCEPT ![id].status = local[r].status]
    BY <1>1, <1>3, <2>2 DEF Entry
  <2>4. book[id].status = "PENDING"
    BY <1>1, <1>2, <1>7 DEF Entry
  <2>5. PICK o \in Creators, s \in {"FILLED", "CANCELED"} : o = id /\ s = local[r].status
    BY <1>1, <2>1
  <2>6. Ledger!Close(o, s)
    BY <2>5, <1>4, <1>5, <1>7, <2>3, <2>4 DEF Ledger!Close, Ledger!Announce, Entry, Note
  <2>7. QED
    BY <2>6 DEF Ledger!Next
<1>8. CASE r \notin Creators /\ local[r].status = "PENDING"
  <2>1. outbox' = outbox
    BY <1>2, <1>8
  <2>2. local[r].terms = orders[id].terms
    BY <1>8 DEF IInv, LocalChecked, InFlight
  <2>3. \A o \in Creators : orders'[o].status = orders[o].status
                            /\ orders'[o].terms.key = orders[o].terms.key
    BY <1>1, <1>2, <1>8, <2>2
  <2>4. UNCHANGED Ledger!vars
    BY <2>1, <2>3 DEF Ledger!vars
  <2>5. QED
    BY <2>4
<1>9. QED
  BY <1>6, <1>7, <1>8

\* Every interleaving of the statements of postgres.go is a run of the ledger, in
\* which each request is one atomic step.
THEOREM LedgerRefined == Spec => RefinesLedger
<1>1. Init => Ledger!Init /\ MarksSpent
  <2> SUFFICES ASSUME Init PROVE Ledger!Init /\ MarksSpent
    OBVIOUS
  <2>1. NoRow.status = "" /\ NoRow.terms = NoTerms /\ NoTerms.key = NoKey
    BY DEF NoRow, Draft, NoTerms
  <2>2. QED
    BY <2>1 DEF Init, Ledger!Init, Ledger!Unopened, MarksSpent
<1>2. IInv /\ MarksSpent /\ [Next]_vars => [Ledger!Next]_Ledger!vars
  <2> SUFFICES ASSUME IInv, MarksSpent, [Next]_vars PROVE [Ledger!Next]_Ledger!vars
    OBVIOUS
  <2>1. CASE UNCHANGED <<orders, outbox>>
    BY <2>1 DEF Ledger!vars
  <2>2. QED
    BY <2>1, StepsOnTables, CommitRefines
<1>3. QED
  BY <1>1, <1>2, Invariance, MarksSpentStep, PTL DEF Spec, RefinesLedger, Ledger!Spec
=============================================================================
