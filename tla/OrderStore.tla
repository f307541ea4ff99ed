----------------------------- MODULE OrderStore -----------------------------
(***************************************************************************)
(* Requests to the order service running concurrently against PostgreSQL   *)
(* at READ COMMITTED (repository/postgres.go called by service.go, with    *)
(* the statements of sqlc/order.sql.go and the tables of                   *)
(* db/schema/order.sql).                                                   *)
(*                                                                         *)
(* One request is one call: a CreateOrder, a CancelOrder, or one execution *)
(* (read an order, ApplyFill, UpdateOrderExecution).  A step is one        *)
(* statement sent to the database, so requests interleave between any two  *)
(* statements.  Uncommitted writes are kept in `tx', beside the committed  *)
(* tables `orders' and `outbox'.  The id newOrderID or newEventID draws is *)
(* the request itself: random ids never collide.                           *)
(***************************************************************************)
EXTENDS OrderDomain, FiniteSetsExt

CONSTANTS
  Creators,    \* CreateOrder calls, and the ids of the orders they may insert
  Cancelers,   \* CancelOrder calls
  Fillers,     \* executions; their caller is outside src/
  Terms,       \* what CreateOrder calls may ask for
  FillSizes,   \* the quantities executions may carry
  PoolSize     \* connections of the pgxpool

Requests == Creators \union Cancelers \union Fillers

ASSUME RequestsAssumption ==
  /\ Creators \intersect Cancelers = {}
  /\ Creators \intersect Fillers = {}
  /\ Cancelers \intersect Fillers = {}
  /\ "" \notin Requests

\* The wire types: an unspecified side is mapped to "".
ASSUME TermsAssumption ==
  \A t \in Terms : t.side \in Sides \union {""} /\ t.price \in Int /\ t.qty \in Int

ASSUME LimitsAssumption ==
  /\ FillSizes \subseteq Int
  /\ PoolSize \in Nat \ {0}

VARIABLES
  orders,     \* committed orders table: id -> row, NoRow when absent
  outbox,     \* committed order_outbox table, without its delivery columns
  pc,         \* the statement each request is about to send
  local,      \* the domain.Order in the handler's memory
  taken,      \* the quantity an execution applied to its copy
  tx,         \* uncommitted effect of each open transaction
  pool,       \* requests that hold a pooled connection
  reply,      \* what the caller was told
  committed   \* history: requests whose transaction committed

vars == <<orders, outbox, pc, local, taken, tx, pool, reply, committed>>

NoTx == [row |-> NoRow, events |-> {}]
NoReply == [error |-> "no reply", order |-> NoRow]

Init ==
  /\ orders = [o \in Creators |-> NoRow]
  /\ outbox = {}
  /\ pc = [r \in Requests |-> "idle"]
  /\ local = [r \in Requests |-> NoRow]
  /\ taken = [r \in Fillers |-> 0]
  /\ tx = [r \in Requests |-> NoTx]
  /\ pool = {}
  /\ reply = [r \in Requests |-> NoReply]
  /\ committed = {}

-----------------------------------------------------------------------------
\* A statement outside a transaction borrows a connection for its duration,
\* a transaction keeps one from Begin to Commit or Rollback.
ConnectionFree == Cardinality(pool) < PoolSize

Goto(r, label) == pc' = [pc EXCEPT ![r] = label]

Answer(r, error, order) ==
  /\ Goto(r, "done")
  /\ reply' = [reply EXCEPT ![r] = [error |-> error, order |-> order]]

\* The deferred tx.Rollback; after a Commit it does nothing.
Rollback(r) ==
  /\ tx' = [tx EXCEPT ![r] = NoTx]
  /\ pool' = pool \ {r}

InFlight(r) == pc[r] \notin {"idle", "done"}

\* Validation done: keep the order in memory and open a transaction, or fail.
Enter(r, order, error) ==
  \/ /\ error = OK
     /\ Goto(r, "begin")
     /\ local' = [local EXCEPT ![r] = order]
     /\ UNCHANGED reply
  \/ /\ error # OK
     /\ Answer(r, error, NoRow)
     /\ UNCHANGED local

\* pool.Begin waits for a connection.
BeginTx(r) ==
  /\ pc[r] = "begin"
  /\ ConnectionFree
  /\ pool' = pool \union {r}
  /\ Goto(r, "write")
  /\ UNCHANGED <<orders, outbox, local, taken, tx, reply, committed>>

-----------------------------------------------------------------------------
(* CreateOrder *)

StartCreate(r) ==
  /\ pc[r] = "idle"
  /\ \E t \in Terms :
       LET draft == Draft(t)
           order == Normalize(draft, r)
       IN  Enter(r, order, IF NormalizeError(draft) # OK THEN NormalizeError(draft)
                           ELSE ValidateError(order))
  /\ UNCHANGED <<orders, outbox, taken, tx, pool, committed>>

\* Mutant: a lookup before the INSERT in place of the unique index.
KeyContendedNever(r) == FALSE

\* The unique index makes an INSERT wait for any open transaction that has
\* written a row with the same key.
KeyContended(r) ==
  /\ local[r].terms.key # NoKey
  /\ \E q \in Requests \ {r} : tx[q].row.terms.key = local[r].terms.key

\* Mutant: a missing key is stored as an empty string, not as NULL.
KeyTakenEmpty(r) ==
  \E o \in Creators :
     orders[o] # NoRow /\ orders[o].terms.key = local[r].terms.key

KeyTaken(r) ==
  /\ local[r].terms.key # NoKey
  /\ \E o \in Creators : orders[o].terms.key = local[r].terms.key

\* Mutant: a create commits without its event.
InsertOrderSilent(r) ==
  /\ pc[r] = "write"
  /\ ~KeyContended(r)
  /\ ~KeyTaken(r)
  /\ tx' = [tx EXCEPT ![r].row = InsertRow(local[r])]
  /\ Goto(r, "commit")
  /\ UNCHANGED <<orders, outbox, local, taken, pool, reply, committed>>

InsertOrder(r) ==
  /\ pc[r] = "write"
  /\ ~KeyContended(r)
  /\ ~KeyTaken(r)
  /\ tx' = [tx EXCEPT ![r].row = InsertRow(local[r])]
  /\ Goto(r, "outbox")
  /\ UNCHANGED <<orders, outbox, local, taken, pool, reply, committed>>

\* Mutant: the transaction is only rolled back when CreateOrder returns.
DuplicateKeyHoldingOn(r) ==
  /\ pc[r] = "write"
  /\ ~KeyContended(r)
  /\ KeyTaken(r)
  /\ Goto(r, "existing")
  /\ UNCHANGED <<orders, outbox, local, taken, tx, pool, reply, committed>>

\* Unique violation: give the transaction and its connection up first, then
\* look for the order that owns the key.
DuplicateKey(r) ==
  /\ pc[r] = "write"
  /\ ~KeyContended(r)
  /\ KeyTaken(r)
  /\ Rollback(r)
  /\ Goto(r, "existing")
  /\ UNCHANGED <<orders, outbox, local, taken, reply, committed>>

\* Mutant: a duplicate create echoes the order it was about to insert.
GetExistingEchoes(r) ==
  /\ pc[r] = "existing"
  /\ Answer(r, OK, local[r])
  /\ UNCHANGED <<orders, outbox, local, taken, tx, pool, committed>>

GetExisting(r) ==
  /\ pc[r] = "existing"
  /\ ConnectionFree
  /\ LET found == {o \in Creators : orders[o].terms.key = local[r].terms.key}
     IN  IF found = {} THEN Answer(r, "ErrOrderNotFound", NoRow)
         ELSE Answer(r, OK, orders[CHOOSE o \in found : TRUE])
  /\ UNCHANGED <<orders, outbox, local, taken, tx, pool, committed>>

-----------------------------------------------------------------------------
(* CancelOrder and executions *)

\* GetOrderByID, outside the transaction that will write.
Find(o) == IF orders[o] = NoRow THEN "ErrOrderNotFound" ELSE OK

StartCancel(r) ==
  /\ pc[r] = "idle"
  /\ ConnectionFree
  /\ \E o \in Creators :
       LET canceled == Cancel(orders[o]) IN
       Enter(r, canceled, IF Find(o) # OK THEN Find(o)
                          ELSE IF CancelError(orders[o]) # OK THEN CancelError(orders[o])
                          ELSE CancelOrderError(canceled))
  /\ UNCHANGED <<orders, outbox, taken, tx, pool, committed>>

\* The caller of UpdateOrderExecution: read, ApplyFill, hand the result over.
StartFill(r) ==
  /\ pc[r] = "idle"
  /\ ConnectionFree
  /\ \E o \in Creators, n \in FillSizes :
       LET filled == ApplyFill(orders[o], n)
           error  == IF Find(o) # OK THEN Find(o)
                     ELSE IF FillError(orders[o], n) # OK THEN FillError(orders[o], n)
                     ELSE ExecutionError(filled)
       IN  /\ Enter(r, filled, error)
           /\ taken' = [taken EXCEPT ![r] = IF error = OK THEN n ELSE @]
  /\ UNCHANGED <<orders, outbox, tx, pool, committed>>

\* An UPDATE waits for the row lock of any open transaction that wrote the row.
RowLocked(r) == \E q \in Requests \ {r} : tx[q].row.id = local[r].id

\* Mutants: the UPDATE without its status condition, and with the status of the
\* order in memory as the previous one.
WhereMatchesAnyStatus(r) == Find(local[r].id) = OK

WhereMatchesOwnStatus(r) == orders[local[r].id].status = local[r].status

\* WHERE order_id = $1 AND status = 'PENDING', on the committed row.
WhereMatches(r) == orders[local[r].id].status = "PENDING"

Update(r, row, next) ==
  /\ pc[r] = "write"
  /\ ~RowLocked(r)
  /\ \/ /\ WhereMatches(r)
        /\ tx' = [tx EXCEPT ![r].row = row]
        /\ Goto(r, next)
     \/ /\ ~WhereMatches(r)
        /\ Goto(r, "diagnose")
        /\ UNCHANGED tx
  /\ UNCHANGED <<orders, outbox, local, taken, pool, reply, committed>>

CancelUpdate(r) == Update(r, CancelRow(orders[local[r].id]), "outbox")

\* Mutant: executions never announce.
FillUpdateSilent(r) ==
  Update(r, ExecutionRow(orders[local[r].id], local[r]), "commit")

\* Only an execution that fills the order announces it.
FillUpdate(r) ==
  Update(r, ExecutionRow(orders[local[r].id], local[r]),
         IF local[r].status = "FILLED" THEN "outbox" ELSE "commit")

\* Mutant: nobody looks at the number of updated rows.
DiagnoseNothing(r) ==
  /\ pc[r] = "diagnose"
  /\ Rollback(r)
  /\ Answer(r, OK, NoRow)
  /\ UNCHANGED <<orders, outbox, local, taken, committed>>

\* No row was updated: a second SELECT in the same transaction says why.
Diagnose(r) ==
  /\ pc[r] = "diagnose"
  /\ Rollback(r)
  /\ LET row == orders[local[r].id] IN
     Answer(r, IF row = NoRow THEN "ErrOrderNotFound"
               ELSE IF row.status # "PENDING" THEN "ErrOrderTerminal"
               ELSE "ErrOrderUpdateConflict", NoRow)
  /\ UNCHANGED <<orders, outbox, local, taken, committed>>

-----------------------------------------------------------------------------
(* Outbox insert, commit and failure, common to all three *)

\* A create announces the row RETURNING gave back; an update announces the
\* order it was called with, read before the transaction began.
Announced(r) == IF r \in Creators THEN tx[r].row ELSE local[r]

OutboxEvent(r) ==
  IF r \in Creators THEN CreatedEvent(r, Announced(r))
                    ELSE UpdatedEvent(r, Announced(r))

\* Mutant: the outbox row is written outside the transaction.
InsertEventOutside(r) ==
  /\ pc[r] = "outbox"
  /\ EventError(Announced(r)) = OK
  /\ outbox' = outbox \union {OutboxEvent(r)}
  /\ Goto(r, "commit")
  /\ UNCHANGED <<orders, local, taken, tx, pool, reply, committed>>

InsertEvent(r) ==
  /\ pc[r] = "outbox"
  /\ EventError(Announced(r)) = OK
  /\ tx' = [tx EXCEPT ![r].events = {OutboxEvent(r)}]
  /\ Goto(r, "commit")
  /\ UNCHANGED <<orders, outbox, local, taken, pool, reply, committed>>

RefuseEvent(r) ==
  /\ pc[r] = "outbox"
  /\ EventError(Announced(r)) # OK
  /\ Rollback(r)
  /\ Answer(r, EventError(Announced(r)), NoRow)
  /\ UNCHANGED <<orders, outbox, local, taken, committed>>

\* The database applies the transaction.
Apply(r) ==
  /\ orders' = [orders EXCEPT ![tx[r].row.id] = tx[r].row]
  /\ outbox' = outbox \union tx[r].events
  /\ committed' = committed \union {r}

Commit(r) ==
  /\ pc[r] = "commit"
  /\ Apply(r)
  /\ Rollback(r)
  /\ Answer(r, OK, IF r \in Creators THEN tx[r].row ELSE NoRow)
  /\ UNCHANGED <<local, taken>>

\* The transaction commits but its acknowledgement is lost: Commit returns an
\* error for work that is done.
CommitUnacknowledged(r) ==
  /\ pc[r] = "commit"
  /\ Apply(r)
  /\ Rollback(r)
  /\ Answer(r, "connection lost", NoRow)
  /\ UNCHANGED <<local, taken>>

\* Any call may fail instead: the context is canceled, the connection breaks,
\* the server or the database restarts.  What was not committed is gone.
Fail(r) ==
  /\ InFlight(r)
  /\ Rollback(r)
  /\ Answer(r, "context canceled", NoRow)
  /\ UNCHANGED <<orders, outbox, local, taken, committed>>

Step(r) ==
  \/ /\ r \in Creators
     /\ \/ StartCreate(r)
        \/ InsertOrder(r)
        \/ DuplicateKey(r)
        \/ GetExisting(r)
  \/ r \in Cancelers /\ (StartCancel(r) \/ CancelUpdate(r))
  \/ r \in Fillers /\ (StartFill(r) \/ FillUpdate(r))
  \/ BeginTx(r)
  \/ Diagnose(r)
  \/ InsertEvent(r)
  \/ RefuseEvent(r)
  \/ Commit(r)

Next == \E r \in Requests : Step(r) \/ CommitUnacknowledged(r) \/ Fail(r)

Spec == Init /\ [][Next]_vars

\* A handler whose call can return runs on: goroutines are scheduled, and the
\* pool and the row locks serve their waiters in order.
FairSpec == Spec /\ \A r \in Requests : WF_vars(InFlight(r) /\ Step(r))

-----------------------------------------------------------------------------
(* Properties *)

Row == [id : Creators \union {""}, terms : Terms \union {NoTerms},
        remaining : Int, status : Statuses \union {""},
        canceledAt : {"NULL", "SET"}]

Event == [id : Requests, type : {"orders.created", "orders.updated"},
          order : Creators \union {""}, key : {t.symbol : t \in Terms \union {NoTerms}},
          previous : {"", "PENDING"}, status : Statuses \union {""}, remaining : Int]

\* What a caller is told.
Outcomes == Errors \union {OK, "no reply", "blank symbol", "connection lost",
                           "context canceled"}

Labels == {"idle", "begin", "write", "existing", "diagnose", "outbox", "commit",
           "done"}

\* The type invariant.
TypeOK ==
  /\ orders \in [Creators -> Row]
  /\ outbox \subseteq Event
  /\ pc \in [Requests -> Labels]
  /\ local \in [Requests -> Row]
  /\ taken \in [Fillers -> Int]
  /\ tx \in [Requests -> [row : Row, events : SUBSET Event]]
  /\ pool \subseteq Requests
  /\ reply \in [Requests -> [error : Outcomes, order : Row]]
  /\ committed \subseteq Requests

Exists(o) == orders[o] # NoRow

EventsOf(o, type) == {e \in outbox : e.order = o /\ e.type = type}

\* Whatever cancels and executions overlap, a committed row satisfies the
\* table's CHECK constraints, is FILLED exactly when nothing remains and has
\* canceled_at exactly when CANCELED (UpdateOrderExecution and CancelOrder).
StoredRowsConsistent ==
  \A o \in Creators : Exists(o) =>
     /\ orders[o].id = o
     /\ SchemaAccepts(orders[o])
     /\ orders[o].status = "FILLED" <=> orders[o].remaining = 0
     /\ orders[o].status = "CANCELED" <=> orders[o].canceledAt = "SET"

AnnouncedOnce(o, type, status) ==
  \E e \in outbox : e.status = status /\ EventsOf(o, type) = {e}

\* The transactional outbox: every stored order has exactly one orders.created
\* event, every terminal one exactly one orders.updated event, with its status,
\* and no event speaks of an order or of a change that is not stored.
OutboxMatchesOrders ==
  /\ \A e \in outbox : e.order \in Creators /\ Exists(e.order)
  /\ \A o \in Creators : Exists(o) =>
       /\ AnnouncedOnce(o, "orders.created", "PENDING")
       /\ IF orders[o].status = "PENDING"
          THEN EventsOf(o, "orders.updated") = {}
          ELSE AnnouncedOnce(o, "orders.updated", orders[o].status)

\* Retried creates do not create duplicate orders: an idempotency key belongs
\* to one order, even while several creates carrying it are under way.
OneOrderPerKey ==
  \A o, p \in Creators :
     /\ Exists(o) /\ Exists(p) /\ o # p
     => orders[o].terms.key = NoKey \/ orders[o].terms.key # orders[p].terms.key

Acknowledged(r) == pc[r] = "done" /\ reply[r].error = OK

\* Creates acknowledged for the same key name the same order, whoever won the
\* race on the unique index.
RetryGetsSameOrder ==
  \A q, r \in Creators :
     /\ Acknowledged(q) /\ Acknowledged(r)
     /\ local[q].terms.key = local[r].terms.key /\ local[q].terms.key # NoKey
     => reply[q].order.id = reply[r].order.id

\* An acknowledged create is told of an order with the terms it asked for, as
\* long as nobody uses its idempotency key for other terms: GetExisting compares
\* the key and nothing else.
CreateGetsOwnTerms ==
  \A r \in Creators :
     /\ Acknowledged(r)
     /\ \A q \in Creators : local[q].terms.key = local[r].terms.key =>
          local[r].terms.key = NoKey \/ local[q].terms = local[r].terms
     => reply[r].order.terms = local[r].terms

\* What a caller was told happened is in the tables: an acknowledged create
\* names a stored order with the caller's key, an acknowledged cancel an order
\* that is CANCELED, an acknowledged closing execution one that is FILLED; and
\* only a create that found its key taken is acknowledged without a commit.
AcknowledgedIsDurable ==
  \A r \in Requests : Acknowledged(r) =>
     /\ r \in committed \/ (r \in Creators /\ reply[r].order.id # r)
     /\ r \in Creators =>
          /\ reply[r].order.id \in Creators
          /\ Exists(reply[r].order.id)
          /\ orders[reply[r].order.id].terms.key = local[r].terms.key
     /\ r \in Cancelers => orders[local[r].id].status = "CANCELED"
     /\ r \in Fillers /\ local[r].status = "FILLED" =>
          orders[local[r].id].status = "FILLED"

\* A request that read PENDING and lost its UPDATE to another one is told the
\* order is terminal: gRPC's Aborted (ErrOrderUpdateConflict) and, from the
\* diagnosing SELECT, NotFound are never the answer.
LoserLearnsWhy ==
  \A r \in Requests :
     /\ GrpcCode(reply[r].error) # "Aborted"
     /\ pc[r] = "done" /\ local[r].id # "" => GrpcCode(reply[r].error) # "NotFound"

FillsOf(o) == {f \in Fillers \intersect committed : local[f].id = o}

\* Each execution that committed worked on a remaining quantity of its own: none
\* read what another one was about to change.
NoLostUpdate(o) ==
  \A f, g \in FillsOf(o) :
     f # g => local[f].remaining + taken[f] # local[g].remaining + taken[g]

\* The sum of t over a set.
Total(t, S) == MapThenSumSet(LAMBDA f : t[f], S)

\* UpdateOrderExecution writes the remaining quantity its caller computed, and its
\* WHERE clause does not compare the one it read.  A quantity is filled twice or
\* lost only when two executions read the same remaining quantity: otherwise what
\* remains is the quantity less what was committed, even when cancels run in
\* between and commits go unacknowledged.
FillsConserved ==
  \A o \in Creators : Exists(o) /\ NoLostUpdate(o) =>
     orders[o].remaining = orders[o].terms.qty - Total(taken, FillsOf(o))

\* CancelOrder announces the remaining quantity it read before its transaction,
\* so an execution committed in between makes it stale.  Without lost updates it
\* errs on one side only: an event never reports less than what remains, and a
\* FILLED one reports exactly zero.
AnnouncedRemainingNotLow ==
  \A e \in outbox : NoLostUpdate(e.order) =>
     /\ orders[e.order].remaining <= e.remaining
     /\ e.status = "FILLED" => e.remaining = 0

\* A step never changes what an order is, never moves a terminal row and moves
\* a status only as CanTransition allows; nothing is ever deleted.
Lawful(old, new) ==
  /\ new.id = old.id /\ new.terms = old.terms
  /\ new = old \/ old.status = "PENDING"
  /\ new.status = old.status \/ CanTransition(old.status, new.status)

LifecycleRespected ==
  [][\A o \in Creators : Exists(o) => Lawful(orders[o], orders'[o])]_vars

\* Every request that was accepted is answered: a request never waits for a
\* connection or a row lock held by one that waits for it.
RequestsAnswered == \A r \in Requests : InFlight(r) ~> pc[r] = "done"

\* A transaction that has written its row and is not over.
Writing(r) == pc[r] \in {"outbox", "commit"}

\* A stored row has its own id and a status; an order is stored only once its
\* create is through.
RowShape ==
  \A o \in Creators :
     /\ Exists(o) => orders[o].id = o /\ orders[o].status \in Statuses
     /\ pc[o] # "done" => ~Exists(o)

\* The order in memory is the request's own: drawn by a create, read before by
\* the others, and in the status the domain method left it.
LocalShape(r) ==
  InFlight(r) =>
     /\ local[r].id \in Creators
     /\ r \in Creators => local[r].id = r /\ local[r].status = "PENDING"
     /\ r \notin Creators => Exists(local[r].id)
     /\ r \in Cancelers => local[r].status = "CANCELED"
     /\ r \in Fillers => local[r].status \in {"PENDING", "FILLED"}

\* The row a request writes: its statement applied to the committed row.
RowToWrite(r) ==
  IF r \in Creators THEN InsertRow(local[r])
  ELSE IF r \in Cancelers THEN CancelRow(orders[local[r].id])
  ELSE ExecutionRow(orders[local[r].id], local[r])

\* What an open transaction is about to do to the tables; until it commits, the
\* row it updates is still PENDING.
TxShape(r) ==
  /\ ~Writing(r) => tx[r] = NoTx
  /\ Writing(r) => tx[r].row = RowToWrite(r)
  /\ Writing(r) /\ r \notin Creators => orders[local[r].id].status = "PENDING"
  /\ pc[r] = "outbox" => /\ tx[r].events = {}
                         /\ r \notin Creators => local[r].status # "PENDING"
  /\ pc[r] = "commit" =>
       tx[r].events = IF r \in Creators \/ local[r].status # "PENDING"
                      THEN {OutboxEvent(r)} ELSE {}

\* Row locks: two transactions never have the same order in hand.
LocksExclusive ==
  \A q, r \in Requests :
     Writing(q) /\ Writing(r) /\ local[q].id = local[r].id => q = r

\* The outbox matches the orders because each open transaction holds exactly the
\* row and the event that belong together, on a row nobody else can change.
TxInv ==
  /\ TypeOK
  /\ RowShape
  /\ \A r \in Requests : LocalShape(r) /\ TxShape(r)
  /\ LocksExclusive
  /\ OutboxMatchesOrders

\* A create that has inserted its row has its key to itself.
KeyOwned(r) ==
  /\ \A o \in Creators : orders[o].terms.key # local[r].terms.key
  /\ \A q \in Creators \ {r} : Writing(q) => local[q].terms.key # local[r].terms.key

KeysHeld ==
  \A r \in Creators : Writing(r) /\ local[r].terms.key # NoKey => KeyOwned(r)

\* The order in memory has passed its checks and has the terms of the stored one;
\* who looks for the cause of a conflict will find it.
LocalChecked(r) ==
  /\ pc[r] = "idle" => local[r] = NoRow
  /\ InFlight(r) =>
       /\ ValidateError(local[r]) = OK
       /\ r \in Creators => local[r].canceledAt = "NULL"
       /\ r \notin Creators => local[r].terms = orders[local[r].id].terms
       /\ r \in Fillers => (local[r].status = "FILLED" <=> local[r].remaining = 0)
  /\ Acknowledged(r) /\ r \notin Creators => local[r].id \in Creators
  /\ pc[r] = "existing" => r \in Creators /\ KeyTaken(r)
  /\ pc[r] = "diagnose" => orders[local[r].id].status \in {"FILLED", "CANCELED"}

\* An order has the terms of the create that inserted it, and whoever is told of
\* another create's order asked with a key.
TermsKept ==
  /\ \A o \in Creators : Exists(o) => orders[o].terms = local[o].terms
  /\ \A r \in Creators : Acknowledged(r) =>
       /\ reply[r].order.terms = orders[reply[r].order.id].terms
       /\ reply[r].order.id # r => local[r].terms.key # NoKey

\* What no caller is told.
RepliesInformed ==
  \A r \in Requests :
     /\ reply[r].error # "ErrOrderUpdateConflict"
     /\ pc[r] = "done" /\ local[r].id # "" => reply[r].error # "ErrOrderNotFound"

\* The inductive invariant.
IInv ==
  /\ TxInv
  /\ StoredRowsConsistent
  /\ OneOrderPerKey
  /\ KeysHeld
  /\ \A r \in Requests : LocalChecked(r)
  /\ TermsKept
  /\ RepliesInformed
  /\ AcknowledgedIsDurable

\* The tables, seen through the ledger: requests are atomic.
Ledger == INSTANCE OrderLedger WITH
            Ids <- Creators,
            Keys <- {t.key : t \in Terms},
            Marks <- Requests,
            book <- [o \in Creators |-> [status |-> orders[o].status,
                                         key |-> orders[o].terms.key]],
            log <- {[id |-> e.id, order |-> e.order, status |-> e.status]
                      : e \in outbox}

\* Every step of the service is one atomic step of the ledger or changes
\* nothing in it: no interleaving of the statements shows.
RefinesLedger == Ledger!Spec
=============================================================================
