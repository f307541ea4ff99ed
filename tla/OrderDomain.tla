---------------------------- MODULE OrderDomain ----------------------------
(***************************************************************************)
(* The pure part of the order service: the domain object, its validation,  *)
(* the rows it becomes and the outbox events built from it                 *)
(* (internal/order-service/domain, service, repository and events).        *)
(*                                                                         *)
(* Go's (value, error) results are a record with an `error' field, OK when *)
(* there is none.  A symbol is "" (missing), " " (whitespace only) or a    *)
(* name; prices and quantities are small integers, timestamps are left out *)
(* except for whether canceled_at is NULL.                                *)
(***************************************************************************)
EXTENDS Integers

OK == "ok"

\* domain/order.go's error values, those a handler can meet.
Errors == {"ErrOrderNotFound", "ErrMissingSymbol", "ErrInvalidOrderSide",
           "ErrInvalidPriceCents", "ErrInvalidQuantityUnits",
           "ErrInvalidRemainingQuantityUnits", "ErrRemainingQuantityExceedsQuantity",
           "ErrMissingOrderID", "ErrMissingOrderStatus", "ErrInvalidOrderStatus",
           "ErrCanceledOrderOnCreate", "ErrOrderTerminal", "ErrOrderUpdateConflict",
           "ErrInvalidFillQuantity", "ErrFillQuantityExceedsRemaining"}

Sides == {"BUY", "SELL"}
Statuses == {"PENDING", "FILLED", "CANCELED"}
NoKey == ""

\* CanTransition: the only way out of PENDING is into a terminal status.
CanTransition(from, to) == from = "PENDING" /\ to \in {"FILLED", "CANCELED"}

\* What a client chooses, and no statement changes later.
NoTerms == [symbol |-> "", side |-> "", price |-> 0, qty |-> 0, key |-> NoKey]

\* mapCreateOrderRequestToDomain: the request's terms and zero values elsewhere.
Draft(terms) == [id |-> "", terms |-> terms, remaining |-> 0, status |-> "",
                 canceledAt |-> "NULL"]

\* The row of an order id nobody inserted: a SELECT of it finds no rows.
NoRow == Draft(NoTerms)

\* normalizeCreateOrder's verdict, in the order of its early returns.
NormalizeError(o) ==
  IF o.terms.symbol = "" THEN "ErrMissingSymbol"
  ELSE IF o.terms.side \notin Sides THEN "ErrInvalidOrderSide"
  ELSE IF o.terms.price <= 0 THEN "ErrInvalidPriceCents"
  ELSE IF o.terms.qty <= 0 THEN "ErrInvalidQuantityUnits"
  ELSE IF o.status \notin {"", "PENDING"} THEN "ErrInvalidOrderStatus"
  ELSE IF o.canceledAt # "NULL" THEN "ErrCanceledOrderOnCreate"
  ELSE IF o.remaining < 0 THEN "ErrInvalidRemainingQuantityUnits"
  ELSE IF o.remaining > o.terms.qty THEN "ErrRemainingQuantityExceedsQuantity"
  ELSE OK

\* The order it returns when there is no error; `fresh' is newOrderID's value.
Normalize(o, fresh) ==
  [o EXCEPT !.id = IF @ = "" THEN fresh ELSE @,
            !.status = "PENDING",
            !.remaining = IF @ = 0 THEN o.terms.qty ELSE @]

\* validateOrder, run again by every repository write.
ValidateError(o) ==
  IF o.terms.symbol = "" THEN "ErrMissingSymbol"
  ELSE IF o.terms.side \notin Sides THEN "ErrInvalidOrderSide"
  ELSE IF o.terms.price <= 0 THEN "ErrInvalidPriceCents"
  ELSE IF o.terms.qty <= 0 THEN "ErrInvalidQuantityUnits"
  ELSE IF o.remaining < 0 THEN "ErrInvalidRemainingQuantityUnits"
  ELSE IF o.remaining > o.terms.qty THEN "ErrRemainingQuantityExceedsQuantity"
  ELSE IF o.id = "" THEN "ErrMissingOrderID"
  ELSE IF o.status = "" THEN "ErrMissingOrderStatus"
  ELSE IF o.status \notin Statuses THEN "ErrInvalidOrderStatus"
  ELSE OK

\* (*Order).ApplyFill: its error and, when there is none, the order it leaves.
FillError(o, n) ==
  IF o.status # "PENDING" THEN "ErrOrderTerminal"
  ELSE IF n <= 0 THEN "ErrInvalidFillQuantity"
  ELSE IF n > o.remaining THEN "ErrFillQuantityExceedsRemaining"
  ELSE OK

ApplyFill(o, n) ==
  [o EXCEPT !.remaining = @ - n,
            !.status = IF o.remaining = n THEN "FILLED" ELSE @]

\* (*Order).Cancel: likewise.  canceled_at is set by the database, not here.
CancelError(o) == IF o.status # "PENDING" THEN "ErrOrderTerminal" ELSE OK

\* Mutant: a canceled order has nothing remaining.
CancelDropsRemaining(o) == [o EXCEPT !.status = "CANCELED", !.remaining = 0]

Cancel(o) == [o EXCEPT !.status = "CANCELED"]

\* The checks of UpdateOrderExecution before it opens its transaction.
ExecutionError(o) ==
  IF ValidateError(o) # OK THEN ValidateError(o)
  ELSE IF o.status \notin {"PENDING", "FILLED"} THEN "ErrInvalidOrderStatus"
  ELSE IF (o.status = "FILLED") # (o.remaining = 0)
       THEN "ErrInvalidRemainingQuantityUnits"
  ELSE OK

\* The checks of repository.CancelOrder that look at the order it was given.
CancelOrderError(o) ==
  IF ValidateError(o) # OK THEN ValidateError(o)
  ELSE IF o.status # "CANCELED" THEN "ErrInvalidOrderStatus"
  ELSE OK

\* The three statements that write orders.  The INSERT stores quantity_units
\* as remaining_quantity_units too.
InsertRow(o) == [o EXCEPT !.remaining = o.terms.qty]

\* Mutant: the SET list forgets remaining_quantity_units.
ExecutionRowStatusOnly(row, o) == [row EXCEPT !.status = o.status]

ExecutionRow(row, o) ==
  [row EXCEPT !.remaining = o.remaining, !.status = o.status]

\* Mutants: canceled_at forgotten, and a status the domain does not know.
CancelRowUndated(row) == [row EXCEPT !.status = "CANCELED"]

CancelRowMisspelt(row) == [row EXCEPT !.status = "CANCELLED", !.canceledAt = "SET"]

CancelRow(row) == [row EXCEPT !.status = "CANCELED", !.canceledAt = "SET"]

\* The CHECK constraints of the orders table.
SchemaAccepts(row) ==
  /\ row.terms.side \in Sides
  /\ row.terms.price > 0
  /\ row.terms.qty > 0
  /\ 0 <= row.remaining /\ row.remaining <= row.terms.qty
  /\ row.status \in Statuses

\* NewOrderCreatedOutboxMessage and NewOrderUpdatedOutboxMessage refuse a symbol
\* that is empty once trimmed; the validation above lets whitespace through.
EventError(o) == IF o.terms.symbol \in {"", " "} THEN "blank symbol" ELSE OK

CreatedEvent(eid, o) ==
  [id |-> eid, type |-> "orders.created", order |-> o.id, key |-> o.terms.symbol,
   previous |-> "", status |-> o.status, remaining |-> o.remaining]

UpdatedEvent(eid, o) ==
  [id |-> eid, type |-> "orders.updated", order |-> o.id, key |-> o.terms.symbol,
   previous |-> "PENDING", status |-> o.status, remaining |-> o.remaining]

\* mapOrderError: the gRPC status of a handler's error.
GrpcCode(error) ==
  CASE error = OK -> "OK"
    [] error = "ErrOrderNotFound" -> "NotFound"
    [] error = "ErrOrderTerminal" -> "FailedPrecondition"
    [] error = "ErrOrderUpdateConflict" -> "Aborted"
    [] error \in {"ErrMissingOrderID", "ErrMissingSymbol", "ErrInvalidOrderSide",
                  "ErrInvalidPriceCents", "ErrInvalidQuantityUnits",
                  "ErrInvalidRemainingQuantityUnits",
                  "ErrRemainingQuantityExceedsQuantity",
                  "ErrMissingOrderStatus", "ErrInvalidOrderStatus",
                  "ErrCanceledOrderOnCreate", "ErrInvalidOrder"} -> "InvalidArgument"
    [] OTHER -> "Internal"
=============================================================================
