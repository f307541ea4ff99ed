-------------------------- MODULE MarketDataStore --------------------------
(***************************************************************************)
(* The market data tables (db/schema/market_data.sql) and the statements   *)
(* on them (sqlc/market_data.sql.go), driven as ROADMAP.md, Phases 3 and 6 *)
(* say they are going to be: by Kafka consumers that read a partition in   *)
(* order, run one statement per message, "commit offsets only after        *)
(* successful processing" and, restarted, begin again at their last        *)
(* committed offset.  The consumers and the client that reads an order     *)
(* book have no code yet and are external; the statements are the code.    *)
(*                                                                         *)
(* A message carries the parameters of its statement.  A statement is      *)
(* atomic; one that violates a constraint has no effect, and its consumer  *)
(* does not get past the message.                                          *)
(***************************************************************************)
EXTENDS Integers, Sequences, FiniteSets

CONSTANTS
  Partitions,   \* partitions with messages for this service
  Log,          \* what is in each partition: a sequence of messages
  Ids,          \* symbol_id values
  Symbols,      \* symbol values
  Prices,       \* price_cents values
  Wanted,       \* the symbol whose order book the client reads
  Depth,        \* the depth it asks for
  NoTime,       \* a NULL updated_at parameter
  Now,          \* NOW(); two of its values are never compared
  NoAnswer,     \* a query that has not been sent
  MaxFaults     \* bound on restarts and lost answers

Sides == {"BID", "ASK"}

\* The key of market_order_book_levels.
Slots == [id : Ids, side : Sides, price : Prices]

NoPrice == [symbol |-> "", price |-> 0, at |-> NoTime]
NoLevel == [symbol |-> "", qty |-> 0, count |-> 0]

\* The wire types of the statements' parameters.
Typed(m) ==
  /\ m.kind \in {"price", "trade", "level", "delete"}
  /\ m.kind = "price" => /\ m.id \in Ids /\ m.symbol \in Symbols /\ m.price \in Int
                         /\ m.at \in Int \union {NoTime}
  /\ m.kind = "trade" => m.price \in Int /\ m.qty \in Int
  /\ m.kind = "level" => /\ m.id \in Ids /\ m.symbol \in Symbols /\ m.price \in Prices
                         /\ m.qty \in Int /\ m.count \in Int

ASSUME LogAssumption ==
  /\ DOMAIN Log = Partitions
  /\ \A p \in Partitions :
       /\ Len(Log[p]) \in Nat
       /\ DOMAIN Log[p] = 1..Len(Log[p])
       /\ \A i \in 1..Len(Log[p]) : Typed(Log[p][i])

ASSUME ParametersAssumption ==
  /\ Prices \subseteq Int
  /\ "" \notin Symbols
  /\ Now \in Int

ASSUME BoundsAssumption ==
  /\ Depth \in Nat
  /\ MaxFaults \in Nat

VARIABLES
  prices,     \* market_latest_prices: symbol_id -> row, NoPrice when absent
  trades,     \* market_trades, in the order of insertion
  levels,     \* market_order_book_levels: key -> row, NoLevel when absent
  position,   \* messages of a partition its consumer is through with
  offset,     \* the offset it has committed
  reached,    \* history: messages whose statement has run at least once
  faults,     \* faults so far
  bids,       \* what the client's GetOrderBookBids returned, NoAnswer before
  asks,       \* what its GetOrderBookAsks returned after that
  disturbed   \* history: the book was replayed or changed while it was read

vars == <<prices, trades, levels, position, offset, reached, faults, bids, asks,
          disturbed>>

tables == <<prices, trades, levels>>
client == <<bids, asks, disturbed>>

Init ==
  /\ prices = [i \in Ids |-> NoPrice]
  /\ trades = <<>>
  /\ levels = [k \in Slots |-> NoLevel]
  /\ position = [p \in Partitions |-> 0]
  /\ offset = [p \in Partitions |-> 0]
  /\ reached = [p \in Partitions |-> 0]
  /\ faults = 0
  /\ bids = NoAnswer
  /\ asks = NoAnswer
  /\ disturbed = FALSE

-----------------------------------------------------------------------------
(* The statements *)

\* Mutant: a NULL updated_at is stored as it is.
UpdatedAtGiven(m) == m.at

\* COALESCE($4, NOW()).
UpdatedAt(m) == IF m.at = NoTime THEN Now ELSE m.at

\* Mutant: the SET list forgets the price.
PriceRowAtOnly(m) ==
  [symbol |-> m.symbol, at |-> UpdatedAt(m),
   price |-> IF prices[m.id] = NoPrice THEN m.price ELSE prices[m.id].price]

PriceRow(m) == [symbol |-> m.symbol, price |-> m.price, at |-> UpdatedAt(m)]

\* Mutant: symbol is not unique.
SymbolFreeAlways(m) == TRUE

\* UNIQUE (symbol): the conflict target of the upsert is symbol_id alone.
SymbolFree(m) == \A i \in Ids \ {m.id} : prices[i].symbol # m.symbol

UpsertLatestPrice(m) ==
  /\ m.price > 0
  /\ SymbolFree(m)
  /\ prices' = [prices EXCEPT ![m.id] = PriceRow(m)]
  /\ UNCHANGED <<trades, levels>>

\* Mutant: trade_id is not a key of the table.
TradeStoredNever(t) == FALSE

TradeStored(t) == \E i \in DOMAIN trades : trades[i].trade = t

\* There is no ON CONFLICT: a second insert of a trade is an error.
InsertTrade(m) ==
  /\ ~TradeStored(m.trade)
  /\ m.price > 0 /\ m.qty > 0
  /\ trades' = Append(trades, m)
  /\ UNCHANGED <<prices, levels>>

Slot(m) == [id |-> m.id, side |-> m.side, price |-> m.price]

\* Mutant: quantities are added up, as if messages were increments.
LevelRowAdded(m) ==
  [symbol |-> m.symbol, qty |-> levels[Slot(m)].qty + m.qty, count |-> m.count]

LevelRow(m) == [symbol |-> m.symbol, qty |-> m.qty, count |-> m.count]

\* Mutant: CHECK (quantity_units > 0), as for trades.
LevelAcceptedNotEmpty(m) ==
  m.side \in Sides /\ m.price > 0 /\ m.qty > 0 /\ m.count >= 0

LevelAccepted(m) == m.side \in Sides /\ m.price > 0 /\ m.qty >= 0 /\ m.count >= 0

UpsertOrderBookLevel(m) ==
  /\ LevelAccepted(m)
  /\ levels' = [levels EXCEPT ![Slot(m)] = LevelRow(m)]
  /\ UNCHANGED <<prices, trades>>

\* Deleting what is not there is no error.
DeleteOrderBookLevel(m) ==
  /\ levels' = [k \in Slots |-> IF k = Slot(m) THEN NoLevel ELSE levels[k]]
  /\ UNCHANGED <<prices, trades>>

Statement(m) ==
  \/ m.kind = "price" /\ UpsertLatestPrice(m)
  \/ m.kind = "trade" /\ InsertTrade(m)
  \/ m.kind = "level" /\ UpsertOrderBookLevel(m)
  \/ m.kind = "delete" /\ DeleteOrderBookLevel(m)

-----------------------------------------------------------------------------
(* The consumers *)

Larger(a, b) == IF a < b THEN b ELSE a

Replaying(p) == position[p] < reached[p]

\* The statement of the next message, with or without the consumer learning of it.
Execute(p) ==
  /\ position[p] < Len(Log[p])
  /\ Statement(Log[p][position[p] + 1])
  /\ reached' = [reached EXCEPT ![p] = Larger(@, position[p] + 1)]
  /\ disturbed' = (disturbed \/ bids # NoAnswer)
  /\ UNCHANGED <<offset, bids, asks>>

Process(p) ==
  /\ Execute(p)
  /\ position' = [position EXCEPT ![p] = @ + 1]
  /\ UNCHANGED faults

\* The answer to the statement is lost: the consumer will send it again.
ProcessUnacknowledged(p) ==
  /\ faults < MaxFaults
  /\ faults' = faults + 1
  /\ Execute(p)
  /\ UNCHANGED position

CommitOffset(p) ==
  /\ offset[p] # position[p]
  /\ offset' = [offset EXCEPT ![p] = position[p]]
  /\ UNCHANGED <<tables, position, reached, faults, client>>

\* A crash or a rebalance: the partition is read again from the committed offset.
Restart(p) ==
  /\ offset[p] # position[p]
  /\ faults < MaxFaults
  /\ faults' = faults + 1
  /\ position' = [position EXCEPT ![p] = offset[p]]
  /\ UNCHANGED <<tables, offset, reached, client>>

-----------------------------------------------------------------------------
(* The client: an order book takes two queries *)

\* Mutant: the filters on quantity_units and order_count are forgotten.
ListedWithEmpty(symbol, side) ==
  {k \in Slots : k.side = side /\ levels[k].symbol = symbol}

\* The WHERE clause of the two queries.
Listed(symbol, side) ==
  {k \in Slots : /\ k.side = side
                 /\ levels[k].symbol = symbol
                 /\ levels[k].qty > 0 /\ levels[k].count > 0}

Better(side, a, b) == IF side = "BID" THEN a.price > b.price ELSE a.price < b.price

\* ORDER BY price_cents LIMIT depth: the i-th row has i - 1 better ones.
BestFirst(rows, side) ==
  LET rank(k) == Cardinality({j \in rows : Better(side, j, k)}) + 1
      n == IF Cardinality(rows) < Depth THEN Cardinality(rows) ELSE Depth
  IN  [i \in 1..n |-> (CHOOSE k \in rows : rank(k) = i).price]

GetOrderBookBids(symbol) ==
  /\ bids = NoAnswer
  /\ bids' = BestFirst(Listed(symbol, "BID"), "BID")
  /\ disturbed' = \E p \in Partitions : Replaying(p)
  /\ UNCHANGED <<tables, position, offset, reached, faults, asks>>

GetOrderBookAsks(symbol) ==
  /\ bids # NoAnswer
  /\ asks = NoAnswer
  /\ asks' = BestFirst(Listed(symbol, "ASK"), "ASK")
  /\ UNCHANGED <<tables, position, offset, reached, faults, bids, disturbed>>

Next ==
  \/ \E p \in Partitions : \/ Process(p)
                           \/ ProcessUnacknowledged(p)
                           \/ CommitOffset(p)
                           \/ Restart(p)
  \/ GetOrderBookBids(Wanted)
  \/ GetOrderBookAsks(Wanted)

Spec == Init /\ [][Next]_vars

\* A consumer whose statement can succeed goes on.
FairSpec ==
  Spec /\ \A p \in Partitions : WF_vars(Process(p)) /\ WF_vars(CommitOffset(p))
-----------------------------------------------------------------------------
(* Properties *)

OfKind(kind) ==
  UNION {{m \in {Log[p][i] : i \in 1..Len(Log[p])} : m.kind = kind} : p \in Partitions}

\* The type invariant.
TypeOK ==
  /\ prices \in [Ids -> {NoPrice} \union [symbol : Symbols, price : Int, at : Int]]
  /\ levels \in [Slots -> {NoLevel} \union [symbol : Symbols, qty : Int, count : Int]]
  /\ trades \in Seq(OfKind("trade"))
  /\ offset \in [Partitions -> Nat]
  /\ position \in [Partitions -> Nat]
  /\ reached \in [Partitions -> Nat]
  /\ \A p \in Partitions : /\ offset[p] <= position[p]
                           /\ position[p] <= reached[p]
                           /\ reached[p] <= Len(Log[p])
  /\ faults \in 0..MaxFaults
  /\ disturbed \in BOOLEAN

Last(W) == CHOOSE i \in W : \A j \in W : j <= i

\* Where the first n messages of a partition write a level, or a price.
LevelWrites(p, k, n) ==
  {i \in 1..n : Log[p][i].kind \in {"level", "delete"} /\ Slot(Log[p][i]) = k}

PriceWrites(p, id, n) ==
  {i \in 1..n : Log[p][i].kind = "price" /\ Log[p][i].id = id}

\* The rows those messages leave when applied in order, once each.
LevelAfter(p, k, n) ==
  LET W == LevelWrites(p, k, n)
      m == Log[p][Last(W)]
  IN  IF W = {} \/ m.kind = "delete" THEN NoLevel
      ELSE [symbol |-> m.symbol, qty |-> m.qty, count |-> m.count]

PriceAfter(p, id, n) ==
  LET W == PriceWrites(p, id, n)
      m == Log[p][Last(W)]
  IN  IF W = {} THEN NoPrice
      ELSE [symbol |-> m.symbol, price |-> m.price, at |-> UpdatedAt(m)]

\* Whatever is delivered again, a level is never older than what its consumer
\* is at, and is exactly what the log says when nothing is being replayed:
\* UpsertOrderBookLevel and DeleteOrderBookLevel are absolute.  Provided all
\* messages about the level are in one partition.
BookFromLog ==
  \A p \in Partitions, k \in Slots :
     (\A q \in Partitions \ {p} : LevelWrites(q, k, Len(Log[q])) = {}) =>
       \E n \in position[p]..reached[p] : levels[k] = LevelAfter(p, k, n)

\* Likewise the row of an instrument in market_latest_prices.
PriceFromLog ==
  \A p \in Partitions, id \in Ids :
     (\A q \in Partitions \ {p} : PriceWrites(q, id, Len(Log[q])) = {}) =>
       \E n \in position[p]..reached[p] : prices[id] = PriceAfter(p, id, n)

\* UNIQUE (symbol).
SymbolsUnique ==
  \A i, j \in Ids :
     prices[i] # NoPrice /\ prices[j].symbol = prices[i].symbol => i = j

\* GetLatestPrice: the rows its WHERE clause matches.
LatestPrices(symbol) == {prices[i] : i \in {j \in Ids : prices[j].symbol = symbol}}

\* GetLatestPrice answers a symbol with one row, never older than what the
\* consumer is at: that of the instrument that has the symbol, whatever other
\* instruments had it before and whatever is delivered again.  The order of the
\* log decides, not updated_at, which no statement compares.
LatestPriceFromLog ==
  \A p \in Partitions, id \in Ids :
     (\A q \in Partitions \ {p} : PriceWrites(q, id, Len(Log[q])) = {}) =>
       \E n \in position[p]..reached[p] :
         LET row == PriceAfter(p, id, n) IN
         IF row = NoPrice THEN prices[id] = NoPrice
         ELSE LatestPrices(row.symbol) = {row}

\* ROADMAP.md: "Duplicate trade events do not create duplicate rows", nor does a
\* replay lose one: the rows are the trades whose message was reached, once each.
TradesFromLog ==
  /\ \A i, j \in DOMAIN trades : trades[i].trade = trades[j].trade => i = j
  /\ \A m \in OfKind("trade") :
       (\E i \in DOMAIN trades : trades[i] = m) <=>
       (\E p \in Partitions : \E i \in 1..reached[p] : Log[p][i] = m)

\* The inductive invariant.
IInv ==
  /\ TypeOK
  /\ BookFromLog
  /\ PriceFromLog
  /\ SymbolsUnique
  /\ TradesFromLog

\* The producer's books are not crossed: after any message the best bid is below
\* the best ask.
LogUncrossed ==
  \A p \in Partitions : \A n \in 0..Len(Log[p]), b, a \in Slots :
     LET bid == LevelAfter(p, b, n)
         ask == LevelAfter(p, a, n)
     IN  /\ b.side = "BID" /\ bid.qty > 0 /\ bid.count > 0
         /\ a.side = "ASK" /\ ask.qty > 0 /\ ask.count > 0
         /\ bid.symbol = ask.symbol
         => b.price < a.price

\* The levels some message gives to a symbol.
SlotsOf(symbol) ==
  {k \in Slots : \E p \in Partitions : \E i \in LevelWrites(p, k, Len(Log[p])) :
                   Log[p][i].kind = "level" /\ Log[p][i].symbol = symbol}

\* All that is said about the levels of the wanted symbol is in one partition.
BookTogether ==
  \E p \in Partitions : \A q \in Partitions \ {p}, k \in SlotsOf(Wanted) :
    LevelWrites(q, k, Len(Log[q])) = {}

\* A client that reads bids and then asks, in two queries without a transaction,
\* sees a crossed book only if the book changed between them or was being
\* replayed.  Provided the symbol's levels come from one partition: two consumers
\* that have not come equally far show a book the producer never had.
CrossedOnlyIfDisturbed ==
  /\ BookTogether /\ LogUncrossed
  /\ asks # NoAnswer /\ ~disturbed
  /\ bids # <<>> /\ asks # <<>>
  => bids[1] < asks[1]

\* The consumer is at the end of its partition, and the tables say what the log says.
UpToDate(p) ==
  LET n == Len(Log[p]) IN
  /\ offset[p] = n
  /\ \A k \in Slots : LevelWrites(p, k, n) # {} => levels[k] = LevelAfter(p, k, n)
  /\ \A id \in Ids : PriceWrites(p, id, n) # {} => prices[id] = PriceAfter(p, id, n)

\* The consumer is at a message the tables refuse: a trade that is already there, or a
\* price read again whose symbol another instrument has taken since.
Stuck(p) ==
  /\ position[p] < Len(Log[p])
  /\ LET m == Log[p][position[p] + 1] IN
     \/ m.kind = "trade" /\ TradeStored(m.trade)
     \/ m.kind = "price" /\ Replaying(p) /\ ~SymbolFree(m)

\* With the faults behind them, each consumer reaches the end of its partition, and
\* the tables say what the log says and go on saying it; or it comes to a message that
\* is refused for ever.  It stops for nothing else: not for an empty level, a level
\* deleted twice, a symbol handed over in order, or any other message read again.
ViewConverges == \A p \in Partitions : <>[]UpToDate(p) \/ <>[]Stuck(p)
=============================================================================
