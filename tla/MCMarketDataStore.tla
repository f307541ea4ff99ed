------------------------- MODULE MCMarketDataStore -------------------------
(* Instances of MarketDataStore for TLC. *)
EXTENDS MarketDataStore, TLC

CONSTANTS book, quotes, fills, more

Price(id, symbol, price, at) ==
  [kind |-> "price", id |-> id, symbol |-> symbol, price |-> price, at |-> at]

Trade(t, id, symbol) ==
  [kind |-> "trade", trade |-> t, id |-> id, symbol |-> symbol, price |-> 1, qty |-> 1]

Level(side, price, qty, count) ==
  [kind |-> "level", id |-> 1, symbol |-> "BTC", side |-> side, price |-> price,
   qty |-> qty, count |-> count]

Delete(side, price) ==
  [kind |-> "delete", id |-> 1, side |-> side, price |-> price]

\* A book that falls from 2/3 to 1/2: the bid at 2 goes, by an empty level, before
\* the ask at 2 comes; then the ask at 3 is deleted.
FallingBook ==
  <<Level("BID", 2, 1, 1), Level("ASK", 3, 2, 1), Level("BID", 1, 1, 1),
    Level("BID", 2, 0, 0), Level("ASK", 2, 1, 1), Delete("ASK", 3)>>

\* Two instruments; the second takes over a symbol the first has given up, and an
\* update without a time.
Quotes ==
  <<Price(1, "BTC", 1, 1), Price(2, "ETH", 2, 2), Price(1, "XBT", 3, 3),
    Price(2, "BTC", 2, NoTime), Price(1, "XBT", 2, 5)>>

\* A symbol changes hands and is traded; each message may be read again.
HandOver ==
  <<Price(1, "BTC", 1, 1), Price(1, "XBT", 2, 2), Price(2, "BTC", 3, NoTime),
    Trade("t1", 2, "BTC")>>

\* The relay upstream delivers at least once: the second trade comes twice.
Fills == <<Trade("t1", 1, "BTC"), Trade("t2", 1, "BTC"), Trade("t2", 1, "BTC")>>

MoreFills == <<Trade("t3", 2, "ETH"), Trade("t2", 1, "BTC")>>

AllLogs == [p \in {quotes, fills, more} |->
              CASE p = quotes -> Quotes [] p = fills -> Fills [] OTHER -> MoreFills]
ViewLogs == [p \in {book, quotes} |-> IF p = book THEN FallingBook ELSE HandOver]
=============================================================================
