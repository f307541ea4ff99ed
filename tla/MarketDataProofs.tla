-------------------------- MODULE MarketDataProofs --------------------------
(***************************************************************************)
(* Proofs about MarketDataStore, for every number of partitions, whatever  *)
(* messages they hold, and every number of restarts and lost answers.      *)
(***************************************************************************)
EXTENDS MarketDataStore, SequenceTheorems, FiniteSetTheorems, TLAPS

\* The message a consumer is at.
Message(p) == Log[p][position[p] + 1]

-----------------------------------------------------------------------------
(* What one more message does to what a log says *)

LEMMA LastIsLargest ==
  ASSUME NEW n \in Nat, NEW W \in SUBSET (1..n + 1), n + 1 \in W
  PROVE  Last(W) = n + 1
<1>1. \A j \in W : j <= n + 1
  OBVIOUS
<1>2. \A i \in W : (\A j \in W : j <= i) => i = n + 1
  BY <1>1
<1>3. QED
  BY <1>1, <1>2 DEF Last

\* A message that does not write the level leaves what the log says of it.
LEMMA LevelUntouched ==
  ASSUME NEW p \in Partitions, NEW k \in Slots, NEW n \in Nat,
         n + 1 \notin LevelWrites(p, k, n + 1)
  PROVE  LevelAfter(p, k, n + 1) = LevelAfter(p, k, n)
<1>1. LevelWrites(p, k, n + 1) = LevelWrites(p, k, n)
  <2>1. 1..n + 1 = (1..n) \union {n + 1}
    OBVIOUS
  <2>2. QED
    BY <2>1 DEF LevelWrites
<1>2. QED
  BY <1>1 DEF LevelAfter

\* One that writes it has the last word.
LEMMA LevelWritten ==
  ASSUME NEW p \in Partitions, NEW k \in Slots, NEW n \in Nat,
         n + 1 \in LevelWrites(p, k, n + 1)
  PROVE  LevelAfter(p, k, n + 1) =
           IF Log[p][n + 1].kind = "delete" THEN NoLevel ELSE LevelRow(Log[p][n + 1])
<1>1. LevelWrites(p, k, n + 1) \in SUBSET (1..n + 1)
  BY DEF LevelWrites
<1>2. Last(LevelWrites(p, k, n + 1)) = n + 1
  BY <1>1, LastIsLargest
<1>3. QED
  BY <1>2 DEF LevelAfter, LevelRow

LEMMA PriceUntouched ==
  ASSUME NEW p \in Partitions, NEW id \in Ids, NEW n \in Nat,
         n + 1 \notin PriceWrites(p, id, n + 1)
  PROVE  PriceAfter(p, id, n + 1) = PriceAfter(p, id, n)
<1>1. PriceWrites(p, id, n + 1) = PriceWrites(p, id, n)
  <2>1. 1..n + 1 = (1..n) \union {n + 1}
    OBVIOUS
  <2>2. QED
    BY <2>1 DEF PriceWrites
<1>2. QED
  BY <1>1 DEF PriceAfter

LEMMA PriceWritten ==
  ASSUME NEW p \in Partitions, NEW id \in Ids, NEW n \in Nat,
         n + 1 \in PriceWrites(p, id, n + 1)
  PROVE  PriceAfter(p, id, n + 1) = PriceRow(Log[p][n + 1])
<1>1. PriceWrites(p, id, n + 1) \in SUBSET (1..n + 1)
  BY DEF PriceWrites
<1>2. Last(PriceWrites(p, id, n + 1)) = n + 1
  BY <1>1, LastIsLargest
<1>3. QED
  BY <1>2 DEF PriceAfter, PriceRow

-----------------------------------------------------------------------------
(* What executing a statement does *)

\* Where a consumer and its partition stand when it executes a message.
LEMMA ExecutePlace ==
  ASSUME TypeOK, NEW p \in Partitions, Execute(p)
  PROVE  /\ position[p] \in Nat /\ reached[p] \in Nat /\ Len(Log[p]) \in Nat
         /\ position[p] + 1 \in 1..Len(Log[p])
         /\ Typed(Message(p))
         /\ reached' \in [Partitions -> Nat]
         /\ \A q \in Partitions \ {p} : reached'[q] = reached[q]
         /\ reached'[p] = IF position[p] = reached[p] THEN reached[p] + 1 ELSE reached[p]
         /\ position[p] + 1 <= reached'[p] /\ reached'[p] <= Len(Log[p])
<1>1. /\ position[p] \in Nat /\ reached[p] \in Nat /\ Len(Log[p]) \in Nat
      /\ position[p] < Len(Log[p]) /\ position[p] <= reached[p] /\ reached[p] <= Len(Log[p])
  BY LogAssumption DEF TypeOK, Execute
<1>2. position[p] + 1 \in 1..Len(Log[p])
  BY <1>1
<1>3. Typed(Message(p))
  BY <1>2, LogAssumption DEF Message
<1>4. Larger(reached[p], position[p] + 1) =
        IF position[p] = reached[p] THEN reached[p] + 1 ELSE reached[p]
  BY <1>1 DEF Larger
<1>5. reached' = [reached EXCEPT ![p] = Larger(reached[p], position[p] + 1)]
  BY DEF Execute
<1>6. /\ reached' \in [Partitions -> Nat]
      /\ \A q \in Partitions \ {p} : reached'[q] = reached[q]
      /\ reached'[p] = Larger(reached[p], position[p] + 1)
  BY <1>1, <1>4, <1>5 DEF TypeOK
<1>7. QED
  BY <1>1, <1>2, <1>3, <1>4, <1>6

\* The positions a statement may leave: its own consumer's at or behind the
\* message, the others' where they were.
Moved(p) ==
  /\ position' \in [Partitions -> Nat]
  /\ position'[p] <= position[p] + 1
  /\ \A q \in Partitions \ {p} : position'[q] = position[q]

LEMMA ExecuteBook ==
  ASSUME TypeOK, BookFromLog, NEW p \in Partitions, Execute(p), Moved(p)
  PROVE  BookFromLog'
<1> DEFINE n == position[p]
           m == Message(p)
<1>1. SUFFICES ASSUME NEW q \in Partitions, NEW k \in Slots,
                      \A r \in Partitions \ {q} : LevelWrites(r, k, Len(Log[r])) = {}
               PROVE  \E x \in position'[q]..reached'[q] : levels'[k] = LevelAfter(q, k, x)
  BY DEF BookFromLog
<1>2. PICK x \in position[q]..reached[q] : levels[k] = LevelAfter(q, k, x)
  BY <1>1 DEF BookFromLog
<1>3. /\ n \in Nat /\ reached[p] \in Nat /\ n + 1 \in 1..Len(Log[p]) /\ Typed(m)
      /\ n + 1 <= reached'[p] /\ reached[p] <= reached'[p]
      /\ \A r \in Partitions \ {p} : reached'[r] = reached[r]
      /\ reached'[p] \in Nat /\ position'[p] \in Nat /\ position'[p] <= n + 1
  BY ExecutePlace DEF Moved
<1>4. levels' = IF m.kind = "level" THEN [levels EXCEPT ![Slot(m)] = LevelRow(m)]
                ELSE IF m.kind = "delete"
                THEN [j \in Slots |-> IF j = Slot(m) THEN NoLevel ELSE levels[j]]
                ELSE levels
  BY DEF Execute, Statement, Message, UpsertLatestPrice, InsertTrade,
         UpsertOrderBookLevel, DeleteOrderBookLevel
<1>5. levels \in [Slots -> {NoLevel} \union [symbol : Symbols, qty : Int, count : Int]]
  BY DEF TypeOK
<1>6. CASE m.kind \in {"level", "delete"} /\ Slot(m) = k
  <2>1. n + 1 \in LevelWrites(p, k, n + 1) /\ n + 1 \in LevelWrites(p, k, Len(Log[p]))
    BY <1>3, <1>6 DEF LevelWrites, Message
  <2>2. q = p
    BY <1>1, <2>1
  <2>3. levels'[k] = IF m.kind = "delete" THEN NoLevel ELSE LevelRow(m)
    BY <1>4, <1>5, <1>6
  <2>4. levels'[k] = LevelAfter(p, k, n + 1)
    BY <1>3, <2>1, <2>3, LevelWritten DEF Message
  <2>5. n + 1 \in position'[p]..reached'[p]
    BY <1>3
  <2>6. QED
    BY <2>2, <2>4, <2>5
<1>7. CASE ~(m.kind \in {"level", "delete"} /\ Slot(m) = k)
  <2>1. levels'[k] = levels[k]
    BY <1>4, <1>5, <1>7
  <2>2. CASE q # p
    BY <1>2, <2>1, <2>2, <1>3 DEF Moved
  <2>3. CASE q = p /\ x = n
    <3>1. n + 1 \notin LevelWrites(p, k, n + 1)
      BY <1>7 DEF LevelWrites, Message
    <3>2. levels'[k] = LevelAfter(p, k, n + 1)
      BY <1>2, <1>3, <2>1, <2>3, <3>1, LevelUntouched
    <3>3. n + 1 \in position'[p]..reached'[p]
      BY <1>3
    <3>4. QED
      BY <2>3, <3>2, <3>3
  <2>4. CASE q = p /\ x # n
    <3>1. x \in position'[p]..reached'[p]
      BY <1>2, <1>3, <2>4
    <3>2. QED
      BY <1>2, <2>1, <2>4, <3>1
  <2>5. QED
    BY <2>2, <2>3, <2>4
<1>8. QED
  BY <1>6, <1>7

LEMMA ExecutePrice ==
  ASSUME TypeOK, PriceFromLog, NEW p \in Partitions, Execute(p), Moved(p)
  PROVE  PriceFromLog'
<1> DEFINE n == position[p]
           m == Message(p)
<1>1. SUFFICES ASSUME NEW q \in Partitions, NEW id \in Ids,
                      \A r \in Partitions \ {q} : PriceWrites(r, id, Len(Log[r])) = {}
               PROVE  \E x \in position'[q]..reached'[q] : prices'[id] = PriceAfter(q, id, x)
  BY DEF PriceFromLog
<1>2. PICK x \in position[q]..reached[q] : prices[id] = PriceAfter(q, id, x)
  BY <1>1 DEF PriceFromLog
<1>3. /\ n \in Nat /\ reached[p] \in Nat /\ n + 1 \in 1..Len(Log[p]) /\ Typed(m)
      /\ n + 1 <= reached'[p] /\ reached[p] <= reached'[p]
      /\ \A r \in Partitions \ {p} : reached'[r] = reached[r]
      /\ reached'[p] \in Nat /\ position'[p] \in Nat /\ position'[p] <= n + 1
  BY ExecutePlace DEF Moved
<1>4. prices' = IF m.kind = "price" THEN [prices EXCEPT ![m.id] = PriceRow(m)] ELSE prices
  BY DEF Execute, Statement, Message, UpsertLatestPrice, InsertTrade,
         UpsertOrderBookLevel, DeleteOrderBookLevel
<1>5. prices \in [Ids -> {NoPrice} \union [symbol : Symbols, price : Int, at : Int]]
  BY DEF TypeOK
<1>6. CASE m.kind = "price" /\ m.id = id
  <2>1. n + 1 \in PriceWrites(p, id, n + 1) /\ n + 1 \in PriceWrites(p, id, Len(Log[p]))
    BY <1>3, <1>6 DEF PriceWrites, Message
  <2>2. q = p
    BY <1>1, <2>1
  <2>3. prices'[id] = PriceRow(m)
    BY <1>4, <1>5, <1>6
  <2>4. prices'[id] = PriceAfter(p, id, n + 1)
    BY <1>3, <2>1, <2>3, PriceWritten DEF Message
  <2>5. n + 1 \in position'[p]..reached'[p]
    BY <1>3
  <2>6. QED
    BY <2>2, <2>4, <2>5
<1>7. CASE ~(m.kind = "price" /\ m.id = id)
  <2>1. prices'[id] = prices[id]
    BY <1>4, <1>5, <1>7
  <2>2. CASE q # p
    BY <1>2, <2>1, <2>2, <1>3 DEF Moved
  <2>3. CASE q = p /\ x = n
    <3>1. n + 1 \notin PriceWrites(p, id, n + 1)
      BY <1>7 DEF PriceWrites, Message
    <3>2. prices'[id] = PriceAfter(p, id, n + 1)
      BY <1>2, <1>3, <2>1, <2>3, <3>1, PriceUntouched
    <3>3. n + 1 \in position'[p]..reached'[p]
      BY <1>3
    <3>4. QED
      BY <2>3, <3>2, <3>3
  <2>4. CASE q = p /\ x # n
    <3>1. x \in position'[p]..reached'[p]
      BY <1>2, <1>3, <2>4
    <3>2. QED
      BY <1>2, <2>1, <2>4, <3>1
  <2>5. QED
    BY <2>2, <2>3, <2>4
<1>8. QED
  BY <1>6, <1>7

\* A symbol that is free is taken by one instrument.
LEMMA ExecuteSymbols ==
  ASSUME TypeOK, SymbolsUnique, NEW p \in Partitions, Execute(p)
  PROVE  SymbolsUnique'
<1> DEFINE m == Message(p)
<1>1. CASE m.kind = "price"
  <2>1. SymbolFree(m) /\ prices' = [prices EXCEPT ![m.id] = PriceRow(m)]
    BY <1>1 DEF Execute, Statement, Message, UpsertLatestPrice
  <2>2. m.id \in Ids /\ m.symbol \in Symbols
    BY <1>1, ExecutePlace DEF Typed
  <2>3. PriceRow(m).symbol = m.symbol /\ NoPrice.symbol = ""
    BY DEF PriceRow, NoPrice
  <2>4. SUFFICES ASSUME NEW i \in Ids, NEW j \in Ids, prices'[i] # NoPrice,
                        prices'[j].symbol = prices'[i].symbol
                 PROVE  i = j
    BY DEF SymbolsUnique
  <2>5. /\ prices'[i] = IF i = m.id THEN PriceRow(m) ELSE prices[i]
        /\ prices'[j] = IF j = m.id THEN PriceRow(m) ELSE prices[j]
    BY <2>1, <2>2 DEF TypeOK
  <2>6. QED
    BY <2>1, <2>2, <2>3, <2>4, <2>5 DEF SymbolFree, SymbolsUnique
<1>2. CASE m.kind # "price"
  <2>1. prices' = prices
    BY <1>2 DEF Execute, Statement, Message, InsertTrade, UpsertOrderBookLevel,
                DeleteOrderBookLevel
  <2>2. QED
    BY <2>1 DEF SymbolsUnique
<1>3. QED
  BY <1>1, <1>2

\* A trade is inserted when it is first reached and refused ever after.
LEMMA ExecuteTrades ==
  ASSUME TypeOK, TradesFromLog, NEW p \in Partitions, Execute(p)
  PROVE  TradesFromLog'
<1> DEFINE n == position[p]
           m == Message(p)
<1>1. /\ n \in Nat /\ reached[p] \in Nat /\ n + 1 \in 1..Len(Log[p]) /\ Typed(m)
      /\ \A q \in Partitions \ {p} : reached'[q] = reached[q]
      /\ reached'[p] = IF n = reached[p] THEN reached[p] + 1 ELSE reached[p]
      /\ n <= reached[p]
  BY ExecutePlace DEF TypeOK
<1>2. Log[p][n + 1] = m
  BY DEF Message
<1>3. CASE m.kind = "trade"
  <2>1. ~TradeStored(m.trade) /\ trades' = Append(trades, m)
    BY <1>3 DEF Execute, Statement, Message, InsertTrade
  <2>2. m \in OfKind("trade")
    BY <1>1, <1>2, <1>3 DEF OfKind
  <2>3. trades \in Seq(OfKind("trade"))
    BY DEF TypeOK
  <2>4. /\ Len(trades) \in Nat /\ DOMAIN trades = 1..Len(trades)
        /\ DOMAIN trades' = 1..Len(trades) + 1
        /\ trades'[Len(trades) + 1] = m
        /\ \A i \in 1..Len(trades) : trades'[i] = trades[i]
    <3>1. /\ Len(trades') = Len(trades) + 1 /\ trades' \in Seq(OfKind("trade"))
          /\ trades'[Len(trades) + 1] = m
          /\ \A i \in 1..Len(trades) : trades'[i] = trades[i]
      BY <2>1, <2>2, <2>3, AppendProperties
    <3>2. Len(trades) \in Nat /\ DOMAIN trades = 1..Len(trades)
      BY <2>3, LenProperties
    <3>3. DOMAIN trades' = 1..Len(trades')
      BY <3>1, LenProperties
    <3>4. QED
      BY <3>1, <3>2, <3>3
  <2>5. \A i \in 1..Len(trades) : trades[i].trade # m.trade
    BY <2>1, <2>4 DEF TradeStored
  <2>6. n = reached[p]
    <3>1. SUFFICES ASSUME n # reached[p] PROVE FALSE
      OBVIOUS
    <3>2. n + 1 \in 1..reached[p]
      BY <1>1, <3>1
    <3>3. \E i \in DOMAIN trades : trades[i] = m
      BY <1>2, <2>2, <3>2 DEF TradesFromLog
    <3>4. QED
      BY <2>4, <2>5, <3>3
  <2>7. \A i, j \in DOMAIN trades' : trades'[i].trade = trades'[j].trade => i = j
    <3>1. \A i, j \in 1..Len(trades) : trades[i].trade = trades[j].trade => i = j
      BY <2>4 DEF TradesFromLog
    <3>2. SUFFICES ASSUME NEW i \in 1..Len(trades) + 1, NEW j \in 1..Len(trades) + 1,
                          trades'[i].trade = trades'[j].trade
                   PROVE  i = j
      BY <2>4
    <3>3. CASE i \in 1..Len(trades) /\ j \in 1..Len(trades)
      BY <2>4, <3>1, <3>2, <3>3
    <3>4. CASE i = Len(trades) + 1 \/ j = Len(trades) + 1
      <4>1. i \in 1..Len(trades) \/ i = Len(trades) + 1
        BY <2>4
      <4>2. j \in 1..Len(trades) \/ j = Len(trades) + 1
        BY <2>4
      <4>3. QED
        BY <2>4, <2>5, <3>2, <3>4, <4>1, <4>2
    <3>5. QED
      BY <2>4, <3>3, <3>4
  <2>8. ASSUME NEW t \in OfKind("trade")
        PROVE  (\E i \in DOMAIN trades' : trades'[i] = t) <=>
               (\E q \in Partitions : \E i \in 1..reached'[q] : Log[q][i] = t)
    <3>1. (\E i \in DOMAIN trades' : trades'[i] = t) <=>
          (t = m \/ \E i \in DOMAIN trades : trades[i] = t)
      <4>1. 1..Len(trades) + 1 = (1..Len(trades)) \union {Len(trades) + 1}
        BY <2>4
      <4>2. QED
        BY <2>4, <4>1
    <3>2. (\E q \in Partitions : \E i \in 1..reached'[q] : Log[q][i] = t) <=>
          (t = m \/ \E q \in Partitions : \E i \in 1..reached[q] : Log[q][i] = t)
      <4>1. 1..reached'[p] = (1..reached[p]) \union {n + 1}
        BY <1>1, <2>6
      <4>2. QED
        BY <1>1, <1>2, <4>1
    <3>3. QED
      BY <3>1, <3>2 DEF TradesFromLog
  <2>9. QED
    BY <2>7, <2>8 DEF TradesFromLog, OfKind
<1>4. CASE m.kind # "trade"
  <2>1. trades' = trades
    BY <1>4 DEF Execute, Statement, Message, UpsertLatestPrice, UpsertOrderBookLevel,
                DeleteOrderBookLevel
  <2>2. ASSUME NEW t \in OfKind("trade")
        PROVE  (\E q \in Partitions : \E i \in 1..reached'[q] : Log[q][i] = t) <=>
               (\E q \in Partitions : \E i \in 1..reached[q] : Log[q][i] = t)
    <3>1. t # m
      BY <1>4 DEF OfKind
    <3>2. \/ 1..reached'[p] = 1..reached[p]
          \/ 1..reached'[p] = (1..reached[p]) \union {n + 1}
      BY <1>1
    <3>3. QED
      BY <1>1, <1>2, <3>1, <3>2
  <2>3. QED
    BY <2>1, <2>2 DEF TradesFromLog, OfKind
<1>5. QED
  BY <1>3, <1>4

\* What the CHECK constraints and the parameters' types leave in the tables.
LEMMA ExecuteTypes ==
  ASSUME TypeOK, NEW p \in Partitions, Execute(p)
  PROVE  /\ prices' \in [Ids -> {NoPrice} \union [symbol : Symbols, price : Int, at : Int]]
         /\ levels' \in
              [Slots -> {NoLevel} \union [symbol : Symbols, qty : Int, count : Int]]
         /\ trades' \in Seq(OfKind("trade"))
         /\ disturbed' \in BOOLEAN
<1> DEFINE m == Message(p)
<1>1. Typed(m) /\ position[p] + 1 \in 1..Len(Log[p])
  BY ExecutePlace
<1>2. disturbed' \in BOOLEAN
  BY DEF Execute
<1>3. CASE m.kind = "price"
  <2>1. /\ prices' = [prices EXCEPT ![m.id] = PriceRow(m)]
        /\ trades' = trades /\ levels' = levels
    BY <1>3 DEF Execute, Statement, Message, UpsertLatestPrice
  <2>2. PriceRow(m) \in [symbol : Symbols, price : Int, at : Int]
    BY <1>1, <1>3, ParametersAssumption DEF Typed, PriceRow, UpdatedAt
  <2>3. QED
    BY <1>2, <2>1, <2>2 DEF TypeOK
<1>4. CASE m.kind = "trade"
  <2>1. prices' = prices /\ levels' = levels /\ trades' = Append(trades, m)
    BY <1>4 DEF Execute, Statement, Message, InsertTrade
  <2>2. m \in OfKind("trade")
    BY <1>1, <1>4 DEF OfKind, Message
  <2>3. QED
    BY <1>2, <2>1, <2>2, AppendProperties DEF TypeOK
<1>5. CASE m.kind = "level"
  <2>1. /\ levels' = [levels EXCEPT ![Slot(m)] = LevelRow(m)]
        /\ trades' = trades /\ prices' = prices
    BY <1>5 DEF Execute, Statement, Message, UpsertOrderBookLevel
  <2>2. LevelRow(m) \in [symbol : Symbols, qty : Int, count : Int]
    BY <1>1, <1>5 DEF Typed, LevelRow
  <2>3. QED
    BY <1>2, <2>1, <2>2 DEF TypeOK
<1>6. CASE m.kind = "delete"
  <2>1. /\ levels' = [k \in Slots |-> IF k = Slot(m) THEN NoLevel ELSE levels[k]]
        /\ trades' = trades /\ prices' = prices
    BY <1>6 DEF Execute, Statement, Message, DeleteOrderBookLevel
  <2>2. QED
    BY <1>2, <2>1 DEF TypeOK
<1>7. QED
  BY <1>1, <1>3, <1>4, <1>5, <1>6 DEF Typed

-----------------------------------------------------------------------------
(* The invariant *)

LEMMA InvInit == Init => IInv
<1>1. SUFFICES ASSUME Init PROVE IInv
  OBVIOUS
<1>2. TypeOK
  <2>1. trades \in Seq(OfKind("trade"))
    BY <1>1 DEF Init
  <2>2. \A p \in Partitions : Len(Log[p]) \in Nat
    BY LogAssumption
  <2>3. faults \in 0..MaxFaults
    BY <1>1, BoundsAssumption DEF Init
  <2>4. /\ prices \in [Ids -> {NoPrice} \union [symbol : Symbols, price : Int, at : Int]]
        /\ levels \in
             [Slots -> {NoLevel} \union [symbol : Symbols, qty : Int, count : Int]]
        /\ disturbed \in BOOLEAN
    BY <1>1 DEF Init
  <2>5. QED
    BY <1>1, <2>1, <2>2, <2>3, <2>4 DEF Init, TypeOK
<1>3. BookFromLog
  <2>1. \A p \in Partitions, k \in Slots : LevelAfter(p, k, 0) = NoLevel
    BY DEF LevelAfter, LevelWrites
  <2>2. QED
    BY <1>1, <2>1 DEF Init, BookFromLog
<1>4. PriceFromLog
  <2>1. \A p \in Partitions, id \in Ids : PriceAfter(p, id, 0) = NoPrice
    BY DEF PriceAfter, PriceWrites
  <2>2. QED
    BY <1>1, <2>1 DEF Init, PriceFromLog
<1>5. SymbolsUnique
  BY <1>1 DEF Init, SymbolsUnique
<1>6. TradesFromLog
  BY <1>1 DEF Init, TradesFromLog
<1>7. QED
  BY <1>2, <1>3, <1>4, <1>5, <1>6 DEF IInv

LEMMA ProcessInv ==
  ASSUME IInv, NEW p \in Partitions, Process(p)
  PROVE  IInv'
<1>1. TypeOK /\ Execute(p) /\ position' = [position EXCEPT ![p] = @ + 1]
  BY DEF IInv, Process
<1>2. Moved(p)
  BY <1>1 DEF TypeOK, Moved
<1>3. TypeOK'
  <2>1. /\ position' \in [Partitions -> Nat]
        /\ \A q \in Partitions : /\ offset'[q] <= position'[q]
                                 /\ position'[q] <= reached'[q]
                                 /\ reached'[q] <= Len(Log[q])
        /\ offset' = offset /\ faults' = faults
    <3>1. position'[p] = position[p] + 1 /\ offset' = offset /\ faults' = faults
      BY <1>1 DEF TypeOK, Execute, Process
    <3>2. ASSUME NEW q \in Partitions
          PROVE  /\ offset'[q] <= position'[q] /\ position'[q] <= reached'[q]
                 /\ reached'[q] <= Len(Log[q])
      <4>1. CASE q = p
        BY <1>1, <3>1, <4>1, ExecutePlace DEF TypeOK
      <4>2. CASE q # p
        BY <1>1, <1>2, <3>1, <4>2, ExecutePlace DEF TypeOK, Moved
      <4>3. QED
        BY <4>1, <4>2
    <3>3. QED
      BY <1>2, <3>1, <3>2 DEF Moved
  <2>2. QED
    BY <1>1, <2>1, ExecuteTypes, ExecutePlace DEF TypeOK, OfKind
<1>4. QED
  BY <1>1, <1>2, <1>3, ExecuteBook, ExecutePrice, ExecuteSymbols, ExecuteTrades DEF IInv

LEMMA ProcessUnacknowledgedInv ==
  ASSUME IInv, NEW p \in Partitions, ProcessUnacknowledged(p)
  PROVE  IInv'
<1>1. /\ TypeOK /\ Execute(p) /\ position' = position /\ offset' = offset
      /\ faults < MaxFaults /\ faults' = faults + 1
  BY DEF IInv, ProcessUnacknowledged, Execute
<1>2. Moved(p)
  BY <1>1 DEF TypeOK, Moved
<1>3. TypeOK'
  <2>1. ASSUME NEW q \in Partitions
        PROVE  /\ offset'[q] <= position'[q] /\ position'[q] <= reached'[q]
               /\ reached'[q] <= Len(Log[q])
    <3>1. CASE q = p
      BY <1>1, <3>1, ExecutePlace DEF TypeOK
    <3>2. CASE q # p
      BY <1>1, <3>2, ExecutePlace DEF TypeOK
    <3>3. QED
      BY <3>1, <3>2
  <2>2. faults' \in 0..MaxFaults
    <3>1. faults \in 0..MaxFaults
      BY <1>1 DEF TypeOK
    <3>2. QED
      BY <1>1, <3>1, BoundsAssumption
  <2>3. QED
    BY <1>1, <2>1, <2>2, ExecuteTypes, ExecutePlace DEF TypeOK, OfKind
<1>4. QED
  BY <1>1, <1>2, <1>3, ExecuteBook, ExecutePrice, ExecuteSymbols, ExecuteTrades DEF IInv

LEMMA CommitOffsetInv ==
  ASSUME IInv, NEW p \in Partitions, CommitOffset(p)
  PROVE  IInv'
<1>1. /\ offset' = [offset EXCEPT ![p] = position[p]]
      /\ UNCHANGED <<prices, trades, levels, position, reached, faults, disturbed>>
  BY DEF CommitOffset, tables, client
<1>2. TypeOK'
  BY <1>1 DEF IInv, TypeOK, OfKind
<1>3. BookFromLog'
  BY <1>1 DEF IInv, BookFromLog
<1>4. PriceFromLog'
  BY <1>1 DEF IInv, PriceFromLog
<1>5. SymbolsUnique' /\ TradesFromLog'
  BY <1>1 DEF IInv, SymbolsUnique, TradesFromLog, OfKind
<1>6. QED
  BY <1>2, <1>3, <1>4, <1>5 DEF IInv

\* The messages from the committed offset on are about to be replayed: what the
\* tables say is then anywhere between the offset and what was reached.
LEMMA RestartInv ==
  ASSUME IInv, NEW p \in Partitions, Restart(p)
  PROVE  IInv'
<1>1. /\ position' = [position EXCEPT ![p] = offset[p]]
      /\ faults < MaxFaults /\ faults' = faults + 1
      /\ UNCHANGED <<prices, trades, levels, offset, reached, disturbed>>
  BY DEF Restart, tables, client
<1>2. /\ TypeOK /\ position' \in [Partitions -> Nat]
      /\ \A q \in Partitions : position'[q] <= position[q] /\ offset[q] <= position'[q]
  BY <1>1 DEF IInv, TypeOK
<1>3. TypeOK'
  <2>1. \A q \in Partitions : position'[q] <= reached[q]
    BY <1>2 DEF TypeOK
  <2>2. faults' \in 0..MaxFaults
    <3>1. faults \in 0..MaxFaults
      BY <1>2 DEF TypeOK
    <3>2. QED
      BY <1>1, <3>1, BoundsAssumption
  <2>3. QED
    BY <1>1, <1>2, <2>1, <2>2 DEF TypeOK, OfKind
<1>4. \A q \in Partitions : position[q]..reached[q] \subseteq position'[q]..reached'[q]
  BY <1>1, <1>2 DEF TypeOK
<1>5. BookFromLog'
  BY <1>1, <1>4 DEF IInv, BookFromLog
<1>6. PriceFromLog'
  BY <1>1, <1>4 DEF IInv, PriceFromLog
<1>7. SymbolsUnique' /\ TradesFromLog'
  BY <1>1 DEF IInv, SymbolsUnique, TradesFromLog, OfKind
<1>8. QED
  BY <1>3, <1>5, <1>6, <1>7 DEF IInv

\* Reading changes nothing the invariant is about.
LEMMA ReadInv ==
  ASSUME IInv, UNCHANGED <<prices, trades, levels, position, offset, reached, faults>>,
         disturbed' \in BOOLEAN
  PROVE  IInv'
<1>1. TypeOK'
  BY DEF IInv, TypeOK, OfKind
<1>2. BookFromLog'
  BY DEF IInv, BookFromLog
<1>3. PriceFromLog'
  BY DEF IInv, PriceFromLog
<1>4. SymbolsUnique' /\ TradesFromLog'
  BY DEF IInv, SymbolsUnique, TradesFromLog, OfKind
<1>5. QED
  BY <1>1, <1>2, <1>3, <1>4 DEF IInv

LEMMA InvStep == IInv /\ [Next]_vars => IInv'
<1>1. SUFFICES ASSUME IInv, [Next]_vars PROVE IInv'
  OBVIOUS
<1>2. disturbed \in BOOLEAN
  BY <1>1 DEF IInv, TypeOK
<1>3. ASSUME NEW p \in Partitions, Process(p) PROVE IInv'
  BY <1>1, <1>3, ProcessInv
<1>4. ASSUME NEW p \in Partitions, ProcessUnacknowledged(p) PROVE IInv'
  BY <1>1, <1>4, ProcessUnacknowledgedInv
<1>5. ASSUME NEW p \in Partitions, CommitOffset(p) PROVE IInv'
  BY <1>1, <1>5, CommitOffsetInv
<1>6. ASSUME NEW p \in Partitions, Restart(p) PROVE IInv'
  BY <1>1, <1>6, RestartInv
<1>7. CASE GetOrderBookBids(Wanted)
  BY <1>1, <1>7, ReadInv DEF GetOrderBookBids, tables
<1>8. CASE GetOrderBookAsks(Wanted)
  BY <1>1, <1>2, <1>8, ReadInv DEF GetOrderBookAsks, tables
<1>9. CASE UNCHANGED vars
  BY <1>1, <1>2, <1>9, ReadInv DEF vars
<1>10. QED
  BY <1>1, <1>3, <1>4, <1>5, <1>6, <1>7, <1>8, <1>9 DEF Next

-----------------------------------------------------------------------------
(* The theorems *)

\* GetLatestPrice's answer follows from the row of the instrument and the
\* uniqueness of symbols.
LEMMA LatestPriceFollows == IInv => LatestPriceFromLog
<1>1. SUFFICES ASSUME IInv, NEW p \in Partitions, NEW id \in Ids,
                      \A q \in Partitions \ {p} : PriceWrites(q, id, Len(Log[q])) = {}
               PROVE  \E n \in position[p]..reached[p] :
                        LET row == PriceAfter(p, id, n) IN
                        IF row = NoPrice THEN prices[id] = NoPrice
                        ELSE LatestPrices(row.symbol) = {row}
  BY DEF LatestPriceFromLog
<1>2. PICK n \in position[p]..reached[p] : prices[id] = PriceAfter(p, id, n)
  BY <1>1 DEF IInv, PriceFromLog
<1>3. CASE prices[id] = NoPrice
  BY <1>2, <1>3
<1>4. CASE prices[id] # NoPrice
  <2>1. {j \in Ids : prices[j].symbol = prices[id].symbol} = {id}
    BY <1>1, <1>4 DEF IInv, SymbolsUnique
  <2>2. LatestPrices(prices[id].symbol) = {prices[id]}
    BY <2>1 DEF LatestPrices
  <2>3. QED
    BY <1>2, <1>4, <2>2
<1>5. QED
  BY <1>3, <1>4

\* The inductive invariant holds of every behaviour of the consumers.
THEOREM Invariance == Spec => []IInv
BY InvInit, InvStep, PTL DEF Spec

\* The tables hold values of their columns' types, and no consumer commits an
\* offset it has not reached.
THEOREM TypeCorrect == Spec => []TypeOK
<1>1. IInv => TypeOK
  BY DEF IInv
<1>2. QED
  BY <1>1, Invariance, PTL

\* Redelivery never leaves a level of the book older than its consumer, nor one
\* the log does not contain.
THEOREM BookCorrect == Spec => []BookFromLog
<1>1. IInv => BookFromLog
  BY DEF IInv
<1>2. QED
  BY <1>1, Invariance, PTL

\* GetLatestPrice gives one row for the symbol of an instrument, never older than
\* its consumer.
THEOREM LatestPriceCorrect == Spec => []LatestPriceFromLog
BY Invariance, LatestPriceFollows, PTL

\* market_trades holds each trade that was reached exactly once.
THEOREM TradesCorrect == Spec => []TradesFromLog
<1>1. IInv => TradesFromLog
  BY DEF IInv
<1>2. QED
  BY <1>1, Invariance, PTL

-----------------------------------------------------------------------------
(* What the client reads *)

\* Among finitely many rows one has none better: the rows better than it are a
\* least such set.
LEMMA BestExists ==
  ASSUME NEW rows \in SUBSET Slots, IsFiniteSet(rows), rows # {}, NEW side \in Sides
  PROVE  \E k \in rows : {j \in rows : Better(side, j, k)} = {}
<1> DEFINE bt(k) == {j \in rows : Better(side, j, k)}
           F == {bt(k) : k \in rows}
<1>1. \A k \in rows : k.price \in Int
  BY ParametersAssumption DEF Slots
<1>2. \A k \in rows : \A j \in bt(k) : bt(j) \subseteq bt(k) /\ j \notin bt(j)
  BY <1>1 DEF Better
<1>3. IsWellFoundedOn(StrictSubsetOrdering(rows), SUBSET rows)
  BY FS_FiniteSubsetsOfFinite, FS_StrictSubsetOrderingWellFounded
<1>4. F \subseteq SUBSET rows /\ F # {}
  OBVIOUS
<1>5. PICK T \in F : \A U \in F : <<U, T>> \notin StrictSubsetOrdering(rows)
  <2> HIDE DEF F
  <2>1. QED
    BY <1>3, <1>4, WFMin
<1>6. PICK k \in rows : T = bt(k)
  BY <1>5
<1>7. ASSUME NEW j \in bt(k) PROVE FALSE
  <2>1. j \in rows /\ bt(j) \in F /\ bt(j) \in SUBSET rows /\ bt(k) \in SUBSET rows
    OBVIOUS
  <2>2. bt(j) \subseteq bt(k) /\ bt(j) # bt(k)
    BY <1>2, <1>6, <1>7
  <2>3. <<bt(j), T>> \in StrictSubsetOrdering(rows)
    BY <1>6, <2>1, <2>2 DEF StrictSubsetOrdering
  <2>4. QED
    BY <1>5, <2>1, <2>3
<1>8. bt(k) = {}
  BY <1>7
<1>9. QED
  BY <1>6, <1>8

\* The first line of an answer is the price of one of the rows.
LEMMA FirstIsRow ==
  ASSUME NEW rows \in SUBSET Slots, IsFiniteSet(rows), NEW side \in Sides,
         BestFirst(rows, side) # <<>>
  PROVE  \E k \in rows : BestFirst(rows, side)[1] = k.price
<1> DEFINE rank(k) == Cardinality({j \in rows : Better(side, j, k)}) + 1
           n == IF Cardinality(rows) < Depth THEN Cardinality(rows) ELSE Depth
           line(i) == (CHOOSE k \in rows : rank(k) = i).price
<1>1. BestFirst(rows, side) = [i \in 1..n |-> line(i)]
  BY DEF BestFirst
<1>2. Cardinality(rows) \in Nat /\ n \in Nat /\ (rows = {} => n = 0)
  <2>1. Cardinality(rows) \in Nat
    BY FS_CardinalityType
  <2>2. rows = {} => Cardinality(rows) = 0
    BY FS_EmptySet
  <2>3. QED
    BY <2>1, <2>2, BoundsAssumption
<1>3. n # 0
  <2> HIDE DEF line, n
  <2>1. SUFFICES ASSUME n = 0 PROVE FALSE
    OBVIOUS
  <2>2. [i \in 1..0 |-> line(i)] = <<>>
    OBVIOUS
  <2>3. QED
    BY <1>1, <2>1, <2>2
<1>4. rows # {}
  BY <1>2, <1>3
<1>5. PICK k \in rows : {j \in rows : Better(side, j, k)} = {}
  BY <1>4, BestExists
<1>6. rank(k) = 1
  <2>1. Cardinality({j \in rows : Better(side, j, k)}) = 0
    BY <1>5, FS_EmptySet, Zenon
  <2>2. QED
    BY <2>1
<1>7. 1 \in 1..n
  <2> HIDE DEF n
  <2>1. QED
    BY <1>2, <1>3
<1>8. BestFirst(rows, side)[1] = line(1)
  <2> HIDE DEF n, line
  <2>1. QED
    BY <1>1, <1>7
<1>9. (CHOOSE x \in rows : rank(x) = 1) \in rows
  <2> HIDE DEF rank
  <2>1. QED
    BY <1>6
<1>10. QED
  BY <1>8, <1>9

\* One moment of a partition that all of the wanted symbol's levels agree with.
OneMoment ==
  \E p \in Partitions : \E n \in 0..Len(Log[p]) : \A k \in SlotsOf(Wanted) :
    levels[k] = LevelAfter(p, k, n)

\* What makes an undisturbed pair of answers consistent, beside IInv: finitely many
\* rows, each under a key the log has for its symbol; bids are asked for first;
\* and while nothing has changed, the answers are what the table still says, and
\* the table says what one partition said at one moment.
AnswersInv ==
  /\ IsFiniteSet({k \in Slots : levels[k] # NoLevel})
  /\ \A k \in Slots : levels[k] # NoLevel => k \in SlotsOf(levels[k].symbol)
  /\ asks # NoAnswer => bids # NoAnswer
  /\ bids # NoAnswer /\ ~disturbed =>
       /\ bids = BestFirst(Listed(Wanted, "BID"), "BID")
       /\ asks # NoAnswer => asks = BestFirst(Listed(Wanted, "ASK"), "ASK")
       /\ BookTogether => OneMoment

\* When nobody is replaying, the levels are those of the place their partition is
\* at.
LEMMA OneMomentAtRest ==
  ASSUME IInv, BookTogether, \A p \in Partitions : ~Replaying(p)
  PROVE  OneMoment
<1>1. PICK p \in Partitions : \A q \in Partitions \ {p}, k \in SlotsOf(Wanted) :
                                LevelWrites(q, k, Len(Log[q])) = {}
  BY DEF BookTogether
<1>2. /\ position[p] \in Nat /\ reached[p] \in Nat /\ Len(Log[p]) \in Nat
      /\ position[p] <= reached[p] /\ reached[p] <= Len(Log[p])
  BY LogAssumption DEF IInv, TypeOK
<1>3. position[p] = reached[p]
  BY <1>2 DEF Replaying
<1>4. position[p] \in 0..Len(Log[p])
  BY <1>2
<1>5. ASSUME NEW k \in SlotsOf(Wanted)
      PROVE  levels[k] = LevelAfter(p, k, position[p])
  <2>1. k \in Slots
    BY DEF SlotsOf
  <2>2. PICK n \in position[p]..reached[p] : levels[k] = LevelAfter(p, k, n)
    BY <1>1, <2>1 DEF IInv, BookFromLog
  <2>3. n = position[p]
    BY <1>2, <1>3
  <2>4. QED
    BY <2>2, <2>3
<1>6. QED
  BY <1>4, <1>5 DEF OneMoment

LEMMA AnswersInit == Init => AnswersInv
<1>1. SUFFICES ASSUME Init PROVE AnswersInv
  OBVIOUS
<1>2. {k \in Slots : levels[k] # NoLevel} = {}
  BY <1>1 DEF Init
<1>3. QED
  BY <1>1, <1>2, FS_EmptySet DEF Init, AnswersInv

\* A statement adds at most one row, under a key its message has for its symbol,
\* and disturbs whoever has read the bids.
LEMMA ExecuteAnswers ==
  ASSUME TypeOK, AnswersInv, NEW p \in Partitions, Execute(p)
  PROVE  AnswersInv'
<1> DEFINE n == position[p]
           m == Message(p)
           R == {k \in Slots : levels[k] # NoLevel}
<1>1. n + 1 \in 1..Len(Log[p]) /\ Typed(m) /\ Len(Log[p]) \in Nat
  BY ExecutePlace
<1>2. levels' = IF m.kind = "level" THEN [levels EXCEPT ![Slot(m)] = LevelRow(m)]
                ELSE IF m.kind = "delete"
                THEN [j \in Slots |-> IF j = Slot(m) THEN NoLevel ELSE levels[j]]
                ELSE levels
  BY DEF Execute, Statement, Message, UpsertLatestPrice, InsertTrade,
         UpsertOrderBookLevel, DeleteOrderBookLevel
<1>3. levels \in [Slots -> {NoLevel} \union [symbol : Symbols, qty : Int, count : Int]]
  BY DEF TypeOK
<1>4. ASSUME NEW k \in Slots, levels'[k] # NoLevel
      PROVE  \/ levels'[k] = levels[k]
             \/ m.kind = "level" /\ k = Slot(m) /\ levels'[k].symbol = m.symbol
  BY <1>2, <1>3, <1>4 DEF LevelRow
<1>5. IsFiniteSet({k \in Slots : levels'[k] # NoLevel})
  <2>1. IsFiniteSet(R \union {Slot(m)})
    BY FS_AddElement DEF AnswersInv
  <2>2. {k \in Slots : levels'[k] # NoLevel} \in SUBSET (R \union {Slot(m)})
    BY <1>4
  <2>3. QED
    BY <2>1, <2>2, FS_Subset
<1>6. ASSUME NEW k \in Slots, levels'[k] # NoLevel
      PROVE  k \in SlotsOf(levels'[k].symbol)
  <2>1. CASE levels'[k] = levels[k]
    BY <1>6, <2>1 DEF AnswersInv
  <2>2. CASE m.kind = "level" /\ k = Slot(m) /\ levels'[k].symbol = m.symbol
    <3>1. n + 1 \in LevelWrites(p, k, Len(Log[p]))
      BY <1>1, <2>2 DEF LevelWrites, Message
    <3>2. Log[p][n + 1].kind = "level" /\ Log[p][n + 1].symbol = levels'[k].symbol
      BY <2>2 DEF Message
    <3>3. QED
      BY <3>1, <3>2 DEF SlotsOf
  <2>3. QED
    BY <1>4, <1>6, <2>1, <2>2
<1>7. bids' = bids /\ asks' = asks /\ (bids' # NoAnswer => disturbed')
  BY DEF Execute
<1>8. asks' # NoAnswer => bids' # NoAnswer
  BY <1>7 DEF AnswersInv
<1>9. QED
  BY <1>5, <1>6, <1>7, <1>8 DEF AnswersInv, SlotsOf, LevelWrites

LEMMA BidsAnswers ==
  ASSUME IInv, AnswersInv, GetOrderBookBids(Wanted)
  PROVE  AnswersInv'
<1>1. /\ levels' = levels /\ asks' = asks /\ bids = NoAnswer
      /\ bids' = BestFirst(Listed(Wanted, "BID"), "BID")
      /\ disturbed' = \E p \in Partitions : Replaying(p)
  BY DEF GetOrderBookBids, tables
<1>2. asks = NoAnswer
  BY <1>1 DEF AnswersInv
<1>3. ~disturbed' /\ BookTogether => OneMoment
  BY <1>1, OneMomentAtRest
<1>4. (BestFirst(Listed(Wanted, "BID"), "BID"))' = BestFirst(Listed(Wanted, "BID"), "BID")
  BY <1>1 DEF BestFirst, Listed, Better
<1>5. OneMoment' = OneMoment
  BY <1>1 DEF OneMoment, SlotsOf, LevelAfter, LevelWrites
<1>6. QED
  BY <1>1, <1>2, <1>3, <1>4, <1>5 DEF AnswersInv, SlotsOf, LevelWrites, BookTogether

LEMMA AsksAnswers ==
  ASSUME AnswersInv, GetOrderBookAsks(Wanted)
  PROVE  AnswersInv'
<1>1. /\ levels' = levels /\ bids' = bids /\ bids # NoAnswer /\ disturbed' = disturbed
      /\ asks' = BestFirst(Listed(Wanted, "ASK"), "ASK")
  BY DEF GetOrderBookAsks, tables
<1>2. \A side : (BestFirst(Listed(Wanted, side), side))' = BestFirst(Listed(Wanted, side), side)
  BY <1>1 DEF BestFirst, Listed, Better
<1>3. OneMoment' = OneMoment
  BY <1>1 DEF OneMoment, SlotsOf, LevelAfter, LevelWrites
<1>4. QED
  BY <1>1, <1>2, <1>3 DEF AnswersInv, SlotsOf, LevelWrites, BookTogether

LEMMA IdleAnswers ==
  ASSUME AnswersInv, UNCHANGED <<levels, bids, asks, disturbed>>
  PROVE  AnswersInv'
<1>1. \A side : (BestFirst(Listed(Wanted, side), side))' = BestFirst(Listed(Wanted, side), side)
  BY DEF BestFirst, Listed, Better
<1>2. OneMoment' = OneMoment
  BY DEF OneMoment, SlotsOf, LevelAfter, LevelWrites
<1>3. QED
  BY <1>1, <1>2 DEF AnswersInv, SlotsOf, LevelWrites, BookTogether

LEMMA AnswersStep == IInv /\ AnswersInv /\ [Next]_vars => AnswersInv'
<1>1. SUFFICES ASSUME IInv, AnswersInv, [Next]_vars PROVE AnswersInv'
  OBVIOUS
<1>2. ASSUME NEW p \in Partitions, Execute(p) PROVE AnswersInv'
  BY <1>1, <1>2, ExecuteAnswers DEF IInv
<1>3. ASSUME NEW p \in Partitions, CommitOffset(p) \/ Restart(p) PROVE AnswersInv'
  BY <1>1, <1>3, IdleAnswers DEF CommitOffset, Restart, tables, client
<1>4. CASE GetOrderBookBids(Wanted)
  BY <1>1, <1>4, BidsAnswers
<1>5. CASE GetOrderBookAsks(Wanted)
  BY <1>1, <1>5, AsksAnswers
<1>6. CASE UNCHANGED vars
  BY <1>1, <1>6, IdleAnswers DEF vars
<1>7. QED
  BY <1>1, <1>2, <1>3, <1>4, <1>5, <1>6 DEF Next, Process, ProcessUnacknowledged

\* The first bid and the first ask are then two rows of an uncrossed book.
LEMMA AnswersUncrossed == AnswersInv => CrossedOnlyIfDisturbed
<1>1. SUFFICES ASSUME AnswersInv, BookTogether, LogUncrossed, asks # NoAnswer,
                      ~disturbed, bids # <<>>, asks # <<>>
               PROVE  bids[1] < asks[1]
  BY DEF CrossedOnlyIfDisturbed
<1>2. /\ bids = BestFirst(Listed(Wanted, "BID"), "BID")
      /\ asks = BestFirst(Listed(Wanted, "ASK"), "ASK")
      /\ OneMoment
  BY <1>1 DEF AnswersInv
<1>3. ASSUME NEW side \in Sides
      PROVE  Listed(Wanted, side) \in SUBSET Slots /\ IsFiniteSet(Listed(Wanted, side))
  <2>1. Listed(Wanted, side) \in SUBSET {k \in Slots : levels[k] # NoLevel}
    <3>1. SUFFICES ASSUME NEW k \in Listed(Wanted, side) PROVE levels[k] # NoLevel
      BY DEF Listed
    <3>2. levels[k].qty > 0
      BY DEF Listed
    <3>3. ~(NoLevel.qty > 0)
      BY DEF NoLevel
    <3>4. QED
      BY <3>2, <3>3
  <2>2. QED
    BY <1>1, <2>1, FS_Subset DEF AnswersInv
<1>4. PICK b \in Listed(Wanted, "BID") : bids[1] = b.price
  BY <1>1, <1>2, <1>3, FirstIsRow DEF Sides
<1>5. PICK a \in Listed(Wanted, "ASK") : asks[1] = a.price
  BY <1>1, <1>2, <1>3, FirstIsRow DEF Sides
<1>6. PICK p \in Partitions : \E n \in 0..Len(Log[p]) : \A k \in SlotsOf(Wanted) :
                                levels[k] = LevelAfter(p, k, n)
  BY <1>2 DEF OneMoment
<1>7. PICK n \in 0..Len(Log[p]) : \A k \in SlotsOf(Wanted) : levels[k] = LevelAfter(p, k, n)
  BY <1>6
<1>8. /\ b \in Slots /\ b.side = "BID" /\ levels[b].symbol = Wanted
      /\ levels[b].qty > 0 /\ levels[b].count > 0
      /\ a \in Slots /\ a.side = "ASK" /\ levels[a].symbol = Wanted
      /\ levels[a].qty > 0 /\ levels[a].count > 0
  BY <1>4, <1>5 DEF Listed
<1>9. levels[b] # NoLevel /\ levels[a] # NoLevel
  <2>1. ~(NoLevel.qty > 0)
    BY DEF NoLevel
  <2>2. QED
    BY <1>8, <2>1
<1>10. levels[b] = LevelAfter(p, b, n) /\ levels[a] = LevelAfter(p, a, n)
  BY <1>1, <1>7, <1>8, <1>9 DEF AnswersInv
<1>11. b.price < a.price
  BY <1>1, <1>8, <1>10 DEF LogUncrossed
<1>12. QED
  BY <1>4, <1>5, <1>11

\* A client sees a crossed order book only if a statement ran between its two
\* queries or a consumer was replaying when it began, for whatever depth and
\* however many other partitions are being consumed meanwhile.
THEOREM CrossedExplained == Spec => []CrossedOnlyIfDisturbed
<1>1. Spec => []AnswersInv
  BY Invariance, AnswersInit, AnswersStep, PTL DEF Spec
<1>2. QED
  BY <1>1, AnswersUncrossed, PTL
=============================================================================
