SPECIFICATION Spec
CONSTANTS
  book = book
  quotes = quotes
  fills = fills
  more = more
  Partitions = {quotes, fills, more}
  Log <- AllLogs
  Ids = {1, 2}
  Symbols = {"BTC", "ETH", "XBT"}
  Prices = {1, 2, 3}
  Wanted = "BTC"
  Depth = 2
  NoTime = NoTime
  NoAnswer = NoAnswer
  Now = 9
  MaxFaults = 2
INVARIANTS
  TypeOK
  LatestPriceFromLog
  TradesFromLog
  IInv
CHECK_DEADLOCK FALSE
