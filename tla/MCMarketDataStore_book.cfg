SPECIFICATION FairSpec
CONSTANTS
  book = book
  quotes = quotes
  fills = fills
  more = more
  Partitions = {book, quotes}
  Log <- ViewLogs
  Ids = {1, 2}
  Symbols = {"BTC", "ETH", "XBT"}
  Prices = {1, 2, 3}
  Wanted = "BTC"
  Depth = 2
  NoTime = NoTime
  NoAnswer = NoAnswer
  Now = 9
  MaxFaults = 2
INVARIANTS
  BookFromLog
  CrossedOnlyIfDisturbed
PROPERTIES
  ViewConverges
CHECK_DEADLOCK FALSE
