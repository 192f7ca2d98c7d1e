\* Late candles of fewer holdings; violated.
SPECIFICATION Safety
CONSTANTS
  s1 = s1
  s2 = s2
  NoRequest = NoRequest
  NoContent = NoContent
  hours = hours
  week = week
  Stocks <- TwoStocks
  Ranges <- TwoRanges
  FirstRange = hours
  MaxRequests = 2

CHECK_DEADLOCK FALSE
PROPERTIES HistoryCoversHoldings
