\* The trend chart's requests.
SPECIFICATION Spec
CONSTANTS
  s1 = s1
  s2 = s2
  NoRequest = NoRequest
  NoContent = NoContent
  hours = hours
  week = week
  Stocks <- TwoStocks
  Ranges <- TwoRanges
  FirstRange = hours
  MaxRequests = 3
CHECK_DEADLOCK FALSE
INVARIANTS TypeOK JoinsOnlyLeavingWorker
PROPERTIES LoadingEnds
