\* The jobs of a session: the page is loaded, then two requests of any kind.
SPECIFICATION Spec
CONSTANTS
  us = us
  hk = hk
  saved = saved
  NoKey = NoKey
  American <- AmericanStocks
  Foreign <- ForeignStocks
  Lists <- SomeLists
  Keys <- SomeKeys
  Fallback = NoKey
  Limit = 2
  MaxTicks = 1
  MaxJobs = 3
  MaxLag = 0
CHECK_DEADLOCK FALSE
INVARIANTS TypeOK StreamFollowsManager ChipFollowsStream
PROPERTIES JobsEnd
