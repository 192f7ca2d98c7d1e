\* Two threads request the daily bars of one stock while days go by.
SPECIFICATION Spec
CONSTANTS
  history = history
  performance = performance
  Workers <- TwoWorkers
  Days = 4
  Traded <- Week
  DayLength = 2
  Opening = 1
  CurrentTtl = 0
  HistoricalTtl = 2
  PageSize = 2
  MaxPages = 2
  MaxCoverages = 2
  Records <- FewOrMany
  FetchTime = 1
  MaxRequests = 3
SYMMETRY Symmetry
CHECK_DEADLOCK FALSE
INVARIANTS TypeOK CoverageIsWhole AnswerHasNoGap CacheAnswersInFull AnswerIsFresh
