\* The analysis page.
SPECIFICATION Spec
CONSTANTS
  month = month
  year = year
  less = less
  more = more
  NoRequest = NoRequest
  NoContent = NoContent
  NoPeriod = NoPeriod
  Periods <- OnePeriod
  Portfolios <- TwoPortfolios
  MaxRequests = 3
CHECK_DEADLOCK FALSE
INVARIANTS TypeOK BlankHasReason
PROPERTIES LoadingEnds
