\* Searches of the realtime page and the trade form.
SPECIFICATION Spec
CONSTANTS
  t1 = t1
  t2 = t2
  nasd = nasd
  nyse = nyse
  NoRequest = NoRequest
  NoContent = NoContent
  NoPrice = NoPrice
  Typed = Typed
  Tickers <- TwoTickers
  Exchanges <- TwoExchanges
  MaxRequests = 2
CHECK_DEADLOCK FALSE
INVARIANTS TypeOK TradeQuoteIsRequested TradeWaitsForOwnReply
PROPERTIES TradeLoadingEnds
