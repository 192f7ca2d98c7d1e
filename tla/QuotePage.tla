----------------------------- MODULE QuotePage -----------------------------
(***************************************************************************)
(* Quotes: the realtime page and the trade form of MainScreen.html, which  *)
(* share one kind of request, requestRealtimeQuote(), one function for the *)
(* replies, and the prices of the stream.                                  *)
(*                                                                         *)
(* A price is the ticker it is a price of.  Left out: the watch list,      *)
(* which takes its prices from the selected quote; candles; all of a quote *)
(* but its price; credentials (without them everything is refused).        *)
(***************************************************************************)
EXTENDS RequestSlot

CONSTANTS
  Tickers, Exchanges,
  NoPrice, Typed,   \* no price; one that the user has typed
  MaxRequests       \* bound: requests the page makes

Instruments == [ticker : Tickers, exchange : Exchanges]
Prices == Tickers \cup {NoPrice}
Quotes == [of : Instruments, price : Prices]

\* What a worker reports: a current price (with or without minute bars), only
\* bars, or an exception, of which the reply does not name the instrument.
Contents == {"price", "bars", "exception"}

ASSUME QuoteConstants ==
  /\ MaxRequests \in Nat
  /\ NoRequest \notin Instruments /\ NoContent \notin Contents \cup Quotes
  /\ NoPrice \notin Tickers /\ Typed \notin Prices

VARIABLES
  selected,       \* state.selectedQuote
  quoteLoading,   \* state.quoteLoading: the search button is disabled
  request,        \* state.trade.requestTicker and requestExchange
  tradeLoading,   \* state.trade.loading
  quote,          \* state.trade.quote
  orderPrice,     \* the limit price in the order form
  made            \* requests so far

trade == <<request, tradeLoading, quote, orderPrice>>
page == <<selected, quoteLoading, trade, made>>
vars == <<slot, page>>

Init ==
  /\ SlotInit
  /\ selected = NoContent /\ quoteLoading = FALSE
  /\ request = NoRequest /\ tradeLoading = FALSE
  /\ quote = NoContent /\ orderPrice = NoPrice
  /\ made = 0

-----------------------------------------------------------------------------
(* The page *)

RequestQuote(i) ==
  /\ made < MaxRequests /\ made' = made + 1
  /\ Ask(i) /\ Unanswered

\* Searched for, or chosen from the watch list, which is always possible.
SelectQuote(i) ==
  /\ selected' = [of |-> i, price |-> NoPrice]
  /\ quoteLoading' = TRUE
  /\ UNCHANGED trade
  /\ RequestQuote(i)

\* Searched for, or chosen from the holdings.
SearchTradeQuote(i) ==
  /\ request' = i /\ tradeLoading' = TRUE
  /\ quote' = NoContent /\ orderPrice' = NoPrice
  /\ UNCHANGED <<selected, quoteLoading>>
  /\ RequestQuote(i)

TypePrice ==
  /\ orderPrice' \in {NoPrice, Typed}
  /\ UNCHANGED <<slot, selected, quoteLoading, request, tradeLoading, quote, made>>

\* update_stock_price: a price of the stream.
Priced(q, t) == IF q # NoContent /\ q.of.ticker = t THEN [q EXCEPT !.price = t] ELSE q

UpdateStockPrice(t) ==
  /\ selected' = Priced(selected, t)
  /\ quote' = Priced(quote, t)
  /\ UNCHANGED <<slot, quoteLoading, request, tradeLoading, orderPrice, made>>

\* Mutant of ConcernsTrade: a reply that names nothing is nobody's.
ConcernsTradeByName(reply) ==
  reply.content # "exception" /\ request # NoRequest
    /\ reply.request.ticker = request.ticker

\* A failure ends the trade form's search when it names its ticker or none.
ConcernsTrade(reply) ==
  /\ request # NoRequest
  /\ reply.content = "exception" \/ reply.request.ticker = request.ticker

\* load_realtime_quote, first part: `success` is false.
LoadFailure ==
  LET reply == Head(scripts) IN
  /\ Hear
  /\ reply.content \in {NoContent, "exception"}
  /\ quoteLoading' = FALSE
  /\ tradeLoading' = (tradeLoading /\ ~ConcernsTrade(reply))
  /\ UNCHANGED <<selected, request, quote, orderPrice, made>>
  /\ UNCHANGED <<asked, window, loading, worker, task, queue>>

\* Mutant of NextSelected: without a current price the quote is no number.
NextSelectedBlank(reply) ==
  [of |-> reply.request,
   price |-> IF reply.content = "price" THEN reply.request.ticker ELSE NoContent]

\* The quote that is selected next.  Without a current price the previous
\* quote's is kept.
NextSelected(reply) ==
  [of |-> reply.request,
   price |-> IF reply.content = "price" THEN reply.request.ticker
             ELSE IF selected # NoContent THEN selected.price ELSE NoPrice]

\* Mutant of AnswersTrade: the exchange is not compared.
AnswersTradeAnywhere(reply) ==
  request # NoRequest /\ reply.request.ticker = request.ticker

AnswersTrade(reply) == reply.request = request

\* load_realtime_quote, second part.
LoadQuote ==
  LET reply == Head(scripts) IN
  /\ Hear
  /\ reply.content \in {"price", "bars"}
  /\ quoteLoading' = FALSE
  /\ selected' = NextSelected(reply)
  /\ IF AnswersTrade(reply)
       THEN /\ tradeLoading' = FALSE /\ quote' = selected'
            /\ orderPrice' = IF orderPrice = NoPrice THEN quote'.price ELSE orderPrice
       ELSE UNCHANGED <<tradeLoading, quote, orderPrice>>
  /\ UNCHANGED <<request, made, asked, window, loading, worker, task, queue>>

-----------------------------------------------------------------------------
(* The worker of requestRealtimeQuote() *)

\* The quote is requested, then the bars; either may fail.
RequestSnapshot ==
  /\ \E content \in {"price", "bars", "exception", NoContent} : Post(content)
  /\ UNCHANGED page

-----------------------------------------------------------------------------
WindowActs == (WindowStep \/ SpawnFails("exception")) /\ UNCHANGED page
WorkerActs == RequestSnapshot \/ (EndStep /\ UNCHANGED page)
PageHears == LoadFailure \/ LoadQuote

UserActs ==
  \/ \E i \in Instruments : SelectQuote(i) \/ SearchTradeQuote(i)
  \/ TypePrice

StreamTick == \E t \in Tickers : UpdateStockPrice(t)

Next == UserActs \/ StreamTick \/ PageHears \/ WindowActs \/ WorkerActs

Safety == Init /\ [][Next]_vars

\* Threads run, requests have time limits, and the page runs its scripts.
Fairness == WF_vars(WindowActs) /\ WF_vars(WorkerActs) /\ WF_vars(PageHears)

Spec == Safety /\ Fairness

-----------------------------------------------------------------------------
(* Properties *)

TypeOK ==
  /\ SlotTypeOK(Instruments, Contents)
  /\ selected \in Quotes \cup {NoContent} /\ quoteLoading \in BOOLEAN
  /\ request \in Instruments \cup {NoRequest} /\ tradeLoading \in BOOLEAN
  /\ quote \in Quotes \cup {NoContent}
  /\ orderPrice \in Prices \cup {Typed}
  /\ made \in 0 .. MaxRequests

\* What the order form would order is what was last asked for there: late
\* replies, and replies to the realtime page, never replace it.
TradeQuoteIsRequested == quote # NoContent => quote.of = request

\* Somewhere between page, window and worker is the request that the trade
\* form waits for, or its reply.
Answering(i) ==
  \/ \E k \in DOMAIN asked : asked[k] = i
  \/ worker = "working" /\ task = i
  \/ \E k \in DOMAIN queue : queue[k].request = i
  \/ \E k \in DOMAIN scripts : scripts[k].request = i

\* While the trade form waits, the reply to its own latest request is under
\* way, whatever else was asked, answered or refused meanwhile.
TradeWaitsForOwnReply == tradeLoading => Answering(request)

\* The trade form's search ends.
TradeLoadingEnds == tradeLoading ~> ~tradeLoading

=============================================================================
