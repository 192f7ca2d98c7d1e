---------------------------- MODULE HistoryPage ----------------------------
(***************************************************************************)
(* The price history of the portfolio: the trend chart of MainScreen.html  *)
(* and requestPortfolioHistory() behind it.                                *)
(*                                                                         *)
(* A holding is its ticker; the quantity, a part of what a request asks    *)
(* for, is left out, and with it requests that differ in nothing else.     *)
(* The chart's candles are the request they came from and the tickers      *)
(* that were loaded for them.                                              *)
(***************************************************************************)
EXTENDS RequestSlot

CONSTANTS
  Stocks,       \* tickers
  Ranges,       \* state.trendRange: "4h", "1w", ...
  FirstRange,   \* "4h"
  MaxRequests   \* bound: requests the page makes

ASSUME HistoryConstants == MaxRequests \in Nat /\ Stocks # {} /\ FirstRange \in Ranges

Holdings == SUBSET Stocks
Requests == [range : Ranges, holdings : Holdings \ {{}}]

\* What a worker reports: the holdings its candles add up.
Contents == [loaded : Holdings]

\* Candles in the chart, and the request they answer.
Histories == [of : Requests, loaded : Holdings]

ASSUME NothingIsNone ==
  NoRequest \notin Requests /\ NoContent \notin Contents \cup Histories

VARIABLES
  real, manual,     \* state.realStocks, state.manualStocks
  range,            \* state.trendRange
  historyLoading,   \* state.historyLoading
  history,          \* the historical candles of state.trend
  live,             \* state.trend has a candle of the current value
  made              \* requests so far

trend == <<history, live>>
page == <<real, manual, range, historyLoading, trend, made>>
vars == <<slot, page>>

Init ==
  /\ SlotInit
  /\ real = {} /\ manual \in Holdings
  /\ range = FirstRange
  /\ historyLoading = FALSE
  /\ history = NoContent /\ live = FALSE
  /\ made = 0

-----------------------------------------------------------------------------
(* The page *)

\* Mutant of RequestHistory: it asks about no holdings, too.
RequestAnything ==
  /\ made < MaxRequests
  /\ Ask([range |-> range', holdings |-> real' \cup manual'])
  /\ made' = made + 1
  /\ historyLoading' = TRUE
  /\ Unanswered

\* requestPortfolioHistory(true) with the holdings and the range that are
\* then in effect; nothing is asked about no holdings.
RequestHistory ==
  LET holdings == real' \cup manual'
  IN  /\ made < MaxRequests
      /\ IF holdings = {}
           THEN UNCHANGED <<asked, made, historyLoading>>
           ELSE /\ Ask([range |-> range', holdings |-> holdings])
                /\ made' = made + 1
                /\ historyLoading' = TRUE
      /\ Unanswered

\* A range button: disabled while history is loading.
SelectRange(r) ==
  /\ ~historyLoading /\ r # range
  /\ range' = r
  /\ history' = NoContent /\ live' = FALSE
  /\ UNCHANGED <<real, manual>>
  /\ RequestHistory

\* A holding entered by hand, edited or deleted.  pushTrend() changes nothing
\* then: history is loading, or there is no value to record.
EditManual(stocks) ==
  /\ stocks \cup manual # {}
  /\ manual' = stocks
  /\ UNCHANGED <<real, range, trend>>
  /\ RequestHistory

LoadBalance(stocks) ==
  /\ real' = stocks
  /\ history' = NoContent /\ live' = FALSE
  /\ UNCHANGED <<manual, range>>
  /\ RequestHistory

\* A price arrives: pushTrend().
PushTrend ==
  /\ ~historyLoading /\ real \cup manual # {}
  /\ live' = TRUE
  /\ UNCHANGED <<slot, real, manual, range, historyLoading, history, made>>

Succeeded(reply) == reply.content # NoContent

\* load_portfolio_history
LoadHistory ==
  /\ Hear
  /\ historyLoading' = FALSE
  /\ history' = IF Succeeded(Head(scripts))
                  THEN [of |-> Head(scripts).request, loaded |-> Head(scripts).content.loaded]
                  ELSE NoContent
  /\ live' = IF real \cup manual # {} THEN TRUE
             ELSE IF Succeeded(Head(scripts)) THEN FALSE ELSE live
  /\ UNCHANGED <<real, manual, range, made, asked, window, loading, worker, task, queue>>

-----------------------------------------------------------------------------
(* The worker of requestPortfolioHistory() *)

\* The bars of one holding after the other are requested; candles are made
\* when none has failed.
LoadBars ==
  /\ worker = "working"
  /\ \E loaded \in SUBSET task.holdings :
       Post(IF loaded = task.holdings THEN [loaded |-> loaded] ELSE NoContent)
  /\ UNCHANGED page

\* No date is common to all, or an exception is caught.
LoadFails ==
  /\ Post(NoContent)
  /\ UNCHANGED page

-----------------------------------------------------------------------------
WindowActs == (WindowStep \/ SpawnFails(NoContent)) /\ UNCHANGED page
WorkerActs == LoadBars \/ LoadFails \/ (EndStep /\ UNCHANGED page)

UserActs ==
  \/ \E r \in Ranges : SelectRange(r)
  \/ \E stocks \in Holdings : EditManual(stocks) \/ LoadBalance(stocks)

Next == UserActs \/ PushTrend \/ LoadHistory \/ WindowActs \/ WorkerActs

Safety == Init /\ [][Next]_vars

\* Threads run, requests have time limits, and the page runs its scripts.
Fairness == WF_vars(WindowActs) /\ WF_vars(WorkerActs) /\ WF_vars(LoadHistory)

Spec == Safety /\ Fairness

-----------------------------------------------------------------------------
(* Properties *)

TypeOK ==
  /\ SlotTypeOK(Requests, Contents)
  /\ real \in Holdings /\ manual \in Holdings /\ range \in Ranges
  /\ historyLoading \in BOOLEAN /\ live \in BOOLEAN
  /\ history \in Histories \cup {NoContent}
  /\ made \in 0 .. MaxRequests

\* The buttons are enabled again.
LoadingEnds == historyLoading ~> ~historyLoading

\* "Past data of only some of the holdings differs in its basis from the
\* current total": candles that are put before the current total are of all
\* holdings that the total is of.
HistoryCoversHoldings ==
  [][LoadHistory /\ history' # NoContent => real \cup manual \subseteq history'.loaded]_vars

=============================================================================
