-------------------------- MODULE PerformancePage --------------------------
(***************************************************************************)
(* The analysis page of MainScreen.html: what the portfolio would have     *)
(* earned in a period, from requestPortfolioPerformance().                 *)
(*                                                                         *)
(* A request names a period and the current holdings.  The page remembers  *)
(* the last one it made (its signature) in order not to repeat it.  Left   *)
(* out: the live point that today's prices add to the series, and what is  *)
(* computed from the series.                                               *)
(***************************************************************************)
EXTENDS RequestSlot

CONSTANTS
  Portfolios,   \* what can be held
  Periods,      \* pairs of a start and an end date that can be asked for
  NoPeriod,     \* dates that cannot: empty, reversed or in the future
  MaxRequests   \* bound: requests the page makes

ASSUME PerformanceConstants ==
  MaxRequests \in Nat /\ Portfolios # {} /\ Periods # {} /\ NoPeriod \notin Periods

Requests == [period : Periods, holdings : Portfolios]
Contents == [of : Requests]

\* performanceHoldings(), as a set of at most one portfolio.
AllHoldings == {{}} \cup {{h} : h \in Portfolios}

ASSUME NothingIsNone == NoRequest \notin Requests /\ NoContent \notin Contents

VARIABLES
  holdings,      \* what performanceHoldings() returns
  shown,         \* state.page = "analysis"
  dates,         \* the two date inputs
  period,        \* state.performance.startDate and endDate
  signature,     \* state.performance.signature
  performanceLoading, \* state.performance.loading
  error,         \* state.performance.error is not empty
  series,        \* state.performance.series
  made           \* requests so far

page == <<holdings, shown, dates, period, signature, performanceLoading, error, series, made>>
vars == <<slot, page>>

\* ensurePerformanceDates() fills in the dates as the program starts.
Init ==
  /\ SlotInit
  /\ holdings \in AllHoldings /\ shown = FALSE
  /\ dates \in Periods /\ period = dates
  /\ signature = NoRequest /\ performanceLoading = FALSE
  /\ error = FALSE /\ series = NoContent
  /\ made = 0

-----------------------------------------------------------------------------
(* The page *)

\* What is asked for under the dates and holdings that are then in effect.
Wanted == {[period |-> dates', holdings |-> h] : h \in holdings'}

Valid == dates' \in Periods /\ holdings' # {}

\* The early return of requestPerformanceHistory(): the last request was the
\* same and there is a series.
UpToDate(request) == request = signature /\ series # NoContent

\* Mutant of RequestPerformance: the dates are not checked.
RequestUnchecked(force, before, seen) ==
  /\ IF holdings' = {}
       THEN /\ period' = before /\ signature' = seen /\ error' = TRUE
            /\ UNCHANGED <<asked, performanceLoading, made>>
       ELSE \E request \in Wanted :
            /\ period' = dates' /\ signature' = request
            /\ made < MaxRequests
            /\ Ask(request) /\ made' = made + 1
            /\ performanceLoading' = TRUE /\ error' = FALSE
  /\ Unanswered

\* Mutant of RequestPerformance: the flag is raised before the early return.
RequestFlagged(force, before, seen) ==
  /\ IF ~Valid
       THEN /\ period' = before /\ signature' = seen /\ error' = TRUE
            /\ UNCHANGED <<asked, performanceLoading, made>>
       ELSE \E request \in Wanted :
            /\ period' = dates' /\ signature' = request
            /\ performanceLoading' = TRUE /\ error' = FALSE
            /\ IF ~force /\ UpToDate(request)
                 THEN UNCHANGED <<asked, made>>
                 ELSE /\ made < MaxRequests
                      /\ Ask(request) /\ made' = made + 1
  /\ Unanswered

\* requestPerformanceHistory(force); before and seen are the period and the
\* signature its caller leaves.
RequestPerformance(force, before, seen) ==
  /\ IF ~Valid
       THEN /\ period' = before /\ signature' = seen /\ error' = TRUE
            /\ UNCHANGED <<asked, performanceLoading, made>>
       ELSE \E request \in Wanted :
            /\ period' = dates' /\ signature' = request
            /\ IF ~force /\ UpToDate(request)
                 THEN UNCHANGED <<asked, performanceLoading, error, made>>
                 ELSE /\ made < MaxRequests
                      /\ Ask(request) /\ made' = made + 1
                      /\ performanceLoading' = TRUE /\ error' = FALSE
  /\ Unanswered

\* A quick range, possible while data is loading.
ChooseQuickRange(p) ==
  /\ shown /\ dates' = p
  /\ UNCHANGED <<holdings, shown, series>>
  /\ RequestPerformance(TRUE, p, signature)

\* Dates are typed, and applied.  An input left empty means the date in
\* effect, so that it is no case of its own.
TypeDates(p) ==
  /\ shown /\ dates' = p
  /\ UNCHANGED <<slot, holdings, shown, period, signature, performanceLoading, error, series, made>>

Apply ==
  /\ shown /\ ~performanceLoading
  /\ UNCHANGED <<holdings, shown, dates, series>>
  /\ RequestPerformance(TRUE, period, signature)

\* The page is opened, or is the first one (location.hash).
ShowPage ==
  /\ shown' = TRUE
  /\ UNCHANGED <<holdings, dates, series>>
  /\ RequestPerformance(FALSE, period, signature)

LeavePage ==
  /\ shown /\ shown' = FALSE
  /\ UNCHANGED <<slot, holdings, dates, period, signature, performanceLoading, error, series, made>>

\* A balance arrives or a holding is entered by hand: invalidatePerformance().
ChangeHoldings(h) ==
  /\ holdings' = h
  /\ UNCHANGED <<shown, dates, series>>
  /\ IF shown
       THEN RequestPerformance(TRUE, period, NoRequest)
       ELSE /\ signature' = NoRequest
            /\ UNCHANGED <<slot, period, performanceLoading, error, made>>

\* Mutant of LoadPerformance: a failure leaves no error.
LoadSilently ==
  /\ Hear
  /\ performanceLoading' = FALSE /\ error' = FALSE
  /\ series' = Head(scripts).content
  /\ UNCHANGED <<holdings, shown, dates, period, signature, made>>
  /\ UNCHANGED <<asked, window, loading, worker, task, queue>>

\* load_performance_history
LoadPerformance ==
  /\ Hear
  /\ performanceLoading' = FALSE
  /\ error' = (Head(scripts).content = NoContent)
  /\ series' = Head(scripts).content
  /\ UNCHANGED <<holdings, shown, dates, period, signature, made>>
  /\ UNCHANGED <<asked, window, loading, worker, task, queue>>

-----------------------------------------------------------------------------
(* The worker of requestPortfolioPerformance() *)

\* The bars of all holdings are loaded and have a date in common.
ComputeSeries ==
  /\ Post([of |-> task])
  /\ UNCHANGED page

\* Some are not, or have none, or an exception is caught.
ComputeFails ==
  /\ Post(NoContent)
  /\ UNCHANGED page

-----------------------------------------------------------------------------
WindowActs == (WindowStep \/ SpawnFails(NoContent)) /\ UNCHANGED page
WorkerActs == ComputeSeries \/ ComputeFails \/ (EndStep /\ UNCHANGED page)

UserActs ==
  \/ \E p \in Periods : ChooseQuickRange(p)
  \/ \E p \in Periods \cup {NoPeriod} : TypeDates(p)
  \/ Apply \/ ShowPage \/ LeavePage

BalanceArrives == \E h \in AllHoldings : ChangeHoldings(h)

Next == UserActs \/ BalanceArrives \/ LoadPerformance \/ WindowActs \/ WorkerActs

Safety == Init /\ [][Next]_vars

\* Threads run, requests have time limits, and the page runs its scripts.
Fairness == WF_vars(WindowActs) /\ WF_vars(WorkerActs) /\ WF_vars(LoadPerformance)

Spec == Safety /\ Fairness

-----------------------------------------------------------------------------
(* Properties *)

TypeOK ==
  /\ SlotTypeOK(Requests, Contents)
  /\ holdings \in AllHoldings /\ shown \in BOOLEAN
  /\ dates \in Periods \cup {NoPeriod} /\ period \in Periods
  /\ signature \in Requests \cup {NoRequest}
  /\ performanceLoading \in BOOLEAN /\ error \in BOOLEAN
  /\ series \in Contents \cup {NoContent}
  /\ made \in 0 .. MaxRequests

\* The page is never blank for no reason: it shows a series, says that it is
\* loading, or says what went wrong, whatever was refused or skipped before.
BlankHasReason == shown => performanceLoading \/ error \/ series # NoContent

\* The loading notice disappears.
LoadingEnds == performanceLoading ~> ~performanceLoading

=============================================================================
