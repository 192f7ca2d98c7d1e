----------------------------- MODULE OrderFlow -----------------------------
(***************************************************************************)
(* An overseas stock order from the page to the KIS server and back.       *)
(*                                                                         *)
(* The page (MainScreen.html) posts a message; the listener starts a       *)
(* detached thread, a job, which takes operation_mutex, calls TradeManager *)
(* and posts what the page shall hear to the window's message queue.       *)
(* Other jobs under the same mutex stop the price stream and refresh the   *)
(* dashboard, when the page has loaded and after credentials were saved.   *)
(*                                                                         *)
(* Left out: ticker, price and exchange of an order (refusals they cause   *)
(* are those of OrderRefused); saving the credentials of another account   *)
(* or deleting them, which is TradeSession's; the exchange rate and the    *)
(* advice, which a refresh asks for last, and its start of the stream,     *)
(* which finds no worker to join once the stream was stopped; the jobs     *)
(* that only change lists or restart the stream.  Of the stream itself     *)
(* there is whether its stop() returns: see StreamStops.                   *)
(***************************************************************************)
EXTENDS Naturals, Sequences

CONSTANTS
  Jobs,        \* bound: the detached threads ever started
  NoJob,
  NoSnapshot,
  MaxShares,   \* bound: shares the account can sell
  MaxFills     \* bound: changes of the account by executed orders

ASSUME OrderConstants ==
  /\ NoJob \notin Jobs
  /\ MaxShares \in Nat /\ MaxFills \in Nat

Shares == 0 .. MaxShares

\* A balance reading: the shares that can be sold, and which of the account's
\* successive states it shows.
Snapshots == [orderable : Shares, version : Nat]

ASSUME NoSnapshotIsNone == NoSnapshot \notin Snapshots

VARIABLES
  \* the page
  submitting,   \* state.trade.submitting
  shown,        \* the balance load_balance was last called with
  orders,       \* state.trade.orders, oldest first
  queue,        \* the window's message queue
  \* the jobs
  place, selling,
  reading,      \* the balance a request has returned
  mutex,        \* holder of operation_mutex
  succeeded,    \* orders placeOverseasOrder returns true for
  \* TradeManager
  balance,      \* _balance
  fresh,        \* _balance_updated_at lies at most balance_cache_ttl back
  \* the server
  account,      \* what a balance request returns
  accepted,     \* the orders it has accepted
  fills         \* changes of the account so far

page == <<submitting, shown, orders>>
manager == <<balance, fresh>>
server == <<account, accepted, fills>>
job == <<place, selling, reading, mutex, succeeded>>
vars == <<page, queue, manager, server, job>>

OrderPlaces == {"order", "ensure", "submit", "answering", "refresh", "resubmit",
                "update_balance", "balance_read", "report"}
RefreshPlaces == {"startup", "stop_stream", "save", "verify", "commit", "stop_saved",
                  "initialize", "load_balance", "refresh_read"}
Places == {"none", "post_balance", "done"} \cup OrderPlaces \cup RefreshPlaces

Result(j, ok) == [kind |-> "result", job |-> j, success |-> ok]
Balance(s) == [kind |-> "balance", snapshot |-> s]

\* The page asks for its first dashboard as it is loaded.
Init ==
  /\ submitting = FALSE /\ shown = NoSnapshot /\ orders = << >>
  /\ queue = << >>
  /\ \E first \in Jobs : place = [j \in Jobs |-> IF j = first THEN "startup" ELSE "none"]
  /\ selling = [j \in Jobs |-> 0]
  /\ reading = [j \in Jobs |-> NoSnapshot]
  /\ mutex = NoJob
  /\ succeeded = {}
  /\ balance = NoSnapshot /\ fresh = FALSE
  /\ account \in [orderable : Shares, version : {0}]
  /\ accepted = << >> /\ fills = 0

Go(j, p) == place' = [place EXCEPT ![j] = p]

Moves(j, p) ==
  /\ Go(j, p)
  /\ UNCHANGED <<page, queue, manager, server, selling, reading, mutex, succeeded>>

-----------------------------------------------------------------------------
(* The page *)

ShownOrderable == IF shown = NoSnapshot THEN 0 ELSE shown.orderable

\* Mutant of SubmitOrder: the quantity may exceed what can be sold by one.
SubmitOneTooMany(j) ==
  /\ place[j] = "none"
  /\ ~submitting
  /\ \E n \in 0 .. ShownOrderable + 1 : selling' = [selling EXCEPT ![j] = n]
  /\ submitting' = TRUE
  /\ Go(j, "order")
  /\ UNCHANGED <<shown, orders, queue, manager, server, reading, mutex, succeeded>>

\* The order form is submitted and confirmed.  Buying is selling no shares.
\* The button is disabled while an order is being submitted.
SubmitOrder(j) ==
  /\ place[j] = "none"
  /\ ~submitting
  /\ \E n \in 0 .. ShownOrderable : selling' = [selling EXCEPT ![j] = n]
  /\ submitting' = TRUE
  /\ Go(j, "order")
  /\ UNCHANGED <<shown, orders, queue, manager, server, reading, mutex, succeeded>>

\* The credentials form is submitted, for the account in use.
SaveCredentials(j) ==
  /\ place[j] = "none"
  /\ Moves(j, "save")

\* load_order_result
LoadOrderResult ==
  /\ queue # << >> /\ Head(queue).kind = "result"
  /\ submitting' = FALSE
  /\ orders' = Append(orders, Head(queue))
  /\ queue' = Tail(queue)
  /\ UNCHANGED <<shown, manager, server, job>>

\* Mutant of LoadBalance: it also unlocks the form.
LoadBalanceAndUnlock ==
  /\ queue # << >> /\ Head(queue).kind = "balance"
  /\ shown' = Head(queue).snapshot
  /\ submitting' = FALSE
  /\ queue' = Tail(queue)
  /\ UNCHANGED <<orders, manager, server, job>>

\* load_balance
LoadBalance ==
  /\ queue # << >> /\ Head(queue).kind = "balance"
  /\ shown' = Head(queue).snapshot
  /\ queue' = Tail(queue)
  /\ UNCHANGED <<submitting, orders, manager, server, job>>

-----------------------------------------------------------------------------
(* A job: the detached thread of a message *)

AfterLock(p) ==
  CASE p = "order" -> "ensure" [] p = "startup" -> "stop_stream" [] p = "save" -> "verify"

\* Mutant of Lock: the operation mutex excludes nobody.
LockShared(j) ==
  /\ place[j] \in {"order", "startup", "save"}
  /\ mutex' = j
  /\ Go(j, AfterLock(place[j]))
  /\ UNCHANGED <<page, queue, manager, server, selling, reading, succeeded>>

Lock(j) ==
  /\ place[j] \in {"order", "startup", "save"} /\ mutex = NoJob
  /\ mutex' = j
  /\ Go(j, AfterLock(place[j]))
  /\ UNCHANGED <<page, queue, manager, server, selling, reading, succeeded>>

Post(j, message, next) ==
  /\ queue' = Append(queue, message)
  /\ Go(j, next)
  /\ mutex' = IF next = "done" THEN NoJob ELSE mutex
  /\ UNCHANGED <<page, manager, server, selling, reading, succeeded>>

\* The job is over: its lock is released as the thread function returns.
Leave(j) ==
  /\ Go(j, "done")
  /\ mutex' = NoJob
  /\ UNCHANGED <<page, queue, manager, server, selling, reading, succeeded>>

(* placeOverseasOrder() *)

\* No credentials, an order the checks do not pass, or no access token.
OrderRefused(j) ==
  /\ place[j] = "ensure"
  /\ Moves(j, "report")

TokenEnsured(j) ==
  /\ place[j] = "ensure"
  /\ Moves(j, "submit")

\* request_overseas_order: the server takes the order.  Shares that are for
\* sale cannot be sold again.
OrderAccepted(j) ==
  /\ place[j] \in {"submit", "resubmit"}
  /\ selling[j] <= account.orderable
  /\ accepted' = Append(accepted, j)
  /\ account' = [orderable |-> account.orderable - selling[j], version |-> account.version + 1]
  /\ Go(j, "answering")
  /\ UNCHANGED <<page, queue, manager, fills, selling, reading, mutex, succeeded>>

\* Mutant of OrderFails: the reply's result code is not looked at.
OrderFailsUnnoticed(j) ==
  /\ place[j] \in {"submit", "resubmit"}
  /\ succeeded' = succeeded \cup {j}
  /\ Go(j, "update_balance")
  /\ UNCHANGED <<page, queue, manager, server, selling, reading, mutex>>

\* ... or refuses it, or is not reached.
OrderFails(j) ==
  /\ place[j] \in {"submit", "resubmit"}
  /\ Moves(j, "report")

\* isLastErrorTokenExpired(): the order is sent again, once, after a new token
\* was obtained.
TokenExpired(j) ==
  /\ place[j] = "submit"
  /\ Moves(j, "refresh")

TokenRefreshed(j) ==
  /\ place[j] = "refresh"
  /\ Moves(j, "resubmit") \/ Moves(j, "report")

AnswerArrives(j) ==
  /\ place[j] = "answering"
  /\ succeeded' = succeeded \cup {j}
  /\ Go(j, "update_balance")
  /\ UNCHANGED <<page, queue, manager, server, selling, reading, mutex>>

\* Mutant of AnswerLost: any failure counts as an expired token.
AnswerLostRetried(j) ==
  /\ place[j] = "answering"
  /\ Moves(j, "refresh")

\* The time limit passes first, or the answer cannot be read: the caller sees
\* a failure other than an expired token.
AnswerLost(j) ==
  /\ place[j] = "answering"
  /\ Moves(j, "report")

(* updateBalance() *)

\* A balance at most 15 seconds old is not requested again.
BalanceCached(j, next) ==
  /\ fresh
  /\ Moves(j, next)

BalanceRead(j, next) ==
  /\ ~fresh
  /\ reading' = [reading EXCEPT ![j] = account]
  /\ Go(j, next)
  /\ UNCHANGED <<page, queue, manager, server, selling, mutex, succeeded>>

BalanceFails(j, next) ==
  /\ ~fresh
  /\ Go(j, next)
  /\ UNCHANGED <<page, queue, manager, server, selling, reading, mutex, succeeded>>

BalanceStored(j, next) ==
  /\ balance' = reading[j] /\ fresh' = TRUE
  /\ reading' = [reading EXCEPT ![j] = NoSnapshot]
  /\ Go(j, next)
  /\ UNCHANGED <<page, queue, server, selling, mutex, succeeded>>

\* Its result is not looked at after an order.
UpdateBalanceAfterOrder(j) ==
  \/ /\ place[j] = "update_balance"
     /\ \/ BalanceCached(j, "report")
        \/ BalanceRead(j, "balance_read")
        \/ BalanceFails(j, "report")
  \/ place[j] = "balance_read" /\ BalanceStored(j, "report")

(* The listener's part *)

\* Mutant of ReportOrder: only successes are reported.
ReportSuccess(j) ==
  /\ place[j] = "report"
  /\ IF j \in succeeded THEN Post(j, Result(j, TRUE), "post_balance") ELSE Leave(j)

ReportOrder(j) ==
  /\ place[j] = "report"
  /\ Post(j, Result(j, j \in succeeded), IF j \in succeeded THEN "post_balance" ELSE "done")

\* What getBalance() has, be it the empty balance of before the first reading.
PostBalance(j) ==
  /\ place[j] = "post_balance"
  /\ Post(j, Balance(balance), "done")

-----------------------------------------------------------------------------
(* Refreshing the dashboard *)

\* saveKisCredentials(): the balance read to verify the account is kept once
\* everything is stored.
SaveVerified(j) ==
  /\ place[j] = "verify"
  /\ reading' = [reading EXCEPT ![j] = account]
  /\ Go(j, "commit")
  /\ UNCHANGED <<page, queue, manager, server, selling, mutex, succeeded>>

\* Token row and credentials are written.
SaveStored(j) ==
  /\ place[j] = "commit"
  /\ Moves(j, "stop_saved")

SaveFails(j) ==
  /\ place[j] \in {"verify", "commit"}
  /\ Leave(j)

\* stopMarketStream() has returned, before what was saved is put to use ...
SaveCommitted(j) ==
  /\ place[j] = "stop_saved"
  /\ BalanceStored(j, "initialize")

\* ... and before the lists of a page that has loaded are.
StartupStopped(j) ==
  /\ place[j] = "stop_stream"
  /\ Moves(j, "initialize")

\* refresh_dashboard(): an error is shown when initialize() or updateBalance()
\* fails.
Initialized(j) ==
  /\ place[j] = "initialize"
  /\ Moves(j, "load_balance")

RefreshFails(j) ==
  /\ place[j] \in {"initialize", "load_balance"}
  /\ place[j] = "load_balance" => ~fresh
  /\ Leave(j)

UpdateBalance(j) ==
  \/ /\ place[j] = "load_balance"
     /\ BalanceCached(j, "post_balance") \/ BalanceRead(j, "refresh_read")
  \/ place[j] = "refresh_read" /\ BalanceStored(j, "post_balance")

-----------------------------------------------------------------------------
(* The environment *)

\* An order is executed at the market.
Fill ==
  /\ fills < MaxFills
  /\ fills' = fills + 1
  /\ \E n \in Shares : account' = [orderable |-> n, version |-> account.version + 1]
  /\ UNCHANGED <<page, queue, manager, accepted, job>>

CacheExpires ==
  /\ fresh
  /\ fresh' = FALSE
  /\ UNCHANGED <<page, queue, balance, server, job>>

-----------------------------------------------------------------------------
Ordering(j) ==
  \/ OrderRefused(j) \/ TokenEnsured(j) \/ OrderAccepted(j) \/ OrderFails(j)
  \/ TokenExpired(j) \/ TokenRefreshed(j) \/ AnswerArrives(j) \/ AnswerLost(j)
  \/ UpdateBalanceAfterOrder(j) \/ ReportOrder(j)

Refreshing(j) ==
  \/ SaveVerified(j) \/ SaveStored(j) \/ SaveFails(j) \/ Initialized(j) \/ RefreshFails(j)
  \/ UpdateBalance(j)

JobProceeds(j) == Lock(j) \/ Ordering(j) \/ Refreshing(j) \/ PostBalance(j)

\* The job has joined the worker of the stream.
StreamStops(j) == StartupStopped(j) \/ SaveCommitted(j)

PageHears == LoadOrderResult \/ LoadBalance

Next ==
  \/ \E j \in Jobs : SubmitOrder(j) \/ SaveCredentials(j) \/ JobProceeds(j) \/ StreamStops(j)
  \/ PageHears
  \/ Fill \/ CacheExpires

Safety == Init /\ [][Next]_vars

\* Threads run, requests have time limits (configure_request), and the window
\* takes its messages in order.  Nothing is assumed of a job that waits in
\* stopMarketStream().
Fairness == (\A j \in Jobs : WF_vars(JobProceeds(j))) /\ WF_vars(PageHears)

Spec == Safety /\ Fairness

\* stop() returns: StopReturns of StreamClient, which holds when the server
\* answers WebSocket handshakes.  The code does not guarantee it: with a silent
\* server a job may wait here for ever, and all jobs behind it.
StopsReturn == \A j \in Jobs : WF_vars(StreamStops(j))

ResponsiveSpec == Spec /\ StopsReturn

-----------------------------------------------------------------------------
(* Properties *)

Messages == [kind : {"result"}, job : Jobs, success : BOOLEAN]
              \cup [kind : {"balance"}, snapshot : Snapshots \cup {NoSnapshot}]

TypeOK ==
  /\ submitting \in BOOLEAN
  /\ shown \in Snapshots \cup {NoSnapshot}
  /\ orders \in Seq(Messages) /\ queue \in Seq(Messages)
  /\ place \in [Jobs -> Places] /\ selling \in [Jobs -> Shares]
  /\ reading \in [Jobs -> Snapshots \cup {NoSnapshot}]
  /\ mutex \in Jobs \cup {NoJob}
  /\ succeeded \in SUBSET Jobs
  /\ balance \in Snapshots \cup {NoSnapshot} /\ fresh \in BOOLEAN
  /\ account \in Snapshots /\ accepted \in Seq(Jobs) /\ fills \in 0 .. MaxFills

\* One confirmed order reaches the market at most once, although it is sent
\* again after an expired token and although answers get lost.
AcceptedOnce ==
  \A m, n \in DOMAIN accepted : accepted[m] = accepted[n] => m = n

\* An order the page lists as accepted was accepted by the server, and is
\* listed once.
ListedIsAccepted ==
  \A m \in DOMAIN orders :
    /\ orders[m].success => \E n \in DOMAIN accepted : accepted[n] = orders[m].job
    /\ \A n \in DOMAIN orders : orders[m].job = orders[n].job => m = n

\* While the page lets the user submit an order none of the orders before can
\* still reach the server.
NothingInFlight ==
  ~submitting =>
    \A j \in Jobs : place[j] \notin OrderPlaces

\* The holdings the page shows, against which a sale is checked, never go
\* back to an earlier state of the account: the jobs post their balances in
\* the order they read them.
ShownMovesForward ==
  [][shown' # shown /\ shown # NoSnapshot => shown'.version >= shown.version]_vars

\* The form does not stay locked: every order is answered.  Under StopsReturn;
\* without it an order queued behind a job that waits for the stream is not.
SubmittingEnds == submitting ~> ~submitting

=============================================================================
