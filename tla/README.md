# A verification project for Mogwa

Mogwa is a Windows desktop program (C++20, MFC, WebView2) that shows a KIS
(Korea Investment & Securities) overseas stock portfolio, streams prices over a
WebSocket, keeps price history, and places orders. This directory holds TLA+
models of its core, the TLC runs that check them on small instances, and the
TLAPS proofs of what holds for every instance. Paths below are relative to
`src/Mogwa/`.

## 1. The system

### Components, state, operations

| component | files | state | operations |
|---|---|---|---|
| Stream client | `Investment/KISStreamClient.*` | `_running`, `_worker`, `_active_socket`, `_approval_key`, `_approval_identity`, two mutexes; locals of one worker thread | `start`, `stop`, `run` (the worker), three callbacks |
| REST client | `Investment/KISClient.*` | last error per instance; a process-wide request gate; a process-wide daily-bar cache and minute-bar cache | token, approval key, balance, exchange rate, quote, order, daily bars, minute bars |
| Trade manager | `Investment/TradeManager.*` | `_settings`, `_credentials_available`, `_token`, `_balance` and its age, exchange rate, advice cache, subscription lists, three worker threads with loading flags, `_last_error` | `initialize`, `updateBalance`, `updateExchangeRate`, `runMarketStream`, `stopMarketStream`, `set*Subscriptions`, `requestPortfolioHistory`, `requestPerformanceHistory`, `requestRealtimeQuote`, `placeOverseasOrder`, `save/clearKisCredentials`, `save/clearOpenAi…`, `requestAdvice` |
| Token row | `DB/DBManager.*`, `lib/sql_lite.*` | one row of `userinfo` in `localdata.db` | `initialize`, `saveToken`, `loadToken`, `clearToken` |
| Credential store | `Investment/AppConfig.*` | entries of the Windows credential store; environment variables | `load`, `store_*`, `clear_*` |
| Listener | `MogwaViewListener.*` | `operation_mutex` | one detached thread per message of the page; posts scripts to the window |
| Window | `MogwaView.*`, `L2Webview/*` | the message queue | runs posted scripts in the page, owns the payload of a message it receives |
| Page | `View/MainScreen.html` | `state` (holdings, trade form, orders, trend, quotes, watch list, loading flags, credentials) | `load_*` functions called by scripts, event listeners that post messages |
| Advice | `lib/chat_gpt_fn.*` | none | one HTTP request of at most 20 s |

### How they interact

The page posts a message. `OnWebviewMessageReceive` runs on the window thread;
history, performance and quote requests start one of three worker threads there,
everything else starts a detached thread (a *job*) that takes `operation_mutex`
and calls the trade manager. Jobs and workers answer by `PostMessage`; the window
turns each message into a script call in the page, in the order of its queue. The
stream client's worker calls back into the trade manager, which posts too.

The three requests that start a worker first ask for an access token, on the
window thread (`ensureAccessToken`, `TradeManager.cpp:383`, `594`, `810`): the
window then waits for a token request, its own or another thread's.

So there are at any time: the window thread, one job inside `operation_mutex`
(and others waiting for it), up to three workers, and one stream worker. They
share `_token` (under `_token_mutex`), `_settings`, `_credentials_available` and
`_last_error` (under nothing, for the workers), the database row, the KIS
account, the request gate, and the message queue.

### What is hard

* The stream worker uses blocking socket calls; `stop()` runs on another thread,
  closes the socket under it and joins it. Every order of the two matters.
* The token is refreshed lazily by whichever thread notices that it has expired,
  while a job may exchange or delete the credentials it belongs to.
* A save of credentials writes the database, then the credential store, then
  memory, with a rollback; the process may end in between.
* An order is sent again after an expired token, may be accepted with the answer
  lost, and is followed by a balance from a cache.
* Results of several jobs and workers reach the page through one queue, and may
  arrive when the page has moved on.

### What makes each component correct

* Stream client: one worker at a time; the socket closed from outside is alive;
  the flag means what it says; the approval key fits the credentials; callbacks
  of a run come in order, cease when `stop()` returns, and end with a reason;
  `stop()` returns.
* Trading session: `_token` was created with the key in `_settings`; requests carry
  matching pairs (a token request that a save spans breaks both, see
  `session_tag`); a save takes effect after both writes or not at all; deleted
  credentials leave no token behind.
* Order flow: an order is accepted at most once; what is listed as accepted was;
  the form is locked while anything is in flight and unlocks in the end, if the
  price stream, for which jobs wait, stops when told to; shown holdings never go
  back.
* Daily bars of the REST client: an answer has no gap, one from the cache is all
  that was asked for, and none is older than its range may be cached, whatever
  other threads load and store at the same time.
* History, performance and quotes: a loading flag of the page never stays up; a
  portfolio of which a part is missing is never shown; what can be ordered is what
  was asked for last; a late result of an old request should not pass for the
  answer to a newer one (it does, see `history_holdings`).
* Stream management: a change of the credentials, the holdings or a list reaches
  the stream, which is stopped before and started after it; the status text of
  the page follows the stream that runs; no operation waits for ever (under the
  condition of `stream_live`).

`PROJECT.json` lists under `hazards` each place where one of these could go wrong.

## 2. Modules

| module | what it is |
|---|---|
| `StreamPromise` | what the stream promises its user: runs, and the callbacks each may make |
| `StreamClient` | the threads of `KISStreamClient`; refines `StreamPromise` |
| `MCStreamClient` | constants for TLC |
| `StreamClientProofs` | the safety invariants of `StreamClient` and that it implements `StreamPromise`, proved |
| `TradeSession` | credentials and token, shared by the job, window and worker threads, with crashes |
| `MCTradeSession` | constants for TLC |
| `TradeSessionProofs` | the safety invariants of `TradeSession`, proved |
| `OrderFlow` | an order from the form to the server and back |
| `MCOrderFlow` | constants for TLC |
| `RequestSlot` | how the page gets something from a background worker: one flag, one thread, one message of the window |
| `HistoryPage` | extends `RequestSlot`: the trend chart |
| `PerformancePage` | extends `RequestSlot`: the analysis page |
| `QuotePage` | extends `RequestSlot`: realtime page and trade form |
| `MCHistoryPage`, `MCPerformancePage`, `MCQuotePage` | constants for TLC |
| `OrderFlowProofs` | the safety properties of `OrderFlow`, proved |
| `HistoryPageProofs`, `PerformancePageProofs`, `QuotePageProofs` | the pages' safety properties, proved |
| `DailyCache` | daily bars: paging, limits and the cache that threads share |
| `MarketStream` | the composition: page, jobs, trade manager, `StreamPromise` in place of the stream, messages back |
| `MCDailyCache`, `MCMarketStream` | constants for TLC |
| `DailyCacheProofs`, `MarketStreamProofs` | the safety invariants of both, proved |

In the modules an operator named in a comment as a *mutant* of another is a
plausible mistake in the same code. `PROJECT.json` pairs each property with one
that breaks it, which shows that the property depends on the code being as it is.

### StreamClient

A *run* is one worker thread, numbered by the `start()` that spawned it. The
variables are the members of the class, the locals of `run()` per run, the place
of each caller inside `start()`/`stop()`, and what was observed (`heard`: the
callbacks so far; `stopped`: runs somebody asked to stop). A step goes from one
point where another thread or the server can be noticed to the next.

`start()` is `StartRefused`, or `StartEnter` (flag checked under
`_lifecycle_mutex`), `StartJoin` (the previous worker), `StartSpawn` or
`StartThrows` (the thread cannot be created). `stop()` is `StopFlag`,
`StopSocket` (close `_active_socket`), `StopLock`, `StopJoin`. The worker is
`UseApproval`/`RequestApproval` …, `Register` (construct the socket and publish
it), `Resolve`, `CheckResolved`, `Connect`, `HandshakeAnswered`/`HandshakeCut`,
`CheckShaken`, `Subscribe`, `Loop`, the reads (`ReadAccepted`, `ReadRejected`,
`ReadPing`, `ReadTick`, `ReadBroken`, `ReadCut`), `Deliver`/`Emit`, the close
handshake, `FinalStatus`, the scope guards `Unregister` and `Destroy`, `Catch`
and `End`. *Cut* actions are blocking calls ended by a closed socket. Reading
the approval key and requesting it are steps of their own, because a failing
request empties it.

Callers are unrestricted: any number of threads calling in any order, which is
more than `operation_mutex` lets happen. That makes the safety results
independent of the listener. `stop()` called from a callback, on the worker's own
thread, is left out: nothing in the program does that.

### TradeSession

Threads are `Op` (whoever holds `operation_mutex`), `Ui` (the window thread) and
`Workers`. A token is the app key it was created with (`owner`), the app key whose
hash it is tagged with (`tag`, all that the code can look at) and a serial number;
an app key stands for key, secret and account. `_token_mutex` is `tokenLock`; the database
row is `db`, the credential store `store`. `initialize` is `OpLoad` …
`ForceIssue`; `ensureAccessToken` is `Ensure*`; `requestAndStoreAccessTokenLocked`
is `BeginIssue`, `TokenIssued`/`IssueFails`, `TokenSaved`, `TokenAdopted`, each of
which other threads may be noticed between. `request_token()` reads the app key
from the settings twice, for its request (`BeginIssue` remembers it in `asking`)
and, after the answer, for the tag (`TokenIssued`); a save between the two makes
`owner` and `tag` differ, and `spanned` observes that this has happened. An account
request with its retry is
`Snapshot`, `Answered`, `Expired`, `ReuseToken`/`RefreshToken`; the credentials
are deleted by `ClearStore` … `ClearDone` and saved by `SaveBegin` …
`SaveCommitToken` with `SaveRollback`. `Age` makes the oldest fresh token one to
be refreshed; `Crash` ends the process anywhere and keeps `db` and `store`.

### OrderFlow

The page's form and holdings, the window's queue, jobs under `operation_mutex`,
the manager's balance with its 15-second life, and the account at the server. A
job is an order (`Lock`, `OrderRefused`/`TokenEnsured`, `OrderAccepted`,
`OrderFails`, `TokenExpired`, `TokenRefreshed`, `AnswerArrives`/`AnswerLost`,
`UpdateBalanceAfterOrder`, `ReportOrder`, `PostBalance`), the refresh at startup,
or a save of credentials for the account in use. The last two call
`stopMarketStream()` before anything else (`StartupStopped`) and after the
persistent writes (`SaveStored`, then `SaveCommitted`), and wait for the worker of
the stream with the mutex held; of the stream there is no more than whether this
wait ends. `Fill` is an order executed at
the market, and changes the account behind the program's back.

### RequestSlot, HistoryPage, PerformancePage, QuotePage

`requestPortfolioHistory`, `requestPortfolioPerformance` and
`requestRealtimeQuote` are built alike, so that `RequestSlot` models the three
once: `asked` (messages of the page), the window thread (`Ensure`, the wait for an
access token; `Refuse` before or after it; `Accept` by compare-and-exchange of the
loading flag, `Spawn` after joining the previous
worker, `SpawnFails`), the worker (`Post` its message, `Release` the flag,
`Leave`), `queue` and `Deliver`, and `scripts`, the calls on their way back. The
page is a process of its own: between a request and its refusal it can act, and
so it can between a refusal and the reply to the request that was in the way.
The window thread takes messages of the page and of its queue in any order.

The page modules add the page's state and say what a request holds and what a
worker may make of it:

* `HistoryPage`: holdings entered by hand and of the account, the selected range,
  `historyLoading`, the historical candles (as the request they answer and the
  tickers they add up) and whether a candle of the current value follows them.
  `RequestHistory` is the end of `SelectRange`, `EditManual` and `LoadBalance`.
* `PerformancePage`: the page's dates, period, `signature` and series.
  `RequestPerformance` has the code's three ends: invalid, up to date, asked.
  The signature is part of the state since it decides what is asked for again.
* `QuotePage`: `selected` and the trade form's `request`, `quote` and
  `orderPrice`. A price is represented by the ticker it is a price of.

### DailyCache

`request_overseas_daily_bars()` and its file-static cache. Time passes in units
of which a day has a few, because what matters about a bar is when it was read:
the current day's changes until the day is over, and before the opening the
server lists the day without a price. `values` is the map of bars and `coverages`
the list of ranges loaded, both under one mutex that is held once to look
(`Hit`/`Miss`) and once to store (`Store`), with the pages read in between by
`ReadPage` and `ReadEnd`, `ReadFails` and `StoreNothing` for the ways out.
`Ttl`, `Covers`, `FromCache`, `Rows`, `Taken`, `OldestSeen`, `Coverage` and
`Latest` are the code's conditions and loops. `answer` is observed: what the last
step returned to its caller. One stock on one exchange is modelled, the cache's
key; `Tick` lets time pass while requests are loading, but no request lasts
longer than its time limits allow (`FetchTime`). `DailyTimes` assumes of the
lifetimes what those of the code satisfy (5 minutes, 24 hours, and requests of
minutes): no coverage outlives the openings of two more days.

### MarketStream

What the listener does with the stream: jobs `load`, `manual`, `watch`, `save`,
`retry`, `clear` and `order`, each of which holds `operation_mutex` from its
beginning to its end. `at` is the place of the job that holds it: `Stop` and
`Joined` are the two halves of `stopMarketStream()`; `SetLists`, `UseSaved`,
`Clear` and `Retry` are what each job changes then; `Refreshed`, `RefreshFails`
and `RefreshMissing` are the ends of `refresh_dashboard()`; `NothingToRun`,
`Announce` and `Start` are `runMarketStream()`. `Plan` is the worker's choice of
the keys it subscribes.

The stream is `StreamPromise`, restricted to the run that lives: `CallBack` may do
what `MayFollow` allows, `StreamEnds` when it was asked to or has said why. Since
`StreamClient` implements `StreamPromise` (proved), the jobs are composed with the
promise and not with the threads.

`queue` holds what was posted to the window; `Deliver` runs the next script in
the page, and `Shown` is the status text it leaves. Loading the page again resets
what it shows at once, long before its job begins: such jobs wait in `pending`.
Any other job does nothing before it holds the mutex, so that it begins with
taking it (`TakeRequest`). Left out: tokens (`TradeSession`), what an order sends
(`OrderFlow`), the advice and the exchange rate.

## 3. Runs

| run | cfg | checks | bounds |
|---|---|---|---|
| `stream_safety` | `StreamClientSafety.cfg` | `TypeOK`, `AtMostOneWorker`, `SocketAlive`, `FlagTracksRun`, `KeyBelongsToRun`, `StopLeavesNoWorker`, `KeepsPromise` | 2 callers, 2 identities, 2 runs, 2 subscription keys, 1 tick |
| `stream_live` | `StreamClientLive.cfg` | `StopReturns`, `StartReturns`, `StopEnds` under `ResponsiveSpec` | 1 caller, 2 runs, 1 key |
| `stream_silent` | `StreamClientSilent.cfg` | `StopReturns` under `Spec` is **violated** | 1 caller, 1 run |
| `session` | `TradeSession.cfg` | `TypeOK`, `TokenBound`, `OpRequestBound`, `SaveIsAtomic`, `ErasedWithCredentials` | 2 keys, 1 worker, 3 tokens, no environment |
| `session_tag` | `TradeSessionTag.cfg` | `CreatorAdopts` is **violated** | 2 keys, 1 worker, 2 tokens, no environment |
| `order` | `OrderFlow.cfg` | `TypeOK`, `AcceptedOnce`, `ListedIsAccepted`, `NothingInFlight`, `ShownMovesForward`; `SubmittingEnds` under `ResponsiveSpec` | 3 jobs, 1 share, 1 fill |
| `history` | `HistoryPage.cfg` | `TypeOK`, `JoinsOnlyLeavingWorker`, `LoadingEnds` | 2 tickers, 2 ranges, 3 requests |
| `history_holdings` | `HistoryPageHoldings.cfg` | `HistoryCoversHoldings` is **violated** | 2 tickers, 2 requests |
| `performance` | `PerformancePage.cfg` | `TypeOK`, `BlankHasReason`, `LoadingEnds` | 1 period and invalid dates, 2 portfolios, 3 requests |
| `quote` | `QuotePage.cfg` | `TypeOK`, `TradeQuoteIsRequested`, `TradeWaitsForOwnReply`, `TradeLoadingEnds` | 2 tickers on 2 exchanges, 2 requests |
| `daily_cache` | `DailyCache.cfg` | `TypeOK`, `CoverageIsWhole`, `AnswerHasNoGap`, `CacheAnswersInFull`, `AnswerIsFresh` | 2 threads, 3 requests; 4 days of 2 units, the first a holiday; pages of 2 rows, at most 2 pages and 2 coverages; 1 or 9 records |
| `market` | `MarketStream.cfg` | `TypeOK`, `StreamFollowsManager`, `ChipFollowsStream`, `JobsEnd` | 3 jobs, 2 stocks, empty or full lists, limit of 2 keys, 1 tick per run, empty environment |

Why the bounds are enough. Two runs of the stream are the smallest instance in
which a run can disturb the next, and `start()` joins the first before the second
begins, so a third meets the same state as the second; two callers give every
overlap of `start()` with `stop()` and of `stop()` with itself; two keys give an
acknowledgement that is neither first nor last. Two app keys are an old and a new
account; three tokens let one be replaced, rejected and replaced again; the
worker, the window thread and the operation thread are three competitors for
`_token_mutex`. The theorems carry both modules' safety properties to every
instance, also to those with credentials in the environment. Three jobs are the
startup refresh and any two of orders and saves: two orders, or an order and a
save, are what can be confused. In the page modules three requests are one that
is computed, one that is refused because of it, and one made after that refusal;
a slot holds no more than the first of them. (Two have to do for quotes, whose replies are told apart by two
names.) Two ranges, periods, portfolios or instruments tell an old answer
from a new one.

For daily bars the limits of the code (40 pages, 64 coverages) are scaled down so
that they are met: pages of two rows give an answer cut in the middle of a page,
one that needs a second page, one that ends where the server has no more (the
range begins with the holiday), and one that stops at the limit of pages before
the range is loaded. Two threads and three requests let one thread store between
the look and the store of another and a third request be answered from both. A
day of two units has a time before and one after the opening. In `market` the page
is loaded first, then come two more jobs of any kind, a second loading among
them, in any order: a job, the job whose stream it stops, and the one that comes
between. The list of two stocks needs three keys, one more than the limit. The
user acts when no message is under way (`MaxLag`), jobs and the stream at any time.

`CHECK_DEADLOCK FALSE` stands where the bounded run comes to an end: all jobs
done and nothing more to press.

### Fairness

* `ThreadsRun`: weak fairness of each thread's next step. The operating system
  schedules threads; curl calls have limits (`configure_request`: 5 s to connect,
  15 s in all), as have name lookup and TCP connect of the system. A
  `std::mutex` promises no order, so weak fairness of taking it is assumed only
  where the competitors are finitely many: in `OrderFlow` each job takes the
  mutex once.
* `ServerShakesHands` (in `ResponsiveSpec` only): the server answers a WebSocket
  handshake. The code does not guarantee it; `handshake()` at
  `KISStreamClient.cpp:183` has no time limit. That assumption is what separates
  `stream_live` from `stream_silent`.
* `StopsReturn` (in `ResponsiveSpec` of `OrderFlow` only): a job that waits in
  `stopMarketStream()` goes on. This is `StopReturns` of the stream, which
  `stream_live` checks under `ServerShakesHands` and `stream_silent` shows to fail
  without it. `SubmittingEnds` holds under this condition only: with a silent
  server the job waits under `operation_mutex`, an order queued behind it is never
  sent, and its form stays locked. The jobs `OrderFlow` leaves out (lists, retry,
  deletion) hold the mutex under the same condition, see `JobsEnd`.
* `PageHears`: the window thread takes its messages in order.
* In the page modules, weak fairness of the window thread, of the worker and of
  the page's taking its scripts: each has always something it can do until it is
  done. Requests of a worker, and the token request that the window thread makes
  or waits for, end by their time limits.

* `MarketStream`: the job that holds the mutex goes on, and a run that was asked
  to stop ends. The latter is `StopEnds`, which `stream_live` checks of the
  threads and `stream_silent` shows to fail under a silent server: `JobsEnd` holds
  under the same condition.

Nothing obliges the server to acknowledge, to send ticks, or the user to act.

### What the violated runs show

* `stream_silent`: `stop()` closes the socket once. If the worker is between the
  check at line 181 and `connect()` at line 182 the socket is opened again, and
  the worker then waits in `handshake()` for as long as the server stays silent;
  `stop()` waits in `join()`. `../README.md:29` says that shutdown does not hang.
* `session_tag`: a worker (or the window thread) asks for a token with the old app
  key; a save of other credentials assigns `_settings` (`TradeManager.cpp:1073`,
  without `_token_mutex`); then the answer is tagged with the app key in the
  settings (`KISClient.cpp:317`), stored (`TradeManager.cpp:156`), and adopted by
  the dashboard refresh after the save (`TradeManager.cpp:225-230`). The program
  then uses a token of the old account with the new credentials until it expires
  or the server refuses it. `KISDomain.h:13-14` says that the tag binds a token to
  the app key that created it. `TokenBound` and `OpRequestBound` say what is left:
  the *tag* always is that of the app key in use, and the creator is that app key
  as long as no save has spanned a token request.
* `history_holdings`: a reply carries no mark of its request that the page would
  look at. A request made while the slot is busy is refused, which ends the
  loading state, and then the reply to the *older* request arrives and is shown
  under what was selected since: candles without a holding that the current total
  includes, against the comment at `MainScreen.html:4130`. Nothing is under way
  then that would put it right.

### Behaviours seen without a run

No document says otherwise of these, so they are no violations; they can be
followed in the models.

* `PerformancePage`: in the way of `history_holdings`, the series of one period
  can be shown under another, and counts as up to date when the page is opened
  again. In `QuotePage`, daily bars can come under the title of minute bars.
* `QuotePage`: when only minute bars could be read the reply has no quote, and
  `MainScreen.html:5327` keeps the fields of the quote selected before. The order
  form then shows one stock with the price of another, and offers that price.
* `OrderFlow`: if the answer to an accepted order is lost the page lists a
  failure, "could not connect to the order server" (`KISClient.cpp:765`). A page
  that is loaded again while an order is in flight has an unlocked form.
* `TradeSession`: `refreshAccessTokenAfterExpiration` reuses any other fresh token.
  After a save of credentials it is the new account's, and a worker started before
  sends it with the old app key, which KIS refuses; the comment
  (`TradeManager.cpp:183-184`) thinks of a refresh of the same token.
* `MarketStream`: a retry without credentials leaves its button disabled, because
  the page drops every status while it believes there are none
  (`MainScreen.html:4309`). Stopping a stream that is connecting, with lists that
  are empty then, leaves "connecting" on the page with no stream. An accepted order
  puts "waiting" in place of "connected" (`MainScreen.html:4100`), which
  `ChipFollowsStream` allows and therefore cannot catch. Jobs take the mutex in
  any order, so that an older list may win. A holding bought since is not streamed before the next start. A
  failed deletion of the credentials leaves the stream stopped.
* `DailyCache`: a range that ended with the current day when it was loaded is
  served up to a day from the next day on, with that day's bar as it was read, or
  without it (`KISClient.cpp:810-818`); and a slower thread may store an older
  reading over a newer one. The lifetimes in `AnswerIsFresh` and
  `AnswerHasNoGap` allow both.

Three statements are contradicted by the text of the program and need no run. The
comment at `TradeManager.cpp:988-989` promises a refreshed account snapshot after an
accepted order, but `updateBalance()` (line 990) requests none when the balance is
at most 15 seconds old (lines 247-250), so that the balance posted is the one of
before the order. Of `../README.md`, line 47 says that order placement is left
out and that the program is read-only, while `placeOverseasOrder` sends real
orders; and line 35 describes a `DEMO DATA` badge that the page does not have.

## 4. Proofs

Every invariant and every action property of a passing run is a theorem:
it holds for every value of the constants that satisfies the named assumptions.
These are `StreamConstants` (the bounds are naturals; `NoCaller` and `NoKey` are
not real ones), `SessionConstants`, `NobodyIsAThread`, `NoTokenIsNone` (the special
values are distinct from the real ones; the environment names at most one key;
`Op`, `Ui` and workers are different threads), `OrderConstants`, `NoSnapshotIsNone`
and those of the pages, likewise, `DailyConstants` (a day's opening is within the
day, limits are positive), `DailyTimes` (above) and `MarketConstants` (lists are
lists of stocks; an absent key is not a key).

**`StreamClientProofs`**. None of the safety invariants is inductive as it
stands. `CoreInv` is `TypeOK`, `LockInv` (a caller inside the locked part of
`start()` or `stop()` holds `_lifecycle_mutex`, and the one about to spawn has
joined the previous worker) and `LatestInv` (the only worker that can be alive is
the latest, and `_worker` is its handle). Everything a worker does is first
reduced to `WorkerMoves`, so that `CoreInv` needs one case for all its actions.
On top of it: the flag (`FlagIsFaithful`), the socket pointer (`SocketIsAlive`),
the approval key (`KeyIsOwn`), `OneWorker`, and the action property `StopIsFinal`.

In the same module, `ImplementsPromise`: `Safety => Promise!Spec`, with
the mapping given at the end of `StreamClient`. The invariant relates a worker's
place to what it has said: it has said "connected" exactly when `notified`, has
said nothing final before its last places, and at its end has said why unless
somebody asked it to stop. Then each action is a step of the promise or a stutter.

**`TradeSessionProofs`**. `SessionInv` is the conjunction of `TypeOK`, `LockInv`
(the holder of `_token_mutex` is the thread issuing a token), `MintedInv` (the tag of a token
on its way into `_token` fits the settings, except between the assignment of the
settings and that of the token, `Exchanging`), `SettingsInv` (what is in use is
what a restart would load), `OperationInv` (what the thread holding
`operation_mutex` relies on at each of its places), `ErasedInv`, `BoundInv` (the
tags of the shared token and of what an account request carries are those of the
key in use) and `CreatorInv`. `BoundInv` alone is not inductive: a worker may be in
the middle of a token request when the key changes, and only `LockInv` and
`MintedInv` say why its tag cannot land on the wrong side. `CreatorInv` adds who
created the token: until a save has spanned a token request, one under way was
made with the key in use, and every token, in memory, in the row or on its way, is
tagged for its creator or for no key at all (when the credentials were deleted
meanwhile), so that a tag that fits names the creator. `CreatorAdopts`, without
that condition, is false (`session_tag`).

**`OrderFlowProofs`**. From `OrderConstants` and `NoSnapshotIsNone`. `OrderInv`
says where an order is: `AcceptedInv` (a job whose order was accepted has left the
places from which it submits, so that no retry can submit it again), `ResultInv`
(a job's result is posted once, from the last places of the job, and is in the
queue or in the list, never in both) and `FormInv` (at most one order is at work
or has its result on its way, and the form is locked for it). `AcceptedOnce`,
`ListedIsAccepted` and `NothingInFlight` follow. Most steps of jobs are first
reduced to one `QuietMove`. `ShownMovesForward` needs another argument: `MutexInv`
(whoever is between reading and posting a balance holds `operation_mutex`) and
`AgeInv`, a chain: the balance shown is no newer than those in the queue, these in
their order no newer than the manager's, this no newer than a job's reading, and
that no newer than the account. Without the mutex a slower job could store an
older reading; `StoreKeepsAges` is where it is used.

**The pages.** `SlotInv` is what all three rest on: the flag is up from the
acceptance of a request until the reply is posted; hence whoever joins a worker
finds one that is leaving. Each of the modules has `SlotKept` for its own requests
and replies: whoever acts, the slot keeps its types and `SlotInv`.

* **`HistoryPageProofs`**, from `HistoryConstants` and `NothingIsNone`: `TypeOK` and
  `JoinsOnlyLeavingWorker`.
* **`PerformancePageProofs`**, from `PerformanceConstants` and `NothingIsNone`:
  `TypeOK` and `BlankHasReason`, of which the core is `RequestKeepsInv`: each of the
  three ends of `requestPerformanceHistory()` leaves a reason.
* **`QuotePageProofs`**, from `QuoteConstants`: `TypeOK`, `TradeQuoteIsRequested` and
  `TradeWaitsForOwnReply`. The last follows the request through the messages, the
  worker, the window's queue and the scripts: each step hands it on
  (`WindowAnswers`, `WorkerAnswers`), and the page, when it takes a reply and goes
  on waiting, took one to somebody else (`HearAnswers`).

**`DailyCacheProofs`**, from `DailyConstants` and `DailyTimes`. The properties
speak of one moment at which the server had what an answer holds; the difficulty is
that an answer takes several pages, and days go by between them.

* `LoadInv`: what a request has loaded is all that the server had at *one* moment
  since it began, that of its first page, down to the day where the next page
  starts (`Snapshot`). Later pages only ask for earlier days, whose prices were
  there at that moment (`PageKeepsSnapshot`, `EndKeepsSnapshot`).
* `CoverInv`: a coverage inherits that moment when it is stored (`Whole`), and other
  threads' stores, of older readings even, keep it, because bars are added and
  replaced and never removed. This gives `CoverageIsWhole`.
* `AnswerInv`: between the moment of a coverage and its expiry at most one more day
  gets its price. This is where the lifetimes matter and `DailyTimes` is used
  (`OneNewDay`). So the cached bars of a covered range are what the server had then
  or what it had later (`CacheIsOfOneMoment`), and the newest `max_records` of them are an
  answer without a gap. `AnswerHasNoGap`, `CacheAnswersInFull` and `AnswerIsFresh`
  are read off.

None of this depends on how many threads load at once, in what order they store,
or on the sizes of pages and limits.

**`MarketStreamProofs`**, from `MarketConstants`. `JobInv`: a job past the join finds
no stream, so that nothing a stream was started with changes under it. `StreamInv`:
a running stream has the key in use and a list that ends with what the user entered
and watches. With `PlanHasAll`, by which the worker's choice has every stock's key
of the session if there are no more stocks than the limit, this gives
`StreamFollowsManager`, and `TypeOK`'s bound on the plan for lists of any length.
`PageInv` is the invariant `ChipFollowsStream` needs: it speaks of a page with no
message under way, so that the messages under way have to be accounted for. Once
the page was told of the credentials after it was loaded (`Told`), the queue
*settles* what the page knows (`Settles`: it holds already and no message undoes
it, or some message makes it so and no later one undoes that), and the last message
of the queue leaves the text that belongs to the stream (`Ending`). Each action that
posts keeps this, because the report of the credentials is posted before anything
that depends on them (`ToldByMessages`, `StillTold`); taking a message keeps it by
`Arrives`.

TLC checked each of the inductive invariants on its module's run before the proof.

Left to TLC: the liveness properties (`StopReturns`, `StartReturns`, `StopEnds`,
`SubmittingEnds`, `LoadingEnds`, `TradeLoadingEnds`, `JobsEnd`), because the prover
has neither `ENABLED` nor fairness. What needs induction over data is proved by the
least element instead (`FirstNumber`, from `WFMin` and `NatLessThanWellFounded`), as
the places of a list in `Plan` and the page limits need it.

## 5. Plan

Done: the stream and its promise, the trading session, the order flow, the three
page modules, the daily bars and the composition around the stream, all checked
and proved. To come:

1. `MinuteCache`: the caches of quotes and minute bars, and the choice of a US
   exchange by trial.
2. Loading the page again in `OrderFlow`, with what becomes of an order then.
3. The credential forms and the watch list of the page.
4. Proofs: an abstract cache, whose answers are snapshots, implemented by
   `DailyCache`; action properties of `MarketStream`.

## 6. Not modelled

* The caches of quotes and of minute bars: one value per key, replaced whole, with
  a time to live; the choice of the exchange of a US stock by trial, and the
  interval between two requests.
* A full window queue (`PostMessage` fails, the result is dropped); prices below
  0.00005, which an order sends as "0" (`KISClient.cpp:714`); replies without
  `rt_cd`, which count as success (`KISClient.cpp:139`); an approval key kept after
  all subscriptions were rejected (`KISStreamClient.cpp:323`); `initialize()`, which
  may put an older token of the database in place of one that a worker has just
  obtained (`TradeManager.cpp:229`).
* SQL, JSON and credential-store formats; each database call is one atomic
  statement. HTTP and WebSocket framing.
* The OpenAI key and the advice; they touch no state of the rest.
* Charts, layout, formatting and wording of the page.
* The WebView2 host and the MFC shell: set-up on one thread, no logic.
* Data races on `_last_error` and `_settings` beyond their order: each reading of a
  string is whole. That the app key is read twice for one token is modelled.
* How long the window thread waits for a token (5 s to connect, 15 s in all for its
  own request, more behind other threads): the models have the wait and no clock
  for it.
