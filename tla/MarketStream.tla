---------------------------- MODULE MarketStream ----------------------------
(***************************************************************************)
(* From the page to the realtime stream and back: the jobs of the listener *)
(* that stop, change and start the stream (MogwaViewListener.cpp), the     *)
(* operations of TradeManager they call, and the status text of the page,  *)
(* which window messages set in the order in which they were posted.       *)
(*                                                                         *)
(* Every job is a thread of its own that locks operation_mutex; the stream *)
(* is what StreamPromise says of it.  Left out: tokens (TradeSession),     *)
(* what an order sends (OrderFlow), the advice, the exchange rate.         *)
(***************************************************************************)
EXTENDS Naturals, FiniteSets, SequencesExt

CONSTANTS
  American, Foreign,   \* stocks traded in the US, which have a daytime session, or elsewhere
  Lists,               \* lists of stocks: holdings, entered by hand, watched
  Keys, NoKey,         \* credentials the user may save, and their absence
  Fallback,            \* what environment variables hold, or NoKey
  Limit,               \* subscriptions of a connection: 40
  MaxTicks,            \* bound: prices per run
  MaxJobs,             \* bound: jobs
  MaxLag               \* bound: messages under way when the user acts

AnyKey == Keys \cup {Fallback, NoKey}
Items == American \cup Foreign

ASSUME MarketConstants ==
  /\ American \cap Foreign = {}
  /\ Lists \subseteq Seq(Items) /\ << >> \in Lists
  /\ NoKey \notin Keys
  /\ Limit \in Nat \ {0} /\ MaxTicks \in Nat /\ MaxJobs \in Nat \ {0}
  /\ MaxLag \in Nat

VARIABLES
  pending,       \* loads of the page whose jobs wait for operation_mutex
  job, at,       \* the job that holds it, and its place
  asked,         \* jobs so far
  stored, key,   \* credentials: saved, in use
  holdings, manual, watch,    \* the manager's three lists
  live, stopping,   \* the stream runs; it was asked to stop
  said,          \* what the running stream has called back
  subject,       \* what it was started with
  queue,         \* messages on their way to the page
  chip,          \* the status text of the page
  missing        \* the page believes there are no credentials

jobVars == <<pending, job, at, asked>>
managerVars == <<stored, key, holdings, manual, watch>>
streamVars == <<live, stopping, said, subject>>
pageVars == <<queue, chip, missing>>
vars == <<jobVars, managerVars, streamVars, pageVars>>

\* One run at a time, the current one.
Stream == INSTANCE StreamPromise WITH Runs <- {1}, run <- 1, heard <- <<said>>

NoSubject == [key |-> NoKey, items |-> << >>]

\* What the page asks for: it is loaded, a list changes, or a button is pressed.
Loads == [kind : {"load"}, manual : Lists, watch : Lists, no : 1 .. MaxJobs]
Requests ==
  [kind : {"manual", "watch"}, list : Lists]
    \cup [kind : {"save"}, key : Keys]
    \cup [kind : {"retry", "clear", "order"}]
NoJob == [kind |-> "none"]

Places == {"free", "verify", "stop", "apply", "order", "refresh", "run", "start"}

Status(s) == [to |-> "load_stream_status", status |-> s]
RuntimeStatus(m) == [to |-> "load_runtime_status", missing |-> m]
Balance == [to |-> "load_balance"]
Price == [to |-> "update_stock_price"]

Init ==
  /\ \E load \in Loads : load.no = 1 /\ pending = {load}
  /\ job = NoJob /\ at = "free" /\ asked = 1
  /\ stored \in Keys \cup {NoKey} /\ key = NoKey
  /\ holdings = << >> /\ manual = << >> /\ watch = << >>
  /\ live = FALSE /\ stopping = FALSE /\ said = << >> /\ subject = NoSubject
  /\ queue = << >> /\ chip = "none" /\ missing = TRUE

-----------------------------------------------------------------------------
(* The keys a run subscribes *)

Primary(i, daytime) == <<IF daytime /\ i \in American THEN "R" ELSE "D", i>>
Alternate(i, daytime) == <<IF daytime THEN "D" ELSE "R", i>>

\* The places of a list where a stock is named for the first time.
Firsts(s) == {n \in DOMAIN s : \A m \in 1 .. n - 1 : s[m] # s[n]}

\* What a list has at some of its places, in the order of the list.
InOrder(s, places) ==
  [k \in 1 .. Cardinality(places) |->
     s[CHOOSE n \in places : Cardinality({m \in places : m < n}) = k - 1]]

AllKeys(items, daytime) ==
  LET distinct == InOrder(items, Firsts(items))
      american == InOrder(items, {n \in Firsts(items) : items[n] \in American})
  IN  [n \in DOMAIN distinct |-> Primary(distinct[n], daytime)]
        \o [n \in DOMAIN american |-> Alternate(american[n], daytime)]

\* Mutant of Plan: the limit is forgotten.
PlanUnlimited(items, daytime) == AllKeys(items, daytime)

\* First the key of the current session for every stock, then the keys of the
\* other session, as far as the limit allows.
Plan(items, daytime) ==
  LET all == AllKeys(items, daytime)
  IN  SubSeq(all, 1, IF Len(all) < Limit THEN Len(all) ELSE Limit)

-----------------------------------------------------------------------------
(* The page asks *)

UserActs == asked < MaxJobs /\ asked' = asked + 1 /\ Len(queue) <= MaxLag

\* Loading the page again resets what it shows, long before its job begins.
Reload ==
  /\ UserActs
  /\ \E load \in Loads : load.no = asked' /\ pending' = pending \cup {load}
  /\ chip' = "none" /\ missing' = TRUE
  /\ UNCHANGED <<job, at, managerVars, streamVars, queue>>

-----------------------------------------------------------------------------
(* A job *)

Goto(p) == at' = p /\ UNCHANGED <<pending, job, asked>>
Release == at' = "free" /\ job' = NoJob /\ UNCHANGED <<pending, asked>>

\* Every job but an order stops the stream; new credentials are verified first.
FirstPlace(j) ==
  CASE j.kind = "order" -> "order" [] j.kind = "save" -> "verify" [] OTHER -> "stop"

Begin(j) == at = "free" /\ job' = j /\ at' = FirstPlace(j)

\* Any job may be the next one.
TakeLoad ==
  /\ \E load \in pending : Begin(load) /\ pending' = pending \ {load}
  /\ UNCHANGED <<asked, managerVars, streamVars, pageVars>>

\* Any other job does nothing before it holds the mutex: it begins then.
TakeRequest ==
  /\ UserActs
  /\ \E request \in Requests : Begin(request)
  /\ UNCHANGED <<pending, managerVars, streamVars, pageVars>>

\* saveKisCredentials() up to the two writes: a failure changes nothing here.
VerifyFails ==
  /\ at = "verify" /\ Release
  /\ UNCHANGED <<managerVars, streamVars, pageVars>>

Verified ==
  /\ at = "verify" /\ Goto("stop")
  /\ stored' = job.key
  /\ UNCHANGED <<key, holdings, manual, watch, streamVars, pageVars>>

\* Mutant of Stop: the flag stays up.
StopForgets ==
  /\ at = "stop" /\ Goto("apply")
  /\ UNCHANGED <<managerVars, streamVars, pageVars>>

\* stopMarketStream(): the stream is asked to stop, and then waited for.
Stop ==
  /\ at = "stop" /\ Goto("apply")
  /\ stopping' = live
  /\ UNCHANGED <<managerVars, live, said, subject, pageVars>>

\* Mutant of Joined: nobody waits for the worker.
JoinedAtOnce == at = "apply"

Joined == at = "apply" /\ ~live

SetLists ==
  /\ Joined /\ job.kind \in {"load", "manual", "watch"}
  /\ manual' = CASE job.kind = "load" -> job.manual
                 [] job.kind = "manual" -> job.list [] OTHER -> manual
  /\ watch' = CASE job.kind = "load" -> job.watch
                [] job.kind = "watch" -> job.list [] OTHER -> watch
  /\ IF job.kind = "load" THEN Goto("refresh")
     ELSE IF key = NoKey THEN Release ELSE Goto("run")
  /\ UNCHANGED <<stored, key, holdings, streamVars, pageVars>>

Retry ==
  /\ Joined /\ job.kind = "retry" /\ Goto("run")
  /\ UNCHANGED <<managerVars, streamVars, pageVars>>

UseSaved ==
  /\ Joined /\ job.kind = "save" /\ Goto("refresh")
  /\ key' = job.key
  /\ holdings' \in Lists
  /\ UNCHANGED <<stored, manual, watch, streamVars, pageVars>>

Clear ==
  /\ Joined /\ job.kind = "clear" /\ Goto("refresh")
  /\ stored' = NoKey /\ key' = NoKey /\ holdings' = << >>
  /\ UNCHANGED <<manual, watch, streamVars, pageVars>>

\* The credential store refuses the deletion: the stream stays stopped.
ClearFails ==
  /\ Joined /\ job.kind = "clear" /\ Release
  /\ UNCHANGED <<managerVars, streamVars, pageVars>>

\* An order that is accepted ends with the balance.
Order ==
  /\ at = "order" /\ Release
  /\ \/ key # NoKey /\ holdings' \in Lists /\ queue' = Append(queue, Balance)
     \/ UNCHANGED <<holdings, queue>>
  /\ UNCHANGED <<stored, key, manual, watch, streamVars, chip, missing>>

\* refresh_dashboard(): the settings are read again and reported.
RefreshedKey == IF stored # NoKey THEN stored ELSE Fallback

RefreshMissing ==
  /\ at = "refresh" /\ RefreshedKey = NoKey /\ Release
  /\ key' = NoKey /\ holdings' = << >>
  /\ queue' = queue \o <<RuntimeStatus(TRUE), Balance>>
  /\ UNCHANGED <<stored, manual, watch, streamVars, chip, missing>>

RefreshFails ==
  /\ at = "refresh" /\ RefreshedKey # NoKey /\ Release
  /\ key' = RefreshedKey
  /\ queue' = queue \o <<RuntimeStatus(FALSE), Status("failed")>>
  /\ UNCHANGED <<stored, holdings, manual, watch, streamVars, chip, missing>>

Refreshed ==
  /\ at = "refresh" /\ RefreshedKey # NoKey /\ Goto("run")
  /\ key' = RefreshedKey /\ holdings' \in Lists
  /\ queue' = queue \o <<RuntimeStatus(FALSE), Balance>>
  /\ UNCHANGED <<stored, manual, watch, streamVars, chip, missing>>

-----------------------------------------------------------------------------
(* runMarketStream() *)

Subscriptions == holdings \o manual \o watch

NothingToRun ==
  /\ at = "run" /\ (key = NoKey \/ Subscriptions = << >>) /\ Release
  \* what comes of it is ignored after a change of a list
  /\ queue' = IF job.kind \in {"manual", "watch"} THEN queue
                                                  ELSE Append(queue, Status("failed"))
  /\ UNCHANGED <<managerVars, streamVars, chip, missing>>

Announce ==
  /\ at = "run" /\ key # NoKey /\ Subscriptions # << >> /\ Goto("start")
  /\ queue' = Append(queue, Status("connecting"))
  /\ UNCHANGED <<managerVars, streamVars, chip, missing>>

\* start() returns false beside a running stream.
Start ==
  /\ at = "start" /\ Release
  /\ live' = TRUE
  /\ subject' = IF live THEN subject ELSE [key |-> key, items |-> Subscriptions]
  /\ queue' = IF live /\ job.kind \notin {"manual", "watch"}
                THEN Append(queue, Status("failed")) ELSE queue
  /\ UNCHANGED <<managerVars, stopping, said, chip, missing>>

JobStep ==
  \/ VerifyFails \/ Verified \/ Stop \/ SetLists \/ Retry \/ UseSaved
  \/ Clear \/ ClearFails \/ Order \/ RefreshMissing \/ RefreshFails \/ Refreshed
  \/ NothingToRun \/ Announce \/ Start

-----------------------------------------------------------------------------
(* The stream calls back; the window thread runs the scripts in order *)

Said(e) == IF e = "tick" THEN Price ELSE Status(e)

CallBack(e) ==
  /\ live /\ Stream!MayFollow(said, e)
  /\ e = "tick" => Cardinality({i \in DOMAIN said : said[i] = "tick"}) < MaxTicks
  /\ said' = Append(said, e)
  /\ queue' = Append(queue, Said(e))
  /\ UNCHANGED <<jobVars, managerVars, live, stopping, subject, chip, missing>>

StreamEnds ==
  /\ live /\ (stopping \/ Stream!Closed(said))
  /\ live' = FALSE /\ stopping' = FALSE /\ said' = << >> /\ subject' = NoSubject
  /\ UNCHANGED <<jobVars, managerVars, pageVars>>

\* Mutant of Shown: the status is shown although nothing can be streamed.
ShownAlways(m) ==
  CASE m.to = "load_stream_status" -> m.status
    [] m.to = "update_stock_price" -> "receiving"
    [] m.to = "load_runtime_status" -> IF m.missing THEN "settings" ELSE "waiting"
    [] m.to = "load_balance" -> IF missing THEN "settings" ELSE "waiting"

\* The status text that a script leaves.
Shown(m) ==
  CASE m.to = "load_stream_status" -> IF missing THEN chip ELSE m.status
    [] m.to = "update_stock_price" -> "receiving"
    [] m.to = "load_runtime_status" -> IF m.missing THEN "settings" ELSE "waiting"
    [] m.to = "load_balance" -> IF missing THEN "settings" ELSE "waiting"

Deliver ==
  /\ queue # << >>
  /\ chip' = Shown(Head(queue))
  /\ missing' = IF Head(queue).to = "load_runtime_status" THEN Head(queue).missing ELSE missing
  /\ queue' = Tail(queue)
  /\ UNCHANGED <<jobVars, managerVars, streamVars>>

Next ==
  \/ Reload \/ TakeLoad \/ TakeRequest \/ JobStep
  \/ (\E e \in Stream!Events : CallBack(e)) \/ StreamEnds
  \/ Deliver

\* Threads are scheduled, and a run that was asked to stop ends (StopEnds of
\* StreamPromise, checked of StreamClient).
Fairness == WF_vars(JobStep) /\ WF_vars(StreamEnds)

Spec == Init /\ [][Next]_vars /\ Fairness

-----------------------------------------------------------------------------
(* Properties *)

TypeOK ==
  /\ pending \subseteq Loads /\ job \in Loads \cup Requests \cup {NoJob}
  /\ asked \in 1 .. MaxJobs
  /\ at \in Places /\ (at = "free" <=> job = NoJob)
  /\ {stored, key} \subseteq AnyKey
  /\ {holdings, manual, watch} \subseteq Lists
  /\ subject \in [key : AnyKey, items : Seq(Items)]
  /\ \A daytime \in BOOLEAN : Len(Plan(subject.items, daytime)) <= Limit
  /\ live \in BOOLEAN /\ stopping \in BOOLEAN /\ said \in Seq(Stream!Events)
  /\ chip \in {"none", "settings", "waiting", "connecting", "connected",
              "receiving", "disconnected", "failed"}
  /\ missing \in BOOLEAN

\* While no job is at work, a running stream uses the credentials in use, and
\* is subscribed to every stock the user entered or watches, if they are not
\* beyond its limit, by the key of the session in which it was started: no
\* change is lost because the stream was already running when it was asked to
\* start.
StreamFollowsManager ==
  at = "free" /\ live =>
    /\ subject.key = key
    /\ Cardinality(ToSet(subject.items)) <= Limit
         => \A i \in ToSet(manual) \cup ToSet(watch), daytime \in BOOLEAN :
              Primary(i, daytime) \in ToSet(Plan(subject.items, daytime))

\* The last word of the running stream, "connecting" before it said anything.
LastWord ==
  IF said = << >> THEN "connecting"
  ELSE IF Last(said) = "tick" THEN "receiving" ELSE Last(said)

\* Once every message has arrived the status text says what the running stream
\* said last: neither its start nor the end of an earlier one overtakes that.
\* (Only an accepted order, which shows a balance, goes back to "waiting".)
\* Without credentials the page asks for them, whatever the stream sent before.
ChipFollowsStream ==
  at = "free" /\ pending = {} /\ queue = << >> =>
    /\ live => chip \in {LastWord, "waiting"}
    /\ key = NoKey => ~live /\ chip = "settings"

\* Every job lets operation_mutex go: none waits for ever for a stream that
\* nobody asked to stop, and with it all the jobs that come after.
JobsEnd == (at # "free") ~> (at = "free")

=============================================================================
