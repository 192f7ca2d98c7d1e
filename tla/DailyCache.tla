----------------------------- MODULE DailyCache -----------------------------
(***************************************************************************)
(* Daily bars of one stock: request_overseas_daily_bars() of KISClient and *)
(* the cache that the threads requesting history and performance share.    *)
(*                                                                         *)
(* Time passes in units; a day has DayLength of them.  What a bar says is  *)
(* abstracted to the time at which it was read: the bar of the current day *)
(* changes until the day is over.  The server lists the days of trading,   *)
(* the latest first, a page at a time; before the opening the current day  *)
(* is listed without a price.  Left out: the prices; the choice of the     *)
(* exchange, which is a part of the cache's key (one key is modelled).     *)
(***************************************************************************)
EXTENDS Naturals, FiniteSets, SequencesExt

CONSTANTS
  Workers,                     \* the threads that request bars
  Days,                        \* the last day; days are 1 .. Days
  Traded,                      \* the days of trading
  DayLength, Opening,          \* units of a day; the first one with a price
  CurrentTtl, HistoricalTtl,   \* how long a coverage answers
  PageSize,                    \* rows of a page of the server
  MaxPages, MaxCoverages,      \* limits of the code: 40 and 64
  Records,                     \* values of max_records
  FetchTime,                   \* bound: units a request lasts (it has time limits)
  MaxRequests                  \* bound: requests made

ASSUME DailyConstants ==
  /\ Days \in Nat \ {0} /\ Traded \subseteq 1 .. Days
  /\ DayLength \in Nat \ {0} /\ Opening \in 0 .. DayLength - 1
  /\ CurrentTtl \in Nat /\ HistoricalTtl \in Nat /\ CurrentTtl <= HistoricalTtl
  /\ {PageSize, MaxPages, MaxCoverages} \cup Records \subseteq Nat \ {0}
  /\ FetchTime \in Nat /\ MaxRequests \in Nat

\* A coverage does not outlive the opening of two more days: requests take
\* minutes, the current day is kept for minutes and other days for one day.
ASSUME DailyTimes ==
  /\ CurrentTtl + FetchTime <= DayLength
  /\ HistoricalTtl + FetchTime + Opening <= 2 * DayLength

VARIABLES
  now,         \* the clock
  values,      \* cached bars: when the bar of each cached day was read
  coverages,   \* ranges that have been loaded, oldest first
  fetch,       \* per thread, the request it is loading
  answer,      \* what the last step returned to its caller, if it did
  made         \* requests so far

vars == <<now, values, coverages, fetch, answer, made>>

Dates == 1 .. Days
Times == 0 .. Days * DayLength - 1
Today == now \div DayLength + 1

Requests == {r \in [start : Dates, end : Dates, max : Records] : r.start <= r.end}
Bars == UNION {[D -> Times] : D \in SUBSET Dates}
NoBars == [d \in {} |-> 0]

Idle == [at |-> "idle"]
NoAnswer == [from |-> "none"]

\* The day has a price at time t.
Priced(d, t) == d \in Traded /\ t >= (d - 1) * DayLength + Opening

\* The bars of f, and those of g for the other days.
Over(f, g) == [d \in DOMAIN f \cup DOMAIN g |-> IF d \in DOMAIN f THEN f[d] ELSE g[d]]

Within(r, S) == {d \in S : r.start <= d /\ d <= r.end}
Newest(n, S) == {d \in S : Cardinality({e \in S : e > d}) < n}
Earliest(S) == CHOOSE d \in S : \A e \in S : d <= e

Init ==
  /\ now = 0 /\ made = 0
  /\ values = NoBars /\ coverages = << >>
  /\ fetch = [w \in Workers |-> Idle]
  /\ answer = NoAnswer

-----------------------------------------------------------------------------
(* The cache *)

\* Mutant of Ttl: the current day's bar lives as long as any other.
TtlLong(r) == HistoricalTtl

Ttl(r) == IF r.end < Today THEN HistoricalTtl ELSE CurrentTtl

\* Mutant of Covers: ranges that overlap will do.
CoversPartly(c, r) ==
  now - c.at <= Ttl(r) /\ c.start <= r.end /\ c.end >= r.start

Covers(c, r) == now - c.at <= Ttl(r) /\ c.start <= r.start /\ c.end >= r.end

IsCovered(r) == \E k \in DOMAIN coverages : Covers(coverages[k], r)

Answer(r, from, bars) ==
  answer' = [from |-> from, request |-> r, bars |-> bars, at |-> now]
NothingReturned == answer' = NoAnswer

\* Mutant of FromCache: the oldest records are kept.
FromCacheOldest(r) ==
  LET D == Within(r, DOMAIN values)
  IN  Restrict(values, {d \in D : Cardinality({e \in D : e < d}) < r.max})

\* The last max_records cached bars of the range.
FromCache(r) == Restrict(values, Newest(r.max, Within(r, DOMAIN values)))

Hit(w) ==
  /\ fetch[w] = Idle /\ made < MaxRequests /\ made' = made + 1
  /\ \E r \in Requests : IsCovered(r) /\ Answer(r, "cache", FromCache(r))
  /\ UNCHANGED <<now, values, coverages, fetch>>

Miss(w) ==
  /\ fetch[w] = Idle /\ made < MaxRequests /\ made' = made + 1
  /\ \E r \in Requests :
       /\ ~IsCovered(r)
       /\ fetch' = [fetch EXCEPT ![w] =
                      [at |-> "paging", request |-> r, bars |-> NoBars,
                       bymd |-> r.end, pages |-> 0, reached |-> FALSE, began |-> now]]
  /\ NothingReturned
  /\ UNCHANGED <<now, values, coverages>>

-----------------------------------------------------------------------------
(* Loading *)

\* The rows the server lists up to a day.
Rows(bymd) == Newest(PageSize, {d \in Traded : d <= bymd /\ d <= Today})

\* Nothing older is listed.
ReadEnd(w) ==
  /\ fetch[w].at = "paging" /\ Rows(fetch[w].bymd) = {}
  /\ fetch' = [fetch EXCEPT ![w].at = "loaded", ![w].reached = TRUE]
  /\ NothingReturned
  /\ UNCHANGED <<now, values, coverages, made>>

\* The bars that are taken from a page: those of the range, until there are
\* enough.
Taken(f) ==
  Newest(f.request.max - Cardinality(DOMAIN f.bars),
         {d \in Within(f.request, Rows(f.bymd)) : Priced(d, now)})

Full(f) == Cardinality(DOMAIN f.bars) + Cardinality(Taken(f)) >= f.request.max

\* The oldest row looked at: the loop over the rows ends when there are enough.
OldestSeen(f) == Earliest(IF Full(f) THEN Taken(f) ELSE Rows(f.bymd))

\* Mutant of ReadPage: a full answer counts as the whole range.
ReadPageFull(w) ==
  /\ fetch[w].at = "paging" /\ Rows(fetch[w].bymd) # {}
  /\ LET f == fetch[w]
         reached == Full(f) \/ OldestSeen(f) <= f.request.start
     IN  fetch' = [fetch EXCEPT ![w] = [f EXCEPT
           !.bars = Over([d \in Taken(f) |-> now], f.bars),
           !.pages = f.pages + 1,
           !.bymd = OldestSeen(f) - 1,
           !.reached = reached,
           !.at = IF reached \/ f.pages + 1 = MaxPages THEN "loaded" ELSE "paging"]]
  /\ NothingReturned
  /\ UNCHANGED <<now, values, coverages, made>>

ReadPage(w) ==
  /\ fetch[w].at = "paging" /\ Rows(fetch[w].bymd) # {}
  /\ LET f == fetch[w]
         reached == OldestSeen(f) <= f.request.start
         last == reached \/ Full(f) \/ f.pages + 1 = MaxPages
     IN  fetch' = [fetch EXCEPT ![w] = [f EXCEPT
           !.bars = Over([d \in Taken(f) |-> now], f.bars),
           !.pages = f.pages + 1,
           !.bymd = OldestSeen(f) - 1,
           !.reached = reached,
           !.at = IF last THEN "loaded" ELSE "paging"]]
  /\ NothingReturned
  /\ UNCHANGED <<now, values, coverages, made>>

\* A request of a page fails: nothing of the earlier pages is kept.
ReadFails(w) ==
  /\ fetch[w].at = "paging"
  /\ fetch' = [fetch EXCEPT ![w] = Idle]
  /\ NothingReturned
  /\ UNCHANGED <<now, values, coverages, made>>

\* There is not a single bar: nothing is stored.
StoreNothing(w) ==
  /\ fetch[w].at = "loaded" /\ fetch[w].bars = NoBars
  /\ fetch' = [fetch EXCEPT ![w] = Idle]
  /\ NothingReturned
  /\ UNCHANGED <<now, values, coverages, made>>

\* The range that a loaded request covers.
Coverage(f) ==
  [start |-> IF f.reached THEN f.request.start ELSE Earliest(DOMAIN f.bars),
   end |-> f.request.end, at |-> now]

\* Mutant of Latest: the list of coverages grows.
LatestAll(s) == s

\* Only the latest coverages are kept.
Latest(s) ==
  IF Len(s) > MaxCoverages THEN SubSeq(s, Len(s) - MaxCoverages + 1, Len(s)) ELSE s

Store(w) ==
  /\ fetch[w].at = "loaded" /\ fetch[w].bars # NoBars
  /\ values' = Over(fetch[w].bars, values)
  /\ coverages' = Latest(Append(coverages, Coverage(fetch[w])))
  /\ Answer(fetch[w].request, "server", fetch[w].bars)
  /\ fetch' = [fetch EXCEPT ![w] = Idle]
  /\ UNCHANGED <<now, made>>

-----------------------------------------------------------------------------
\* Time passes, also while a request is loading, but no longer than it lasts.
Tick ==
  /\ now + 1 \in Times
  /\ \A w \in Workers : fetch[w] # Idle => now + 1 <= fetch[w].began + FetchTime
  /\ now' = now + 1
  /\ NothingReturned
  /\ UNCHANGED <<values, coverages, fetch, made>>

Step(w) ==
  Hit(w) \/ Miss(w) \/ ReadEnd(w) \/ ReadPage(w) \/ ReadFails(w)
    \/ StoreNothing(w) \/ Store(w)

Next == Tick \/ \E w \in Workers : Step(w)

Spec == Init /\ [][Next]_vars

-----------------------------------------------------------------------------
(* Properties *)

Loading ==
  [at : {"paging", "loaded"}, request : Requests, bars : Bars, bymd : 0 .. Days,
   pages : 0 .. MaxPages, reached : BOOLEAN, began : Times]
Answers == [from : {"cache", "server"}, request : Requests, bars : Bars, at : Times]

TypeOK ==
  /\ now \in Times /\ made \in 0 .. MaxRequests
  /\ values \in Bars
  /\ coverages \in Seq([start : Dates, end : Dates, at : Times])
  /\ Len(coverages) <= MaxCoverages
  /\ fetch \in [Workers -> {Idle} \cup Loading]
  /\ answer \in {NoAnswer} \cup Answers

\* A coverage promises that its range was loaded without a gap: each bar that
\* had a price when loading may have begun is cached, in a reading not older
\* than that, whatever was loaded and stored by another thread meanwhile.
CoverageIsWhole ==
  \A k \in DOMAIN coverages : \A d \in coverages[k].start .. coverages[k].end :
    LET c == coverages[k] IN
    c.at >= FetchTime /\ Priced(d, c.at - FetchTime)
      => d \in DOMAIN values /\ values[d] + FetchTime >= c.at

\* How far back an answer may look: a range that includes the current day is
\* kept for minutes only, one of the past for a day.
Lifetime ==
  FetchTime + IF answer.request.end <= answer.at \div DayLength
                THEN HistoricalTtl ELSE CurrentTtl

\* The moments at which an answer may have been true.
Moments == {t \in Times : t <= answer.at /\ answer.at <= t + Lifetime}

\* The bars of the range asked for that the server had at a moment.
Had(t) == {d \in Within(answer.request, Traded) : Priced(d, t)}

\* An answer leaves nothing out in the middle, and not the latest days: it holds
\* the latest bars of the range, as the server had them at one moment not further
\* back than a cached range lives.
AnswerHasNoGap ==
  answer # NoAnswer =>
    \E t \in Moments : DOMAIN answer.bars = Newest(Cardinality(DOMAIN answer.bars), Had(t))

\* What comes from the cache is all that was asked for: as many records as were
\* wanted, or each bar of the range that the server had at one such moment.
CacheAnswersInFull ==
  answer # NoAnswer /\ answer.from = "cache"
    => \/ Cardinality(DOMAIN answer.bars) = answer.request.max
       \/ \E t \in Moments : DOMAIN answer.bars = Had(t)

\* No bar in an answer was read longer ago than its range may be cached and a
\* request may last, whatever other threads stored since.
AnswerIsFresh ==
  answer # NoAnswer =>
    \A d \in DOMAIN answer.bars : answer.at <= answer.bars[d] + Lifetime

=============================================================================
