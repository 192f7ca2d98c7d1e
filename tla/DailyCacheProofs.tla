-------------------------- MODULE DailyCacheProofs --------------------------
(***************************************************************************)
(* Proofs about DailyCache: for any number of threads and requests, any    *)
(* days of trading, sizes of pages, limits and lifetimes.                  *)
(*                                                                         *)
(* The argument: however many pages it took, what a request has loaded is  *)
(* what the server had at one moment, that of the first page (Snapshot).   *)
(* A coverage inherits that moment, and until it expires at most one more  *)
(* day gets its price (OneNewDay), so that what the cache holds of a       *)
(* covered range is what the server had then or has now.                   *)
(***************************************************************************)
EXTENDS DailyCache, FiniteSetTheorems, TLAPS

\* What has been loaded is all that the server had at some moment since the
\* request began, down to the day where the next page starts.
Snapshot(f) ==
  \E t \in Times :
    /\ f.began <= t /\ t <= now
    /\ DOMAIN f.bars = {d \in Within(f.request, Traded) : d > f.bymd /\ Priced(d, t)}
    /\ f.pages > 0 => f.bymd <= t \div DayLength
    /\ f.reached => \A d \in Within(f.request, Traded) : Priced(d, t) => d > f.bymd

\* A thread that is loading has not yet enough, and has not been at it for
\* longer than a request lasts.
Loads(f) ==
  /\ f.began <= now /\ now <= f.began + FetchTime
  /\ f.bymd <= f.request.end
  /\ f.pages = 0 => f.bymd = f.request.end
  /\ f.at = "paging" => Cardinality(DOMAIN f.bars) < f.request.max /\ f.pages < MaxPages
  /\ \A d \in DOMAIN f.bars :
       f.began <= f.bars[d] /\ f.bars[d] <= now /\ Priced(d, f.bars[d])
  /\ Snapshot(f)

LoadInv == \A w \in Workers : fetch[w] # Idle => Loads(fetch[w])

\* A bar was read when there was a price.
ValuesInv == \A d \in DOMAIN values : values[d] <= now /\ Priced(d, values[d])

\* Of its range a coverage has what the server had at one moment of loading, in
\* readings that are not older than the request was.
Whole(c, bars, time) ==
  /\ c.at <= time
  /\ \E t \in Times :
       /\ t <= c.at /\ c.at <= t + FetchTime
       /\ \A d \in Dates : c.start <= d /\ d <= c.end /\ Priced(d, t) => d \in DOMAIN bars
  /\ \A d \in DOMAIN bars : c.start <= d /\ d <= c.end => c.at <= bars[d] + FetchTime

CoverInv == \A k \in DOMAIN coverages : Whole(coverages[k], values, now)

\* The bars of a range that the server had at a moment, and how far back an
\* answer at a time may look.
HadIn(r, t) == {d \in Within(r, Traded) : Priced(d, t)}
LooksBack(r, time) ==
  FetchTime + IF r.end <= time \div DayLength THEN HistoricalTtl ELSE CurrentTtl

\* One moment accounts for all that an answer holds and all that it leaves out.
Answered(a) ==
  /\ \E t \in Times :
       /\ t <= a.at /\ a.at <= t + LooksBack(a.request, a.at)
       /\ DOMAIN a.bars = Newest(Cardinality(DOMAIN a.bars), HadIn(a.request, t))
       /\ a.from = "cache" => \/ Cardinality(DOMAIN a.bars) = a.request.max
                              \/ DOMAIN a.bars = HadIn(a.request, t)
  /\ \A d \in DOMAIN a.bars : a.at <= a.bars[d] + LooksBack(a.request, a.at)

AnswerInv == answer # NoAnswer => Answered(answer)

CacheInv == TypeOK /\ LoadInv /\ ValuesInv /\ CoverInv

Inv == CacheInv /\ AnswerInv

-----------------------------------------------------------------------------
(* Sets of days *)

\* Days are few.
LEMMA DaysAreFinite ==
  ASSUME NEW S \in SUBSET Dates
  PROVE  /\ IsFiniteSet(S) /\ Cardinality(S) \in Nat
         /\ \A T \in SUBSET S : IsFiniteSet(T) /\ Cardinality(T) <= Cardinality(S)
  <1>1. IsFiniteSet(Dates)
    BY DailyConstants, FS_Interval DEF Dates
  <1>2. IsFiniteSet(S)
    BY <1>1, FS_Subset
  <1>. QED
    BY <1>2, FS_Subset, FS_CardinalityType

\* There is a first number in any set of them.
LEMMA FirstNumber ==
  ASSUME NEW S \in SUBSET Nat, S # {}
  PROVE  \E first \in S : \A n \in S : first <= n
  <1>. DEFINE less == {p \in Nat \X Nat : p[1] < p[2]}
  <1>1. IsWellFoundedOn(less, Nat)
    BY NatLessThanWellFounded DEF OpToRel
  <1>. HIDE DEF less
  <1>2. PICK first \in S : \A n \in S : <<n, first>> \notin less
    BY <1>1, WFMin
  <1>3. \A n \in S : <<n, first>> \in Nat \X Nat
    OBVIOUS
  <1>4. \A n \in S : ~(n < first)
    BY <1>2, <1>3 DEF less
  <1>. QED
    BY <1>4

\* What Earliest says it is.
LEMMA EarliestIsFirst ==
  ASSUME NEW S \in SUBSET Dates, S # {}
  PROVE  Earliest(S) \in S /\ \A d \in S : Earliest(S) <= d
  <1>1. \E d \in S : \A e \in S : d <= e
    BY FirstNumber DEF Dates
  <1>. QED
    BY <1>1 DEF Earliest

\* There is a last day, too.
LEMMA LastDay ==
  ASSUME NEW S \in SUBSET Dates, S # {}
  PROVE  \E last \in S : \A d \in S : d <= last
  <1>. DEFINE distances == {Days - d : d \in S}
  <1>1. distances \in SUBSET Nat /\ distances # {}
    <2>1. \A d \in S : Days - d \in Nat
      BY DailyConstants DEF Dates
    <2>. QED
      BY <2>1
  <1>2. PICK first \in distances : \A n \in distances : first <= n
    BY <1>1, FirstNumber
  <1>3. PICK last \in S : first = Days - last
    OBVIOUS
  <1>4. \A d \in S : Days - last <= Days - d
    BY <1>2, <1>3
  <1>. QED
    BY <1>4, DailyConstants DEF Dates

\* The days after a day of S.
After(d, S) == {e \in S : e > d}

\* The n newest days of S are at most n, with each of them all later ones, and
\* all of S if S has no more.
LEMMA NewestDays ==
  ASSUME NEW S \in SUBSET Dates, NEW n \in Nat
  PROVE  /\ Newest(n, S) \in SUBSET S
         /\ \A d \in Newest(n, S), e \in S : e > d => e \in Newest(n, S)
         /\ Cardinality(Newest(n, S)) <= n
         /\ Cardinality(Newest(n, S)) < n => Newest(n, S) = S
         /\ n > 0 /\ S # {} => Newest(n, S) # {}
  <1>. DEFINE N == Newest(n, S)
  <1>0. \A d \in S : d \in Nat
    BY DEF Dates
  <1>1. N \in SUBSET S /\ N = {d \in S : Cardinality(After(d, S)) < n}
    BY DEF Newest, After
  <1>2. IsFiniteSet(N) /\ Cardinality(N) \in Nat
    BY <1>1, DaysAreFinite
  <1>3. \A d \in S : After(d, S) \in SUBSET S /\ After(d, S) \in SUBSET Dates
    BY DEF After
  <1>4. \A d \in N, e \in S : e > d => e \in N
    <2>. SUFFICES ASSUME NEW d \in N, NEW e \in S, e > d
                  PROVE  Cardinality(After(e, S)) < n
      BY <1>1
    <2>1. After(e, S) \in SUBSET After(d, S)
      BY <1>0, <1>1 DEF After
    <2>2. Cardinality(After(e, S)) <= Cardinality(After(d, S))
      BY <1>1, <1>3, <2>1, DaysAreFinite
    <2>. QED
      BY <1>1, <1>3, <2>2, DaysAreFinite
  <1>5. Cardinality(N) <= n
    <2>1. CASE N = {}
      BY <2>1, FS_EmptySet
    <2>2. CASE N # {}
      <3>1. PICK first \in N : \A d \in N : first <= d
        <4>1. N \in SUBSET Nat
          BY <1>0, <1>1
        <4>. QED
          BY <2>2, <4>1, FirstNumber
      <3>2. N \ {first} \in SUBSET After(first, S)
        BY <1>0, <1>1, <3>1 DEF After
      <3>3. Cardinality(N \ {first}) <= Cardinality(After(first, S))
        BY <1>1, <1>3, <3>2, DaysAreFinite
      <3>4. Cardinality(N \ {first}) = Cardinality(N) - 1
        BY <1>2, FS_RemoveElement
      <3>5. Cardinality(After(first, S)) < n /\ Cardinality(After(first, S)) \in Nat
        BY <1>1, <1>3, DaysAreFinite
      <3>. QED
        BY <1>2, <3>3, <3>4, <3>5
    <2>. QED
      BY <2>1, <2>2
  <1>6. ASSUME N # S PROVE Cardinality(N) >= n
    <2>1. S \ N \in SUBSET Dates /\ S \ N # {}
      BY <1>1, <1>6
    <2>2. PICK last \in S \ N : \A d \in S \ N : d <= last
      BY <2>1, LastDay
    <2>3. After(last, S) \in SUBSET N
      BY <1>0, <2>2 DEF After
    <2>4. ~(Cardinality(After(last, S)) < n)
      BY <1>1, <2>2
    <2>. QED
      BY <1>1, <1>2, <1>3, <2>2, <2>3, <2>4, DaysAreFinite
  <1>7. n > 0 /\ S # {} => N # {}
    BY <1>6, FS_EmptySet
  <1>. HIDE DEF N
  <1>8. Cardinality(N) < n => N = S
    BY <1>2, <1>6
  <1>9. N = Newest(n, S)
    BY DEF N
  <1>. QED
    BY <1>1, <1>4, <1>5, <1>7, <1>8, <1>9

\* A part of S that has with each day all later ones is the newest of S.
LEMMA UpperPart ==
  ASSUME NEW S \in SUBSET Dates, NEW U \in SUBSET S,
         \A d \in U, e \in S : e > d => e \in U
  PROVE  U = Newest(Cardinality(U), S)
  <1>1. IsFiniteSet(U) /\ Cardinality(U) \in Nat
    BY DaysAreFinite
  <1>2. \A d \in S : d \in Nat
    BY DEF Dates
  <1>3. \A d \in S : After(d, S) \in SUBSET S /\ After(d, S) \in SUBSET Dates
    BY DEF After
  <1>4. ASSUME NEW d \in U PROVE Cardinality(After(d, S)) < Cardinality(U)
    <2>1. After(d, S) \in SUBSET (U \ {d})
      BY <1>2 DEF After
    <2>2. /\ Cardinality(U \ {d}) = Cardinality(U) - 1
          /\ U \ {d} \in SUBSET Dates
      BY <1>1, FS_RemoveElement
    <2>3. Cardinality(After(d, S)) <= Cardinality(U \ {d})
      BY <2>1, <2>2, DaysAreFinite
    <2>. QED
      BY <1>1, <1>3, <2>2, <2>3, DaysAreFinite
  <1>5. ASSUME NEW d \in S \ U PROVE ~(Cardinality(After(d, S)) < Cardinality(U))
    <2>1. U \in SUBSET After(d, S)
      BY <1>2 DEF After
    <2>. QED
      BY <1>1, <1>3, <2>1, DaysAreFinite
  <1>. QED
    BY <1>4, <1>5 DEF Newest, After

-----------------------------------------------------------------------------
(* Days and their prices *)

LEMMA TimeIsNumber == \A t \in Times : t \in Nat /\ t \div DayLength \in Nat
  BY DailyConstants DEF Times

\* A day keeps its price, gets it when it has come, and has it when it is over.
LEMMA PriceOfDay ==
  ASSUME NEW t \in Times, NEW d \in Dates
  PROVE  /\ \A u \in Times : Priced(d, t) /\ t <= u => Priced(d, u)
         /\ Priced(d, t) => d \in Traded /\ d <= t \div DayLength + 1
         /\ d \in Traded /\ d <= t \div DayLength => Priced(d, t)
  <1>. DEFINE q == t \div DayLength
              start == (d - 1) * DayLength
  <1>1. /\ t \in Nat /\ DayLength \in Nat \ {0} /\ Opening \in 0 .. DayLength - 1
        /\ d \in Nat \ {0} /\ \A u \in Times : u \in Nat
    BY DailyConstants DEF Times, Dates
  <1>2. q \in Nat /\ q * DayLength <= t /\ t < (q + 1) * DayLength /\ start \in Nat
    BY <1>1
  <1>3. \A u \in Times : Priced(d, t) /\ t <= u => Priced(d, u)
    BY <1>1, <1>2 DEF Priced
  <1>4. ASSUME Priced(d, t) PROVE d \in Traded /\ d <= q + 1
    <2>1. start <= t
      BY <1>1, <1>2, <1>4 DEF Priced
    <2>2. ASSUME q + 1 <= d - 1 PROVE FALSE
      <3>1. (q + 1) * DayLength <= start
        BY <1>1, <1>2, <2>2
      <3>. QED
        BY <1>1, <1>2, <2>1, <3>1
    <2>. QED
      BY <1>1, <1>2, <1>4, <2>2 DEF Priced
  <1>5. ASSUME d \in Traded, d <= q PROVE Priced(d, t)
    <2>1. d * DayLength <= q * DayLength
      BY <1>1, <1>2, <1>5
    <2>2. d * DayLength = start + DayLength
      BY <1>1
    <2>. QED
      BY <1>1, <1>2, <1>5, <2>1, <2>2 DEF Priced
  <1>. QED
    BY <1>3, <1>4, <1>5

\* As long as a coverage may answer for a range, at most one more day of it gets
\* its price.
LEMMA OneNewDay ==
  ASSUME NEW t \in Times, NEW u \in Times, NEW r \in Requests,
         u <= t + FetchTime + IF r.end < u \div DayLength + 1 THEN HistoricalTtl
                                                              ELSE CurrentTtl,
         NEW d \in Dates, NEW e \in Dates, e < d, d <= r.end,
         Priced(d, u), Priced(e, u)
  PROVE  Priced(e, t)
  <1>. DEFINE q == u \div DayLength
              start == (e - 1) * DayLength
  <1>1. /\ t \in Nat /\ u \in Nat /\ DayLength \in Nat \ {0} /\ Opening \in Nat
        /\ d \in Nat /\ e \in Nat \ {0} /\ r.end \in Nat
        /\ FetchTime \in Nat /\ HistoricalTtl \in Nat /\ CurrentTtl \in Nat
    BY DailyConstants DEF Times, Dates, Requests
  <1>2. /\ q \in Nat /\ q * DayLength <= u
        /\ start \in Nat /\ (e + 1) * DayLength = start + 2 * DayLength
        /\ e * DayLength = start + DayLength
    BY <1>1
  <1>. SUFFICES ASSUME t < start + Opening
                PROVE  FALSE
    BY <1>1, <1>2 DEF Priced
  <1>3. (d - 1) * DayLength >= start + DayLength
    <2>1. (d - 1) * DayLength >= e * DayLength
      BY <1>1
    <2>. QED
      BY <1>1, <1>2, <2>1
  <1>4. u >= start + DayLength + Opening
    BY <1>1, <1>2, <1>3 DEF Priced
  <1>5. CASE r.end < q + 1
    <2>1. e + 1 <= q
      BY <1>1, <1>2, <1>5
    <2>2. (e + 1) * DayLength <= q * DayLength
      BY <1>1, <1>2, <2>1
    <2>3. u >= start + 2 * DayLength
      BY <1>1, <1>2, <2>2
    <2>. QED
      BY <1>1, <1>2, <1>5, <2>3, DailyTimes
  <1>6. CASE ~(r.end < q + 1)
    BY <1>1, <1>2, <1>4, <1>6, DailyTimes
  <1>. QED
    BY <1>5, <1>6

-----------------------------------------------------------------------------
(* Bars *)

\* Bars are readings of some days.
LEMMA BarsAreReadings ==
  ASSUME NEW b
  PROVE  b \in Bars <=> /\ DOMAIN b \in SUBSET Dates /\ b = [d \in DOMAIN b |-> b[d]]
                        /\ \A d \in DOMAIN b : b[d] \in Times
  <1>1. ASSUME b \in Bars
        PROVE  /\ DOMAIN b \in SUBSET Dates /\ b = [d \in DOMAIN b |-> b[d]]
               /\ \A d \in DOMAIN b : b[d] \in Times
    BY <1>1 DEF Bars
  <1>2. ASSUME DOMAIN b \in SUBSET Dates, b = [d \in DOMAIN b |-> b[d]],
               \A d \in DOMAIN b : b[d] \in Times
        PROVE  b \in Bars
    <2>1. b \in [DOMAIN b -> Times]
      BY <1>2
    <2>. QED
      BY <1>2, <2>1 DEF Bars
  <1>. QED
    BY <1>1, <1>2

\* Bars over bars are bars.
LEMMA OverIsBars ==
  ASSUME NEW f \in Bars, NEW g \in Bars
  PROVE  /\ Over(f, g) \in Bars
         /\ DOMAIN Over(f, g) = DOMAIN f \cup DOMAIN g
         /\ \A d \in DOMAIN f : Over(f, g)[d] = f[d]
         /\ \A d \in DOMAIN g \ DOMAIN f : Over(f, g)[d] = g[d]
  <1>1. /\ DOMAIN Over(f, g) = DOMAIN f \cup DOMAIN g
        /\ Over(f, g) = [d \in DOMAIN Over(f, g) |-> Over(f, g)[d]]
        /\ \A d \in DOMAIN f : Over(f, g)[d] = f[d]
        /\ \A d \in DOMAIN g \ DOMAIN f : Over(f, g)[d] = g[d]
    BY DEF Over
  <1>2. \A d \in DOMAIN Over(f, g) : Over(f, g)[d] \in Times
    BY <1>1, BarsAreReadings
  <1>3. DOMAIN Over(f, g) \in SUBSET Dates
    BY <1>1, BarsAreReadings
  <1>. QED
    BY <1>1, <1>2, <1>3, BarsAreReadings

\* So are readings made now, and some of the bars there are.
LEMMA SomeBars ==
  ASSUME NEW S \in SUBSET Dates
  PROVE  /\ \A t \in Times : [d \in S |-> t] \in Bars
         /\ \A b \in Bars : S \in SUBSET DOMAIN b =>
              Restrict(b, S) \in Bars /\ DOMAIN Restrict(b, S) = S
                /\ \A d \in S : Restrict(b, S)[d] = b[d]
  <1>1. ASSUME NEW t \in Times PROVE [d \in S |-> t] \in Bars
    <2>1. [d \in S |-> t] \in [S -> Times]
      OBVIOUS
    <2>. QED
      BY <2>1 DEF Bars
  <1>2. ASSUME NEW b \in Bars, S \in SUBSET DOMAIN b
        PROVE  /\ Restrict(b, S) \in Bars /\ DOMAIN Restrict(b, S) = S
               /\ \A d \in S : Restrict(b, S)[d] = b[d]
    <2>1. \A d \in S : b[d] \in Times
      BY <1>2, BarsAreReadings
    <2>2. Restrict(b, S) \in [S -> Times]
      BY <2>1 DEF Restrict
    <2>. QED
      BY <2>2 DEF Bars, Restrict
  <1>. QED
    BY <1>1, <1>2

-----------------------------------------------------------------------------
(* A page *)

\* What is taken from a page are the latest days of it that are asked for, down
\* to the oldest row looked at; something, if that makes enough.
LEMMA PageIsTaken ==
  ASSUME now \in Times, NEW f \in Loading, Rows(f.bymd) # {},
         Cardinality(DOMAIN f.bars) < f.request.max
  PROVE  /\ Taken(f) \in SUBSET Dates
         /\ OldestSeen(f) \in Dates /\ OldestSeen(f) <= f.bymd
         /\ OldestSeen(f) <= now \div DayLength + 1
         /\ Taken(f) = {d \in Within(f.request, Traded) :
                          OldestSeen(f) <= d /\ d <= f.bymd /\ Priced(d, now)}
  <1>. DEFINE listed == {d \in Traded : d <= f.bymd /\ d <= Today}
              rows == Rows(f.bymd)
              wanted == {d \in Within(f.request, rows) : Priced(d, now)}
              room == f.request.max - Cardinality(DOMAIN f.bars)
  <1>1. /\ Traded \in SUBSET Dates /\ PageSize \in Nat \ {0} /\ f.request.max \in Nat
        /\ f.bymd \in Nat /\ DOMAIN f.bars \in SUBSET Dates
        /\ f.request.start \in Nat /\ f.request.end \in Nat
    BY DailyConstants, BarsAreReadings DEF Loading, Dates, Requests
  <1>2. room \in Nat \ {0} /\ Cardinality(DOMAIN f.bars) \in Nat
    BY <1>1, DaysAreFinite
  <1>3. listed \in SUBSET Dates /\ \A d \in Dates : d \in Nat
    <2>1. \A d \in Dates : d \in Nat
      BY DEF Dates
    <2>. QED
      BY <1>1, <2>1
  <1>4. /\ rows \in SUBSET listed /\ rows # {}
        /\ \A d \in rows, e \in listed : e > d => e \in rows
    BY <1>1, <1>3, NewestDays DEF Rows
  <1>5. wanted \in SUBSET Dates
    BY <1>3, <1>4 DEF Within
  <1>6. Taken(f) = Newest(room, wanted)
    BY DEF Taken
  <1>7. /\ Taken(f) \in SUBSET wanted
        /\ \A d \in Taken(f), e \in wanted : e > d => e \in Taken(f)
        /\ Cardinality(Taken(f)) < room => Taken(f) = wanted
    <2>. HIDE DEF wanted, room
    <2>1. room \in Nat
      BY <1>2
    <2>. QED
      BY <1>5, <1>6, <2>1, NewestDays
  <1>8. Cardinality(Taken(f)) \in Nat
    BY <1>5, <1>7, DaysAreFinite
  <1>9. Full(f) <=> ~(Cardinality(Taken(f)) < room)
    BY <1>1, <1>2, <1>8 DEF Full
  <1>10. ASSUME NEW d \in Within(f.request, Traded), Priced(d, now), d <= f.bymd,
                NEW e \in rows, e <= d
         PROVE  d \in wanted
    <2>1. d \in Dates /\ d \in Traded
      BY <1>1 DEF Within
    <2>2. d <= Today
      BY <1>10, <2>1, PriceOfDay DEF Today
    <2>3. d \in rows
      BY <1>3, <1>4, <1>10, <2>1, <2>2
    <2>. QED
      BY <1>10, <2>3 DEF Within
  <1>11. ASSUME NEW o \in rows,
                \A d \in Taken(f) : o <= d,
                \A d \in wanted : o <= d => d \in Taken(f)
         PROVE  Taken(f) = {d \in Within(f.request, Traded) :
                              o <= d /\ d <= f.bymd /\ Priced(d, now)}
    <2>1. \A d \in wanted : d \in Within(f.request, Traded) /\ d <= f.bymd /\ Priced(d, now)
      BY <1>4 DEF Within
    <2>. QED
      BY <1>7, <1>10, <1>11, <2>1
  <1>12. CASE Full(f)
    <2>1. Taken(f) # {}
      BY <1>2, <1>9, <1>12, FS_EmptySet
    <2>2. OldestSeen(f) \in Taken(f) /\ \A d \in Taken(f) : OldestSeen(f) <= d
      BY <1>5, <1>7, <1>12, <2>1, EarliestIsFirst DEF OldestSeen
    <2>3. OldestSeen(f) \in rows
      BY <1>7, <2>2 DEF Within
    <2>4. \A d \in wanted : OldestSeen(f) <= d => d \in Taken(f)
      BY <1>3, <1>5, <1>7, <2>2
    <2>. QED
      BY <1>3, <1>4, <1>5, <1>7, <1>11, <2>2, <2>3, <2>4 DEF Today
  <1>13. CASE ~Full(f)
    <2>1. Taken(f) = wanted
      BY <1>7, <1>9, <1>13
    <2>2. rows \in SUBSET Dates
      BY <1>3, <1>4
    <2>3. OldestSeen(f) \in rows /\ \A d \in rows : OldestSeen(f) <= d
      BY <1>4, <1>13, <2>2, EarliestIsFirst DEF OldestSeen
    <2>4. \A d \in wanted : d \in rows
      BY DEF Within
    <2>. QED
      BY <1>3, <1>4, <1>5, <1>11, <2>1, <2>2, <2>3, <2>4 DEF Today
  <1>. QED
    BY <1>12, <1>13

-----------------------------------------------------------------------------
(* Loading *)

LEMMA LoadingIsTyped ==
  ASSUME TypeOK, NEW w \in Workers, fetch[w].at # "idle"
  PROVE  fetch[w] \in Loading
  BY DEF TypeOK, Idle

\* A thread goes on, and the others do not.
LEMMA OneLoads ==
  ASSUME TypeOK, LoadInv, NEW w \in Workers, NEW g,
         fetch' = [fetch EXCEPT ![w] = g], UNCHANGED now,
         g \in Loading, Loads(g)
  PROVE  fetch' \in [Workers -> {Idle} \cup Loading] /\ LoadInv'
  <1>1. fetch' \in [Workers -> {Idle} \cup Loading] /\ fetch'[w] = g
        /\ \A v \in Workers \ {w} : fetch'[v] = fetch[v]
    BY DEF TypeOK
  <1>2. ASSUME NEW h, Loads(h) PROVE Loads(h)'
    BY <1>2 DEF Loads, Snapshot
  <1>3. ASSUME NEW v \in Workers, fetch'[v] # Idle PROVE Loads(fetch'[v])
    BY <1>1, <1>3 DEF LoadInv
  <1>. QED
    BY <1>1, <1>2, <1>3 DEF LoadInv

\* A thread stops, too.
LEMMA OneStops ==
  ASSUME TypeOK, LoadInv, NEW w \in Workers,
         fetch' = [fetch EXCEPT ![w] = Idle], UNCHANGED now
  PROVE  fetch' \in [Workers -> {Idle} \cup Loading] /\ LoadInv'
  <1>1. fetch' \in [Workers -> {Idle} \cup Loading] /\ fetch'[w] = Idle
        /\ \A v \in Workers \ {w} : fetch'[v] = fetch[v]
    BY DEF TypeOK
  <1>2. ASSUME NEW v \in Workers, fetch'[v] # Idle PROVE Loads(fetch[v])'
    <2>1. Loads(fetch[v]) /\ fetch'[v] = fetch[v]
      BY <1>1, <1>2 DEF LoadInv
    <2>. QED
      BY <2>1 DEF Loads, Snapshot
  <1>. QED
    BY <1>1, <1>2 DEF LoadInv

\* A page leaves a thread with what the server had when it read the first one.
LEMMA PageKeepsSnapshot ==
  ASSUME TypeOK, LoadInv, NEW w \in Workers, ReadPage(w)
  PROVE  fetch' \in [Workers -> {Idle} \cup Loading] /\ LoadInv'
  <1>. DEFINE f == fetch[w]
              bars == Over([d \in Taken(f) |-> now], f.bars)
              oldest == OldestSeen(f)
              reached == oldest <= f.request.start
              last == reached \/ Full(f) \/ f.pages + 1 = MaxPages
              g == [f EXCEPT !.bars = bars, !.pages = f.pages + 1, !.bymd = oldest - 1,
                             !.reached = reached, !.at = IF last THEN "loaded" ELSE "paging"]
  <1>1. /\ fetch' = [fetch EXCEPT ![w] = g] /\ UNCHANGED now
        /\ f.at = "paging" /\ Rows(f.bymd) # {}
    BY DEF ReadPage
  <1>2. f \in Loading /\ Loads(f) /\ now \in Times
    BY <1>1, LoadingIsTyped DEF LoadInv, TypeOK, Idle
  <1>3. /\ Taken(f) \in SUBSET Dates /\ oldest \in Dates /\ oldest <= f.bymd
        /\ oldest <= now \div DayLength + 1
        /\ Taken(f) = {d \in Within(f.request, Traded) :
                         oldest <= d /\ d <= f.bymd /\ Priced(d, now)}
    BY <1>1, <1>2, PageIsTaken DEF Loads
  <1>4. /\ f.bars \in Bars /\ f.pages \in Nat /\ f.bymd \in 0 .. Days
        /\ f.request \in Requests /\ f.request.end \in Nat /\ f.request.start \in Nat
        /\ f.request.max \in Nat /\ f.began \in Times /\ f.reached \in BOOLEAN
    BY <1>2, DailyConstants DEF Loading, Requests, Dates
  <1>5. /\ bars \in Bars /\ DOMAIN bars = Taken(f) \cup DOMAIN f.bars
        /\ \A d \in Taken(f) : bars[d] = now
        /\ \A d \in DOMAIN f.bars \ Taken(f) : bars[d] = f.bars[d]
    <2>1. [d \in Taken(f) |-> now] \in Bars
      BY <1>2, <1>3, SomeBars
    <2>. QED
      BY <1>4, <2>1, OverIsBars
  <1>6. /\ g.at \in {"paging", "loaded"} /\ g.request = f.request /\ g.bars = bars
        /\ g.bymd = oldest - 1 /\ g.pages = f.pages + 1 /\ g.reached = reached
        /\ g.began = f.began /\ (g.at = "paging" <=> ~last)
    BY <1>2 DEF Loading
  <1>7. /\ \A d \in Dates : d \in Nat
        /\ \A t \in Times : t \in Nat /\ t \div DayLength \in Nat
        /\ Within(f.request, Traded) \in SUBSET Dates
    <2>1. Traded \in SUBSET Dates
      BY DailyConstants DEF Dates
    <2>2. \A d \in Dates : d \in Nat
      BY DEF Dates
    <2>. QED
      BY <2>1, <2>2, TimeIsNumber DEF Within
  <1>8. g \in Loading
    <2>1. f.pages < MaxPages /\ f.pages + 1 \in 0 .. MaxPages /\ oldest - 1 \in 0 .. Days
      BY <1>1, <1>2, <1>3, <1>4, DailyConstants DEF Loads, Dates
    <2>2. reached \in BOOLEAN
      OBVIOUS
    <2>. HIDE DEF f, bars, last, oldest, reached
    <2>. QED
      BY <1>2, <1>5, <2>1, <2>2 DEF Loading
  <1>9. Snapshot(g)
    <2>1. PICK t \in Times :
            /\ f.began <= t /\ t <= now
            /\ DOMAIN f.bars = {d \in Within(f.request, Traded) : d > f.bymd /\ Priced(d, t)}
            /\ f.pages > 0 => f.bymd <= t \div DayLength
      BY <1>2 DEF Loads, Snapshot
    <2>. HIDE DEF f, bars, oldest
    <2>2. \A d \in Dates : d > oldest - 1 <=> oldest <= d
      BY <1>3, <1>7
    <2>3. CASE f.pages = 0
      <3>1. DOMAIN f.bars = {}
        BY <1>2, <1>4, <1>7, <2>1, <2>3 DEF Loads, Within
      <3>2. DOMAIN bars = {d \in Within(f.request, Traded) : d > oldest - 1 /\ Priced(d, now)}
        <4>1. \A d \in Within(f.request, Traded) : d <= f.bymd
          BY <1>2, <2>3 DEF Loads, Within
        <4>. QED
          BY <1>3, <1>5, <1>7, <2>2, <3>1, <4>1
      <3>3. oldest - 1 <= now \div DayLength
        BY <1>2, <1>3, <1>7
      <3>4. reached => \A d \in Within(f.request, Traded) : Priced(d, now) => d > oldest - 1
        BY <1>3, <1>4, <1>7 DEF Within
      <3>. HIDE DEF g, bars, oldest, reached
      <3>. QED
        BY <1>2, <1>6, <1>7, <3>2, <3>3, <3>4 DEF Snapshot, Loads
    <2>4. CASE f.pages # 0
      <3>1. f.bymd <= t \div DayLength
        BY <1>4, <2>1, <2>4
      <3>2. \A d \in Within(f.request, Traded) :
              d <= f.bymd => Priced(d, t) /\ Priced(d, now)
        <4>. SUFFICES ASSUME NEW d \in Within(f.request, Traded), d <= f.bymd
                      PROVE  Priced(d, t) /\ Priced(d, now)
          OBVIOUS
        <4>1. d \in Dates /\ d \in Traded /\ d <= t \div DayLength
          BY <1>4, <1>7, <3>1 DEF Within
        <4>. QED
          BY <1>2, <2>1, <4>1, PriceOfDay
      <3>3. DOMAIN bars = {d \in Within(f.request, Traded) : d > oldest - 1 /\ Priced(d, t)}
        <4>1. ASSUME NEW d \in Within(f.request, Traded)
              PROVE  d \in Taken(f) \/ d \in DOMAIN f.bars <=> oldest <= d /\ Priced(d, t)
          BY <1>3, <1>4, <1>7, <2>1, <3>2
        <4>. QED
          BY <1>3, <1>5, <1>7, <2>1, <2>2, <4>1
      <3>4. oldest - 1 <= t \div DayLength
        BY <1>3, <1>4, <1>7, <3>1
      <3>5. reached => \A d \in Within(f.request, Traded) : Priced(d, t) => d > oldest - 1
        BY <1>3, <1>4, <1>7 DEF Within
      <3>. HIDE DEF g, bars, oldest, reached
      <3>. QED
        BY <1>6, <2>1, <3>3, <3>4, <3>5 DEF Snapshot
    <2>. QED
      BY <2>3, <2>4
  <1>10. Loads(g)
    <2>1. Cardinality(DOMAIN bars) < f.request.max \/ Full(f)
      <3>1. /\ IsFiniteSet(Taken(f)) /\ IsFiniteSet(DOMAIN f.bars)
            /\ Cardinality(Taken(f)) \in Nat /\ Cardinality(DOMAIN f.bars) \in Nat
            /\ IsFiniteSet(Taken(f) \cap DOMAIN f.bars)
            /\ Cardinality(Taken(f) \cap DOMAIN f.bars) \in Nat
        <4>1. DOMAIN f.bars \in SUBSET Dates /\ Taken(f) \cap DOMAIN f.bars \in SUBSET Dates
          BY <1>3, <1>4, BarsAreReadings
        <4>. QED
          BY <1>3, <4>1, DaysAreFinite
      <3>2. Cardinality(DOMAIN bars) <= Cardinality(Taken(f)) + Cardinality(DOMAIN f.bars)
        <4>. HIDE DEF f, bars
        <4>1. Cardinality(Taken(f) \cup DOMAIN f.bars) =
                Cardinality(Taken(f)) + Cardinality(DOMAIN f.bars)
                  - Cardinality(Taken(f) \cap DOMAIN f.bars)
          BY <3>1, FS_Union
        <4>. QED
          BY <1>5, <3>1, <4>1
      <3>. QED
        BY <1>4, <1>5, <3>1, <3>2, BarsAreReadings, DaysAreFinite DEF Full
    <2>2. \A d \in DOMAIN bars : f.began <= bars[d] /\ bars[d] <= now /\ Priced(d, bars[d])
      BY <1>2, <1>3, <1>5, <1>7 DEF Loads
    <2>3. f.pages + 1 # 0 /\ oldest - 1 <= f.request.end
      BY <1>2, <1>3, <1>4, <1>7 DEF Loads
    <2>4. f.pages < MaxPages /\ (f.pages + 1 # MaxPages => f.pages + 1 < MaxPages)
      BY <1>1, <1>2, <1>4, DailyConstants DEF Loads
    <2>. HIDE DEF g, bars, oldest, reached
    <2>. QED
      BY <1>2, <1>6, <1>9, <2>1, <2>2, <2>3, <2>4 DEF Loads
  <1>. HIDE DEF g
  <1>. QED
    BY <1>1, <1>8, <1>10, OneLoads

\* Where no row is left there is no price either.
LEMMA EndKeepsSnapshot ==
  ASSUME TypeOK, LoadInv, NEW w \in Workers, ReadEnd(w)
  PROVE  fetch' \in [Workers -> {Idle} \cup Loading] /\ LoadInv'
  <1>. DEFINE f == fetch[w]
              g == [f EXCEPT !.at = "loaded", !.reached = TRUE]
              listed == {d \in Traded : d <= f.bymd /\ d <= Today}
  <1>1. /\ fetch' = [fetch EXCEPT ![w] = g] /\ UNCHANGED now
        /\ f.at = "paging" /\ Rows(f.bymd) = {}
    BY LoadingIsTyped DEF ReadEnd, Loading
  <1>2. f \in Loading /\ Loads(f) /\ now \in Times
    BY <1>1, LoadingIsTyped DEF LoadInv, TypeOK, Idle
  <1>3. /\ g \in Loading /\ g.at = "loaded" /\ g.request = f.request /\ g.bars = f.bars
        /\ g.bymd = f.bymd /\ g.pages = f.pages /\ g.reached = TRUE /\ g.began = f.began
    BY <1>2 DEF Loading
  <1>4. /\ Traded \in SUBSET Dates /\ \A d \in Dates : d \in Nat
        /\ f.bymd \in Nat /\ PageSize \in Nat \ {0}
    <2>1. \A d \in Dates : d \in Nat
      BY DEF Dates
    <2>. QED
      BY <1>2, <2>1, DailyConstants DEF Loading, Dates
  <1>5. listed = {}
    <2>1. listed \in SUBSET Dates
      BY <1>4
    <2>. HIDE DEF listed
    <2>2. Newest(PageSize, listed) = {}
      BY <1>1 DEF Rows, listed
    <2>. QED
      BY <1>4, <2>1, <2>2, NewestDays
  <1>6. PICK t \in Times :
          /\ f.began <= t /\ t <= now
          /\ DOMAIN f.bars = {d \in Within(f.request, Traded) : d > f.bymd /\ Priced(d, t)}
          /\ f.pages > 0 => f.bymd <= t \div DayLength
    BY <1>2 DEF Loads, Snapshot
  <1>7. ASSUME NEW d \in Within(f.request, Traded), Priced(d, t)
        PROVE  d > f.bymd
    <2>1. d \in Traded /\ d \in Dates
      BY <1>4 DEF Within
    <2>2. Priced(d, now)
      BY <1>2, <1>6, <1>7, <2>1, PriceOfDay
    <2>3. d <= Today
      BY <1>2, <2>1, <2>2, PriceOfDay DEF Today
    <2>. QED
      BY <1>4, <1>5, <2>1, <2>3
  <1>. HIDE DEF g
  <1>8. Snapshot(g)
    BY <1>3, <1>6, <1>7 DEF Snapshot
  <1>9. Loads(g)
    BY <1>2, <1>3, <1>8 DEF Loads
  <1>. QED
    BY <1>1, <1>3, <1>9, OneLoads

\* A thread starts with nothing.
LEMMA MissKeepsLoads ==
  ASSUME TypeOK, LoadInv, NEW w \in Workers, Miss(w)
  PROVE  fetch' \in [Workers -> {Idle} \cup Loading] /\ LoadInv'
  <1>1. PICK r \in Requests :
          fetch' = [fetch EXCEPT ![w] =
                      [at |-> "paging", request |-> r, bars |-> NoBars,
                       bymd |-> r.end, pages |-> 0, reached |-> FALSE, began |-> now]]
    BY DEF Miss
  <1>. DEFINE g == [at |-> "paging", request |-> r, bars |-> NoBars,
                    bymd |-> r.end, pages |-> 0, reached |-> FALSE, began |-> now]
  <1>2. /\ NoBars \in Bars /\ DOMAIN NoBars = {}
        /\ now \in Times /\ now \in Nat /\ FetchTime \in Nat
        /\ r.end \in 0 .. Days /\ r.max \in Nat \ {0}
        /\ MaxPages \in Nat \ {0}
    <2>1. DOMAIN NoBars = {} /\ NoBars \in [{} -> Times]
      BY DEF NoBars
    <2>2. NoBars \in Bars
      BY <2>1 DEF Bars
    <2>. QED
      BY <2>1, <2>2, DailyConstants DEF TypeOK, Times, Requests, Dates
  <1>3. g \in Loading
    BY <1>2 DEF Loading
  <1>4. Snapshot(g)
    <2>1. \A d \in Within(r, Traded) : ~(d > r.end)
      BY <1>2, DailyConstants DEF Within
    <2>2. DOMAIN g.bars = {d \in Within(r, Traded) : d > r.end /\ Priced(d, now)}
      BY <1>2, <2>1
    <2>. QED
      BY <1>2, <2>2 DEF Snapshot
  <1>5. Cardinality(DOMAIN NoBars) = 0
    BY <1>2, FS_EmptySet
  <1>6. Loads(g)
    BY <1>2, <1>4, <1>5 DEF Loads
  <1>7. UNCHANGED now
    BY DEF Miss
  <1>. HIDE DEF g
  <1>8. fetch' = [fetch EXCEPT ![w] = g]
    BY <1>1 DEF g
  <1>. QED
    BY <1>3, <1>6, <1>7, <1>8, OneLoads

\* Time passes for those who are loading.
LEMMA TickKeepsLoads ==
  ASSUME TypeOK, LoadInv, Tick
  PROVE  LoadInv'
  <1>. SUFFICES ASSUME NEW w \in Workers, fetch[w] # Idle
                PROVE  Loads(fetch[w])'
    BY DEF Tick, LoadInv
  <1>1. /\ fetch[w] \in Loading /\ Loads(fetch[w])
        /\ now \in Nat /\ now' = now + 1 /\ fetch' = fetch
        /\ now' <= fetch[w].began + FetchTime
        /\ \A t \in Times : t \in Nat /\ (t <= now => t <= now')
    BY TimeIsNumber DEF LoadInv, TypeOK, Tick
  <1>2. /\ fetch[w].began \in Times
        /\ \A d \in DOMAIN fetch[w].bars : fetch[w].bars[d] \in Times
    BY <1>1, BarsAreReadings DEF Loading
  <1>3. Snapshot(fetch[w])'
    BY <1>1 DEF Loads, Snapshot
  <1>. QED
    BY <1>1, <1>2, <1>3 DEF Loads

-----------------------------------------------------------------------------
(* Storing *)

\* The coverage of a request that is stored is whole, in readings made since it
\* began.
LEMMA StoreCovers ==
  ASSUME CacheInv, NEW w \in Workers, Store(w)
  PROVE  LET c == Coverage(fetch[w])
             stored == Over(fetch[w].bars, values)
         IN  c \in [start : Dates, end : Dates, at : Times] /\ Whole(c, stored, now)
  <1>. DEFINE f == fetch[w]
              c == Coverage(f)
              stored == Over(f.bars, values)
  <1>1. /\ f \in Loading /\ Loads(f) /\ f.at = "loaded" /\ f.bars # NoBars
        /\ now \in Times /\ values \in Bars
    BY LoadingIsTyped DEF Store, CacheInv, LoadInv, TypeOK, Idle
  <1>. HIDE DEF f
  <1>2. /\ f.bars \in Bars /\ f.request \in Requests /\ f.began \in Times
        /\ f.request.start \in Dates /\ f.request.end \in Dates
        /\ f.bymd \in Nat /\ now \in Nat /\ f.began \in Nat /\ FetchTime \in Nat
        /\ f.request.end \in Nat /\ f.request.start \in Nat
    BY <1>1, TimeIsNumber, DailyConstants DEF Loading, Requests, Dates
  <1>3. /\ \A d \in Dates : d \in Nat
        /\ \A t \in Times : t \in Nat
    BY TimeIsNumber DEF Dates
  <1>4. DOMAIN f.bars \in SUBSET Dates /\ DOMAIN f.bars # {}
    <2>1. f.bars = [d \in DOMAIN f.bars |-> f.bars[d]]
      BY <1>2, BarsAreReadings
    <2>. QED
      BY <1>1, <1>2, <2>1, BarsAreReadings DEF NoBars
  <1>5. PICK t \in Times :
          /\ f.began <= t /\ t <= now
          /\ DOMAIN f.bars = {d \in Within(f.request, Traded) : d > f.bymd /\ Priced(d, t)}
          /\ f.reached => \A d \in Within(f.request, Traded) : Priced(d, t) => d > f.bymd
    BY <1>1 DEF Loads, Snapshot
  <1>6. /\ c.start = IF f.reached THEN f.request.start ELSE Earliest(DOMAIN f.bars)
        /\ c.end = f.request.end /\ c.at = now
        /\ c = [start |-> c.start, end |-> c.end, at |-> c.at]
    BY DEF Coverage
  <1>7. /\ Earliest(DOMAIN f.bars) \in DOMAIN f.bars /\ c.start \in Dates
        /\ f.request.start <= c.start
    BY <1>2, <1>3, <1>4, <1>5, <1>6, EarliestIsFirst DEF Within
  <1>8. ASSUME NEW d \in Dates, c.start <= d, d <= c.end, Priced(d, t)
        PROVE  d \in DOMAIN f.bars
    <2>1. d \in Traded /\ d \in Within(f.request, Traded)
      BY <1>2, <1>3, <1>6, <1>7, <1>8, PriceOfDay DEF Within
    <2>2. d > f.bymd
      BY <1>2, <1>3, <1>5, <1>6, <1>7, <1>8, <2>1
    <2>. QED
      BY <1>5, <1>8, <2>1, <2>2
  <1>9. /\ DOMAIN stored = DOMAIN f.bars \cup DOMAIN values
        /\ \A d \in DOMAIN f.bars : stored[d] = f.bars[d]
        /\ \A d \in DOMAIN values \ DOMAIN f.bars : stored[d] = values[d]
        /\ DOMAIN values \in SUBSET Dates
    BY <1>1, <1>2, OverIsBars, BarsAreReadings
  <1>10. now <= f.began + FetchTime
    BY <1>1 DEF Loads
  <1>11. ASSUME NEW d \in DOMAIN stored, c.start <= d, d <= c.end
         PROVE  now <= stored[d] + FetchTime
    <2>1. CASE d \in DOMAIN f.bars
      <3>1. stored[d] = f.bars[d] /\ f.began <= f.bars[d] /\ f.bars[d] \in Nat
        BY <1>1, <1>2, <1>3, <1>9, <2>1, BarsAreReadings DEF Loads
      <3>. QED
        BY <1>2, <1>10, <3>1
    <2>2. CASE d \notin DOMAIN f.bars
      <3>1. d \in DOMAIN values /\ d \in Dates /\ stored[d] = values[d] /\ values[d] \in Times
        BY <1>1, <1>9, <2>2, BarsAreReadings
      <3>2. Priced(d, values[d]) /\ ~Priced(d, t)
        BY <1>8, <1>11, <2>2, <3>1 DEF CacheInv, ValuesInv
      <3>3. ~(values[d] <= t)
        BY <3>1, <3>2, PriceOfDay
      <3>. QED
        BY <1>2, <1>3, <1>5, <1>10, <3>1, <3>3
    <2>. QED
      BY <2>1, <2>2
  <1>12. t <= now /\ now <= t + FetchTime
    BY <1>2, <1>3, <1>5, <1>10
  <1>13. c \in [start : Dates, end : Dates, at : Times]
    BY <1>1, <1>2, <1>6, <1>7
  <1>14. \A d \in Dates : c.start <= d /\ d <= c.end /\ Priced(d, t) => d \in DOMAIN stored
    BY <1>8, <1>9
  <1>. HIDE DEF c, stored
  <1>15. \E u \in Times :
           /\ u <= c.at /\ c.at <= u + FetchTime
           /\ \A d \in Dates :
                c.start <= d /\ d <= c.end /\ Priced(d, u) => d \in DOMAIN stored
    BY <1>6, <1>12, <1>14
  <1>16. c.at <= now
    BY <1>2, <1>6
  <1>17. \A d \in DOMAIN stored : c.start <= d /\ d <= c.end => c.at <= stored[d] + FetchTime
    BY <1>6, <1>11
  <1>18. Whole(c, stored, now)
    BY <1>15, <1>16, <1>17 DEF Whole
  <1>. QED
    BY <1>13, <1>18 DEF f, c, stored

\* The latest of a list are a list of no more than the limit.
LEMMA LatestOfList ==
  ASSUME NEW S, NEW s \in Seq(S)
  PROVE  /\ Latest(s) \in Seq(S) /\ Len(Latest(s)) <= MaxCoverages
         /\ \A k \in DOMAIN Latest(s) : \E j \in DOMAIN s : Latest(s)[k] = s[j]
  <1>. DEFINE m == Len(s) - MaxCoverages + 1
  <1>1. Len(s) \in Nat /\ MaxCoverages \in Nat \ {0} /\ DOMAIN s = 1 .. Len(s)
    BY DailyConstants
  <1>2. CASE Len(s) > MaxCoverages
    <2>1. Latest(s) = SubSeq(s, m, Len(s)) /\ m \in 1 .. Len(s)
      BY <1>1, <1>2 DEF Latest
    <2>2. /\ SubSeq(s, m, Len(s)) \in Seq(S)
          /\ Len(SubSeq(s, m, Len(s))) = Len(s) - m + 1
          /\ \A k \in 1 .. Len(s) - m + 1 : SubSeq(s, m, Len(s))[k] = s[m + k - 1]
      BY <1>1, <2>1
    <2>3. \A k \in 1 .. MaxCoverages : m + k - 1 \in DOMAIN s
      BY <1>1, <1>2
    <2>4. Len(s) - m + 1 = MaxCoverages
      BY <1>1
    <2>. HIDE DEF m
    <2>. QED
      BY <1>1, <2>1, <2>2, <2>3, <2>4
  <1>3. CASE ~(Len(s) > MaxCoverages)
    BY <1>1, <1>3 DEF Latest
  <1>. QED
    BY <1>2, <1>3

\* The bars that are stored, and the coverage of them.
LEMMA StoreKeepsCache ==
  ASSUME CacheInv, NEW w \in Workers, Store(w)
  PROVE  CacheInv'
  <1>. DEFINE f == fetch[w]
              c == Coverage(f)
              s == Append(coverages, c)
              C == [start : Dates, end : Dates, at : Times]
  <1>1. /\ f \in Loading /\ Loads(f) /\ now \in Times /\ values \in Bars /\ f.bars \in Bars
        /\ coverages \in Seq(C)
    BY LoadingIsTyped DEF Store, CacheInv, LoadInv, TypeOK, Idle, Loading
  <1>2. /\ values' = Over(f.bars, values) /\ coverages' = Latest(s)
        /\ fetch' = [fetch EXCEPT ![w] = Idle] /\ UNCHANGED <<now, made>>
    BY DEF Store
  <1>3. c \in C /\ Whole(c, values', now')
    BY <1>2, StoreCovers
  <1>. HIDE DEF f, c, C
  <1>4. /\ values' \in Bars /\ DOMAIN values' = DOMAIN f.bars \cup DOMAIN values
        /\ \A d \in DOMAIN f.bars : values'[d] = f.bars[d]
        /\ \A d \in DOMAIN values \ DOMAIN f.bars : values'[d] = values[d]
    BY <1>1, <1>2, OverIsBars
  <1>5. \A d \in DOMAIN f.bars :
          f.began <= f.bars[d] /\ f.bars[d] <= now /\ Priced(d, f.bars[d])
    BY <1>1 DEF Loads
  <1>6. ValuesInv'
    BY <1>2, <1>4, <1>5 DEF CacheInv, ValuesInv, Priced
  <1>7. /\ s \in Seq(C) /\ DOMAIN s = 1 .. Len(coverages) + 1
        /\ s[Len(coverages) + 1] = c /\ Len(coverages) \in Nat
        /\ \A j \in 1 .. Len(coverages) : s[j] = coverages[j]
        /\ DOMAIN coverages = 1 .. Len(coverages)
    BY <1>1, <1>3
  <1>. HIDE DEF s
  <1>8. /\ coverages' \in Seq(C) /\ Len(coverages') <= MaxCoverages
        /\ \A k \in DOMAIN coverages' :
             coverages'[k] = c \/ \E j \in DOMAIN coverages : coverages'[k] = coverages[j]
    <2>1. \A k \in DOMAIN coverages' : \E j \in DOMAIN s : coverages'[k] = s[j]
      BY <1>2, <1>7, LatestOfList
    <2>2. \A j \in DOMAIN s : s[j] = c \/ \E i \in DOMAIN coverages : s[j] = coverages[i]
      BY <1>7
    <2>. QED
      BY <1>2, <1>7, <2>1, <2>2, LatestOfList
  <1>9. ASSUME NEW j \in DOMAIN coverages PROVE Whole(coverages[j], values', now')
    <2>. DEFINE b == coverages[j]
    <2>1. b \in C /\ Whole(b, values, now)
      BY <1>1 DEF CacheInv, CoverInv
    <2>. HIDE DEF b
    <2>2. \A d \in DOMAIN f.bars : b.at <= f.bars[d] + FetchTime
      <3>1. /\ b.at \in Nat /\ now \in Nat /\ f.began \in Nat /\ FetchTime \in Nat
            /\ \A d \in DOMAIN f.bars : f.bars[d] \in Nat
        BY <1>1, <2>1, TimeIsNumber, BarsAreReadings, DailyConstants DEF C, Loading
      <3>2. now <= f.began + FetchTime /\ b.at <= now
        BY <1>1, <2>1 DEF Loads, Whole
      <3>. QED
        BY <1>5, <3>1, <3>2
    <2>3. \A d \in DOMAIN values' :
            b.start <= d /\ d <= b.end => b.at <= values'[d] + FetchTime
      BY <1>4, <2>1, <2>2 DEF Whole
    <2>4. Whole(b, values', now')
      BY <1>2, <1>4, <2>1, <2>3 DEF Whole
    <2>. QED
      BY <2>4 DEF b
  <1>10. CoverInv'
    BY <1>3, <1>8, <1>9 DEF CoverInv
  <1>11. fetch' \in [Workers -> {Idle} \cup Loading] /\ LoadInv'
    <2>1. TypeOK /\ LoadInv /\ UNCHANGED now
      BY <1>2 DEF CacheInv
    <2>. QED
      BY <1>2, <2>1, OneStops
  <1>12. answer' \in Answers
    BY <1>1 DEF Store, Answer, Answers, Loading, f
  <1>. QED
    BY <1>1, <1>2, <1>4, <1>6, <1>8, <1>10, <1>11, <1>12 DEF CacheInv, TypeOK, C

\* Other steps leave the cache alone.
LEMMA QuietKeepsCache ==
  ASSUME CacheInv, UNCHANGED <<values, coverages>>,
         fetch' \in [Workers -> {Idle} \cup Loading] /\ LoadInv',
         made' \in 0 .. MaxRequests, now' \in Times, now <= now',
         answer' \in {NoAnswer} \cup Answers
  PROVE  CacheInv'
  <1>. DEFINE C == [start : Dates, end : Dates, at : Times]
  <1>0. values \in Bars /\ now \in Times /\ coverages \in Seq(C) /\ Len(coverages) <= MaxCoverages
    BY Zenon DEF CacheInv, TypeOK
  <1>1. TypeOK'
    BY <1>0 DEF TypeOK
  <1>2. /\ \A d \in DOMAIN values : values[d] \in Nat
        /\ \A k \in DOMAIN coverages : coverages[k].at \in Nat
        /\ now \in Nat /\ now' \in Nat
    <2>1. \A k \in DOMAIN coverages : coverages[k] \in C
      <3>. HIDE DEF C
      <3>. QED
        BY <1>0
    <2>. QED
      BY <1>0, <2>1, TimeIsNumber, BarsAreReadings
  <1>3. ValuesInv'
    BY <1>2 DEF CacheInv, ValuesInv, Priced
  <1>4. CoverInv'
    BY <1>2 DEF CacheInv, CoverInv, Whole
  <1>. QED
    BY <1>1, <1>3, <1>4 DEF CacheInv

LEMMA CacheStep ==
  ASSUME CacheInv, [Next]_vars
  PROVE  CacheInv'
  <1>1. /\ now \in Times /\ now \in Nat /\ made \in 0 .. MaxRequests /\ TypeOK /\ LoadInv
        /\ fetch \in [Workers -> {Idle} \cup Loading] /\ values \in Bars
        /\ answer \in {NoAnswer} \cup Answers
    BY TimeIsNumber DEF CacheInv, TypeOK
  <1>2. made < MaxRequests => made + 1 \in 0 .. MaxRequests
    BY <1>1, DailyConstants
  <1>0. now <= now /\ NoAnswer \in {NoAnswer} \cup Answers
    BY <1>1
  <1>3. CASE Tick
    <2>1. now' \in Times /\ now <= now' /\ LoadInv'
      BY <1>1, <1>3, TickKeepsLoads DEF Tick
    <2>. QED
      BY <1>1, <1>3, <2>1, QuietKeepsCache DEF Tick, NothingReturned
  <1>4. ASSUME NEW w \in Workers, Hit(w) PROVE CacheInv'
    <2>1. PICK r \in Requests : Answer(r, "cache", FromCache(r))
      BY <1>4 DEF Hit
    <2>2. FromCache(r) \in Bars
      <3>. DEFINE kept == Newest(r.max, Within(r, DOMAIN values))
      <3>1. Within(r, DOMAIN values) \in SUBSET Dates /\ r.max \in Nat
        BY <1>1, BarsAreReadings, DailyConstants DEF Within, Requests
      <3>2. kept \in SUBSET DOMAIN values
        BY <3>1, NewestDays DEF Within
      <3>. HIDE DEF kept
      <3>3. kept \in SUBSET Dates
        BY <1>1, <3>2, BarsAreReadings
      <3>. QED
        BY <1>1, <3>2, <3>3, SomeBars DEF FromCache, kept
    <2>3. answer' \in Answers
      BY <1>1, <2>1, <2>2 DEF Answer, Answers
    <2>4. LoadInv'
      BY <1>1, <1>4 DEF Hit, LoadInv, Loads, Snapshot
    <2>. QED
      BY <1>1, <1>2, <1>4, <2>3, <2>4, QuietKeepsCache DEF Hit
  <1>5. ASSUME NEW w \in Workers, Miss(w) PROVE CacheInv'
    <2>1. /\ UNCHANGED <<now, values, coverages>> /\ answer' = NoAnswer
          /\ made' \in 0 .. MaxRequests
      BY <1>2, <1>5 DEF Miss, NothingReturned
    <2>2. fetch' \in [Workers -> {Idle} \cup Loading] /\ LoadInv'
      BY <1>1, <1>5, MissKeepsLoads
    <2>. QED
      BY <1>1, <1>0, <2>1, <2>2, QuietKeepsCache
  <1>6. ASSUME NEW w \in Workers, ReadEnd(w) PROVE CacheInv'
    <2>1. UNCHANGED <<now, values, coverages, made>> /\ answer' = NoAnswer
      BY <1>6 DEF ReadEnd, NothingReturned
    <2>2. fetch' \in [Workers -> {Idle} \cup Loading] /\ LoadInv'
      BY <1>1, <1>6, EndKeepsSnapshot
    <2>. QED
      BY <1>1, <1>0, <2>1, <2>2, QuietKeepsCache
  <1>7. ASSUME NEW w \in Workers, ReadPage(w) PROVE CacheInv'
    <2>1. UNCHANGED <<now, values, coverages, made>> /\ answer' = NoAnswer
      BY <1>7 DEF ReadPage, NothingReturned
    <2>. QED
      BY <1>1, <1>7, <2>1, PageKeepsSnapshot, QuietKeepsCache
  <1>8. ASSUME NEW w \in Workers, ReadFails(w) \/ StoreNothing(w) PROVE CacheInv'
    <2>1. /\ fetch' = [fetch EXCEPT ![w] = Idle] /\ answer' = NoAnswer
          /\ UNCHANGED <<now, values, coverages, made>>
      BY <1>8 DEF ReadFails, StoreNothing, NothingReturned
    <2>. QED
      <3>1. fetch' \in [Workers -> {Idle} \cup Loading] /\ LoadInv'
        BY <1>1, <2>1, OneStops
      <3>. QED
        BY <1>1, <1>0, <2>1, <3>1, QuietKeepsCache
  <1>9. CASE UNCHANGED vars
    BY <1>9 DEF vars, CacheInv, TypeOK, LoadInv, Loads, Snapshot, ValuesInv, CoverInv, Whole
  <1>. QED
    BY <1>3, <1>4, <1>5, <1>6, <1>7, <1>8, <1>9, StoreKeepsCache DEF Next, Step

-----------------------------------------------------------------------------
(* Answering *)

\* What the cache has of a covered range is what the server had when that was
\* loaded, or what it has now.
LEMMA CacheIsOfOneMoment ==
  ASSUME CacheInv, NEW r \in Requests, NEW k \in DOMAIN coverages,
         Covers(coverages[k], r)
  PROVE  /\ Within(r, DOMAIN values) \in SUBSET Dates
         /\ \E t \in Times :
              /\ t <= now /\ now <= t + LooksBack(r, now)
              /\ Within(r, DOMAIN values) = HadIn(r, t)
         /\ \A d \in Within(r, DOMAIN values) : now <= values[d] + LooksBack(r, now)
  <1>. DEFINE c == coverages[k]
              V == Within(r, DOMAIN values)
              back == LooksBack(r, now)
              C == [start : Dates, end : Dates, at : Times]
  <1>0. values \in Bars /\ now \in Times /\ coverages \in Seq(C)
    BY Zenon DEF CacheInv, TypeOK
  <1>1. c \in C /\ Whole(c, values, now)
    <2>1. c \in C
      <3>. HIDE DEF C
      <3>. QED
        BY <1>0
    <2>. QED
      BY <2>1 DEF CacheInv, CoverInv
  <1>2. now - c.at <= Ttl(r) /\ c.start <= r.start /\ c.end >= r.end
    BY DEF Covers
  <1>. HIDE DEF c
  <1>3. /\ \A d \in Dates : d \in Nat
        /\ \A t \in Times : t \in Nat /\ t \div DayLength \in Nat
        /\ now \in Nat /\ c.at \in Nat /\ c.start \in Nat /\ c.end \in Nat
        /\ r.start \in Nat /\ r.end \in Nat
        /\ FetchTime \in Nat /\ HistoricalTtl \in Nat /\ CurrentTtl \in Nat
        /\ DOMAIN values \in SUBSET Dates
        /\ \A d \in DOMAIN values : values[d] \in Times
        /\ Traded \in SUBSET Dates
    <2>1. \A d \in Dates : d \in Nat
      BY DEF Dates
    <2>. QED
      BY <1>0, <1>1, <2>1, TimeIsNumber, BarsAreReadings, DailyConstants DEF Requests, Dates
  <1>4. back = FetchTime + Ttl(r) /\ Ttl(r) \in Nat /\ back \in Nat
    <2>. DEFINE q == now \div DayLength
    <2>1. q \in Nat
      BY <1>0, <1>3
    <2>. HIDE DEF q
    <2>2. r.end < q + 1 <=> r.end <= q
      BY <1>3, <2>1
    <2>3. /\ Ttl(r) = IF r.end < q + 1 THEN HistoricalTtl ELSE CurrentTtl
          /\ back = FetchTime + IF r.end <= q THEN HistoricalTtl ELSE CurrentTtl
      BY DEF LooksBack, Ttl, Today, q
    <2>. QED
      BY <1>3, <2>2, <2>3
  <1>5. PICK t \in Times :
          /\ t <= c.at /\ c.at <= t + FetchTime
          /\ \A d \in Dates : c.start <= d /\ d <= c.end /\ Priced(d, t) => d \in DOMAIN values
    BY <1>1 DEF Whole
  <1>6. t <= now /\ now <= t + back /\ now <= now + back
    BY <1>1, <1>2, <1>3, <1>4, <1>5 DEF Whole
  <1>7. HadIn(r, t) \in SUBSET V
    <2>. SUFFICES ASSUME NEW d \in HadIn(r, t) PROVE d \in V
      OBVIOUS
    <2>1. d \in Dates /\ r.start <= d /\ d <= r.end /\ Priced(d, t)
      BY <1>3 DEF HadIn, Within
    <2>2. c.start <= d /\ d <= c.end
      BY <1>2, <1>3, <2>1
    <2>. QED
      BY <1>5, <2>1, <2>2 DEF Within
  <1>8. V \in SUBSET HadIn(r, now)
    <2>. SUFFICES ASSUME NEW d \in V PROVE d \in HadIn(r, now)
      OBVIOUS
    <2>1. /\ d \in Dates /\ d \in DOMAIN values /\ r.start <= d /\ d <= r.end
          /\ values[d] \in Times
      BY <1>3 DEF Within
    <2>2. Priced(d, values[d]) /\ values[d] <= now
      BY <2>1 DEF CacheInv, ValuesInv
    <2>3. Priced(d, now) /\ d \in Traded
      BY <1>0, <2>1, <2>2, PriceOfDay
    <2>. QED
      BY <2>1, <2>3 DEF HadIn, Within
  <1>9. ASSUME V # HadIn(r, t) PROVE V = HadIn(r, now)
    <2>1. PICK d \in V : d \notin HadIn(r, t)
      BY <1>7, <1>9
    <2>2. /\ d \in Dates /\ d <= r.end /\ Priced(d, now) /\ ~Priced(d, t)
      BY <1>3, <1>8, <2>1 DEF HadIn, Within
    <2>3. now <= t + FetchTime + IF r.end < now \div DayLength + 1 THEN HistoricalTtl
                                                                  ELSE CurrentTtl
      BY <1>3, <1>4, <1>6 DEF Ttl, Today
    <2>4. ASSUME NEW e \in HadIn(r, now) PROVE e \in V
      <3>1. e \in Dates /\ e <= r.end /\ Priced(e, now) /\ e \in Within(r, Traded)
        BY <1>3 DEF HadIn, Within
      <3>2. CASE e = d
        BY <3>2
      <3>3. CASE e < d
        <4>1. Priced(e, t)
          BY <1>0, <2>2, <2>3, <3>1, <3>3, OneNewDay
        <4>. QED
          BY <1>7, <3>1, <4>1 DEF HadIn
      <3>4. CASE d < e
        BY <1>0, <2>2, <2>3, <3>1, <3>4, OneNewDay
      <3>. QED
        BY <1>3, <2>2, <3>1, <3>2, <3>3, <3>4
    <2>. QED
      BY <1>8, <2>4
  <1>10. ASSUME NEW d \in V PROVE now <= values[d] + back
    <2>1. d \in DOMAIN values /\ d \in Dates /\ r.start <= d /\ d <= r.end
      BY <1>3 DEF Within
    <2>2. c.start <= d /\ d <= c.end /\ values[d] \in Nat
      BY <1>2, <1>3, <2>1
    <2>3. c.at <= values[d] + FetchTime
      BY <1>1, <2>1, <2>2 DEF Whole
    <2>. QED
      BY <1>2, <1>3, <1>4, <2>2, <2>3
  <1>11. V \in SUBSET Dates
    BY <1>3 DEF Within
  <1>12. \E u \in Times : u <= now /\ now <= u + back /\ V = HadIn(r, u)
    <2>. HIDE DEF V, back
    <2>. QED
      BY <1>0, <1>3, <1>6, <1>9
  <1>. QED
    BY <1>10, <1>11, <1>12

\* An answer from the cache.
LEMMA CacheAnswers ==
  ASSUME CacheInv, NEW r \in Requests, IsCovered(r)
  PROVE  /\ FromCache(r) \in Bars
         /\ Answered([from |-> "cache", request |-> r, bars |-> FromCache(r), at |-> now])
  <1>. DEFINE V == Within(r, DOMAIN values)
              N == Newest(r.max, V)
              a == [from |-> "cache", request |-> r, bars |-> FromCache(r), at |-> now]
  <1>1. PICK k \in DOMAIN coverages : Covers(coverages[k], r)
    BY DEF IsCovered
  <1>2. V \in SUBSET Dates /\ \A d \in V : now <= values[d] + LooksBack(r, now)
    BY <1>1, CacheIsOfOneMoment
  <1>3. PICK t \in Times : t <= now /\ now <= t + LooksBack(r, now) /\ V = HadIn(r, t)
    BY <1>1, CacheIsOfOneMoment
  <1>4. values \in Bars /\ r.max \in Nat /\ V \in SUBSET DOMAIN values
    BY DailyConstants DEF CacheInv, TypeOK, Requests, Within
  <1>. HIDE DEF V
  <1>5. /\ N \in SUBSET V /\ Cardinality(N) <= r.max
        /\ \A d \in N, e \in V : e > d => e \in N
        /\ Cardinality(N) < r.max => N = V
    BY <1>2, <1>4, NewestDays
  <1>6. Cardinality(N) \in Nat
    BY <1>2, <1>5, DaysAreFinite
  <1>. HIDE DEF N
  <1>7. N = Newest(Cardinality(N), V)
    BY <1>2, <1>5, UpperPart
  <1>8. /\ FromCache(r) \in Bars /\ DOMAIN FromCache(r) = N
        /\ \A d \in N : FromCache(r)[d] = values[d]
    <2>1. N \in SUBSET Dates /\ N \in SUBSET DOMAIN values
      BY <1>2, <1>4, <1>5
    <2>. QED
      BY <1>4, <2>1, SomeBars DEF FromCache, N, V
  <1>9. Cardinality(N) = r.max \/ N = V
    BY <1>4, <1>5, <1>6
  <1>10. \A d \in N : now <= FromCache(r)[d] + LooksBack(r, now)
    BY <1>2, <1>5, <1>8
  <1>11. a.bars = FromCache(r) /\ a.at = now /\ a.request = r
    OBVIOUS
  <1>. HIDE DEF a
  <1>12. Answered(a)
    BY <1>3, <1>7, <1>8, <1>9, <1>10, <1>11 DEF Answered
  <1>. QED
    BY <1>8, <1>12 DEF a

\* An answer that has just been loaded.
LEMMA ServerAnswers ==
  ASSUME CacheInv, NEW w \in Workers, fetch[w].at = "loaded"
  PROVE  LET f == fetch[w] IN
         Answered([from |-> "server", request |-> f.request, bars |-> f.bars, at |-> now])
  <1>. DEFINE f == fetch[w]
              a == [from |-> "server", request |-> f.request, bars |-> f.bars, at |-> now]
              back == LooksBack(f.request, now)
  <1>1. f \in Loading /\ Loads(f) /\ now \in Times
    BY LoadingIsTyped DEF CacheInv, LoadInv, TypeOK, Idle
  <1>. HIDE DEF f
  <1>2. /\ f.bars \in Bars /\ f.request \in Requests /\ f.began \in Nat /\ now \in Nat
        /\ f.request.end \in Nat /\ f.bymd \in Nat
        /\ FetchTime \in Nat /\ back \in Nat /\ FetchTime <= back
    BY <1>1, TimeIsNumber, DailyConstants DEF Loading, LooksBack, Requests, Dates
  <1>3. /\ \A d \in Dates : d \in Nat
        /\ \A t \in Times : t \in Nat
        /\ Traded \in SUBSET Dates
    <2>1. \A d \in Dates : d \in Nat
      BY DEF Dates
    <2>. QED
      BY <2>1, TimeIsNumber, DailyConstants DEF Dates
  <1>. HIDE DEF back
  <1>4. PICK t \in Times :
          /\ f.began <= t /\ t <= now
          /\ DOMAIN f.bars = {d \in Within(f.request, Traded) : d > f.bymd /\ Priced(d, t)}
    BY <1>1 DEF Loads, Snapshot
  <1>5. now <= f.began + FetchTime
    BY <1>1 DEF Loads
  <1>6. now <= t + back
    BY <1>2, <1>3, <1>4, <1>5
  <1>7. DOMAIN f.bars = Newest(Cardinality(DOMAIN f.bars), HadIn(f.request, t))
    <2>1. HadIn(f.request, t) \in SUBSET Dates
      BY <1>3 DEF HadIn, Within
    <2>2. DOMAIN f.bars \in SUBSET HadIn(f.request, t)
      BY <1>4 DEF HadIn
    <2>3. \A d \in DOMAIN f.bars, e \in HadIn(f.request, t) : e > d => e \in DOMAIN f.bars
      <3>. SUFFICES ASSUME NEW d \in DOMAIN f.bars, NEW e \in HadIn(f.request, t), e > d
                    PROVE  e \in DOMAIN f.bars
        OBVIOUS
      <3>1. d \in Nat /\ e \in Nat /\ d > f.bymd
        BY <1>3, <1>4, <2>1, <2>2
      <3>2. e > f.bymd /\ e \in Within(f.request, Traded) /\ Priced(e, t)
        BY <1>2, <3>1 DEF HadIn
      <3>. QED
        BY <1>4, <3>2
    <2>. QED
      BY <2>1, <2>2, <2>3, UpperPart
  <1>8. \A d \in DOMAIN f.bars : now <= f.bars[d] + back
    <2>1. \A d \in DOMAIN f.bars : f.bars[d] \in Nat
      BY <1>2, <1>3, BarsAreReadings
    <2>2. \A d \in DOMAIN f.bars : f.began <= f.bars[d]
      BY <1>1 DEF Loads
    <2>. QED
      BY <1>2, <1>5, <2>1, <2>2
  <1>9. a.bars = f.bars /\ a.at = now /\ a.request = f.request /\ a.from # "cache"
    OBVIOUS
  <1>. HIDE DEF a
  <1>10. Answered(a)
    BY <1>4, <1>6, <1>7, <1>8, <1>9 DEF Answered, back
  <1>. QED
    BY <1>10 DEF a, f

LEMMA AnswerStep ==
  ASSUME CacheInv, AnswerInv, [Next]_vars
  PROVE  AnswerInv'
  <1>. SUFFICES ASSUME answer' # NoAnswer PROVE Answered(answer')
    BY DEF AnswerInv, Answered
  <1>1. ASSUME NEW w \in Workers, Hit(w) PROVE Answered(answer')
    <2>1. PICK r \in Requests : IsCovered(r) /\ Answer(r, "cache", FromCache(r))
      BY <1>1 DEF Hit
    <2>. QED
      BY <2>1, CacheAnswers DEF Answer
  <1>2. ASSUME NEW w \in Workers, Store(w) PROVE Answered(answer')
    BY <1>2, ServerAnswers DEF Store, Answer
  <1>3. CASE UNCHANGED vars
    BY <1>3 DEF vars, AnswerInv
  <1>. QED
    BY <1>1, <1>2, <1>3
    DEF Next, Step, Tick, Miss, ReadEnd, ReadPage, ReadFails, StoreNothing, NothingReturned

-----------------------------------------------------------------------------
(* Theorems *)

LEMMA InitInv ==
  ASSUME Init
  PROVE  Inv
  <1>1. NoBars \in Bars /\ DOMAIN NoBars = {}
    <2>1. DOMAIN NoBars = {} /\ NoBars \in [{} -> Times]
      BY DEF NoBars
    <2>2. NoBars \in Bars
      BY <2>1 DEF Bars
    <2>. QED
      BY <2>1, <2>2
  <1>2. 0 \in Times
    <2>1. Days * DayLength \in Nat \ {0}
      BY DailyConstants
    <2>. QED
      BY <2>1 DEF Times
  <1>3. \A k \in DOMAIN coverages : FALSE
    BY DEF Init
  <1>4. TypeOK
    BY <1>1, <1>2, DailyConstants DEF Init, TypeOK
  <1>5. LoadInv /\ ValuesInv /\ CoverInv /\ AnswerInv
    BY <1>1, <1>3 DEF Init, LoadInv, ValuesInv, CoverInv, AnswerInv
  <1>. QED
    BY <1>4, <1>5 DEF Inv, CacheInv

\* The cache's invariant.
THEOREM CacheInvariant == Spec => []Inv
  <1>1. Inv /\ [Next]_vars => Inv'
    BY CacheStep, AnswerStep DEF Inv
  <1>. QED
    BY <1>1, InitInv, PTL DEF Spec

\* The cache, the list of coverages and the requests being loaded keep their
\* shape, and the list its limit of 64.
THEOREM TypeCorrect == Spec => []TypeOK
  <1>1. Inv => TypeOK
    BY DEF Inv, CacheInv
  <1>. QED
    BY <1>1, CacheInvariant, PTL

\* A coverage is not stored without the bars it promises, also when other
\* threads store older and newer readings of the same days meanwhile.
THEOREM CoverageWhole == Spec => []CoverageIsWhole
  <1>1. ASSUME Inv PROVE CoverageIsWhole
    <2>. DEFINE C == [start : Dates, end : Dates, at : Times]
    <2>. SUFFICES ASSUME NEW k \in DOMAIN coverages,
                         NEW d \in coverages[k].start .. coverages[k].end,
                         coverages[k].at >= FetchTime,
                         Priced(d, coverages[k].at - FetchTime)
                  PROVE  d \in DOMAIN values /\ values[d] + FetchTime >= coverages[k].at
      BY DEF CoverageIsWhole
    <2>. DEFINE c == coverages[k]
                u == c.at - FetchTime
    <2>0. values \in Bars /\ now \in Times /\ coverages \in Seq(C)
      BY <1>1, Zenon DEF Inv, CacheInv, TypeOK
    <2>1. c \in C
      <3>. HIDE DEF C
      <3>. QED
        BY <2>0
    <2>2. Whole(c, values, now)
      BY <1>1 DEF Inv, CacheInv, CoverInv
    <2>3. d \in c.start .. c.end /\ c.at >= FetchTime /\ Priced(d, u)
      OBVIOUS
    <2>. HIDE DEF c
    <2>4. /\ FetchTime \in Nat /\ c.at \in Nat /\ c.start \in Dates /\ c.end \in Dates
          /\ \A t \in Times : t \in Nat
      BY <2>1, TimeIsNumber, DailyConstants
    <2>5. u \in Times /\ d \in Dates /\ c.start <= d /\ d <= c.end
      BY <2>1, <2>3, <2>4, DailyConstants DEF Times, Dates
    <2>6. PICK t \in Times :
            /\ t <= c.at /\ c.at <= t + FetchTime
            /\ \A e \in Dates :
                 c.start <= e /\ e <= c.end /\ Priced(e, t) => e \in DOMAIN values
      BY <2>2 DEF Whole
    <2>7. Priced(d, t)
      <3>1. u <= t
        BY <2>4, <2>6
      <3>. QED
        BY <2>3, <2>5, <2>6, <3>1, PriceOfDay
    <2>8. d \in DOMAIN values
      BY <2>5, <2>6, <2>7
    <2>9. c.at <= values[d] + FetchTime /\ values[d] \in Nat
      BY <2>0, <2>2, <2>4, <2>5, <2>8, BarsAreReadings DEF Whole
    <2>. QED
      BY <2>4, <2>8, <2>9 DEF c
  <1>. QED
    BY <1>1, CacheInvariant, PTL

\* Whatever pages and ranges an answer is put together from, and whichever
\* threads loaded them, it is the latest part of the range as it was at one
\* moment: no day is missing in between.
THEOREM NoGap == Spec => []AnswerHasNoGap
  <1>1. Inv => AnswerHasNoGap
    BY DEF Inv, AnswerInv, Answered, AnswerHasNoGap, Moments, Lifetime, LooksBack, Had, HadIn
  <1>. QED
    BY <1>1, CacheInvariant, PTL

\* A cached answer is not short of records that the range has.
THEOREM InFull == Spec => []CacheAnswersInFull
  <1>1. Inv => CacheAnswersInFull
    BY DEF Inv, AnswerInv, Answered, CacheAnswersInFull, Moments, Lifetime, LooksBack, Had, HadIn
  <1>. QED
    BY <1>1, CacheInvariant, PTL

\* A bar is not answered with once its range is older than it may be cached.
THEOREM Fresh == Spec => []AnswerIsFresh
  <1>1. Inv => AnswerIsFresh
    BY DEF Inv, AnswerInv, Answered, AnswerIsFresh, Lifetime, LooksBack
  <1>. QED
    BY <1>1, CacheInvariant, PTL

=============================================================================
