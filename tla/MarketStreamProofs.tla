------------------------- MODULE MarketStreamProofs -------------------------
(***************************************************************************)
(* Proofs about MarketStream: for any stocks, lists, credentials and limit *)
(* of subscriptions, and any number of jobs and prices.                    *)
(*                                                                         *)
(* The argument: a job that works on the lists or the credentials has      *)
(* joined the stream before (JobInv), so that what a running stream was    *)
(* started with is what the manager still has (StreamInv).  The messages   *)
(* under way end in what the page is to show, however late they are        *)
(* (PageInv): each change of the credentials and each start of the stream  *)
(* posts its message before anything that depends on it can be posted.     *)
(***************************************************************************)
EXTENDS MarketStream, FiniteSetTheorems, TLAPS

Statuses == {"connecting", "connected", "disconnected", "failed"}
Messages ==
  [to : {"load_stream_status"}, status : Statuses]
    \cup [to : {"load_runtime_status"}, missing : BOOLEAN] \cup {Balance, Price}

TypeInv == TypeOK /\ queue \in Seq(Messages)

\* The stream has been joined when a job changes what it was started with.
JobInv ==
  /\ at = "verify" => job.kind = "save"
  /\ at \in {"refresh", "run", "start"} => ~live
  /\ at = "start" => key # NoKey

StreamInv ==
  /\ ~live => said = << >>
  /\ live => /\ key # NoKey /\ subject.key = key
             /\ \E list \in Lists : subject.items = list \o manual \o watch

\* The page has been told of the credentials since it was loaded.
Told ==
  pending = {} /\ at # "refresh" /\ ~(job.kind = "load" /\ at \in {"stop", "apply"})

\* Once the messages of q have arrived something holds that the message makes
\* true and those of a set keep so; done says whether it holds already.
Settles(q, done, message, kept) ==
  \/ done /\ \A n \in DOMAIN q : q[n] \in kept
  \/ \E n \in DOMAIN q :
       q[n] = message /\ \A m \in DOMAIN q : m > n => q[m] \in kept

\* The page will ask for credentials, or will know that there are some.
Asks(q, done) ==
  Settles(q, done, RuntimeStatus(TRUE), Messages \ {Price, RuntimeStatus(FALSE)})
Knows(q, done) ==
  Settles(q, done, RuntimeStatus(FALSE), Messages \ {RuntimeStatus(TRUE)})

\* The status text that a message leaves on a page that knows of credentials,
\* and the one that the last of the messages leaves.
Leaves(m) ==
  CASE m.to = "load_stream_status" -> m.status
    [] m.to = "update_stock_price" -> "receiving"
    [] m.to = "load_runtime_status" -> IF m.missing THEN "settings" ELSE "waiting"
    [] m.to = "load_balance" -> "waiting"
Ending(q, text) == IF q = << >> THEN text ELSE Leaves(q[Len(q)])

PageInv ==
  Told =>
    /\ key = NoKey => Asks(queue, missing /\ chip = "settings")
    /\ key # NoKey => /\ Knows(queue, ~missing)
                      /\ live => Ending(queue, chip) \in {LastWord, "waiting"}
                      /\ at = "start" => Ending(queue, chip) = "connecting"

Inv == TypeInv /\ JobInv /\ StreamInv /\ PageInv

-----------------------------------------------------------------------------
(* The plan *)

\* There is a first number in any set of them.
LEMMA FirstNumber ==
  ASSUME NEW S \in SUBSET Nat, S # {}
  PROVE  \E first \in S : \A n \in S : first <= n
  <1>. DEFINE less == {p \in Nat \X Nat : p[1] < p[2]}
  <1>1. IsWellFoundedOn(less, Nat)
    BY NatLessThanWellFounded DEF OpToRel
  <1>. HIDE DEF less
  <1>2. PICK first \in S : \A n \in S : <<n, first>> \notin less
    BY <1>1, WFMin
  <1>3. \A n \in S : <<n, first>> \in Nat \X Nat
    OBVIOUS
  <1>4. \A n \in S : ~(n < first)
    BY <1>2, <1>3 DEF less
  <1>. QED
    BY <1>4

\* Places are few.
LEMMA PlacesAreFinite ==
  ASSUME NEW top \in Nat, NEW places \in SUBSET (1 .. top)
  PROVE  IsFiniteSet(places) /\ Cardinality(places) \in Nat
  <1>1. IsFiniteSet(1 .. top)
    BY FS_Interval
  <1>2. IsFiniteSet(places)
    BY <1>1, FS_Subset
  <1>. QED
    BY <1>2, FS_CardinalityType

\* The places before one.
Before(n, places) == {m \in places : m < n}

\* A place has a number of its own among the places.
LEMMA PlaceHasNumber ==
  ASSUME NEW top \in Nat, NEW places \in SUBSET (1 .. top), NEW n \in places
  PROVE  /\ Cardinality(places) \in Nat
         /\ Cardinality(Before(n, places)) + 1 \in 1 .. Cardinality(places)
         /\ \A m \in places :
              Cardinality(Before(m, places)) = Cardinality(Before(n, places)) => m = n
  <1>1. \A S \in SUBSET places : IsFiniteSet(S) /\ Cardinality(S) \in Nat
    <2>1. \A S \in SUBSET places : S \in SUBSET (1 .. top)
      OBVIOUS
    <2>. QED
      BY <2>1, PlacesAreFinite
  <1>2. \A m \in places : m \in Nat /\ Before(m, places) \in SUBSET places
    BY DEF Before
  <1>3. ASSUME NEW m \in places, NEW T \in SUBSET places,
               m \in T, Before(m, places) \in SUBSET T
        PROVE  Cardinality(Before(m, places)) < Cardinality(T)
    <2>1. Before(m, places) \in SUBSET (T \ {m})
      BY <1>2, <1>3 DEF Before
    <2>2. IsFiniteSet(T \ {m}) /\ Cardinality(T \ {m}) = Cardinality(T) - 1
      BY <1>1, <1>3, FS_RemoveElement
    <2>3. Cardinality(Before(m, places)) <= Cardinality(T \ {m})
      BY <2>1, <2>2, FS_Subset
    <2>. QED
      BY <1>1, <1>2, <2>2, <2>3
  <1>4. Cardinality(Before(n, places)) < Cardinality(places)
    BY <1>2, <1>3
  <1>5. ASSUME NEW m \in places, NEW k \in places, m < k
        PROVE  Cardinality(Before(m, places)) < Cardinality(Before(k, places))
    <2>1. m \in Before(k, places) /\ Before(m, places) \in SUBSET Before(k, places)
      <3>1. \A l \in places : l \in Nat /\ (l < m => l < k)
        BY <1>2, <1>5
      <3>. QED
        BY <1>5, <3>1 DEF Before
    <2>. QED
      BY <1>2, <1>3, <2>1
  <1>6. ASSUME NEW m \in places,
               Cardinality(Before(m, places)) = Cardinality(Before(n, places))
        PROVE  m = n
    BY <1>1, <1>2, <1>5, <1>6
  <1>. QED
    BY <1>1, <1>2, <1>4, <1>6

\* Each of the places is taken over.
LEMMA PlaceIsTaken ==
  ASSUME NEW s, NEW top \in Nat, NEW places \in SUBSET (1 .. top)
  PROVE  /\ DOMAIN InOrder(s, places) = 1 .. Cardinality(places)
         /\ Cardinality(places) \in Nat
         /\ \A n \in places : \E k \in 1 .. Cardinality(places) : InOrder(s, places)[k] = s[n]
  <1>1. Cardinality(places) \in Nat
    BY PlacesAreFinite
  <1>2. ASSUME NEW n \in places
        PROVE  \E k \in 1 .. Cardinality(places) : InOrder(s, places)[k] = s[n]
    <2>. DEFINE k == Cardinality(Before(n, places)) + 1
                Numbered(m) == Cardinality({l \in places : l < m}) = k - 1
    <2>1. k \in 1 .. Cardinality(places) /\ k - 1 = Cardinality(Before(n, places))
      <3>1. k \in 1 .. Cardinality(places)
        BY PlaceHasNumber
      <3>2. Cardinality(Before(n, places)) \in Nat
        <4>1. Before(n, places) \in SUBSET (1 .. top)
          BY DEF Before
        <4>. QED
          BY <4>1, PlacesAreFinite
      <3>. QED
        BY <3>1, <3>2
    <2>2. Numbered(n) /\ \A m \in places : Numbered(m) => m = n
      <3>1. \A m : Numbered(m) <=> Cardinality(Before(m, places)) = k - 1
        BY DEF Before
      <3>2. \A m \in places : Cardinality(Before(m, places)) = Cardinality(Before(n, places))
                                => m = n
        BY PlaceHasNumber
      <3>. HIDE DEF Numbered, k
      <3>. QED
        BY <2>1, <3>1, <3>2
    <2>3. (CHOOSE m \in places : Numbered(m)) = n
      BY <2>2
    <2>. HIDE DEF k
    <2>4. InOrder(s, places)[k] = s[n]
      BY <2>1, <2>3 DEF InOrder
    <2>. QED
      BY <2>1, <2>4
  <1>3. DOMAIN InOrder(s, places) = 1 .. Cardinality(places)
    BY DEF InOrder
  <1>. QED
    BY <1>1, <1>2, <1>3

\* Each element of a list has a first place, and there are no more of those than
\* elements.
LEMMA FirstPlaces ==
  ASSUME NEW S, NEW s \in Seq(S)
  PROVE  /\ Firsts(s) \in SUBSET (1 .. Len(s))
         /\ \A i \in ToSet(s) : \E n \in Firsts(s) : s[n] = i
         /\ Cardinality(Firsts(s)) <= Cardinality(ToSet(s))
  <1>1. Len(s) \in Nat /\ DOMAIN s = 1 .. Len(s) /\ Firsts(s) \in SUBSET (1 .. Len(s))
    BY DEF Firsts
  <1>2. ASSUME NEW i \in ToSet(s) PROVE \E n \in Firsts(s) : s[n] = i
    <2>. DEFINE named == {n \in 1 .. Len(s) : s[n] = i}
    <2>1. named \in SUBSET Nat /\ named # {}
      BY <1>1 DEF ToSet
    <2>2. PICK first \in named : \A n \in named : first <= n
      BY <2>1, FirstNumber
    <2>3. \A m \in 1 .. first - 1 : s[m] # s[first]
      BY <1>1, <2>2
    <2>. QED
      BY <1>1, <2>2, <2>3 DEF Firsts
  <1>3. Cardinality(Firsts(s)) <= Cardinality(ToSet(s))
    <2>. DEFINE name == [n \in Firsts(s) |-> s[n]]
    <2>1. IsFiniteSet(1 .. Len(s)) /\ IsFiniteSet(Firsts(s))
      BY <1>1, FS_Interval, PlacesAreFinite
    <2>2. name \in Surjection(Firsts(s), ToSet(s))
      <3>1. name \in [Firsts(s) -> ToSet(s)]
        BY <1>1 DEF ToSet
      <3>. QED
        BY <1>2, <3>1 DEF Surjection
    <2>3. IsFiniteSet(ToSet(s))
      BY <2>1, <2>2, FS_Surjection
    <2>4. \A m, n \in Firsts(s) : s[m] = s[n] => m = n
      <3>1. \A m, n \in Firsts(s) : m < n => s[m] # s[n]
        BY <1>1 DEF Firsts
      <3>2. \A m, n \in Firsts(s) : m < n \/ n < m \/ m = n
        BY <1>1
      <3>. QED
        BY <3>1, <3>2
    <2>5. name \in Injection(Firsts(s), ToSet(s))
      BY <2>2, <2>4 DEF Surjection, Injection, IsInjective
    <2>. QED
      BY <2>3, <2>5, FS_Injection
  <1>. QED
    BY <1>1, <1>2, <1>3

\* A plan does not exceed the limit, and has each stock's key of the current
\* session if there are no more stocks than that.
LEMMA PlanHasAll ==
  ASSUME NEW items \in Seq(Items), NEW daytime \in BOOLEAN
  PROVE  /\ Len(Plan(items, daytime)) <= Limit
         /\ Cardinality(ToSet(items)) <= Limit =>
              \A i \in ToSet(items) : Primary(i, daytime) \in ToSet(Plan(items, daytime))
  <1>. DEFINE firsts == Firsts(items)
              foreign == {n \in firsts : items[n] \in American}
              distinct == InOrder(items, firsts)
              american == InOrder(items, foreign)
              s == [n \in DOMAIN distinct |-> Primary(distinct[n], daytime)]
              t == [n \in DOMAIN american |-> Alternate(american[n], daytime)]
              all == AllKeys(items, daytime)
              plan == Plan(items, daytime)
              N == Cardinality(firsts)
              K == Cardinality(foreign)
  <1>1. /\ Len(items) \in Nat /\ firsts \in SUBSET (1 .. Len(items))
        /\ foreign \in SUBSET (1 .. Len(items))
        /\ \A i \in ToSet(items) : \E n \in firsts : items[n] = i
        /\ N <= Cardinality(ToSet(items))
    BY FirstPlaces
  <1>2. /\ DOMAIN distinct = 1 .. N /\ N \in Nat
        /\ \A n \in firsts : \E k \in 1 .. N : distinct[k] = items[n]
    <2>. HIDE DEF firsts
    <2>. QED
      BY <1>1, PlaceIsTaken
  <1>3. DOMAIN american = 1 .. K /\ K \in Nat
    <2>. HIDE DEF foreign
    <2>. QED
      BY <1>1, PlaceIsTaken
  <1>. DEFINE P == {Primary(distinct[n], daytime) : n \in DOMAIN distinct}
              A == {Alternate(american[n], daytime) : n \in DOMAIN american}
  <1>4. all = s \o t
    BY DEF AllKeys
  <1>. HIDE DEF firsts, foreign, distinct, american, all, N, K
  <1>5. s \in Seq(P) /\ Len(s) = N /\ t \in Seq(A) /\ Len(t) = K
    <2>1. s \in [1 .. N -> P] /\ t \in [1 .. K -> A]
      BY <1>2, <1>3
    <2>. HIDE DEF s, t, P, A
    <2>. QED
      BY <1>2, <1>3, <2>1
  <1>6. /\ \A k \in 1 .. N : s[k] = Primary(distinct[k], daytime)
    BY <1>2
  <1>. HIDE DEF s, t, P, A
  <1>7. /\ Len(all) = N + K /\ Len(all) \in Nat
        /\ \A k \in 1 .. N : all[k] = s[k]
        /\ all \in Seq(P \cup A)
    <2>. DEFINE B == P \cup A
    <2>1. s \in Seq(B) /\ t \in Seq(B)
      BY <1>5
    <2>. HIDE DEF B
    <2>2. Len(s \o t) = Len(s) + Len(t) /\ \A k \in 1 .. Len(s) : (s \o t)[k] = s[k]
      BY <2>1
    <2>3. s \o t \in Seq(B)
      BY <2>1
    <2>. QED
      BY <1>2, <1>3, <1>4, <1>5, <2>2, <2>3 DEF B
  <1>. DEFINE top == IF Len(all) < Limit THEN Len(all) ELSE Limit
  <1>8. /\ plan = SubSeq(all, 1, top) /\ top \in Nat /\ top <= Limit /\ top <= Len(all)
    BY <1>7, MarketConstants DEF Plan, all
  <1>9. /\ Len(plan) = top /\ DOMAIN plan = 1 .. top
        /\ \A k \in 1 .. top : plan[k] = all[k]
    <2>. HIDE DEF top, plan
    <2>. QED
      BY <1>7, <1>8
  <1>10. ASSUME Cardinality(ToSet(items)) <= Limit, NEW i \in ToSet(items)
         PROVE  Primary(i, daytime) \in ToSet(plan)
    <2>1. PICK k \in 1 .. N : distinct[k] = i
      BY <1>1, <1>2
    <2>2. k \in 1 .. top
      <3>1. Cardinality(ToSet(items)) \in Nat
        <4>1. IsFiniteSet(1 .. Len(items))
          BY <1>1, FS_Interval
        <4>. DEFINE name == [n \in 1 .. Len(items) |-> items[n]]
        <4>2. name \in Surjection(1 .. Len(items), ToSet(items))
          BY DEF Surjection, ToSet
        <4>. QED
          BY <4>1, <4>2, FS_Surjection, FS_CardinalityType
      <3>. QED
        BY <1>1, <1>2, <1>3, <1>7, <1>10, <3>1, MarketConstants
    <2>3. plan[k] = Primary(i, daytime)
      BY <1>6, <1>7, <1>9, <2>1, <2>2
    <2>. HIDE DEF plan, top
    <2>. QED
      BY <1>9, <2>2, <2>3 DEF ToSet
  <1>. QED
    BY <1>8, <1>9, <1>10

-----------------------------------------------------------------------------
(* Types *)

JobType ==
  /\ pending \subseteq Loads /\ job \in Loads \cup Requests \cup {NoJob}
  /\ asked \in 1 .. MaxJobs
  /\ at \in Places /\ (at = "free" <=> job = NoJob)
ManagerType ==
  /\ stored \in AnyKey /\ key \in AnyKey
  /\ holdings \in Lists /\ manual \in Lists /\ watch \in Lists
StreamType ==
  /\ subject \in [key : AnyKey, items : Seq(Items)]
  /\ live \in BOOLEAN /\ stopping \in BOOLEAN /\ said \in Seq(Stream!Events)
PageType ==
  /\ chip \in Statuses \cup {"none", "settings", "waiting", "receiving"}
  /\ missing \in BOOLEAN /\ queue \in Seq(Messages)

\* The types, by part; a plan is as long as it may be whatever the list.
LEMMA TypesByPart == TypeInv <=> JobType /\ ManagerType /\ StreamType /\ PageType
  <1>1. ASSUME subject \in [key : AnyKey, items : Seq(Items)], NEW daytime \in BOOLEAN
        PROVE  Len(Plan(subject.items, daytime)) <= Limit
    BY <1>1, PlanHasAll
  <1>2. TypeInv => JobType /\ ManagerType /\ StreamType /\ PageType
    BY DEF TypeInv, TypeOK, JobType, ManagerType, StreamType, PageType, Statuses
  <1>3. JobType /\ ManagerType /\ StreamType /\ PageType => TypeInv
    BY <1>1 DEF TypeInv, TypeOK, JobType, ManagerType, StreamType, PageType, Statuses
  <1>. QED
    BY <1>2, <1>3

\* What the kinds of jobs hold.
LEMMA JobHolds ==
  ASSUME NEW j \in Loads \cup Requests
  PROVE  /\ j # NoJob
         /\ j.kind \in {"load", "manual", "watch", "save", "retry", "clear", "order"}
         /\ j.kind = "load" => j.manual \in Lists /\ j.watch \in Lists
         /\ j.kind \in {"manual", "watch"} => j.list \in Lists
         /\ j.kind = "save" => j.key \in Keys
  BY DEF Loads, Requests, NoJob

\* A job goes on, ends, or begins.
LEMMA JobGoesOn ==
  ASSUME JobType, at # "free", NEW p \in Places \ {"free"}, Goto(p)
  PROVE  JobType'
  BY DEF JobType, Goto

\* A job that ends leaves nothing behind.
LEMMA JobReleases ==
  ASSUME JobType, Release
  PROVE  JobType'
  BY DEF JobType, Release, Places

\* A job that begins is at its first place.
LEMMA JobBegins ==
  ASSUME JobType, NEW j \in Loads \cup Requests, Begin(j),
         asked' \in 1 .. MaxJobs, pending' \subseteq Loads
  PROVE  JobType' /\ (at' = "verify" => j.kind = "save") /\ at' \in {"order", "verify", "stop"}
  <1>1. at' \in {"order", "verify", "stop"} /\ (at' = "verify" => j.kind = "save")
    BY DEF Begin, FirstPlace
  <1>2. job' = j /\ j # NoJob
    BY JobHolds DEF Begin
  <1>. QED
    BY <1>1, <1>2 DEF JobType, Places

\* What does not change keeps its type.
LEMMA UnchangedTypes ==
  /\ JobType /\ UNCHANGED jobVars => JobType'
  /\ ManagerType /\ UNCHANGED managerVars => ManagerType'
  /\ StreamType /\ UNCHANGED streamVars => StreamType'
  /\ PageType /\ UNCHANGED pageVars => PageType'
  BY DEF JobType, ManagerType, StreamType, PageType,
         jobVars, managerVars, streamVars, pageVars

-----------------------------------------------------------------------------
(* Messages *)

\* What is posted are messages.
LEMMA Posted ==
  /\ \A s \in Statuses : Status(s) \in Messages
  /\ \A b \in BOOLEAN : RuntimeStatus(b) \in Messages
  /\ Balance \in Messages /\ Price \in Messages
  /\ \A e \in Stream!Events : Said(e) \in Messages
  <1>1. \A s \in Statuses : Status(s) \in Messages
    BY DEF Status, Messages
  <1>2. \A e \in Stream!Events : e = "tick" \/ e \in Statuses
    BY DEF Stream!Events, Stream!Final, Statuses
  <1>. QED
    BY <1>1, <1>2 DEF RuntimeStatus, Messages, Said

\* Messages that are posted join the others.
LEMMA Appended ==
  ASSUME NEW S, NEW q \in Seq(S), NEW a \in S
  PROVE  /\ Append(q, a) \in Seq(S) /\ Append(q, a) # << >>
         /\ Len(q) \in Nat /\ DOMAIN q = 1 .. Len(q)
         /\ Len(Append(q, a)) = Len(q) + 1 /\ DOMAIN Append(q, a) = 1 .. Len(q) + 1
         /\ \A n \in 1 .. Len(q) : Append(q, a)[n] = q[n]
         /\ Append(q, a)[Len(q) + 1] = a
         /\ \A b \in S : q \o <<a, b>> = Append(Append(q, a), b)
  OBVIOUS

\* The first of them is taken.
LEMMA Taken ==
  ASSUME NEW S, NEW q \in Seq(S), q # << >>
  PROVE  /\ Head(q) = q[1] /\ Head(q) \in S /\ Tail(q) \in Seq(S)
         /\ Len(q) \in Nat \ {0} /\ DOMAIN q = 1 .. Len(q)
         /\ Len(Tail(q)) = Len(q) - 1 /\ DOMAIN Tail(q) = 1 .. Len(q) - 1
         /\ \A n \in 1 .. Len(q) - 1 : Tail(q)[n] = q[n + 1]
         /\ (Tail(q) = << >>) <=> (Len(q) = 1)
  <1>1. /\ Head(q) = q[1] /\ Head(q) \in S /\ Tail(q) \in Seq(S)
        /\ Len(q) \in Nat \ {0} /\ DOMAIN q = 1 .. Len(q)
        /\ Len(Tail(q)) = Len(q) - 1 /\ DOMAIN Tail(q) = 1 .. Len(q) - 1
        /\ \A n \in 1 .. Len(q) - 1 : Tail(q)[n] = q[n + 1]
    OBVIOUS
  <1>2. \A r \in Seq(S) : (r = << >>) <=> (Len(r) = 0)
    OBVIOUS
  <1>3. (Tail(q) = << >>) <=> (Len(Tail(q)) = 0)
    <2>. DEFINE r == Tail(q)
    <2>1. r \in Seq(S)
      BY <1>1
    <2>. HIDE DEF r
    <2>2. (r = << >>) <=> (Len(r) = 0)
      BY <1>2, <2>1
    <2>. QED
      BY <2>2 DEF r
  <1>4. (Len(Tail(q)) = 0) <=> (Len(q) = 1)
    BY <1>1
  <1>. QED
    BY <1>1, <1>3, <1>4, Zenon

\* What the messages settle is kept by those that come after, ...
LEMMA SettlesAppend ==
  ASSUME NEW S, NEW q \in Seq(S), NEW done \in BOOLEAN, NEW message, NEW kept,
         Settles(q, done, message, kept), NEW a \in S, a \in kept
  PROVE  Settles(Append(q, a), done, message, kept)
  <1>1. CASE done /\ \A n \in DOMAIN q : q[n] \in kept
    BY <1>1, Appended DEF Settles
  <1>2. CASE \E n \in DOMAIN q : q[n] = message /\ \A m \in DOMAIN q : m > n => q[m] \in kept
    <2>1. PICK n \in DOMAIN q : q[n] = message /\ \A m \in DOMAIN q : m > n => q[m] \in kept
      BY <1>2
    <2>. DEFINE r == Append(q, a)
    <2>2. n \in DOMAIN r /\ r[n] = message
      BY <2>1, Appended
    <2>3. \A m \in DOMAIN r : m > n => r[m] \in kept
      BY <2>1, Appended
    <2>. HIDE DEF r
    <2>4. Settles(r, done, message, kept)
      BY <2>2, <2>3 DEF Settles
    <2>. QED
      BY <2>4 DEF r
  <1>. QED
    BY <1>1, <1>2 DEF Settles

\* ... settled by the message itself, ...
LEMMA SettlesLast ==
  ASSUME NEW S, NEW q \in Seq(S), NEW done \in BOOLEAN, NEW message \in S, NEW kept
  PROVE  Settles(Append(q, message), done, message, kept)
  <1>. DEFINE r == Append(q, message)
  <1>1. Len(q) + 1 \in DOMAIN r /\ r[Len(q) + 1] = message
        /\ \A m \in DOMAIN r : ~(m > Len(q) + 1)
    BY Appended
  <1>. HIDE DEF r
  <1>2. Settles(r, done, message, kept)
    BY <1>1 DEF Settles
  <1>. QED
    BY <1>2 DEF r

\* ... and holds once it has arrived.
LEMMA SettlesTail ==
  ASSUME NEW S, NEW q \in Seq(S), q # << >>, NEW done \in BOOLEAN, NEW after \in BOOLEAN,
         NEW message, NEW kept, Settles(q, done, message, kept),
         Head(q) = message => after,
         done /\ Head(q) \in kept => after
  PROVE  Settles(Tail(q), after, message, kept)
  <1>. DEFINE r == Tail(q)
  <1>0. /\ Head(q) = q[1] /\ Len(q) \in Nat \ {0} /\ DOMAIN q = 1 .. Len(q)
        /\ DOMAIN r = 1 .. Len(q) - 1 /\ \A n \in 1 .. Len(q) - 1 : r[n] = q[n + 1]
    BY Taken
  <1>. HIDE DEF r
  <1>1. CASE done /\ \A n \in DOMAIN q : q[n] \in kept
    <2>1. after /\ \A n \in DOMAIN r : r[n] \in kept
      BY <1>0, <1>1
    <2>. QED
      BY <2>1 DEF Settles, r
  <1>2. CASE \E n \in DOMAIN q : q[n] = message /\ \A m \in DOMAIN q : m > n => q[m] \in kept
    <2>1. PICK n \in DOMAIN q : q[n] = message /\ \A m \in DOMAIN q : m > n => q[m] \in kept
      BY <1>2
    <2>2. CASE n = 1
      <3>1. after /\ \A m \in DOMAIN r : r[m] \in kept
        BY <1>0, <2>1, <2>2
      <3>. QED
        BY <3>1 DEF Settles, r
    <2>3. CASE n # 1
      <3>1. n - 1 \in DOMAIN r /\ r[n - 1] = message
        BY <1>0, <2>1, <2>3
      <3>2. \A m \in DOMAIN r : m > n - 1 => r[m] \in kept
        BY <1>0, <2>1, <2>3
      <3>. QED
        BY <3>1, <3>2 DEF Settles, r
    <2>. QED
      BY <2>2, <2>3
  <1>. QED
    BY <1>1, <1>2 DEF Settles

-----------------------------------------------------------------------------
(* Steps: types *)

\* Lists make a list of stocks.
LEMMA ListsAreStocks ==
  ASSUME NEW a \in Lists, NEW b \in Lists, NEW c \in Lists
  PROVE  a \o b \o c \in Seq(Items)
  <1>1. a \in Seq(Items) /\ b \in Seq(Items) /\ c \in Seq(Items)
    BY MarketConstants
  <1>. QED
    BY <1>1

\* A step of any kind keeps the type of the jobs, ...
LEMMA JobTypeStep ==
  ASSUME JobType, Next
  PROVE  JobType'
  <1>1. CASE Reload
    BY <1>1, MarketConstants DEF Reload, UserActs, JobType
  <1>2. CASE TakeLoad
    <2>1. PICK load \in pending : Begin(load) /\ pending' = pending \ {load}
      BY <1>2 DEF TakeLoad
    <2>2. load \in Loads \cup Requests /\ asked' \in 1 .. MaxJobs /\ pending' \subseteq Loads
      BY <1>2, <2>1 DEF TakeLoad, JobType
    <2>. QED
      BY <2>1, <2>2, JobBegins
  <1>3. CASE TakeRequest
    <2>1. PICK request \in Requests : Begin(request)
      BY <1>3 DEF TakeRequest
    <2>2. /\ request \in Loads \cup Requests /\ asked' \in 1 .. MaxJobs
          /\ pending' \subseteq Loads
      BY <1>3, MarketConstants DEF TakeRequest, UserActs, JobType
    <2>. QED
      BY <2>1, <2>2, JobBegins
  <1>4. CASE JobStep
    <2>1. \/ Release
          \/ at # "free" /\ \E p \in Places \ {"free"} : Goto(p)
      BY <1>4 DEF JobStep, VerifyFails, Verified, Stop, SetLists, Retry, UseSaved, Clear,
                  ClearFails, Order, RefreshMissing, RefreshFails, Refreshed, NothingToRun,
                  Announce, Start, Joined, Places
    <2>. QED
      BY <2>1, JobGoesOn, JobReleases
  <1>5. CASE (\E e \in Stream!Events : CallBack(e)) \/ StreamEnds \/ Deliver
    BY <1>5, UnchangedTypes DEF CallBack, StreamEnds, Deliver
  <1>. QED
    BY <1>1, <1>2, <1>3, <1>4, <1>5 DEF Next

\* ... of the manager's credentials and lists, ...
LEMMA ManagerTypeStep ==
  ASSUME JobType, ManagerType, JobInv, Next
  PROVE  ManagerType'
  <1>1. CASE JobStep
    <2>0. /\ at # "free" => job \in Loads \cup Requests
          /\ << >> \in Lists /\ Keys \subseteq AnyKey /\ NoKey \in AnyKey /\ Fallback \in AnyKey
      BY MarketConstants DEF JobType, AnyKey
    <2>1. CASE UNCHANGED managerVars
      BY <2>1, UnchangedTypes
    <2>2. CASE Verified
      <3>1. job.key \in Keys
        BY <2>0, <2>2, JobHolds DEF Verified, JobInv
      <3>. QED
        BY <2>0, <2>2, <3>1 DEF Verified, ManagerType
    <2>3. CASE SetLists
      <3>1. /\ job.kind = "load" => job.manual \in Lists /\ job.watch \in Lists
            /\ job.kind \in {"manual", "watch"} => job.list \in Lists
        BY <2>0, <2>3, JobHolds DEF SetLists, Joined
      <3>2. manual' \in Lists
        BY <2>3, <3>1 DEF SetLists, ManagerType
      <3>3. watch' \in Lists
        BY <2>3, <3>1 DEF SetLists, ManagerType
      <3>. QED
        BY <2>3, <3>2, <3>3 DEF SetLists, ManagerType
    <2>4. CASE UseSaved
      <3>1. job.key \in Keys
        BY <2>0, <2>4, JobHolds DEF UseSaved, Joined
      <3>. QED
        BY <2>0, <2>4, <3>1 DEF UseSaved, ManagerType
    <2>5. CASE Clear
      BY <2>0, <2>5 DEF Clear, ManagerType
    <2>6. CASE Order
      BY <2>6 DEF Order, ManagerType
    <2>7. CASE RefreshMissing \/ RefreshFails \/ Refreshed
      BY <2>0, <2>7 DEF RefreshMissing, RefreshFails, Refreshed, RefreshedKey, ManagerType
    <2>. QED
      BY <1>1, <2>1, <2>2, <2>3, <2>4, <2>5, <2>6, <2>7
      DEF JobStep, VerifyFails, Stop, Retry, ClearFails, NothingToRun, Announce, Start
  <1>2. CASE ~JobStep
    BY <1>2, UnchangedTypes
    DEF Next, Reload, TakeLoad, TakeRequest, CallBack, StreamEnds, Deliver
  <1>. QED
    BY <1>1, <1>2

\* ... of the stream, ...
LEMMA StreamTypeStep ==
  ASSUME ManagerType, StreamType, Next
  PROVE  StreamType'
  <1>1. CASE Stop
    BY <1>1 DEF Stop, StreamType
  <1>2. CASE Start
    <2>1. [key |-> key, items |-> Subscriptions] \in [key : AnyKey, items : Seq(Items)]
      BY ListsAreStocks DEF ManagerType, Subscriptions
    <2>2. subject' \in [key : AnyKey, items : Seq(Items)]
      BY <1>2, <2>1 DEF Start, StreamType
    <2>. QED
      BY <1>2, <2>2 DEF Start, StreamType
  <1>3. ASSUME NEW e \in Stream!Events, CallBack(e) PROVE StreamType'
    <2>1. said' \in Seq(Stream!Events)
      BY <1>3, Appended DEF CallBack, StreamType
    <2>. QED
      BY <1>3, <2>1 DEF CallBack, StreamType
  <1>4. CASE StreamEnds
    <2>1. NoSubject \in [key : AnyKey, items : Seq(Items)]
      BY DEF NoSubject, AnyKey
    <2>2. << >> \in Seq(Stream!Events)
      OBVIOUS
    <2>. QED
      BY <1>4, <2>1, <2>2 DEF StreamEnds, StreamType
  <1>5. CASE UNCHANGED streamVars
    BY <1>5, UnchangedTypes
  <1>. QED
    BY <1>1, <1>2, <1>3, <1>4, <1>5
    DEF Next, Reload, TakeLoad, TakeRequest, Deliver, JobStep, VerifyFails, Verified, SetLists,
        Retry, UseSaved, Clear, ClearFails, Order, RefreshMissing, RefreshFails, Refreshed,
        NothingToRun, Announce

\* ... and of the page and the messages on their way to it.
LEMMA PageTypeStep ==
  ASSUME PageType, Next
  PROVE  PageType'
  <1>0. /\ queue \in Seq(Messages)
        /\ "connecting" \in Statuses /\ "failed" \in Statuses
    BY DEF PageType, Statuses
  <1>1. CASE UNCHANGED pageVars
    BY <1>1, UnchangedTypes
  <1>2. CASE Reload
    BY <1>2 DEF Reload, PageType
  <1>3. CASE UNCHANGED <<chip, missing>> /\ \E m \in Messages : queue' = Append(queue, m)
    BY <1>0, <1>3, Appended DEF PageType
  <1>4. CASE UNCHANGED <<chip, missing>> /\
             \E m \in Messages, n \in Messages : queue' = queue \o <<m, n>>
    BY <1>0, <1>4, Appended DEF PageType
  <1>5. CASE Deliver
    <2>1. /\ Head(queue) \in Messages /\ queue' \in Seq(Messages)
          /\ chip' = Shown(Head(queue))
          /\ missing' = IF Head(queue).to = "load_runtime_status"
                          THEN Head(queue).missing ELSE missing
      BY <1>0, <1>5, Taken DEF Deliver
    <2>2. /\ Head(queue).to = "load_stream_status" => Head(queue).status \in Statuses
          /\ Head(queue).to = "load_runtime_status" => Head(queue).missing \in BOOLEAN
          /\ Head(queue).to \in {"load_stream_status", "load_runtime_status", "load_balance",
                                 "update_stock_price"}
      BY <2>1 DEF Messages, Balance, Price
    <2>3. chip' \in Statuses \cup {"none", "settings", "waiting", "receiving"}
      BY <2>1, <2>2 DEF PageType, Shown
    <2>4. missing' \in BOOLEAN
      BY <2>1, <2>2 DEF PageType
    <2>. QED
      BY <2>1, <2>3, <2>4 DEF PageType
  <1>6. CASE Order \/ NothingToRun \/ Announce \/ Start
    <2>1. UNCHANGED <<chip, missing>>
      BY <1>6 DEF Order, NothingToRun, Announce, Start
    <2>2. queue' = queue \/ \E m \in Messages : queue' = Append(queue, m)
      BY <1>0, <1>6, Posted DEF Order, NothingToRun, Announce, Start
    <2>. QED
      BY <1>1, <1>3, <2>1, <2>2 DEF pageVars
  <1>7. CASE RefreshMissing \/ RefreshFails \/ Refreshed
    <2>1. /\ UNCHANGED <<chip, missing>>
          /\ \E m \in Messages, n \in Messages : queue' = queue \o <<m, n>>
      BY <1>0, <1>7, Posted DEF RefreshMissing, RefreshFails, Refreshed
    <2>. QED
      BY <1>4, <2>1
  <1>8. ASSUME NEW e \in Stream!Events, CallBack(e) PROVE PageType'
    BY <1>3, <1>8, Posted DEF CallBack
  <1>. QED
    BY <1>1, <1>2, <1>5, <1>6, <1>7, <1>8
    DEF Next, TakeLoad, TakeRequest, JobStep, VerifyFails, Verified, Stop, SetLists,
        Retry, UseSaved, Clear, ClearFails, StreamEnds

-----------------------------------------------------------------------------
(* Steps: the stream *)

\* A job past the join, and none but it, starts the stream again.
LEMMA JobInvStep ==
  ASSUME JobType, JobInv, Next
  PROVE  JobInv'
  <1>1. CASE TakeLoad \/ TakeRequest
    <2>1. at' \in {"order", "verify", "stop"} /\ (at' = "verify" => job'.kind = "save")
      BY <1>1 DEF TakeLoad, TakeRequest, Begin, FirstPlace
    <2>. QED
      BY <2>1 DEF JobInv
  <1>2. CASE JobStep
    <2>1. /\ at' # "verify"
          /\ at' \in {"refresh", "run", "start"} => ~live /\ live' = live
          /\ at' = "start" => key' # NoKey
      BY <1>2
      DEF JobStep, VerifyFails, Verified, Stop, SetLists, Retry, UseSaved, Clear, ClearFails,
          Order, RefreshMissing, RefreshFails, Refreshed, NothingToRun, Announce, Start,
          Goto, Release, Joined, streamVars, managerVars, JobInv
    <2>. QED
      BY <2>1 DEF JobInv
  <1>3. CASE Reload \/ (\E e \in Stream!Events : CallBack(e)) \/ StreamEnds \/ Deliver
    <2>1. UNCHANGED <<job, at, key>>
      BY <1>3 DEF Reload, CallBack, StreamEnds, Deliver, jobVars, managerVars
    <2>2. live' = live \/ live' = FALSE
      BY <1>3 DEF Reload, CallBack, StreamEnds, Deliver, streamVars
    <2>. QED
      BY <2>1, <2>2 DEF JobInv
  <1>. QED
    BY <1>1, <1>2, <1>3 DEF Next

\* What a stream runs with does not change before the stream has ended.
LEMMA StreamInvStep ==
  ASSUME ManagerType, StreamType, JobInv, StreamInv, Next
  PROVE  StreamInv'
  <1>1. CASE Start
    <2>1. ~live /\ key # NoKey
      BY <1>1 DEF Start, JobInv
    <2>2. /\ said' = << >> /\ subject'.key = key' /\ key' # NoKey
          /\ holdings \in Lists /\ subject'.items = holdings \o manual' \o watch'
      BY <1>1, <2>1 DEF Start, StreamInv, Subscriptions, ManagerType, managerVars
    <2>. QED
      BY <1>1, <2>2 DEF Start, StreamInv
  <1>2. ASSUME NEW e \in Stream!Events, CallBack(e) PROVE StreamInv'
    <2>1. live /\ live' = live /\ UNCHANGED <<key, manual, watch, subject>>
      BY <1>2 DEF CallBack, managerVars
    <2>. QED
      BY <2>1 DEF StreamInv
  <1>3. CASE StreamEnds
    BY <1>3 DEF StreamEnds, StreamInv
  <1>4. CASE UNCHANGED <<live, said, subject>> /\ (UNCHANGED <<key, manual, watch>> \/ ~live)
    BY <1>4 DEF StreamInv
  <1>5. CASE Next /\ ~Start /\ ~(\E e \in Stream!Events : CallBack(e)) /\ ~StreamEnds
    BY <1>4, <1>5
    DEF Next, Reload, TakeLoad, TakeRequest, Deliver, JobStep, VerifyFails, Verified, Stop,
        SetLists, Retry, UseSaved, Clear, ClearFails, Order, RefreshMissing, RefreshFails,
        Refreshed, NothingToRun, Announce, Joined, managerVars, streamVars, JobInv
  <1>. QED
    BY <1>1, <1>2, <1>3, <1>5

-----------------------------------------------------------------------------
(* Steps: the page *)

\* Only a refresh tells the page, and the key does not change behind its back.
LEMMA ToldBefore ==
  ASSUME JobType, Next, Told', ~(RefreshMissing \/ RefreshFails \/ Refreshed)
  PROVE  Told /\ key' = key
  <1>1. CASE Reload
    BY <1>1 DEF Reload, Told
  <1>2. CASE TakeLoad
    <2>1. PICK load \in pending : Begin(load)
      BY <1>2 DEF TakeLoad
    <2>2. load.kind = "load"
      BY <2>1 DEF JobType, Loads
    <2>3. job'.kind = "load" /\ at' = "stop"
      BY <2>1, <2>2 DEF Begin, FirstPlace
    <2>. QED
      BY <2>3 DEF Told
  <1>3. CASE TakeRequest
    <2>1. at = "free" /\ pending' = pending /\ key' = key
      BY <1>3 DEF TakeRequest, Begin, managerVars
    <2>. QED
      BY <2>1 DEF Told
  <1>4. CASE Verified \/ VerifyFails \/ Order \/ NothingToRun \/ Announce \/ Start
    <2>1. at \in {"verify", "order", "run", "start"} /\ pending' = pending /\ key' = key
      BY <1>4 DEF Verified, VerifyFails, Order, NothingToRun, Announce, Start, Goto, Release,
                  managerVars
    <2>. QED
      BY <2>1 DEF Told
  <1>5. CASE Stop
    <2>1. /\ at = "stop" /\ at' = "apply" /\ pending' = pending /\ key' = key /\ job' = job
      BY <1>5 DEF Stop, Goto, managerVars
    <2>. QED
      BY <2>1 DEF Told
  <1>6. CASE SetLists \/ Retry \/ ClearFails
    <2>1. /\ at = "apply" /\ pending' = pending /\ key' = key
          /\ job.kind = "load" => at' = "refresh"
      BY <1>6 DEF SetLists, Retry, ClearFails, Joined, Goto, Release, managerVars
    <2>. QED
      BY <2>1 DEF Told
  <1>7. CASE UseSaved \/ Clear
    BY <1>7 DEF UseSaved, Clear, Goto, Told
  <1>8. CASE (\E e \in Stream!Events : CallBack(e)) \/ StreamEnds \/ Deliver
    <2>1. UNCHANGED <<pending, at, job, key>>
      BY <1>8 DEF CallBack, StreamEnds, Deliver, jobVars, managerVars
    <2>. QED
      BY <2>1 DEF Told
  <1>. QED
    BY <1>1, <1>2, <1>3, <1>4, <1>5, <1>6, <1>7, <1>8 DEF Next, JobStep

\* What no message undoes.
LEMMA Kept ==
  /\ Balance \in Messages \ {Price, RuntimeStatus(FALSE)}
  /\ \A s \in Statuses : Status(s) \in Messages \ {Price, RuntimeStatus(FALSE)}
  /\ Balance \in Messages \ {RuntimeStatus(TRUE)}
  /\ \A s \in Statuses : Status(s) \in Messages \ {RuntimeStatus(TRUE)}
  /\ \A e \in Stream!Events : Said(e) \in Messages \ {RuntimeStatus(TRUE)}
  <1>1. /\ \A s \in Statuses : Status(s) # Price /\ Status(s) # RuntimeStatus(FALSE)
                                 /\ Status(s) # RuntimeStatus(TRUE)
        /\ Balance # Price /\ Balance # RuntimeStatus(FALSE) /\ Balance # RuntimeStatus(TRUE)
        /\ Price # RuntimeStatus(TRUE)
    BY DEF Status, Price, Balance, RuntimeStatus
  <1>2. \A e \in Stream!Events : Said(e) = Price \/ \E s \in Statuses : Said(e) = Status(s)
    BY DEF Said, Stream!Events, Stream!Final, Statuses
  <1>. QED
    BY <1>1, <1>2, Posted

\* The last message decides on the text.
LEMMA LastDecides ==
  ASSUME NEW q \in Seq(Messages), NEW a \in Messages, NEW text
  PROVE  Ending(Append(q, a), text) = Leaves(a)
  BY Appended DEF Ending

\* A page that is told leaves the credentials alone, and shows what it is sent.
LEMMA ToldByMessages ==
  ASSUME PageType, NEW a \in Messages, NEW b \in Messages,
         queue' = queue \o <<a, b>>
  PROVE  /\ a = RuntimeStatus(TRUE) /\ b = Balance =>
              \A done \in BOOLEAN : Asks(queue', done)
         /\ a = RuntimeStatus(FALSE) /\ b \in Messages \ {RuntimeStatus(TRUE)} =>
              \A done \in BOOLEAN : Knows(queue', done)
  <1>1. queue \in Seq(Messages) /\ queue' = Append(Append(queue, a), b)
        /\ Append(queue, a) \in Seq(Messages)
    BY Appended DEF PageType
  <1>2. ASSUME a = RuntimeStatus(TRUE), b = Balance, NEW done \in BOOLEAN
        PROVE  Asks(queue', done)
    <2>. DEFINE kept == Messages \ {Price, RuntimeStatus(FALSE)}
    <2>1. b \in kept
      BY <1>2, Kept
    <2>. HIDE DEF kept
    <2>2. Settles(Append(queue, a), done, RuntimeStatus(TRUE), kept)
      BY <1>1, <1>2, SettlesLast
    <2>3. Settles(Append(Append(queue, a), b), done, RuntimeStatus(TRUE), kept)
      BY <1>1, <2>1, <2>2, SettlesAppend
    <2>. QED
      BY <1>1, <2>3 DEF Asks, kept
  <1>3. ASSUME a = RuntimeStatus(FALSE), b \in Messages \ {RuntimeStatus(TRUE)},
               NEW done \in BOOLEAN
        PROVE  Knows(queue', done)
    <2>. DEFINE kept == Messages \ {RuntimeStatus(TRUE)}
    <2>1. b \in kept
      BY <1>3
    <2>. HIDE DEF kept
    <2>2. Settles(Append(queue, a), done, RuntimeStatus(FALSE), kept)
      BY <1>1, <1>3, SettlesLast
    <2>3. Settles(Append(Append(queue, a), b), done, RuntimeStatus(FALSE), kept)
      BY <1>1, <2>1, <2>2, SettlesAppend
    <2>. QED
      BY <1>1, <2>3 DEF Knows, kept
  <1>. QED
    BY <1>2, <1>3

\* Later messages change nothing of what the page asks for or knows.
LEMMA StillTold ==
  ASSUME PageType, NEW a \in Messages, NEW done \in BOOLEAN
  PROVE  /\ Asks(queue, done) /\ a \in Messages \ {Price, RuntimeStatus(FALSE)} =>
              Asks(Append(queue, a), done)
         /\ Knows(queue, done) /\ a \in Messages \ {RuntimeStatus(TRUE)} =>
              Knows(Append(queue, a), done)
  <1>1. queue \in Seq(Messages)
    BY DEF PageType
  <1>. QED
    BY <1>1, SettlesAppend DEF Asks, Knows

\* A message arrives.
LEMMA Arrives ==
  ASSUME PageType, Deliver
  PROVE  /\ Asks(queue, missing /\ chip = "settings") =>
              Asks(queue', missing' /\ chip' = "settings")
         /\ Knows(queue, ~missing) =>
              Knows(queue', ~missing') /\ Ending(queue', chip') = Ending(queue, chip)
  <1>. DEFINE m == Head(queue)
  <1>1. /\ queue \in Seq(Messages) /\ queue # << >> /\ queue' = Tail(queue)
        /\ missing \in BOOLEAN /\ missing' \in BOOLEAN
        /\ chip' = Shown(m)
        /\ missing' = IF m.to = "load_runtime_status" THEN m.missing ELSE missing
    BY PageTypeStep DEF PageType, Deliver, Next
  <1>2. /\ m = queue[1] /\ m \in Messages
        /\ Len(queue) \in Nat \ {0} /\ Len(queue') = Len(queue) - 1
        /\ \A n \in 1 .. Len(queue) - 1 : queue'[n] = queue[n + 1]
        /\ (queue' = << >>) <=> (Len(queue) = 1)
        /\ DOMAIN queue = 1 .. Len(queue)
    BY <1>1, Taken
  <1>. HIDE DEF m
  <1>3. \/ m \in [to : {"load_stream_status"}, status : Statuses]
        \/ m = RuntimeStatus(TRUE)
        \/ m = RuntimeStatus(FALSE)
        \/ m = Balance
        \/ m = Price
    BY <1>2 DEF Messages, RuntimeStatus
  <1>4. ASSUME Asks(queue, missing /\ chip = "settings")
        PROVE  Asks(queue', missing' /\ chip' = "settings")
    <2>. DEFINE kept == Messages \ {Price, RuntimeStatus(FALSE)}
                done == missing /\ chip = "settings"
                after == missing' /\ chip' = "settings"
    <2>1. m = RuntimeStatus(TRUE) => after
      BY <1>1 DEF Shown, RuntimeStatus
    <2>2. done /\ m \in kept => after
      BY <1>1, <1>3 DEF Shown, RuntimeStatus, Balance
    <2>3. done \in BOOLEAN /\ after \in BOOLEAN
      BY <1>1
    <2>4. Settles(queue, done, RuntimeStatus(TRUE), kept)
      BY <1>4 DEF Asks
    <2>. HIDE DEF kept, done, after
    <2>5. Settles(Tail(queue), after, RuntimeStatus(TRUE), kept)
      BY <1>1, <2>1, <2>2, <2>3, <2>4, SettlesTail DEF m
    <2>. QED
      BY <1>1, <2>5 DEF Asks, kept, after
  <1>5. ASSUME Knows(queue, ~missing)
        PROVE  Knows(queue', ~missing')
    <2>. DEFINE kept == Messages \ {RuntimeStatus(TRUE)}
                done == ~missing
                after == ~missing'
    <2>1. m = RuntimeStatus(FALSE) => after
      BY <1>1 DEF RuntimeStatus
    <2>2. done /\ m \in kept => after
      BY <1>1, <1>3 DEF RuntimeStatus, Balance, Price
    <2>3. done \in BOOLEAN /\ after \in BOOLEAN
      BY <1>1
    <2>4. Settles(queue, done, RuntimeStatus(FALSE), kept)
      BY <1>5 DEF Knows
    <2>. HIDE DEF kept, done, after
    <2>5. Settles(Tail(queue), after, RuntimeStatus(FALSE), kept)
      BY <1>1, <2>1, <2>2, <2>3, <2>4, SettlesTail DEF m
    <2>. QED
      BY <1>1, <2>5 DEF Knows, kept, after
  <1>6. ASSUME Knows(queue, ~missing)
        PROVE  Ending(queue', chip') = Ending(queue, chip)
    <2>1. CASE Len(queue) = 1
      <3>1. ~missing \/ m = RuntimeStatus(FALSE)
        <4>1. \A n \in DOMAIN queue : queue[n] = m
          BY <1>2, <2>1
        <4>2. ~missing \/ \E n \in DOMAIN queue : queue[n] = RuntimeStatus(FALSE)
          BY <1>6 DEF Knows, Settles
        <4>. QED
          BY <4>1, <4>2
      <3>2. Shown(m) = Leaves(m)
        BY <1>1, <1>3, <3>1 DEF Shown, Leaves, RuntimeStatus, Balance, Price
      <3>3. Ending(queue', chip') = chip' /\ Ending(queue, chip) = Leaves(m)
        BY <1>1, <1>2, <2>1 DEF Ending
      <3>. QED
        BY <1>1, <3>2, <3>3
    <2>2. CASE Len(queue) # 1
      <3>1. Len(queue') \in 1 .. Len(queue) - 1 /\ queue'[Len(queue')] = queue[Len(queue)]
        BY <1>2, <2>2
      <3>. QED
        BY <1>1, <1>2, <2>2, <3>1 DEF Ending
    <2>. QED
      BY <2>1, <2>2
  <1>. QED
    BY <1>4, <1>5, <1>6

\* Whatever is posted or arrives, the messages still settle what the page shows.
LEMMA PageInvStep ==
  ASSUME JobType, StreamType, PageType, JobInv, StreamInv, PageInv, Next
  PROVE  PageInv'
  <1>. SUFFICES ASSUME Told'
                PROVE  /\ key' = NoKey => Asks(queue', missing' /\ chip' = "settings")
                       /\ key' # NoKey =>
                            /\ Knows(queue', ~missing')
                            /\ live' => Ending(queue', chip') \in {LastWord', "waiting"}
                            /\ at' = "start" => Ending(queue', chip') = "connecting"
    BY DEF PageInv
  <1>0. /\ queue \in Seq(Messages) /\ missing \in BOOLEAN /\ live \in BOOLEAN
        /\ (missing /\ chip = "settings") \in BOOLEAN /\ (~missing) \in BOOLEAN
        /\ Balance \in Messages
        /\ \A s \in Statuses : Status(s) \in Messages
        /\ \A b \in BOOLEAN : RuntimeStatus(b) \in Messages
        /\ {"failed", "connecting"} \subseteq Statuses
    BY Posted DEF PageType, StreamType, Statuses
  \* the page is told
  <1>1. CASE RefreshMissing
    <2>1. /\ key' = NoKey /\ queue' = queue \o <<RuntimeStatus(TRUE), Balance>>
          /\ UNCHANGED <<chip, missing>>
      BY <1>1 DEF RefreshMissing
    <2>2. Asks(queue', missing /\ chip = "settings")
      BY <1>0, <2>1, ToldByMessages
    <2>. QED
      BY <2>1, <2>2
  <1>2. CASE RefreshFails \/ Refreshed
    <2>1. /\ key' # NoKey /\ ~live' /\ at' # "start" /\ UNCHANGED missing
          /\ \E b \in {Status("failed"), Balance} : queue' = queue \o <<RuntimeStatus(FALSE), b>>
      <3>1. at = "refresh" /\ RefreshedKey # NoKey /\ key' = RefreshedKey
        BY <1>2 DEF RefreshFails, Refreshed
      <3>2. at' \in {"free", "run"} /\ UNCHANGED <<live, missing>>
        BY <1>2 DEF RefreshFails, Refreshed, Goto, Release, streamVars
      <3>3. \E b \in {Status("failed"), Balance} : queue' = queue \o <<RuntimeStatus(FALSE), b>>
        BY <1>2 DEF RefreshFails, Refreshed
      <3>4. ~live
        BY <3>1, Zenon DEF JobInv
      <3>. QED
        BY <3>1, <3>2, <3>3, <3>4
    <2>2. Knows(queue', ~missing)
      BY <1>0, <2>1, Kept, ToldByMessages
    <2>. QED
      BY <2>1, <2>2
  <1>3. CASE ~(RefreshMissing \/ RefreshFails \/ Refreshed)
    <2>1. Told /\ key' = key
      BY <1>3, ToldBefore
    <2>2. key = NoKey => Asks(queue, missing /\ chip = "settings")
      BY <2>1 DEF PageInv
    <2>3. key # NoKey => /\ Knows(queue, ~missing)
                         /\ live => Ending(queue, chip) \in {LastWord, "waiting"}
                         /\ at = "start" => Ending(queue, chip) = "connecting"
      BY <2>1 DEF PageInv
    \* no message is posted
    <2>4. CASE UNCHANGED pageVars /\ at' # "start" /\ (UNCHANGED <<live, said>> \/ ~live')
      <3>1. UNCHANGED <<queue, chip, missing>>
        BY <2>4 DEF pageVars
      <3>2. live' => live /\ LastWord' = LastWord
        BY <2>4 DEF LastWord
      <3>. QED
        BY <2>1, <2>2, <2>3, <2>4, <3>1, <3>2
    \* the stream begins with the last message
    <2>5. CASE Start
      <3>1. /\ key # NoKey /\ at = "start" /\ said' = << >>
            /\ UNCHANGED <<queue, chip, missing>> /\ at' = "free"
        BY <2>5 DEF Start, Release, JobInv, StreamInv
      <3>2. LastWord' = "connecting"
        BY <3>1 DEF LastWord
      <3>. QED
        BY <2>1, <2>3, <3>1, <3>2
    \* a message is posted
    <2>6. CASE Order
      <3>1. CASE UNCHANGED queue
        BY <2>4, <2>6, <3>1 DEF Order, Release, pageVars, streamVars
      <3>2. CASE key # NoKey /\ queue' = Append(queue, Balance)
        <4>1. Knows(queue', ~missing)
          BY <1>0, <2>3, <3>2, Kept, StillTold
        <4>2. Ending(queue', chip') = "waiting"
          BY <1>0, <3>2, LastDecides DEF Leaves, Balance
        <4>3. at' # "start" /\ UNCHANGED missing
          BY <2>6 DEF Order, Release
        <4>. QED
          BY <2>1, <3>2, <4>1, <4>2, <4>3
      <3>. QED
        BY <2>6, <3>1, <3>2 DEF Order
    <2>7. CASE NothingToRun
      <3>1. ~live' /\ at' # "start" /\ UNCHANGED <<chip, missing>>
        BY <2>7 DEF NothingToRun, Release, streamVars, JobInv
      <3>2. CASE UNCHANGED queue
        BY <2>1, <2>2, <2>3, <3>1, <3>2
      <3>3. CASE queue' = Append(queue, Status("failed"))
        <4>1. key = NoKey => Asks(queue', missing /\ chip = "settings")
          BY <1>0, <2>2, <3>3, Kept, StillTold
        <4>2. key # NoKey => Knows(queue', ~missing)
          BY <1>0, <2>3, <3>3, Kept, StillTold
        <4>. QED
          BY <2>1, <3>1, <4>1, <4>2
      <3>. QED
        BY <2>7, <3>2, <3>3 DEF NothingToRun
    <2>8. CASE Announce
      <3>1. /\ key # NoKey /\ ~live' /\ UNCHANGED missing
            /\ queue' = Append(queue, Status("connecting"))
        BY <2>8 DEF Announce, streamVars, JobInv
      <3>2. Knows(queue', ~missing)
        BY <1>0, <2>3, <3>1, Kept, StillTold
      <3>3. Ending(queue', chip') = "connecting"
        BY <1>0, <3>1, LastDecides DEF Leaves, Status
      <3>. QED
        BY <2>1, <3>1, <3>2, <3>3
    <2>9. ASSUME NEW e \in Stream!Events, CallBack(e)
          PROVE  /\ key # NoKey /\ Knows(queue', ~missing')
                 /\ Ending(queue', chip') = LastWord' /\ at' # "start"
      <3>1. /\ live /\ UNCHANGED <<at, missing>> /\ queue' = Append(queue, Said(e))
            /\ said' = Append(said, e)
        BY <2>9 DEF CallBack, jobVars
      <3>2. key # NoKey /\ at # "start"
        BY <3>1 DEF StreamInv, JobInv
      <3>3. Knows(queue', ~missing)
        BY <1>0, <2>3, <3>1, <3>2, Kept, StillTold
      <3>4. Ending(queue', chip') = Leaves(Said(e))
        BY <1>0, <3>1, LastDecides, Posted
      <3>5. said' # << >> /\ Last(said') = e
        BY <3>1, Appended DEF StreamType, Last
      <3>6. Leaves(Said(e)) = LastWord'
        BY <3>5 DEF Leaves, Said, Price, Status, LastWord
      <3>. QED
        BY <3>1, <3>2, <3>3, <3>4, <3>6
    \* a message arrives
    <2>10. CASE Deliver
      <3>1. UNCHANGED <<at, live, said>>
        BY <2>10 DEF Deliver, jobVars, streamVars
      <3>2. LastWord' = LastWord
        BY <3>1 DEF LastWord
      <3>. QED
        BY <2>1, <2>2, <2>3, <2>10, <3>1, <3>2, Arrives
    <2>11. CASE Reload \/ TakeLoad
      <3>1. CASE Reload
        BY <3>1 DEF Reload, Told
      <3>2. CASE TakeLoad
        <4>1. PICK load \in pending : Begin(load)
          BY <3>2 DEF TakeLoad
        <4>2. load.kind = "load"
          BY <4>1 DEF JobType, Loads
        <4>. QED
          BY <4>1, <4>2 DEF Begin, FirstPlace, Told
      <3>. QED
        BY <2>11, <3>1, <3>2
    <2>12. CASE \/ TakeRequest \/ VerifyFails \/ Verified \/ Stop \/ SetLists \/ Retry
                \/ ClearFails \/ StreamEnds
      <3>1. UNCHANGED pageVars
        BY <2>12 DEF TakeRequest, VerifyFails, Verified, Stop, SetLists, Retry, ClearFails,
                     StreamEnds
      <3>2. UNCHANGED <<live, said>> \/ ~live'
        BY <2>12 DEF TakeRequest, VerifyFails, Verified, Stop, SetLists, Retry, ClearFails,
                     StreamEnds, streamVars
      <3>3. at' = "start" => at = "start" /\ StreamEnds
        BY <2>12 DEF TakeRequest, VerifyFails, Verified, Stop, SetLists, Retry, ClearFails,
                     StreamEnds, Begin, FirstPlace, Goto, Release, jobVars
      <3>4. StreamEnds => at # "start"
        BY DEF StreamEnds, JobInv
      <3>. QED
        BY <2>4, <3>1, <3>2, <3>3, <3>4
    <2>13. CASE UseSaved \/ Clear
      BY <2>13 DEF UseSaved, Clear, Goto, Told
    <2>. QED
      BY <1>3, <2>1, <2>5, <2>6, <2>7, <2>8, <2>9, <2>10, <2>11, <2>12, <2>13
      DEF Next, JobStep
  <1>. QED
    BY <1>1, <1>2, <1>3

-----------------------------------------------------------------------------
(* Theorems *)

\* The program starts with nothing running and nothing posted.
LEMMA InitInv ==
  ASSUME Init
  PROVE  Inv
  <1>1. JobType
    <2>1. NoJob \in Loads \cup Requests \cup {NoJob} /\ at = "free" /\ job = NoJob
      BY DEF Init
    <2>2. pending \subseteq Loads /\ asked \in 1 .. MaxJobs
      BY MarketConstants DEF Init
    <2>. QED
      BY <2>1, <2>2 DEF JobType, Places
  <1>2. ManagerType
    BY MarketConstants DEF Init, ManagerType, AnyKey
  <1>3. StreamType
    <2>1. NoSubject \in [key : AnyKey, items : Seq(Items)]
      BY DEF NoSubject, AnyKey
    <2>2. << >> \in Seq(Stream!Events)
      OBVIOUS
    <2>. QED
      BY <2>1, <2>2 DEF Init, StreamType
  <1>4. PageType
    <2>1. << >> \in Seq(Messages)
      OBVIOUS
    <2>. QED
      BY <2>1 DEF Init, PageType
  <1>5. JobInv /\ StreamInv
    BY DEF Init, JobInv, StreamInv
  <1>6. PageInv
    BY DEF Init, PageInv, Told
  <1>. QED
    BY <1>1, <1>2, <1>3, <1>4, <1>5, <1>6, TypesByPart DEF Inv

\* A step that is none.
LEMMA StutterInv ==
  ASSUME Inv, UNCHANGED vars
  PROVE  Inv'
  <1>1. UNCHANGED jobVars /\ UNCHANGED managerVars /\ UNCHANGED streamVars /\ UNCHANGED pageVars
    BY DEF vars
  <1>2. TypeInv'
    <2>1. JobType' /\ ManagerType' /\ StreamType' /\ PageType'
      BY <1>1, TypesByPart, UnchangedTypes DEF Inv
    <2>. QED
      BY <2>1, TypesByPart, PTL
  <1>3. JobInv' /\ StreamInv'
    BY <1>1 DEF Inv, JobInv, StreamInv, jobVars, managerVars, streamVars
  <1>4. PageInv'
    BY <1>1 DEF Inv, PageInv, Told, LastWord, jobVars, managerVars, streamVars, pageVars
  <1>. QED
    BY <1>2, <1>3, <1>4 DEF Inv

\* No step, of whichever thread, breaks the invariant.
LEMMA NextInv ==
  ASSUME Inv, [Next]_vars
  PROVE  Inv'
  <1>1. CASE UNCHANGED vars
    BY <1>1, StutterInv
  <1>2. CASE Next
    <2>1. JobType /\ ManagerType /\ StreamType /\ PageType /\ JobInv /\ StreamInv /\ PageInv
      BY TypesByPart DEF Inv
    <2>2. JobType' /\ ManagerType' /\ StreamType' /\ PageType'
      BY <1>2, <2>1, JobTypeStep, ManagerTypeStep, StreamTypeStep, PageTypeStep
    <2>3. TypeInv'
      BY <2>2, TypesByPart, PTL
    <2>4. JobInv' /\ StreamInv' /\ PageInv'
      BY <1>2, <2>1, JobInvStep, StreamInvStep, PageInvStep
    <2>. QED
      BY <2>3, <2>4 DEF Inv
  <1>. QED
    BY <1>1, <1>2

\* The invariant of jobs, stream and page.
THEOREM MarketInvariant == Spec => []Inv
  <1>1. Inv /\ [Next]_vars => Inv'
    BY NextInv
  <1>. QED
    BY <1>1, InitInv, PTL DEF Spec

\* Every variable keeps to its type, and no run is given more keys than a
\* connection may subscribe, however long the lists are.
THEOREM TypeCorrect == Spec => []TypeOK
  <1>1. Inv => TypeOK
    BY DEF Inv, TypeInv
  <1>. QED
    BY <1>1, MarketInvariant, PTL

\* No change of the lists or the credentials is lost on a running stream: it
\* runs with those in use and subscribes to all stocks the user named.
THEOREM StreamIsCurrent == Spec => []StreamFollowsManager
  <1>1. ASSUME Inv PROVE StreamFollowsManager
    <2>. SUFFICES ASSUME live
                  PROVE  /\ subject.key = key
                         /\ Cardinality(ToSet(subject.items)) <= Limit
                              => \A i \in ToSet(manual) \cup ToSet(watch), daytime \in BOOLEAN :
                                   Primary(i, daytime) \in ToSet(Plan(subject.items, daytime))
      BY DEF StreamFollowsManager
    <2>1. subject.key = key
      BY <1>1 DEF Inv, StreamInv
    <2>2. PICK list \in Lists : subject.items = list \o manual \o watch
      BY <1>1 DEF Inv, StreamInv
    <2>3. list \in Seq(Items) /\ manual \in Seq(Items) /\ watch \in Seq(Items)
      BY <1>1, TypesByPart, MarketConstants DEF Inv, ManagerType
    <2>4. subject.items \in Seq(Items)
      BY <1>1, TypesByPart DEF Inv, StreamType
    <2>5. ToSet(manual) \cup ToSet(watch) \subseteq ToSet(subject.items)
      <3>. DEFINE s == list \o manual \o watch
      <3>1. /\ Len(list) \in Nat /\ Len(manual) \in Nat /\ Len(watch) \in Nat
            /\ DOMAIN s = 1 .. Len(list) + Len(manual) + Len(watch)
            /\ DOMAIN manual = 1 .. Len(manual) /\ DOMAIN watch = 1 .. Len(watch)
            /\ \A n \in 1 .. Len(manual) : s[Len(list) + n] = manual[n]
            /\ \A n \in 1 .. Len(watch) : s[Len(list) + Len(manual) + n] = watch[n]
        BY <2>3
      <3>. HIDE DEF s
      <3>2. \A n \in DOMAIN manual : manual[n] \in ToSet(s)
        BY <3>1 DEF ToSet
      <3>3. \A n \in DOMAIN watch : watch[n] \in ToSet(s)
        BY <3>1 DEF ToSet
      <3>. QED
        BY <2>2, <3>2, <3>3 DEF ToSet, s
    <2>. QED
      BY <2>1, <2>4, <2>5, PlanHasAll
  <1>. QED
    BY <1>1, MarketInvariant, PTL

\* When all messages have arrived the status text tells the truth about the
\* stream and the credentials, in whatever order jobs, callbacks and reloads of
\* the page came.
THEOREM ChipIsTrue == Spec => []ChipFollowsStream
  <1>1. ASSUME Inv, at = "free", pending = {}, queue = << >>
        PROVE  /\ live => chip \in {LastWord, "waiting"}
               /\ key = NoKey => ~live /\ chip = "settings"
    <2>1. Told /\ StreamInv /\ PageInv
      BY <1>1, TypesByPart DEF Inv, Told
    <2>2. live => chip \in {LastWord, "waiting"}
      BY <1>1, <2>1 DEF StreamInv, PageInv, Ending
    <2>3. key = NoKey => ~live
      BY <2>1 DEF StreamInv
    <2>4. key = NoKey => chip = "settings"
      BY <1>1, <2>1 DEF PageInv, Asks, Settles
    <2>. QED
      BY <2>2, <2>3, <2>4
  <1>2. Inv => ChipFollowsStream
    BY <1>1 DEF ChipFollowsStream
  <1>. QED
    BY <1>2, MarketInvariant, PTL

=============================================================================
