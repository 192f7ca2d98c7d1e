----------------------- MODULE PerformancePageProofs -----------------------
(* Proofs about PerformancePage, for every set of portfolios and periods   *)
(* and every number of requests.                                           *)
EXTENDS PerformancePage, TLAPS

Inv == TypeOK /\ SlotInv /\ BlankHasReason

-----------------------------------------------------------------------------
(* The slot *)

\* The rest of a sequence is a sequence of the same kind, one shorter.
LEMMA TailOfSeq ==
  ASSUME NEW S, NEW s \in Seq(S), s # << >>
  PROVE  /\ Head(s) \in S /\ Tail(s) \in Seq(S) /\ Len(Tail(s)) = Len(s) - 1
         /\ \A k \in 1 .. Len(s) - 1 : Tail(s)[k] = s[k + 1]
  OBVIOUS

\* What sequences of messages do in a step.
LEMMA StillSeq ==
  ASSUME NEW S, NEW s \in Seq(S), NEW t,
         t = s \/ (s # << >> /\ t = Tail(s)) \/ \E e \in S : t = Append(s, e)
  PROVE  t \in Seq(S)
  OBVIOUS

\* Whoever acts, the slot keeps its type and SlotInv.
LEMMA SlotKept ==
  ASSUME SlotTypeOK(Requests, Contents), SlotInv,
         \/ \E r \in Requests : Ask(r) /\ Unanswered
         \/ Hear /\ UNCHANGED <<asked, window, loading, worker, task, queue>>
         \/ WindowStep
         \/ \E c \in Contents \cup {NoContent} : SpawnFails(c) \/ Post(c)
         \/ EndStep
         \/ UNCHANGED slot
  PROVE  SlotTypeOK(Requests, Contents)' /\ SlotInv'
  <1>. DEFINE Rs == Replies(Requests, Contents)
  <1>1. /\ asked \in Seq(Requests) /\ queue \in Seq(Rs) /\ scripts \in Seq(Rs)
        /\ task \in Requests \cup {NoRequest}
        /\ worker = "working" => task \in Requests
        /\ window \in {"ensuring", "joining"} => asked # << >>
    BY DEF SlotTypeOK, SlotInv
  <1>2. \A r \in Requests, c \in Contents \cup {NoContent} : Reply(r, c) \in Rs
    BY DEF Reply, Replies
  <1>. HIDE DEF Rs
  <1>. USE DEF Ask, Unanswered, Hear, WindowStep, Ensure, Refuse, Accept, Spawn, Deliver,
              SpawnFails, Post, EndStep, Release, Leave, slot
  <1>3. asked' \in Seq(Requests)
    <2>1. \/ UNCHANGED asked
          \/ asked # << >> /\ asked' = Tail(asked)
          \/ \E r \in Requests : asked' = Append(asked, r)
      BY <1>1
    <2>. QED
      BY <1>1, <2>1, StillSeq
  <1>4. queue' \in Seq(Rs)
    <2>1. \/ UNCHANGED queue
          \/ queue # << >> /\ queue' = Tail(queue)
          \/ \E e \in Rs : queue' = Append(queue, e)
      <3>1. CASE \E c \in Contents \cup {NoContent} : Post(c)
        <4>1. PICK c \in Contents \cup {NoContent} : Post(c)
          BY <3>1
        <4>2. worker = "working" /\ queue' = Append(queue, Reply(task, c))
          BY <4>1
        <4>3. Reply(task, c) \in Rs
          BY <1>1, <1>2, <4>2
        <4>. QED
          BY <4>2, <4>3, Zenon
      <3>2. CASE ~ \E c \in Contents \cup {NoContent} : Post(c)
        BY <1>1, <3>2
      <3>. QED
        BY <3>1, <3>2
    <2>. QED
      BY <1>1, <2>1, StillSeq
  <1>5. scripts' \in Seq(Rs)
    <2>1. \/ UNCHANGED scripts
          \/ scripts # << >> /\ scripts' = Tail(scripts)
          \/ \E e \in Rs : scripts' = Append(scripts, e)
      BY <1>1, <1>2, TailOfSeq
    <2>. QED
      BY <1>1, <2>1, StillSeq
  <1>6. /\ window' \in {"free", "ensuring", "joining"} /\ loading' \in BOOLEAN
        /\ worker' \in WorkerPlaces /\ task' \in Requests \cup {NoRequest}
    BY <1>1, TailOfSeq
    DEF SlotTypeOK, WorkerPlaces
  <1>7. SlotInv'
    <2>1. window' = "joining" => /\ loading' /\ asked' # << >>
                                 /\ worker' \in {"none", "leaving", "ended"}
      <3>1. CASE \E r \in Requests : Ask(r) /\ Unanswered
        BY <1>1, <3>1 DEF SlotInv
      <3>2. CASE ~ \E r \in Requests : Ask(r) /\ Unanswered
        BY <1>1, <3>2 DEF SlotInv, SlotTypeOK, WorkerPlaces
      <3>. QED
        BY <3>1, <3>2
    <2>2. worker' \in {"working", "posted"} => loading'
      BY DEF SlotInv
    <2>3. window' = "ensuring" => asked' # << >>
      BY <1>1, TailOfSeq DEF SlotInv, SlotTypeOK
    <2>4. worker' = "working" => task' # NoRequest
      BY <1>1, TailOfSeq, NothingIsNone DEF SlotInv
    <2>. QED
      BY <2>1, <2>2, <2>3, <2>4 DEF SlotInv
  <1>. QED
    BY <1>3, <1>4, <1>5, <1>6, <1>7 DEF SlotTypeOK, Rs

\* A slot begins with nothing asked.
LEMMA SlotStarts ==
  ASSUME SlotInit
  PROVE  SlotTypeOK(Requests, Contents) /\ SlotInv
  <1>1. /\ asked \in Seq(Requests)
        /\ queue \in Seq(Replies(Requests, Contents)) /\ scripts \in Seq(Replies(Requests, Contents))
    BY DEF SlotInit
  <1>. QED
    BY <1>1 DEF SlotInit, SlotTypeOK, SlotInv, WorkerPlaces

-----------------------------------------------------------------------------
LEMMA InitInv == Init => Inv
  <1>. SUFFICES ASSUME Init
                PROVE  Inv
    OBVIOUS
  <1>1. SlotTypeOK(Requests, Contents) /\ SlotInv
    BY SlotStarts DEF Init
  <1>2. made \in 0 .. MaxRequests
    BY PerformanceConstants DEF Init
  <1>3. shown \in BOOLEAN /\ performanceLoading \in BOOLEAN /\ error \in BOOLEAN
    BY DEF Init
  <1>. QED
    BY <1>1, <1>2, <1>3 DEF Init, Inv, TypeOK, BlankHasReason

\* requestPerformanceHistory() leaves the page with a series, a request under
\* way or an error, whatever it did.
LEMMA RequestKeepsInv ==
  ASSUME Inv, NEW force \in BOOLEAN, NEW before \in Periods,
         NEW seen \in Requests \cup {NoRequest},
         holdings' \in AllHoldings, dates' \in Periods \cup {NoPeriod},
         shown' \in BOOLEAN, series' = series,
         RequestPerformance(force, before, seen)
  PROVE  Inv'
  <1>1. CASE ~Valid
    <2>1. SlotTypeOK(Requests, Contents)' /\ SlotInv'
      BY <1>1, SlotKept DEF RequestPerformance, Unanswered, slot, Inv, TypeOK
    <2>2. /\ period' = before /\ signature' = seen /\ error' = TRUE
          /\ performanceLoading' = performanceLoading /\ made' = made
      BY <1>1 DEF RequestPerformance
    <2>. QED
      BY <2>1, <2>2 DEF Inv, TypeOK, BlankHasReason
  <1>2. CASE Valid
    <2>1. PICK request \in Wanted :
            /\ period' = dates' /\ signature' = request
            /\ IF ~force /\ UpToDate(request)
                 THEN UNCHANGED <<asked, performanceLoading, error, made>>
                 ELSE /\ made < MaxRequests
                      /\ Ask(request) /\ made' = made + 1
                      /\ performanceLoading' = TRUE /\ error' = FALSE
      BY <1>2 DEF RequestPerformance
    <2>2. Unanswered
      BY DEF RequestPerformance
    <2>3. request \in Requests /\ period' \in Periods
      BY <1>2, <2>1 DEF Valid, Wanted, Requests, AllHoldings
    <2>4. CASE ~force /\ UpToDate(request)
      <3>1. UNCHANGED <<asked, performanceLoading, error, made>> /\ series # NoContent
        BY <2>1, <2>4 DEF UpToDate
      <3>2. SlotTypeOK(Requests, Contents)' /\ SlotInv'
        BY <2>2, <3>1, SlotKept DEF Unanswered, slot, Inv, TypeOK
      <3>. QED
        BY <2>1, <2>3, <3>1, <3>2 DEF Inv, TypeOK, BlankHasReason
    <2>5. CASE ~(~force /\ UpToDate(request))
      <3>1. /\ made < MaxRequests /\ Ask(request) /\ made' = made + 1
            /\ performanceLoading' = TRUE /\ error' = FALSE
        BY <2>1, <2>5
      <3>2. SlotTypeOK(Requests, Contents)' /\ SlotInv'
        BY <2>2, <2>3, <3>1, SlotKept DEF Inv, TypeOK
      <3>3. made' \in 0 .. MaxRequests
        BY <3>1, PerformanceConstants DEF Inv, TypeOK
      <3>. QED
        BY <2>1, <2>3, <3>1, <3>2, <3>3 DEF Inv, TypeOK, BlankHasReason
    <2>. QED
      BY <2>4, <2>5
  <1>. QED
    BY <1>1, <1>2

LEMMA NextInv == Inv /\ [Next]_vars => Inv'
  <1>. SUFFICES ASSUME Inv, [Next]_vars
                PROVE  Inv'
    OBVIOUS
  <1>1. ASSUME NEW p \in Periods, ChooseQuickRange(p)
        PROVE  Inv'
    BY <1>1, RequestKeepsInv DEF ChooseQuickRange, Inv, TypeOK
  <1>2. ASSUME NEW p \in Periods \cup {NoPeriod}, TypeDates(p)
        PROVE  Inv'
    <2>1. SlotTypeOK(Requests, Contents)' /\ SlotInv'
      BY <1>2, SlotKept DEF TypeDates, Inv, TypeOK
    <2>. QED
      BY <1>2, <2>1 DEF TypeDates, Inv, TypeOK, BlankHasReason
  <1>3. CASE Apply
    BY <1>3, RequestKeepsInv DEF Apply, Inv, TypeOK
  <1>4. CASE ShowPage
    BY <1>4, RequestKeepsInv DEF ShowPage, Inv, TypeOK
  <1>5. CASE LeavePage
    <2>1. SlotTypeOK(Requests, Contents)' /\ SlotInv'
      BY <1>5, SlotKept DEF LeavePage, Inv, TypeOK
    <2>. QED
      BY <1>5, <2>1 DEF LeavePage, Inv, TypeOK, BlankHasReason
  <1>6. ASSUME NEW h \in AllHoldings, ChangeHoldings(h)
        PROVE  Inv'
    <2>1. CASE shown
      BY <1>6, <2>1, RequestKeepsInv DEF ChangeHoldings, Inv, TypeOK
    <2>2. CASE ~shown
      <3>1. SlotTypeOK(Requests, Contents)' /\ SlotInv'
        BY <1>6, <2>2, SlotKept DEF ChangeHoldings, Inv, TypeOK
      <3>. QED
        BY <1>6, <2>2, <3>1 DEF ChangeHoldings, Inv, TypeOK, BlankHasReason
    <2>. QED
      BY <2>1, <2>2
  <1>7. CASE LoadPerformance
    <2>1. SlotTypeOK(Requests, Contents)' /\ SlotInv'
      BY <1>7, SlotKept DEF LoadPerformance, Inv, TypeOK
    <2>2. Head(scripts) \in Replies(Requests, Contents)
      BY <1>7, TailOfSeq DEF LoadPerformance, Hear, Inv, TypeOK, SlotTypeOK, Replies
    <2>3. series' \in Contents \cup {NoContent} /\ error' = (series' = NoContent)
      BY <1>7, <2>2 DEF LoadPerformance, Replies
    <2>4. error' \in BOOLEAN
      BY <2>3
    <2>. QED
      BY <1>7, <2>1, <2>3, <2>4 DEF LoadPerformance, Inv, TypeOK, BlankHasReason
  <1>8. ASSUME UNCHANGED page, SlotTypeOK(Requests, Contents)', SlotInv'
        PROVE  Inv'
    BY <1>8 DEF page, Inv, TypeOK, BlankHasReason
  <1>9. CASE WindowActs
    <2>1. SlotTypeOK(Requests, Contents)' /\ SlotInv'
      BY <1>9, NothingIsNone, SlotKept
      DEF WindowActs, Inv, TypeOK
    <2>. QED
      BY <1>8, <1>9, <2>1 DEF WindowActs
  <1>10. CASE WorkerActs
    <2>1. CASE ComputeSeries
      <3>1. Post([of |-> task]) /\ task \in Requests
        BY <2>1 DEF ComputeSeries, Post, Inv, TypeOK, SlotTypeOK, SlotInv
      <3>2. [of |-> task] \in Contents
        BY <3>1 DEF Contents
      <3>3. SlotTypeOK(Requests, Contents)' /\ SlotInv'
        BY <3>1, <3>2, SlotKept DEF Inv, TypeOK
      <3>. QED
        BY <1>8, <2>1, <3>3 DEF ComputeSeries
    <2>2. CASE ComputeFails
      BY <1>8, <2>2, SlotKept DEF ComputeFails, Inv, TypeOK
    <2>3. CASE EndStep /\ UNCHANGED page
      BY <1>8, <2>3, SlotKept DEF Inv, TypeOK
    <2>. QED
      BY <1>10, <2>1, <2>2, <2>3 DEF WorkerActs
  <1>11. CASE UNCHANGED vars
    BY <1>8, <1>11, SlotKept DEF vars, Inv, TypeOK
  <1>. QED
    BY <1>1, <1>2, <1>3, <1>4, <1>5, <1>6, <1>7, <1>9, <1>10, <1>11
    DEF Next, UserActs, BalanceArrives

-----------------------------------------------------------------------------
\* Every variable keeps to its type: the page asks for dates that can be asked
\* for, and the period in effect is always such a pair.
THEOREM TypeCorrect == Spec => []TypeOK
  <1>1. Inv => TypeOK
    BY DEF Inv
  <1>. QED
    BY <1>1, InitInv, NextInv, PTL DEF Spec, Safety

\* The analysis page is never blank without a notice, although its request may
\* be skipped, refused or answered with a failure.
THEOREM BlankPageHasReason == Spec => []BlankHasReason
  <1>1. Inv => BlankHasReason
    BY DEF Inv
  <1>. QED
    BY <1>1, InitInv, NextInv, PTL DEF Spec, Safety

=============================================================================
