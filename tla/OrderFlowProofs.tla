-------------------------- MODULE OrderFlowProofs --------------------------
(***************************************************************************)
(* Proofs about OrderFlow, for every number of jobs, shares and fills.     *)
(***************************************************************************)
EXTENDS OrderFlow, TLAPS

-----------------------------------------------------------------------------
(* Sequences *)

\* The rest of a sequence is a sequence of the same kind, one shorter.
LEMMA TailOfSeq ==
  ASSUME NEW S, NEW s \in Seq(S), s # << >>
  PROVE  /\ Head(s) \in S /\ Head(s) = s[1] /\ 1 \in DOMAIN s
         /\ Tail(s) \in Seq(S) /\ Len(Tail(s)) = Len(s) - 1
         /\ \A k \in DOMAIN Tail(s) : k + 1 \in DOMAIN s /\ Tail(s)[k] = s[k + 1]
  OBVIOUS

\* Appending keeps what was there and adds one element.
LEMMA AppendToSeq ==
  ASSUME NEW S, NEW s \in Seq(S), NEW e \in S
  PROVE  /\ Append(s, e) \in Seq(S) /\ Len(Append(s, e)) = Len(s) + 1
         /\ Len(s) + 1 \in DOMAIN Append(s, e) /\ Append(s, e)[Len(s) + 1] = e
         /\ \A k \in DOMAIN s : k \in DOMAIN Append(s, e) /\ Append(s, e)[k] = s[k]
         /\ \A k \in DOMAIN Append(s, e) :
              k \in DOMAIN s \/ (k = Len(s) + 1 /\ k \notin DOMAIN s)
  OBVIOUS

-----------------------------------------------------------------------------
(* Types *)

Readings == Snapshots \cup {NoSnapshot}

LEMMA InitTypeOK == Init => TypeOK
  <1>. SUFFICES ASSUME Init
                PROVE  TypeOK
    OBVIOUS
  <1>0. submitting \in BOOLEAN /\ fresh \in BOOLEAN
    BY DEF Init
  <1>1. fills \in 0 .. MaxFills
    BY OrderConstants DEF Init
  <1>2. /\ orders = << >> /\ orders \in Seq(Messages)
        /\ queue = << >> /\ queue \in Seq(Messages)
        /\ accepted = << >> /\ accepted \in Seq(Jobs)
    BY DEF Init
  <1>3. place \in [Jobs -> Places]
    BY DEF Init, Places, RefreshPlaces
  <1>4. selling \in [Jobs -> Shares] /\ reading \in [Jobs -> Readings]
    BY OrderConstants DEF Init, Shares, Readings
  <1>5. account \in Snapshots
    BY DEF Init, Snapshots
  <1>. QED
    BY <1>0, <1>1, <1>2, <1>3, <1>4, <1>5 DEF Init, TypeOK, Readings

\* A step of a job that moves it and, at most, takes or frees the mutex.
LEMMA MovesTyped ==
  ASSUME TypeOK, NEW j \in Jobs, NEW p \in Places, Go(j, p),
         mutex' \in Jobs \cup {NoJob},
         UNCHANGED <<page, queue, manager, server, selling, reading, succeeded>>
  PROVE  TypeOK'
  BY DEF TypeOK, Go, page, manager, server

LEMMA PostTyped ==
  ASSUME TypeOK, NEW j \in Jobs, NEW m \in Messages, NEW p \in Places, Post(j, m, p)
  PROVE  TypeOK'
  <1>1. queue' \in Seq(Messages)
    BY DEF Post, TypeOK
  <1>. QED
    BY <1>1 DEF Post, Go, TypeOK, page, manager, server

LEMMA BalanceReadTyped ==
  ASSUME TypeOK, NEW j \in Jobs, NEW p \in Places,
         \/ BalanceRead(j, p) \/ BalanceFails(j, p) \/ BalanceCached(j, p)
         \/ BalanceStored(j, p)
  PROVE  TypeOK'
  <1>1. CASE BalanceRead(j, p)
    BY <1>1 DEF BalanceRead, Go, TypeOK, page, manager, server
  <1>2. CASE BalanceFails(j, p)
    BY <1>2 DEF BalanceFails, Go, TypeOK, page, manager, server
  <1>3. CASE BalanceCached(j, p)
    BY <1>3, MovesTyped DEF BalanceCached, Moves, TypeOK
  <1>4. CASE BalanceStored(j, p)
    <2>1. balance' \in Readings /\ reading' \in [Jobs -> Readings] /\ fresh' \in BOOLEAN
      BY <1>4 DEF BalanceStored, TypeOK, Readings
    <2>. QED
      BY <1>4, <2>1 DEF BalanceStored, Go, TypeOK, page, server, Readings
  <1>. QED
    BY <1>1, <1>2, <1>3, <1>4

LEMMA OrderingTyped ==
  ASSUME TypeOK, NEW j \in Jobs, Ordering(j)
  PROVE  TypeOK'
  <1>. USE DEF Places, OrderPlaces
  <1>1. ASSUME NEW p \in Places, Moves(j, p)
        PROVE  TypeOK'
    BY <1>1, MovesTyped DEF Moves, TypeOK
  <1>2. CASE OrderRefused(j) \/ TokenEnsured(j) \/ OrderFails(j) \/ TokenExpired(j)
               \/ TokenRefreshed(j) \/ AnswerLost(j)
    BY <1>1, <1>2 DEF OrderRefused, TokenEnsured, OrderFails, TokenExpired,
                      TokenRefreshed, AnswerLost
  <1>3. CASE OrderAccepted(j)
    <2>1. account' \in Snapshots
      BY <1>3, OrderConstants DEF OrderAccepted, TypeOK, Snapshots, Shares
    <2>2. accepted' \in Seq(Jobs)
      BY <1>3 DEF OrderAccepted, TypeOK
    <2>. QED
      BY <1>3, <2>1, <2>2 DEF OrderAccepted, Go, TypeOK, page, manager
  <1>4. CASE AnswerArrives(j)
    BY <1>4 DEF AnswerArrives, Go, TypeOK, page, manager, server
  <1>5. CASE UpdateBalanceAfterOrder(j)
    BY <1>5, BalanceReadTyped DEF UpdateBalanceAfterOrder
  <1>6. CASE ReportOrder(j)
    <2>1. Result(j, j \in succeeded) \in Messages
      BY DEF Result, Messages
    <2>. QED
      BY <1>6, <2>1, PostTyped DEF ReportOrder
  <1>. QED
    BY <1>2, <1>3, <1>4, <1>5, <1>6 DEF Ordering

LEMMA RefreshingTyped ==
  ASSUME TypeOK, NEW j \in Jobs, Refreshing(j)
  PROVE  TypeOK'
  <1>. USE DEF Places, RefreshPlaces
  <1>1. CASE SaveVerified(j)
    BY <1>1 DEF SaveVerified, Go, TypeOK, page, manager, server
  <1>2. CASE UpdateBalance(j)
    BY <1>2, BalanceReadTyped DEF UpdateBalance
  <1>3. CASE SaveFails(j) \/ RefreshFails(j)
    BY <1>3, MovesTyped DEF SaveFails, RefreshFails, Leave
  <1>4. CASE SaveStored(j) \/ Initialized(j)
    BY <1>4, MovesTyped DEF SaveStored, Initialized, Moves, TypeOK
  <1>. QED
    BY <1>1, <1>2, <1>3, <1>4 DEF Refreshing

LEMMA StreamStopsTyped ==
  ASSUME TypeOK, NEW j \in Jobs, StreamStops(j)
  PROVE  TypeOK'
  <1>. USE DEF Places, RefreshPlaces
  <1>1. CASE StartupStopped(j)
    BY <1>1, MovesTyped DEF StartupStopped, Moves, TypeOK
  <1>2. CASE SaveCommitted(j)
    BY <1>2, BalanceReadTyped DEF SaveCommitted
  <1>. QED
    BY <1>1, <1>2 DEF StreamStops

LEMMA NextTypeOK == TypeOK /\ [Next]_vars => TypeOK'
  <1>. SUFFICES ASSUME TypeOK, [Next]_vars
                PROVE  TypeOK'
    OBVIOUS
  <1>1. ASSUME NEW j \in Jobs, SubmitOrder(j)
        PROVE  TypeOK'
    <2>1. selling' \in [Jobs -> Shares]
      <3>1. ShownOrderable \in Shares
        BY OrderConstants DEF ShownOrderable, TypeOK, Snapshots, Shares
      <3>2. 0 .. ShownOrderable \subseteq Shares
        BY <3>1, OrderConstants DEF Shares
      <3>3. PICK n \in 0 .. ShownOrderable : selling' = [selling EXCEPT ![j] = n]
        BY <1>1 DEF SubmitOrder
      <3>. QED
        BY <3>2, <3>3 DEF TypeOK
    <2>2. place' \in [Jobs -> Places] /\ submitting' \in BOOLEAN
      BY <1>1 DEF SubmitOrder, Go, TypeOK, Places, OrderPlaces
    <2>. QED
      BY <1>1, <2>1, <2>2 DEF SubmitOrder, TypeOK, manager, server
  <1>2. ASSUME NEW j \in Jobs, SaveCredentials(j)
        PROVE  TypeOK'
    BY <1>2, MovesTyped DEF SaveCredentials, Moves, TypeOK, Places, RefreshPlaces
  <1>3. ASSUME NEW j \in Jobs, Lock(j)
        PROVE  TypeOK'
    <2>1. AfterLock(place[j]) \in Places
      BY <1>3 DEF Lock, AfterLock, Places, OrderPlaces, RefreshPlaces
    <2>. QED
      BY <1>3, <2>1, MovesTyped DEF Lock
  <1>4. ASSUME NEW j \in Jobs, PostBalance(j)
        PROVE  TypeOK'
    <2>1. Balance(balance) \in Messages /\ "done" \in Places
      BY DEF Balance, Messages, TypeOK, Places
    <2>. QED
      BY <1>4, <2>1, PostTyped DEF PostBalance
  <1>5. CASE LoadOrderResult
    <2>1. Head(queue) \in Messages /\ queue' \in Seq(Messages)
      BY <1>5, TailOfSeq DEF LoadOrderResult, TypeOK
    <2>2. orders' \in Seq(Messages) /\ submitting' \in BOOLEAN
      BY <1>5, <2>1, AppendToSeq DEF LoadOrderResult, TypeOK
    <2>. QED
      BY <1>5, <2>1, <2>2 DEF LoadOrderResult, TypeOK, manager, server, job
  <1>6. CASE LoadBalance
    <2>1. Head(queue) \in Messages /\ queue' \in Seq(Messages)
      BY <1>6, TailOfSeq DEF LoadBalance, TypeOK
    <2>2. shown' \in Readings
      BY <1>6, <2>1 DEF LoadBalance, Messages, Readings
    <2>. QED
      BY <1>6, <2>1, <2>2 DEF LoadBalance, TypeOK, manager, server, job, Readings
  <1>7. CASE Fill
    <2>1. account' \in Snapshots
      BY <1>7 DEF Fill, TypeOK, Snapshots
    <2>2. fills' \in 0 .. MaxFills
      BY <1>7, OrderConstants DEF Fill, TypeOK
    <2>. QED
      BY <1>7, <2>1, <2>2 DEF Fill, TypeOK, page, manager, job
  <1>8. CASE CacheExpires
    BY <1>8 DEF CacheExpires, TypeOK, page, server, job
  <1>9. CASE UNCHANGED vars
    BY <1>9 DEF vars, TypeOK, page, manager, server, job
  <1>. QED
    BY <1>1, <1>2, <1>3, <1>4, <1>5, <1>6, <1>7, <1>8, <1>9,
       OrderingTyped, RefreshingTyped, StreamStopsTyped DEF Next, JobProceeds, PageHears

-----------------------------------------------------------------------------
(* Why an order is accepted once, listed once and waited for *)

\* Places of a job whose order may have been accepted, and of one whose result
\* is posted.
Reported == {"post_balance", "done"}
Accepting == {"answering", "update_balance", "balance_read", "report"} \cup Reported

IsAccepted(j) == \E n \in DOMAIN accepted : accepted[n] = j
IsResult(m) == m.kind = "result"

\* A result is of a job that has posted it; it tells of success only if the
\* server accepted the order.
Honest(m) == place[m.job] \in Reported /\ (m.success => IsAccepted(m.job))

\* A job is never accepted again: it has left the places from which it submits.
AcceptedInv ==
  /\ AcceptedOnce
  /\ \A n \in DOMAIN accepted : place[accepted[n]] \in Accepting
  /\ \A j \in Jobs : place[j] = "answering" \/ j \in succeeded => IsAccepted(j)

\* A job's result is posted once, and is either in the queue or listed.
ResultInv ==
  /\ \A k \in DOMAIN queue : IsResult(queue[k]) => Honest(queue[k])
  /\ \A m \in DOMAIN orders : IsResult(orders[m]) /\ Honest(orders[m])
  /\ \A k, l \in DOMAIN queue :
       IsResult(queue[k]) /\ IsResult(queue[l]) /\ queue[k].job = queue[l].job => k = l
  /\ \A m, n \in DOMAIN orders : orders[m].job = orders[n].job => m = n
  /\ \A k \in DOMAIN queue, m \in DOMAIN orders :
       IsResult(queue[k]) => queue[k].job # orders[m].job

\* The order of j is at work or its result is on its way.
Open(j) ==
  \/ place[j] \in OrderPlaces
  \/ \E k \in DOMAIN queue : IsResult(queue[k]) /\ queue[k].job = j

\* There is at most one such order, and the form is locked for it.
FormInv ==
  /\ \A j \in Jobs : Open(j) => submitting
  /\ \A i, j \in Jobs : Open(i) /\ Open(j) => i = j

OrderInv == AcceptedInv /\ ResultInv /\ FormInv

-----------------------------------------------------------------------------
LEMMA InitOrderInv == Init => OrderInv
  BY DEF Init, OrderInv, AcceptedInv, ResultInv, FormInv, AcceptedOnce, IsAccepted, Open,
         OrderPlaces

\* A step of a job that neither has its order accepted nor posts anything.
QuietMove(j, p) ==
  /\ Go(j, p) /\ p # "answering"
  /\ p \in OrderPlaces => place[j] \in OrderPlaces
  /\ place[j] \in Accepting => p \in Accepting
  /\ place[j] \in Reported => p \in Reported
  /\ \A i \in succeeded' : i \in succeeded \/ place[i] = "answering"
  /\ UNCHANGED <<submitting, orders, queue, accepted>>

LEMMA QuietKeepsOrderInv ==
  ASSUME TypeOK, OrderInv, NEW j \in Jobs, NEW p, QuietMove(j, p)
  PROVE  OrderInv'
  <1>1. /\ \A i \in Jobs : place'[i] = IF i = j THEN p ELSE place[i]
        /\ UNCHANGED <<submitting, orders, queue, accepted>>
    BY DEF QuietMove, Go, TypeOK
  <1>2. \A n \in DOMAIN accepted : accepted[n] \in Jobs
    BY DEF TypeOK
  <1>3. \A i \in Jobs : IsAccepted(i) => IsAccepted(i)'
    BY <1>1 DEF IsAccepted
  <1>4. AcceptedInv'
    <2>1. AcceptedOnce'
      BY <1>1 DEF OrderInv, AcceptedInv, AcceptedOnce
    <2>2. \A n \in DOMAIN accepted : place'[accepted[n]] \in Accepting
      BY <1>1, <1>2 DEF QuietMove, OrderInv, AcceptedInv
    <2>3. ASSUME NEW i \in Jobs, place'[i] = "answering" \/ i \in succeeded'
          PROVE  IsAccepted(i)'
      BY <1>1, <1>3, <2>3 DEF QuietMove, OrderInv, AcceptedInv
    <2>. QED
      BY <1>1, <2>1, <2>2, <2>3 DEF AcceptedInv
  <1>5. ASSUME NEW m \in Messages, IsResult(m), Honest(m)
        PROVE  Honest(m)'
    <2>1. m.job \in Jobs
      BY <1>5 DEF Messages, IsResult
    <2>. QED
      BY <1>1, <1>3, <1>5, <2>1 DEF Honest, QuietMove
  <1>6. ResultInv'
    <2>1. /\ \A k \in DOMAIN queue : queue[k] \in Messages
          /\ \A m \in DOMAIN orders : orders[m] \in Messages
      BY DEF TypeOK
    <2>2. /\ \A k \in DOMAIN queue : IsResult(queue[k]) => Honest(queue[k])'
          /\ \A m \in DOMAIN orders : IsResult(orders[m]) /\ Honest(orders[m])'
      BY <1>1, <1>5, <2>1 DEF OrderInv, ResultInv, Honest
    <2>. QED
      BY <1>1, <2>2 DEF OrderInv, ResultInv
  <1>7. FormInv'
    <2>1. \A i \in Jobs : Open(i)' => Open(i)
      BY <1>1 DEF Open, QuietMove
    <2>. QED
      BY <1>1, <2>1 DEF OrderInv, FormInv
  <1>. QED
    BY <1>4, <1>6, <1>7 DEF OrderInv

\* Nothing of what the invariant speaks of changes.
LEMMA StillKeepsOrderInv ==
  ASSUME OrderInv, UNCHANGED <<submitting, orders, queue, accepted, place, succeeded>>
  PROVE  OrderInv'
  BY DEF OrderInv, AcceptedInv, ResultInv, FormInv, AcceptedOnce, IsAccepted, Honest, Open

\* The steps of jobs that are quiet.
LEMMA QuietSteps ==
  ASSUME TypeOK, NEW j \in Jobs,
         \/ SaveCredentials(j) \/ Lock(j) \/ Refreshing(j) \/ StreamStops(j)
         \/ Ordering(j) /\ ~OrderAccepted(j) /\ ~ReportOrder(j)
  PROVE  \E p : QuietMove(j, p)
  <1>. USE DEF QuietMove, Moves, page, server, OrderPlaces, Accepting, Reported
  <1>1. CASE SaveCredentials(j)
    BY <1>1 DEF SaveCredentials
  <1>2. CASE Lock(j)
    BY <1>2 DEF Lock, AfterLock
  <1>3. CASE Refreshing(j)
    <2>1. CASE SaveVerified(j)
      BY <2>1 DEF SaveVerified
    <2>2. CASE SaveStored(j)
      BY <2>2 DEF SaveStored
    <2>3. CASE SaveFails(j)
      BY <2>3 DEF SaveFails, Leave
    <2>4. CASE Initialized(j)
      BY <2>4 DEF Initialized
    <2>5. CASE RefreshFails(j)
      BY <2>5 DEF RefreshFails, Leave
    <2>6. CASE UpdateBalance(j)
      BY <2>6 DEF UpdateBalance, BalanceCached, BalanceRead, BalanceStored
    <2>. QED
      BY <1>3, <2>1, <2>2, <2>3, <2>4, <2>5, <2>6 DEF Refreshing
  <1>4. CASE Ordering(j) /\ ~OrderAccepted(j) /\ ~ReportOrder(j)
    <2>1. CASE OrderRefused(j) \/ TokenEnsured(j) \/ OrderFails(j)
      BY <2>1 DEF OrderRefused, TokenEnsured, OrderFails
    <2>2. CASE TokenExpired(j) \/ TokenRefreshed(j)
      BY <2>2 DEF TokenExpired, TokenRefreshed
    <2>3. CASE AnswerArrives(j)
      BY <2>3 DEF AnswerArrives
    <2>4. CASE AnswerLost(j)
      BY <2>4 DEF AnswerLost
    <2>5. CASE UpdateBalanceAfterOrder(j)
      BY <2>5 DEF UpdateBalanceAfterOrder, BalanceCached, BalanceRead, BalanceFails, BalanceStored
    <2>. QED
      BY <1>4, <2>1, <2>2, <2>3, <2>4, <2>5 DEF Ordering
  <1>5. CASE StreamStops(j)
    BY <1>5 DEF StreamStops, StartupStopped, SaveCommitted, BalanceStored
  <1>. QED
    BY <1>1, <1>2, <1>3, <1>4, <1>5

\* The server accepts an order: its job was not among the accepted ones.
LEMMA AcceptanceKeepsOrderInv ==
  ASSUME TypeOK, OrderInv, NEW j \in Jobs, OrderAccepted(j)
  PROVE  OrderInv'
  <1>1. /\ \A i \in Jobs : place'[i] = IF i = j THEN "answering" ELSE place[i]
        /\ place[j] \in {"submit", "resubmit"}
        /\ UNCHANGED <<submitting, orders, queue, succeeded>>
    BY DEF OrderAccepted, Go, TypeOK, page
  <1>2. /\ Len(accepted) + 1 \in DOMAIN accepted' /\ accepted'[Len(accepted) + 1] = j
        /\ \A n \in DOMAIN accepted : n \in DOMAIN accepted' /\ accepted'[n] = accepted[n]
        /\ \A n \in DOMAIN accepted' : n \in DOMAIN accepted
                                        \/ (n = Len(accepted) + 1 /\ n \notin DOMAIN accepted)
    BY AppendToSeq DEF OrderAccepted, TypeOK
  <1>3. \A n \in DOMAIN accepted : accepted[n] \in Jobs /\ accepted[n] # j
    BY <1>1 DEF TypeOK, OrderInv, AcceptedInv, Accepting, Reported
  <1>4. \A i \in Jobs : IsAccepted(i) => IsAccepted(i)'
    BY <1>2 DEF IsAccepted
  <1>5. AcceptedInv'
    <2>1. AcceptedOnce'
      BY <1>2, <1>3 DEF AcceptedOnce, OrderInv, AcceptedInv
    <2>2. \A n \in DOMAIN accepted' : place'[accepted'[n]] \in Accepting
      BY <1>1, <1>2, <1>3 DEF OrderInv, AcceptedInv, Accepting
    <2>3. IsAccepted(j)'
      BY <1>2 DEF IsAccepted
    <2>4. ASSUME NEW i \in Jobs, place'[i] = "answering" \/ i \in succeeded'
          PROVE  IsAccepted(i)'
      BY <1>1, <1>4, <2>3, <2>4 DEF OrderInv, AcceptedInv
    <2>. QED
      BY <2>1, <2>2, <2>4 DEF AcceptedInv
  <1>6. ASSUME NEW m \in Messages, IsResult(m), Honest(m)
        PROVE  Honest(m)'
    <2>1. m.job \in Jobs /\ m.job # j
      BY <1>1, <1>6 DEF Messages, IsResult, Honest, Reported
    <2>. QED
      BY <1>1, <1>4, <1>6, <2>1 DEF Honest
  <1>7. ResultInv'
    <2>1. /\ \A k \in DOMAIN queue : queue[k] \in Messages
          /\ \A m \in DOMAIN orders : orders[m] \in Messages
      BY DEF TypeOK
    <2>2. /\ \A k \in DOMAIN queue : IsResult(queue[k]) => Honest(queue[k])'
          /\ \A m \in DOMAIN orders : IsResult(orders[m]) /\ Honest(orders[m])'
      BY <1>1, <1>6, <2>1 DEF OrderInv, ResultInv, Honest
    <2>. QED
      BY <1>1, <2>2 DEF OrderInv, ResultInv
  <1>8. FormInv'
    <2>1. \A i \in Jobs : Open(i)' => Open(i)
      BY <1>1 DEF Open, OrderPlaces
    <2>. QED
      BY <1>1, <2>1 DEF OrderInv, FormInv
  <1>. QED
    BY <1>5, <1>7, <1>8 DEF OrderInv

\* The form is submitted only while no order is open.
LEMMA SubmissionKeepsOrderInv ==
  ASSUME TypeOK, OrderInv, NEW j \in Jobs, SubmitOrder(j)
  PROVE  OrderInv'
  <1>1. /\ \A i \in Jobs : place'[i] = IF i = j THEN "order" ELSE place[i]
        /\ place[j] = "none" /\ ~submitting /\ submitting' = TRUE
        /\ UNCHANGED <<orders, queue, accepted, succeeded>>
    BY DEF SubmitOrder, Go, TypeOK, server
  <1>2. /\ \A n \in DOMAIN accepted : accepted[n] \in Jobs
        /\ \A k \in DOMAIN queue : queue[k] \in Messages
        /\ \A m \in DOMAIN orders : orders[m] \in Messages
    BY DEF TypeOK
  <1>3. AcceptedInv'
    <2>1. AcceptedOnce'
      BY <1>1 DEF AcceptedOnce, OrderInv, AcceptedInv
    <2>2. \A n \in DOMAIN accepted : place'[accepted[n]] \in Accepting
      BY <1>1, <1>2 DEF OrderInv, AcceptedInv, Accepting, Reported
    <2>3. \A i \in Jobs : place'[i] = "answering" \/ i \in succeeded => IsAccepted(i)'
      BY <1>1 DEF OrderInv, AcceptedInv, IsAccepted
    <2>. QED
      BY <1>1, <2>1, <2>2, <2>3 DEF AcceptedInv
  <1>4. ASSUME NEW m \in Messages, IsResult(m), Honest(m)
        PROVE  Honest(m)'
    <2>1. m.job \in Jobs /\ m.job # j
      BY <1>1, <1>4 DEF Messages, IsResult, Honest, Reported
    <2>. QED
      BY <1>1, <1>4, <2>1 DEF Honest, IsAccepted
  <1>5. ResultInv'
    <2>1. /\ \A k \in DOMAIN queue : IsResult(queue[k]) => Honest(queue[k])'
          /\ \A m \in DOMAIN orders : IsResult(orders[m]) /\ Honest(orders[m])'
      BY <1>1, <1>2, <1>4 DEF OrderInv, ResultInv, Honest
    <2>. QED
      BY <1>1, <2>1 DEF OrderInv, ResultInv
  <1>6. FormInv'
    <2>1. \A i \in Jobs : Open(i)' => i = j
      BY <1>1 DEF Open, OrderInv, FormInv
    <2>. QED
      BY <1>1, <2>1 DEF FormInv
  <1>. QED
    BY <1>3, <1>5, <1>6 DEF OrderInv

\* A job posts its result, the first of its messages, or a balance.
LEMMA PostKeepsOrderInv ==
  ASSUME TypeOK, OrderInv, NEW j \in Jobs, ReportOrder(j) \/ PostBalance(j)
  PROVE  OrderInv'
  <1>1. PICK m \in Messages, p \in Reported :
          /\ Post(j, m, p)
          /\ \/ place[j] = "report" /\ m = Result(j, j \in succeeded)
             \/ place[j] = "post_balance" /\ m.kind = "balance"
    <2>1. CASE ReportOrder(j)
      <3>1. Result(j, j \in succeeded) \in Messages
        BY DEF Result, Messages
      <3>. QED
        BY <2>1, <3>1 DEF ReportOrder, Reported
    <2>2. CASE PostBalance(j)
      <3>1. Balance(balance) \in Messages /\ Balance(balance).kind = "balance"
        BY DEF Balance, Messages, TypeOK
      <3>. QED
        BY <2>2, <3>1 DEF PostBalance, Reported
    <2>. QED
      BY <2>1, <2>2
  <1>2. /\ \A i \in Jobs : place'[i] = IF i = j THEN p ELSE place[i]
        /\ UNCHANGED <<submitting, orders, accepted, succeeded>>
    BY <1>1 DEF Post, Go, TypeOK, page, server
  <1>3. /\ Len(queue) + 1 \in DOMAIN queue' /\ queue'[Len(queue) + 1] = m
        /\ \A k \in DOMAIN queue : k \in DOMAIN queue' /\ queue'[k] = queue[k]
        /\ \A k \in DOMAIN queue' : k \in DOMAIN queue
                                     \/ (k = Len(queue) + 1 /\ k \notin DOMAIN queue)
    BY <1>1, AppendToSeq DEF Post, TypeOK
  <1>4. /\ \A n \in DOMAIN accepted : accepted[n] \in Jobs
        /\ \A k \in DOMAIN queue : queue[k] \in Messages
        /\ \A n \in DOMAIN orders : orders[n] \in Messages
    BY DEF TypeOK
  <1>5. AcceptedInv'
    <2>1. AcceptedOnce'
      BY <1>2 DEF AcceptedOnce, OrderInv, AcceptedInv
    <2>2. \A n \in DOMAIN accepted : place'[accepted[n]] \in Accepting
      BY <1>2, <1>4 DEF OrderInv, AcceptedInv, Accepting
    <2>3. \A i \in Jobs : place'[i] = "answering" \/ i \in succeeded => IsAccepted(i)'
      BY <1>2 DEF OrderInv, AcceptedInv, IsAccepted, Reported
    <2>. QED
      BY <1>2, <2>1, <2>2, <2>3 DEF AcceptedInv
  <1>6. ASSUME NEW e \in Messages, IsResult(e), Honest(e)
        PROVE  Honest(e)'
    <2>1. e.job \in Jobs
      BY <1>6 DEF Messages, IsResult
    <2>. QED
      BY <1>2, <1>6, <2>1 DEF Honest, IsAccepted
  <1>7. IsResult(m) => /\ m.job = j /\ Honest(m)' /\ place[j] = "report"
    <2>1. SUFFICES ASSUME IsResult(m)
                   PROVE  m.job = j /\ Honest(m)' /\ place[j] = "report"
      OBVIOUS
    <2>2. m = Result(j, j \in succeeded) /\ place[j] = "report"
      BY <1>1, <2>1 DEF IsResult
    <2>3. m.job = j /\ m.success = (j \in succeeded)
      BY <2>2 DEF Result
    <2>4. j \in succeeded => IsAccepted(j)'
      BY <1>2 DEF IsAccepted, OrderInv, AcceptedInv
    <2>5. place'[j] \in Reported
      BY <1>2
    <2>. QED
      BY <2>2, <2>3, <2>4, <2>5 DEF Honest, IsAccepted
  \* No message about j was posted before.
  <1>8. ASSUME IsResult(m)
        PROVE  /\ \A k \in DOMAIN queue : IsResult(queue[k]) => queue[k].job # j
               /\ \A n \in DOMAIN orders : orders[n].job # j
    BY <1>7, <1>8 DEF OrderInv, ResultInv, Honest, Reported
  <1>9. ResultInv'
    <2>1. /\ \A k \in DOMAIN queue : IsResult(queue[k]) => Honest(queue[k])'
          /\ \A n \in DOMAIN orders : IsResult(orders[n])' /\ Honest(orders[n])'
      BY <1>2, <1>3, <1>4, <1>6 DEF OrderInv, ResultInv, Honest, IsResult
    <2>2. \A k \in DOMAIN queue' : IsResult(queue'[k]) => Honest(queue[k])'
      BY <1>3, <1>7, <2>1 DEF Honest
    <2>3. \A k, l \in DOMAIN queue' :
            IsResult(queue'[k]) /\ IsResult(queue'[l]) /\ queue'[k].job = queue'[l].job => k = l
      BY <1>3, <1>7, <1>8 DEF OrderInv, ResultInv
    <2>4. \A k \in DOMAIN queue', n \in DOMAIN orders :
            IsResult(queue'[k]) => queue'[k].job # orders[n].job
      BY <1>3, <1>7, <1>8 DEF OrderInv, ResultInv
    <2>5. \A n, l \in DOMAIN orders : orders[n].job = orders[l].job => n = l
      BY DEF OrderInv, ResultInv
    <2>. QED
      BY <1>2, <2>1, <2>2, <2>3, <2>4, <2>5 DEF ResultInv, IsResult
  <1>10. FormInv'
    <2>1. \A i \in Jobs : Open(i)' => Open(i)
      BY <1>2, <1>3, <1>7 DEF Open, Reported, OrderPlaces, IsResult
    <2>. QED
      BY <1>2, <2>1 DEF OrderInv, FormInv
  <1>. QED
    BY <1>5, <1>9, <1>10 DEF OrderInv

\* The page takes a message: a result unlocks the form it was locked for.
LEMMA HearKeepsOrderInv ==
  ASSUME TypeOK, OrderInv, PageHears
  PROVE  OrderInv'
  <1>0. PICK m \in Messages : m = Head(queue) /\ m = queue[1]
    BY TailOfSeq DEF PageHears, LoadOrderResult, LoadBalance, TypeOK
  <1>1. /\ queue # << >> /\ queue' = Tail(queue) /\ m = Head(queue) /\ m = queue[1]
        /\ UNCHANGED <<place, accepted, succeeded>>
        /\ \/ LoadOrderResult /\ IsResult(m)
           \/ LoadBalance /\ ~IsResult(m)
    BY <1>0 DEF PageHears, LoadOrderResult, LoadBalance, server, job, IsResult
  <1>2. /\ 1 \in DOMAIN queue /\ m \in Messages
        /\ \A k \in DOMAIN queue' : /\ k + 1 \in DOMAIN queue /\ k + 1 # 1
                                   /\ queue'[k] = queue[k + 1]
        /\ \A k, l \in DOMAIN queue' : k + 1 = l + 1 => k = l
    BY <1>1, TailOfSeq DEF TypeOK
  <1>3. AcceptedInv'
    BY <1>1 DEF OrderInv, AcceptedInv, AcceptedOnce, IsAccepted
  \* What holds of the rest of the queue.
  <1>4. /\ \A k \in DOMAIN queue' : IsResult(queue'[k]) => Honest(queue[k])'
        /\ \A k, l \in DOMAIN queue' :
             IsResult(queue'[k]) /\ IsResult(queue'[l]) /\ queue'[k].job = queue'[l].job => k = l
        /\ \A k \in DOMAIN queue', n \in DOMAIN orders :
             IsResult(queue'[k]) => queue'[k].job # orders[n].job
        /\ IsResult(m) => \A k \in DOMAIN queue' :
             IsResult(queue'[k]) => queue'[k].job # m.job
    BY <1>1, <1>2 DEF OrderInv, ResultInv, Honest, IsAccepted
  <1>5. CASE LoadBalance /\ ~IsResult(m)
    <2>1. UNCHANGED <<orders, submitting>>
      BY <1>5 DEF LoadBalance
    <2>2. \A n \in DOMAIN orders : IsResult(orders[n])' /\ Honest(orders[n])'
      BY <1>1, <2>1 DEF OrderInv, ResultInv, Honest, IsAccepted, IsResult
    <2>3. ResultInv'
      BY <1>4, <2>1, <2>2 DEF OrderInv, ResultInv, IsResult
    <2>4. \A i \in Jobs : Open(i)' => Open(i)
      BY <1>1, <1>2 DEF Open, IsResult
    <2>5. FormInv'
      BY <2>1, <2>4 DEF OrderInv, FormInv
    <2>. QED
      BY <1>3, <2>3, <2>5 DEF OrderInv
  <1>6. CASE LoadOrderResult /\ IsResult(m)
    <2>1. /\ Len(orders) + 1 \in DOMAIN orders' /\ orders'[Len(orders) + 1] = m
          /\ \A n \in DOMAIN orders : n \in DOMAIN orders' /\ orders'[n] = orders[n]
          /\ \A n \in DOMAIN orders' : \/ n \in DOMAIN orders
                                       \/ (n = Len(orders) + 1 /\ n \notin DOMAIN orders)
      BY <1>1, <1>2, <1>6, AppendToSeq DEF LoadOrderResult, TypeOK
    <2>2. submitting' = FALSE
      BY <1>6 DEF LoadOrderResult
    <2>3. /\ m.job \in Jobs /\ Honest(m)
          /\ \A n \in DOMAIN orders : orders[n].job # m.job
      <3>1. m.job \in Jobs
        BY <1>6 DEF Messages, IsResult
      <3>2. Honest(m) /\ \A n \in DOMAIN orders : orders[n].job # m.job
        BY <1>1, <1>2, <1>6 DEF OrderInv, ResultInv
      <3>. QED
        BY <3>1, <3>2
    <2>4. ResultInv'
      <3>1. \A n \in DOMAIN orders' : IsResult(orders'[n]) /\ Honest(orders[n])'
        BY <1>1, <1>6, <2>1, <2>3 DEF OrderInv, ResultInv, Honest, IsAccepted
      <3>2. \A n, l \in DOMAIN orders' : orders'[n].job = orders'[l].job => n = l
        BY <2>1, <2>3 DEF OrderInv, ResultInv
      <3>3. \A k \in DOMAIN queue', n \in DOMAIN orders' :
              IsResult(queue'[k]) => queue'[k].job # orders'[n].job
        BY <1>4, <1>6, <2>1
      <3>. QED
        BY <1>4, <3>1, <3>2, <3>3 DEF ResultInv, IsResult
    \* The only open order was that of the result, and it is closed.
    <2>5. \A i \in Jobs : ~Open(i)'
      <3>1. Open(m.job)
        BY <1>1, <1>2, <1>6 DEF Open
      <3>2. ASSUME NEW i \in Jobs, Open(i)'
            PROVE  i = m.job
        <4>1. Open(i)
          BY <1>1, <1>2, <3>2 DEF Open, IsResult
        <4>. QED
          BY <2>3, <3>1, <4>1 DEF OrderInv, FormInv
      <3>3. ~Open(m.job)'
        BY <1>1, <1>4, <1>6, <2>3 DEF Open, IsResult, Honest, Reported, OrderPlaces
      <3>. QED
        BY <3>2, <3>3
    <2>6. FormInv'
      BY <2>5 DEF FormInv
    <2>. QED
      BY <1>3, <2>4, <2>6 DEF OrderInv
  <1>. QED
    BY <1>1, <1>5, <1>6

LEMMA NextOrderInv == TypeOK /\ OrderInv /\ [Next]_vars => OrderInv'
  <1>. SUFFICES ASSUME TypeOK, OrderInv, [Next]_vars
                PROVE  OrderInv'
    OBVIOUS
  <1>1. ASSUME NEW j \in Jobs,
               SubmitOrder(j) \/ SaveCredentials(j) \/ JobProceeds(j) \/ StreamStops(j)
        PROVE  OrderInv'
    <2>1. CASE SubmitOrder(j) \/ OrderAccepted(j) \/ ReportOrder(j) \/ PostBalance(j)
      BY <2>1, SubmissionKeepsOrderInv, AcceptanceKeepsOrderInv, PostKeepsOrderInv
    <2>2. CASE \/ SaveCredentials(j) \/ Lock(j) \/ Refreshing(j) \/ StreamStops(j)
               \/ Ordering(j) /\ ~OrderAccepted(j) /\ ~ReportOrder(j)
      BY <2>2, QuietSteps, QuietKeepsOrderInv
    <2>. QED
      BY <1>1, <2>1, <2>2 DEF JobProceeds
  <1>2. CASE PageHears
    BY <1>2, HearKeepsOrderInv
  <1>3. CASE Fill \/ CacheExpires \/ UNCHANGED vars
    BY <1>3, StillKeepsOrderInv DEF Fill, CacheExpires, vars, page, server, job
  <1>. QED
    BY <1>1, <1>2, <1>3 DEF Next

-----------------------------------------------------------------------------
\* Every variable keeps to its type: no sale takes the account below nothing.
THEOREM TypeCorrect == Spec => []TypeOK
  BY InitTypeOK, NextTypeOK, PTL DEF Spec, Safety

LEMMA OrderInvHolds == Spec => []OrderInv
  <1>1. Init => TypeOK /\ OrderInv
    BY InitTypeOK, InitOrderInv
  <1>2. (TypeOK /\ OrderInv) /\ [Next]_vars => (TypeOK /\ OrderInv)'
    BY NextTypeOK, NextOrderInv
  <1>. QED
    BY <1>1, <1>2, PTL DEF Spec, Safety

\* One confirmed order reaches the market at most once: it is sent again only
\* from where it was not accepted, however often tokens expire, answers get
\* lost and other jobs come between.
THEOREM OrderAcceptedOnce == Spec => []AcceptedOnce
  <1>1. OrderInv => AcceptedOnce
    BY DEF OrderInv, AcceptedInv
  <1>. QED
    BY <1>1, OrderInvHolds, PTL

\* What the page lists as accepted the server has accepted, and no order is
\* listed twice.
THEOREM ListedOrdersAreAccepted == Spec => []ListedIsAccepted
  <1>1. OrderInv => ListedIsAccepted
    BY DEF OrderInv, ResultInv, Honest, IsAccepted, ListedIsAccepted
  <1>. QED
    BY <1>1, OrderInvHolds, PTL

\* The form is not unlocked while an order can still reach the server.
THEOREM NoOrderBehindAnUnlockedForm == Spec => []NothingInFlight
  <1>1. OrderInv => NothingInFlight
    BY DEF OrderInv, FormInv, Open, NothingInFlight
  <1>. QED
    BY <1>1, OrderInvHolds, PTL

-----------------------------------------------------------------------------
(* Why the balance that is shown never goes back *)

\* Places of a job that does not hold operation_mutex, and of one that has read
\* a balance it has yet to store.
Unlocked == {"none", "order", "startup", "save", "done"}
Holding == {"balance_read", "commit", "stop_saved", "refresh_read"}

MutexInv == \A j \in Jobs : place[j] \notin Unlocked => mutex = j

\* Balances are older the further they have come: what is shown is not newer
\* than what is in the queue, that is not newer than the manager's balance, this
\* not newer than what a job has read, and that not newer than the account.
Age(s) == IF s = NoSnapshot THEN 0 ELSE s.version + 1

AgeInv ==
  /\ \A k \in DOMAIN queue : ~IsResult(queue[k]) =>
       /\ Age(shown) <= Age(queue[k].snapshot)
       /\ Age(queue[k].snapshot) <= Age(balance)
  /\ \A k, l \in DOMAIN queue :
       ~IsResult(queue[k]) /\ ~IsResult(queue[l]) /\ k < l
         => Age(queue[k].snapshot) <= Age(queue[l].snapshot)
  /\ Age(shown) <= Age(balance)
  /\ \A j \in Jobs : place[j] \in Holding =>
       Age(balance) <= Age(reading[j]) /\ Age(reading[j]) <= Age(account)
  /\ Age(balance) <= Age(account)

LEMMA AgeIsNat == \A s \in Readings : Age(s) \in Nat
  BY DEF Readings, Age, Snapshots

LEMMA AgesAreNat ==
  ASSUME TypeOK
  PROVE  /\ Age(shown) \in Nat /\ Age(balance) \in Nat /\ Age(account) \in Nat
         /\ \A j \in Jobs : Age(reading[j]) \in Nat
         /\ \A k \in DOMAIN queue : ~IsResult(queue[k]) => Age(queue[k].snapshot) \in Nat
  <1>1. \A k \in DOMAIN queue : queue[k] \in Messages
    BY DEF TypeOK
  <1>2. \A m \in Messages : ~IsResult(m) => m.snapshot \in Readings
    BY DEF Messages, IsResult, Readings
  <1>. QED
    BY <1>1, <1>2, AgeIsNat DEF TypeOK, Readings

LEMMA InitAges == Init => MutexInv /\ AgeInv
  <1>. SUFFICES ASSUME Init
                PROVE  MutexInv /\ AgeInv
    OBVIOUS
  <1>1. Age(NoSnapshot) = 0 /\ Age(account) \in Nat
    BY InitTypeOK, AgesAreNat DEF Age
  <1>2. \A j \in Jobs : place[j] \in {"startup", "none"}
    BY DEF Init
  <1>3. MutexInv
    BY <1>2 DEF MutexInv, Unlocked
  <1>4. AgeInv
    BY <1>1, <1>2 DEF Init, AgeInv, Holding
  <1>. QED
    BY <1>3, <1>4

-----------------------------------------------------------------------------
(* operation_mutex *)

\* What a step of a job may do to its place and the mutex.
MutexMove(j) ==
  \E p :
    /\ Go(j, p)
    /\ \/ p \in Unlocked /\ mutex' = mutex
       \/ mutex = NoJob /\ mutex' = j
       \/ place[j] \notin Unlocked /\ mutex' = mutex
       \/ place[j] \notin Unlocked /\ p \in Unlocked /\ mutex' = NoJob

LEMMA MutexMoveKeeps ==
  ASSUME TypeOK, MutexInv, NEW j \in Jobs, MutexMove(j)
  PROVE  MutexInv'
  <1>1. PICK p :
          /\ \A i \in Jobs : place'[i] = IF i = j THEN p ELSE place[i]
          /\ \/ p \in Unlocked /\ mutex' = mutex
             \/ mutex = NoJob /\ mutex' = j
             \/ place[j] \notin Unlocked /\ mutex' = mutex
             \/ place[j] \notin Unlocked /\ p \in Unlocked /\ mutex' = NoJob
    BY DEF MutexMove, Go, TypeOK
  <1>. QED
    BY <1>1, OrderConstants DEF MutexInv

LEMMA JobsUseMutex ==
  ASSUME TypeOK, NEW j \in Jobs,
         SubmitOrder(j) \/ SaveCredentials(j) \/ JobProceeds(j) \/ StreamStops(j)
  PROVE  MutexMove(j)
  <1>. USE DEF MutexMove, Moves, Unlocked
  <1>1. CASE SubmitOrder(j) \/ SaveCredentials(j)
    BY <1>1 DEF SubmitOrder, SaveCredentials
  <1>2. CASE Lock(j)
    BY <1>2 DEF Lock
  <1>3. CASE Ordering(j)
    <2>1. CASE OrderRefused(j) \/ TokenEnsured(j) \/ OrderAccepted(j) \/ OrderFails(j)
      BY <2>1 DEF OrderRefused, TokenEnsured, OrderAccepted, OrderFails
    <2>2. CASE TokenExpired(j) \/ TokenRefreshed(j) \/ AnswerArrives(j) \/ AnswerLost(j)
      BY <2>2 DEF TokenExpired, TokenRefreshed, AnswerArrives, AnswerLost
    <2>3. CASE UpdateBalanceAfterOrder(j)
      BY <2>3 DEF UpdateBalanceAfterOrder, BalanceCached, BalanceRead, BalanceFails, BalanceStored
    <2>4. CASE ReportOrder(j)
      BY <2>4 DEF ReportOrder, Post
    <2>. QED
      BY <1>3, <2>1, <2>2, <2>3, <2>4 DEF Ordering
  <1>4. CASE Refreshing(j)
    <2>1. CASE SaveVerified(j) \/ SaveStored(j) \/ UpdateBalance(j)
      BY <2>1 DEF SaveVerified, SaveStored, UpdateBalance, BalanceCached, BalanceRead,
                  BalanceStored
    <2>2. CASE SaveFails(j) \/ Initialized(j) \/ RefreshFails(j)
      BY <2>2 DEF SaveFails, Initialized, RefreshFails, Leave
    <2>. QED
      BY <1>4, <2>1, <2>2 DEF Refreshing
  <1>5. CASE PostBalance(j)
    BY <1>5 DEF PostBalance, Post
  <1>6. CASE StreamStops(j)
    BY <1>6 DEF StreamStops, StartupStopped, SaveCommitted, BalanceStored
  <1>. QED
    BY <1>1, <1>2, <1>3, <1>4, <1>5, <1>6 DEF JobProceeds

LEMMA NextMutexInv == TypeOK /\ MutexInv /\ [Next]_vars => MutexInv'
  <1>. SUFFICES ASSUME TypeOK, MutexInv, [Next]_vars
                PROVE  MutexInv'
    OBVIOUS
  <1>1. ASSUME UNCHANGED <<place, mutex>>
        PROVE  MutexInv'
    BY <1>1 DEF MutexInv
  <1>2. CASE PageHears \/ Fill \/ CacheExpires \/ UNCHANGED vars
    BY <1>1, <1>2 DEF PageHears, LoadOrderResult, LoadBalance, Fill, CacheExpires, vars, job
  <1>. QED
    BY <1>2, JobsUseMutex, MutexMoveKeeps DEF Next

-----------------------------------------------------------------------------
(* Balances *)

\* A step that reads, stores and posts no balance; the account may move on.
AgesStay ==
  /\ UNCHANGED <<queue, shown, balance, reading>>
  /\ Age(account) <= Age(account')
  /\ \A i \in Jobs : place'[i] \in Holding => place[i] \in Holding

LEMMA StayKeepsAges ==
  ASSUME TypeOK, TypeOK', AgeInv, AgesStay
  PROVE  AgeInv'
  <1>. DEFINE a == Age(account)
              b == Age(account')
  <1>1. a \in Nat /\ b \in Nat /\ a <= b
    BY AgeIsNat DEF AgesStay, TypeOK, Readings
  <1>2. /\ Age(balance) \in Nat /\ Age(balance) <= a
        /\ \A i \in Jobs : Age(reading[i]) \in Nat
        /\ \A i \in Jobs : place[i] \in Holding =>
             Age(balance) <= Age(reading[i]) /\ Age(reading[i]) <= a
    BY AgesAreNat DEF AgeInv
  <1>3. /\ Age(balance) <= b
        /\ \A i \in Jobs : place'[i] \in Holding =>
             Age(balance) <= Age(reading[i]) /\ Age(reading[i]) <= b
    <2>. HIDE DEF a, b
    <2>. QED
      BY <1>1, <1>2 DEF AgesStay
  <1>. QED
    BY <1>3 DEF AgesStay, AgeInv

\* A job reads the account.
LEMMA ReadKeepsAges ==
  ASSUME TypeOK, AgeInv, NEW j \in Jobs, NEW p, Go(j, p),
         reading' = [reading EXCEPT ![j] = account],
         UNCHANGED <<queue, shown, balance, account>>
  PROVE  AgeInv'
  <1>1. /\ \A i \in Jobs : place'[i] = IF i = j THEN p ELSE place[i]
        /\ \A i \in Jobs : reading'[i] = IF i = j THEN account ELSE reading[i]
    BY DEF Go, TypeOK
  <1>2. Age(balance) <= Age(account) /\ Age(account) <= Age(account)
    BY AgesAreNat DEF AgeInv
  <1>. QED
    BY <1>1, <1>2 DEF AgeInv

\* A job stores what it has read: nobody else holds a reading then.
LEMMA StoreKeepsAges ==
  ASSUME TypeOK, MutexInv, AgeInv, NEW j \in Jobs, NEW p, p \notin Holding,
         place[j] \in Holding, BalanceStored(j, p)
  PROVE  AgeInv'
  <1>1. /\ \A i \in Jobs : place'[i] = IF i = j THEN p ELSE place[i]
        /\ balance' = reading[j]
        /\ UNCHANGED <<queue, shown, account>>
    BY DEF BalanceStored, Go, TypeOK, page, server
  <1>2. \A i \in Jobs : place'[i] \notin Holding
    BY <1>1 DEF MutexInv, Holding, Unlocked
  <1>. DEFINE old == Age(balance)
              new == Age(reading[j])
  <1>3. /\ old \in Nat /\ new \in Nat /\ old <= new /\ new <= Age(account)
        /\ Age(shown) \in Nat /\ Age(shown) <= old
        /\ \A k \in DOMAIN queue : ~IsResult(queue[k]) =>
             Age(queue[k].snapshot) \in Nat /\ Age(queue[k].snapshot) <= old
    BY AgesAreNat DEF AgeInv
  <1>4. /\ Age(shown) <= new
        /\ \A k \in DOMAIN queue : ~IsResult(queue[k]) => Age(queue[k].snapshot) <= new
    <2>. HIDE DEF old, new
    <2>. QED
      BY <1>3
  <1>. QED
    BY <1>1, <1>2, <1>3, <1>4 DEF AgeInv

\* A job posts the manager's balance, or a result.
LEMMA PostKeepsAges ==
  ASSUME TypeOK, AgeInv, NEW j \in Jobs, ReportOrder(j) \/ PostBalance(j)
  PROVE  AgeInv'
  <1>1. PICK m \in Messages, p \in Reported :
          /\ Post(j, m, p)
          /\ IsResult(m) \/ m.snapshot = balance
    <2>1. CASE ReportOrder(j)
      <3>1. Result(j, j \in succeeded) \in Messages /\ IsResult(Result(j, j \in succeeded))
        BY DEF Result, Messages, IsResult
      <3>. QED
        BY <2>1, <3>1 DEF ReportOrder, Reported
    <2>2. CASE PostBalance(j)
      <3>1. Balance(balance) \in Messages /\ Balance(balance).snapshot = balance
        BY DEF Balance, Messages, TypeOK
      <3>. QED
        BY <2>2, <3>1 DEF PostBalance, Reported
    <2>. QED
      BY <2>1, <2>2
  <1>2. /\ \A i \in Jobs : place'[i] = IF i = j THEN p ELSE place[i]
        /\ p \notin Holding
        /\ UNCHANGED <<shown, balance, reading, account>>
    BY <1>1 DEF Post, Go, TypeOK, page, manager, server, Reported, Holding
  <1>3. /\ queue \in Seq(Messages) /\ Len(queue) \in Nat /\ DOMAIN queue = 1 .. Len(queue)
        /\ \A k \in DOMAIN queue : k \in DOMAIN queue' /\ queue'[k] = queue[k]
        /\ \A k \in DOMAIN queue' : \/ k \in DOMAIN queue
                                    \/ (k = Len(queue) + 1 /\ queue'[k] = m)
    BY <1>1, AppendToSeq DEF Post, TypeOK
  <1>4. /\ Age(shown) <= Age(balance) /\ Age(balance) <= Age(balance)
        /\ \A i \in Jobs : place'[i] \in Holding => place[i] \in Holding
    BY <1>2, AgesAreNat DEF AgeInv
  <1>5. \A k \in DOMAIN queue' : ~IsResult(queue'[k]) =>
          /\ Age(shown) <= Age(queue'[k].snapshot)
          /\ Age(queue'[k].snapshot) <= Age(balance)
    BY <1>1, <1>3, <1>4 DEF AgeInv
  <1>6. \A k, l \in DOMAIN queue' :
          ~IsResult(queue'[k]) /\ ~IsResult(queue'[l]) /\ k < l
            => Age(queue'[k].snapshot) <= Age(queue'[l].snapshot)
    <2>1. SUFFICES ASSUME NEW k \in DOMAIN queue', NEW l \in DOMAIN queue',
                          ~IsResult(queue'[k]), ~IsResult(queue'[l]), k < l
                   PROVE  Age(queue'[k].snapshot) <= Age(queue'[l].snapshot)
      OBVIOUS
    <2>2. CASE l \in DOMAIN queue
      <3>1. k \in DOMAIN queue
        BY <1>3, <2>1, <2>2
      <3>. QED
        BY <1>3, <2>1, <2>2, <3>1 DEF AgeInv
    <2>3. CASE l \notin DOMAIN queue
      <3>1. queue'[l].snapshot = balance
        BY <1>1, <1>3, <2>1, <2>3
      <3>. QED
        BY <1>5, <2>1, <3>1
    <2>. QED
      BY <2>2, <2>3
  <1>. QED
    BY <1>2, <1>4, <1>5, <1>6 DEF AgeInv, IsResult

\* The page takes a message: what it shows becomes no older.
LEMMA HearKeepsAges ==
  ASSUME TypeOK, AgeInv, PageHears
  PROVE  /\ AgeInv'
         /\ shown' # shown /\ shown # NoSnapshot => shown'.version >= shown.version
  <1>0. PICK m \in Messages : m = Head(queue) /\ m = queue[1]
    BY TailOfSeq DEF PageHears, LoadOrderResult, LoadBalance, TypeOK
  <1>1. /\ queue # << >> /\ queue' = Tail(queue)
        /\ UNCHANGED <<place, balance, reading, account>>
        /\ \/ UNCHANGED shown
           \/ (shown' = m.snapshot /\ ~IsResult(m))
    BY <1>0 DEF PageHears, LoadOrderResult, LoadBalance, server, manager, job, IsResult
  <1>2. /\ 1 \in DOMAIN queue
        /\ \A k \in DOMAIN queue' : /\ k + 1 \in DOMAIN queue /\ 1 < k + 1
                                   /\ queue'[k] = queue[k + 1]
        /\ \A k, l \in DOMAIN queue' : k < l => k + 1 < l + 1
    BY <1>1, TailOfSeq DEF TypeOK
  <1>3. /\ \A k \in DOMAIN queue' : ~IsResult(queue'[k]) =>
             /\ Age(shown) <= Age(queue'[k].snapshot)
             /\ Age(queue'[k].snapshot) <= Age(balance)
             /\ ~IsResult(m) => Age(m.snapshot) <= Age(queue'[k].snapshot)
        /\ \A k, l \in DOMAIN queue' :
             ~IsResult(queue'[k]) /\ ~IsResult(queue'[l]) /\ k < l
               => Age(queue'[k].snapshot) <= Age(queue'[l].snapshot)
        /\ ~IsResult(m) => /\ Age(shown) <= Age(m.snapshot)
                           /\ Age(m.snapshot) <= Age(balance)
    BY <1>0, <1>2 DEF AgeInv
  <1>4. AgeInv'
    BY <1>1, <1>3 DEF AgeInv, IsResult
  <1>5. ASSUME shown' # shown, shown # NoSnapshot
        PROVE  shown'.version >= shown.version
    <2>1. shown' = m.snapshot /\ Age(shown) <= Age(m.snapshot)
      BY <1>1, <1>3, <1>5
    <2>2. m.snapshot \in Readings /\ shown \in Snapshots
      <3>1. ~IsResult(m)
        BY <1>1, <1>5
      <3>. QED
        BY <1>5, <3>1 DEF Messages, IsResult, Readings, TypeOK
    <2>3. shown.version \in Nat /\ Age(shown) = shown.version + 1
      BY <1>5, <2>2 DEF Snapshots, Age
    <2>4. m.snapshot # NoSnapshot
      BY <2>1, <2>3 DEF Age
    <2>5. m.snapshot.version \in Nat /\ Age(m.snapshot) = m.snapshot.version + 1
      BY <2>2, <2>4 DEF Readings, Snapshots, Age
    <2>. QED
      BY <2>1, <2>3, <2>5
  <1>. QED
    BY <1>4, <1>5

LEMMA JobsKeepAges ==
  ASSUME TypeOK, TypeOK', MutexInv, AgeInv, NEW j \in Jobs,
         SubmitOrder(j) \/ SaveCredentials(j) \/ JobProceeds(j) \/ StreamStops(j)
  PROVE  AgeInv' /\ UNCHANGED shown
  <1>0. Age(account) <= Age(account)
    BY AgesAreNat
  \* What a step that moves a job elsewhere than to a reading leaves alone.
  <1>1. ASSUME NEW p, p \notin Holding, Go(j, p),
               UNCHANGED <<queue, shown, balance, reading, account>>
        PROVE  AgeInv' /\ UNCHANGED shown
    <2>1. \A i \in Jobs : place'[i] \in Holding => place[i] \in Holding
      BY <1>1 DEF Go, TypeOK
    <2>. QED
      BY <1>0, <1>1, <2>1, StayKeepsAges DEF AgesStay
  <1>2. ASSUME NEW p, p \notin Holding, Moves(j, p)
        PROVE  AgeInv' /\ UNCHANGED shown
    BY <1>1, <1>2 DEF Moves, page, manager, server
  <1>3. CASE SubmitOrder(j) \/ SaveCredentials(j)
    BY <1>1, <1>2, <1>3 DEF SubmitOrder, SaveCredentials, manager, server, Holding
  <1>4. CASE Lock(j)
    <2>1. AfterLock(place[j]) \notin Holding
      BY <1>4 DEF Lock, AfterLock, Holding
    <2>. QED
      BY <1>1, <1>4, <2>1 DEF Lock, page, manager, server
  <1>5. CASE Ordering(j)
    <2>1. CASE OrderRefused(j) \/ TokenEnsured(j) \/ OrderFails(j)
      BY <1>2, <2>1 DEF OrderRefused, TokenEnsured, OrderFails, Holding
    <2>2. CASE TokenExpired(j) \/ TokenRefreshed(j) \/ AnswerLost(j)
      BY <1>2, <2>2 DEF TokenExpired, TokenRefreshed, AnswerLost, Holding
    <2>3. CASE OrderAccepted(j)
      <3>1. account'.version = account.version + 1 /\ account \in Snapshots /\ account' \in Snapshots
        BY <2>3 DEF OrderAccepted, TypeOK
      <3>2. Age(account) <= Age(account')
        BY <3>1, NoSnapshotIsNone DEF Age, Snapshots
      <3>3. \A i \in Jobs : place'[i] \in Holding => place[i] \in Holding
        BY <2>3 DEF OrderAccepted, Go, TypeOK, Holding
      <3>. QED
        BY <2>3, <3>2, <3>3, StayKeepsAges DEF OrderAccepted, AgesStay, page, manager
    <2>4. CASE AnswerArrives(j)
      BY <1>1, <2>4 DEF AnswerArrives, page, manager, server, Holding
    <2>5. CASE UpdateBalanceAfterOrder(j)
      <3>1. CASE BalanceCached(j, "report")
        BY <1>2, <3>1 DEF BalanceCached, Holding
      <3>2. CASE BalanceRead(j, "balance_read")
        BY <3>2, ReadKeepsAges DEF BalanceRead, page, manager, server
      <3>3. CASE BalanceFails(j, "report")
        BY <1>1, <3>3 DEF BalanceFails, page, manager, server, Holding
      <3>4. CASE place[j] = "balance_read" /\ BalanceStored(j, "report")
        BY <3>4, StoreKeepsAges DEF BalanceStored, page, Holding
      <3>. QED
        BY <2>5, <3>1, <3>2, <3>3, <3>4 DEF UpdateBalanceAfterOrder
    <2>6. CASE ReportOrder(j)
      BY <2>6, PostKeepsAges DEF ReportOrder, Post, page
    <2>. QED
      BY <1>5, <2>1, <2>2, <2>3, <2>4, <2>5, <2>6 DEF Ordering
  <1>6. CASE Refreshing(j)
    <2>1. CASE SaveVerified(j)
      BY <2>1, ReadKeepsAges DEF SaveVerified, page, manager, server
    <2>2. CASE SaveStored(j)
      <3>1. \A i \in Jobs : place'[i] \in Holding => place[i] \in Holding
        BY <2>2 DEF SaveStored, Moves, Go, TypeOK, Holding
      <3>. QED
        BY <1>0, <2>2, <3>1, StayKeepsAges DEF SaveStored, Moves, AgesStay, page, manager, server
    <2>3. CASE SaveFails(j) \/ RefreshFails(j)
      BY <1>1, <2>3 DEF SaveFails, RefreshFails, Leave, page, manager, server, Holding
    <2>4. CASE Initialized(j)
      BY <1>2, <2>4 DEF Initialized, Holding
    <2>5. CASE UpdateBalance(j)
      <3>1. CASE BalanceCached(j, "post_balance")
        BY <1>2, <3>1 DEF BalanceCached, Holding
      <3>2. CASE BalanceRead(j, "refresh_read")
        BY <3>2, ReadKeepsAges DEF BalanceRead, page, manager, server
      <3>3. CASE place[j] = "refresh_read" /\ BalanceStored(j, "post_balance")
        BY <3>3, StoreKeepsAges DEF BalanceStored, page, Holding
      <3>. QED
        BY <2>5, <3>1, <3>2, <3>3 DEF UpdateBalance
    <2>. QED
      BY <1>6, <2>1, <2>2, <2>3, <2>4, <2>5 DEF Refreshing
  <1>7. CASE PostBalance(j)
    BY <1>7, PostKeepsAges DEF PostBalance, Post, page
  <1>8. CASE StreamStops(j)
    <2>1. CASE StartupStopped(j)
      BY <1>2, <2>1 DEF StartupStopped, Holding
    <2>2. CASE SaveCommitted(j)
      BY <2>2, StoreKeepsAges DEF SaveCommitted, BalanceStored, page, Holding
    <2>. QED
      BY <1>8, <2>1, <2>2 DEF StreamStops
  <1>. QED
    BY <1>3, <1>4, <1>5, <1>6, <1>7, <1>8 DEF JobProceeds

LEMMA NextAges ==
  ASSUME TypeOK, TypeOK', MutexInv, AgeInv, [Next]_vars
  PROVE  /\ AgeInv'
         /\ shown' # shown /\ shown # NoSnapshot => shown'.version >= shown.version
  <1>1. CASE \E j \in Jobs :
               SubmitOrder(j) \/ SaveCredentials(j) \/ JobProceeds(j) \/ StreamStops(j)
    BY <1>1, JobsKeepAges
  <1>2. CASE PageHears
    BY <1>2, HearKeepsAges
  <1>3. CASE Fill \/ CacheExpires \/ UNCHANGED vars
    <2>1. Age(account) <= Age(account')
      <3>1. CASE Fill
        <4>1. /\ account'.version = account.version + 1
              /\ account \in Snapshots /\ account' \in Snapshots
          BY <3>1 DEF Fill, TypeOK
        <4>. QED
          BY <4>1, NoSnapshotIsNone DEF Age, Snapshots
      <3>2. CASE UNCHANGED account
        BY <3>2, AgesAreNat
      <3>. QED
        BY <1>3, <3>1, <3>2 DEF CacheExpires, vars, server
    <2>2. UNCHANGED <<queue, shown, balance, reading, place>>
      BY <1>3 DEF Fill, CacheExpires, vars, page, manager, job
    <2>. QED
      BY <2>1, <2>2, StayKeepsAges DEF AgesStay
  <1>. QED
    BY <1>1, <1>2, <1>3 DEF Next

-----------------------------------------------------------------------------
\* The balance on the page, against which a sale is checked, never goes back to
\* an earlier state of the account: all that read, store and post balances hold
\* operation_mutex from the reading to the posting.
THEOREM ShownBalanceMovesForward == Spec => ShownMovesForward
  <1>. DEFINE Inv == TypeOK /\ MutexInv /\ AgeInv
              Forward == shown' # shown /\ shown # NoSnapshot => shown'.version >= shown.version
  <1>1. Init => Inv
    BY InitTypeOK, InitAges
  <1>2. Inv /\ [Next]_vars => Inv'
    BY NextTypeOK, NextMutexInv, NextAges
  <1>3. Inv /\ [Next]_vars => [Forward]_vars
    BY NextTypeOK, NextAges
  <1>. QED
    BY <1>1, <1>2, <1>3, PTL DEF Spec, Safety, ShownMovesForward

=============================================================================
