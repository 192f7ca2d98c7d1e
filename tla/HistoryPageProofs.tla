------------------------- MODULE HistoryPageProofs -------------------------
(* Proofs about HistoryPage, for every set of stocks and ranges and every  *)
(* number of requests.                                                     *)
EXTENDS HistoryPage, TLAPS

Inv == TypeOK /\ SlotInv

-----------------------------------------------------------------------------
(* The slot *)

\* The rest of a sequence is a sequence of the same kind, one shorter.
LEMMA TailOfSeq ==
  ASSUME NEW S, NEW s \in Seq(S), s # << >>
  PROVE  /\ Head(s) \in S /\ Tail(s) \in Seq(S) /\ Len(Tail(s)) = Len(s) - 1
         /\ \A k \in 1 .. Len(s) - 1 : Tail(s)[k] = s[k + 1]
  OBVIOUS

\* What sequences of messages do in a step.
LEMMA StillSeq ==
  ASSUME NEW S, NEW s \in Seq(S), NEW t,
         t = s \/ (s # << >> /\ t = Tail(s)) \/ \E e \in S : t = Append(s, e)
  PROVE  t \in Seq(S)
  OBVIOUS

\* Whoever acts, the slot keeps its type and SlotInv.
LEMMA SlotKept ==
  ASSUME SlotTypeOK(Requests, Contents), SlotInv,
         \/ \E r \in Requests : Ask(r) /\ Unanswered
         \/ Hear /\ UNCHANGED <<asked, window, loading, worker, task, queue>>
         \/ WindowStep
         \/ \E c \in Contents \cup {NoContent} : SpawnFails(c) \/ Post(c)
         \/ EndStep
         \/ UNCHANGED slot
  PROVE  SlotTypeOK(Requests, Contents)' /\ SlotInv'
  <1>. DEFINE Rs == Replies(Requests, Contents)
  <1>1. /\ asked \in Seq(Requests) /\ queue \in Seq(Rs) /\ scripts \in Seq(Rs)
        /\ task \in Requests \cup {NoRequest}
        /\ worker = "working" => task \in Requests
        /\ window \in {"ensuring", "joining"} => asked # << >>
    BY DEF SlotTypeOK, SlotInv
  <1>2. \A r \in Requests, c \in Contents \cup {NoContent} : Reply(r, c) \in Rs
    BY DEF Reply, Replies
  <1>. HIDE DEF Rs
  <1>. USE DEF Ask, Unanswered, Hear, WindowStep, Ensure, Refuse, Accept, Spawn, Deliver,
              SpawnFails, Post, EndStep, Release, Leave, slot
  <1>3. asked' \in Seq(Requests)
    <2>1. \/ UNCHANGED asked
          \/ asked # << >> /\ asked' = Tail(asked)
          \/ \E r \in Requests : asked' = Append(asked, r)
      BY <1>1
    <2>. QED
      BY <1>1, <2>1, StillSeq
  <1>4. queue' \in Seq(Rs)
    <2>1. \/ UNCHANGED queue
          \/ queue # << >> /\ queue' = Tail(queue)
          \/ \E e \in Rs : queue' = Append(queue, e)
      <3>1. CASE \E c \in Contents \cup {NoContent} : Post(c)
        <4>1. PICK c \in Contents \cup {NoContent} : Post(c)
          BY <3>1
        <4>2. worker = "working" /\ queue' = Append(queue, Reply(task, c))
          BY <4>1
        <4>3. Reply(task, c) \in Rs
          BY <1>1, <1>2, <4>2
        <4>. QED
          BY <4>2, <4>3, Zenon
      <3>2. CASE ~ \E c \in Contents \cup {NoContent} : Post(c)
        BY <1>1, <3>2
      <3>. QED
        BY <3>1, <3>2
    <2>. QED
      BY <1>1, <2>1, StillSeq
  <1>5. scripts' \in Seq(Rs)
    <2>1. \/ UNCHANGED scripts
          \/ scripts # << >> /\ scripts' = Tail(scripts)
          \/ \E e \in Rs : scripts' = Append(scripts, e)
      BY <1>1, <1>2, TailOfSeq
    <2>. QED
      BY <1>1, <2>1, StillSeq
  <1>6. /\ window' \in {"free", "ensuring", "joining"} /\ loading' \in BOOLEAN
        /\ worker' \in WorkerPlaces /\ task' \in Requests \cup {NoRequest}
    BY <1>1, TailOfSeq
    DEF SlotTypeOK, WorkerPlaces
  <1>7. SlotInv'
    <2>1. window' = "joining" => /\ loading' /\ asked' # << >>
                                 /\ worker' \in {"none", "leaving", "ended"}
      <3>1. CASE \E r \in Requests : Ask(r) /\ Unanswered
        BY <1>1, <3>1 DEF SlotInv
      <3>2. CASE ~ \E r \in Requests : Ask(r) /\ Unanswered
        BY <1>1, <3>2 DEF SlotInv, SlotTypeOK, WorkerPlaces
      <3>. QED
        BY <3>1, <3>2
    <2>2. worker' \in {"working", "posted"} => loading'
      BY DEF SlotInv
    <2>3. window' = "ensuring" => asked' # << >>
      BY <1>1, TailOfSeq DEF SlotInv, SlotTypeOK
    <2>4. worker' = "working" => task' # NoRequest
      BY <1>1, TailOfSeq, NothingIsNone DEF SlotInv
    <2>. QED
      BY <2>1, <2>2, <2>3, <2>4 DEF SlotInv
  <1>. QED
    BY <1>3, <1>4, <1>5, <1>6, <1>7 DEF SlotTypeOK, Rs

\* A slot begins with nothing asked.
LEMMA SlotStarts ==
  ASSUME SlotInit
  PROVE  SlotTypeOK(Requests, Contents) /\ SlotInv
  <1>1. /\ asked \in Seq(Requests)
        /\ queue \in Seq(Replies(Requests, Contents)) /\ scripts \in Seq(Replies(Requests, Contents))
    BY DEF SlotInit
  <1>. QED
    BY <1>1 DEF SlotInit, SlotTypeOK, SlotInv, WorkerPlaces

-----------------------------------------------------------------------------
LEMMA InitInv == Init => Inv
  <1>. SUFFICES ASSUME Init
                PROVE  Inv
    OBVIOUS
  <1>1. SlotTypeOK(Requests, Contents) /\ SlotInv
    BY SlotStarts DEF Init
  <1>2. made \in 0 .. MaxRequests
    BY HistoryConstants DEF Init
  <1>3. real \in Holdings /\ manual \in Holdings /\ range \in Ranges
    BY HistoryConstants DEF Init, Holdings
  <1>4. /\ historyLoading \in BOOLEAN /\ live \in BOOLEAN
        /\ history \in Histories \cup {NoContent}
    BY DEF Init
  <1>. QED
    BY <1>1, <1>2, <1>3, <1>4 DEF Inv, TypeOK

\* Whoever changes the holdings or the range asks for what is then in effect.
LEMMA RequestKeepsInv ==
  ASSUME Inv, real' \in Holdings, manual' \in Holdings, range' \in Ranges,
         history' \in Histories \cup {NoContent}, live' \in BOOLEAN,
         RequestHistory
  PROVE  Inv'
  <1>1. made' \in 0 .. MaxRequests /\ historyLoading' \in BOOLEAN
    <2>1. made \in 0 .. MaxRequests /\ historyLoading \in BOOLEAN /\ made < MaxRequests
      BY DEF RequestHistory, Inv, TypeOK
    <2>2. \/ made' = made + 1 /\ historyLoading' = TRUE
          \/ made' = made /\ historyLoading' = historyLoading
      BY DEF RequestHistory
    <2>3. made' \in 0 .. MaxRequests
      BY <2>1, <2>2, HistoryConstants
    <2>. QED
      BY <2>1, <2>2, <2>3
  <1>2. SlotTypeOK(Requests, Contents)' /\ SlotInv'
    <2>1. CASE real' \cup manual' = {}
      BY <2>1, SlotKept DEF RequestHistory, Unanswered, slot, Inv, TypeOK
    <2>2. CASE real' \cup manual' # {}
      <3>. DEFINE r == [range |-> range', holdings |-> real' \cup manual']
      <3>1. r \in Requests
        BY <2>2 DEF Requests, Holdings
      <3>2. Ask(r) /\ Unanswered
        BY <2>2 DEF RequestHistory
      <3>. QED
        BY <3>1, <3>2, SlotKept DEF Inv, TypeOK
    <2>. QED
      BY <2>1, <2>2
  <1>. QED
    BY <1>1, <1>2 DEF Inv, TypeOK

LEMMA NextInv == Inv /\ [Next]_vars => Inv'
  <1>. SUFFICES ASSUME Inv, [Next]_vars
                PROVE  Inv'
    OBVIOUS
  <1>1. ASSUME NEW r \in Ranges, SelectRange(r)
        PROVE  Inv'
    BY <1>1, RequestKeepsInv DEF SelectRange, Inv, TypeOK
  <1>2. ASSUME NEW stocks \in Holdings, EditManual(stocks)
        PROVE  Inv'
    BY <1>2, RequestKeepsInv DEF EditManual, trend, Inv, TypeOK
  <1>3. ASSUME NEW stocks \in Holdings, LoadBalance(stocks)
        PROVE  Inv'
    BY <1>3, RequestKeepsInv DEF LoadBalance, Inv, TypeOK
  <1>4. CASE PushTrend
    <2>1. SlotTypeOK(Requests, Contents)' /\ SlotInv'
      BY <1>4, SlotKept DEF PushTrend, Inv, TypeOK
    <2>. QED
      BY <1>4, <2>1 DEF PushTrend, Inv, TypeOK
  <1>5. CASE LoadHistory
    <2>1. SlotTypeOK(Requests, Contents)' /\ SlotInv'
      BY <1>5, SlotKept DEF LoadHistory, Inv, TypeOK
    <2>2. Head(scripts) \in Replies(Requests, Contents)
      BY <1>5, TailOfSeq DEF LoadHistory, Hear, Inv, TypeOK, SlotTypeOK, Replies
    <2>3. history' \in Histories \cup {NoContent}
      BY <1>5, <2>2 DEF LoadHistory, Succeeded, Replies, Contents, Histories
    <2>. QED
      BY <1>5, <2>1, <2>3 DEF LoadHistory, Inv, TypeOK
  <1>6. ASSUME UNCHANGED page, SlotTypeOK(Requests, Contents)', SlotInv'
        PROVE  Inv'
    BY <1>6 DEF page, trend, Inv, TypeOK
  <1>7. CASE WindowActs
    <2>1. SlotTypeOK(Requests, Contents)' /\ SlotInv'
      BY <1>7, NothingIsNone, SlotKept
      DEF WindowActs, Inv, TypeOK
    <2>. QED
      BY <1>6, <1>7, <2>1 DEF WindowActs
  <1>8. CASE WorkerActs
    <2>1. CASE LoadBars
      <3>1. PICK loaded \in SUBSET task.holdings :
                Post(IF loaded = task.holdings THEN [loaded |-> loaded] ELSE NoContent)
        BY <2>1 DEF LoadBars
      <3>2. task \in Requests
        BY <2>1 DEF LoadBars, Inv, TypeOK, SlotTypeOK, SlotInv
      <3>3. [loaded |-> loaded] \in Contents
        BY <3>2 DEF Requests, Contents, Holdings
      <3>4. SlotTypeOK(Requests, Contents)' /\ SlotInv'
        BY <3>1, <3>3, SlotKept DEF Inv, TypeOK
      <3>. QED
        BY <1>6, <2>1, <3>4 DEF LoadBars
    <2>2. CASE LoadFails
      BY <1>6, <2>2, SlotKept DEF LoadFails, Inv, TypeOK
    <2>3. CASE EndStep /\ UNCHANGED page
      BY <1>6, <2>3, SlotKept DEF Inv, TypeOK
    <2>. QED
      BY <1>8, <2>1, <2>2, <2>3 DEF WorkerActs
  <1>9. CASE UNCHANGED vars
    BY <1>6, <1>9, SlotKept DEF vars, Inv, TypeOK
  <1>. QED
    BY <1>1, <1>2, <1>3, <1>4, <1>5, <1>7, <1>8, <1>9 DEF Next, UserActs

-----------------------------------------------------------------------------
\* Every variable keeps to its type, among them the messages in both
\* directions: no reply is about anything but a request the page made.
THEOREM TypeCorrect == Spec => []TypeOK
  <1>1. Inv => TypeOK
    BY DEF Inv
  <1>. QED
    BY <1>1, InitInv, NextInv, PTL DEF Spec, Safety

\* The window thread joins a worker only when that worker has left the server
\* behind: the flag that lets a request pass is reset after the message is
\* posted.
THEOREM JoinedWorkerIsLeaving == Spec => []JoinsOnlyLeavingWorker
  <1>1. Inv => JoinsOnlyLeavingWorker
    BY DEF Inv, SlotInv, JoinsOnlyLeavingWorker
  <1>. QED
    BY <1>1, InitInv, NextInv, PTL DEF Spec, Safety

=============================================================================
