-------------------------- MODULE QuotePageProofs --------------------------
(***************************************************************************)
(* Proofs about QuotePage, for every set of tickers and exchanges and      *)
(* every number of requests.                                               *)
(***************************************************************************)
EXTENDS QuotePage, TLAPS

\* The trade form waits only for something it asked for, which is under way.
WaitInv == tradeLoading => request # NoRequest /\ Answering(request)

Inv == TypeOK /\ SlotInv /\ TradeQuoteIsRequested /\ WaitInv

ReplyOK == Replies(Instruments, Contents)

-----------------------------------------------------------------------------
(* The slot *)

\* The rest of a sequence is a sequence of the same kind, one shorter.
LEMMA TailOfSeq ==
  ASSUME NEW S, NEW s \in Seq(S), s # << >>
  PROVE  /\ Head(s) \in S /\ Tail(s) \in Seq(S) /\ Len(Tail(s)) = Len(s) - 1
         /\ \A k \in 1 .. Len(s) - 1 : Tail(s)[k] = s[k + 1]
  OBVIOUS

\* Appending keeps what was there.
LEMMA AppendToSeq ==
  ASSUME NEW S, NEW s \in Seq(S), NEW e \in S
  PROVE  /\ Append(s, e) \in Seq(S) /\ Len(Append(s, e)) = Len(s) + 1
         /\ Append(s, e) # << >>
         /\ Append(s, e)[Len(s) + 1] = e
         /\ \A k \in 1 .. Len(s) : Append(s, e)[k] = s[k]
  OBVIOUS

\* A reply is typed when its parts are.
LEMMA ReplyTyped ==
  ASSUME NEW r \in Instruments, NEW c \in Contents \cup {NoContent}
  PROVE  Reply(r, c) \in Replies(Instruments, Contents)
  BY DEF Reply, Replies

\* What sequences of messages do in a step.
LEMMA StillSeq ==
  ASSUME NEW S, NEW s \in Seq(S), NEW t,
         t = s \/ (s # << >> /\ t = Tail(s)) \/ \E e \in S : t = Append(s, e)
  PROVE  t \in Seq(S)
  OBVIOUS

\* Whoever acts, the slot keeps its type and SlotInv.
LEMMA SlotKept ==
  ASSUME SlotTypeOK(Instruments, Contents), SlotInv,
         \/ \E r \in Instruments : Ask(r) /\ Unanswered
         \/ Hear /\ UNCHANGED <<asked, window, loading, worker, task, queue>>
         \/ WindowStep
         \/ \E c \in Contents \cup {NoContent} : SpawnFails(c) \/ Post(c)
         \/ EndStep
         \/ UNCHANGED slot
  PROVE  SlotTypeOK(Instruments, Contents)' /\ SlotInv'
  <1>. DEFINE Rs == Replies(Instruments, Contents)
  <1>1. /\ asked \in Seq(Instruments) /\ queue \in Seq(Rs) /\ scripts \in Seq(Rs)
        /\ task \in Instruments \cup {NoRequest}
        /\ worker = "working" => task \in Instruments
        /\ window \in {"ensuring", "joining"} => asked # << >>
    BY DEF SlotTypeOK, SlotInv
  <1>2. \A r \in Instruments, c \in Contents \cup {NoContent} : Reply(r, c) \in Rs
    BY DEF Reply, Replies
  <1>. HIDE DEF Rs
  <1>. USE DEF Ask, Unanswered, Hear, WindowStep, Ensure, Refuse, Accept, Spawn, Deliver,
              SpawnFails, Post, EndStep, Release, Leave, slot
  <1>3. asked' \in Seq(Instruments)
    <2>1. \/ UNCHANGED asked
          \/ asked # << >> /\ asked' = Tail(asked)
          \/ \E r \in Instruments : asked' = Append(asked, r)
      BY <1>1
    <2>. QED
      BY <1>1, <2>1, StillSeq
  <1>4. queue' \in Seq(Rs)
    <2>1. \/ UNCHANGED queue
          \/ queue # << >> /\ queue' = Tail(queue)
          \/ \E e \in Rs : queue' = Append(queue, e)
      <3>1. CASE \E c \in Contents \cup {NoContent} : Post(c)
        <4>1. PICK c \in Contents \cup {NoContent} : Post(c)
          BY <3>1
        <4>2. worker = "working" /\ queue' = Append(queue, Reply(task, c))
          BY <4>1
        <4>3. Reply(task, c) \in Rs
          BY <1>1, <1>2, <4>2
        <4>. QED
          BY <4>2, <4>3, Zenon
      <3>2. CASE ~ \E c \in Contents \cup {NoContent} : Post(c)
        BY <1>1, <3>2
      <3>. QED
        BY <3>1, <3>2
    <2>. QED
      BY <1>1, <2>1, StillSeq
  <1>5. scripts' \in Seq(Rs)
    <2>1. \/ UNCHANGED scripts
          \/ scripts # << >> /\ scripts' = Tail(scripts)
          \/ \E e \in Rs : scripts' = Append(scripts, e)
      BY <1>1, <1>2, TailOfSeq
    <2>. QED
      BY <1>1, <2>1, StillSeq
  <1>6. /\ window' \in {"free", "ensuring", "joining"} /\ loading' \in BOOLEAN
        /\ worker' \in WorkerPlaces /\ task' \in Instruments \cup {NoRequest}
    BY <1>1, TailOfSeq
    DEF SlotTypeOK, WorkerPlaces
  <1>7. SlotInv'
    <2>1. window' = "joining" => /\ loading' /\ asked' # << >>
                                 /\ worker' \in {"none", "leaving", "ended"}
      <3>1. CASE \E r \in Instruments : Ask(r) /\ Unanswered
        BY <1>1, <3>1 DEF SlotInv
      <3>2. CASE ~ \E r \in Instruments : Ask(r) /\ Unanswered
        BY <1>1, <3>2 DEF SlotInv, SlotTypeOK, WorkerPlaces
      <3>. QED
        BY <3>1, <3>2
    <2>2. worker' \in {"working", "posted"} => loading'
      BY DEF SlotInv
    <2>3. window' = "ensuring" => asked' # << >>
      BY <1>1, TailOfSeq DEF SlotInv, SlotTypeOK
    <2>4. worker' = "working" => task' # NoRequest
      BY <1>1, TailOfSeq, QuoteConstants DEF SlotInv
    <2>. QED
      BY <2>1, <2>2, <2>3, <2>4 DEF SlotInv
  <1>. QED
    BY <1>3, <1>4, <1>5, <1>6, <1>7 DEF SlotTypeOK, Rs

\* A slot begins with nothing asked.
LEMMA SlotStarts ==
  ASSUME SlotInit
  PROVE  SlotTypeOK(Instruments, Contents) /\ SlotInv
  <1>1. /\ asked \in Seq(Instruments)
        /\ queue \in Seq(Replies(Instruments, Contents)) /\ scripts \in Seq(Replies(Instruments, Contents))
    BY DEF SlotInit
  <1>. QED
    BY <1>1 DEF SlotInit, SlotTypeOK, SlotInv, WorkerPlaces

-----------------------------------------------------------------------------
(* A request on its way stays there, or its reply does *)

LEMMA AskAnswers ==
  ASSUME NEW r \in Instruments, asked \in Seq(Instruments), Ask(r), Unanswered
  PROVE  /\ Answering(r)'
         /\ \A i \in Instruments : Answering(i) => Answering(i)'
  <1>1. /\ Len(asked') = Len(asked) + 1 /\ asked'[Len(asked) + 1] = r
        /\ asked' \in Seq(Instruments)
        /\ \A k \in DOMAIN asked : asked'[k] = asked[k] /\ k \in DOMAIN asked'
    BY AppendToSeq DEF Ask
  <1>. QED
    BY <1>1 DEF Answering, Unanswered

\* Only the reply that the page takes is no longer on its way.
LEMMA HearAnswers ==
  ASSUME scripts \in Seq(ReplyOK), Hear,
         UNCHANGED <<asked, window, loading, worker, task, queue>>
  PROVE  /\ Head(scripts) \in ReplyOK
         /\ \A i \in Instruments :
              Answering(i) /\ Head(scripts).request # i => Answering(i)'
  <1>1. /\ Head(scripts) \in ReplyOK /\ scripts' \in Seq(ReplyOK)
        /\ Len(scripts') = Len(scripts) - 1
        /\ \A k \in 1 .. Len(scripts) - 1 : scripts'[k] = scripts[k + 1]
    BY TailOfSeq DEF Hear
  <1>2. ASSUME NEW k \in DOMAIN scripts, scripts[k] # Head(scripts)
        PROVE  k - 1 \in DOMAIN scripts' /\ scripts'[k - 1] = scripts[k]
    BY <1>1, <1>2
  <1>. QED
    BY <1>1, <1>2 DEF Answering

\* The oldest message of the page leaves with its reply, or to a worker.
LEMMA AskedMoves ==
  ASSUME NEW i \in Instruments, asked \in Seq(Instruments), asked # << >>,
         asked' = Tail(asked),
         NEW k \in DOMAIN asked, asked[k] = i, i # Head(asked)
  PROVE  \E n \in DOMAIN asked' : asked'[n] = i
  <1>1. /\ asked' \in Seq(Instruments) /\ Len(asked') = Len(asked) - 1
        /\ \A n \in 1 .. Len(asked) - 1 : asked'[n] = asked[n + 1]
    BY TailOfSeq
  <1>2. k - 1 \in DOMAIN asked' /\ asked'[k - 1] = i
    BY <1>1
  <1>. QED
    BY <1>2

\* Replies that are appended to the scripts.
LEMMA ScriptsGrow ==
  ASSUME NEW e \in ReplyOK, scripts \in Seq(ReplyOK), scripts' = Append(scripts, e)
  PROVE  /\ \E k \in DOMAIN scripts' : scripts'[k] = e
         /\ \A k \in DOMAIN scripts : k \in DOMAIN scripts' /\ scripts'[k] = scripts[k]
  <1>1. /\ scripts' \in Seq(ReplyOK) /\ Len(scripts') = Len(scripts) + 1
        /\ scripts'[Len(scripts) + 1] = e
        /\ \A k \in 1 .. Len(scripts) : scripts'[k] = scripts[k]
    BY AppendToSeq
  <1>. QED
    BY <1>1

LEMMA WindowAnswers ==
  ASSUME SlotTypeOK(Instruments, Contents), SlotInv,
         WindowStep \/ SpawnFails("exception"),
         NEW i \in Instruments, Answering(i)
  PROVE  Answering(i)'
  <1>1. /\ asked \in Seq(Instruments)
        /\ queue \in Seq(ReplyOK) /\ scripts \in Seq(ReplyOK)
    BY DEF SlotTypeOK, ReplyOK, Replies
  <1>2. ASSUME NEW c \in Contents \cup {NoContent}, asked # << >>,
               asked' = Tail(asked), scripts' = Append(scripts, Reply(Head(asked), c)),
               UNCHANGED <<worker, task, queue>>
        PROVE  Answering(i)'
    <2>1. Reply(Head(asked), c) \in ReplyOK /\ Reply(Head(asked), c).request = Head(asked)
      BY <1>1, <1>2, TailOfSeq, ReplyTyped DEF ReplyOK, Reply
    <2>2. /\ \E k \in DOMAIN scripts' : scripts'[k].request = Head(asked)
          /\ \A k \in DOMAIN scripts : k \in DOMAIN scripts' /\ scripts'[k] = scripts[k]
      BY <1>1, <1>2, <2>1, ScriptsGrow
    <2>3. ASSUME NEW k \in DOMAIN asked, asked[k] = i, i # Head(asked)
          PROVE  \E n \in DOMAIN asked' : asked'[n] = i
      BY <1>1, <1>2, <2>3, AskedMoves
    <2>. QED
      BY <1>2, <2>2, <2>3 DEF Answering
  <1>3. CASE Refuse
    BY <1>2, <1>3 DEF Refuse
  <1>4. CASE Ensure \/ Accept
    BY <1>4 DEF Ensure, Accept, Answering
  <1>5. CASE Spawn
    <2>1. worker # "working" /\ asked # << >>
      BY <1>5 DEF Spawn, SlotInv
    <2>2. ASSUME NEW k \in DOMAIN asked, asked[k] = i, i # Head(asked)
          PROVE  \E n \in DOMAIN asked' : asked'[n] = i
      BY <1>1, <1>5, <2>1, <2>2, AskedMoves DEF Spawn
    <2>. QED
      BY <1>5, <2>1, <2>2 DEF Spawn, Answering
  <1>6. CASE Deliver
    <2>1. /\ queue # << >> /\ Head(queue) \in ReplyOK
          /\ queue' \in Seq(ReplyOK) /\ Len(queue') = Len(queue) - 1
          /\ \A k \in 1 .. Len(queue) - 1 : queue'[k] = queue[k + 1]
      BY <1>1, <1>6, TailOfSeq DEF Deliver
    <2>2. /\ \E k \in DOMAIN scripts' : scripts'[k] = Head(queue)
          /\ \A k \in DOMAIN scripts : k \in DOMAIN scripts' /\ scripts'[k] = scripts[k]
      BY <1>1, <1>6, <2>1, ScriptsGrow DEF Deliver
    <2>3. ASSUME NEW k \in DOMAIN queue, queue[k] # Head(queue)
          PROVE  k - 1 \in DOMAIN queue' /\ queue'[k - 1] = queue[k]
      BY <1>1, <2>1, <2>3
    <2>. QED
      BY <1>6, <2>2, <2>3 DEF Deliver, Answering
  <1>7. CASE SpawnFails("exception")
    <2>1. asked # << >> /\ "exception" \in Contents
      BY <1>7 DEF SpawnFails, SlotInv, Contents
    <2>. QED
      BY <1>2, <1>7, <2>1 DEF SpawnFails
  <1>. QED
    BY <1>3, <1>4, <1>5, <1>6, <1>7 DEF WindowStep

LEMMA WorkerAnswers ==
  ASSUME SlotTypeOK(Instruments, Contents), SlotInv,
         NEW c \in Contents \cup {NoContent}, Post(c) \/ EndStep,
         NEW i \in Instruments, Answering(i)
  PROVE  Answering(i)'
  <1>1. CASE Post(c)
    <2>1. /\ queue \in Seq(ReplyOK) /\ task \in Instruments
      BY <1>1 DEF Post, SlotTypeOK, SlotInv, ReplyOK, Replies
    <2>2. Reply(task, c) \in ReplyOK /\ Reply(task, c).request = task
      BY <2>1, ReplyTyped DEF ReplyOK, Reply
    <2>3. /\ queue' \in Seq(ReplyOK) /\ Len(queue') = Len(queue) + 1
          /\ queue'[Len(queue) + 1].request = task
          /\ \A k \in 1 .. Len(queue) : queue'[k] = queue[k]
      BY <1>1, <2>1, <2>2, AppendToSeq DEF Post
    <2>4. /\ \E k \in DOMAIN queue' : queue'[k].request = task
          /\ \A k \in DOMAIN queue : k \in DOMAIN queue' /\ queue'[k] = queue[k]
      BY <2>1, <2>3
    <2>. QED
      BY <1>1, <2>4 DEF Post, Answering
  <1>2. CASE EndStep
    BY <1>2 DEF EndStep, Release, Leave, Answering
  <1>. QED
    BY <1>1, <1>2

-----------------------------------------------------------------------------
LEMMA InitInv == Init => Inv
  <1>. SUFFICES ASSUME Init
                PROVE  Inv
    OBVIOUS
  <1>1. SlotTypeOK(Instruments, Contents) /\ SlotInv
    BY SlotStarts DEF Init
  <1>2. made \in 0 .. MaxRequests
    BY QuoteConstants DEF Init
  <1>3. quoteLoading \in BOOLEAN /\ tradeLoading \in BOOLEAN
    BY DEF Init
  <1>. QED
    BY <1>1, <1>2, <1>3 DEF Init, Inv, TypeOK, TradeQuoteIsRequested, WaitInv, Prices

\* What a request of the page does to the slot and to the others' requests.
LEMMA RequestKeepsSlot ==
  ASSUME Inv, NEW i \in Instruments, RequestQuote(i)
  PROVE  /\ SlotTypeOK(Instruments, Contents)' /\ SlotInv'
         /\ made' \in 0 .. MaxRequests
         /\ Answering(i)'
         /\ \A j \in Instruments : Answering(j) => Answering(j)'
  <1>1. SlotTypeOK(Instruments, Contents)' /\ SlotInv'
    BY SlotKept DEF RequestQuote, Inv, TypeOK
  <1>2. made' \in 0 .. MaxRequests
    BY QuoteConstants DEF RequestQuote, Inv, TypeOK
  <1>3. asked \in Seq(Instruments)
    BY DEF Inv, TypeOK, SlotTypeOK
  <1>. QED
    BY <1>1, <1>2, <1>3, AskAnswers DEF RequestQuote

\* The slot moves and the page does not.
LEMMA PageStays ==
  ASSUME Inv, UNCHANGED page, SlotTypeOK(Instruments, Contents)', SlotInv',
         \A i \in Instruments : Answering(i) => Answering(i)'
  PROVE  Inv'
  <1>1. TypeOK' /\ TradeQuoteIsRequested'
    BY DEF Inv, TypeOK, TradeQuoteIsRequested, page, trade
  <1>2. WaitInv'
    <2>1. tradeLoading' = tradeLoading /\ request' = request
      BY DEF page, trade
    <2>2. tradeLoading' => request' \in Instruments /\ Answering(request)
      BY <2>1 DEF Inv, TypeOK, WaitInv
    <2>. QED
      BY <2>1, <2>2, QuoteConstants DEF WaitInv, Answering
  <1>. QED
    BY <1>1, <1>2 DEF Inv

\* A price of the stream changes no more of a quote than its price.
LEMMA PricedTyped ==
  ASSUME NEW q \in Quotes \cup {NoContent}, NEW t \in Tickers
  PROVE  /\ Priced(q, t) \in Quotes \cup {NoContent}
         /\ Priced(q, t) # NoContent => q # NoContent /\ Priced(q, t).of = q.of
  BY QuoteConstants DEF Priced, Quotes, Prices

LEMMA NextInv == Inv /\ [Next]_vars => Inv'
  <1>. SUFFICES ASSUME Inv, [Next]_vars
                PROVE  Inv'
    OBVIOUS
  <1>1. ASSUME NEW i \in Instruments, SelectQuote(i)
        PROVE  Inv'
    <2>1. /\ SlotTypeOK(Instruments, Contents)' /\ SlotInv'
          /\ made' \in 0 .. MaxRequests
          /\ \A j \in Instruments : Answering(j) => Answering(j)'
      BY <1>1, RequestKeepsSlot DEF SelectQuote
    <2>2. selected' \in Quotes
      BY <1>1 DEF SelectQuote, Quotes, Prices
    <2>3. TypeOK' /\ TradeQuoteIsRequested'
      BY <1>1, <2>1, <2>2 DEF SelectQuote, trade, Inv, TypeOK, TradeQuoteIsRequested
    <2>4. WaitInv'
      BY <1>1, <2>1 DEF SelectQuote, trade, Inv, TypeOK, WaitInv, Answering
    <2>. QED
      BY <2>1, <2>3, <2>4 DEF Inv
  <1>2. ASSUME NEW i \in Instruments, SearchTradeQuote(i)
        PROVE  Inv'
    <2>1. /\ SlotTypeOK(Instruments, Contents)' /\ SlotInv'
          /\ made' \in 0 .. MaxRequests
          /\ Answering(i)'
      BY <1>2, RequestKeepsSlot DEF SearchTradeQuote
    <2>2. TypeOK' /\ TradeQuoteIsRequested'
      BY <1>2, <2>1 DEF SearchTradeQuote, Inv, TypeOK, TradeQuoteIsRequested, Prices
    <2>3. WaitInv'
      BY <1>2, <2>1, QuoteConstants DEF SearchTradeQuote, WaitInv, Answering
    <2>. QED
      BY <2>1, <2>2, <2>3 DEF Inv
  <1>3. CASE TypePrice
    <2>1. SlotTypeOK(Instruments, Contents)' /\ SlotInv'
      BY <1>3, SlotKept DEF TypePrice, Inv, TypeOK
    <2>2. TypeOK' /\ TradeQuoteIsRequested'
      BY <1>3, <2>1 DEF TypePrice, Inv, TypeOK, TradeQuoteIsRequested, Prices
    <2>3. WaitInv'
      BY <1>3 DEF TypePrice, slot, Inv, WaitInv, Answering
    <2>. QED
      BY <2>1, <2>2, <2>3 DEF Inv
  <1>4. ASSUME NEW t \in Tickers, UpdateStockPrice(t)
        PROVE  Inv'
    <2>1. SlotTypeOK(Instruments, Contents)' /\ SlotInv'
      BY <1>4, SlotKept DEF UpdateStockPrice, Inv, TypeOK
    <2>2. TypeOK' /\ TradeQuoteIsRequested'
      BY <1>4, <2>1, PricedTyped DEF UpdateStockPrice, Inv, TypeOK, TradeQuoteIsRequested
    <2>3. WaitInv'
      BY <1>4 DEF UpdateStockPrice, slot, Inv, WaitInv, Answering
    <2>. QED
      BY <2>1, <2>2, <2>3 DEF Inv
  <1>5. CASE LoadFailure
    <2>. DEFINE reply == Head(scripts)
    <2>1. SlotTypeOK(Instruments, Contents)' /\ SlotInv'
      BY <1>5, SlotKept DEF LoadFailure, Inv, TypeOK
    <2>2. TypeOK' /\ TradeQuoteIsRequested'
      <3>1. quoteLoading' \in BOOLEAN /\ tradeLoading' \in BOOLEAN
        BY <1>5 DEF LoadFailure
      <3>. QED
        BY <1>5, <2>1, <3>1 DEF LoadFailure, Inv, TypeOK, TradeQuoteIsRequested
    <2>3. scripts \in Seq(ReplyOK)
      BY DEF Inv, TypeOK, SlotTypeOK, ReplyOK, Replies
    <2>4. WaitInv'
      <3>1. SUFFICES ASSUME tradeLoading'
                     PROVE  request' # NoRequest /\ Answering(request)'
        BY DEF WaitInv
      <3>2. /\ tradeLoading /\ ~ConcernsTrade(reply) /\ request' = request
            /\ request \in Instruments /\ request # NoRequest /\ Answering(request)
        BY <1>5, <3>1 DEF LoadFailure, Inv, TypeOK, WaitInv
      <3>3. reply.request # request
        BY <3>2 DEF ConcernsTrade
      <3>. QED
        BY <1>5, <2>3, <3>2, <3>3, HearAnswers DEF LoadFailure, Answering
    <2>. QED
      BY <2>1, <2>2, <2>4 DEF Inv
  <1>6. CASE LoadQuote
    <2>. DEFINE reply == Head(scripts)
    <2>1. SlotTypeOK(Instruments, Contents)' /\ SlotInv'
      BY <1>6, SlotKept DEF LoadQuote, Inv, TypeOK
    <2>2. scripts \in Seq(ReplyOK)
      BY DEF Inv, TypeOK, SlotTypeOK, ReplyOK, Replies
    <2>3. reply \in ReplyOK
      BY <1>6, <2>2, HearAnswers DEF LoadQuote
    <2>4. selected' \in Quotes /\ selected'.of = reply.request
      <3>1. reply.request \in Instruments /\ reply.request.ticker \in Tickers
        BY <2>3 DEF ReplyOK, Replies, Instruments
      <3>2. selected # NoContent => selected.price \in Prices
        BY DEF Inv, TypeOK, Quotes
      <3>. QED
        BY <1>6, <3>1, <3>2 DEF LoadQuote, NextSelected, Quotes, Prices
    <2>5. CASE AnswersTrade(reply)
      <3>1. /\ tradeLoading' = FALSE /\ quote' = selected' /\ request' = request
            /\ orderPrice' = IF orderPrice = NoPrice THEN quote'.price ELSE orderPrice
            /\ quoteLoading' = FALSE /\ made' = made
        BY <1>6, <2>5 DEF LoadQuote
      <3>2. quote' \in Quotes /\ orderPrice' \in Prices \cup {Typed}
        BY <2>4, <3>1 DEF Quotes, Inv, TypeOK
      <3>3. TypeOK'
        BY <2>1, <2>4, <3>1, <3>2 DEF Inv, TypeOK
      <3>4. TradeQuoteIsRequested' /\ WaitInv'
        BY <2>4, <2>5, <3>1 DEF AnswersTrade, TradeQuoteIsRequested, WaitInv
      <3>. QED
        BY <2>1, <3>3, <3>4 DEF Inv
    <2>6. CASE ~AnswersTrade(reply)
      <3>1. /\ UNCHANGED <<tradeLoading, quote, orderPrice, request, made>>
            /\ quoteLoading' = FALSE
        BY <1>6, <2>6 DEF LoadQuote
      <3>2. TypeOK' /\ TradeQuoteIsRequested'
        BY <2>1, <2>4, <3>1 DEF Inv, TypeOK, TradeQuoteIsRequested
      <3>3. WaitInv'
        <4>1. tradeLoading => request \in Instruments /\ request # NoRequest /\ Answering(request)
          BY DEF Inv, TypeOK, WaitInv
        <4>2. reply.request # request
          BY <2>6 DEF AnswersTrade
        <4>. QED
          BY <1>6, <2>2, <3>1, <4>1, <4>2, HearAnswers DEF LoadQuote, WaitInv, Answering
      <3>. QED
        BY <2>1, <3>2, <3>3 DEF Inv
    <2>. QED
      BY <2>5, <2>6
  <1>7. CASE WindowActs
    <2>1. SlotTypeOK(Instruments, Contents)' /\ SlotInv'
      <3>1. "exception" \in Contents
        BY DEF Contents
      <3>. QED
        BY <1>7, <3>1, QuoteConstants, SlotKept
        DEF WindowActs, Inv, TypeOK
    <2>2. \A i \in Instruments : Answering(i) => Answering(i)'
      BY <1>7, WindowAnswers DEF WindowActs, Inv, TypeOK
    <2>. QED
      BY <1>7, <2>1, <2>2, PageStays DEF WindowActs
  <1>8. CASE WorkerActs
    <2>1. \/ \E content \in Contents \cup {NoContent} : Post(content)
          \/ EndStep
      BY <1>8 DEF WorkerActs, RequestSnapshot, Contents
    <2>2. SlotTypeOK(Instruments, Contents)' /\ SlotInv'
      BY <2>1, SlotKept DEF Inv, TypeOK
    <2>3. \A i \in Instruments : Answering(i) => Answering(i)'
      BY <2>1, WorkerAnswers DEF Inv, TypeOK
    <2>. QED
      BY <1>8, <2>2, <2>3, PageStays DEF WorkerActs, RequestSnapshot
  <1>9. CASE UNCHANGED vars
    <2>1. SlotTypeOK(Instruments, Contents)' /\ SlotInv'
      BY <1>9, SlotKept DEF vars, Inv, TypeOK
    <2>2. \A i \in Instruments : Answering(i) => Answering(i)'
      BY <1>9 DEF vars, slot, Answering
    <2>. QED
      BY <1>9, <2>1, <2>2, PageStays DEF vars
  <1>. QED
    BY <1>1, <1>2, <1>3, <1>4, <1>5, <1>6, <1>7, <1>8, <1>9
    DEF Next, UserActs, StreamTick, PageHears

-----------------------------------------------------------------------------
\* Every variable keeps to its type; a price is one of a ticker, no price, or
\* one that the user has typed.
THEOREM TypeCorrect == Spec => []TypeOK
  <1>1. Inv => TypeOK
    BY DEF Inv
  <1>. QED
    BY <1>1, InitInv, NextInv, PTL DEF Spec, Safety

\* The order form never shows a quote of another stock or exchange than the one
\* last asked for there, however late and in whatever order replies arrive.
THEOREM TradeQuoteIsTheRequested == Spec => []TradeQuoteIsRequested
  <1>1. Inv => TradeQuoteIsRequested
    BY DEF Inv
  <1>. QED
    BY <1>1, InitInv, NextInv, PTL DEF Spec, Safety

\* The trade form never waits for a reply that cannot come: its request is with
\* the window or a worker, or the reply is on its way.
THEOREM TradeReplyIsUnderWay == Spec => []TradeWaitsForOwnReply
  <1>1. Inv => TradeWaitsForOwnReply
    BY DEF Inv, WaitInv, TradeWaitsForOwnReply
  <1>. QED
    BY <1>1, InitInv, NextInv, PTL DEF Spec, Safety

=============================================================================
