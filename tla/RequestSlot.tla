---------------------------- MODULE RequestSlot ----------------------------
(***************************************************************************)
(* How the page asks for something a background worker fetches: price      *)
(* history, performance or a quote.  Each of the three has a slot of its   *)
(* own in TradeManager: a flag, a std::thread and a message of the window. *)
(* The page modules extend this one and say what a request is, what a      *)
(* worker can make of it, and what the page does with the reply.           *)
(*                                                                         *)
(* The page runs in a process of its own: what it posts reaches the        *)
(* window thread in order, and so do the scripts on their way back.  The   *)
(* window thread takes the page's messages and those of its queue in any   *)
(* order.  It waits in two places, and takes no message meanwhile: for an  *)
(* access token, and for the previous worker of the slot.  Left out: a     *)
(* full window queue (PostMessage fails then).                             *)
(***************************************************************************)
EXTENDS Naturals, Sequences

CONSTANTS NoRequest, NoContent

VARIABLES
  asked,     \* the page's messages, oldest first
  window,    \* the window thread: "free", "ensuring" that there is a token, or
             \* "joining" the previous worker
  loading,   \* _history_loading, _performance_loading or _quote_loading
  worker,    \* the latest worker: "none", "working", "posted", "leaving", "ended"
  task,      \* the request it works on
  queue,     \* its messages to the window
  scripts    \* the replies on their way to the page

slot == <<asked, window, loading, worker, task, queue, scripts>>

WorkerPlaces == {"none", "working", "posted", "leaving", "ended"}

\* What reaches the page about request r.  A reply without content has
\* `success` false.
Reply(r, content) == [request |-> r, content |-> content]

SlotInit ==
  /\ asked = << >> /\ window = "free" /\ loading = FALSE
  /\ worker = "none" /\ task = NoRequest
  /\ queue = << >> /\ scripts = << >>

-----------------------------------------------------------------------------
(* The page's end *)

Ask(r) == asked' = Append(asked, r)

\* The page takes the next reply.
Hear ==
  /\ scripts # << >>
  /\ scripts' = Tail(scripts)

Unanswered == UNCHANGED <<window, loading, worker, task, queue, scripts>>

-----------------------------------------------------------------------------
(* The window thread *)

\* There are credentials and something to ask for.  ensureAccessToken() is
\* called, which may request a token, or wait for a thread that does.
Ensure ==
  /\ window = "free" /\ asked # << >>
  /\ window' = "ensuring"
  /\ UNCHANGED <<asked, loading, worker, task, queue, scripts>>

\* Mutant of Refuse: the page is not told.
RefuseSilently ==
  /\ window \in {"free", "ensuring"} /\ asked # << >>
  /\ asked' = Tail(asked) /\ window' = "free"
  /\ UNCHANGED <<loading, worker, task, queue, scripts>>

\* There are no credentials or nothing to ask for; or, after ensureAccessToken(),
\* no token, nothing left to ask for, or a busy worker.
Refuse ==
  /\ window \in {"free", "ensuring"} /\ asked # << >>
  /\ asked' = Tail(asked) /\ window' = "free"
  /\ scripts' = Append(scripts, Reply(Head(asked), NoContent))
  /\ UNCHANGED <<loading, worker, task, queue>>

\* Mutant of Accept: the flag is set whatever it was.
AcceptRegardless ==
  /\ window = "ensuring"
  /\ loading' = TRUE /\ window' = "joining"
  /\ UNCHANGED <<asked, worker, task, queue, scripts>>

\* compare_exchange_strong
Accept ==
  /\ window = "ensuring"
  /\ ~loading
  /\ loading' = TRUE /\ window' = "joining"
  /\ UNCHANGED <<asked, worker, task, queue, scripts>>

Spawn ==
  /\ window = "joining" /\ worker \in {"none", "ended"}
  /\ worker' = "working" /\ task' = Head(asked)
  /\ asked' = Tail(asked) /\ window' = "free"
  /\ UNCHANGED <<loading, queue, scripts>>

\* The thread cannot be created: the listener catches the exception and tells
\* the page, and nobody will reset the flag.
SpawnFails(content) ==
  /\ window = "joining" /\ worker \in {"none", "ended"}
  /\ scripts' = Append(scripts, Reply(Head(asked), content))
  /\ asked' = Tail(asked) /\ window' = "free"
  /\ UNCHANGED <<loading, worker, task, queue>>

\* OnReceivePortfolioHistory and the like.
Deliver ==
  /\ window = "free" /\ queue # << >>
  /\ scripts' = Append(scripts, Head(queue))
  /\ queue' = Tail(queue)
  /\ UNCHANGED <<asked, window, loading, worker, task>>

-----------------------------------------------------------------------------
(* The worker *)

\* Mutant of Post: a failure is caught and nothing is posted.
PostResults(content) ==
  /\ worker = "working"
  /\ queue' = IF content = NoContent THEN queue ELSE Append(queue, Reply(task, content))
  /\ worker' = "posted" /\ task' = NoRequest
  /\ UNCHANGED <<asked, window, loading, scripts>>

Post(content) ==
  /\ worker = "working"
  /\ queue' = Append(queue, Reply(task, content))
  /\ worker' = "posted" /\ task' = NoRequest
  /\ UNCHANGED <<asked, window, loading, scripts>>

\* Only after its message does the worker free the slot.
Release ==
  /\ worker = "posted"
  /\ loading' = FALSE
  /\ worker' = "leaving"
  /\ UNCHANGED <<asked, window, task, queue, scripts>>

Leave ==
  /\ worker = "leaving"
  /\ worker' = "ended"
  /\ UNCHANGED <<asked, window, loading, task, queue, scripts>>

-----------------------------------------------------------------------------
WindowStep == Ensure \/ Refuse \/ Accept \/ Spawn \/ Deliver

\* Steps of the worker once it has posted.
EndStep == Release \/ Leave

-----------------------------------------------------------------------------
(* Properties *)

Replies(Requests, Contents) == [request : Requests, content : Contents \cup {NoContent}]

SlotTypeOK(Requests, Contents) ==
  /\ asked \in Seq(Requests)
  /\ window \in {"free", "ensuring", "joining"} /\ loading \in BOOLEAN
  /\ worker \in WorkerPlaces
  /\ task \in Requests \cup {NoRequest}
  /\ queue \in Seq(Replies(Requests, Contents))
  /\ scripts \in Seq(Replies(Requests, Contents))

\* The flag is up from the moment the window thread accepts a request until
\* the worker has posted its reply; so whoever finds it down, and joins, finds
\* a worker that is leaving.
SlotInv ==
  /\ window = "ensuring" => asked # << >>
  /\ window = "joining" => loading /\ asked # << >> /\ worker \in {"none", "leaving", "ended"}
  /\ worker \in {"working", "posted"} => loading
  /\ worker = "working" => task # NoRequest

\* The window thread, which draws the program and takes all input, may wait for
\* a token, but not for the bars or quotes of an earlier request: the worker it
\* joins has posted its reply and has nothing left to do but to end.
JoinsOnlyLeavingWorker == window = "joining" => worker \in {"none", "leaving", "ended"}

=============================================================================
