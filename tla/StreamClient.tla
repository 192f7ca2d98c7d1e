---------------------------- MODULE StreamClient ----------------------------
(***************************************************************************)
(* KISStreamClient: the realtime price stream of KISStreamClient.cpp.      *)
(*                                                                         *)
(* start() spawns a worker thread that obtains an approval key, opens a    *)
(* WebSocket with blocking calls, subscribes, and reads until the shared   *)
(* flag _running is false; stop() clears the flag, closes the socket under *)
(* the worker's feet and joins the worker.  Each worker is a run, numbered *)
(* in the order of the start() calls that spawned it.  A step is what one  *)
(* thread does between two points where another thread or the server can   *)
(* be noticed.                                                             *)
(*                                                                         *)
(* Left out: the contents of messages; io_context.stop()/restart(), which  *)
(* only asynchronous operations observe and the worker has none; stop()    *)
(* called on the worker's own thread, which nothing in the program does.   *)
(***************************************************************************)
EXTENDS Naturals, Sequences

CONSTANTS
  Callers,      \* the threads that call start() and stop()
  Identities,   \* pairs of app key and app secret
  MaxRuns,      \* bound: how many workers are ever spawned
  MaxKeys,      \* bound: subscription keys of a run (40 in the code)
  MaxTicks,     \* bound: price ticks read by a run
  NoCaller, NoKey

ASSUME StreamConstants ==
  /\ MaxRuns \in Nat /\ MaxKeys \in Nat /\ MaxTicks \in Nat
  /\ NoCaller \notin Callers
  /\ NoKey \notin Identities

Runs == 1 .. MaxRuns
NoRun == 0

VARIABLES
  \* shared by the threads
  running,            \* _running
  lifecycle,          \* holder of _lifecycle_mutex
  thread,             \* the run _worker can be joined on
  activeSocket,       \* the run whose socket _active_socket points to
  approvalKey,        \* whom _approval_key was issued for, NoKey when empty
  approvalIdentity,   \* _approval_identity
  \* the calling threads
  caller,             \* where each caller is
  \* the workers: their place, their socket and the locals of run()
  worker, socket, identity, keys, acks, accepted, notified, thrown,
  \* observed
  started,            \* number of workers spawned
  stopped,            \* runs that were alive when some stop() began
  heard               \* callbacks each run has made

sharedVars == <<running, lifecycle, thread, activeSocket>>
approvalVars == <<approvalKey, approvalIdentity>>
runVars == <<worker, socket, identity, keys, acks, accepted, notified, thrown>>
vars == <<sharedVars, approvalVars, caller, runVars, started, stopped, heard>>

CallerPlaces ==
  {"idle", "join_previous", "spawn", "close_socket", "lock", "join"}
WorkerPlaces ==
  {"none", "approval", "token", "entry", "register", "resolve", "resolved",
   "connect", "handshake", "shaken", "subscribe", "loop", "read", "pong",
   "deliver", "emit", "closing", "status", "unregister", "destroy", "catch",
   "end", "done"}
SocketStates == {"none", "closed", "open", "destroyed"}
Events == {"connected", "tick", "failed", "disconnected"}

Live(r) == worker[r] \notin {"none", "done"}

Init ==
  /\ running = FALSE /\ lifecycle = NoCaller
  /\ thread = NoRun /\ activeSocket = NoRun
  /\ approvalKey = NoKey /\ approvalIdentity = NoKey
  /\ caller = [c \in Callers |-> "idle"]
  /\ worker = [r \in Runs |-> "none"]
  /\ socket = [r \in Runs |-> "none"]
  /\ identity = [r \in Runs |-> NoKey]
  /\ keys = [r \in Runs |-> 0]
  /\ acks = [r \in Runs |-> 0]
  /\ accepted = [r \in Runs |-> FALSE]
  /\ notified = [r \in Runs |-> FALSE]
  /\ thrown = [r \in Runs |-> FALSE]
  /\ started = 0 /\ stopped = {}
  /\ heard = [r \in Runs |-> << >>]

-----------------------------------------------------------------------------
(* start() *)

\* `if (_running) return false`: the lock is taken and released at once.
StartRefused(c) ==
  /\ caller[c] = "idle" /\ lifecycle = NoCaller
  /\ running
  /\ UNCHANGED vars

\* Mutant of StartEnter: start() does not look at the flag.
StartEnterRegardless(c) ==
  /\ caller[c] = "idle" /\ lifecycle = NoCaller
  /\ started < MaxRuns
  /\ lifecycle' = c
  /\ caller' = [caller EXCEPT ![c] = "join_previous"]
  /\ UNCHANGED <<running, thread, activeSocket, approvalVars, runVars,
                 started, stopped, heard>>

\* The caller holds the lifecycle lock from here until start() leaves.
StartEnter(c) ==
  /\ caller[c] = "idle" /\ lifecycle = NoCaller
  /\ ~running
  /\ started < MaxRuns
  /\ lifecycle' = c
  /\ caller' = [caller EXCEPT ![c] = "join_previous"]
  /\ UNCHANGED <<running, thread, activeSocket, approvalVars, runVars,
                 started, stopped, heard>>

Joined == thread # NoRun => worker[thread] = "done"

\* Mutant of StartJoin: the previous worker is detached instead of joined.
StartDetach(c) ==
  /\ caller[c] = "join_previous"
  /\ thread' = NoRun
  /\ caller' = [caller EXCEPT ![c] = "spawn"]
  /\ UNCHANGED <<running, lifecycle, activeSocket, approvalVars, runVars,
                 started, stopped, heard>>

StartJoin(c) ==
  /\ caller[c] = "join_previous" /\ Joined
  /\ thread' = NoRun
  /\ caller' = [caller EXCEPT ![c] = "spawn"]
  /\ UNCHANGED <<running, lifecycle, activeSocket, approvalVars, runVars,
                 started, stopped, heard>>

\* Raise the flag and spawn.  A stop() that lowers the flag before the thread
\* exists is not told apart from one that lowers it just after.
StartSpawn(c) ==
  /\ caller[c] = "spawn"
  /\ started' = started + 1
  /\ thread' = started' /\ running' = TRUE
  /\ worker' = [worker EXCEPT ![started'] = "approval"]
  /\ \E id \in Identities : identity' = [identity EXCEPT ![started'] = id]
  /\ \E n \in 0 .. MaxKeys : keys' = [keys EXCEPT ![started'] = n]
  /\ caller' = [caller EXCEPT ![c] = "idle"] /\ lifecycle' = NoCaller
  /\ UNCHANGED <<activeSocket, approvalVars, socket, acks, accepted, notified,
                 thrown, stopped, heard>>

\* Mutant of StartThrows: the flag raised for the thread stays up.
StartThrowsFlagged(c) ==
  /\ caller[c] = "spawn"
  /\ running' = TRUE
  /\ caller' = [caller EXCEPT ![c] = "idle"] /\ lifecycle' = NoCaller
  /\ UNCHANGED <<thread, activeSocket, approvalVars, runVars, started, stopped,
                 heard>>

\* The thread constructor throws: the flag is lowered again and start() leaves.
StartThrows(c) ==
  /\ caller[c] = "spawn"
  /\ running' = FALSE
  /\ caller' = [caller EXCEPT ![c] = "idle"] /\ lifecycle' = NoCaller
  /\ UNCHANGED <<thread, activeSocket, approvalVars, runVars, started, stopped,
                 heard>>

(* stop() *)

\* The flag is lowered before any lock is taken.
StopFlag(c) ==
  /\ caller[c] = "idle"
  /\ running' = FALSE
  /\ stopped' = stopped \cup {r \in Runs : Live(r)}
  /\ caller' = [caller EXCEPT ![c] = "close_socket"]
  /\ UNCHANGED <<lifecycle, thread, activeSocket, approvalVars, runVars,
                 started, heard>>

\* Mutant of StopSocket: the blocking call is not interrupted.
StopWithoutClosing(c) ==
  /\ caller[c] = "close_socket"
  /\ caller' = [caller EXCEPT ![c] = "lock"]
  /\ UNCHANGED <<sharedVars, approvalVars, runVars, started, stopped, heard>>

\* Closing makes the blocking call the worker is in fail; closing a socket
\* that is not open yet has no effect.
StopSocket(c) ==
  /\ caller[c] = "close_socket"
  /\ socket' = IF activeSocket = NoRun THEN socket
               ELSE [socket EXCEPT ![activeSocket] = "closed"]
  /\ caller' = [caller EXCEPT ![c] = "lock"]
  /\ UNCHANGED <<sharedVars, approvalVars, worker, identity, keys, acks,
                 accepted, notified, thrown, started, stopped, heard>>

StopLock(c) ==
  /\ caller[c] = "lock" /\ lifecycle = NoCaller
  /\ lifecycle' = c
  /\ caller' = [caller EXCEPT ![c] = "join"]
  /\ UNCHANGED <<running, thread, activeSocket, approvalVars, runVars,
                 started, stopped, heard>>

\* Mutant of StopJoin: the worker is detached instead of joined.
StopDetach(c) ==
  /\ caller[c] = "join"
  /\ thread' = NoRun /\ lifecycle' = NoCaller
  /\ caller' = [caller EXCEPT ![c] = "idle"]
  /\ UNCHANGED <<running, activeSocket, approvalVars, runVars, started,
                 stopped, heard>>

StopJoin(c) ==
  /\ caller[c] = "join" /\ Joined
  /\ thread' = NoRun /\ lifecycle' = NoCaller
  /\ caller' = [caller EXCEPT ![c] = "idle"]
  /\ UNCHANGED <<running, activeSocket, approvalVars, runVars, started,
                 stopped, heard>>

-----------------------------------------------------------------------------
(* run(): the worker thread *)

Go(r, place) == worker' = [worker EXCEPT ![r] = place]
Report(r, events) == heard' = [heard EXCEPT ![r] = @ \o events]

\* Moves of the worker that touch nothing but its own place.
OnlyMoves(r, place) ==
  /\ Go(r, place)
  /\ UNCHANGED <<sharedVars, approvalVars, caller, socket, identity, keys, acks,
                 accepted, notified, thrown, started, stopped, heard>>

\* An exception unwinds the scope guard that clears _active_socket, then the
\* websocket, and only then reaches the handler.
Throws(r) ==
  /\ Go(r, "unregister")
  /\ thrown' = [thrown EXCEPT ![r] = TRUE]
  /\ UNCHANGED <<sharedVars, approvalVars, caller, socket, identity, keys, acks,
                 accepted, notified, started, stopped, heard>>

\* Mutant of UseApproval: any cached key will do.
UseAnyApproval(r) ==
  /\ worker[r] = "approval"
  /\ approvalKey # NoKey
  /\ OnlyMoves(r, "entry")

\* A cached approval key is used again for the same identity within 23 hours.
UseApproval(r) ==
  /\ worker[r] = "approval"
  /\ approvalKey # NoKey /\ approvalIdentity = identity[r]
  /\ OnlyMoves(r, "entry")

\* Otherwise a new one is requested: request_ws_token empties the cached key
\* first.  How old the key is does not show in the state: it may be too old.
RequestApproval(r) ==
  /\ worker[r] = "approval"
  /\ approvalKey' = NoKey
  /\ Go(r, "token")
  /\ UNCHANGED <<sharedVars, approvalIdentity, caller, socket, identity, keys,
                 acks, accepted, notified, thrown, started, stopped, heard>>

ApprovalGranted(r) ==
  /\ worker[r] = "token"
  /\ approvalKey' = identity[r] /\ approvalIdentity' = identity[r]
  /\ Go(r, "entry")
  /\ UNCHANGED <<sharedVars, caller, socket, identity, keys, acks, accepted,
                 notified, thrown, started, stopped, heard>>

ApprovalRefused(r) ==
  /\ worker[r] = "token"
  /\ Report(r, <<"failed">>)
  /\ Go(r, "end")
  /\ UNCHANGED <<sharedVars, approvalVars, caller, socket, identity, keys, acks,
                 accepted, notified, thrown, started, stopped>>

\* The worker looks at the flag three times before it starts to read.
CheckEntry(r) ==
  /\ worker[r] = "entry"
  /\ OnlyMoves(r, IF running THEN "register" ELSE "end")

CheckResolved(r) ==
  /\ worker[r] = "resolved"
  /\ OnlyMoves(r, IF running THEN "connect" ELSE "unregister")

\* Mutant of CheckShaken: no look at the flag after the handshake.
DoNotCheckShaken(r) ==
  /\ worker[r] = "shaken"
  /\ OnlyMoves(r, "subscribe")

CheckShaken(r) ==
  /\ worker[r] = "shaken"
  /\ OnlyMoves(r, IF running THEN "subscribe" ELSE "unregister")

Register(r) ==
  /\ worker[r] = "register"
  /\ socket' = [socket EXCEPT ![r] = "closed"]
  /\ activeSocket' = r
  /\ Go(r, "resolve")
  /\ UNCHANGED <<running, lifecycle, thread, approvalVars, caller, identity,
                 keys, acks, accepted, notified, thrown, started, stopped, heard>>

Resolve(r) ==
  /\ worker[r] = "resolve"
  /\ OnlyMoves(r, "resolved") \/ Throws(r)

\* connect() tries the endpoints in turn and reopens the socket for each, so
\* it may succeed on a socket that stop() has just closed.
Connect(r) ==
  /\ worker[r] = "connect"
  /\ \/ /\ socket' = [socket EXCEPT ![r] = "open"]
        /\ Go(r, "handshake")
        /\ UNCHANGED <<sharedVars, approvalVars, caller, identity, keys, acks,
                       accepted, notified, thrown, started, stopped, heard>>
     \/ Throws(r)

\* The handshake waits for the server for as long as the socket is open.
HandshakeAnswered(r) ==
  /\ worker[r] = "handshake" /\ socket[r] = "open"
  /\ OnlyMoves(r, "shaken") \/ Throws(r)

HandshakeCut(r) ==
  /\ worker[r] = "handshake" /\ socket[r] = "closed"
  /\ Throws(r)

\* The requests for all the keys go out; a write on a closed socket throws.
SubscribeNothing(r) ==
  /\ worker[r] = "subscribe" /\ keys[r] = 0
  /\ Report(r, <<"failed">>)
  /\ Go(r, "unregister")
  /\ UNCHANGED <<sharedVars, approvalVars, caller, socket, identity, keys, acks,
                 accepted, notified, thrown, started, stopped>>

Subscribe(r) ==
  /\ worker[r] = "subscribe" /\ keys[r] > 0
  /\ \/ socket[r] = "open" /\ OnlyMoves(r, "loop")
     \/ Throws(r)

Loop(r) ==
  /\ worker[r] = "loop"
  /\ OnlyMoves(r, IF running THEN "read" ELSE "closing")

\* A read fails when the socket was closed here or the peer went away.
ReadCut(r) ==
  /\ worker[r] = "read" /\ socket[r] = "closed"
  /\ OnlyMoves(r, "closing")

ReadBroken(r) ==
  /\ worker[r] = "read" /\ socket[r] = "open"
  /\ socket' = [socket EXCEPT ![r] = "closed"]
  /\ Go(r, "closing")
  /\ UNCHANGED <<sharedVars, approvalVars, caller, identity, keys, acks,
                 accepted, notified, thrown, started, stopped, heard>>

\* "connected" is reported with the first proof that the stream is live.
Connected(r) == IF notified[r] THEN << >> ELSE <<"connected">>

\* Mutant of ReadAccepted: it is not remembered that "connected" was reported.
ReadAcceptedForgetful(r) ==
  /\ worker[r] = "read" /\ socket[r] = "open"
  /\ acks[r] < MaxKeys
  /\ acks' = [acks EXCEPT ![r] = @ + 1]
  /\ accepted' = [accepted EXCEPT ![r] = TRUE]
  /\ Report(r, Connected(r))
  /\ Go(r, "loop")
  /\ UNCHANGED <<sharedVars, approvalVars, caller, socket, identity, keys,
                 notified, thrown, started, stopped>>

ReadAccepted(r) ==
  /\ worker[r] = "read" /\ socket[r] = "open"
  /\ acks[r] < MaxKeys
  /\ acks' = [acks EXCEPT ![r] = @ + 1]
  /\ accepted' = [accepted EXCEPT ![r] = TRUE]
  /\ notified' = [notified EXCEPT ![r] = TRUE]
  /\ Report(r, Connected(r))
  /\ Go(r, "loop")
  /\ UNCHANGED <<sharedVars, approvalVars, caller, socket, identity, keys,
                 thrown, started, stopped>>

\* Mutant of ReadRejected: a refusal is counted twice.
ReadRejectedTwice(r) ==
  /\ worker[r] = "read" /\ socket[r] = "open"
  /\ acks[r] < MaxKeys
  /\ acks' = [acks EXCEPT ![r] = @ + 2]
  /\ LET hopeless == acks'[r] >= keys[r] /\ ~accepted[r]
     IN  /\ Report(r, IF hopeless THEN <<"failed">> ELSE << >>)
         /\ Go(r, IF hopeless THEN "unregister" ELSE "loop")
  /\ UNCHANGED <<sharedVars, approvalVars, caller, socket, identity, keys,
                 accepted, notified, thrown, started, stopped>>

\* The run gives up once every key is answered and none was accepted.
ReadRejected(r) ==
  /\ worker[r] = "read" /\ socket[r] = "open"
  /\ acks[r] < MaxKeys
  /\ acks' = [acks EXCEPT ![r] = @ + 1]
  /\ LET hopeless == acks'[r] >= keys[r] /\ ~accepted[r]
     IN  /\ Report(r, IF hopeless THEN <<"failed">> ELSE << >>)
         /\ Go(r, IF hopeless THEN "unregister" ELSE "loop")
  /\ UNCHANGED <<sharedVars, approvalVars, caller, socket, identity, keys,
                 accepted, notified, thrown, started, stopped>>

ReadPing(r) ==
  /\ worker[r] = "read" /\ socket[r] = "open"
  /\ OnlyMoves(r, "pong")

Pong(r) ==
  /\ worker[r] = "pong"
  /\ \/ socket[r] = "open" /\ OnlyMoves(r, "loop")
     \/ Throws(r)

ReadTick(r) ==
  /\ worker[r] = "read" /\ socket[r] = "open"
  /\ Len(heard[r]) <= MaxTicks
  /\ notified' = [notified EXCEPT ![r] = TRUE]
  /\ Report(r, Connected(r))
  /\ Go(r, "deliver")
  /\ UNCHANGED <<sharedVars, approvalVars, caller, socket, identity, keys, acks,
                 accepted, thrown, started, stopped>>

\* `if (_running && on_message)`: the flag may fall after it was looked at.
Deliver(r) ==
  /\ worker[r] = "deliver"
  /\ OnlyMoves(r, IF running THEN "emit" ELSE "loop")

Emit(r) ==
  /\ worker[r] = "emit"
  /\ Report(r, <<"tick">>)
  /\ Go(r, "loop")
  /\ UNCHANGED <<sharedVars, approvalVars, caller, socket, identity, keys, acks,
                 accepted, notified, thrown, started, stopped>>

\* websocket.close() waits for the peer's close frame on an open socket.
CloseAnswered(r) ==
  /\ worker[r] = "closing" /\ socket[r] = "open"
  /\ socket' = [socket EXCEPT ![r] = "closed"]
  /\ Go(r, "status")
  /\ UNCHANGED <<sharedVars, approvalVars, caller, identity, keys, acks,
                 accepted, notified, thrown, started, stopped, heard>>

CloseCut(r) ==
  /\ worker[r] = "closing" /\ socket[r] = "closed"
  /\ OnlyMoves(r, "status")

FinalStatus(r) ==
  /\ worker[r] = "status"
  /\ Report(r, <<IF running THEN "failed" ELSE "disconnected">>)
  /\ Go(r, "unregister")
  /\ UNCHANGED <<sharedVars, approvalVars, caller, socket, identity, keys, acks,
                 accepted, notified, thrown, started, stopped>>

\* Mutant of Unregister: the pointer is left dangling.
DoNotUnregister(r) ==
  /\ worker[r] = "unregister"
  /\ OnlyMoves(r, "destroy")

\* The scope guards: the pointer is cleared before the websocket is destroyed.
Unregister(r) ==
  /\ worker[r] = "unregister"
  /\ activeSocket' = NoRun
  /\ Go(r, "destroy")
  /\ UNCHANGED <<running, lifecycle, thread, approvalVars, caller, socket,
                 identity, keys, acks, accepted, notified, thrown, started,
                 stopped, heard>>

Destroy(r) ==
  /\ worker[r] = "destroy"
  /\ socket' = [socket EXCEPT ![r] = "destroyed"]
  /\ Go(r, IF thrown[r] THEN "catch" ELSE "end")
  /\ UNCHANGED <<sharedVars, approvalVars, caller, identity, keys, acks,
                 accepted, notified, thrown, started, stopped, heard>>

Catch(r) ==
  /\ worker[r] = "catch"
  /\ approvalKey' = NoKey /\ approvalIdentity' = NoKey
  /\ Report(r, IF running THEN <<"failed">> ELSE << >>)
  /\ Go(r, "end")
  /\ UNCHANGED <<sharedVars, caller, socket, identity, keys, acks, accepted,
                 notified, thrown, started, stopped>>

\* The outermost scope guard lowers the flag as the thread ends; the locals
\* of run() are gone with it.
End(r) ==
  /\ worker[r] = "end"
  /\ running' = FALSE
  /\ Go(r, "done")
  /\ identity' = [identity EXCEPT ![r] = NoKey]
  /\ keys' = [keys EXCEPT ![r] = 0]
  /\ acks' = [acks EXCEPT ![r] = 0]
  /\ accepted' = [accepted EXCEPT ![r] = FALSE]
  /\ notified' = [notified EXCEPT ![r] = FALSE]
  /\ thrown' = [thrown EXCEPT ![r] = FALSE]
  /\ UNCHANGED <<lifecycle, thread, activeSocket, approvalVars, caller, socket,
                 started, stopped, heard>>

-----------------------------------------------------------------------------
Call(c) == StartRefused(c) \/ StartEnter(c) \/ StopFlag(c)

\* What a caller does once it is inside start() or stop().
CallProceeds(c) ==
  \/ StartJoin(c) \/ StartSpawn(c) \/ StartThrows(c)
  \/ StopSocket(c) \/ StopLock(c) \/ StopJoin(c)

\* Steps that end by themselves: code, and waits with a time limit (curl's
\* in configure_request, the system's for name lookup and connect).
WorkerProceeds(r) ==
  \/ UseApproval(r) \/ RequestApproval(r)
  \/ ApprovalGranted(r) \/ ApprovalRefused(r)
  \/ CheckEntry(r) \/ Register(r) \/ Resolve(r) \/ CheckResolved(r)
  \/ Connect(r) \/ HandshakeCut(r) \/ CheckShaken(r)
  \/ SubscribeNothing(r) \/ Subscribe(r) \/ Loop(r) \/ ReadCut(r)
  \/ Pong(r) \/ Deliver(r) \/ Emit(r) \/ CloseCut(r) \/ FinalStatus(r)
  \/ Unregister(r) \/ Destroy(r) \/ Catch(r) \/ End(r)

\* Steps that need the server to send something on an open socket.
ServerActs(r) ==
  \/ HandshakeAnswered(r) \/ CloseAnswered(r)
  \/ ReadAccepted(r) \/ ReadRejected(r) \/ ReadPing(r) \/ ReadTick(r)
  \/ ReadBroken(r)

Next ==
  \/ \E c \in Callers : Call(c) \/ CallProceeds(c)
  \/ \E r \in Runs : WorkerProceeds(r) \/ ServerActs(r)

Safety == Init /\ [][Next]_vars

\* Threads are scheduled; nothing obliges the server to answer.
ThreadsRun ==
  /\ \A c \in Callers : WF_vars(CallProceeds(c))
  /\ \A r \in Runs : WF_vars(WorkerProceeds(r))

\* The server answers a WebSocket handshake, be it with an error.
ServerShakesHands == \A r \in Runs : WF_vars(HandshakeAnswered(r))

Spec == Safety /\ ThreadsRun
ResponsiveSpec == Spec /\ ServerShakesHands

-----------------------------------------------------------------------------
(* Properties *)

TypeOK ==
  /\ running \in BOOLEAN
  /\ lifecycle \in Callers \cup {NoCaller}
  /\ thread \in Runs \cup {NoRun}
  /\ activeSocket \in Runs \cup {NoRun}
  /\ approvalKey \in Identities \cup {NoKey}
  /\ approvalIdentity \in Identities \cup {NoKey}
  /\ caller \in [Callers -> CallerPlaces]
  /\ worker \in [Runs -> WorkerPlaces]
  /\ socket \in [Runs -> SocketStates]
  /\ identity \in [Runs -> Identities \cup {NoKey}]
  /\ keys \in [Runs -> 0 .. MaxKeys]
  /\ acks \in [Runs -> 0 .. MaxKeys]
  /\ accepted \in [Runs -> BOOLEAN]
  /\ notified \in [Runs -> BOOLEAN]
  /\ thrown \in [Runs -> BOOLEAN]
  /\ started \in 0 .. MaxRuns
  /\ stopped \in SUBSET Runs
  /\ heard \in [Runs -> Seq(Events)]

\* start() joins the previous worker before it spawns the next, under a lock
\* that stop() also joins under: two workers never share the flag, the
\* approval key and the socket pointer, whatever the order in which the
\* callers start and stop.
AtMostOneWorker ==
  \A r, s \in Runs : Live(r) /\ Live(s) => r = s

\* The socket that stop() closes from another thread is a constructed socket
\* of a worker that is still inside run(): never one already destroyed.
SocketAlive ==
  activeSocket # NoRun =>
    Live(activeSocket) /\ socket[activeSocket] \in {"closed", "open"}

\* One flag serves all runs, and every worker lowers it as it ends.  It is
\* nevertheless up exactly while there is a worker nobody asked to stop: no
\* run cancels the next one, and start() refuses only while the stream runs.
FlagTracksRun ==
  running <=> \E r \in Runs : Live(r) /\ r \notin stopped

\* The key cached by an earlier run, or emptied by a failed request, is never
\* sent for other credentials than it was issued for.
KeyBelongsToRun ==
  \A r \in Runs :
    worker[r] = "subscribe" => approvalKey = identity[r]

\* When stop() returns no worker is left that could still call back.
StopLeavesNoWorker ==
  [][\A c \in Callers :
       caller[c] = "join" /\ caller'[c] = "idle" => \A r \in Runs : ~Live(r)']_vars

\* What callers observe is what StreamPromise allows: the order of callbacks
\* within a run, silence of a run once it is over or another has begun, and a
\* final status from every run that was not asked to stop.
Promise == INSTANCE StreamPromise WITH
  run <- started,
  live <- \E r \in Runs : Live(r),
  stopping <- started \in stopped

KeepsPromise == Promise!Spec

\* Shutdown does not hang: a stop() in progress returns.
StopReturns ==
  \A c \in Callers :
    (caller[c] \in {"close_socket", "lock", "join"}) ~> (caller[c] = "idle")

\* A start() that waits for the previous worker returns.
StartReturns ==
  \A c \in Callers : (caller[c] = "join_previous") ~> (caller[c] = "idle")

\* A worker that was asked to stop ends (StreamPromise's StopEnds).
StopEnds == Promise!StopEnds

=============================================================================
