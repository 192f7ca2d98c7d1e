------------------------- MODULE StreamClientProofs -------------------------
(***************************************************************************)
(* Proofs of the safety properties of StreamClient, for any number of      *)
(* callers, identities, runs, keys and ticks, and of its implementing      *)
(* StreamPromise.                                                          *)
(*                                                                         *)
(* CoreInv says who may be alive and who holds the lifecycle lock; the     *)
(* flag, the socket pointer and the approval key each rest on it.          *)
(***************************************************************************)
EXTENDS StreamClient, TLAPS

\* A caller inside the locked part of start() or stop() holds the lock; the
\* one about to spawn has joined the previous worker.
LockInv ==
  \A c \in Callers :
    /\ caller[c] \in {"join_previous", "spawn", "join"} => lifecycle = c
    /\ caller[c] \in {"join_previous", "spawn"} => started < MaxRuns
    /\ caller[c] = "spawn" => thread = NoRun

\* The only worker that can be alive is the latest, and _worker is its handle.
LatestInv ==
  \A r \in Runs :
    /\ Live(r) => r = thread /\ r = started
    /\ r > started => worker[r] = "none" /\ r \notin stopped

CoreInv == TypeOK /\ LockInv /\ LatestInv

-----------------------------------------------------------------------------
(* Callbacks keep the history well typed. *)

LEMMA ReportTyped ==
  ASSUME heard \in [Runs -> Seq(Events)],
         NEW r \in Runs, NEW e \in Seq(Events),
         Report(r, e)
  PROVE  heard' \in [Runs -> Seq(Events)]
  <1>1. heard[r] \o e \in Seq(Events)
    OBVIOUS
  <1> QED
    BY <1>1 DEF Report

LEMMA EventsTyped ==
  /\ << >> \in Seq(Events)
  /\ \A e \in Events : <<e>> \in Seq(Events)
  OBVIOUS

\* Whatever a worker does, it is alive before, moves to some other place, and
\* leaves alone what belongs to the callers.
WorkerMoves(r) ==
  /\ Live(r)
  /\ \E place \in WorkerPlaces \ {"none"} : Go(r, place)
  /\ UNCHANGED <<lifecycle, thread, caller, started, stopped>>

LEMMA WorkerMovesLemma ==
  ASSUME TypeOK, NEW r \in Runs, WorkerProceeds(r) \/ ServerActs(r)
  PROVE  WorkerMoves(r)
  <1> USE DEF WorkerMoves, Live, Go, WorkerPlaces, sharedVars, approvalVars
  <1>1. CASE UseApproval(r)
    BY <1>1 DEF UseApproval, OnlyMoves
  <1>2. CASE RequestApproval(r)
    BY <1>2 DEF RequestApproval
  <1>3. CASE ApprovalGranted(r)
    BY <1>3 DEF ApprovalGranted
  <1>4. CASE ApprovalRefused(r)
    BY <1>4 DEF ApprovalRefused
  <1>5. CASE CheckEntry(r)
    BY <1>5 DEF CheckEntry, OnlyMoves
  <1>6. CASE Register(r)
    BY <1>6 DEF Register
  <1>7. CASE Resolve(r)
    BY <1>7 DEF Resolve, OnlyMoves, Throws
  <1>8. CASE CheckResolved(r)
    BY <1>8 DEF CheckResolved, OnlyMoves
  <1>9. CASE Connect(r)
    BY <1>9 DEF Connect, Throws
  <1>10. CASE HandshakeCut(r)
    BY <1>10 DEF HandshakeCut, OnlyMoves, Throws
  <1>11. CASE CheckShaken(r)
    BY <1>11 DEF CheckShaken, OnlyMoves
  <1>12. CASE SubscribeNothing(r)
    BY <1>12 DEF SubscribeNothing
  <1>13. CASE Subscribe(r)
    BY <1>13 DEF Subscribe, OnlyMoves, Throws
  <1>14. CASE Loop(r)
    BY <1>14 DEF Loop, OnlyMoves
  <1>15. CASE ReadCut(r)
    BY <1>15 DEF ReadCut, OnlyMoves
  <1>16. CASE Pong(r)
    BY <1>16 DEF Pong, OnlyMoves, Throws
  <1>17. CASE Deliver(r)
    BY <1>17 DEF Deliver, OnlyMoves
  <1>18. CASE Emit(r)
    BY <1>18 DEF Emit
  <1>19. CASE CloseCut(r)
    BY <1>19 DEF CloseCut, OnlyMoves
  <1>20. CASE FinalStatus(r)
    BY <1>20 DEF FinalStatus
  <1>21. CASE Unregister(r)
    BY <1>21 DEF Unregister
  <1>22. CASE Destroy(r)
    BY <1>22 DEF Destroy
  <1>23. CASE Catch(r)
    BY <1>23 DEF Catch
  <1>24. CASE End(r)
    BY <1>24 DEF End
  <1>25. CASE HandshakeAnswered(r)
    BY <1>25 DEF HandshakeAnswered, OnlyMoves, Throws
  <1>26. CASE CloseAnswered(r)
    BY <1>26 DEF CloseAnswered
  <1>27. CASE ReadAccepted(r)
    BY <1>27 DEF ReadAccepted
  <1>28. CASE ReadRejected(r)
    BY <1>28 DEF ReadRejected
  <1>29. CASE ReadPing(r)
    BY <1>29 DEF ReadPing, OnlyMoves
  <1>30. CASE ReadTick(r)
    BY <1>30 DEF ReadTick
  <1>31. CASE ReadBroken(r)
    BY <1>31 DEF ReadBroken
  <1> QED
    BY <1>1, <1>2, <1>3, <1>4, <1>5, <1>6, <1>7, <1>8, <1>9, <1>10, <1>11, <1>12, <1>13, <1>14, <1>15, <1>16, <1>17, <1>18, <1>19, <1>20, <1>21, <1>22, <1>23, <1>24, <1>25, <1>26, <1>27, <1>28, <1>29, <1>30, <1>31 DEF WorkerProceeds, ServerActs

LEMMA TypeStep ==
  ASSUME TypeOK, LockInv, [Next]_vars
  PROVE  TypeOK'
  <1> USE StreamConstants DEF TypeOK, Go, sharedVars, approvalVars, runVars
  <1>1. ASSUME NEW c \in Callers, StartRefused(c) PROVE TypeOK'
    BY <1>1 DEF StartRefused, CallerPlaces, vars
  <1>2. ASSUME NEW c \in Callers, StartEnter(c) PROVE TypeOK'
    BY <1>2 DEF StartEnter, CallerPlaces
  <1>3. ASSUME NEW c \in Callers, StartJoin(c) PROVE TypeOK'
    BY <1>3 DEF StartJoin, CallerPlaces, NoRun
  <1>4. ASSUME NEW c \in Callers, StartSpawn(c) PROVE TypeOK'
    <2>1. started' \in Runs /\ started' \in 0 .. MaxRuns
      BY <1>4 DEF StartSpawn, LockInv, Runs
    <2>2. identity' \in [Runs -> Identities \cup {NoKey}]
      BY <1>4, <2>1 DEF StartSpawn
    <2>3. keys' \in [Runs -> 0 .. MaxKeys]
      BY <1>4, <2>1 DEF StartSpawn
    <2>4. worker' \in [Runs -> WorkerPlaces] /\ caller' \in [Callers -> CallerPlaces]
      BY <1>4, <2>1 DEF StartSpawn, WorkerPlaces, CallerPlaces
    <2> QED
      BY <1>4, <2>1, <2>2, <2>3, <2>4 DEF StartSpawn
  <1>5. ASSUME NEW c \in Callers, StartThrows(c) PROVE TypeOK'
    BY <1>5 DEF StartThrows, CallerPlaces
  <1>6. ASSUME NEW c \in Callers, StopFlag(c) PROVE TypeOK'
    BY <1>6 DEF StopFlag, CallerPlaces
  <1>7. ASSUME NEW c \in Callers, StopSocket(c) PROVE TypeOK'
    BY <1>7 DEF StopSocket, CallerPlaces, SocketStates
  <1>8. ASSUME NEW c \in Callers, StopLock(c) PROVE TypeOK'
    BY <1>8 DEF StopLock, CallerPlaces
  <1>9. ASSUME NEW c \in Callers, StopJoin(c) PROVE TypeOK'
    BY <1>9 DEF StopJoin, CallerPlaces, NoRun
  <1>10. ASSUME NEW r \in Runs, UseApproval(r) PROVE TypeOK'
    BY <1>10 DEF UseApproval, OnlyMoves, WorkerPlaces
  <1>11. ASSUME NEW r \in Runs, RequestApproval(r) PROVE TypeOK'
    BY <1>11 DEF RequestApproval, WorkerPlaces
  <1>12. ASSUME NEW r \in Runs, ApprovalGranted(r) PROVE TypeOK'
    BY <1>12 DEF ApprovalGranted, WorkerPlaces
  <1>13. ASSUME NEW r \in Runs, ApprovalRefused(r) PROVE TypeOK'
    <2>1. heard' \in [Runs -> Seq(Events)]
      BY <1>13, ReportTyped, EventsTyped DEF ApprovalRefused, Connected, Events
    <2> QED
      BY <1>13, <2>1 DEF ApprovalRefused, WorkerPlaces
  <1>14. ASSUME NEW r \in Runs, CheckEntry(r) PROVE TypeOK'
    BY <1>14 DEF CheckEntry, OnlyMoves, WorkerPlaces
  <1>15. ASSUME NEW r \in Runs, Register(r) PROVE TypeOK'
    BY <1>15 DEF Register, WorkerPlaces, SocketStates
  <1>16. ASSUME NEW r \in Runs, Resolve(r) PROVE TypeOK'
    BY <1>16 DEF Resolve, OnlyMoves, Throws, WorkerPlaces
  <1>17. ASSUME NEW r \in Runs, CheckResolved(r) PROVE TypeOK'
    BY <1>17 DEF CheckResolved, OnlyMoves, WorkerPlaces
  <1>18. ASSUME NEW r \in Runs, Connect(r) PROVE TypeOK'
    BY <1>18 DEF Connect, Throws, WorkerPlaces, SocketStates
  <1>19. ASSUME NEW r \in Runs, HandshakeCut(r) PROVE TypeOK'
    BY <1>19 DEF HandshakeCut, OnlyMoves, Throws, WorkerPlaces
  <1>20. ASSUME NEW r \in Runs, CheckShaken(r) PROVE TypeOK'
    BY <1>20 DEF CheckShaken, OnlyMoves, WorkerPlaces
  <1>21. ASSUME NEW r \in Runs, SubscribeNothing(r) PROVE TypeOK'
    <2>1. heard' \in [Runs -> Seq(Events)]
      BY <1>21, ReportTyped, EventsTyped DEF SubscribeNothing, Connected, Events
    <2> QED
      BY <1>21, <2>1 DEF SubscribeNothing, WorkerPlaces
  <1>22. ASSUME NEW r \in Runs, Subscribe(r) PROVE TypeOK'
    BY <1>22 DEF Subscribe, OnlyMoves, Throws, WorkerPlaces
  <1>23. ASSUME NEW r \in Runs, Loop(r) PROVE TypeOK'
    BY <1>23 DEF Loop, OnlyMoves, WorkerPlaces
  <1>24. ASSUME NEW r \in Runs, ReadCut(r) PROVE TypeOK'
    BY <1>24 DEF ReadCut, OnlyMoves, WorkerPlaces
  <1>25. ASSUME NEW r \in Runs, Pong(r) PROVE TypeOK'
    BY <1>25 DEF Pong, OnlyMoves, Throws, WorkerPlaces
  <1>26. ASSUME NEW r \in Runs, Deliver(r) PROVE TypeOK'
    BY <1>26 DEF Deliver, OnlyMoves, WorkerPlaces
  <1>27. ASSUME NEW r \in Runs, Emit(r) PROVE TypeOK'
    <2>1. heard' \in [Runs -> Seq(Events)]
      BY <1>27, ReportTyped, EventsTyped DEF Emit, Connected, Events
    <2> QED
      BY <1>27, <2>1 DEF Emit, WorkerPlaces
  <1>28. ASSUME NEW r \in Runs, CloseCut(r) PROVE TypeOK'
    BY <1>28 DEF CloseCut, OnlyMoves, WorkerPlaces
  <1>29. ASSUME NEW r \in Runs, FinalStatus(r) PROVE TypeOK'
    <2>1. heard' \in [Runs -> Seq(Events)]
      BY <1>29, ReportTyped, EventsTyped DEF FinalStatus, Connected, Events
    <2> QED
      BY <1>29, <2>1 DEF FinalStatus, WorkerPlaces
  <1>30. ASSUME NEW r \in Runs, Unregister(r) PROVE TypeOK'
    BY <1>30 DEF Unregister, WorkerPlaces, NoRun
  <1>31. ASSUME NEW r \in Runs, Destroy(r) PROVE TypeOK'
    BY <1>31 DEF Destroy, WorkerPlaces, SocketStates
  <1>32. ASSUME NEW r \in Runs, Catch(r) PROVE TypeOK'
    <2>1. heard' \in [Runs -> Seq(Events)]
      BY <1>32, ReportTyped, EventsTyped DEF Catch, Connected, Events
    <2> QED
      BY <1>32, <2>1 DEF Catch, WorkerPlaces
  <1>33. ASSUME NEW r \in Runs, End(r) PROVE TypeOK'
    <2>1. keys' \in [Runs -> 0 .. MaxKeys] /\ acks' \in [Runs -> 0 .. MaxKeys]
      <3>1. 0 \in 0 .. MaxKeys
        OBVIOUS
      <3> QED
        BY <1>33, <3>1 DEF End
    <2>2. worker' \in [Runs -> WorkerPlaces]
      BY <1>33 DEF End, WorkerPlaces
    <2> QED
      BY <1>33, <2>1, <2>2 DEF End
  <1>34. ASSUME NEW r \in Runs, HandshakeAnswered(r) PROVE TypeOK'
    BY <1>34 DEF HandshakeAnswered, OnlyMoves, Throws, WorkerPlaces
  <1>35. ASSUME NEW r \in Runs, CloseAnswered(r) PROVE TypeOK'
    BY <1>35 DEF CloseAnswered, WorkerPlaces, SocketStates
  <1>36. ASSUME NEW r \in Runs, ReadAccepted(r) PROVE TypeOK'
    <2>1. heard' \in [Runs -> Seq(Events)]
      BY <1>36, ReportTyped, EventsTyped DEF ReadAccepted, Connected, Events
    <2>2. acks' \in [Runs -> 0 .. MaxKeys]
      <3>1. acks[r] + 1 \in 0 .. MaxKeys
        BY <1>36 DEF ReadAccepted
      <3> QED
        BY <1>36, <3>1 DEF ReadAccepted
    <2>3. worker' \in [Runs -> WorkerPlaces]
      BY <1>36 DEF ReadAccepted, WorkerPlaces
    <2> QED
      BY <1>36, <2>1, <2>2, <2>3 DEF ReadAccepted
  <1>37. ASSUME NEW r \in Runs, ReadRejected(r) PROVE TypeOK'
    <2>1. heard' \in [Runs -> Seq(Events)]
      BY <1>37, ReportTyped, EventsTyped DEF ReadRejected, Connected, Events
    <2>2. acks' \in [Runs -> 0 .. MaxKeys]
      <3>1. acks[r] + 1 \in 0 .. MaxKeys
        BY <1>37 DEF ReadRejected
      <3> QED
        BY <1>37, <3>1 DEF ReadRejected
    <2>3. worker' \in [Runs -> WorkerPlaces]
      BY <1>37 DEF ReadRejected, WorkerPlaces
    <2> QED
      BY <1>37, <2>1, <2>2, <2>3 DEF ReadRejected
  <1>38. ASSUME NEW r \in Runs, ReadPing(r) PROVE TypeOK'
    BY <1>38 DEF ReadPing, OnlyMoves, WorkerPlaces
  <1>39. ASSUME NEW r \in Runs, ReadTick(r) PROVE TypeOK'
    <2>1. heard' \in [Runs -> Seq(Events)]
      BY <1>39, ReportTyped, EventsTyped DEF ReadTick, Connected, Events
    <2> QED
      BY <1>39, <2>1 DEF ReadTick, WorkerPlaces
  <1>40. ASSUME NEW r \in Runs, ReadBroken(r) PROVE TypeOK'
    BY <1>40 DEF ReadBroken, WorkerPlaces, SocketStates
  <1>41. CASE UNCHANGED vars
    BY <1>41 DEF vars
  <1> QED
    BY <1>1, <1>2, <1>3, <1>4, <1>5, <1>6, <1>7, <1>8, <1>9, <1>10, <1>11, <1>12, <1>13, <1>14, <1>15, <1>16, <1>17, <1>18, <1>19, <1>20, <1>21, <1>22, <1>23, <1>24, <1>25, <1>26, <1>27, <1>28, <1>29, <1>30, <1>31, <1>32, <1>33, <1>34, <1>35, <1>36, <1>37, <1>38, <1>39, <1>40, <1>41 DEF Next, Call, CallProceeds, WorkerProceeds, ServerActs

LEMMA CoreInit == Init => CoreInv
  <1> SUFFICES ASSUME Init PROVE CoreInv
    OBVIOUS
  <1>1. TypeOK
    <2>1. heard \in [Runs -> Seq(Events)]
      BY EventsTyped DEF Init
    <2>2. 0 \in 0 .. MaxKeys /\ 0 \in 0 .. MaxRuns
      BY StreamConstants
    <2> QED
      BY <2>1, <2>2 DEF Init, TypeOK, CallerPlaces, WorkerPlaces, SocketStates
  <1>2. LockInv /\ LatestInv
    BY DEF Init, LockInv, LatestInv, Live
  <1> QED
    BY <1>1, <1>2 DEF CoreInv

LEMMA CoreStep == CoreInv /\ [Next]_vars => CoreInv'
  <1> SUFFICES ASSUME CoreInv, [Next]_vars PROVE CoreInv'
    OBVIOUS
  <1>1. TypeOK'
    BY TypeStep DEF CoreInv
  <1>2. ASSUME NEW r \in Runs, WorkerProceeds(r) \/ ServerActs(r)
        PROVE  LockInv' /\ LatestInv'
    <2>1. WorkerMoves(r)
      BY <1>2, WorkerMovesLemma DEF CoreInv
    <2> QED
      BY <2>1 DEF WorkerMoves, CoreInv, TypeOK, LockInv, LatestInv, Live, Go
  <1> USE StreamConstants DEF CoreInv, TypeOK, LockInv, LatestInv, Live
  <1>3. ASSUME NEW c \in Callers, StartRefused(c) PROVE LockInv' /\ LatestInv'
    BY <1>3 DEF StartRefused, vars, sharedVars, approvalVars, runVars
  <1>4. ASSUME NEW c \in Callers, StartEnter(c) PROVE LockInv' /\ LatestInv'
    BY <1>4 DEF StartEnter, runVars
  <1>5. ASSUME NEW c \in Callers, StartJoin(c) PROVE LockInv' /\ LatestInv'
    BY <1>5 DEF StartJoin, runVars, Joined, NoRun
  <1>6. ASSUME NEW c \in Callers, StartSpawn(c) PROVE LockInv' /\ LatestInv'
    BY <1>6 DEF StartSpawn, Runs, NoRun
  <1>7. ASSUME NEW c \in Callers, StartThrows(c) PROVE LockInv' /\ LatestInv'
    BY <1>7 DEF StartThrows, runVars, NoRun
  <1>8. ASSUME NEW c \in Callers, StopFlag(c) PROVE LockInv' /\ LatestInv'
    BY <1>8 DEF StopFlag, Runs, runVars
  <1>9. ASSUME NEW c \in Callers, StopSocket(c) PROVE LockInv' /\ LatestInv'
    BY <1>9 DEF StopSocket, sharedVars
  <1>10. ASSUME NEW c \in Callers, StopLock(c) PROVE LockInv' /\ LatestInv'
    BY <1>10 DEF StopLock, runVars
  <1>11. ASSUME NEW c \in Callers, StopJoin(c) PROVE LockInv' /\ LatestInv'
    BY <1>11 DEF StopJoin, runVars, Joined, NoRun
  <1>12. CASE UNCHANGED vars
    BY <1>12 DEF vars, sharedVars, approvalVars, runVars
  <1> QED
    BY <1>1, <1>2, <1>3, <1>4, <1>5, <1>6, <1>7, <1>8, <1>9, <1>10, <1>11, <1>12 DEF Next, Call, CallProceeds

\* The invariant the other proofs rest on.
THEOREM Core == Safety => []CoreInv
  BY CoreInit, CoreStep, PTL DEF Safety

\* Type correctness of every reachable state.
THEOREM TypeCorrect == Safety => []TypeOK
  <1>1. CoreInv => TypeOK
    BY DEF CoreInv
  <1> QED
    BY Core, <1>1, PTL

\* However the callers interleave start() and stop(), two workers are never
\* alive together.
THEOREM OneWorker == Safety => []AtMostOneWorker
  <1>1. CoreInv => AtMostOneWorker
    BY DEF CoreInv, LatestInv, AtMostOneWorker
  <1> QED
    BY Core, <1>1, PTL

-----------------------------------------------------------------------------
(* The flag. *)

\* Only three steps change the flag, and each changes who is alive with it.
LEMMA FlagStep ==
  CoreInv /\ FlagTracksRun /\ [Next]_vars => FlagTracksRun'
  <1> SUFFICES ASSUME CoreInv, FlagTracksRun, [Next]_vars PROVE FlagTracksRun'
    OBVIOUS
  <1> USE DEF CoreInv, TypeOK, FlagTracksRun, LatestInv, Live
  <1>1. ASSUME NEW r \in Runs, End(r) PROVE FlagTracksRun'
    <2>1. \A s \in Runs : worker'[s] \in {"none", "done"}
      BY <1>1 DEF End, Go
    <2> QED
      BY <1>1, <2>1 DEF End
  <1>2. ASSUME NEW r \in Runs, WorkerProceeds(r) \/ ServerActs(r), ~End(r)
        PROVE  FlagTracksRun'
    <2>1. WorkerMoves(r)
      BY <1>2, WorkerMovesLemma
    <2>2. running' = running /\ worker'[r] # "done"
      <3>1. CASE UseApproval(r)
        BY <3>1 DEF UseApproval, OnlyMoves, Go, sharedVars, WorkerPlaces
      <3>2. CASE RequestApproval(r)
        BY <3>2 DEF RequestApproval, Go, sharedVars, WorkerPlaces
      <3>3. CASE ApprovalGranted(r)
        BY <3>3 DEF ApprovalGranted, Go, sharedVars, WorkerPlaces
      <3>4. CASE ApprovalRefused(r)
        BY <3>4 DEF ApprovalRefused, Go, sharedVars, WorkerPlaces
      <3>5. CASE CheckEntry(r)
        BY <3>5 DEF CheckEntry, OnlyMoves, Go, sharedVars, WorkerPlaces
      <3>6. CASE Register(r)
        BY <3>6 DEF Register, Go, sharedVars, WorkerPlaces
      <3>7. CASE Resolve(r)
        BY <3>7 DEF Resolve, OnlyMoves, Throws, Go, sharedVars, WorkerPlaces
      <3>8. CASE CheckResolved(r)
        BY <3>8 DEF CheckResolved, OnlyMoves, Go, sharedVars, WorkerPlaces
      <3>9. CASE Connect(r)
        BY <3>9 DEF Connect, Throws, Go, sharedVars, WorkerPlaces
      <3>10. CASE HandshakeCut(r)
        BY <3>10 DEF HandshakeCut, OnlyMoves, Throws, Go, sharedVars, WorkerPlaces
      <3>11. CASE CheckShaken(r)
        BY <3>11 DEF CheckShaken, OnlyMoves, Go, sharedVars, WorkerPlaces
      <3>12. CASE SubscribeNothing(r)
        BY <3>12 DEF SubscribeNothing, Go, sharedVars, WorkerPlaces
      <3>13. CASE Subscribe(r)
        BY <3>13 DEF Subscribe, OnlyMoves, Throws, Go, sharedVars, WorkerPlaces
      <3>14. CASE Loop(r)
        BY <3>14 DEF Loop, OnlyMoves, Go, sharedVars, WorkerPlaces
      <3>15. CASE ReadCut(r)
        BY <3>15 DEF ReadCut, OnlyMoves, Go, sharedVars, WorkerPlaces
      <3>16. CASE Pong(r)
        BY <3>16 DEF Pong, OnlyMoves, Throws, Go, sharedVars, WorkerPlaces
      <3>17. CASE Deliver(r)
        BY <3>17 DEF Deliver, OnlyMoves, Go, sharedVars, WorkerPlaces
      <3>18. CASE Emit(r)
        BY <3>18 DEF Emit, Go, sharedVars, WorkerPlaces
      <3>19. CASE CloseCut(r)
        BY <3>19 DEF CloseCut, OnlyMoves, Go, sharedVars, WorkerPlaces
      <3>20. CASE FinalStatus(r)
        BY <3>20 DEF FinalStatus, Go, sharedVars, WorkerPlaces
      <3>21. CASE Unregister(r)
        BY <3>21 DEF Unregister, Go, sharedVars, WorkerPlaces
      <3>22. CASE Destroy(r)
        BY <3>22 DEF Destroy, Go, sharedVars, WorkerPlaces
      <3>23. CASE Catch(r)
        BY <3>23 DEF Catch, Go, sharedVars, WorkerPlaces
      <3>24. CASE HandshakeAnswered(r)
        BY <3>24 DEF HandshakeAnswered, OnlyMoves, Throws, Go, sharedVars, WorkerPlaces
      <3>25. CASE CloseAnswered(r)
        BY <3>25 DEF CloseAnswered, Go, sharedVars, WorkerPlaces
      <3>26. CASE ReadAccepted(r)
        BY <3>26 DEF ReadAccepted, Go, sharedVars, WorkerPlaces
      <3>27. CASE ReadRejected(r)
        BY <3>27 DEF ReadRejected, Go, sharedVars, WorkerPlaces
      <3>28. CASE ReadPing(r)
        BY <3>28 DEF ReadPing, OnlyMoves, Go, sharedVars, WorkerPlaces
      <3>29. CASE ReadTick(r)
        BY <3>29 DEF ReadTick, Go, sharedVars, WorkerPlaces
      <3>30. CASE ReadBroken(r)
        BY <3>30 DEF ReadBroken, Go, sharedVars, WorkerPlaces
      <3> QED
        BY <1>2, <3>1, <3>2, <3>3, <3>4, <3>5, <3>6, <3>7, <3>8, <3>9, <3>10, <3>11, <3>12, <3>13, <3>14, <3>15, <3>16, <3>17, <3>18, <3>19, <3>20, <3>21, <3>22, <3>23, <3>24, <3>25, <3>26, <3>27, <3>28, <3>29, <3>30 DEF WorkerProceeds, ServerActs
    <2> QED
      BY <2>1, <2>2 DEF WorkerMoves, Go
  <1>3. ASSUME NEW c \in Callers, StartSpawn(c) PROVE FlagTracksRun'
    <2>1. started' \in Runs /\ started' > started
      BY <1>3, StreamConstants DEF StartSpawn, LockInv, Runs
    <2>2. worker'[started'] = "approval" /\ started' \notin stopped'
      BY <1>3, <2>1 DEF StartSpawn
    <2> QED
      BY <1>3, <2>1, <2>2 DEF StartSpawn
  <1>4. ASSUME NEW c \in Callers, StartThrows(c) PROVE FlagTracksRun'
    <2>1. \A s \in Runs : worker[s] \in {"none", "done"}
      BY <1>4 DEF StartThrows, LockInv, NoRun, Runs
    <2> QED
      BY <1>4, <2>1 DEF StartThrows, runVars
  <1>5. ASSUME NEW c \in Callers, StopFlag(c) PROVE FlagTracksRun'
    BY <1>5 DEF StopFlag, runVars
  <1>6. ASSUME NEW c \in Callers,
               StartRefused(c) \/ StartEnter(c) \/ StartJoin(c)
                 \/ StopSocket(c) \/ StopLock(c) \/ StopJoin(c)
        PROVE  FlagTracksRun'
    BY <1>6 DEF StartRefused, StartEnter, StartJoin, StopSocket, StopLock,
                StopJoin, vars, sharedVars, runVars
  <1>7. CASE UNCHANGED vars
    BY <1>7 DEF vars, sharedVars, runVars
  <1> QED
    BY <1>1, <1>2, <1>3, <1>4, <1>5, <1>6, <1>7 DEF Next, Call, CallProceeds

\* The flag shared by all runs is up exactly while a worker that nobody asked
\* to stop is alive, so no run can cancel the next one.
THEOREM FlagIsFaithful == Safety => []FlagTracksRun
  <1>1. Init => FlagTracksRun
    BY DEF Init, FlagTracksRun, Live
  <1> QED
    BY <1>1, FlagStep, Core, PTL DEF Safety

-----------------------------------------------------------------------------
(* The socket pointer. *)

\* Between Register and Unregister the worker is in one of these places.
Registered ==
  {"resolve", "resolved", "connect", "handshake", "shaken", "subscribe", "loop",
   "read", "pong", "deliver", "emit", "closing", "status", "unregister"}

SocketInv ==
  activeSocket # NoRun =>
    /\ worker[activeSocket] \in Registered
    /\ socket[activeSocket] \in {"closed", "open"}

LEMMA SocketStep == CoreInv /\ SocketInv /\ [Next]_vars => SocketInv'
  <1> SUFFICES ASSUME CoreInv, SocketInv, [Next]_vars PROVE SocketInv'
    OBVIOUS
  <1>0. /\ activeSocket \in Runs \cup {NoRun}
        /\ worker \in [Runs -> WorkerPlaces] /\ socket \in [Runs -> SocketStates]
    BY DEF CoreInv, TypeOK
  \* Whoever moves is the worker the pointer points to.
  <1>1. \A r \in Runs : Live(r) /\ activeSocket # NoRun => r = activeSocket
    BY <1>0 DEF CoreInv, LatestInv, SocketInv, Live, Registered
  <1>2. NoRun \notin Runs
    BY DEF Runs, NoRun
  <1> USE <1>0, <1>1, <1>2 DEF SocketInv, Live
  <1>3. ASSUME NEW r \in Runs, UseApproval(r) PROVE SocketInv'
    BY <1>3 DEF UseApproval, OnlyMoves, Go, sharedVars, Registered
  <1>4. ASSUME NEW r \in Runs, RequestApproval(r) PROVE SocketInv'
    BY <1>4 DEF RequestApproval, Go, sharedVars, Registered
  <1>5. ASSUME NEW r \in Runs, ApprovalGranted(r) PROVE SocketInv'
    BY <1>5 DEF ApprovalGranted, Go, sharedVars, Registered
  <1>6. ASSUME NEW r \in Runs, ApprovalRefused(r) PROVE SocketInv'
    BY <1>6 DEF ApprovalRefused, Go, sharedVars, Registered
  <1>7. ASSUME NEW r \in Runs, CheckEntry(r) PROVE SocketInv'
    BY <1>7 DEF CheckEntry, OnlyMoves, Go, sharedVars, Registered
  <1>8. ASSUME NEW r \in Runs, Register(r) PROVE SocketInv'
    BY <1>8 DEF Register, Go, sharedVars, Registered
  <1>9. ASSUME NEW r \in Runs, Resolve(r) PROVE SocketInv'
    BY <1>9 DEF Resolve, OnlyMoves, Throws, Go, sharedVars, Registered
  <1>10. ASSUME NEW r \in Runs, CheckResolved(r) PROVE SocketInv'
    BY <1>10 DEF CheckResolved, OnlyMoves, Go, sharedVars, Registered
  <1>11. ASSUME NEW r \in Runs, Connect(r) PROVE SocketInv'
    BY <1>11 DEF Connect, Throws, Go, sharedVars, Registered
  <1>12. ASSUME NEW r \in Runs, HandshakeCut(r) PROVE SocketInv'
    BY <1>12 DEF HandshakeCut, OnlyMoves, Throws, Go, sharedVars, Registered
  <1>13. ASSUME NEW r \in Runs, CheckShaken(r) PROVE SocketInv'
    BY <1>13 DEF CheckShaken, OnlyMoves, Go, sharedVars, Registered
  <1>14. ASSUME NEW r \in Runs, SubscribeNothing(r) PROVE SocketInv'
    BY <1>14 DEF SubscribeNothing, Go, sharedVars, Registered
  <1>15. ASSUME NEW r \in Runs, Subscribe(r) PROVE SocketInv'
    BY <1>15 DEF Subscribe, OnlyMoves, Throws, Go, sharedVars, Registered
  <1>16. ASSUME NEW r \in Runs, Loop(r) PROVE SocketInv'
    BY <1>16 DEF Loop, OnlyMoves, Go, sharedVars, Registered
  <1>17. ASSUME NEW r \in Runs, ReadCut(r) PROVE SocketInv'
    BY <1>17 DEF ReadCut, OnlyMoves, Go, sharedVars, Registered
  <1>18. ASSUME NEW r \in Runs, Pong(r) PROVE SocketInv'
    BY <1>18 DEF Pong, OnlyMoves, Throws, Go, sharedVars, Registered
  <1>19. ASSUME NEW r \in Runs, Deliver(r) PROVE SocketInv'
    BY <1>19 DEF Deliver, OnlyMoves, Go, sharedVars, Registered
  <1>20. ASSUME NEW r \in Runs, Emit(r) PROVE SocketInv'
    BY <1>20 DEF Emit, Go, sharedVars, Registered
  <1>21. ASSUME NEW r \in Runs, CloseCut(r) PROVE SocketInv'
    BY <1>21 DEF CloseCut, OnlyMoves, Go, sharedVars, Registered
  <1>22. ASSUME NEW r \in Runs, FinalStatus(r) PROVE SocketInv'
    BY <1>22 DEF FinalStatus, Go, sharedVars, Registered
  <1>23. ASSUME NEW r \in Runs, Unregister(r) PROVE SocketInv'
    BY <1>23 DEF Unregister, Go, sharedVars, Registered
  <1>24. ASSUME NEW r \in Runs, Destroy(r) PROVE SocketInv'
    BY <1>24 DEF Destroy, Go, sharedVars, Registered
  <1>25. ASSUME NEW r \in Runs, Catch(r) PROVE SocketInv'
    BY <1>25 DEF Catch, Go, sharedVars, Registered
  <1>26. ASSUME NEW r \in Runs, End(r) PROVE SocketInv'
    BY <1>26 DEF End, Go, sharedVars, Registered
  <1>27. ASSUME NEW r \in Runs, HandshakeAnswered(r) PROVE SocketInv'
    BY <1>27 DEF HandshakeAnswered, OnlyMoves, Throws, Go, sharedVars, Registered
  <1>28. ASSUME NEW r \in Runs, CloseAnswered(r) PROVE SocketInv'
    BY <1>28 DEF CloseAnswered, Go, sharedVars, Registered
  <1>29. ASSUME NEW r \in Runs, ReadAccepted(r) PROVE SocketInv'
    BY <1>29 DEF ReadAccepted, Go, sharedVars, Registered
  <1>30. ASSUME NEW r \in Runs, ReadRejected(r) PROVE SocketInv'
    BY <1>30 DEF ReadRejected, Go, sharedVars, Registered
  <1>31. ASSUME NEW r \in Runs, ReadPing(r) PROVE SocketInv'
    BY <1>31 DEF ReadPing, OnlyMoves, Go, sharedVars, Registered
  <1>32. ASSUME NEW r \in Runs, ReadTick(r) PROVE SocketInv'
    BY <1>32 DEF ReadTick, Go, sharedVars, Registered
  <1>33. ASSUME NEW r \in Runs, ReadBroken(r) PROVE SocketInv'
    BY <1>33 DEF ReadBroken, Go, sharedVars, Registered
  <1>34. ASSUME NEW c \in Callers, StartSpawn(c) PROVE SocketInv'
    <2>1. started' \in Runs /\ worker[started'] = "none"
      BY <1>34, StreamConstants DEF StartSpawn, CoreInv, LockInv, LatestInv, TypeOK, Runs
    <2> QED
      BY <1>34, <2>1 DEF StartSpawn, Registered
  <1>35. ASSUME NEW c \in Callers,
                Call(c) \/ StartJoin(c) \/ StartThrows(c)
                  \/ StopSocket(c) \/ StopLock(c) \/ StopJoin(c)
         PROVE  SocketInv'
    BY <1>35 DEF Call, StartRefused, StartEnter, StartJoin, StartThrows, StopFlag,
                 StopSocket, StopLock, StopJoin, vars, sharedVars, runVars
  <1>36. CASE UNCHANGED vars
    BY <1>36 DEF vars, sharedVars, runVars
  <1> QED
    BY <1>3, <1>4, <1>5, <1>6, <1>7, <1>8, <1>9, <1>10, <1>11, <1>12, <1>13, <1>14, <1>15, <1>16, <1>17, <1>18, <1>19, <1>20, <1>21, <1>22, <1>23, <1>24, <1>25, <1>26, <1>27, <1>28, <1>29, <1>30, <1>31, <1>32, <1>33, <1>34, <1>35, <1>36 DEF Next, CallProceeds, WorkerProceeds, ServerActs

\* stop() never closes a socket that has been destroyed or not constructed.
THEOREM SocketIsAlive == Safety => []SocketAlive
  <1>1. Init => SocketInv
    BY DEF Init, SocketInv
  <1>2. CoreInv /\ SocketInv => SocketAlive
    BY DEF SocketInv, SocketAlive, Live, Registered
  <1> QED
    BY <1>1, <1>2, SocketStep, Core, PTL DEF Safety

-----------------------------------------------------------------------------
(* The approval key. *)

\* Once past the approval step a worker's key is the cached one, and a cached
\* key was issued for the identity remembered with it.
Approved ==
  {"entry", "register", "resolve", "resolved", "connect", "handshake", "shaken",
   "subscribe"}

KeyInv ==
  /\ approvalKey # NoKey => approvalKey = approvalIdentity
  /\ \A r \in Runs : worker[r] \in Approved => approvalKey = identity[r]

LEMMA KeyStep == CoreInv /\ KeyInv /\ [Next]_vars => KeyInv'
  <1> SUFFICES ASSUME CoreInv, KeyInv, [Next]_vars PROVE KeyInv'
    OBVIOUS
  <1>1. /\ worker \in [Runs -> WorkerPlaces]
        /\ identity \in [Runs -> Identities \cup {NoKey}]
    BY DEF CoreInv, TypeOK
  <1>2. \A r, s \in Runs : Live(r) /\ worker[s] \in Approved => r = s
    BY DEF CoreInv, LatestInv, Live, Approved
  <1> USE <1>1, <1>2 DEF KeyInv, Live
  <1>3. ASSUME NEW r \in Runs, UseApproval(r) PROVE KeyInv'
    BY <1>3 DEF UseApproval, OnlyMoves, Go, approvalVars, Approved
  <1>4. ASSUME NEW r \in Runs, RequestApproval(r) PROVE KeyInv'
    BY <1>4 DEF RequestApproval, Go, approvalVars, Approved
  <1>5. ASSUME NEW r \in Runs, ApprovalGranted(r) PROVE KeyInv'
    BY <1>5 DEF ApprovalGranted, Go, approvalVars, Approved
  <1>6. ASSUME NEW r \in Runs, ApprovalRefused(r) PROVE KeyInv'
    BY <1>6 DEF ApprovalRefused, Go, approvalVars, Approved
  <1>7. ASSUME NEW r \in Runs, CheckEntry(r) PROVE KeyInv'
    BY <1>7 DEF CheckEntry, OnlyMoves, Go, approvalVars, Approved
  <1>8. ASSUME NEW r \in Runs, Register(r) PROVE KeyInv'
    BY <1>8 DEF Register, Go, approvalVars, Approved
  <1>9. ASSUME NEW r \in Runs, Resolve(r) PROVE KeyInv'
    BY <1>9 DEF Resolve, OnlyMoves, Throws, Go, approvalVars, Approved
  <1>10. ASSUME NEW r \in Runs, CheckResolved(r) PROVE KeyInv'
    BY <1>10 DEF CheckResolved, OnlyMoves, Go, approvalVars, Approved
  <1>11. ASSUME NEW r \in Runs, Connect(r) PROVE KeyInv'
    BY <1>11 DEF Connect, Throws, Go, approvalVars, Approved
  <1>12. ASSUME NEW r \in Runs, HandshakeCut(r) PROVE KeyInv'
    BY <1>12 DEF HandshakeCut, OnlyMoves, Throws, Go, approvalVars, Approved
  <1>13. ASSUME NEW r \in Runs, CheckShaken(r) PROVE KeyInv'
    BY <1>13 DEF CheckShaken, OnlyMoves, Go, approvalVars, Approved
  <1>14. ASSUME NEW r \in Runs, SubscribeNothing(r) PROVE KeyInv'
    BY <1>14 DEF SubscribeNothing, Go, approvalVars, Approved
  <1>15. ASSUME NEW r \in Runs, Subscribe(r) PROVE KeyInv'
    BY <1>15 DEF Subscribe, OnlyMoves, Throws, Go, approvalVars, Approved
  <1>16. ASSUME NEW r \in Runs, Loop(r) PROVE KeyInv'
    BY <1>16 DEF Loop, OnlyMoves, Go, approvalVars, Approved
  <1>17. ASSUME NEW r \in Runs, ReadCut(r) PROVE KeyInv'
    BY <1>17 DEF ReadCut, OnlyMoves, Go, approvalVars, Approved
  <1>18. ASSUME NEW r \in Runs, Pong(r) PROVE KeyInv'
    BY <1>18 DEF Pong, OnlyMoves, Throws, Go, approvalVars, Approved
  <1>19. ASSUME NEW r \in Runs, Deliver(r) PROVE KeyInv'
    BY <1>19 DEF Deliver, OnlyMoves, Go, approvalVars, Approved
  <1>20. ASSUME NEW r \in Runs, Emit(r) PROVE KeyInv'
    BY <1>20 DEF Emit, Go, approvalVars, Approved
  <1>21. ASSUME NEW r \in Runs, CloseCut(r) PROVE KeyInv'
    BY <1>21 DEF CloseCut, OnlyMoves, Go, approvalVars, Approved
  <1>22. ASSUME NEW r \in Runs, FinalStatus(r) PROVE KeyInv'
    BY <1>22 DEF FinalStatus, Go, approvalVars, Approved
  <1>23. ASSUME NEW r \in Runs, Unregister(r) PROVE KeyInv'
    BY <1>23 DEF Unregister, Go, approvalVars, Approved
  <1>24. ASSUME NEW r \in Runs, Destroy(r) PROVE KeyInv'
    BY <1>24 DEF Destroy, Go, approvalVars, Approved
  <1>25. ASSUME NEW r \in Runs, Catch(r) PROVE KeyInv'
    BY <1>25 DEF Catch, Go, approvalVars, Approved
  <1>26. ASSUME NEW r \in Runs, End(r) PROVE KeyInv'
    BY <1>26 DEF End, Go, approvalVars, Approved
  <1>27. ASSUME NEW r \in Runs, HandshakeAnswered(r) PROVE KeyInv'
    BY <1>27 DEF HandshakeAnswered, OnlyMoves, Throws, Go, approvalVars, Approved
  <1>28. ASSUME NEW r \in Runs, CloseAnswered(r) PROVE KeyInv'
    BY <1>28 DEF CloseAnswered, Go, approvalVars, Approved
  <1>29. ASSUME NEW r \in Runs, ReadAccepted(r) PROVE KeyInv'
    BY <1>29 DEF ReadAccepted, Go, approvalVars, Approved
  <1>30. ASSUME NEW r \in Runs, ReadRejected(r) PROVE KeyInv'
    BY <1>30 DEF ReadRejected, Go, approvalVars, Approved
  <1>31. ASSUME NEW r \in Runs, ReadPing(r) PROVE KeyInv'
    BY <1>31 DEF ReadPing, OnlyMoves, Go, approvalVars, Approved
  <1>32. ASSUME NEW r \in Runs, ReadTick(r) PROVE KeyInv'
    BY <1>32 DEF ReadTick, Go, approvalVars, Approved
  <1>33. ASSUME NEW r \in Runs, ReadBroken(r) PROVE KeyInv'
    BY <1>33 DEF ReadBroken, Go, approvalVars, Approved
  <1>34. ASSUME NEW c \in Callers, StartSpawn(c) PROVE KeyInv'
    <2>1. started' \in Runs
      BY <1>34, StreamConstants DEF StartSpawn, CoreInv, LockInv, TypeOK, Runs
    <2> QED
      BY <1>34, <2>1 DEF StartSpawn, approvalVars, Approved
  <1>35. ASSUME NEW c \in Callers,
                Call(c) \/ StartJoin(c) \/ StartThrows(c)
                  \/ StopSocket(c) \/ StopLock(c) \/ StopJoin(c)
         PROVE  KeyInv'
    BY <1>35 DEF Call, StartRefused, StartEnter, StartJoin, StartThrows, StopFlag,
                 StopSocket, StopLock, StopJoin, vars, approvalVars, runVars
  <1>36. CASE UNCHANGED vars
    BY <1>36 DEF vars, approvalVars, runVars
  <1> QED
    BY <1>3, <1>4, <1>5, <1>6, <1>7, <1>8, <1>9, <1>10, <1>11, <1>12, <1>13, <1>14, <1>15, <1>16, <1>17, <1>18, <1>19, <1>20, <1>21, <1>22, <1>23, <1>24, <1>25, <1>26, <1>27, <1>28, <1>29, <1>30, <1>31, <1>32, <1>33, <1>34, <1>35, <1>36 DEF Next, CallProceeds, WorkerProceeds, ServerActs

\* The subscription requests of a run carry an approval key issued for the
\* credentials the run was started with.
THEOREM KeyIsOwn == Safety => []KeyBelongsToRun
  <1>1. Init => KeyInv
    BY DEF Init, KeyInv, Approved
  <1>2. KeyInv => KeyBelongsToRun
    BY DEF KeyInv, KeyBelongsToRun, Approved
  <1> QED
    BY <1>1, <1>2, KeyStep, Core, PTL DEF Safety

-----------------------------------------------------------------------------
(* What a returning stop() leaves behind. *)

\* When stop() returns there is no worker left to call back.
THEOREM StopIsFinal == Safety => StopLeavesNoWorker
  <1> DEFINE Quiet ==
        \A c \in Callers :
          caller[c] = "join" /\ caller'[c] = "idle" => \A r \in Runs : ~Live(r)'
  <1>1. CoreInv /\ [Next]_vars => Quiet
    <2> SUFFICES ASSUME CoreInv, [Next]_vars,
                        NEW c \in Callers, caller[c] = "join", caller'[c] = "idle"
                 PROVE  \A r \in Runs : ~Live(r)'
      OBVIOUS
    <2>1. CASE StopJoin(c)
      BY <2>1 DEF StopJoin, Joined, CoreInv, LatestInv, Live, NoRun, Runs, runVars
    <2>2. ASSUME NEW d \in Callers, Call(d) \/ CallProceeds(d), ~StopJoin(c)
          PROVE  FALSE
      BY <2>2 DEF Call, CallProceeds, StartRefused, StartEnter, StartJoin,
                  StartSpawn, StartThrows, StopFlag, StopSocket, StopLock, StopJoin,
                  CoreInv, TypeOK, vars
    <2>3. ASSUME NEW r \in Runs, WorkerProceeds(r) \/ ServerActs(r) PROVE FALSE
      BY <2>3, WorkerMovesLemma DEF WorkerMoves, CoreInv
    <2>4. CASE UNCHANGED vars
      BY <2>4 DEF vars
    <2> QED
      BY <2>1, <2>2, <2>3, <2>4 DEF Next
  <1>2. CoreInv /\ CoreInv' /\ [Next]_vars => [Quiet]_vars
    BY <1>1
  <1> QED
    BY <1>2, Core, PTL DEF Safety, StopLeavesNoWorker

-----------------------------------------------------------------------------
(***************************************************************************)
(* StreamClient implements StreamPromise: every step of a caller or of a   *)
(* worker is a step of the abstract stream or leaves it unchanged.  The    *)
(* argument needs, beyond CoreInv and the flag, what each place in run()   *)
(* says about the callbacks already made (HistoryInv).                     *)
(***************************************************************************)

\* The worker may still report its end: it has not done so yet.
MayClose(r) ==
  \/ worker[r] \in {"approval", "token", "entry", "register", "resolve",
                    "resolved", "connect", "handshake", "shaken", "subscribe",
                    "loop", "read", "pong", "deliver", "emit", "closing",
                    "status", "catch"}
  \/ worker[r] \in {"unregister", "destroy"} /\ thrown[r]

\* The worker is leaving and reports nothing more.
Leaving(r) ==
  \/ worker[r] \in {"unregister", "destroy"} /\ ~thrown[r]
  \/ worker[r] = "end"

History(r) ==
  /\ worker[r] = "none" => heard[r] = << >> /\ ~notified[r] /\ ~thrown[r]
  /\ Live(r) => (notified[r] <=> Promise!Said(heard[r], "connected"))
  /\ worker[r] \in {"deliver", "emit"} => notified[r]
  /\ thrown[r] => worker[r] \in {"unregister", "destroy", "catch", "end"}
  /\ MayClose(r) => ~Promise!Closed(heard[r])
  /\ Leaving(r) => r \in stopped \/ Promise!Closed(heard[r])

HistoryInv == \A r \in Runs : History(r)

StreamInv == CoreInv /\ FlagTracksRun /\ HistoryInv

-----------------------------------------------------------------------------
(* Sequences of callbacks. *)

LEMMA ReportOne ==
  ASSUME NEW s \in Seq(Events), NEW e \in Events
  PROVE  /\ s \o <<e>> = Append(s, e)
         /\ \A x : Promise!Said(s \o <<e>>, x) <=> Promise!Said(s, x) \/ x = e
         /\ Promise!Closed(s \o <<e>>)
              <=> Promise!Closed(s) \/ e \in {"failed", "disconnected"}
  <1>1. s \o <<e>> = Append(s, e)
    OBVIOUS
  <1>2. /\ Len(Append(s, e)) = Len(s) + 1 /\ Len(s) \in Nat
        /\ DOMAIN s = 1 .. Len(s) /\ DOMAIN Append(s, e) = 1 .. (Len(s) + 1)
        /\ \A i \in 1 .. Len(s) : Append(s, e)[i] = s[i]
        /\ Append(s, e)[Len(s) + 1] = e
    OBVIOUS
  <1>3. ASSUME NEW x
        PROVE  Promise!Said(s \o <<e>>, x) <=> Promise!Said(s, x) \/ x = e
    BY <1>1, <1>2 DEF Promise!Said
  <1>4. Promise!Closed(s \o <<e>>)
          <=> Promise!Closed(s) \/ e \in {"failed", "disconnected"}
    BY <1>3 DEF Promise!Closed, Promise!Final
  <1> QED
    BY <1>1, <1>3, <1>4

LEMMA ReportNone ==
  /\ \A s \in Seq(Events) : s \o << >> = s
  /\ \A x : ~Promise!Said(<< >>, x)
  /\ ~Promise!Closed(<< >>)
  BY DEF Promise!Said, Promise!Closed

-----------------------------------------------------------------------------
(* The moving worker's history; everybody else's is left alone. *)

LEMMA OthersUnmoved ==
  ASSUME TypeOK, NEW r \in Runs, WorkerProceeds(r) \/ ServerActs(r),
         NEW s \in Runs, s # r
  PROVE  /\ worker'[s] = worker[s] /\ heard'[s] = heard[s]
         /\ notified'[s] = notified[s] /\ thrown'[s] = thrown[s]
  <1> USE DEF TypeOK, Go, Report, runVars
  <1>1. CASE UseApproval(r)
    BY <1>1 DEF UseApproval, OnlyMoves
  <1>2. CASE RequestApproval(r)
    BY <1>2 DEF RequestApproval
  <1>3. CASE ApprovalGranted(r)
    BY <1>3 DEF ApprovalGranted
  <1>4. CASE ApprovalRefused(r)
    BY <1>4 DEF ApprovalRefused
  <1>5. CASE CheckEntry(r)
    BY <1>5 DEF CheckEntry, OnlyMoves
  <1>6. CASE Register(r)
    BY <1>6 DEF Register
  <1>7. CASE Resolve(r)
    BY <1>7 DEF Resolve, OnlyMoves, Throws
  <1>8. CASE CheckResolved(r)
    BY <1>8 DEF CheckResolved, OnlyMoves
  <1>9. CASE Connect(r)
    BY <1>9 DEF Connect, Throws
  <1>10. CASE HandshakeCut(r)
    BY <1>10 DEF HandshakeCut, OnlyMoves, Throws
  <1>11. CASE CheckShaken(r)
    BY <1>11 DEF CheckShaken, OnlyMoves
  <1>12. CASE SubscribeNothing(r)
    BY <1>12 DEF SubscribeNothing
  <1>13. CASE Subscribe(r)
    BY <1>13 DEF Subscribe, OnlyMoves, Throws
  <1>14. CASE Loop(r)
    BY <1>14 DEF Loop, OnlyMoves
  <1>15. CASE ReadCut(r)
    BY <1>15 DEF ReadCut, OnlyMoves
  <1>16. CASE Pong(r)
    BY <1>16 DEF Pong, OnlyMoves, Throws
  <1>17. CASE Deliver(r)
    BY <1>17 DEF Deliver, OnlyMoves
  <1>18. CASE Emit(r)
    BY <1>18 DEF Emit
  <1>19. CASE CloseCut(r)
    BY <1>19 DEF CloseCut, OnlyMoves
  <1>20. CASE FinalStatus(r)
    BY <1>20 DEF FinalStatus
  <1>21. CASE Unregister(r)
    BY <1>21 DEF Unregister
  <1>22. CASE Destroy(r)
    BY <1>22 DEF Destroy
  <1>23. CASE Catch(r)
    BY <1>23 DEF Catch
  <1>24. CASE End(r)
    BY <1>24 DEF End
  <1>25. CASE HandshakeAnswered(r)
    BY <1>25 DEF HandshakeAnswered, OnlyMoves, Throws
  <1>26. CASE CloseAnswered(r)
    BY <1>26 DEF CloseAnswered
  <1>27. CASE ReadAccepted(r)
    BY <1>27 DEF ReadAccepted
  <1>28. CASE ReadRejected(r)
    BY <1>28 DEF ReadRejected
  <1>29. CASE ReadPing(r)
    BY <1>29 DEF ReadPing, OnlyMoves
  <1>30. CASE ReadTick(r)
    BY <1>30 DEF ReadTick
  <1>31. CASE ReadBroken(r)
    BY <1>31 DEF ReadBroken
  <1> QED
    BY <1>1, <1>2, <1>3, <1>4, <1>5, <1>6, <1>7, <1>8, <1>9, <1>10, <1>11, <1>12, <1>13, <1>14, <1>15, <1>16, <1>17, <1>18, <1>19, <1>20, <1>21, <1>22, <1>23, <1>24, <1>25, <1>26, <1>27, <1>28, <1>29, <1>30, <1>31 DEF WorkerProceeds, ServerActs

LEMMA OwnHistory ==
  ASSUME StreamInv, NEW r \in Runs, WorkerProceeds(r) \/ ServerActs(r)
  PROVE  History(r)'
  <1>1. /\ worker \in [Runs -> WorkerPlaces] /\ heard \in [Runs -> Seq(Events)]
        /\ notified \in [Runs -> BOOLEAN] /\ thrown \in [Runs -> BOOLEAN]
    BY DEF StreamInv, CoreInv, TypeOK
  <1>2. heard[r] \in Seq(Events)
    BY <1>1
  <1>3. /\ Live(r) /\ stopped' = stopped
        /\ ~running => r \in stopped
    BY WorkerMovesLemma DEF StreamInv, CoreInv, FlagTracksRun, WorkerMoves
  <1>4. History(r)
    BY DEF StreamInv, HistoryInv
  <1>5. ASSUME NEW e \in Events, heard' = [heard EXCEPT ![r] = @ \o <<e>>]
        PROVE  /\ \A x : Promise!Said(heard'[r], x) <=> Promise!Said(heard[r], x) \/ x = e
               /\ Promise!Closed(heard'[r])
                    <=> Promise!Closed(heard[r]) \/ e \in {"failed", "disconnected"}
    BY <1>1, <1>2, <1>5, ReportOne
  <1>6. ASSUME heard' = [heard EXCEPT ![r] = @ \o << >>] PROVE heard'[r] = heard[r]
    BY <1>1, <1>2, <1>6, ReportNone
  <1> USE <1>1, <1>3, <1>4 DEF History, Live, MayClose, Leaving, Go, runVars
  <1>7. CASE UseApproval(r)
    BY <1>7 DEF UseApproval, OnlyMoves
  <1>8. CASE RequestApproval(r)
    BY <1>8 DEF RequestApproval
  <1>9. CASE ApprovalGranted(r)
    BY <1>9 DEF ApprovalGranted
  <1>10. CASE ApprovalRefused(r)
    <2>1. heard' = [heard EXCEPT ![r] = @ \o <<"failed">>]
      BY <1>10 DEF ApprovalRefused, Report
    <2> QED
      BY <1>10, <1>5, <2>1 DEF ApprovalRefused, Events
  <1>11. CASE CheckEntry(r)
    BY <1>11 DEF CheckEntry, OnlyMoves
  <1>12. CASE Register(r)
    BY <1>12 DEF Register
  <1>13. CASE Resolve(r)
    BY <1>13 DEF Resolve, OnlyMoves, Throws
  <1>14. CASE CheckResolved(r)
    BY <1>14 DEF CheckResolved, OnlyMoves
  <1>15. CASE Connect(r)
    BY <1>15 DEF Connect, Throws
  <1>16. CASE HandshakeCut(r)
    BY <1>16 DEF HandshakeCut, OnlyMoves, Throws
  <1>17. CASE CheckShaken(r)
    BY <1>17 DEF CheckShaken, OnlyMoves
  <1>18. CASE SubscribeNothing(r)
    <2>1. heard' = [heard EXCEPT ![r] = @ \o <<"failed">>]
      BY <1>18 DEF SubscribeNothing, Report
    <2> QED
      BY <1>18, <1>5, <2>1 DEF SubscribeNothing, Events
  <1>19. CASE Subscribe(r)
    BY <1>19 DEF Subscribe, OnlyMoves, Throws
  <1>20. CASE Loop(r)
    BY <1>20 DEF Loop, OnlyMoves
  <1>21. CASE ReadCut(r)
    BY <1>21 DEF ReadCut, OnlyMoves
  <1>22. CASE Pong(r)
    BY <1>22 DEF Pong, OnlyMoves, Throws
  <1>23. CASE Deliver(r)
    BY <1>23 DEF Deliver, OnlyMoves
  <1>24. CASE Emit(r)
    <2>1. heard' = [heard EXCEPT ![r] = @ \o <<"tick">>]
      BY <1>24 DEF Emit, Report
    <2> QED
      BY <1>24, <1>5, <2>1 DEF Emit, Events
  <1>25. CASE CloseCut(r)
    BY <1>25 DEF CloseCut, OnlyMoves
  <1>26. CASE FinalStatus(r)
    <2>1. PICK e \in {"failed", "disconnected"} : heard' = [heard EXCEPT ![r] = @ \o <<e>>]
      BY <1>26 DEF FinalStatus, Report
    <2> QED
      BY <1>26, <1>5, <2>1 DEF FinalStatus, Events
  <1>27. CASE Unregister(r)
    BY <1>27 DEF Unregister
  <1>28. CASE Destroy(r)
    BY <1>28 DEF Destroy
  <1>29. CASE Catch(r)
    <2>1. CASE running
      <3>1. heard' = [heard EXCEPT ![r] = @ \o <<"failed">>]
        BY <1>29, <2>1 DEF Catch, Report
      <3> QED
        BY <1>29, <1>5, <3>1 DEF Catch, Events
    <2>2. CASE ~running
      <3>1. heard'[r] = heard[r]
        BY <1>29, <1>6, <2>2 DEF Catch, Report
      <3> QED
        BY <1>29, <2>2, <3>1 DEF Catch
    <2> QED
      BY <2>1, <2>2
  <1>30. CASE End(r)
    BY <1>30 DEF End
  <1>31. CASE HandshakeAnswered(r)
    BY <1>31 DEF HandshakeAnswered, OnlyMoves, Throws
  <1>32. CASE CloseAnswered(r)
    BY <1>32 DEF CloseAnswered
  <1>33. CASE ReadAccepted(r)
    <2>1. CASE notified[r]
      <3>1. heard'[r] = heard[r]
        BY <1>33, <1>6, <2>1 DEF ReadAccepted, Report, Connected
      <3> QED
        BY <1>33, <2>1, <3>1 DEF ReadAccepted
    <2>2. CASE ~notified[r]
      <3>1. heard' = [heard EXCEPT ![r] = @ \o <<"connected">>]
        BY <1>33, <2>2 DEF ReadAccepted, Report, Connected
      <3> QED
        BY <1>33, <1>5, <3>1 DEF ReadAccepted, Events
    <2> QED
      BY <2>1, <2>2
  <1>34. CASE ReadRejected(r)
    <2>1. CASE acks'[r] >= keys[r] /\ ~accepted[r]
      <3>1. heard' = [heard EXCEPT ![r] = @ \o <<"failed">>]
        BY <1>34, <2>1 DEF ReadRejected, Report
      <3> QED
        BY <1>34, <1>5, <2>1, <3>1 DEF ReadRejected, Events
    <2>2. CASE ~(acks'[r] >= keys[r] /\ ~accepted[r])
      <3>1. heard'[r] = heard[r]
        BY <1>34, <1>6, <2>2 DEF ReadRejected, Report
      <3> QED
        BY <1>34, <2>2, <3>1 DEF ReadRejected
    <2> QED
      BY <2>1, <2>2
  <1>35. CASE ReadPing(r)
    BY <1>35 DEF ReadPing, OnlyMoves
  <1>36. CASE ReadTick(r)
    <2>1. CASE notified[r]
      <3>1. heard'[r] = heard[r]
        BY <1>36, <1>6, <2>1 DEF ReadTick, Report, Connected
      <3> QED
        BY <1>36, <2>1, <3>1 DEF ReadTick
    <2>2. CASE ~notified[r]
      <3>1. heard' = [heard EXCEPT ![r] = @ \o <<"connected">>]
        BY <1>36, <2>2 DEF ReadTick, Report, Connected
      <3> QED
        BY <1>36, <1>5, <3>1 DEF ReadTick, Events
    <2> QED
      BY <2>1, <2>2
  <1>37. CASE ReadBroken(r)
    BY <1>37 DEF ReadBroken
  <1> QED
    BY <1>7, <1>8, <1>9, <1>10, <1>11, <1>12, <1>13, <1>14, <1>15, <1>16, <1>17, <1>18, <1>19, <1>20, <1>21, <1>22, <1>23, <1>24, <1>25, <1>26, <1>27, <1>28, <1>29, <1>30, <1>31, <1>32, <1>33, <1>34, <1>35, <1>36, <1>37 DEF WorkerProceeds, ServerActs

LEMMA HistoryStep == StreamInv /\ [Next]_vars => HistoryInv'
  <1> SUFFICES ASSUME StreamInv, [Next]_vars PROVE HistoryInv'
    OBVIOUS
  <1>1. ASSUME NEW r \in Runs, WorkerProceeds(r) \/ ServerActs(r)
        PROVE  HistoryInv'
    <2> SUFFICES ASSUME NEW s \in Runs PROVE History(s)'
      BY DEF HistoryInv
    <2>1. CASE s = r
      BY <1>1, <2>1, OwnHistory
    <2>2. CASE s # r
      <3>1. stopped' = stopped
        BY <1>1, WorkerMovesLemma DEF WorkerMoves, StreamInv, CoreInv
      <3>2. /\ worker'[s] = worker[s] /\ heard'[s] = heard[s]
            /\ notified'[s] = notified[s] /\ thrown'[s] = thrown[s]
        BY <1>1, <2>2, OthersUnmoved DEF StreamInv, CoreInv
      <3> QED
        BY <3>1, <3>2 DEF StreamInv, HistoryInv, History, Live, MayClose, Leaving
    <2> QED
      BY <2>1, <2>2
  <1>2. ASSUME NEW c \in Callers, StartSpawn(c) PROVE HistoryInv'
    <2>1. started' \in Runs /\ worker[started'] = "none"
      BY <1>2, StreamConstants
         DEF StartSpawn, StreamInv, CoreInv, LockInv, LatestInv, TypeOK, Runs
    <2>2. worker \in [Runs -> WorkerPlaces]
      BY DEF StreamInv, CoreInv, TypeOK
    <2>3. heard[started'] = << >> /\ ~notified[started'] /\ ~thrown[started']
      BY <2>1 DEF StreamInv, HistoryInv, History
    <2>4. worker' = [worker EXCEPT ![started'] = "approval"]
          /\ UNCHANGED <<heard, notified, thrown, stopped>>
      BY <1>2 DEF StartSpawn
    <2> SUFFICES ASSUME NEW s \in Runs PROVE History(s)'
      BY DEF HistoryInv
    <2>5. History(s)
      BY DEF StreamInv, HistoryInv
    <2>6. CASE s = started'
      BY <2>1, <2>2, <2>3, <2>4, <2>6, ReportNone DEF History, Live, MayClose, Leaving
    <2>7. CASE s # started'
      BY <2>1, <2>2, <2>4, <2>5, <2>7 DEF History, Live, MayClose, Leaving
    <2> QED
      BY <2>6, <2>7
  <1>3. ASSUME /\ UNCHANGED <<worker, heard, notified, thrown>>
               /\ stopped \subseteq stopped'
        PROVE  HistoryInv'
    BY <1>3 DEF StreamInv, HistoryInv, History, Live, MayClose, Leaving
  <1>4. ASSUME NEW c \in Callers,
               Call(c) \/ StartJoin(c) \/ StartThrows(c)
                 \/ StopSocket(c) \/ StopLock(c) \/ StopJoin(c)
        PROVE  /\ UNCHANGED <<worker, heard, notified, thrown>>
               /\ stopped \subseteq stopped'
    BY <1>4 DEF Call, StartRefused, StartEnter, StartJoin, StartThrows, StopFlag,
                StopSocket, StopLock, StopJoin, vars, runVars
  <1>5. CASE UNCHANGED vars
    BY <1>3, <1>5 DEF vars, runVars
  <1> QED
    BY <1>1, <1>2, <1>3, <1>4, <1>5 DEF Next, CallProceeds

LEMMA StreamInvariant == Safety => []StreamInv
  <1>1. Init => HistoryInv
    BY ReportNone DEF Init, HistoryInv, History, Live, MayClose, Leaving
  <1>2. StreamInv /\ [Next]_vars => HistoryInv'
    BY HistoryStep
  <1>3. StreamInv <=> CoreInv /\ FlagTracksRun /\ HistoryInv
    BY DEF StreamInv
  <1> QED
    BY <1>1, <1>2, <1>3, Core, FlagIsFaithful, PTL DEF Safety

-----------------------------------------------------------------------------
(* Every step is a step of the promise. *)

LEMMA PromiseStep ==
  StreamInv /\ StreamInv' /\ [Next]_vars => [Promise!Next]_(Promise!vars)
  <1> SUFFICES ASSUME StreamInv, StreamInv', [Next]_vars
               PROVE  Promise!Next \/ UNCHANGED Promise!vars
    BY DEF Promise!vars
  <1> DEFINE live == \E r \in Runs : Live(r)
             stopping == started \in stopped
  <1>1. /\ heard \in [Runs -> Seq(Events)] /\ worker \in [Runs -> WorkerPlaces]
        /\ \A r \in Runs : Live(r) => r = started
        /\ \A r \in Runs : Live(r)' => r = started'
        /\ \A r \in Runs : r > started => r \notin stopped
    BY DEF StreamInv, CoreInv, TypeOK, LatestInv
  <1>2. ASSUME NEW r \in Runs, WorkerProceeds(r) \/ ServerActs(r)
        PROVE  Promise!Next \/ UNCHANGED Promise!vars
    <2>1. /\ Live(r) /\ r = started /\ UNCHANGED <<started, stopped>>
          /\ live /\ worker' = [worker EXCEPT ![r] = worker'[r]]
      BY <1>1, <1>2, WorkerMovesLemma DEF WorkerMoves, StreamInv, CoreInv, Go
    <2>2. /\ History(r) /\ heard[r] \in Seq(Events)
          /\ ~running => r \in stopped
      BY <1>1, <2>1 DEF StreamInv, HistoryInv, FlagTracksRun
    \* A report of one event is a call of the promise.
    <2>3. ASSUME NEW e \in Events, heard' = [heard EXCEPT ![r] = @ \o <<e>>],
                 worker'[r] # "done", worker'[r] # "none",
                 ~Promise!Closed(heard[r]),
                 e = "connected" => ~Promise!Said(heard[r], "connected"),
                 e = "tick" => Promise!Said(heard[r], "connected"),
                 e = "disconnected" => r \in stopped
          PROVE  Promise!Next
      <3>1. live' = live
        BY <1>1, <2>1, <2>3 DEF Live
      <3>2. heard' = [heard EXCEPT ![started] = Append(@, e)]
        BY <1>1, <2>1, <2>2, <2>3, ReportOne
      <3>3. Promise!MayFollow(heard[started], e)
        BY <2>1, <2>3 DEF Promise!MayFollow
      <3>4. Promise!Call(e)
        BY <2>1, <3>1, <3>2, <3>3 DEF Promise!Call
      <3> QED
        BY <2>3, <3>4 DEF Promise!Next, Promise!Events, Promise!Final, Events
    <2>4. ASSUME UNCHANGED heard, worker'[r] # "done", worker'[r] # "none"
          PROVE  UNCHANGED Promise!vars
      <3>1. live' = live
        BY <1>1, <2>1, <2>4 DEF Live
      <3> QED
        BY <2>1, <2>4, <3>1 DEF Promise!vars
    <2>5. ASSUME heard' = [heard EXCEPT ![r] = @ \o << >>] PROVE UNCHANGED heard
      BY <1>1, <2>2, <2>5, ReportNone
    <2>6. CASE UseApproval(r)
      <3>1. UNCHANGED heard /\ worker'[r] # "done" /\ worker'[r] # "none"
        BY <1>1, <2>6 DEF UseApproval, OnlyMoves, Go
      <3> QED
        BY <2>4, <3>1
    <2>7. CASE RequestApproval(r)
      <3>1. UNCHANGED heard /\ worker'[r] # "done" /\ worker'[r] # "none"
        BY <1>1, <2>7 DEF RequestApproval, Go
      <3> QED
        BY <2>4, <3>1
    <2>8. CASE ApprovalGranted(r)
      <3>1. UNCHANGED heard /\ worker'[r] # "done" /\ worker'[r] # "none"
        BY <1>1, <2>8 DEF ApprovalGranted, Go
      <3> QED
        BY <2>4, <3>1
    <2>9. CASE ApprovalRefused(r)
      <3>1. heard' = [heard EXCEPT ![r] = @ \o <<"failed">>]
        BY <2>9 DEF ApprovalRefused, Report
      <3>2. worker'[r] # "done" /\ worker'[r] # "none" /\ ~Promise!Closed(heard[r])
        BY <1>1, <2>2, <2>9 DEF ApprovalRefused, Go, History, Live, MayClose, Leaving
      <3> QED
        BY <2>2, <2>3, <3>1, <3>2 DEF Events
    <2>10. CASE CheckEntry(r)
      <3>1. UNCHANGED heard /\ worker'[r] # "done" /\ worker'[r] # "none"
        BY <1>1, <2>10 DEF CheckEntry, OnlyMoves, Go
      <3> QED
        BY <2>4, <3>1
    <2>11. CASE Register(r)
      <3>1. UNCHANGED heard /\ worker'[r] # "done" /\ worker'[r] # "none"
        BY <1>1, <2>11 DEF Register, Go
      <3> QED
        BY <2>4, <3>1
    <2>12. CASE Resolve(r)
      <3>1. UNCHANGED heard /\ worker'[r] # "done" /\ worker'[r] # "none"
        BY <1>1, <2>12 DEF Resolve, OnlyMoves, Throws, Go
      <3> QED
        BY <2>4, <3>1
    <2>13. CASE CheckResolved(r)
      <3>1. UNCHANGED heard /\ worker'[r] # "done" /\ worker'[r] # "none"
        BY <1>1, <2>13 DEF CheckResolved, OnlyMoves, Go
      <3> QED
        BY <2>4, <3>1
    <2>14. CASE Connect(r)
      <3>1. UNCHANGED heard /\ worker'[r] # "done" /\ worker'[r] # "none"
        BY <1>1, <2>14 DEF Connect, Throws, Go
      <3> QED
        BY <2>4, <3>1
    <2>15. CASE HandshakeCut(r)
      <3>1. UNCHANGED heard /\ worker'[r] # "done" /\ worker'[r] # "none"
        BY <1>1, <2>15 DEF HandshakeCut, OnlyMoves, Throws, Go
      <3> QED
        BY <2>4, <3>1
    <2>16. CASE CheckShaken(r)
      <3>1. UNCHANGED heard /\ worker'[r] # "done" /\ worker'[r] # "none"
        BY <1>1, <2>16 DEF CheckShaken, OnlyMoves, Go
      <3> QED
        BY <2>4, <3>1
    <2>17. CASE SubscribeNothing(r)
      <3>1. heard' = [heard EXCEPT ![r] = @ \o <<"failed">>]
        BY <2>17 DEF SubscribeNothing, Report
      <3>2. worker'[r] # "done" /\ worker'[r] # "none" /\ ~Promise!Closed(heard[r])
        BY <1>1, <2>2, <2>17 DEF SubscribeNothing, Go, History, Live, MayClose, Leaving
      <3> QED
        BY <2>2, <2>3, <3>1, <3>2 DEF Events
    <2>18. CASE Subscribe(r)
      <3>1. UNCHANGED heard /\ worker'[r] # "done" /\ worker'[r] # "none"
        BY <1>1, <2>18 DEF Subscribe, OnlyMoves, Throws, Go
      <3> QED
        BY <2>4, <3>1
    <2>19. CASE Loop(r)
      <3>1. UNCHANGED heard /\ worker'[r] # "done" /\ worker'[r] # "none"
        BY <1>1, <2>19 DEF Loop, OnlyMoves, Go
      <3> QED
        BY <2>4, <3>1
    <2>20. CASE ReadCut(r)
      <3>1. UNCHANGED heard /\ worker'[r] # "done" /\ worker'[r] # "none"
        BY <1>1, <2>20 DEF ReadCut, OnlyMoves, Go
      <3> QED
        BY <2>4, <3>1
    <2>21. CASE Pong(r)
      <3>1. UNCHANGED heard /\ worker'[r] # "done" /\ worker'[r] # "none"
        BY <1>1, <2>21 DEF Pong, OnlyMoves, Throws, Go
      <3> QED
        BY <2>4, <3>1
    <2>22. CASE Deliver(r)
      <3>1. UNCHANGED heard /\ worker'[r] # "done" /\ worker'[r] # "none"
        BY <1>1, <2>22 DEF Deliver, OnlyMoves, Go
      <3> QED
        BY <2>4, <3>1
    <2>23. CASE Emit(r)
      <3>1. heard' = [heard EXCEPT ![r] = @ \o <<"tick">>]
        BY <2>23 DEF Emit, Report
      <3>2. worker'[r] # "done" /\ worker'[r] # "none" /\ ~Promise!Closed(heard[r])
        BY <1>1, <2>2, <2>23 DEF Emit, Go, History, Live, MayClose, Leaving
      <3>3. Promise!Said(heard[r], "connected")
        BY <2>2, <2>23 DEF Emit, History, Live, MayClose, Leaving
      <3> QED
        BY <2>3, <3>1, <3>2, <3>3 DEF Events
    <2>24. CASE CloseCut(r)
      <3>1. UNCHANGED heard /\ worker'[r] # "done" /\ worker'[r] # "none"
        BY <1>1, <2>24 DEF CloseCut, OnlyMoves, Go
      <3> QED
        BY <2>4, <3>1
    <2>25. CASE FinalStatus(r)
      <3>1. PICK e \in {"failed", "disconnected"} :
              /\ heard' = [heard EXCEPT ![r] = @ \o <<e>>]
              /\ e = "disconnected" => ~running
        BY <2>25 DEF FinalStatus, Report
      <3>2. worker'[r] # "done" /\ worker'[r] # "none" /\ ~Promise!Closed(heard[r])
        BY <1>1, <2>2, <2>25 DEF FinalStatus, Go, History, Live, MayClose, Leaving
      <3> QED
        BY <2>2, <2>3, <3>1, <3>2 DEF Events
    <2>26. CASE Unregister(r)
      <3>1. UNCHANGED heard /\ worker'[r] # "done" /\ worker'[r] # "none"
        BY <1>1, <2>26 DEF Unregister, Go
      <3> QED
        BY <2>4, <3>1
    <2>27. CASE Destroy(r)
      <3>1. UNCHANGED heard /\ worker'[r] # "done" /\ worker'[r] # "none"
        BY <1>1, <2>27 DEF Destroy, Go
      <3> QED
        BY <2>4, <3>1
    <2>28. CASE Catch(r)
      <3>1. worker'[r] # "done" /\ worker'[r] # "none" /\ ~Promise!Closed(heard[r])
        BY <1>1, <2>2, <2>28 DEF Catch, Go, History, Live, MayClose, Leaving
      <3>2. CASE ~running
        <4>1. heard' = [heard EXCEPT ![r] = @ \o << >>]
          BY <2>28, <3>2 DEF Catch, Report
        <4> QED
          BY <2>4, <2>5, <3>1, <4>1
      <3>3. CASE ~(~running)
        <4>1. heard' = [heard EXCEPT ![r] = @ \o <<"failed">>]
          BY <2>28, <3>3 DEF Catch, Report
        <4>2. "failed" = "connected" => ~Promise!Said(heard[r], "connected")
          BY <2>2, <2>28, <3>3 DEF Catch, History, Live, MayClose, Leaving
        <4> QED
          BY <2>3, <3>1, <4>1, <4>2 DEF Events
      <3> QED
        BY <3>2, <3>3
    <2>29. CASE End(r)
      <3>1. ~live' /\ UNCHANGED heard
        BY <1>1, <2>1, <2>29 DEF End, Go, Live
      <3>2. Promise!End
        BY <2>1, <2>2, <2>29, <3>1 DEF End, Promise!End, History, Leaving
      <3> QED
        BY <3>2 DEF Promise!Next
    <2>30. CASE HandshakeAnswered(r)
      <3>1. UNCHANGED heard /\ worker'[r] # "done" /\ worker'[r] # "none"
        BY <1>1, <2>30 DEF HandshakeAnswered, OnlyMoves, Throws, Go
      <3> QED
        BY <2>4, <3>1
    <2>31. CASE CloseAnswered(r)
      <3>1. UNCHANGED heard /\ worker'[r] # "done" /\ worker'[r] # "none"
        BY <1>1, <2>31 DEF CloseAnswered, Go
      <3> QED
        BY <2>4, <3>1
    <2>32. CASE ReadAccepted(r)
      <3>1. worker'[r] # "done" /\ worker'[r] # "none" /\ ~Promise!Closed(heard[r])
        BY <1>1, <2>2, <2>32 DEF ReadAccepted, Go, History, Live, MayClose, Leaving
      <3>2. CASE notified[r]
        <4>1. heard' = [heard EXCEPT ![r] = @ \o << >>]
          BY <2>32, <3>2 DEF ReadAccepted, Report, Connected
        <4> QED
          BY <2>4, <2>5, <3>1, <4>1
      <3>3. CASE ~(notified[r])
        <4>1. heard' = [heard EXCEPT ![r] = @ \o <<"connected">>]
          BY <2>32, <3>3 DEF ReadAccepted, Report, Connected
        <4>2. "connected" = "connected" => ~Promise!Said(heard[r], "connected")
          BY <2>2, <2>32, <3>3 DEF ReadAccepted, History, Live, MayClose, Leaving
        <4> QED
          BY <2>3, <3>1, <4>1, <4>2 DEF Events
      <3> QED
        BY <3>2, <3>3
    <2>33. CASE ReadRejected(r)
      <3>1. worker'[r] # "done" /\ worker'[r] # "none" /\ ~Promise!Closed(heard[r])
        BY <1>1, <2>2, <2>33 DEF ReadRejected, Go, History, Live, MayClose, Leaving
      <3>2. CASE ~(acks'[r] >= keys[r] /\ ~accepted[r])
        <4>1. heard' = [heard EXCEPT ![r] = @ \o << >>]
          BY <2>33, <3>2 DEF ReadRejected, Report
        <4> QED
          BY <2>4, <2>5, <3>1, <4>1
      <3>3. CASE ~(~(acks'[r] >= keys[r] /\ ~accepted[r]))
        <4>1. heard' = [heard EXCEPT ![r] = @ \o <<"failed">>]
          BY <2>33, <3>3 DEF ReadRejected, Report
        <4>2. "failed" = "connected" => ~Promise!Said(heard[r], "connected")
          BY <2>2, <2>33, <3>3 DEF ReadRejected, History, Live, MayClose, Leaving
        <4> QED
          BY <2>3, <3>1, <4>1, <4>2 DEF Events
      <3> QED
        BY <3>2, <3>3
    <2>34. CASE ReadPing(r)
      <3>1. UNCHANGED heard /\ worker'[r] # "done" /\ worker'[r] # "none"
        BY <1>1, <2>34 DEF ReadPing, OnlyMoves, Go
      <3> QED
        BY <2>4, <3>1
    <2>35. CASE ReadTick(r)
      <3>1. worker'[r] # "done" /\ worker'[r] # "none" /\ ~Promise!Closed(heard[r])
        BY <1>1, <2>2, <2>35 DEF ReadTick, Go, History, Live, MayClose, Leaving
      <3>2. CASE notified[r]
        <4>1. heard' = [heard EXCEPT ![r] = @ \o << >>]
          BY <2>35, <3>2 DEF ReadTick, Report, Connected
        <4> QED
          BY <2>4, <2>5, <3>1, <4>1
      <3>3. CASE ~(notified[r])
        <4>1. heard' = [heard EXCEPT ![r] = @ \o <<"connected">>]
          BY <2>35, <3>3 DEF ReadTick, Report, Connected
        <4>2. "connected" = "connected" => ~Promise!Said(heard[r], "connected")
          BY <2>2, <2>35, <3>3 DEF ReadTick, History, Live, MayClose, Leaving
        <4> QED
          BY <2>3, <3>1, <4>1, <4>2 DEF Events
      <3> QED
        BY <3>2, <3>3
    <2>36. CASE ReadBroken(r)
      <3>1. UNCHANGED heard /\ worker'[r] # "done" /\ worker'[r] # "none"
        BY <1>1, <2>36 DEF ReadBroken, Go
      <3> QED
        BY <2>4, <3>1
    <2> QED
      BY <1>2, <2>6, <2>7, <2>8, <2>9, <2>10, <2>11, <2>12, <2>13, <2>14, <2>15, <2>16, <2>17, <2>18, <2>19, <2>20, <2>21, <2>22, <2>23, <2>24, <2>25, <2>26, <2>27, <2>28, <2>29, <2>30, <2>31, <2>32, <2>33, <2>34, <2>35, <2>36 DEF WorkerProceeds, ServerActs
  <1>3. ASSUME NEW c \in Callers, StartSpawn(c) PROVE Promise!Begin
    <2>1. started' \in Runs /\ started' = started + 1 /\ started' > started
      BY <1>3, StreamConstants DEF StartSpawn, StreamInv, CoreInv, LockInv, TypeOK, Runs
    <2>2. ~live
      BY <1>3 DEF StartSpawn, StreamInv, CoreInv, LockInv, LatestInv, NoRun, Runs
    <2>3. worker'[started'] = "approval" /\ UNCHANGED <<heard, stopped>>
      BY <1>1, <1>3, <2>1 DEF StartSpawn
    <2>4. live' /\ started' \notin stopped'
      BY <1>1, <2>1, <2>3 DEF Live
    <2> QED
      BY <2>1, <2>2, <2>3, <2>4 DEF Promise!Begin
  <1>4. ASSUME NEW c \in Callers, StopFlag(c)
        PROVE  Promise!AskToStop \/ UNCHANGED Promise!vars
    <2>1. /\ live' = live /\ UNCHANGED <<started, heard>>
          /\ stopped' = stopped \cup {r \in Runs : Live(r)}
      BY <1>4 DEF StopFlag, runVars, Live
    <2>2. CASE live
      BY <1>1, <2>1, <2>2 DEF Promise!AskToStop
    <2>3. CASE ~live
      BY <2>1, <2>3 DEF Promise!vars
    <2> QED
      BY <2>2, <2>3
  <1>5. ASSUME NEW c \in Callers,
               StartRefused(c) \/ StartEnter(c) \/ StartJoin(c) \/ StartThrows(c)
                 \/ StopSocket(c) \/ StopLock(c) \/ StopJoin(c)
        PROVE  UNCHANGED Promise!vars
    BY <1>5 DEF StartRefused, StartEnter, StartJoin, StartThrows, StopSocket,
                StopLock, StopJoin, vars, runVars, Live, Promise!vars
  <1>6. CASE UNCHANGED vars
    BY <1>6 DEF vars, runVars, Live, Promise!vars
  <1> QED
    BY <1>2, <1>3, <1>4, <1>5, <1>6 DEF Next, Call, CallProceeds, Promise!Next

\* The callbacks an application can observe from KISStreamClient are those
\* StreamPromise allows: at most one run at a time, ticks only after
\* "connected", nothing after a final status, and no run that ends in silence
\* unless it was asked to stop.
THEOREM ImplementsPromise == Safety => KeepsPromise
  <1>1. Init => Promise!Init
    BY DEF Init, Live, Promise!Init
  <1> QED
    BY <1>1, PromiseStep, StreamInvariant, PTL DEF Safety, KeepsPromise, Promise!Spec

=============================================================================
