---------------------------- MODULE StreamPromise ----------------------------
(***************************************************************************)
(* What the realtime stream promises the rest of the application, with no  *)
(* thread, lock, socket or key in sight.                                   *)
(*                                                                         *)
(* Runs of the stream are numbered 1, 2, ...: one begins whenever the      *)
(* application starts the stream, and at most one is alive at a time.      *)
(* While a run is alive it may call the application back; `heard[r]` is    *)
(* what run r has said so far.  A run says "connected" at most once, sends *)
(* price ticks only after that, and a "failed" or "disconnected" is the    *)
(* last thing it says.  A run that ends without having been asked to stop  *)
(* has always said why.                                                    *)
(***************************************************************************)
EXTENDS Naturals, Sequences

CONSTANT Runs   \* the run numbers that may be used

VARIABLES
  run,        \* the latest run, 0 before the first
  live,       \* that run may still call back
  stopping,   \* somebody has asked that run to stop
  heard       \* per run, the callbacks it has made

vars == <<run, live, stopping, heard>>

Final == {"failed", "disconnected"}
Events == Final \cup {"connected", "tick"}

Said(events, e) == \E i \in DOMAIN events : events[i] = e
Closed(events) == \E e \in Final : Said(events, e)

\* e may be the next callback of a run that has made the callbacks `events`.
MayFollow(events, e) ==
  /\ ~Closed(events)
  /\ e = "connected" => ~Said(events, "connected")
  /\ e = "tick" => Said(events, "connected")
  /\ e = "disconnected" => stopping

Init ==
  /\ run = 0
  /\ live = FALSE
  /\ stopping = FALSE
  /\ heard = [r \in Runs |-> << >>]

Begin ==
  /\ ~live
  /\ run + 1 \in Runs
  /\ run' = run + 1
  /\ live' = TRUE
  /\ stopping' = FALSE
  /\ UNCHANGED heard

AskToStop ==
  /\ live
  /\ stopping' = TRUE
  /\ UNCHANGED <<run, live, heard>>

Call(e) ==
  /\ live
  /\ MayFollow(heard[run], e)
  /\ heard' = [heard EXCEPT ![run] = Append(@, e)]
  /\ UNCHANGED <<run, live, stopping>>

End ==
  /\ live
  /\ stopping \/ Closed(heard[run])
  /\ live' = FALSE
  /\ UNCHANGED <<run, stopping, heard>>

Next ==
  \/ Begin
  \/ AskToStop
  \/ \E e \in Events : Call(e)
  \/ End

Spec == Init /\ [][Next]_vars

\* A run that has been asked to stop does end.
StopEnds == (live /\ stopping) ~> ~live

=============================================================================
