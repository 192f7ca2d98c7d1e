\* Two threads call start() and stop() in any order; two workers.
SPECIFICATION Safety
CONSTANTS
  c1 = c1
  c2 = c2
  id1 = id1
  id2 = id2
  NoCaller = NoCaller
  NoKey = NoKey
  Callers <- TwoCallers
  Identities <- TwoIdentities
  MaxRuns = 2
  MaxKeys = 2
  MaxTicks = 1
SYMMETRY Symmetry
INVARIANTS TypeOK AtMostOneWorker SocketAlive FlagTracksRun KeyBelongsToRun
PROPERTIES StopLeavesNoWorker KeepsPromise
