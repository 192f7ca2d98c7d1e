\* The program as it is: operation_mutex lets one thread at a time call.
\* The server may leave a handshake unanswered.
SPECIFICATION Spec
CONSTANTS
  c1 = c1
  c2 = c2
  id1 = id1
  id2 = id2
  NoCaller = NoCaller
  NoKey = NoKey
  Callers <- OneCaller
  Identities <- OneIdentity
  MaxRuns = 1
  MaxKeys = 1
  MaxTicks = 1
PROPERTIES StopReturns
