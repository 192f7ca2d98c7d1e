\* One worker beside the operation and window threads, two accounts.
SPECIFICATION Spec
CONSTANTS
  k1 = k1
  k2 = k2
  w1 = w1
  Op = Op
  Ui = Ui
  NoKey = NoKey
  NoToken = NoToken
  NoOne = NoOne
  Keys <- TwoKeys
  Workers <- OneWorker
  EnvKeys <- NoEnvironment
  MaxTokens = 3
SYMMETRY KeySymmetry
INVARIANTS TypeOK TokenBound OpRequestBound SaveIsAtomic ErasedWithCredentials
