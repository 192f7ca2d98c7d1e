\* A token request that spans a save of other credentials; violated.
SPECIFICATION Spec
CONSTANTS
  k1 = k1
  k2 = k2
  w1 = w1
  Op = Op
  Ui = Ui
  NoKey = NoKey
  NoToken = NoToken
  NoOne = NoOne
  Keys <- TwoKeys
  Workers <- OneWorker
  EnvKeys <- NoEnvironment
  MaxTokens = 2
SYMMETRY KeySymmetry
INVARIANTS CreatorAdopts
