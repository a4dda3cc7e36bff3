\* libftrig, two subscriptions and two writers
CONSTANTS
  w1 = w1
  w2 = w2
  Ids = {0, 1}
  Subs <- Expressions
  Bytes = {"u", "d"}
  Writers = {w1, w2}
  FifoSize = 1
  MaxSubscribe = 2
  MaxNotify = 2
  MaxFails = 1
  MaxKills = 1
SPECIFICATION Spec
SYMMETRY WriterPermutations
INVARIANT GuaranteedToListen
INVARIANT NoEventLost
INVARIANT NoLitter
CHECK_DEADLOCK FALSE
