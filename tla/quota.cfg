SPECIFICATION Spec
CONSTANTS
  Writer = {w1, w2}
  Sync = {w2}
  Threshold = 2
  Limit = 4
  MaxChunk = 2
  Modulus = 32
INVARIANTS NothingUncounted LossBounded OvershootBounded NoUnderflow
CHECK_DEADLOCK FALSE
