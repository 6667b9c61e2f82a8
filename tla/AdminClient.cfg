CONSTANTS
  Nonces = {n1, n2}
  Tokens = {t1, t2}
  Slots = {s1, s2}
  None = none
SPECIFICATION FairSpec
INVARIANTS DeadTokenNotResent NoGateLoop
PROPERTIES GoodTokenKept RefusedReachesGate
