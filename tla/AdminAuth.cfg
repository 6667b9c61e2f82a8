CONSTANTS
  Nonces = {n1, n2, n3}
  Tokens = {t1, t2}
  Verifiers = {v1, v2}
  Writers = {w1}
  ChallengeTTL = 1
  TokenTTL = 2
  MaxChallenges = 2
  MaxSessions = 1
SPECIFICATION FairSpec
INVARIANTS OneSessionPerNonce EveryWriteIsSigned
PROPERTIES NoResurrection SweepSparesLive ImplementsAccess EntriesDrain
