CONSTANTS
  Rows = {v1, v2}
  Txs = {t1, t2}
  MaxAttempts = 2
  Cooldown = 1
  CodeTtl = 2
  AuthTtl = 2
  MaxClock = 3
SPECIFICATION Spec
SYMMETRY Symmetry
INVARIANT CooldownRespected
