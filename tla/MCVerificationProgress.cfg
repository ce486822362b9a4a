CONSTANTS
  Rows = {v1, v2}
  Txs = {t1, t2}
  MaxAttempts = 1
  Cooldown = 1
  CodeTtl = 1
  AuthTtl = 1
  MaxClock = 2
SPECIFICATION FairSpec
PROPERTY TransactionsEnd
