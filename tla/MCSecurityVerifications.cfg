CONSTANTS
  Rows = {v1, v2}
  Txs = {t1, t2, t3}
  MaxAttempts = 2
  Cooldown = 1
  CodeTtl = 2
  AuthTtl = 1
  MaxClock = 2
SPECIFICATION Spec
SYMMETRY Symmetry
INVARIANT VerificationTypeOK
INVARIANT OneOpenVerification
INVARIANT AttemptsAreCounted
INVARIANT OneOperationPerCode
INVARIANT CodeWasSent
INVARIANT OnlyTheDeletionDeadlocks
PROPERTY ClosedIsFinal
PROPERTY ImplementsOneTimeCode
