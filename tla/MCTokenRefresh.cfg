SPECIFICATION FairSpec
CONSTANTS
  Callers = {c1, c2, c3}
  MaxToken = 3
  Sessions = {"none", "plain", "refreshable"}
  Envs <- AllEnvs
INVARIANTS
  TypeOK
  RetryIsNewer
  HoldsNewest
PROPERTY
  EveryCallReturns
