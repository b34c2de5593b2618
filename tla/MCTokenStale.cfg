SPECIFICATION Spec
CONSTANTS
  Callers = {c1, c2}
  MaxToken = 2
  Sessions = {"refreshable"}
  Envs <- VersionsEnvs
INVARIANT
  ToldTheTruth
