SPECIFICATION FairSpec
CONSTANTS
  Rooms = {1}
  Types = {"message", "member", "receipt"}
  Registrations <- MCRegistrations
  MaxHandlers = 2
  MaxNotifiers = 1
  Lists <- MCLists
  Logs <- MCLogs
  Modes = {"result"}
  Envs <- MCEnvs
INVARIANTS
  TypeOK
  EphemeralLast
  AskedAreGone
PROPERTIES
  Delivers
  CatchesUp
