SPECIFICATION FairSpec
CONSTANTS
  NUsers = 1
  Rooms = {}
  NoRoom = NoRoom
  LoginTries = 1
  Envs <- BusyEnvs
PROPERTY
  StopCompletes
