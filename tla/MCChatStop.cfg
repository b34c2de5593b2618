SPECIFICATION RecoverSpec
CONSTANTS
  NUsers = 2
  Rooms = {}
  NoRoom = NoRoom
  LoginTries = 2
  Envs <- StopEnvs
PROPERTIES
  StopCompletes
  CancelDrains
