SPECIFICATION Spec
CONSTANTS
  NUsers = 1
  Rooms = {r1}
  NoRoom = NoRoom
  LoginTries = 3
  Envs <- LoginEnvs
INVARIANT
  FailedLoginSkipped
