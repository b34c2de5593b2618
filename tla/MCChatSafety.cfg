SPECIFICATION Spec
CONSTANTS
  NUsers = 2
  Rooms = {r1}
  NoRoom = NoRoom
  LoginTries = 1
  Envs <- SafetyEnvs
INVARIANTS
  TypeOK
  NoUseAfterDrop
  OwnMessages
  PanicsOnlyLoggedOut
  StopDrainsSync
  AtMostOneLateSync
