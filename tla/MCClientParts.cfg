SPECIFICATION Spec
CONSTANTS
  c1 = c1
  c2 = c2
  u1 = u1
  u2 = u2
  u3 = u3
  r1 = r1
  r2 = r2
  Configs <- MCConfigs
  MaxTries = 4
  Tasks = {c1, c2}
  HttpSettings = {"proxy"}
  GooseUsers = {u1, u2, u3}
  CsvUsers = {u1, u2}
  PlannedRooms = {r1, r2}
  Creator <- MCCreator
  Invitees <- MCInvitees
  MaxFaults = 3
  Users = {c1, c2}
  MaxEvents = 3
  Ids = {"1", "2"}
  Editors = {c1, c2}
  People = {"p", "q"}
  Levels = {"50"}
  DmRooms = {"r"}
  MaxWrites = 2
  Typists = {c1, c2}
  MaxDelay = 4
  MediaTasks = {c1, c2}
  MaxSources = 2
  SyncTicks = 3
  SleepTicks = 2
  MaxSleep = 5
  MaxLate = 2
  Servers = {"a", "b", "c", "d", "ip"}
  IpServers = {"ip"}
  RoomUsers = {"a1", "a2", "b1", "c1", "d1", "i1"}
  ServerName <- MCServerName
  Powers <- MCPowers
INVARIANTS
  PartsTypeOK
  LimitIsExact
  CheckedCallsAreAuthorised
  TwinsNeedLoss
  EveryoneIsIn
  RoomConverges
  CreateUnwraps
  OneRowPerEndpoint
  NothingLost
  TypingIsKnown
  RemovedIsGone
  SyncsArePaced
  SleepsAreKept
  RouteServes
PROPERTIES
  LimitedCallsReturn
  SessionCallsReturn
  ScriptsEnd
CHECK_DEADLOCK FALSE
