SPECIFICATION Spec
CONSTANTS
  Callers = {c1, c2}
  Rooms = {r1}
  NoCaller = NoCaller
  FaultSets <- OnlyErrors
INVARIANT
  OkMeansSynced
