SPECIFICATION FairSpec
CONSTANTS
  Callers = {c1, c2, c3}
  Rooms = {r1}
  NoCaller = NoCaller
  FaultSets <- AllFaults
INVARIANTS
  TypeOK
  EntriesHaveOwners
  MembersSynced
PROPERTIES
  SharesFetches
  EveryCallReturns
