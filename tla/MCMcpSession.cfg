SPECIFICATION FairSpec
CONSTANTS
  Ids <- MCIds
  None = None
  Tools = {echo}
  Unregistered = missing
  Capacity = 1
  MaxPrints = 3
INVARIANTS InSync
PROPERTIES CallEnds RemoteCallsSpec
