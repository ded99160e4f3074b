SPECIFICATION StandaloneSpec
CONSTANTS
  Ids = {1, 2}
  None = None
  Tools = {echo}
  Unregistered = missing
  Capacity = 1
  MaxPrints = 1
  MaxLines = 3
  Kinds = {"request", "malformed", "event", "text", "empty"}
INVARIANT AnsweredOnceInOrder
