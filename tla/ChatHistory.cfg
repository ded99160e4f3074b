SPECIFICATION Spec
CONSTANTS
  NewMessages = 2
  MaxTurns = 3
  MaxFaults = 2
INVARIANTS KeptOnDisk ModelRemembers WellOrdered
