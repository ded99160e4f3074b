SPECIFICATION Spec
CONSTANTS
  Inputs = {"q1", "q2"}
  Long = {"q2"}
  Good = {"g1", "g2"}
  Bad = {"b1", "b2"}
  MaxRetries = 2
  MaxCalls = 2
  None = None
INVARIANTS AnswersOwnInput Settled
