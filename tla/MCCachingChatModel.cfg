SPECIFICATION Spec
CONSTANTS
  Handlers <- MCHandlers
  ThrowingHandlers <- MCThrowing
  MaxCalls = 2
  MaxPieces = 1
  Conversations = {a, b}
  MaxRequests = 3
  MaxTools = 1
  None = None
INVARIANTS ClosedOnce AnswersRequest CachedIsComplete DeltasAddUp
