SPECIFICATION FairSpec
CONSTANTS
  Calls <- MCCalls
  Program <- MCProgram
  Strangers <- MCStrangers
  Posts <- MCPosts
  Backlog = 2
  StrangersMessages <- MCStrangersMessages
INVARIANTS StatusTellsEffect
PROPERTIES DestructorReturns CallEnds RemoteCallsSpec
