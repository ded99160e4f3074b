SPECIFICATION Spec
CONSTANTS
  None = None
  Replies <- MCReplies
  Window = 3
  MaxNoise = 1
  Longest <- MCLongest
INVARIANTS
  StreamedReply ChunksMakeUpText TableSurvives PageReadable JsonFound
  ResponseRead KeyFromFile PromptFilled SelectsNearest ImageIntact
CHECK_DEADLOCK FALSE
