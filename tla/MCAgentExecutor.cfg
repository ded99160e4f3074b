SPECIFICATION Spec
CONSTANTS
  c1 = c1
  c2 = c2
  Ids <- MCIds
  Names = {add, search}
  None = None
  FunctionTools = {add}
  CallLists <- MCCallLists
  MaxSteps = 2
INVARIANTS EffectsReported AnswerSawEffects ProvidersUnderstand
PROPERTIES ConversationSpec
