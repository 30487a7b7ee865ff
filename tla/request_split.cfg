SPECIFICATION Spec
CONSTANTS
  Messages <- AllMessages
  BufSize = 12
  AnswerSize = 8
  Replies <- SomeReplies
CHECK_DEADLOCK FALSE
INVARIANTS
  CompleteWhenReceived
