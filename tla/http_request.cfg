SPECIFICATION Spec
CONSTANTS
  Messages <- AllMessages
  BufSize = 12
  AnswerSize = 8
  Replies <- SomeReplies
\* A connection's service ends
CHECK_DEADLOCK FALSE
INVARIANTS
  TypeOK
  QueuedOnce
  CompleteAfterHeader
  ActionOfPath
  AnswerEach
PROPERTIES
  ReadsAsServer
