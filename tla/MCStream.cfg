SPECIFICATION FairSpec
CONSTANTS
  Consumers = {c1, c2}
  NoOne = NoOne
  NoMsg = NoMsg
  MaxMsgs = 3
  MaxLen = 2
  ResetTopic = FALSE
  RedisFails = TRUE
INVARIANTS
  TypeOK
  NothingForgotten
PROPERTIES
  LaterPendingsSettle
