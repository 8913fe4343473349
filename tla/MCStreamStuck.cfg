SPECIFICATION FairSpec
CONSTANTS
  Consumers = {c1}
  NoOne = NoOne
  NoMsg = NoMsg
  MaxMsgs = 2
  MaxLen = 2
  ResetTopic = FALSE
  RedisFails = FALSE
PROPERTIES
  PendingsSettle
