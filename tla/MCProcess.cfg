SPECIFICATION ProcessSpec
CONSTANTS
  j1 = j1
  Jobs = {j1}
  Unknown = Unknown
  Schedules <- JobSchedules
  NoGlobal = {}
  NoHistory = {}
  RetryTimes = 1
  Workers = {w1, w2}
  Booters = {b1}
  MaxRuns = 2
  Handlers = {"root", "adaptor", "gin", "file", "adaptor2"}
  Lasts <- StopLasts
  GraceShutdown = 5
  Delay = 1
  MaxLines = 2
  Topics = {t1, t2}
  Callers = {c1, c2, c3}
  MaxConns = 3
  NoTopic = NoTopic
  NoHandler = NoHandler
  Receivers = {r1, r2}
  Producers = {p1, p2}
  Pumps = {s1, s2}
  Buf = 1
  MaxMsgs = 2
  NoReceiver = NoReceiver
  Liberties = {"lateSub", "latePush", "closeAgain", "startAgain"}
  Strings = {"good", "bad1", "bad2", "replaced"}
  Valid = {"good", "replaced"}
  ToValidUTF8 <- Repairs
  Height = 7
  Replaced = Replaced
  Bodies <- Messages
CHECK_DEADLOCK FALSE
INVARIANTS
  PartsTypeOK
  HandedOnce
  SwitchRestored
  HistoryTrue
  ShutdownOrderly
  LinesKept
  Resubscribed
  SanitizedClean
