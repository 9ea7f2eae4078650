SPECIFICATION Spec
CONSTANTS
  Nil = Nil
  s1 = s1
  s2 = s2
  w1 = w1
  w2 = w2
  w3 = w3
  r1 = r1
  r2 = r2
  SN = {s1}
  Ws = {w1}
  Device <- DeviceOne
  Requests = {r1}
  Posts <- PostsList
  PoolSize = 1
  Serial = FALSE
  MayTimeout = TRUE
  Overlap = TRUE
  Unsolicited = {"sendlog"}
  MaxFrames = 2
  NoSnReplies = FALSE
  MaxFaults = 0
  MaxPublish = 0
  MaxCrashes = 0
INVARIANTS
  OwnReply
CHECK_DEADLOCK FALSE
