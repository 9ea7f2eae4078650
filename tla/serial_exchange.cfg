SPECIFICATION Spec
CONSTANTS
  Nil = Nil
  s1 = s1
  s2 = s2
  w1 = w1
  w2 = w2
  w3 = w3
  r1 = r1
  r2 = r2
  SN = {s1, s2}
  Ws = {w1, w2}
  Device <- DeviceEach
  Requests = {r1, r2}
  Posts <- PostsMixed
  PoolSize = 2
  Serial = TRUE
  MayTimeout = FALSE
  Overlap = TRUE
  Unsolicited = {}
  MaxFrames = 1
  NoSnReplies = FALSE
  MaxFaults = 0
  MaxPublish = 0
  MaxCrashes = 0
SYMMETRY RequestSymmetry
INVARIANTS
  OwnReply
  BodylessNeverRaises
PROPERTIES
  ImplementsRemoteCall
CHECK_DEADLOCK FALSE
