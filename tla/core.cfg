SPECIFICATION Spec
CONSTANTS
  Nil = Nil
  s1 = s1
  s2 = s2
  w1 = w1
  w2 = w2
  w3 = w3
  r1 = r1
  r2 = r2
  SN = {s1, s2}
  Ws = {w1, w2, w3}
  Device <- Device3
  Requests = {r1, r2}
  Posts <- PostsList
  PoolSize = 2
  Serial = FALSE
  MayTimeout = TRUE
  Overlap = TRUE
  Unsolicited = {}
  MaxFrames = 1
  NoSnReplies = TRUE
  MaxFaults = 0
  MaxPublish = 0
  MaxCrashes = 0
SYMMETRY RequestSymmetry
INVARIANTS
  TypeOK
  RegistryLive
  CommandReachesItsReader
  ResponsesFromItsReader
  ReplyGivenOnce
PROPERTIES
  EntryOutlivesOtherSockets
CHECK_DEADLOCK FALSE
