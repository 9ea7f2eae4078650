SPECIFICATION Spec
CONSTANTS
  Nil = Nil
  a = a
  b = b
  c = c
  d = d
  h1 = h1
  h2 = h2
  ch = ch
  m1 = m1
  m2 = m2
  m3 = m3
  Service = {a, b, c, d}
  Handler = {h1, h2}
  Channel = {ch}
  HandlerOf <- TwoHandlers
  ChannelOf <- WithNil
  Payload = {m1, m2, m3}
  Form <- Forms
  Stoppable = {}
  MaxFaults = 3
INVARIANTS
  TypeOK
  KeyMeansOneThread
  NoDoubleSend
PROPERTIES
  ImplementsSubscription
CHECK_DEADLOCK FALSE
