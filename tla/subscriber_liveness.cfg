SPECIFICATION FairSpec
CONSTANTS
  Nil = Nil
  a = a
  b = b
  c = c
  d = d
  h1 = h1
  h2 = h2
  ch = ch
  m1 = m1
  m2 = m2
  m3 = m3
  Service = {a, c}
  Handler = {h1, h2}
  Channel = {ch}
  HandlerOf <- TwoHandlers
  ChannelOf <- OneChannel
  Payload = {m1, m2}
  Form <- Forms
  Stoppable = {a}
  MaxFaults = 2
PROPERTIES
  StartReturns
  SlotIsFreed
  ReceivedCommandIsSent
  StopEndsThread
CHECK_DEADLOCK FALSE
