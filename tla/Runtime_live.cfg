CONSTANTS
  a = a
  g = g
  m1 = m1
  m2 = m2
  m3 = m3
  r1 = r1
  Channels = {a}
  Groups = {g}
  Messages = {m1, m2, m3, r1}
  Consumers = {1}
  Capacity <- CapacityOne
  PublishTimeout = {"timed"}
  ConsumeTimeout = "timed"
  None = None
  Subs <- OneDispatcher
  Concurrency = 0
  ReplyTo <- SelfReplyTo
  Reply <- TheReply
  Conns = {c1}
  Direct = {m3}
  WithReply = {m2}
SPECIFICATION FairRtSpec
PROPERTIES StopCompletes RequestsEnd
CHECK_DEADLOCK FALSE
