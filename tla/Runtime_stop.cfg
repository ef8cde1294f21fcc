CONSTANTS
  a = a
  g = g
  m1 = m1
  m2 = m2
  m3 = m3
  r1 = r1
  Channels = {a}
  Groups = {g}
  Messages = {m1, m2, r1}
  Consumers = {1, 2}
  Capacity <- CapacityOne
  PublishTimeout = {"timed"}
  ConsumeTimeout = "timed"
  None = None
  Subs <- Competing
  Concurrency = 2
  ReplyTo <- SelfReplyTo
  Reply <- TheReply
  Conns = {c1}
  Direct = {}
  WithReply = {m2}
SPECIFICATION RtSpec
INVARIANTS DownMeansStopped RequestsAreAnswered AcceptedRequestsAreServed
INVARIANTS HandledOnce OrderlyStopLosesNothing WithinConcurrency AckedMeansReplied
PROPERTY LastStopLeavesNothing
CHECK_DEADLOCK FALSE
