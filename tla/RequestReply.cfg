CONSTANTS
  Channels = {q1}
  Consumers = {q1}
  Groups = {"reply"}
  Messages <- MCCalls
  Capacity <- MCCapacity
  PublishTimeout = {"timed"}
  ConsumeTimeout = "timed"
  Workers = {w1, w2, w3}
  None = None
SPECIFICATION FairSpec
INVARIANTS NoReplyChannelLeaks RefusedOnlyWhenFinished ReplyComesFromItsHandler
PROPERTIES GivesUpOnlyUnanswered RequestsFinish HandlersFinish
CHECK_DEADLOCK FALSE
