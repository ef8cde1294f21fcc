CONSTANTS
  Channels = {ch1}
  Groups = {g1, g2}
  Messages = {m1, m2}
  Consumers = {c1, c2}
  Capacity <- MCCapacity
  Slots <- MCSlots
  PublishTimeout = {"zero", "timed"}
  ConsumeTimeout = "timed"
  None = None
SPECIFICATION ChannelSpec
INVARIANTS LosesOnlyTheOldest OutcomeMatchesDelivery ClosedIsFinal
PROPERTIES ImplementsGroupDelivery ReceiverLearnsOfClose
CHECK_DEADLOCK FALSE
