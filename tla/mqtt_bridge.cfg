SPECIFICATION FairSpec
CONSTANTS
  Payloads = {"order", "instant", "mistyped", "twice", "garbage"}
  Translation <- MCTranslation
  Letters = {"a", "b"}
  Capital <- MCCapital
  Values <- MCValues
  Types <- MCTypes
  Deployments = {{"mqtt_to_ros"}, {"ros_to_mqtt"}}
  NumRetries = 1
  RetryForever = FALSE
  MaxMessages = 2
  MaxStates = 2
  MaxFaults = 2
INVARIANTS
  TypeOK
  OnlineMeansSubscribed
  OnlineMeansSession
  MessagesAsMeant
PROPERTIES
  StateNeverGoesBack
  DeadThreadNoticed
  Reconnected
CHECK_DEADLOCK FALSE
