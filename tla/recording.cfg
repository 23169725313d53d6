SPECIFICATION FairSpec
CONSTANTS
  MaxRecordings = 3
  MaxWaypoints = 2
  ros_subscriber_topics = {"data1", "data2"}
  messages_aggregated_count = 2
  OrderIds = {"order1", "order2"}
  MaxReceived = 4
INVARIANTS
  RecorderKnown
  BagClosed
  InfoOfOneOrder
PROPERTIES
  RecordingEnds
CHECK_DEADLOCK FALSE
