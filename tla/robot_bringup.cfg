SPECIFICATION FairSpec
CONSTANTS
  Launches <- MCLaunches
  Containers = {"nav2_container"}
  MaxDeaths = 1
  Mortals = {"controller_server"}
  monitored_nodes = {"vda5050_client_node"}
  monitored_lifecycle_nodes <- MCMonitoredLifecycleNodes
  Checks = {1, 2}
  EnableMetrics = TRUE
INVARIANTS
  TypeOK
  OneDriver
  ClientWired
  RobotsAlike
PROPERTIES
  GaugeFollows
CHECK_DEADLOCK FALSE
