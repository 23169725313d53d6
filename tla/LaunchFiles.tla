---------------------------- MODULE LaunchFiles ----------------------------
(***************************************************************************)
(* The launch descriptions of the repository: each is the sequence of the  *)
(* actions its generate_launch_description() returns.  A file is named as  *)
(* under src/, without its ending.  Every launch argument has its name     *)
(* here; a default no wiring depends on is "default", and packages, paths  *)
(* and descriptions are left out.                                          *)
(***************************************************************************)
EXTENDS Sequences, SequencesExt, Functions, TLC

-----------------------------------------------------------------------------
(* Substitutions and actions.                                              *)

Text(v)      == <<"text", v>>
Conf(n)      == <<"conf", n>>
ConfOr(n, d) == <<"conf", n, d>>
Not(n)       == <<"not", n>>

Defaults(names) == [n \in names |-> "default"]
Confs(names)    == [n \in names |-> Conf(n)]

Always == Text("True")
If(e, action) == [action EXCEPT !.when = e]

Declare(defaults)     == [do |-> "declare", when |-> Always, defaults |-> defaults]
Include(file, args)   == [do |-> "include", when |-> Always, file |-> file, args |-> args]
Group(actions)        == [do |-> "group", when |-> Always, scoped |-> TRUE, actions |-> actions]
PushNamespace(e)      == Include("none", [ros_namespace |-> e])
Start(node)           == [do |-> "start", when |-> Always, node |-> node]
Load(container, list) == [do |-> "load", when |-> Always, container |-> container, nodes |-> list]
OnOutput(file)        == [do |-> "handler", when |-> Always, file |-> file]

\* A node: where its topics go and the parameters it is given.
Node(name, namespace, remap, given) ==
  [name |-> name, namespace |-> namespace, remap |-> remap, given |-> given,
   respawn |-> Text("False")]

NoNamespace == Text("")
NoRemap == << >>
Tf == ("/tf" :> "tf") @@ ("/tf_static" :> "tf_static")
-----------------------------------------------------------------------------
(* navigation.launch: Nav2 without its own bringup.                        *)

lifecycle_nodes ==
  <<"controller_server", "smoother_server", "planner_server", "behavior_server",
    "velocity_smoother", "bt_navigator", "waypoint_follower">>

\* A mutant: the container is the caller's to name.
NavigationArgumentsNoContainer ==
  [namespace |-> "", autostart |-> "true", use_composition |-> "False", use_respawn |-> "False"]
  @@ Defaults({"use_sim_time", "params_file", "log_level"})

NavigationArguments ==
  [namespace |-> "", autostart |-> "true", use_composition |-> "False",
   container_name |-> "nav2_container", use_respawn |-> "False"]
  @@ Defaults({"use_sim_time", "params_file", "log_level"})

\* A mutant: the recoveries drive the robot past the smoother.
NavigationRemapsBackUp(n) ==
  Tf @@ CASE n = "controller_server" -> ("cmd_vel" :> "cmd_vel_nav")
          [] n = "velocity_smoother" ->
               ("cmd_vel" :> "cmd_vel_nav") @@ ("cmd_vel_smoothed" :> "cmd_vel")
          [] OTHER -> NoRemap

NavigationRemaps(n) ==
  Tf @@ CASE n \in {"controller_server", "behavior_server"} -> ("cmd_vel" :> "cmd_vel_nav")
          [] n = "velocity_smoother" ->
               ("cmd_vel" :> "cmd_vel_nav") @@ ("cmd_vel_smoothed" :> "cmd_vel")
          [] OTHER -> NoRemap

NavigationNode(n) ==
  Node(n, NoNamespace, NavigationRemaps(n), Confs({"use_sim_time", "params_file", "namespace"}))

LifecycleManager ==
  Node("lifecycle_manager_navigation", NoNamespace, NoRemap, Confs({"autostart"}))

load_nodes ==
  If(Not("use_composition"),
     Group([i \in DOMAIN lifecycle_nodes |->
              Start([NavigationNode(lifecycle_nodes[i]) EXCEPT !.respawn = Conf("use_respawn")])]
           \o <<Start(LifecycleManager)>>))

\* container_name_full puts the robot's namespace before the name, as the
\* containers that may be there have it.
load_composable_nodes ==
  If(Conf("use_composition"),
     Group(<<Load(Conf("container_name"),
                  Append([i \in DOMAIN lifecycle_nodes |-> NavigationNode(lifecycle_nodes[i])],
                         LifecycleManager))>>))

Navigation ==
  <<Declare(NavigationArguments),
    Group(<<PushNamespace(Conf("namespace")), load_nodes, load_composable_nodes>>)>>
-----------------------------------------------------------------------------
(* The VDA5050 client and its bridges.                                     *)

BridgeArguments ==
  {"mqtt_host_name", "mqtt_transport", "mqtt_username", "mqtt_password", "interface_name",
   "major_version", "manufacturer", "serial_number", "mqtt_port", "retry_forever",
   "reconnect_period", "num_retries"}

ClientArguments ==
  {"config_file", "odom_topic", "robot_type", "battery_state_topic", "base_frame",
   "status_check_service"}

ClientDefaults ==
  [namespace |-> "", ros_recorder |-> "false", enable_apriltag_detection |-> "false",
   status_check_service |-> "velocity_smoother"]
  @@ Defaults(BridgeArguments \cup ClientArguments \cup
              {"ros_subscriber_type", "ros_publisher_type", "log_level"})

client_node == Node("vda5050_client_node", Conf("namespace"), Tf, Confs(ClientArguments))

\* A mutant: the state of the client goes to a topic nobody has.
ros_mqtt_bridge_node_unmapped ==
  Node("ros_mqtt_bridge_node", Conf("namespace"), NoRemap,
       Confs(BridgeArguments \cup {"ros_subscriber_type"}))

ros_mqtt_bridge_node ==
  Node("ros_mqtt_bridge_node", Conf("namespace"), "ros_sub_topic" :> "agv_state",
       Confs(BridgeArguments \cup {"ros_subscriber_type"}))

mqtt_ros_bridge_node ==
  Node("mqtt_ros_bridge_node", Conf("namespace"), "bridge_pub_topic" :> "client_commands",
       Confs(BridgeArguments \cup {"ros_publisher_type"}))

recorder_node == Node("recorder_action_server", Conf("namespace"), NoRemap, << >>)

Vda5050Client ==
  <<Declare(ClientDefaults), Start(client_node), Start(ros_mqtt_bridge_node),
    Start(mqtt_ros_bridge_node), If(Conf("ros_recorder"), Start(recorder_node)),
    If(Conf("enable_apriltag_detection"),
       Include("apriltag_detection", Confs({"namespace"})))>>

AprilTagArguments ==
  [namespace |-> ""] @@
  Defaults({"apriltag_image_topic", "apriltag_camera_info_topic", "apriltag_detections_topic",
            "apriltag_size", "max_apriltags", "apriltag_family", "apriltag_tile_size"})

\* The name of the node holds the namespace; its topics are given in full.
apriltag_node ==
  Node("apriltag_detector", Conf("namespace"), NoRemap, Confs(DOMAIN AprilTagArguments))

AprilTagDetection == <<Declare(AprilTagArguments), Start(apriltag_node)>>

json_info_generator_node ==
  Node("json_info_generator_node", Conf("namespace"), "ros_sub_topic" :> "agv_state", << >>)

JsonInfoGenerator == <<Declare([namespace |-> ""]), Start(json_info_generator_node)>>
-----------------------------------------------------------------------------
(* The client with Nav2, and the same for the humanoid in the simulator.   *)

Nav2ClientArguments ==
  [namespace |-> "", use_namespace |-> "False", use_composition |-> "False",
   launch_rviz |-> "False", use_static_tf |-> "False"]
  @@ Defaults({"use_sim_time", "init_pose_x", "init_pose_y", "init_pose_yaw", "map",
               "nav_params_file", "info_generator_params_file", "base_frame"})

StaticTransform(name, given) == Node(name, Conf("namespace"), Tf, Confs(given))

\* configured_params rewrites the parameters with the pose and the base frame.
Nav2Arguments ==
  Confs({"namespace", "use_namespace", "use_composition", "map", "use_sim_time"})
  @@ [params_file |-> Conf("nav_params_file")]

Rviz(args) == Include("rviz_launch", args)

Nav2Client(navigation) ==
  <<Declare(Nav2ClientArguments),
    Start([json_info_generator_node EXCEPT !.given = Confs({"info_generator_params_file"})]),
    Include(navigation, Nav2Arguments),
    Include("isaac_ros_vda5050_client", Confs({"namespace", "base_frame"})),
    If(Conf("use_static_tf"), Start(StaticTransform("map_to_world_publisher", {}))),
    If(Conf("use_static_tf"),
       Start(StaticTransform("static_transform_publisher_map_to_odom",
                             {"init_pose_x", "init_pose_y", "init_pose_yaw"}))),
    If(Conf("launch_rviz"), Rviz(Confs({"namespace", "use_namespace"})))>>
-----------------------------------------------------------------------------
(* Robots that are navigated without the client.                           *)

\* The scanner of the lidar, with relative and with absolute topics.
pointcloud_to_laserscan(namespace) ==
  Node("pointcloud_to_laserscan", Text(namespace),
       ("cloud_in" :> "front_3d_lidar/lidar_points") @@ ("scan" :> "scan"), << >>)

PointcloudToLaserscan ==
  Node("pointcloud_to_laserscan", NoNamespace,
       ("cloud_in" :> "/front_3d_lidar/lidar_points") @@ ("scan" :> "/scan"), << >>)

IndividualArguments ==
  [namespace |-> "", use_namespace |-> "False", slam |-> "False", autostart |-> "True"]
  @@ Defaults({"map", "use_sim_time", "params_file", "default_bt_xml_filename"})

CarterIndividual ==
  <<Declare(IndividualArguments), Include("bringup_launch", Confs(DOMAIN IndividualArguments))>>

robots == <<"carter1", "carter2", "carter3">>

ParamsFile ==
  [carter1 |-> "carter1_params_file", carter2 |-> "carter2_params_file",
   carter3 |-> "carter3_params_file"]

RobotActions(name) ==
  <<If(Conf("use_rviz"),
       Rviz([namespace |-> Text(name), use_namespace |-> Text("True"),
             rviz_config |-> Conf("rviz_config")])),
    Include("carter_navigation_individual",
            [namespace |-> Text(name), use_namespace |-> Text("True"),
             use_sim_time |-> ConfOr("use_sim_time", "True"),
             params_file |-> Conf(ParamsFile[name]), use_rviz |-> Text("False"),
             use_simulator |-> Text("False"), headless |-> Text("False")]
            @@ Confs({"map", "default_bt_xml_filename", "autostart"})),
    Start(pointcloud_to_laserscan(name))>>

\* A mutant: what one robot's files set is still set for the next robot.
RobotGroupUnscoped(name) == [Group(RobotActions(name)) EXCEPT !.scoped = FALSE]

RobotGroup(name) == Group(RobotActions(name))

MultipleRobotArguments ==
  [autostart |-> "True", use_rviz |-> "True"]
  @@ [p \in Range(ParamsFile) |-> p]
  @@ Defaults({"map", "default_bt_xml_filename", "rviz_config"})

MultipleRobots ==
  <<Declare(MultipleRobotArguments)>> \o [i \in DOMAIN robots |-> RobotGroup(robots[i])]

\* The map, the parameters and the clock are declared with the values of the
\* configurations of the same names.
NavigationActions ==
  <<Declare(Defaults({"map", "params_file", "use_sim_time"})),
    Rviz([namespace |-> Text(""), use_namespace |-> Text("False"),
          rviz_config |-> Text("default")]),
    Include("bringup_launch", Confs({"map", "use_sim_time", "params_file"}))>>

CarterNavigation == Append(NavigationActions, Start(PointcloudToLaserscan))
IwHubNavigation  == NavigationActions

\* The scene is declared before the file that declares it empty.
Simulator ==
  <<Declare([gui |-> "scene"]),
    Include("run_isaacsim", [version |-> Text("6.0.0"), play_sim_on_start |-> Text("True")])>>

CarterNavigationIsaacSim ==
  Simulator \o CarterNavigation \o <<OnOutput("isaac_ros_navigation_goal")>>
IwHubNavigationIsaacSim ==
  Simulator \o IwHubNavigation \o <<OnOutput("isaac_ros_navigation_goal")>>

NavigationGoal ==
  <<Start(Node("set_navigation_goal", NoNamespace, NoRemap,
               [map_yaml_path |-> ConfOr("map_yaml_path", "default"),
                goal_text_file_path |-> ConfOr("goal_text_file_path", "default")]))>>
-----------------------------------------------------------------------------
(* The simulator, the controllers of the demonstrations and the monitor.   *)

IsaacSimArguments ==
  [version |-> "6.0.0", gui |-> "", play_sim_on_start |-> "false"]
  @@ Defaults({"install_path", "use_internal_libs", "dds_type", "standalone", "ros_distro",
               "ros_installation_path", "headless", "custom_args", "exclude_install_path"})

RunIsaacSim ==
  <<Declare(IsaacSimArguments),
    Start(Node("isaacsim", NoNamespace, NoRemap, Confs(DOMAIN IsaacSimArguments)))>>

H1Controller ==
  <<Declare([namespace |-> "h1_01", use_namespace |-> "False"]
            @@ Defaults({"publish_period_ms", "policy_path", "use_sim_time"})),
    Start(Node("h1_fullbody_controller", <<"if", "use_namespace", "namespace">>, NoRemap,
               Confs({"publish_period_ms", "policy_path", "use_sim_time"})))>>

CmdVelToAckermann ==
  LET arguments == {"publish_period_ms", "track_width", "acceleration", "steering_velocity"}
  IN  <<Declare(Defaults(arguments)),
        Start(Node("cmdvel_to_ackermann", NoNamespace, NoRemap, Confs(arguments)))>>

MoveItNode(name) == Start(Node(name, NoNamespace, NoRemap, Confs({"use_sim_time"})))

IsaacMoveIt ==
  <<Declare([ros2_control_hardware_type |-> "isaac", use_sim_time |-> "true"]),
    MoveItNode("rviz2"), MoveItNode("static_transform_publisher_world_to_robot"),
    MoveItNode("robot_state_publisher"), MoveItNode("move_group"),
    MoveItNode("ros2_control_node"), Start(Node("joint_state_broadcaster", NoNamespace, NoRemap, << >>)),
    Start(Node("panda_arm_controller", NoNamespace, NoRemap, << >>)),
    MoveItNode("gripper_to_isaac")>>

MegaNodeMonitor ==
  LET arguments == {"enable_metrics", "metrics_interval", "enable_3d_lidar_costmap"}
  IN  <<Declare([n \in arguments |-> "false"]),
        Start(Node("mega_node_monitor_service", NoNamespace,
                   "check_nodes_alive" :> "/check_nodes_alive", Confs(arguments)))>>
-----------------------------------------------------------------------------
(* What the files of other packages start.                                 *)

RvizLaunch ==
  <<Declare([namespace |-> "", use_namespace |-> "false"] @@ Defaults({"rviz_config"})),
    Start(Node("rviz2", Conf("namespace"), Tf, Confs({"rviz_config"})))>>

BringupLaunch ==
  <<Declare([namespace |-> "", use_namespace |-> "false", use_composition |-> "True"]
            @@ Defaults({"map", "params_file", "use_sim_time", "autostart"})),
    Start(Node("nav2_bringup", Conf("namespace"), Tf, Confs({"params_file", "map"})))>>

Description(file) ==
  CASE file = "navigation" -> Navigation
    [] file = "isaac_ros_vda5050_client" -> Vda5050Client
    [] file = "isaac_ros_vda5050_client_nav2" -> Nav2Client("bringup_launch")
    [] file = "isaac_ros_vda5050_client_humanoid_in_sim" -> Nav2Client("navigation")
    [] file = "apriltag_detection" -> AprilTagDetection
    [] file = "isaac_ros_json_info_generator" -> JsonInfoGenerator
    [] file = "multiple_robot_carter_navigation_hospital" -> MultipleRobots
    [] file = "multiple_robot_carter_navigation_office" -> MultipleRobots
    [] file = "carter_navigation_individual" -> CarterIndividual
    [] file = "carter_navigation" -> CarterNavigation
    [] file = "carter_navigation_isaacsim" -> CarterNavigationIsaacSim
    [] file = "iw_hub_navigation" -> IwHubNavigation
    [] file = "iw_hub_navigation_isaacsim" -> IwHubNavigationIsaacSim
    [] file = "isaac_ros_navigation_goal" -> NavigationGoal
    [] file = "run_isaacsim" -> RunIsaacSim
    [] file = "h1_fullbody_controller" -> H1Controller
    [] file = "cmdvel_to_ackermann" -> CmdVelToAckermann
    [] file = "isaac_moveit" -> IsaacMoveIt
    [] file = "isaac_ros_mega_node_monitor" -> MegaNodeMonitor
    [] file = "rviz_launch" -> RvizLaunch
    [] file = "bringup_launch" -> BringupLaunch
    [] file = "none" -> << >>
=============================================================================
