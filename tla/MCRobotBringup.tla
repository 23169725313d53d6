--------------------------- MODULE MCRobotBringup ---------------------------
(***************************************************************************)
(* The launches TLC follows: a robot with the client and Nav2, with and    *)
(* without namespaces, composition, respawns and options; the client alone *)
(* beside Nav2's own bringup; several robots; and the other files.         *)
(***************************************************************************)
EXTENDS RobotBringup

Humanoid(args) == <<"isaac_ros_vda5050_client_humanoid_in_sim", args>>

Watched(args) ==
  Humanoid(args @@ [use_respawn |-> "True"])

WatchedLaunches ==
  {Watched(<< >>), Watched([use_respawn |-> "False"]), Watched([use_composition |-> "True"]),
   Watched([use_composition |-> "true"]), Watched([namespace |-> "robot", use_composition |-> "True"])}

Files ==
  {"isaac_ros_vda5050_client_nav2", "carter_navigation_isaacsim", "iw_hub_navigation_isaacsim",
   "carter_navigation", "iw_hub_navigation", "h1_fullbody_controller", "cmdvel_to_ackermann",
   "isaac_moveit", "isaac_ros_mega_node_monitor"}

ManyRobots ==
  {<<"multiple_robot_carter_navigation_hospital", "use_rviz" :> v>> : v \in {"True", "False"}}
  \cup {<<"multiple_robot_carter_navigation_office", << >> >>}

Options ==
  {Humanoid(("namespace" :> n) @@ ("ros_recorder" :> v) @@ ("enable_apriltag_detection" :> v)
            @@ ("use_static_tf" :> v) @@ ("launch_rviz" :> v) @@ ("autostart" :> "false")) :
     n \in {"", "robot"}, v \in {"True", "False"}}

MCLaunches == WatchedLaunches \cup ManyRobots \cup Options \cup {<<f, << >> >> : f \in Files}

MCMonitoredLifecycleNodes == <<"controller_server", "waypoint_follower">>
=============================================================================
