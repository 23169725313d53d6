---------------------------- MODULE RobotBringup ----------------------------
(***************************************************************************)
(* A robot from its launch file on: the launch system executes the actions *)
(* of a description one by one, in a context of launch configurations that *)
(* included files share and groups keep to themselves; the nodes it starts *)
(* are brought up by the lifecycle manager, die, are started again, and    *)
(* are watched by the node monitor.                                        *)
(*                                                                         *)
(* The launch system, rviz, Nav2 and its lifecycle manager are not part of *)
(* the repository; they are modelled from how its files use them.          *)
(***************************************************************************)
EXTENDS LaunchFiles, NodeMonitor, FiniteSets

CONSTANTS
  Launches,   \* pairs of a file and the arguments of the command line
  Containers, \* component containers somebody else has started, in the
              \* namespace of the robot
  MaxDeaths,  \* bound: processes that die
  Mortals     \* bound: the names of the nodes whose processes may die

ASSUME BringupAssumption == MaxDeaths \in Nat /\ Mortals \subseteq Range(lifecycle_nodes)

VARIABLES
  file,       \* the file launched
  conf,       \* the launch configurations
  todo,       \* the actions to be executed
  saved,      \* the configurations outside of the groups being executed
  nodes,      \* the nodes started
  loading,    \* components waiting for their container
  handlers,   \* files to include when the simulator says that it plays
  aborted,    \* whether a substitution failed
  manager,    \* the lifecycle manager: "off", "starting", "up", "broken", "failed"
  deaths

contextVars == <<file, conf, saved>>
launchVars == <<file, conf, todo, saved, nodes, loading, handlers, aborted>>
vars == <<launchVars, alive, lifecycle, checks, up_metric, manager, deaths>>

Init ==
  /\ \E launch \in Launches :
       /\ file = launch[1]
       /\ conf = launch[2] @@ [ros_namespace |-> ""]
       /\ todo = Description(launch[1])
  /\ saved = << >>
  /\ nodes = {}
  /\ loading = {}
  /\ handlers = {}
  /\ aborted = FALSE
  /\ alive = {}
  /\ lifecycle = [n \in Range(lifecycle_nodes) |-> "unconfigured"]
  /\ manager = "off"
  /\ deaths = 0
  /\ MonitorInit
-----------------------------------------------------------------------------
(* Substitutions.                                                          *)

Truth(v) == v \in {"True", "true"}

Missing(e) ==
  CASE e[1] = "conf" /\ Len(e) = 2 -> {e[2]} \ DOMAIN conf
    [] e[1] = "not" -> {e[2]} \ DOMAIN conf
    [] e[1] = "if" -> {e[2], e[3]} \ DOMAIN conf
    [] OTHER -> {}

\* "not ..." is evaluated by Python, which does not know "true".
Fails(e) ==
  \/ Missing(e) # {}
  \/ e[1] = "not" /\ conf[e[2]] \notin {"True", "False"}

Value(e) ==
  CASE e[1] = "text" -> e[2]
    [] e[1] = "conf" -> IF e[2] \in DOMAIN conf THEN conf[e[2]] ELSE e[3]
    [] e[1] = "not" -> IF Truth(conf[e[2]]) THEN "False" ELSE "True"
    [] e[1] = "if" -> IF Truth(conf[e[2]]) THEN conf[e[3]] ELSE ""

Values(f) == [n \in DOMAIN f |-> Value(f[n])]

\* The substitutions of a node, and of an action.
NodeUses(n) == {n.namespace, n.respawn} \cup Range(n.given)
Uses(a) ==
  {a.when} \cup CASE a.do = "include" -> Range(a.args)
                  [] a.do = "start" -> NodeUses(a.node)
                  [] a.do = "load" -> {a.container} \cup UNION {NodeUses(n) : n \in Range(a.nodes)}
                  [] OTHER -> {}

\* A node as it is started, in a process of its own or in a container.
Resolved(n, process) ==
  [name |-> n.name, remap |-> n.remap, given |-> Values(n.given),
   namespace |-> IF Value(n.namespace) = "" THEN conf.ros_namespace ELSE Value(n.namespace),
   respawn |-> Truth(Value(n.respawn)), process |-> process]

FullName(x) == <<x.namespace, x.name>>
-----------------------------------------------------------------------------
(* The launch system.                                                      *)

Executing(kind) ==
  /\ todo # << >>
  /\ Head(todo).do = kind
  /\ \A e \in Uses(Head(todo)) : ~Fails(e)
  /\ Truth(Value(Head(todo).when))
  /\ UNCHANGED <<file, lifecycle, monitorVars, manager, deaths, aborted>>

\* A configuration that is already set keeps its value.
ExecuteDeclare ==
  /\ Executing("declare")
  /\ conf' = conf @@ Head(todo).defaults
  /\ todo' = Tail(todo)
  /\ UNCHANGED <<saved, nodes, loading, handlers, alive>>

\* The arguments of an included file are set in the context of the including
\* one and stay set.
ExecuteInclude ==
  /\ Executing("include")
  /\ conf' = Values(Head(todo).args) @@ conf
  /\ todo' = Description(Head(todo).file) \o Tail(todo)
  /\ UNCHANGED <<saved, nodes, loading, handlers, alive>>

EndOfGroup == [do |-> "end", when |-> Always]

ExecuteGroup ==
  /\ Executing("group")
  /\ IF Head(todo).scoped
     THEN /\ saved' = <<conf>> \o saved
          /\ todo' = Head(todo).actions \o <<EndOfGroup>> \o Tail(todo)
     ELSE /\ todo' = Head(todo).actions \o Tail(todo)
          /\ UNCHANGED saved
  /\ UNCHANGED <<conf, nodes, loading, handlers, alive>>

ExecuteEnd ==
  /\ Executing("end")
  /\ conf' = Head(saved)
  /\ saved' = Tail(saved)
  /\ todo' = Tail(todo)
  /\ UNCHANGED <<nodes, loading, handlers, alive>>

ExecuteStart ==
  /\ Executing("start")
  /\ nodes' = nodes \cup {Resolved(Head(todo).node, "own")}
  /\ alive' = alive \cup {FullName(Resolved(Head(todo).node, "own"))}
  /\ todo' = Tail(todo)
  /\ UNCHANGED <<conf, saved, loading, handlers>>

\* The launch goes on while the components wait.
ExecuteLoad ==
  /\ Executing("load")
  /\ loading' = loading \cup
       {Resolved(n, Value(Head(todo).container)) : n \in Range(Head(todo).nodes)}
  /\ todo' = Tail(todo)
  /\ UNCHANGED <<conf, saved, nodes, handlers, alive>>

ExecuteHandler ==
  /\ Executing("handler")
  /\ handlers' = handlers \cup {Head(todo).file}
  /\ todo' = Tail(todo)
  /\ UNCHANGED <<conf, saved, nodes, loading, alive>>

\* The condition does not hold.
Skip ==
  /\ todo # << >>
  /\ ~Fails(Head(todo).when)
  /\ ~Truth(Value(Head(todo).when))
  /\ todo' = Tail(todo)
  /\ UNCHANGED <<contextVars, nodes, loading, handlers, aborted, alive, lifecycle,
                 monitorVars, manager, deaths>>

\* The launch system shuts everything down.
Abort ==
  /\ todo # << >>
  /\ \/ Fails(Head(todo).when)
     \/ Truth(Value(Head(todo).when)) /\ \E e \in Uses(Head(todo)) : Fails(e)
  /\ aborted' = TRUE
  /\ todo' = << >>
  /\ nodes' = {}
  /\ loading' = {}
  /\ handlers' = {}
  /\ alive' = {}
  /\ lifecycle' = [n \in DOMAIN lifecycle |-> "unconfigured"]
  /\ manager' = "off"
  /\ UNCHANGED <<contextVars, monitorVars, deaths>>

Execute ==
  \/ ExecuteDeclare \/ ExecuteInclude \/ ExecuteGroup \/ ExecuteEnd \/ ExecuteStart
  \/ ExecuteLoad \/ ExecuteHandler \/ Skip

ContainerLoads ==
  /\ loading # {}
  /\ \A x \in loading : x.process \in Containers
  /\ nodes' = nodes \cup loading
  /\ alive' = alive \cup {FullName(x) : x \in loading}
  /\ loading' = {}
  /\ UNCHANGED <<contextVars, todo, handlers, aborted, lifecycle, monitorVars, manager, deaths>>

\* The simulator has a scene and plays it: it says so, once, and the handlers
\* include their files.
SimulatorPlays ==
  /\ todo = << >>
  /\ handlers # {}
  /\ \E x \in nodes : x.name = "isaacsim" /\ x.given.gui # "" /\ Truth(x.given.play_sim_on_start)
  /\ todo' = [i \in 1..Cardinality(handlers) |-> Include(SetToSeq(handlers)[i], << >>)]
  /\ handlers' = {}
  /\ UNCHANGED <<contextVars, nodes, loading, aborted, alive, lifecycle, monitorVars,
                 manager, deaths>>
-----------------------------------------------------------------------------
(* The lifecycle manager, deaths and respawns.                             *)

Managed(i) == lifecycle_nodes[i]

AllManagedAlive == \A n \in Range(lifecycle_nodes) : \E x \in alive : x[2] = n

ManagerStarts ==
  /\ \/ /\ manager = "off"
        /\ \E x \in nodes : x.name = "lifecycle_manager_navigation" /\ Truth(x.given.autostart)
     \/ manager = "broken"
  /\ AllManagedAlive
  /\ manager' = "starting"
  /\ UNCHANGED <<launchVars, alive, lifecycle, monitorVars, deaths>>

Configure(i) ==
  /\ manager = "starting"
  /\ AllManagedAlive
  /\ \A j \in DOMAIN lifecycle_nodes : lifecycle[Managed(j)] = "unconfigured" <=> j >= i
  /\ lifecycle' = [lifecycle EXCEPT ![Managed(i)] = "inactive"]
  /\ UNCHANGED <<launchVars, alive, monitorVars, manager, deaths>>

Activate(i) ==
  /\ manager = "starting"
  /\ AllManagedAlive
  /\ \A j \in DOMAIN lifecycle_nodes : lifecycle[Managed(j)] = IF j < i THEN "active" ELSE "inactive"
  /\ lifecycle' = [lifecycle EXCEPT ![Managed(i)] = "active"]
  /\ manager' = IF i = Len(lifecycle_nodes) THEN "up" ELSE manager
  /\ UNCHANGED <<launchVars, alive, monitorVars, deaths>>

\* A node that dies while it is brought up ends the attempt; one that dies
\* later takes the others down, until it is back.
BondBreaks ==
  /\ manager \in {"starting", "up"}
  /\ ~AllManagedAlive
  /\ manager' = IF manager = "up" THEN "broken" ELSE "failed"
  /\ lifecycle' = IF manager = "up" THEN [n \in DOMAIN lifecycle |-> "unconfigured"] ELSE lifecycle
  /\ UNCHANGED <<launchVars, alive, monitorVars, deaths>>

\* A process dies with all the nodes it holds.
Dies(x) ==
  LET dead == IF x.process = "own" THEN {x} ELSE {y \in nodes : y.process = x.process}
      names == {y.name : y \in dead}
  IN  /\ todo = << >>
      /\ deaths < MaxDeaths
      /\ FullName(x) \in alive
      /\ x.name \in Mortals
      /\ deaths' = deaths + 1
      /\ alive' = alive \ {FullName(y) : y \in dead}
      /\ lifecycle' = [n \in DOMAIN lifecycle |-> IF n \in names THEN "unconfigured" ELSE lifecycle[n]]
      /\ checks' = ChecksWithout(names)
      /\ manager' = IF "lifecycle_manager_navigation" \in names THEN "failed" ELSE manager
      /\ UNCHANGED <<launchVars, up_metric>>

Respawns(x) ==
  /\ x.respawn
  /\ FullName(x) \notin alive
  /\ alive' = alive \cup {FullName(x)}
  /\ UNCHANGED <<launchVars, lifecycle, monitorVars, manager, deaths>>

LifecycleManager_ ==
  \/ ManagerStarts \/ BondBreaks
  \/ \E i \in DOMAIN lifecycle_nodes : Configure(i) \/ Activate(i)

lifecycleVars == <<manager, lifecycle>>

Watching ==
  /\ todo = << >>
  /\ manager # "off"
  /\ UNCHANGED <<launchVars, alive, lifecycle, manager, deaths>>

Watch == Monitor /\ Watching

Next ==
  \/ Execute \/ Abort \/ ContainerLoads \/ SimulatorPlays
  \/ LifecycleManager_
  \/ \E x \in nodes : Dies(x) \/ Respawns(x)
  \/ Watch

(* What is under way is done: the launch system, the lifecycle manager and *)
(* the respawns do not stop, the timer fires, and services answer.         *)
Fairness ==
  /\ WF_vars(Execute \/ Abort)
  /\ WF_vars(ContainerLoads)
  /\ WF_lifecycleVars(LifecycleManager_)
  /\ WF_alive(\E x \in nodes : Respawns(x))
  /\ WF_checks(CheckBegins(1, "timer") /\ Watching)
  /\ \A c \in Checks : WF_checks(CheckGoesOn(c) /\ Watching)

Spec == Init /\ [][Next]_vars
FairSpec == Spec /\ Fairness
-----------------------------------------------------------------------------
(* Who publishes and who subscribes, by the names the programs use.  The   *)
(* entries of Nav2 are what its launch files say of it by their remaps.    *)

Publishes(name) ==
  CASE name = "vda5050_client_node" -> {"agv_state", "factsheet", "order_id"}
    [] name = "mqtt_ros_bridge_node" ->
         {"bridge_pub_topic", "instant_actions_commands", "order_valid_error"}
    [] name = "json_info_generator_node" -> {"info"}
    [] name \in {"controller_server", "behavior_server"} -> {"cmd_vel"}
    [] name = "velocity_smoother" -> {"cmd_vel_smoothed"}
    [] OTHER -> {}

Subscribes(name) ==
  CASE name = "vda5050_client_node" ->
         {"client_commands", "instant_actions_commands", "order_valid_error", "info"}
    [] name = "ros_mqtt_bridge_node" -> {"ros_sub_topic", "factsheet"}
    [] name = "json_info_generator_node" -> {"order_id"}
    [] name = "velocity_smoother" -> {"cmd_vel"}
    [] OTHER -> {}

Topic(x, t) == <<x.namespace, IF t \in DOMAIN x.remap THEN x.remap[t] ELSE t>>
Heard(x)    == {Topic(x, t) : t \in Subscribes(x.name)}
Said(x)     == {Topic(x, t) : t \in Publishes(x.name)}
-----------------------------------------------------------------------------
(* Properties.                                                             *)

\* Every configuration an action uses is set when it is executed, whichever
\* file included it.
ConfigurationsSet ==
  /\ todo # << >> => \A e \in Uses(Head(todo)) : Missing(e) = {}
  /\ \A x \in nodes \cup loading :
       /\ x.process \in {"own"} \cup Containers \cup {conf[k] : k \in DOMAIN conf}
       /\ DOMAIN x.given \subseteq STRING

StatesTyped ==
  /\ aborted \in BOOLEAN
  /\ \A x \in nodes \cup loading : x.respawn \in BOOLEAN
  /\ alive \subseteq {FullName(x) : x \in nodes}
  /\ lifecycle \in [Range(lifecycle_nodes) -> {"unconfigured", "inactive", "active"}]
  /\ manager \in {"off", "starting", "up", "broken", "failed"}
  /\ deaths \in 0..MaxDeaths
  /\ up_metric \in {0, 1}
  /\ \A c \in Checks : checks[c].at \in 1..Len(monitored_lifecycle_nodes) + 1

\* Every variable has its type, and every configuration an action uses is set
\* (all launch files).
TypeOK == ConfigurationsSet /\ StatesTyped

Launched == todo = << >> /\ loading = {} /\ ~aborted

\* One node drives the robot: whatever the controller and the recoveries want
\* goes to the smoother of their robot, and nobody else writes where the
\* smoother writes (the remappings of navigation.launch).
OneDriver ==
  \A s \in {x \in nodes : x.name = "velocity_smoother"} :
    /\ \A x \in nodes \ {s} : Said(x) \cap Said(s) = {}
    /\ Heard(s) \cap Said(s) = {}
    /\ \A x \in nodes :
         x.name \in {"controller_server", "behavior_server"} /\ x.namespace = s.namespace
         => Said(x) \subseteq Heard(s)

\* Once a robot with a client is launched, everything the client subscribes
\* to for its orders has one publisher, everything it reports has somebody
\* who takes it to the master control, and at most one node writes "info", one
\* that follows the client's order (isaac_ros_vda5050_client.launch and the
\* programs' own names).
ClientWired ==
  \A c \in {x \in nodes : x.name = "vda5050_client_node"} : Launched =>
    /\ \A t \in Heard(c) \ {Topic(c, "info")} : Cardinality({x \in nodes : t \in Said(x)}) = 1
    /\ \A t \in Said(c) \ {Topic(c, "order_id")} : \E x \in nodes \ {c} : t \in Heard(x)
    /\ Cardinality({x \in nodes : Topic(c, "info") \in Said(x)}) <= 1
    /\ \A x \in nodes : Topic(c, "info") \in Said(x) => Topic(c, "order_id") \in Heard(x)

\* Robots launched together are alike and do not share what is theirs: each
\* namespace has nodes of the same names, and its own parameters file, and
\* one launched with rviz has it for every robot
\* (multiple_robot_carter_navigation_hospital, _office).
RobotNamespaces == {x.namespace : x \in nodes} \ {""}
NamesOf(namespace) == {x.name : x \in {y \in nodes : y.namespace = namespace}}
ParamsFilesOf(namespace) ==
  {x.given.params_file : x \in {y \in nodes : y.name = "nav2_bringup" /\ y.namespace = namespace}}

RobotsAlike ==
  Launched =>
    \A r, s \in RobotNamespaces :
      /\ NamesOf(r) = NamesOf(s)
      /\ r # s => ParamsFilesOf(r) \cap ParamsFilesOf(s) = {}

\* If the nodes the monitor is to watch are from some time on all alive and
\* active, and say so when they are asked, the gauge is 1 from some time on; if
\* from some time on they are not, it is 0: no check that was under way when a
\* node died or came back decides it for good (check_all_nodes, timer_callback).
GaugeFollows ==
  /\ <>[]Healthy /\ <>[][\A c \in Checks : ~NodeUnknown(c)]_checks => <>[](up_metric = 1)
  /\ <>[]~Healthy => <>[](up_metric = 0)
=============================================================================
