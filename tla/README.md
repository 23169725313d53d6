# TLA+ models of the cloud control stack of IsaacSim-ros_workspaces

This directory holds TLA+ models of the programs under `src/jazzy_ws/src`, the
TLC configurations that check them on small instances, and proofs that the TLA+
proof system (TLAPS) checks.  Paths below are relative to `jazzy_ws/src`; `CC`
stands for `isaac_ros_cloud_control`, and `client.cpp` for
`CC/isaac_ros_vda5050_client/src/vda5050_client_node.cpp`.

## 1. Inventory

The workspace is a collection of ROS 2 packages.  The ones with control logic
of their own are the *cloud control* stack (a robot receives VDA5050 orders over
MQTT and executes them), the message synchronizer, the navigation goal node, and the
launch files that start all of them.

```
 master control --MQTT--> MqttToRos --Order/InstantActions--> VDA5050 client --goals--> Nav2
                <--MQTT-- RosToMqtt <------AGVState----------/   |   ^  |
                                                          order_id   |  +--Execute/Cancel/Pause/Resume
                                                                 v   | info         v
                                                    JSON info generator     action handler plugins
                                                                                    |
          scene recorder <----------------------------------------------------------+--> docking, pick and
                                                                                         place, AprilTag, map
 Mega node monitor --get_state--> lifecycle nodes        Mega controller --goals--> Nav2 (records a bag)
 navigation goal node --goals--> Nav2                    launch files: which of these run, where, wired how
```

| Component | State | Operations | What is hard | What makes it correct |
|---|---|---|---|---|
| VDA5050 client, `client.cpp` | order, current node, next stop, action states, errors, pending cancel and pause, navigation handle, client state | order and instant-action callbacks, 0.2 s timer, Nav2 response/feedback/result callbacks | handler threads between two critical sections of the timer; answers of Nav2 that arrive after the order has changed; cancel and pause spread over several ticks; exceptions that end the process | actions run at their node, in order, with their blocking type; one goal at a time and it is the order's; a canceled or paused order is at rest; the report agrees with the route; orders end |
| Example handler, `example_action_handler.cpp` | one detached thread per action | Execute, Cancel | Cancel does not stop the thread | every running action is reported on |
| Plugin handlers, `CC/vda5050_action_handler_plugins/src` | pending requests, timers, feedback maps | Execute and Cancel over chains of services and actions | one request of a chain fails; late answers; timeouts racing detections | an action ends once; the servers are left in the state they were found in |
| MQTT bridge, `CC/isaac_ros_mqtt_bridge` | MQTT connection, network thread, retained connection state | connect with retries, translate messages both ways, disconnect | lost connections and late wills, malformed messages on the network thread, a thread that dies in a process that lives | the retained state tells the truth; a message arrives where and as it was meant; a broken connection comes back |
| Launch files, `CC/*/launch`, `navigation/*/launch` and others | launch configurations, groups, nodes | declare, include, group, start, load, event handlers | one file's configuration is another's input; options combine; composition and namespaces change names | what a file uses is set; topics meet; robots do not share what is theirs |
| Mega node monitor, `CC/isaac_ros_mega_node_monitor` | a gauge | a timer and a service check all nodes | checks beside each other; nodes that die or come back before or after they answer | the gauge follows the nodes |
| Mega controller, `CC/isaac_ros_mega_controller` | waypoints, the bag's process | wait for Nav2, drive the waypoints while a bag is recorded, upload it | goals that fail, exceptions while the process records | no process is left recording; only a closed bag is uploaded |
| Scene recorder, `CC/isaac_ros_scene_recorder` | one subprocess, its pid, a flag, a Timer | start and stop actions, the Timer | the Timers' threads beside the executor, without a lock; a recorder that dies | the node knows what records and can end it; every recording ends |
| JSON info generator, `CC/isaac_ros_json_info_generator` | the order id, one deque per topic | three callbacks | messages of one order in the report of the next | the info is of one order and up to date |
| Message buffers, stream synchronizer, `isaac_ros_common/isaac_common/include/isaac_common/messaging` | bounded lists of messages, the next timestamp | Push, Pop, ClearAll, AddMessage, the popping loop | messages lost, evicted and cleared while the other streams go on | a callback gets messages that belong together; nothing with a match is dropped; time goes forward |
| Navigation goal publisher, `navigation/isaac_ros_navigation_goal` | grid map, generator, iteration count | send the next goal from the result of the last | borders of the map; short and bad files; refused and failed goals, a late server | goals are free, go out one at a time and in order, and the node ends |
| Demonstration controllers, launch utilities, simulator scripts | -- | map one message to another, build a command | -- | not modelled, see section 5 |

## 2. The modules

| Module | What it is |
|---|---|
| `Vda5050Orders` | the messages: orders, nodes, actions, blocking types, instant actions, as constants with assumptions |
| `Vda5050Client` | the client, with Nav2 and the handlers as its environment; type invariant, safety, action and liveness properties |
| `OrderExecution` | abstract specification of an order's execution: the order, its actions and the place on the route |
| `Vda5050Execution` | the client's refinement mapping to `OrderExecution` |
| `Vda5050Claims` | what a comment of the client says and the code does not do |
| `MCVda5050Client` | the small instances TLC checks |
| `Vda5050Client_proofs` | theorems about `Vda5050Client` in any environment: types, goals and handles, jobs, and what the timer's loop over the actions of a node keeps |
| `Vda5050Undisturbed_proofs` | a client nobody interferes with: its goals, pauses, cancellations, and what it leaves behind |
| `Vda5050Progress_proofs` | the same client's report of its progress, the end of its orders, and the proof that it implements `OrderExecution` |
| `MessageBuffer` | the operations of a bounded buffer, a message being its timestamp |
| `StreamSynchronizer` | the synchronizer over `MessageBuffer`: additions, clears, and the rounds of the popping loop |
| `StreamMatching` | abstract specification: messages of frames wait, whole frames are decided in order |
| `SynchronizedStreams` | the synchronizer for streams of common frames, and its refinement mapping to `StreamMatching` |
| `MCSynchronizedStreams` | an instance with common frames |
| `SynchronizedStreams_proofs` | theorems about the synchronizer, for all constants |
| `MqttKeys` | the conversion of keys and values between the JSON of VDA5050 and ROS messages |
| `MqttBridge`, `MCMqttBridge` | the two bridge processes, their network threads, the broker and the master control; an instance whose payloads go through `MqttKeys` |
| `MqttBridge_proofs` | theorems about the bridge |
| `LaunchFiles` | what each launch file returns, as data |
| `RobotBringup`, `MCRobotBringup` | the launch system that executes them, containers, Nav2's lifecycle manager, nodes that die; it extends `LaunchFiles` and `NodeMonitor` |
| `NodeMonitor` | the checks of the Mega node monitor |
| `RobotBringup_proofs` | theorems about the launched nodes and the checks |
| `GoalMap` | the obstacle map |
| `NavigationGoal`, `MCNavigationGoal` | the navigation goal node over `GoalMap` |
| `NavigationGoal_proofs` | theorems about it |
| `SceneRecorder`, `MegaController`, `InfoGenerator` | one component each |
| `Recording`, `MCRecording` | the three of them |
| `Recording_proofs` | theorems about each of the three |

### How the client corresponds to the code

*State.*  Each variable is one member of `Vda5050ClientNode` (its name is in the
comment of the declaration).  `actionStates` is the list
`agv_state_->action_states`, as a function from action ids: VDA5050 ids are
unique, so the order of the entries does not matter, except that the entries of
the order come first, which `ActionsOf(order)` stands for.  Of `errors` the model
keeps the level of the first one and whether any is FATAL: the code only looks
at the first, and no property at more.  Node ids and `node_states` are
node numbers and a length.

*Atomicity.*  `main` spins the node in a `SingleThreadedExecutor`: callbacks do
not interleave with each other, and a callback is one action.  The threads of
the handlers do interleave with them.  `ExecuteOrderCallback`, the 0.2 s timer,
is therefore split where it releases `state_mutex_` and decides with what it
read: `CancelOrder`, `PauseOrder`, the checks before the loop, each pass of the
loop over the node's actions, and what follows the loop.  `pc` says where it is,
`idx`, `stopDriving` and `hasRunning` are its local variables.  Inside
`CancelOrder` and `PauseOrder` the code also releases the mutex between two
actions.  The model keeps one round of them in one step: a handler that ends an
action during a round is taken to do so before or after it.  (The example
handler's Cancel may then turn a FINISHED of that instant into FAILED; both are
terminal, and no property tells them apart.)

*Nav2.*  A goal goes `sent -> active -> (canceling) -> free`.  The environment
may answer goals, report feedback (never more remaining poses than before) and
end them in any order the constants allow.

*The end of the process.*  A null dereference, an index out of range or an
exception that no callback catches ends the process.  `fault` records it and
disables every action: nothing is persisted, so a restart is `Init`.

*Handlers.*  Three kinds stand for the plugins: `"example"` (a thread per
action; Cancel fails the action at once while the thread goes on), `"handled"`
(the empty Cancel, Pause and Resume of the base class) and `"pausable"` (Pause
and Resume as the base class asks: they set PAUSED and RUNNING).

*Left out of the client.*  The callbacks that copy a sensor value or only
publish; an instant action delivered twice; timing.  That a robot is not a
navigatable one only makes the transform lookup always succeed.

*What it promises.*  `OrderExecution` leaves out goals, handles, callbacks and threads.  An order is accepted
when nothing of the last one is left, the actions of a node start in their order, the robot departs for the
next stop once all of them are done, and a cancelOrder or a pause is over at rest.  `Vda5050Execution` maps the
client to it: a robot with a goal drives to `next_stop_`, the orders' actions before this one do
not count, and a request (`cancel_action_`, `pause_action_`) is being carried out while it is set.  Steps of the abstract
specification take several of the client: `Depart` is the whole round of the timer with no action left to
start, `Cancel` one of the rounds that cancel, and sending cancels to Nav2 is seen only in its
results.  Two of its actions are wider than one would write them, because the code is: `End` lets
an action that FAILED end again, since the thread of a canceled example action still reports, and
`Abort` goes to node 1.

### How the synchronizer corresponds to the code

`buffers[i]` is `message_buffers_[i]` with its four members; a message is
its timestamp, since nothing else of it is read.  `callback` is what the
callback was last called with.  One thread calls the synchronizer, so that
`AddMessage` and `ClearBuffers` only happen while no call is in progress (`pc`);
`PopBuffersAndTriggerCallback` is taken apart into its rounds (`PopRound`,
`PopReturns`) because the callback is called in each.  The environment loses
messages freely (a timestamp need not come) and adds messages with and without
triggering the loop.  It delivers the messages of one stream in the order of
their timestamps and at least `Period` apart, as cameras do: the code does not
check this, and its callers are outside of the repository.

A *frame* is one instant at which the cameras take an image.  `FramesAssumption`
says what the threshold is for: two messages are of one frame exactly when
they are within it of each other, and a stream has one message per frame.
`StreamMatching` knows frames only, neither timestamps nor the order in a buffer.
It may lose the earliest message of a stream when one is added (eviction), or all
(clear); whatever waits is decided on frame by frame, all messages of the frame at once.

*Left out.*  `ClearUpto` and `ClearAndGetUpto`, which nothing but a unit test
calls; a callback that calls the synchronizer again.

### How the MQTT bridge corresponds to the code

`MqttToRosNode` and `RosToMqttNode` are two processes that share nothing but the
broker, where they use different topics; `Deployments` starts one or the other.  A client
`c` has `phase[c]` (the constructor's connection loop, spinning, in `disconnect()`,
gone), `loop[c]` (paho's network thread) and `link[c]`.  `on_mqtt_connect`, `on_mqtt_message`
and the subscription callback are one action each: they run on one thread and send what they
send into one connection.  What paho and the broker do is external and modelled from what
the nodes ask of them: a connection keeps the order of its packets and loses
those under way when it breaks; QoS 1 messages are kept in `unacked` and sent again after
`on_mqtt_connect`, QoS 0 messages (the state) are lost; the broker publishes the will of a session
that ends without DISCONNECT, be it when keep-alive expires or when the client takes its
session over.  `on_mqtt_message` catches two exceptions; any other ends the network
thread while the process spins on (`loop = "dead"`).

`MqttKeys` translates `MqttBridgeUtils.py`: names are sequences of characters, as their
case is what the code works on.  The payloads are an order, an instantActions message, one with a
value of another type, one in which two keys become one, and one that is no JSON;
each is sent on each topic.  *Left out:* the factsheet (it goes the way of the state), conversion
switched off, credentials and transport.

### How the launch files correspond to the code

`LaunchFiles` holds, file by file, the sequence of actions that
`generate_launch_description()` returns, with every argument, node, remapping, parameter, group,
include, condition and event handler.  `RobotBringup` executes them as `launch` does:
`todo` is what is still to execute and `conf` the launch configurations, which an included file shares with
the one that includes it, and which a scoped group saves and restores (`saved`).
A Boolean substitution that does not evaluate (`PythonExpression` of `true`) aborts the launch
(`Abort`).  Composable nodes wait for a container of their name (`loading`);
`Containers` says which exist, in the robot's own namespace.

Then Nav2's lifecycle manager configures and activates its nodes in order, processes in
`Mortals` die and, with `use_respawn`, come back, and the monitor looks on.  In `NodeMonitor`
a check is split where the code awaits an answer, because its reentrant callback
group lets the timer's and the service's check run beside each other.  The request
(`NodeAsked`), the node's answer (`NodeAnswers`) and the coroutine that resumes with it
(`AnswerTaken`) are steps of their own: a node that dies once it has answered is still counted as
active.  The state of a node that is there may remain unknown
(`NodeUnknown`: its service is not discovered within 0.2 s, or one of the exceptions is caught).  A check
that awaits the answer of a node that died never goes on, since nothing bounds that
await (the 0.5 s of the comment at line 161 are not in the code); it is left out of `checks`
(`ChecksWithout`), which is what it amounts to.

*Left out:* packages, paths, descriptions and the values of plain parameters.

### How the navigation goal node corresponds to the code

A pose stands for the cell of the map it lies in, counted from the origin, as
`__transform_to_image_coordinates` does before anything else.  The image is a function from
pixels to grey values and `RawMap` thresholds it.  Slices have Python's meaning of
negative and of too large bounds (`Slice`).  The random generator may give any valid pose, or none: it gives up
after a number of trials whether or not there is one.  `CreateGoalGenerator`,
`SendInitialPose`, `SendGoal` and the two callbacks are the node; Nav2 may come late,
refuse a goal, and end it in any way, which `__get_result_callback` does not tell apart.
*Left out:* reading the files, angles, feedback, and the rounding of the range, which matters
for a resolution that is no multiple of 0.01 only.

### How the recording nodes correspond to the code

The scene recorder's `stop_recording` runs on the executor or on the thread of a
`threading.Timer`, without a lock: it is taken apart into its statements.  `pc[0]` is the
executor, `pc[n]` the n-th Timer, and all of them go on beside each other at any time.  SIGINT
asks a process to end, which it does later (`RecorderEnds`); signalling one that is gone
raises an exception, which ends the Timer's thread or the action and leaves the pid, the flag and
the Timer as they are (`SignalFails`).  A recorder may also die by itself.  When the node has
sent SIGINT to itself its executor takes no more goals (`Up`).  `crossed` is a history variable: the
recordings that were started while the Timer of an earlier one was on its way through
`stop_recording`, or was waiting because another such one had missed it.
`MegaController` follows
`main` with the `with` block around it: each place that raises leads to `__exit__`.
`InfoGenerator` numbers the messages of each topic as they arrive and keeps, beside the code's deques, what
has arrived since the order id was set (`since`).  They share no state, so that `Recording`
follows one of them at a time (`followed`).

### Constants that choose the client's environment

`PromptAck`, `FeedbackMin`, `FatalJobs`, `MayReject`, `Outcomes`, `MayFail`,
`Rerun` and `Batches` choose what the environment does.  The definition
`Undisturbed` collects what the properties of an order need, each condition
because the code goes wrong, or stops being meaningful, without it:

- `FeedbackMin = 1`: feedback of 0 remaining poses makes the next stop the
  current node before the goal has ended; the next order is then accepted while
  the goal is outstanding.
- no FATAL errors of handlers: the client turns IDLE with the goal outstanding.
- no teleoperation: stopTeleop resumes before the canceled goal has answered, and
  also without an order.
- a goal is answered at once when orders can be canceled or paused: a command
  that falls between the goal and its answer does not stop it (finding 1).
- only NONE actions can be PAUSED: the loop passes over a PAUSED one.

`client_disturbed` drops all of them and checks what still holds.

## 3. The runs

The client's instances have orders `o1` (three nodes: SOFT and NONE actions at the first, a
node to pass through, a HARD action at the last), `o2` (two nodes, a NONE
and a HARD action at the first and none at the last), `long` (`o1` with a node behind the first
that has to be reached exactly, so that a goal starts at node 1, where an aborted one also puts the
client) and an empty order.  Together they hold every
blocking type, nodes at which a goal does and does not stop, an order that
ends without an action, and an order with no node.  `client_orders` and `client_commands` use `long`,
`o2` and the empty one, the others one of `o1` and `o2`.  `MaxDeliveries` bounds how often master
control sends each of them, `GoalSlots` how many goals are outstanding at once.

| Run | Environment | Shows |
|---|---|---|
| `client_orders` | no instant actions, all failures of Nav2, tf, the status check and the bridge; each order sent twice; 2 goal slots; deadlock checked | `HardRunsAlone`, `NoActionLeftBehind`, `NoActionAhead`, `ProgressReported`, `ExecutesOrders` (the refinement) |
| `client_commands` | plus cancelOrder, startPause, stopPause at any point, a pausable and a pause_order action, messages with two instant actions | `GoalMatchesOrder`, `NoDrivingWhileBlocked`, `IdleMeansOver`, `PausedMeansQuiet`, `ExecutesOrders` (the refinement), `ProgressNeverGoesBack` |
| `client_disturbed` | feedback of 0, teleoperation, FATAL errors, an order executed twice, answers of Nav2 delayed | `TypeOK`, `RunningHasAJob`, `HandleIsLive` |
| `client_liveness` | `FairSpec`; one order whose actions fail FATAL, throw or succeed, every result of a goal, refused goals, no Nav2, a status check that is never answered, malformed orders; two cancelOrders and two startPauses | `OrderEnds`, `CommandsAnswered` |
| `stream_sync` | three streams, three frames with two timestamps each, 2 messages make a match, buffers of 2 | `TypeOK`, `NextIsFront`, `OnlyUnmatchedDropped`, `MatchesFrames` (the refinement), `CallbackTimesIncrease` |
| `mqtt_bridge` | `FairSpec`; each of the two processes, one retry, two messages of five kinds on two topics, two states, two faults (refused or raising connects, breaks, crashes), restarts | `TypeOK`, `OnlineMeansSubscribed`, `OnlineMeansSession`, `MessagesAsMeant`, `StateNeverGoesBack`, `DeadThreadNoticed`, `Reconnected` |
| `robot_bringup` | `FairSpec`; 21 launches of every robot's file with and without namespace, composition, respawn and options; one death, of a lifecycle node; two checks at a time | `TypeOK`, `OneDriver`, `ClientWired`, `RobotsAlike`, `GaugeFollows` |
| `navigation_goal` | `FairSpec`; maps of 3 by 4 pixels: empty, full, and with one obstacle or unknown pixel anywhere, negated or not; files with too few, enough, more and bad rows; two iterations | `GoalsFree`, `GoalsInTurn`, `NodeEnds` |
| `recording` | `FairSpec`; three recordings with the Timers' threads beside the executor, two waypoints, two topics and orders | `RecorderKnown`, `RecordingEnds`, `BagClosed`, `InfoOfOneOrder` |
| `client_cancel_in_flight`, `navigation_distance`, `recorder_signal` | see below | each finds one statement of the code's own comments violated |

The properties, in a sentence each, stand before their definitions.  `client_orders` is the
only run that also finds the absence of deadlock; `NoDrivingWhileBlocked` and
`IdleMeansOver` are checked where commands can break them (`client_commands`).  The last part of
`IdleMeansOver`, that an order without a cancelOrder is over at its last node only, says nothing there;
`ExecutesOrders` in `client_orders` has it, and `IdleCorrect` proves it.  `ExecutesOrders` is checked
in both: without commands it is about failures and the next delivery, with them
about rounds that cancel and pause while actions and goals end.

`stream_sync` has the least numbers at which its cases exist: with three streams and 2
messages for a match a round can match two streams and leave the third, or drop one;
three frames overflow a buffer of two, which evicts; two timestamps per frame make
messages of one match differ.  It runs without deadlock checking because the
timestamps come to an end.

Two goal slots are enough: where `GoalMatchesOrder` holds no second goal is ever
sent, and its mutants send one.  Where it is not claimed (`client_disturbed`),
two goals are the least that can be mixed up.  `client_liveness` is undisturbed in this respect (a goal is
answered at once, one order, feedback of at least 1), so that one slot is enough there.  Its order is `o2`, whose
first node has two actions and whose last has none: each path that leaves an order
standing begins at a goal or an error, and one goal with one node ahead has them all.  Two commands of a kind
are the least of which one takes the other's place, before or while the first is carried out.  `CHECK_DEADLOCK FALSE` stands where the
process may end, or where a paused order waits for a stopPause
that the budget of instant actions no longer holds.

`mqtt_bridge` needs two faults for a will that comes late: a break, and a second one before the broker
noticed the first.  With one retry the connection loop is left both ways.  Two messages
let one that kills the thread come before or after one that is translated.  `robot_bringup` needs one death
only, of the first of the two lifecycle nodes the monitor asks: a death before, during or after the
request, with or without a respawn, is all the gauge can be wrong about.  `navigation_goal` has a map with
inner pixels and pixels at each border and corner; one obstacle at a time tells where the patch is.  `recording` needs three recordings for a Timer that outlives its
own recording and the next: the second is crossed by the first one's, and the third by
the second's.  They run without deadlock checking because their processes end or
their bounds are used up.

*Fairness.*  `FairSpec` of the client assumes weak fairness of the timer (it fires for ever, and
the executor serves what stays pending), strong fairness of Nav2's answers to each goal
(they wait in the executor's queue while the timer is inside its callback, so
the action is enabled again and again) and weak fairness of each job of a
handler.  Two failures are off in `client_liveness`: no tf and a status check that fails (`"tf"` and
`"status_check"` in `MayFail`).  The client tries those again with each tick, for ever if need be, and nothing
says that they end.  What it does not try again is on: Nav2 that is not there for a goal, a result
that nobody handles, a FATAL error behind a WARNING, an answer of the status check that never comes.  `OrderEnds`
says that these are all: an order that runs ends, or the process ends or hangs, or the order is
`LeftStanding`, and stays so until master control or the operator does something.  Likewise
`CommandsAnswered` says that a command is answered or a second one of its kind has `Replaced` it, and that it then never
is.  Both are about what the code does, not what one might want of it; section *What the code does not
do* lists the lines.  Nothing is assumed of master control.

In the bridge the processes, their network threads and the broker go on (weak fairness: each
is a thread or process of its own, and none waits for a lock).  Nobody has to send
messages, break connections, or start a process again.  `Reconnected` says what follows when process
and thread live on; where they do not, `DeadThreadNoticed` is what remains.  In `robot_bringup`
the launch system, the lifecycle manager, respawns, the monitor's timer and each check
go on; nothing has to die.  That the gauge is 1 in the end also assumes that from some time on
no state remains unknown (`NodeUnknown`): nothing in the code makes a service appear in time.  That it
is 0 in the end does not.  `NodeEnds` needs that Nav2 comes up and answers: the node
waits for both without a bound.  `RecordingEnds` needs that threads run, that a Timer that is not
cancelled fires, and that a recorder ends that was sent SIGINT.

### What the code does not do

Three runs find a statement of the code's own comments violated:

1. `client_cancel_in_flight`: a cancelOrder is FINISHED while a goal is sent and not yet
   accepted; the robot then drives for a canceled order (`client.cpp:774-776`).
2. `navigation_distance`: the patch searched for obstacles is one row too low and ends before its
   last row and column: an obstacle right above a goal or to the right of it
   is not seen (`obstacle_map.py:113-114`, `151`; the docstring at `157` says otherwise).  Goals are
   still never *in* one (`GoalsFree`).
3. `recorder_signal`: `stop_recording` tests `process_pid` and reads it again; a second call in
   between makes it None, which `psutil` takes for the process itself
   (`isaac_ros_scene_recorder.py:91-92`; docstring at `43`).

What else was met while modelling is in the models as the code has it.  No run
is spent on it.  In the client:

- a cancelOrder without an order dereferences the pointer it has just reset (`client.cpp:740-741`);
- a FATAL error that is not the first error does not stop the order (`client.cpp:285-288`);
- canceling while a NONE action of an earlier node runs throws (`client.cpp:753`, `767`, `969`);
- the second new instant action of a message ends the process (`client.cpp:650`);
- a HARD action may start beside a NONE action of an earlier node (`client.cpp:338`);
- when Nav2's action server does not appear within 3 s the order is left running without a goal
  (`client.cpp:423-426`): `next_stop_` is not set back, unlike after a failed status check (408-411), and nothing tries
  again.  A goal whose result is UNKNOWN (`client.cpp:903-906`) and one that ends with a FATAL error which is
  not the first (285-288) leave the order in the same way (`LeftStanding`);
- the status check's answer is awaited without a timeout (`client.cpp:943`): if the service dies with the request,
  the executor's only thread waits for ever;
- a second cancelOrder becomes the pending one also when it has just been marked FAILED, and the first is never
  answered (`client.cpp:653-657`); nor is the first of two startPauses (663) (`Replaced`);
- the example handler's `std::stoi` throws on a thread of its own (`example_action_handler.cpp:47`), which ends the
  process;
- a goal that Nav2 aborts sets the current node to 1 (`client.cpp:882`): an order that is paused
  and resumed after that drives on from node 1, wherever the robot is, and then reports its progress as
  if it were there.  What this breaks is why `ReportedSplitCorrect` and `AheadCorrect` have the
  hypothesis `Followed`, and why `ProgressNeverGoesBack` ends with a FATAL error.

In the synchronizer: without common frames a round drops a message that still has a match
(`message_stream_synchronizer.hpp:55-56`, `177`).

In the bridge: for every item of a list that is no dict, `convert_dict_keys` appends the whole list
(`MqttBridgeUtils.py:138`); an exception that `on_mqtt_message` does not catch ends the
network thread and not the process.

In the launch files and the monitor:

- the status check asks `velocity_smoother`, "to verify NAV2 is ready"
  (`isaac_ros_vda5050_client.launch.py:80-81`), which is active before `bt_navigator` is;
- the humanoid's launch with `use_composition:=True` starts no container, so that Nav2 is never loaded
  unless somebody else starts one; a lower-case `true` aborts it (a `PythonExpression`);
- it passes `map` and `use_namespace` to `navigation.launch.py`, which declares neither;
- the monitor's await of an answer has no timeout, though its comment says so
  (`isaac_ros_mega_node_monitor.py:161`), and it looks for names in the root namespace only;
- of two checks the older may set the gauge after the newer, until the next one.

In the nodes that record: the recorder's start action succeeds also when a recording already
runs or its process has died.  A Timer that has fired cannot be cancelled any more: when a stop action and a
start come while it is in `stop_recording`, it may clear the new recording's flag, forget its pid, send it SIGINT, or cancel its
Timer, so that nothing ends it (`isaac_ros_scene_recorder.py:90-98`).  A signal that fails because the
recorder or one of its children is gone leaves the flag set, and no recording starts until a stop action succeeds
(`49-52`).  The Mega controller fails on `None` when the action server does not appear, and never
reads the pipe of the bag's process.  The navigation goal node waits for ever when Nav2 dies
with its goal.

## 4. What is proved

Every theorem holds for all values of the constants: any set of orders of any length with any
actions, any number of goals, deliveries, states, faults, recordings, waypoints or streams, maps of
any size.  It rests on the named assumptions of the modules, which TLC evaluates on every run, and
on nothing else, unless a hypothesis is named below.  28 theorems state properties that runs check: 27 of passing runs,
and one of the three statements of the code's comments that a run finds violated,
under the condition the violation lacks.

The argument of each theorem about an invariant is the same: the invariant holds in `Init`; one lemma per action of `Next`,
or per kind of action that treats the state alike, shows that it is kept; a temporal step combines them.
What differs is the invariant.

### The client in any environment

| Theorem | States | The invariant behind it |
|---|---|---|
| `TypeCorrect` | `[]TypeOK` | inductive by itself: every assignment to `current_node_` is guarded by the range check whose failure is the fault of an index out of range |
| `HandleCorrect` | `[]HandleIsLive` | `GoalInv`: with `GoalsNeedAnOrder`, since a response could otherwise be for a goal of no order |
| `RunningCorrect` | `[]RunningHasAJob` | `CommandTypes` (the pending commands are of their types) beside it; the steps are sorted by what they do to action states and jobs |
| `HardCorrect` | `[]HardRunsAlone`, if `NoneResumed` | `ActionsInv` |

`ActionsInv` is what the loop over the actions of a node keeps.  `InOrder`: an action has been started
only if those before it at its node have.  `LoopInv`: of the actions the loop has passed in this
round, those that run are counted by `has_running_action` and `stop_driving`; a handler may end
an action behind the loop's back, so that the counts may be too high and never too low.  `StatusStep`
reduces every step of `Next` to one of four things it may do to the actions of the order: start a new order, settle some,
start the one the loop is at, or resume the paused ones.

`NoneResumed` says that master control does not use stopPause, or that no action of an order can be
paused.  It is needed: stopPause resumes every paused action of the order at once, a NONE action
among them that has been paused before a HARD one began.

### The undisturbed client

These have the hypothesis `Undisturbed` (section 3), which the runs `client_orders` and
`client_commands` satisfy.

| Theorem | States | Further hypotheses | The invariant behind it |
|---|---|---|---|
| `GoalsCorrect` | `[]GoalMatchesOrder` | | `FlowInv` |
| `PauseCorrect` | `[]PausedMeansQuiet` | | `PausedNoneRuns` |
| `BlockingCorrect` | `[]NoDrivingWhileBlocked` | | `BlockingHere` |
| `BehindCorrect` | `[]NoActionLeftBehind` | | `BehindPassed` |
| `CancelCorrect` | `CancelFinishesLast` | | `JobsHandled` |
| `IdleCorrect` | `[]IdleMeansOver` | | `OverInv`, `Reported` |
| `ProgressCorrect` | `ProgressNeverGoesBack` | | `Reported` |
| `ReportedSplitCorrect` | `[]ProgressReported` | `Followed` | `InStep` |
| `AheadCorrect` | `[]NoActionAhead` | `Followed`, `~Rerun` | `Ahead`, `Fresh`, `InStep` |
| `ExecutionCorrect` | `ExecutesOrders` | `~Rerun` | `ExecutionInv` |

`FlowInv` carries them all.  The client is *at rest* (no goal, no handle, not driving, and the
current node is the next stop if it may go on) or *under way* with exactly one goal, which is of
the current order and stop, whose handle it has as soon as Nav2 has answered, and whose remaining poses
count from the current node to the next stop.  `FlowInv` needs each part of
`Undisturbed` but the last: feedback of 0 poses, an unanswered goal that a cancelOrder misses, stopTeleop and
FATAL errors of handlers each leave a goal behind.  The last part, that only NONE actions can be PAUSED, is
what `BlockingHere`, `BehindPassed` and `OverInv` need, because the loop passes over a PAUSED action.  `Keeps`, `Departs`, `Advances` and `Aborts` are then the only things a
step can do to the place on the route.

`BehindPassed` says of every node the robot has left, or is about to leave, that its actions have been started and the
blocking ones are over.  It has to speak of the reported node and of the current one, since an
aborted goal takes them apart: `Behind`.  `Reported` says that they are the same as long as there
is no FATAL error, and `OverInv` that an order that is over without one is over at its last node.
`InStep` says the same with FATAL errors, which is where `Followed` is needed: no stopPause, or no goal is
ever aborted.  `Ahead` says that the actions ahead of the robot have neither a job nor an end other than failure.
With `Rerun` a second execution of an order inherits the threads of the first, which may end actions ahead
of it; `Fresh` says that a first execution inherits none.

`CancelCorrect` is what the comment claims that `client_cancel_in_flight` finds violated: with goals
that are answered before the next command is looked at, a cancelOrder is FINISHED once all is over.  `CancelFinishes`
shows that a cancelOrder becomes FINISHED in a round of `CancelOrder` and nowhere else, for which no handler may
report on it (`JobsHandled`).

`ExecutionCorrect` is the refinement of `OrderExecution`.  There is one lemma for each action of the client, which
says what the abstract step is (`OrderRefines`, `PauseRefines`, `CancelRefines`, `InstantRefines`, `LoopRefines`,
`LeaveRefines`, `ResponseRefines`, `FeedbackRefines`, `ResultRefines`, `JobRefines`, ...), and `UnseenStutters` for the steps
that leave what the mapping shows alone.  `ExecutionInv` joins invariants from above: `FlowInv`
says that a goal is for the next stop, so that it ends where the abstract robot arrives;
`ActionsInv` that the loop starts an action after those before it; `BehindPassed` and `Reported` that a departing
robot leaves nothing behind; and `JobsInv` that a handler ends an action only while
it is RUNNING or has been canceled.  The last one is why `~Rerun` is needed: a job of an order's
first execution may end the same action of the second while that is still WAITING.

### The synchronizer

All properties of `stream_sync`, from `BufferAssumption`, `SynchronizerAssumption` and `FramesAssumption`:

- `SynchronizerTypeCorrect` and `FrontCorrect`: `[]TypeOK` and
  `[]NextIsFront`.  The inductive invariant `BuffersInv` says that each list is
  spaced by `Period` and that none of its messages is later than the current timestamp.  It is
  proved per operation of the buffer (`PushInv`, `PopInv`, `ClearAllInv`), and these
  lemmas also say which timestamps are left.
- `MatchesFramesCorrect`: `Spec => MatchesFrames`, the refinement.  An addition is
  `Receive` of its frame (an eviction loses the earliest), a round is `Decide` of the
  earliest frame in front (`PopRoundFronts`: the fronts within the threshold are those of
  that frame), a clear is `Clear`, and the rest stutters.
- `CallbackTimesCorrect`: `Spec => CallbackTimesIncrease`, from the invariant
  `MatchedPast` of the abstract state: whatever waits is of a later frame than the last match.
- `OnlyUnmatchedDroppedCorrect`: `Spec => OnlyUnmatchedDropped`.  A match of a front
  message has all its streams in the round, which is then large enough for the callback.

### The bridge

`BridgeTypeCorrect`, `StatesCorrect`, `SubscribedCorrect` and `SessionCorrect` have no hypothesis:
messages, faults, crashes and restarts come in any number and order.

- `[]TypeOK` needs `RetriesAreFaults`: a client that retries for ever is bounded by the faults only.
- `StateNeverGoesBack` needs `OwnPackets` (each client sends its own kinds of packets, and states are
  not sent again) and `StatesInOrder`: the states under way never go back, none is older
  than what the master control has seen, and none is newer than the robot's state.
- `OnlineMeansSubscribed` and `OnlineMeansSession` are only inductive together with what is
  under way (`Promise`).  `Welcome`: before an ONLINE in the queue of packets every subscription is there or still before it, and the
  broker has accepted that connection.  `Farewell`: a DISCONNECT follows an OFFLINE, so that the
  end of the session it asks for finds ONLINE taken back.  `Links` says that a client without a
  connection has nothing under way.  `KindsOfSteps` sorts the steps by what they do to one client's
  queue (cut off, accept, greet, part, deliver, ...).

### The launched robot and its monitor

These hold for any launch, any number of deaths and of checks beside each other, and without an assumption on the launch files:

- `StatesTypedCorrect`: `[]StatesTyped`, the part of `TypeOK` that is not about the files.
- `ActiveCorrect`: a lifecycle node that is configured or active is alive (`ActiveIsAlive`), though nodes die in
  every state of the lifecycle manager.  It needs `StatesTyped` only.
- `GaugeCorrect`: only a check of the timer that has asked all nodes sets the gauge, and to 1 only if it
  found all the nodes among its names.  `Found` is the invariant of a check on its way.

That the gauge is right in the end is `GaugeFollows`, which needs fairness.

### The navigation goal node and the nodes that record

- `FreeCorrect`, `InTurnCorrect`: `[]GoalsFree`, `[]GoalsInTurn`.  `GoalsInv` counts the published goals
  against the iterations and the phase (`Counted`), has the initial pose first (`LeadFirst`), and
  keeps the file's rows split into those sent and those left (`FileFollowed`).  `ValidPoseFree` is the fact about the map:
  the patch of a valid pose holds the pose's own pixel at the borders as well, although it is a row
  too low.
- `InfoCorrect`: `[]InfoOfOneOrder`.  `LatestPushed` shows that a bounded deque holds the last elements of
  what has been appended.
- `BagCorrect`: `[]BagClosed`, with `ControllerInv`: where `main` is says whether the bag's process
  records.
- `RecorderCorrect`: `[]RecorderKnown`, with no hypothesis: Timers' threads run beside the executor's.  `RecorderInv` says of each
  recording that was not `crossed` that it is `Past` (its Timer no longer waits, and its recorder has ended or has
  been sent SIGINT) or is the `Current` one.  No other Timer waits or runs beside that one; the flag, the
  pid and the Timer are its own as far as `start_recording` has come; and a thread that is past the signal has sent it.
  `OthersIdle` draws from this that only the executor and the recording's own Timer can be in `stop_recording`, and
  `StopKeeps` says what a step of either has to keep: both may be in it at a time.

### Only model-checked

- Liveness, which needs fairness and ENABLED: `OrderEnds`, `CommandsAnswered`, `Reconnected`, `DeadThreadNoticed`,
  `GaugeFollows`, `NodeEnds`, `RecordingEnds`.
- `MessagesAsMeant`: what the recursive functions of `MqttKeys` make of a payload takes induction over the data, and
  the rest of the property is how messages are handed on.
- `ConfigurationsSet` in `TypeOK`, `OneDriver`, `ClientWired` and `RobotsAlike` of the launch files.  They are about these files, which are
  constants written out (and with the operators `:>` and `@@` of TLC, which the provers cannot expand):
  a proof would execute them as TLC does, and say no more.
- `GoalsKeepDistance`, which is false whatever the environment does, and `OnlyRecordersSignalled`, which is false as
  long as a Timer's thread and the executor can be in `stop_recording` at a time.

## 5. Not modelled

- The plugin handlers for docking, pick and place, AprilTags and maps, and the handler that passes
  actions on to the scene recorder (`CC/vda5050_action_handler_plugins/src`).  Their servers are not part of the
  repository.  The client sees of each an action that runs and ends, or fails, which
  the three kinds of handlers of `Vda5050Client` have.
- The demonstration controllers (H1, Ackermann, gripper, video decoder) map one message to another by
  numbers.  Their launch files are modelled.
- `isaac_ros_launch_utils/core.py`, which constructs launch actions that the robots' launch files do not
  use; `run_isaacsim.py`, which builds a command line; the test frameworks with their conversion
  of JSON; `setup.py` files.
- `ClearUpto` and `ClearAndGetUpto` of the buffers, which nothing but a unit test calls.

## 6. Plan

1. *(done)* the client: `Vda5050Orders`, `Vda5050Client`, runs and first theorems.
2. *(done)* the synchronizer, what it promises, and the proof that it does.
3. *(done)* the MQTT bridge; the launch files with the node monitor; the navigation goals; the
   recording nodes.  Runs that only showed one more comment of the client wrong gave way to them.
4. *(done)* proofs about the bridge, the navigation goals and the recording nodes.
5. *(done)* proofs about the client: its actions in any environment; goals, pauses, cancellations, progress and ends of
   an undisturbed one.
6. *(done)* the abstract execution of an order, and the proof that the undisturbed client implements it; the monitor's checks.
7. `HandlerRequests`: the plugin handlers as clients of services and actions, with late
   answers, timeouts and errors halfway, and servers as far as the handlers' own use of them says.

The order is by what is most exposed to interleavings and failures.  The bounds stay at two or
three of a kind, since no hazard listed in `PROJECT.json` involves more.
