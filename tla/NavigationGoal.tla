--------------------------- MODULE NavigationGoal ---------------------------
(***************************************************************************)
(* The navigation goal node (set_goal.SetNavigationGoal): it creates its   *)
(* goal generator, publishes the initial pose once, and sends goals to     *)
(* Nav2 one after another, each from the callback of the one before.  The  *)
(* action server is Nav2's and may refuse a goal, end it in any way, and   *)
(* come up late.                                                           *)
(***************************************************************************)
EXTENDS GoalMap, Sequences

CONSTANTS
  Images,              \* map images to start with
  GoalFiles,           \* files for the GoalReader: sequences of good and bad rows
  Distance,            \* obstacle_search_distance_in_meters, in pixels
  MAX_ITERATION_COUNT  \* iteration_count

\* What a generator gives, what a row of a file holds, and what is published.
Result(kind, pose) == [kind |-> kind, pose |-> pose]
Goal(pose)  == Result("goal", pose)
NoGoal      == Result("none", <<0, 0>>)
BadRow      == Result("bad", <<0, 0>>)
InitialPose == Result("initial_pose", <<0, 0>>)

ASSUME GoalAssumption ==
  /\ Distance \in Nat \ {0}
  /\ MAX_ITERATION_COUNT \in Nat \ {0}
  /\ GoalFiles \subseteq Seq([kind : {"goal"}, pose : Int \X Int] \cup {BadRow})

VARIABLES
  parameters,           \* of the node: type, path, negate, image, rows, initial_pose
  occupied,             \* the obstacles of the GridMap
  rows,                 \* what the GoalReader has not read
  phase,                \* where the node is
  is_initial_pose_sent,
  curr_iteration_count,
  server,               \* whether the action server is there
  published,            \* initial poses and goals, as they are sent
  exit                  \* how the process ended

vars == <<parameters, occupied, rows, phase, is_initial_pose_sent, curr_iteration_count, server,
          published, exit>>

Init ==
  /\ parameters \in
       [type : {"RandomGoalGenerator"}, path : BOOLEAN, initial_pose : BOOLEAN,
        negate : BOOLEAN, image : Images]
       \cup [type : {"GoalReader"}, path : BOOLEAN, initial_pose : BOOLEAN, rows : GoalFiles]
       \cup [type : {"Other"}, path : BOOLEAN, initial_pose : BOOLEAN]
  /\ occupied = {}
  /\ rows = << >>
  /\ phase = "created"
  /\ is_initial_pose_sent = ~parameters.initial_pose
  /\ curr_iteration_count = 1
  /\ server \in BOOLEAN
  /\ published = << >>
  /\ exit = "running"

Ends(how) ==
  /\ phase' = "ended"
  /\ exit' = how

\* __create_goal_generator; the process exits without a generator.
CreateGoalGenerator ==
  /\ phase = "created"
  /\ \/ /\ parameters.type = "Other" \/ ~parameters.path
        /\ Ends("failed")
        /\ UNCHANGED <<occupied, rows>>
     \/ /\ parameters.type = "RandomGoalGenerator"
        /\ parameters.path
        /\ occupied' = RawMap(parameters.image, parameters.negate)
        /\ phase' = "sends"
        /\ UNCHANGED <<rows, exit>>
     \/ /\ parameters.type = "GoalReader"
        /\ parameters.path
        /\ rows' = parameters.rows
        /\ phase' = "sends"
        /\ UNCHANGED <<occupied, exit>>
  /\ UNCHANGED <<parameters, is_initial_pose_sent, curr_iteration_count, server, published>>

\* generate_goal: the random generator gives up after its trials, whether the
\* map has a valid pose or not; the reader ends with its file.
Generated ==
  IF parameters.type = "RandomGoalGenerator"
  THEN {NoGoal} \cup {Goal(p) : p \in {q \in Range_ : ValidPose(occupied, q, Distance)}}
  ELSE {IF rows = << >> THEN NoGoal ELSE Head(rows)}

\* send_goal: the initial pose, and the time to take it.
SendInitialPose ==
  /\ phase = "sends"
  /\ ~is_initial_pose_sent
  /\ published' = Append(published, InitialPose)
  /\ is_initial_pose_sent' = TRUE
  /\ UNCHANGED <<parameters, occupied, rows, phase, curr_iteration_count, server, exit>>

\* send_goal: the server is there, and __get_goal has a goal, none, or raises
\* on a row that holds no six numbers.
SendGoal ==
  /\ phase = "sends"
  /\ is_initial_pose_sent
  /\ server
  /\ rows' = IF rows = << >> THEN rows ELSE Tail(rows)
  /\ \E goal \in Generated :
       CASE goal.kind = "none" -> Ends("failed") /\ UNCHANGED published
         [] goal.kind = "bad"  -> Ends("raised") /\ UNCHANGED published
         [] OTHER -> /\ published' = Append(published, goal)
                     /\ phase' = "sent"
                     /\ UNCHANGED exit
  /\ UNCHANGED <<parameters, occupied, is_initial_pose_sent, curr_iteration_count, server>>

ServerAppears ==
  /\ ~server
  /\ phase # "ended"
  /\ server' = TRUE
  /\ UNCHANGED <<parameters, occupied, rows, phase, is_initial_pose_sent, curr_iteration_count,
                 published, exit>>

\* A mutant: a goal that is refused is only logged.
GoalResponseCallbackLogs ==
  /\ phase = "sent"
  /\ phase' \in {"accepted", "refused"}
  /\ UNCHANGED <<parameters, occupied, rows, is_initial_pose_sent, curr_iteration_count, server,
                 published, exit>>

\* __goal_response_callback
GoalResponseCallback ==
  /\ phase = "sent"
  /\ \/ phase' = "accepted" /\ UNCHANGED exit
     \/ Ends("shutdown")
  /\ UNCHANGED <<parameters, occupied, rows, is_initial_pose_sent, curr_iteration_count, server,
                 published>>

\* A mutant: one goal more.
GoesOnInclusive == curr_iteration_count <= MAX_ITERATION_COUNT

GoesOn == curr_iteration_count < MAX_ITERATION_COUNT

\* __get_result_callback: the result says nothing of success or failure.
GetResultCallback ==
  /\ phase = "accepted"
  /\ IF GoesOn
     THEN /\ curr_iteration_count' = curr_iteration_count + 1
          /\ phase' = "sends"
          /\ UNCHANGED exit
     ELSE Ends("shutdown") /\ UNCHANGED curr_iteration_count
  /\ UNCHANGED <<parameters, occupied, rows, is_initial_pose_sent, server, published>>

Node == CreateGoalGenerator \/ SendInitialPose \/ SendGoal
Nav2 == ServerAppears \/ GoalResponseCallback \/ GetResultCallback
Next == Node \/ Nav2

Spec == Init /\ [][Next]_vars

\* The node runs, and Nav2 comes up and answers.
FairSpec == Spec /\ WF_vars(Node) /\ WF_vars(Nav2)
-----------------------------------------------------------------------------
(* Properties.                                                             *)

\* What is published, without the initial pose in front.
Goals ==
  IF published # << >> /\ published[1] = InitialPose THEN Tail(published) ELSE published

\* No goal is sent that lies in an obstacle, wherever it is in the map
\* (is_valid_pose with its patch cut off at the borders of the map).
GoalsFree ==
  parameters.type = "RandomGoalGenerator" =>
    \A i \in DOMAIN Goals : PixelOf(Goals[i].pose) \notin occupied

\* Nav2 has one goal of the node at a time and never more than asked for; the
\* initial pose goes out once, before the first goal; goals of a file go out
\* in its order, none left out (send_goal, __get_result_callback).
GoalsInTurn ==
  /\ phase \in {"sent", "accepted"} => Len(Goals) = curr_iteration_count
  /\ phase \in {"created", "sends"} => Len(Goals) = curr_iteration_count - 1
  /\ Len(Goals) <= MAX_ITERATION_COUNT
  /\ \A i \in DOMAIN Goals : Goals[i].kind = "goal"
  /\ (parameters.initial_pose /\ Goals # << >>) => published[1] = InitialPose
  /\ parameters.type = "GoalReader" =>
       Len(Goals) <= Len(parameters.rows) /\ \A i \in DOMAIN Goals : Goals[i] = parameters.rows[i]

\* The node does not stay: it ends after its last goal, or before it when a
\* goal is refused or none can be generated (rclpy.shutdown, sys.exit).
NodeEnds == <>(phase = "ended")

\* A claim: "Checks if a given pose is "distance" away from a obstacle"
\* (is_valid_pose): no pixel up to the distance away is occupied.
GoalsKeepDistance ==
  parameters.type = "RandomGoalGenerator" =>
    \A i \in DOMAIN Goals : \A p \in occupied :
      \/ p[1] - PixelOf(Goals[i].pose)[1] \notin -Distance..Distance
      \/ p[2] - PixelOf(Goals[i].pose)[2] \notin -Distance..Distance
=============================================================================
