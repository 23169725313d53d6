------------------------ MODULE NavigationGoal_proofs ------------------------
(***************************************************************************)
(* Proofs about NavigationGoal: goals go out in their order, one at a      *)
(* time, and none lies in an obstacle, for maps of every size, every       *)
(* distance, every file and every number of iterations.                    *)
(***************************************************************************)
EXTENDS NavigationGoal, SequenceTheorems, TLAPS

-----------------------------------------------------------------------------
(* The map.                                                                *)

\* The patch of a valid pose holds its own pixel, at the borders of the map,
\* too (is_valid_pose).
LEMMA ValidPoseFree ==
  ASSUME NEW obstacles, NEW pose \in Range_, ValidPose(obstacles, pose, Distance)
  PROVE  PixelOf(pose) \notin obstacles
<1> DEFINE x == pose[1]
           y == pose[2]
           row == Height - 1 - y
<1>1. pose = <<x, y>> /\ x \in Columns /\ y \in Rows
  BY DEF Range_
<1>2. /\ x \in 0..Width - 1 /\ y \in 0..Height - 1
      /\ Width \in Nat /\ Height \in Nat /\ Distance \in Nat \ {0}
  BY <1>1, MapAssumption, GoalAssumption DEF Rows, Columns
<1> HIDE DEF x, y
<1>3. row \in Slice(Start((Height - y) - Distance), (Height - y) + Distance, Height)
  BY <1>2 DEF Slice, Start, FromEnd
<1>4. x \in Slice(Start(x - Distance), x + Distance, Width)
  BY <1>2 DEF Slice, Start, FromEnd
<1>5. ImageCoordinates(pose)[1] = x /\ ImageCoordinates(pose)[2] = Height - y
  BY <1>1 DEF ImageCoordinates
<1>6. <<row, x>> \notin obstacles
  BY <1>3, <1>4, <1>5 DEF ValidPose, ObstacleInDistance
<1>7. QED
  BY <1>1, <1>6 DEF PixelOf

-----------------------------------------------------------------------------
(* The node.                                                               *)

Phases == {"created", "sends", "sent", "accepted", "ended"}
Published == [kind : {"goal", "initial_pose"}, pose : Int \X Int]
FileRows  == [kind : {"goal"}, pose : Int \X Int] \cup {BadRow}

\* How many initial poses have gone out, and how many goals.
Lead == IF parameters.initial_pose /\ is_initial_pose_sent THEN 1 ELSE 0
Sent == Len(published) - Lead

TypeInv ==
  /\ parameters.initial_pose \in BOOLEAN
  /\ parameters.type = "GoalReader" => parameters.rows \in Seq(FileRows)
  /\ phase \in Phases
  /\ is_initial_pose_sent \in BOOLEAN
  /\ curr_iteration_count \in 1..MAX_ITERATION_COUNT
  /\ published \in Seq(Published)
  /\ rows \in Seq(FileRows)

\* The initial pose goes out first, the goals behind it.
LeadFirst ==
  /\ Lead <= Len(published)
  /\ Lead = 1 => published[1] = InitialPose
  /\ \A i \in 1..Len(published) : i > Lead => published[i].kind = "goal"
  /\ ~is_initial_pose_sent =>
       parameters.initial_pose /\ published = << >> /\ phase \in {"created", "sends", "ended"}
  /\ phase = "created" => published = << >> /\ (is_initial_pose_sent => ~parameters.initial_pose)

\* As many goals as iterations.
Counted ==
  /\ phase \in {"sent", "accepted"} => Sent = curr_iteration_count
  /\ phase \in {"created", "sends"} => Sent = curr_iteration_count - 1
  /\ Sent <= MAX_ITERATION_COUNT

\* What has been sent of a file and what is left of it make up the file.
FileFollowed ==
  parameters.type = "GoalReader" =>
    /\ Sent <= Len(parameters.rows)
    /\ \A i \in 1..Sent : published[Lead + i] = parameters.rows[i]
    /\ phase \in {"sends", "sent", "accepted"} =>
         /\ Len(rows) = Len(parameters.rows) - Sent
         /\ \A i \in 1..Len(rows) : rows[i] = parameters.rows[Sent + i]

\* What has been sent by the random generator is free.
SentFree ==
  parameters.type = "RandomGoalGenerator" =>
    \A i \in 1..Len(published) : i > Lead => PixelOf(published[i].pose) \notin occupied

GoalsInv == TypeInv /\ LeadFirst /\ Counted /\ FileFollowed /\ SentFree

LEMMA InitGoals == Init => GoalsInv
<1> SUFFICES ASSUME Init PROVE GoalsInv
  OBVIOUS
<1>1. /\ parameters.initial_pose \in BOOLEAN
      /\ parameters.type = "GoalReader" => parameters.rows \in Seq(FileRows)
  BY GoalAssumption DEF Init, FileRows
<1>2. /\ phase = "created" /\ published = << >> /\ Len(published) = 0 /\ rows = << >>
      /\ is_initial_pose_sent = ~parameters.initial_pose /\ curr_iteration_count = 1
  BY DEF Init
<1>3. TypeInv
  BY <1>1, <1>2, GoalAssumption DEF TypeInv, Phases
<1>4. is_initial_pose_sent <=> ~parameters.initial_pose
  BY <1>2
<1>5. ~(parameters.initial_pose /\ is_initial_pose_sent)
  BY <1>4
<1>6. Lead = 0 /\ Sent = 0
  BY <1>2, <1>5 DEF Lead, Sent
<1>7. parameters.type = "GoalReader" => Len(parameters.rows) \in Nat
  BY <1>1
<1>8. LeadFirst
  BY <1>2, <1>4, <1>6 DEF LeadFirst
<1>9. Counted
  BY <1>2, <1>6, GoalAssumption DEF Counted
<1>10. FileFollowed /\ SentFree
  BY <1>2, <1>6, <1>7 DEF FileFollowed, SentFree
<1>11. QED
  BY <1>3, <1>8, <1>9, <1>10 DEF GoalsInv

\* What is published, with one message more.
LEMMA PublishedAppended ==
  ASSUME TypeInv, NEW m \in Published
  PROVE  /\ Append(published, m) \in Seq(Published)
         /\ Len(published) \in Nat /\ Len(Append(published, m)) = Len(published) + 1
         /\ \A i \in 1..Len(published) : Append(published, m)[i] = published[i]
         /\ Append(published, m)[Len(published) + 1] = m
BY AppendProperties DEF TypeInv

\* A step that publishes nothing and reads nothing keeps the invariant when
\* its phases count the goals as before.
LEMMA SilentStep ==
  ASSUME GoalsInv, UNCHANGED <<parameters, occupied, rows, is_initial_pose_sent, published>>,
         phase # "created", is_initial_pose_sent,
         \/ phase' = "ended" /\ UNCHANGED curr_iteration_count
         \/ phase = "sent" /\ phase' = "accepted" /\ UNCHANGED curr_iteration_count
         \/ /\ phase = "accepted" /\ phase' = "sends"
            /\ curr_iteration_count < MAX_ITERATION_COUNT
            /\ curr_iteration_count' = curr_iteration_count + 1
  PROVE  GoalsInv'
<1>1. curr_iteration_count \in Nat /\ MAX_ITERATION_COUNT \in Nat
  BY GoalAssumption DEF GoalsInv, TypeInv
<1>2. Lead' = Lead /\ Sent' = Sent
  BY DEF Lead, Sent
<1>3. TypeInv'
  BY <1>1 DEF GoalsInv, TypeInv, Phases
<1>4. LeadFirst' /\ SentFree'
  BY <1>2 DEF GoalsInv, LeadFirst, SentFree
<1>5. Counted'
  BY <1>1, <1>2 DEF GoalsInv, Counted
<1>6. FileFollowed'
  BY <1>2 DEF GoalsInv, FileFollowed
<1>7. QED
  BY <1>3, <1>4, <1>5, <1>6 DEF GoalsInv

LEMMA CreateStep ==
  ASSUME GoalsInv, CreateGoalGenerator
  PROVE  GoalsInv'
<1>1. /\ UNCHANGED <<parameters, is_initial_pose_sent, curr_iteration_count, published>>
      /\ phase = "created"
  BY DEF CreateGoalGenerator
<1>2. Lead' = Lead /\ Sent' = Sent
  BY <1>1 DEF Lead, Sent
<1>3. /\ published = << >> /\ Len(published) = 0
      /\ is_initial_pose_sent => ~parameters.initial_pose
  BY <1>1 DEF GoalsInv, LeadFirst
<1>4. Lead = 0 /\ Sent = 0
  BY <1>3 DEF Lead, Sent
<1>5. /\ phase' \in {"sends", "ended"}
      /\ rows' = rows \/ (parameters.type = "GoalReader" /\ rows' = parameters.rows)
      /\ phase' = "sends" /\ parameters.type = "GoalReader" => rows' = parameters.rows
  <2>1. CASE (parameters.type = "Other" \/ ~parameters.path) /\ Ends("failed") /\ rows' = rows
    BY <2>1 DEF Ends
  <2>2. CASE parameters.type = "RandomGoalGenerator" /\ phase' = "sends" /\ rows' = rows
    BY <2>2
  <2>3. CASE /\ parameters.type = "GoalReader" /\ phase' = "sends"
             /\ rows' = parameters.rows
    BY <2>3
  <2>4. QED
    BY <2>1, <2>2, <2>3 DEF CreateGoalGenerator
<1>6. TypeInv'
  BY <1>1, <1>5 DEF GoalsInv, TypeInv, Phases
<1>7. LeadFirst'
  BY <1>1, <1>2, <1>3, <1>5 DEF GoalsInv, LeadFirst
<1>8. Counted'
  BY <1>1, <1>2, <1>5 DEF GoalsInv, Counted
<1>9. FileFollowed'
  <2>1. CASE parameters.type = "GoalReader"
    <3>1. Len(parameters.rows) \in Nat
      BY <2>1 DEF GoalsInv, TypeInv
    <3>2. QED
      BY <1>1, <1>2, <1>4, <1>5, <3>1 DEF FileFollowed
  <2>2. CASE parameters.type # "GoalReader"
    BY <1>1, <2>2 DEF FileFollowed
  <2>3. QED
    BY <2>1, <2>2
<1>10. SentFree'
  BY <1>1, <1>3 DEF SentFree
<1>11. QED
  BY <1>6, <1>7, <1>8, <1>9, <1>10 DEF GoalsInv

LEMMA SendInitialStep ==
  ASSUME GoalsInv, SendInitialPose
  PROVE  GoalsInv'
<1>1. /\ UNCHANGED <<parameters, occupied, rows, phase, curr_iteration_count>>
      /\ phase = "sends" /\ is_initial_pose_sent' = TRUE
      /\ published' = Append(published, InitialPose) /\ ~is_initial_pose_sent
  BY DEF SendInitialPose
<1>2. InitialPose \in Published
  BY DEF InitialPose, Result, Published
<1>3. published = << >> /\ Len(published) = 0 /\ parameters.initial_pose
  BY <1>1 DEF GoalsInv, LeadFirst
<1>4. /\ published' \in Seq(Published) /\ Len(published') = 1 /\ published'[1] = InitialPose
  BY <1>1, <1>2, <1>3, PublishedAppended DEF GoalsInv
<1>5. Lead = 0 /\ Lead' = 1 /\ Sent = 0 /\ Sent' = 0
  BY <1>1, <1>3, <1>4 DEF Lead, Sent
<1>6. TypeInv'
  BY <1>1, <1>4 DEF GoalsInv, TypeInv
<1>7. LeadFirst' /\ SentFree'
  BY <1>1, <1>4, <1>5 DEF LeadFirst, SentFree
<1>8. Counted'
  BY <1>1, <1>5 DEF GoalsInv, Counted
<1>9. FileFollowed'
  BY <1>1, <1>5 DEF GoalsInv, FileFollowed
<1>10. QED
  BY <1>6, <1>7, <1>8, <1>9 DEF GoalsInv

\* A goal of the random generator is free, one of the file the next in it.
LEMMA GeneratedGoal ==
  ASSUME GoalsInv, phase = "sends", NEW goal \in Generated, goal.kind \notin {"none", "bad"}
  PROVE  /\ goal \in Published /\ goal.kind = "goal"
         /\ parameters.type = "RandomGoalGenerator" => PixelOf(goal.pose) \notin occupied
         /\ parameters.type # "RandomGoalGenerator" => rows # << >> /\ goal = Head(rows)
<1>1. NoGoal.kind = "none" /\ BadRow.kind = "bad"
  BY DEF NoGoal, BadRow, Result
<1>2. CASE parameters.type = "RandomGoalGenerator"
  <2>1. PICK p \in Range_ : goal = Goal(p) /\ ValidPose(occupied, p, Distance)
    BY <1>1, <1>2 DEF Generated
  <2>2. p \in Int \X Int
    BY MapAssumption DEF Range_, Columns, Rows
  <2>3. goal \in Published /\ goal.kind = "goal" /\ goal.pose = p
    BY <2>1, <2>2 DEF Goal, Result, Published
  <2>4. QED
    BY <1>2, <2>1, <2>3, ValidPoseFree
<1>3. CASE parameters.type # "RandomGoalGenerator"
  <2>1. rows # << >> /\ goal = Head(rows)
    BY <1>1, <1>3 DEF Generated
  <2>2. goal \in FileRows
    BY <2>1 DEF GoalsInv, TypeInv
  <2>3. goal \in Published /\ goal.kind = "goal"
    BY <1>1, <2>2 DEF FileRows, Published
  <2>4. QED
    BY <1>3, <2>1, <2>3
<1>4. QED
  BY <1>2, <1>3

\* What is left of a file, with one row less.
LEMMA RowsRead ==
  ASSUME TypeInv
  PROVE  /\ Len(rows) \in Nat
         /\ rows # << >> =>
              /\ Tail(rows) \in Seq(FileRows) /\ Len(Tail(rows)) = Len(rows) - 1
              /\ 1 \in 1..Len(rows) /\ Head(rows) = rows[1]
              /\ \A i \in 1..Len(rows) - 1 : i + 1 \in 1..Len(rows) /\ Tail(rows)[i] = rows[i + 1]
<1>1. rows \in Seq(FileRows) /\ Len(rows) \in Nat
  BY DEF TypeInv
<1>2. CASE rows # << >>
  BY <1>1, <1>2, HeadTailProperties, EmptySeq
<1>3. QED
  BY <1>1, <1>2

LEMMA SendGoalStep ==
  ASSUME GoalsInv, SendGoal
  PROVE  GoalsInv'
<1>1. /\ UNCHANGED <<parameters, occupied, is_initial_pose_sent, curr_iteration_count>>
      /\ phase = "sends" /\ is_initial_pose_sent
      /\ rows' = IF rows = << >> THEN rows ELSE Tail(rows)
  BY DEF SendGoal
<1>2. /\ Len(rows) \in Nat /\ Len(published) \in Nat /\ Lead \in {0, 1}
      /\ curr_iteration_count \in 1..MAX_ITERATION_COUNT /\ MAX_ITERATION_COUNT \in Nat
      /\ Lead <= Len(published) /\ Sent = curr_iteration_count - 1
  BY <1>1, RowsRead, GoalAssumption DEF GoalsInv, TypeInv, LeadFirst, Counted, Lead
<1>3. rows' \in Seq(FileRows)
  BY <1>1, RowsRead DEF GoalsInv, TypeInv
<1>4. Lead' = Lead
  BY <1>1 DEF Lead
<1>5. CASE phase' = "ended" /\ published' = published
  <2>1. Sent' = Sent
    BY <1>4, <1>5 DEF Sent
  <2>2. TypeInv'
    BY <1>1, <1>3, <1>5 DEF GoalsInv, TypeInv, Phases
  <2>3. LeadFirst' /\ SentFree'
    BY <1>1, <1>4, <1>5 DEF GoalsInv, LeadFirst, SentFree
  <2>4. Counted'
    BY <1>2, <1>5, <2>1 DEF GoalsInv, Counted
  <2>5. FileFollowed'
    BY <1>1, <1>4, <1>5, <2>1 DEF GoalsInv, FileFollowed
  <2>6. QED
    BY <2>2, <2>3, <2>4, <2>5 DEF GoalsInv
<1>6. ASSUME NEW goal \in Generated, goal.kind \notin {"none", "bad"},
             published' = Append(published, goal), phase' = "sent"
      PROVE  GoalsInv'
  <2>1. /\ goal \in Published /\ goal.kind = "goal"
        /\ parameters.type = "RandomGoalGenerator" => PixelOf(goal.pose) \notin occupied
        /\ parameters.type # "RandomGoalGenerator" => rows # << >> /\ goal = Head(rows)
    BY <1>1, <1>6, GeneratedGoal
  <2>2. /\ published' \in Seq(Published) /\ Len(published') = Len(published) + 1
        /\ \A i \in 1..Len(published) : published'[i] = published[i]
        /\ published'[Len(published) + 1] = goal
    BY <1>6, <2>1, PublishedAppended DEF GoalsInv
  <2>3. Sent' = Sent + 1 /\ Len(published) + 1 = Lead + Sent + 1 /\ Sent \in Nat
    BY <1>2, <1>4, <2>2 DEF Sent
  <2>4. \A i \in 1..Len(published) + 1 : i \in 1..Len(published) \/ i = Len(published) + 1
    BY <1>2
  <2>5. TypeInv'
    BY <1>1, <1>3, <1>6, <2>2 DEF GoalsInv, TypeInv, Phases
  <2>6. LeadFirst'
    <3>1. Lead = 1 => Len(published) >= 1 /\ 1 \in 1..Len(published)
      BY <1>2
    <3>2. Lead <= Len(published') /\ (Lead = 1 => published'[1] = InitialPose)
      BY <1>2, <2>2, <3>1 DEF GoalsInv, LeadFirst
    <3>3. \A i \in 1..Len(published') : i > Lead => published'[i].kind = "goal"
      BY <2>1, <2>2, <2>4 DEF GoalsInv, LeadFirst
    <3>4. QED
      BY <1>1, <1>4, <1>6, <3>2, <3>3 DEF LeadFirst
  <2>7. SentFree'
    BY <1>1, <1>4, <2>1, <2>2, <2>4 DEF GoalsInv, SentFree
  <2>8. Counted'
    BY <1>1, <1>2, <1>6, <2>3 DEF Counted
  <2>9. FileFollowed'
    <3> SUFFICES ASSUME parameters.type = "GoalReader" PROVE FileFollowed'
      BY <1>1 DEF FileFollowed
    <3> DEFINE file == parameters.rows
    <3>1. /\ rows # << >> /\ goal = rows[1] /\ rows' = Tail(rows)
          /\ Len(rows') = Len(rows) - 1 /\ 1 \in 1..Len(rows)
          /\ \A i \in 1..Len(rows) - 1 : i + 1 \in 1..Len(rows) /\ rows'[i] = rows[i + 1]
      BY <1>1, <2>1, RowsRead DEF GoalsInv
    <3>2. /\ Len(file) \in Nat /\ Sent <= Len(file)
          /\ \A i \in 1..Sent : published[Lead + i] = file[i]
          /\ Len(rows) = Len(file) - Sent
          /\ \A i \in 1..Len(rows) : rows[i] = file[Sent + i]
      BY <1>1 DEF GoalsInv, TypeInv, FileFollowed
    <3> HIDE DEF file
    <3>3. Sent' <= Len(file) /\ Len(rows') = Len(file) - Sent'
      BY <1>2, <2>3, <3>1, <3>2
    <3>4. ASSUME NEW i \in 1..Sent' PROVE published'[Lead + i] = file[i]
      <4>1. CASE i <= Sent
        <5>1. Lead + i \in 1..Len(published) /\ i \in 1..Sent
          BY <1>2, <2>3, <3>4, <4>1
        <5>2. QED
          BY <2>2, <3>2, <5>1
      <4>2. CASE i = Sent + 1
        <5>1. Lead + i = Len(published) + 1
          BY <1>2, <2>3, <4>2
        <5>2. QED
          BY <2>2, <3>1, <3>2, <4>2, <5>1
      <4>3. QED
        BY <2>3, <4>1, <4>2
    <3>5. ASSUME NEW i \in 1..Len(rows') PROVE rows'[i] = file[Sent' + i]
      <4>1. /\ i \in 1..Len(rows) - 1 /\ i + 1 \in 1..Len(rows)
            /\ Sent + (i + 1) = Sent' + i
        BY <1>2, <2>3, <3>1
      <4>2. QED
        BY <3>1, <3>2, <4>1
    <3>6. QED
      BY <1>1, <1>4, <3>3, <3>4, <3>5 DEF FileFollowed, file
  <2>10. QED
    BY <2>5, <2>6, <2>7, <2>8, <2>9 DEF GoalsInv
<1>7. PICK goal \in Generated :
        CASE goal.kind = "none" -> Ends("failed") /\ UNCHANGED published
          [] goal.kind = "bad"  -> Ends("raised") /\ UNCHANGED published
          [] OTHER -> /\ published' = Append(published, goal)
                      /\ phase' = "sent"
                      /\ UNCHANGED exit
  BY DEF SendGoal
<1>8. \/ phase' = "ended" /\ published' = published
      \/ /\ goal.kind \notin {"none", "bad"}
         /\ published' = Append(published, goal) /\ phase' = "sent"
  BY <1>7 DEF Ends
<1>9. QED
  BY <1>5, <1>6, <1>8

LEMMA GoalsStep ==
  ASSUME GoalsInv, [Next]_vars
  PROVE  GoalsInv'
<1>a. phase \in {"sent", "accepted"} => is_initial_pose_sent
  BY DEF GoalsInv, LeadFirst
<1>1. CASE UNCHANGED vars
  <2>1. Lead' = Lead /\ Sent' = Sent
    BY <1>1 DEF vars, Lead, Sent
  <2>2. QED
    BY <1>1, <2>1
       DEF vars, GoalsInv, TypeInv, LeadFirst, Counted, FileFollowed, SentFree
<1>2. CASE Node
  BY <1>2, CreateStep, SendInitialStep, SendGoalStep DEF Node
<1>3. CASE ServerAppears
  <2>1. Lead' = Lead /\ Sent' = Sent
    BY <1>3 DEF ServerAppears, Lead, Sent
  <2>2. QED
    BY <1>3, <2>1
       DEF ServerAppears, GoalsInv, TypeInv, LeadFirst, Counted, FileFollowed, SentFree
<1>4. CASE GoalResponseCallback
  BY <1>4, <1>a, SilentStep DEF GoalResponseCallback, Ends
<1>5. CASE GetResultCallback
  BY <1>5, <1>a, SilentStep DEF GetResultCallback, Ends, GoesOn
<1>6. QED
  BY <1>1, <1>2, <1>3, <1>4, <1>5 DEF Next, Nav2

LEMMA GoalsCorrect == Spec => []GoalsInv
<1>1. Init => GoalsInv
  BY InitGoals
<1>2. GoalsInv /\ [Next]_vars => GoalsInv'
  BY GoalsStep
<1>3. QED
  BY <1>1, <1>2, PTL DEF Spec

-----------------------------------------------------------------------------
(* What the invariant says of the goals.                                   *)

\* The goals are what is published behind the initial pose.
LEMMA GoalsBehindLead ==
  ASSUME GoalsInv
  PROVE  /\ Len(Goals) = Sent /\ Sent \in Nat /\ DOMAIN Goals = 1..Sent
         /\ Lead \in {0, 1} /\ Len(published) = Lead + Sent
         /\ \A i \in 1..Sent : Goals[i] = published[Lead + i] /\ Lead + i \in 1..Len(published)
<1>1. /\ published \in Seq(Published) /\ Len(published) \in Nat /\ Lead \in {0, 1}
      /\ Lead <= Len(published) /\ Sent \in Nat /\ Len(published) = Lead + Sent
  BY DEF GoalsInv, TypeInv, LeadFirst, Lead, Sent
<1>2. CASE Lead = 1
  <2>1. published # << >> /\ published[1] = InitialPose
    BY <1>1, <1>2 DEF GoalsInv, LeadFirst
  <2>2. Goals = Tail(published)
    BY <2>1 DEF Goals
  <2>3. /\ Tail(published) \in Seq(Published) /\ Len(Tail(published)) = Len(published) - 1
        /\ \A i \in 1..Len(published) - 1 : Tail(published)[i] = published[i + 1]
    BY <1>1, <2>1, HeadTailProperties
  <2>4. DOMAIN Goals = 1..Len(Goals)
    BY <2>2, <2>3
  <2>5. QED
    BY <1>1, <1>2, <2>2, <2>3, <2>4
<1>3. CASE Lead = 0
  <2>1. published # << >> => published[1] # InitialPose
    <3>1. published # << >> => 1 \in 1..Len(published)
      BY <1>1, EmptySeq
    <3>2. published # << >> => published[1].kind = "goal"
      BY <1>3, <3>1 DEF GoalsInv, LeadFirst
    <3>3. QED
      BY <3>2 DEF InitialPose, Result
  <2>2. Goals = published
    BY <2>1 DEF Goals
  <2>3. QED
    BY <1>1, <1>3, <2>2
<1>4. QED
  BY <1>1, <1>2, <1>3

\* The theorem of GoalsFree (is_valid_pose): no goal lies in an obstacle.
THEOREM FreeCorrect == Spec => []GoalsFree
<1>1. GoalsInv => GoalsFree
  <2> SUFFICES ASSUME GoalsInv, parameters.type = "RandomGoalGenerator", NEW i \in DOMAIN Goals
               PROVE  PixelOf(Goals[i].pose) \notin occupied
    BY DEF GoalsFree
  <2>1. i \in 1..Sent /\ Goals[i] = published[Lead + i] /\ Lead + i \in 1..Len(published)
    BY GoalsBehindLead
  <2>2. Lead + i > Lead
    BY <2>1, GoalsBehindLead
  <2>3. QED
    BY <2>1, <2>2 DEF GoalsInv, SentFree
<1>2. QED
  BY <1>1, GoalsCorrect, PTL

\* The theorem of GoalsInTurn (send_goal, __get_result_callback): one goal at
\* a time, no more than asked for, the initial pose before them, and goals of
\* a file in its order.
THEOREM InTurnCorrect == Spec => []GoalsInTurn
<1>1. GoalsInv => GoalsInTurn
  <2> SUFFICES ASSUME GoalsInv PROVE GoalsInTurn
    OBVIOUS
  <2>1. /\ phase \in {"sent", "accepted"} => Len(Goals) = curr_iteration_count
        /\ phase \in {"created", "sends"} => Len(Goals) = curr_iteration_count - 1
        /\ Len(Goals) <= MAX_ITERATION_COUNT
    BY GoalsBehindLead DEF GoalsInv, Counted
  <2>2. \A i \in 1..Sent : Lead + i > Lead
    BY GoalsBehindLead
  <2>3. ASSUME NEW i \in DOMAIN Goals PROVE Goals[i].kind = "goal"
    <3>1. i \in 1..Sent /\ Goals[i] = published[Lead + i] /\ Lead + i \in 1..Len(published)
      BY GoalsBehindLead
    <3>2. QED
      BY <2>2, <3>1 DEF GoalsInv, LeadFirst
  <2>4. parameters.initial_pose /\ Goals # << >> => published[1] = InitialPose
    <3>1. CASE is_initial_pose_sent
      BY <3>1 DEF GoalsInv, LeadFirst, Lead
    <3>2. CASE ~is_initial_pose_sent
      BY <3>2 DEF GoalsInv, LeadFirst, Goals
    <3>3. QED
      BY <3>1, <3>2
  <2>5. parameters.type = "GoalReader" =>
          /\ Len(Goals) <= Len(parameters.rows)
          /\ \A i \in DOMAIN Goals : Goals[i] = parameters.rows[i]
    BY GoalsBehindLead DEF GoalsInv, FileFollowed
  <2>6. QED
    BY <2>1, <2>3, <2>4, <2>5 DEF GoalsInTurn
<1>2. QED
  BY <1>1, GoalsCorrect, PTL
=============================================================================
