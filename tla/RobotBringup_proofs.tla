------------------------ MODULE RobotBringup_proofs ------------------------
(***************************************************************************)
(* Proofs about a robot that is brought up and watched, for any launch,    *)
(* any number of deaths and of checks beside each other, and any nodes the *)
(* monitor is told to look at.                                             *)
(***************************************************************************)
EXTENDS RobotBringup, TLAPS

USE DEF contextVars, launchVars, monitorVars

-----------------------------------------------------------------------------
(***************************************************************************)
(* Types.                                                                  *)
(***************************************************************************)
\* A check that is well so far has found all nodes it has passed among the
\* names it took (check_all_nodes).
Found(k) ==
  /\ monitored_nodes \subseteq k.names
  /\ \A j \in 1..k.at - 1 : monitored_lifecycle_nodes[j] \in k.names

Check(k) ==
  /\ k = [phase |-> k.phase, by |-> k.by, names |-> k.names, at |-> k.at, healthy |-> k.healthy]
  /\ k.at \in 1..Len(monitored_lifecycle_nodes) + 1
  /\ k.phase \in {"awaits", "active", "other"} =>
       /\ k.at <= Len(monitored_lifecycle_nodes)
       /\ monitored_lifecycle_nodes[k.at] \in k.names
  /\ k.phase # "idle" /\ k.healthy => Found(k)

ChecksTyped == checks = [c \in Checks |-> checks[c]] /\ \A c \in Checks : Check(checks[c])

LEMMA LifecycleNodesCount == Len(monitored_lifecycle_nodes) \in Nat
BY MonitorAssumption

LEMMA NoCheckTyped == Check(NoCheck)
BY LifecycleNodesCount DEF Check, NoCheck

\* Each step of the monitor replaces one check by another.
LEMMA MonitorChecks ==
  ASSUME ChecksTyped, NEW c \in Checks,
         (\E by \in {"timer", "service"} : CheckBegins(c, by)) \/ CheckGoesOn(c) \/ NodeUnknown(c)
  PROVE  \E k : Check(k) /\ checks' = [checks EXCEPT ![c] = k]
<1> DEFINE n == Len(monitored_lifecycle_nodes)
<1>1. n \in Nat
  BY LifecycleNodesCount
<1>2. Check(checks[c])
  BY DEF ChecksTyped
<1>3. ASSUME NEW by \in {"timer", "service"}, CheckBegins(c, by)
      PROVE  \E k : Check(k) /\ checks' = [checks EXCEPT ![c] = k]
  <2> DEFINE k == [phase |-> "asks", by |-> by, names |-> Present, at |-> 1,
                   healthy |-> monitored_nodes \subseteq Present]
  <2>1. k.healthy <=> monitored_nodes \subseteq Present
    BY Zenon
  <2>2. /\ k = [phase |-> k.phase, by |-> k.by, names |-> k.names, at |-> k.at,
                healthy |-> k.healthy]
        /\ k.phase = "asks" /\ k.names = Present /\ k.at = 1
    BY Zenon
  <2> HIDE DEF k
  <2>3. Check(k)
    BY <1>1, <2>1, <2>2 DEF Check, Found
  <2>4. checks' = [checks EXCEPT ![c] = k]
    BY <1>3 DEF CheckBegins, k
  <2>5. QED
    BY <2>3, <2>4
<1>4. ASSUME NEW well, checks[c].at <= n, checks[c].phase # "idle",
             well => monitored_lifecycle_nodes[checks[c].at] \in checks[c].names
      PROVE  Check(NextNode(checks[c], well))
  <2> DEFINE old == checks[c]
             new == NextNode(old, well)
  <2>1. new.healthy <=> old.healthy /\ well
    BY Zenon DEF NextNode
  <2>2. /\ new = [phase |-> new.phase, by |-> new.by, names |-> new.names, at |-> new.at,
                  healthy |-> new.healthy]
        /\ new.phase = "asks" /\ new.names = old.names /\ new.at = old.at + 1
    BY Zenon DEF NextNode
  <2>3. Check(old)
    BY <1>2
  <2> HIDE DEF old, new
  <2>4. /\ old.at <= n /\ old.phase # "idle"
        /\ well => monitored_lifecycle_nodes[old.at] \in old.names
    BY <1>4 DEF old
  <2>5. Check(new)
    BY <1>1, <2>1, <2>2, <2>3, <2>4 DEF Check, Found
  <2>6. QED
    BY <2>5 DEF new, old
<1>5. CASE NodeMissing(c) \/ NodeUnknown(c)
  <2>0. ~(checks[c].at > n) /\ checks[c].phase # "idle"
    BY <1>5 DEF NodeMissing, NodeUnknown, Done
  <2>1. checks[c].at <= n /\ checks[c].phase # "idle"
    BY <1>1, <1>2, <2>0 DEF Check
  <2>2. Check(NextNode(checks[c], FALSE))
    BY <1>4, <2>1
  <2>3. QED
    BY <1>5, <2>2 DEF NodeMissing, NodeUnknown
<1>6. CASE NodeAsked(c) \/ NodeAnswers(c)
  <2>1. PICK to \in {"awaits", "active", "other"} : checks' = [checks EXCEPT ![c].phase = to]
    BY <1>6 DEF NodeAsked, NodeAnswers, Answers
  <2> DEFINE k == [checks[c] EXCEPT !.phase = to]
  <2>2. checks' = [checks EXCEPT ![c] = k]
    BY <1>2, <2>1 DEF Check, ChecksTyped
  <2>3. Check(k)
    BY <1>1, <1>2, <1>6 DEF NodeAsked, NodeAnswers, Check, Found, Done, Asked
  <2>4. QED
    BY <2>2, <2>3
<1>7. CASE AnswerTaken(c)
  <2>1. /\ checks[c].at <= n /\ checks[c].phase # "idle"
        /\ monitored_lifecycle_nodes[checks[c].at] \in checks[c].names
    BY <1>2, <1>7 DEF AnswerTaken, Check
  <2>2. Check(NextNode(checks[c], checks[c].phase = "active"))
    BY <1>4, <2>1
  <2>3. QED
    BY <1>7, <2>2 DEF AnswerTaken
<1>8. CASE CheckEnds(c)
  BY <1>8, NoCheckTyped DEF CheckEnds
<1>9. QED
  BY <1>3, <1>5, <1>6, <1>7, <1>8 DEF CheckGoesOn

LEMMA ChecksStep ==
  ASSUME ChecksTyped, [Next]_vars
  PROVE  ChecksTyped'
<1>1. CASE UNCHANGED checks
  BY <1>1 DEF ChecksTyped, Check, Found
<1>2. ASSUME NEW x \in nodes, Dies(x)
      PROVE  ChecksTyped'
  <2>1. PICK names : checks' = ChecksWithout(names)
    BY <1>2 DEF Dies
  <2>2. QED
    BY <2>1, NoCheckTyped DEF ChecksWithout, ChecksTyped, Check, Found
<1>3. CASE Watch
  <2>1. PICK c \in Checks :
          (\E by \in {"timer", "service"} : CheckBegins(c, by)) \/ CheckGoesOn(c) \/ NodeUnknown(c)
    BY <1>3 DEF Watch, Watching, Monitor
  <2>2. PICK k : Check(k) /\ checks' = [checks EXCEPT ![c] = k]
    BY <2>1, MonitorChecks
  <2>3. QED
    BY <2>2 DEF ChecksTyped, Check, Found
<1>4. ASSUME Execute \/ Abort \/ ContainerLoads \/ SimulatorPlays
      PROVE  UNCHANGED checks
  BY <1>4 DEF Execute, Executing, ExecuteDeclare, ExecuteInclude, ExecuteGroup, ExecuteEnd,
       ExecuteStart, ExecuteLoad, ExecuteHandler, Skip, Abort, ContainerLoads, SimulatorPlays
<1>5. ASSUME LifecycleManager_ \/ \E x \in nodes : Respawns(x)
      PROVE  UNCHANGED checks
  BY <1>5 DEF LifecycleManager_, ManagerStarts, BondBreaks, Configure, Activate, Respawns
<1>6. QED
  BY <1>1, <1>2, <1>3, <1>4, <1>5 DEF Next, vars

-----------------------------------------------------------------------------
(***************************************************************************)
(* The nodes: what is alive has been started, and what the lifecycle       *)
(* manager has brought up is alive.                                        *)
(***************************************************************************)
\* A lifecycle node that is configured or active is alive: neither a death,
\* nor a launch that is aborted, nor a bond that breaks leaves a state behind.
ActiveIsAlive ==
  \A n \in Range(lifecycle_nodes) : lifecycle[n] # "unconfigured" => \E x \in alive : x[2] = n

BringupInv == StatesTyped /\ ChecksTyped /\ ActiveIsAlive

LEMMA InitInv == Init => BringupInv
<1> SUFFICES ASSUME Init
             PROVE  BringupInv
  OBVIOUS
<1>1. ChecksTyped
  BY NoCheckTyped DEF Init, MonitorInit, ChecksTyped
<1>2. \A c \in Checks : checks[c].at \in 1..Len(monitored_lifecycle_nodes) + 1
  BY <1>1 DEF ChecksTyped, Check
<1>3. StatesTyped
  <2>1. /\ aborted = FALSE /\ nodes = {} /\ loading = {} /\ alive = {}
        /\ lifecycle = [n \in Range(lifecycle_nodes) |-> "unconfigured"]
        /\ manager = "off" /\ deaths = 0 /\ up_metric = 0
    BY Zenon DEF Init, MonitorInit
  <2>2. QED
    <3>1. lifecycle \in [Range(lifecycle_nodes) -> {"unconfigured", "inactive", "active"}]
      BY <2>1
    <3>2. alive \subseteq {FullName(x) : x \in nodes} /\ deaths \in 0..MaxDeaths
      BY <2>1, BringupAssumption
    <3>3. QED
      BY <1>2, <2>1, <3>1, <3>2 DEF StatesTyped
<1>4. ActiveIsAlive
  BY DEF Init, ActiveIsAlive
<1>5. QED
  BY <1>1, <1>3, <1>4 DEF BringupInv

\* Launching only adds nodes, and takes nobody's life.
LEMMA LaunchStep ==
  ASSUME StatesTyped, ActiveIsAlive, Execute \/ ContainerLoads \/ SimulatorPlays
  PROVE  StatesTyped' /\ ActiveIsAlive'
<1>1. ASSUME NEW n, NEW process
      PROVE  Resolved(n, process).respawn \in BOOLEAN
  BY DEF Resolved, Truth
<1>2. /\ UNCHANGED <<lifecycle, checks, up_metric, manager, deaths, aborted>>
      /\ alive \subseteq alive'
  BY DEF Execute, Executing, ExecuteDeclare, ExecuteInclude, ExecuteGroup, ExecuteEnd,
     ExecuteStart, ExecuteLoad, ExecuteHandler, Skip, ContainerLoads, SimulatorPlays
<1>3. /\ \A x \in nodes' \cup loading' : x.respawn \in BOOLEAN
      /\ alive' \subseteq {FullName(x) : x \in nodes'}
  <2>1. CASE UNCHANGED <<nodes, loading, alive>>
    BY <2>1 DEF StatesTyped, FullName
  <2>2. CASE ExecuteStart
    BY <2>2, <1>1 DEF ExecuteStart, StatesTyped
  <2>3. CASE ExecuteLoad
    BY <2>3, <1>1 DEF ExecuteLoad, StatesTyped
  <2>4. CASE ContainerLoads
    BY <2>4 DEF ContainerLoads, StatesTyped
  <2>5. QED
    BY <2>1, <2>2, <2>3, <2>4 DEF Execute, ExecuteDeclare, ExecuteInclude, ExecuteGroup,
       ExecuteEnd, ExecuteHandler, Skip, SimulatorPlays
<1>4. QED
  BY <1>2, <1>3 DEF StatesTyped, ActiveIsAlive

LEMMA AbortStep ==
  ASSUME StatesTyped, Abort
  PROVE  StatesTyped' /\ ActiveIsAlive'
BY DEF Abort, StatesTyped, ActiveIsAlive

LEMMA ManagerStep ==
  ASSUME StatesTyped, ActiveIsAlive, LifecycleManager_
  PROVE  StatesTyped' /\ ActiveIsAlive'
<1>1. UNCHANGED <<aborted, nodes, loading, alive, deaths, checks, up_metric>>
  BY DEF LifecycleManager_, ManagerStarts, BondBreaks, Configure, Activate
<1>2. /\ manager' \in {"off", "starting", "up", "broken", "failed"}
      /\ lifecycle' \in [Range(lifecycle_nodes) -> {"unconfigured", "inactive", "active"}]
  BY DEF LifecycleManager_, ManagerStarts, BondBreaks, Configure, Activate, StatesTyped
<1>3. ActiveIsAlive'
  <2>1. CASE AllManagedAlive
    BY <1>1, <2>1 DEF AllManagedAlive, ActiveIsAlive
  <2>2. CASE ~AllManagedAlive
    BY <1>1, <2>2 DEF LifecycleManager_, ManagerStarts, BondBreaks, Configure, Activate,
       StatesTyped, ActiveIsAlive
  <2>3. QED
    BY <2>1, <2>2
<1>4. QED
  BY <1>1, <1>2, <1>3 DEF StatesTyped, FullName

LEMMA DeathStep ==
  ASSUME StatesTyped, ChecksTyped', ActiveIsAlive, NEW x \in nodes, Dies(x)
  PROVE  StatesTyped' /\ ActiveIsAlive'
<1> DEFINE dead == IF x.process = "own" THEN {x} ELSE {y \in nodes : y.process = x.process}
           names == {y.name : y \in dead}
<1>1. /\ deaths < MaxDeaths /\ deaths' = deaths + 1
      /\ alive' = alive \ {FullName(y) : y \in dead}
      /\ lifecycle' = [n \in DOMAIN lifecycle |->
                         IF n \in names THEN "unconfigured" ELSE lifecycle[n]]
      /\ manager' = IF "lifecycle_manager_navigation" \in names THEN "failed" ELSE manager
      /\ UNCHANGED <<aborted, nodes, loading, up_metric>>
  BY DEF Dies
<1>2. \A y \in dead : FullName(y)[2] \in names
  BY DEF FullName
<1>3. ActiveIsAlive'
  <2> SUFFICES ASSUME NEW n \in Range(lifecycle_nodes), lifecycle'[n] # "unconfigured"
               PROVE  \E z \in alive' : z[2] = n
    BY DEF ActiveIsAlive
  <2>1. n \notin names /\ lifecycle[n] # "unconfigured"
    BY <1>1 DEF StatesTyped
  <2>2. PICK z \in alive : z[2] = n
    BY <2>1 DEF ActiveIsAlive
  <2>3. z \in alive'
    BY <1>1, <1>2, <2>1, <2>2
  <2>4. QED
    BY <2>2, <2>3
<1>4. \A c \in Checks : checks'[c].at \in 1..Len(monitored_lifecycle_nodes) + 1
  BY DEF ChecksTyped, Check
<1> HIDE DEF names, dead
<1>5. StatesTyped'
  BY <1>1, <1>4, BringupAssumption DEF StatesTyped, FullName
<1>6. QED
  BY <1>3, <1>5

LEMMA RespawnStep ==
  ASSUME StatesTyped, ActiveIsAlive, NEW x \in nodes, Respawns(x)
  PROVE  StatesTyped' /\ ActiveIsAlive'
BY DEF Respawns, StatesTyped, ActiveIsAlive, FullName

LEMMA WatchStep ==
  ASSUME StatesTyped, ChecksTyped', ActiveIsAlive, Watch
  PROVE  StatesTyped' /\ ActiveIsAlive'
<1>1. UNCHANGED <<aborted, nodes, loading, alive, lifecycle, manager, deaths>>
  BY DEF Watch, Watching, Monitor
<1>2. up_metric' \in {0, 1}
  BY DEF Watch, Watching, Monitor, CheckBegins, CheckGoesOn, NodeMissing, NodeAsked,
     NodeUnknown, NodeAnswers, AnswerTaken, CheckEnds, StatesTyped
<1>3. \A c \in Checks : checks'[c].at \in 1..Len(monitored_lifecycle_nodes) + 1
  BY DEF ChecksTyped, Check
<1>4. QED
  BY <1>1, <1>2, <1>3 DEF StatesTyped, ActiveIsAlive, FullName

LEMMA BringupStep == BringupInv /\ [Next]_vars => BringupInv'
<1> SUFFICES ASSUME BringupInv, [Next]_vars
             PROVE  BringupInv'
  OBVIOUS
<1>1. ChecksTyped'
  BY ChecksStep DEF BringupInv
<1>2. CASE UNCHANGED vars
  BY <1>2 DEF vars, BringupInv, StatesTyped, ActiveIsAlive, ChecksTyped, Check, Found, FullName
<1>3. CASE Next
  BY <1>1, <1>3, LaunchStep, AbortStep, ManagerStep, DeathStep, RespawnStep, WatchStep
     DEF BringupInv, Next
<1>4. QED
  BY <1>2, <1>3

LEMMA BringupCorrect == Spec => []BringupInv
<1>1. QED
  BY InitInv, BringupStep, PTL DEF Spec

\* The states of the launch system, the lifecycle manager and the monitor are
\* of their types, whatever the files say (the part of TypeOK that is not
\* about the configurations in the files).
THEOREM StatesTypedCorrect == Spec => []StatesTyped
<1>1. BringupInv => StatesTyped
  BY DEF BringupInv
<1>2. QED
  BY <1>1, BringupCorrect, PTL

\* The theorem of ActiveIsAlive: the states get_lifecycle_node_state asks for
\* are of nodes that are there, whatever has died or been started again.
THEOREM ActiveCorrect == Spec => []ActiveIsAlive
<1>1. BringupInv => ActiveIsAlive
  BY DEF BringupInv
<1>2. QED
  BY <1>1, BringupCorrect, PTL

-----------------------------------------------------------------------------
(***************************************************************************)
(* The monitor.  The names a check took grow old while it asks one         *)
(* lifecycle node after another.                                           *)
(***************************************************************************)
\* The gauge changes only when a check of the timer ends that has been through
\* all lifecycle nodes, and goes up only when that check took the names of all
\* the nodes: checks of the service that run beside it never set it
\* (timer_callback, check_nodes_callback).
GaugeOfFullCheck ==
  [][up_metric' # up_metric =>
       \E c \in Checks :
         /\ checks[c].by = "timer" /\ Done(c)
         /\ up_metric' = 1 => /\ monitored_nodes \subseteq checks[c].names
                              /\ Range(monitored_lifecycle_nodes) \subseteq checks[c].names]_vars

\* The theorem of GaugeOfFullCheck: timer_callback sets the gauge from a check
\* of all nodes, and check_nodes_callback does not touch it.
THEOREM GaugeCorrect == Spec => GaugeOfFullCheck
<1> DEFINE Full(c) ==
      /\ checks[c].by = "timer" /\ Done(c)
      /\ up_metric' = 1 => /\ monitored_nodes \subseteq checks[c].names
                           /\ Range(monitored_lifecycle_nodes) \subseteq checks[c].names
<1>1. ASSUME BringupInv, Next, up_metric' # up_metric
      PROVE  \E c \in Checks : Full(c)
  <2>1. PICK c \in Checks : CheckEnds(c)
    BY <1>1 DEF Next, Execute, Executing, ExecuteDeclare, ExecuteInclude, ExecuteGroup,
       ExecuteEnd, ExecuteStart, ExecuteLoad, ExecuteHandler, Skip, Abort, ContainerLoads,
       SimulatorPlays, LifecycleManager_, ManagerStarts, BondBreaks, Configure, Activate,
       Dies, Respawns, Watch, Watching, Monitor, CheckBegins, CheckGoesOn, NodeMissing, NodeAsked,
       NodeUnknown, NodeAnswers, AnswerTaken
  <2>2. Check(checks[c])
    BY <1>1 DEF BringupInv, ChecksTyped
  <2>3. /\ checks[c].phase = "asks" /\ checks[c].by = "timer" /\ Done(c)
        /\ up_metric' = 1 => checks[c].healthy
    BY <1>1, <2>1 DEF CheckEnds
  <2>4. ASSUME up_metric' = 1
        PROVE  /\ monitored_nodes \subseteq checks[c].names
               /\ Range(monitored_lifecycle_nodes) \subseteq checks[c].names
    <3>1. Found(checks[c])
      BY <2>2, <2>3, <2>4 DEF Check
    <3>2. checks[c].at = Len(monitored_lifecycle_nodes) + 1
      BY <2>2, <2>3, LifecycleNodesCount DEF Check, Done
    <3>3. \A j \in 1..Len(monitored_lifecycle_nodes) :
            monitored_lifecycle_nodes[j] \in checks[c].names
      BY <3>1, <3>2, LifecycleNodesCount DEF Found
    <3>4. QED
      BY <3>1, <3>3, MonitorAssumption DEF Found, Range
  <2>5. QED
    BY <2>3, <2>4
<1>2. QED
  BY <1>1, BringupCorrect, PTL DEF Spec, GaugeOfFullCheck, vars
=============================================================================
