---------------------------- MODULE NodeMonitor ----------------------------
(***************************************************************************)
(* The Mega node monitor: a timer and a service start checks, which the    *)
(* reentrant callback group lets run beside each other.  A check takes the *)
(* names of all nodes once, and then asks one lifecycle node after another *)
(* for its state; nodes die and change state in between.                   *)
(***************************************************************************)
EXTENDS Naturals, Sequences, SequencesExt

CONSTANTS
  monitored_nodes,            \* the set of the regular nodes
  monitored_lifecycle_nodes,  \* the sequence of the lifecycle nodes
  Checks,                     \* bound: checks at a time, as 1..n
  EnableMetrics               \* enable_metrics, with the environment it needs

ASSUME MonitorAssumption ==
  /\ monitored_lifecycle_nodes \in Seq(STRING)
  /\ 1 \in Checks /\ Checks \subseteq Nat
  /\ EnableMetrics \in BOOLEAN

VARIABLES
  alive,      \* the nodes the ROS graph shows: pairs <<namespace, name>>
  lifecycle,  \* states of the lifecycle nodes
  checks,     \* the checks under way
  up_metric   \* the gauge "up"

monitorVars == <<checks, up_metric>>

\* A check: whether it is to ask the next node ("asks"), has sent the request
\* ("awaits") or has an answer to resume with ("active", "other"), the names it
\* took, the position in monitored_lifecycle_nodes, and whether all nodes so
\* far were alive and active.
NoCheck == [phase |-> "idle", by |-> "timer", names |-> {}, at |-> 1, healthy |-> TRUE]

MonitorInit ==
  /\ checks = [c \in Checks |-> NoCheck]
  /\ up_metric = 0

\* get_formatted_node_names, check_node_exists: a name of the configuration
\* is looked for in the root namespace.
Present == {x[2] : x \in {y \in alive : y[1] = ""}}

\* timer_callback and check_nodes_callback begin with check_all_nodes, which
\* looks for the regular nodes at once.  The first check is the timer's.
CheckBegins(c, by) ==
  /\ checks[c].phase = "idle"
  /\ by = "timer" => EnableMetrics
  /\ c = 1 => by = "timer"
  /\ checks' = [checks EXCEPT ![c] =
                  [phase |-> "asks", by |-> by, names |-> Present, at |-> 1,
                   healthy |-> monitored_nodes \subseteq Present]]
  /\ UNCHANGED up_metric

Asked(c) == monitored_lifecycle_nodes[checks[c].at]

Done(c) == checks[c].at > Len(monitored_lifecycle_nodes)

\* Check k goes on to the next node after one that is well or not.
NextNode(k, well) ==
  [phase |-> "asks", by |-> k.by, names |-> k.names, at |-> k.at + 1,
   healthy |-> k.healthy /\ well]

\* The next lifecycle node is not among the names, or it is gone and its
\* get_state service does not appear.
NodeMissing(c) ==
  /\ checks[c].phase = "asks"
  /\ ~Done(c)
  /\ Asked(c) \notin checks[c].names \cap Present
  /\ checks' = [checks EXCEPT ![c] = NextNode(@, FALSE)]
  /\ UNCHANGED up_metric

\* get_lifecycle_node_state sends the request and awaits the answer.
NodeAsked(c) ==
  /\ checks[c].phase = "asks"
  /\ ~Done(c)
  /\ Asked(c) \in checks[c].names \cap Present
  /\ checks' = [checks EXCEPT ![c].phase = "awaits"]
  /\ UNCHANGED up_metric

\* The node is there and its state remains unknown: its service does not appear
\* within the 0.2 s of wait_for_service, or an exception is caught.
NodeUnknown(c) ==
  /\ checks[c].phase \in {"asks", "awaits"}
  /\ ~Done(c)
  /\ Asked(c) \in checks[c].names \cap Present
  /\ checks' = [checks EXCEPT ![c] = NextNode(@, FALSE)]
  /\ UNCHANGED up_metric

\* A mutant: an answer is enough.
AnswersAlive(c) == "active"

Answers(c) == IF lifecycle[Asked(c)] = "active" THEN "active" ELSE "other"

\* The node's side of the request.
NodeAnswers(c) ==
  /\ checks[c].phase = "awaits"
  /\ checks' = [checks EXCEPT ![c].phase = Answers(c)]
  /\ UNCHANGED up_metric

\* The coroutine resumes with the answer, whatever has become of the node.
AnswerTaken(c) ==
  /\ checks[c].phase \in {"active", "other"}
  /\ checks' = [checks EXCEPT ![c] = NextNode(@, checks[c].phase = "active")]
  /\ UNCHANGED up_metric

\* The result: the timer's sets the gauge, the service's is the response.
CheckEnds(c) ==
  /\ checks[c].phase = "asks"
  /\ Done(c)
  /\ checks' = [checks EXCEPT ![c] = NoCheck]
  /\ up_metric' = IF checks[c].by = "timer" THEN (IF checks[c].healthy THEN 1 ELSE 0) ELSE up_metric

\* The checks that are left when nodes die: nothing bounds the await of an
\* answer, so a check that still awaits one of theirs never goes on, and is left
\* out.  One that has been answered resumes.
ChecksWithout(names) ==
  [c \in Checks |->
     IF checks[c].phase = "awaits" /\ Asked(c) \in names THEN NoCheck ELSE checks[c]]

CheckGoesOn(c) == NodeMissing(c) \/ NodeAsked(c) \/ NodeAnswers(c) \/ AnswerTaken(c) \/ CheckEnds(c)

Monitor ==
  \E c \in Checks :
    (\E by \in {"timer", "service"} : CheckBegins(c, by)) \/ CheckGoesOn(c) \/ NodeUnknown(c)

Healthy ==
  /\ monitored_nodes \subseteq Present
  /\ \A n \in Range(monitored_lifecycle_nodes) : n \in Present /\ lifecycle[n] = "active"
=============================================================================
