--------------------------- MODULE SceneRecorder ---------------------------
(***************************************************************************)
(* The recorder action server (isaac_ros_scene_recorder): the executor     *)
(* runs the callbacks of the two actions, each recording has a Timer whose *)
(* thread runs stop_recording beside it, and no lock keeps them apart.     *)
(* Recordings are numbered; a recording's number also stands for the pid   *)
(* of its process and for its Timer.                                       *)
(***************************************************************************)
EXTENDS Naturals, FiniteSets

CONSTANT MaxRecordings \* bound: recordings started

ASSUME RecorderAssumption == MaxRecordings \in Nat \ {0}

VARIABLES
  recording, process_pid, stop_recording_timer, \* of the node; 0 is None
  started,   \* how many recordings were started
  recorders, \* the processes that record
  timers,    \* states of the Timers: "none", "waiting", "runs", "over"
  pc,        \* where the threads are: 0 is the executor, n the n-th Timer
  signalled, \* pids that were sent SIGINT; 0 is the node itself
  crossed    \* history: the recordings that another one's Timer was left beside

Recordings == 1..MaxRecordings
Threads    == 0..MaxRecordings
recorderVars ==
  <<recording, process_pid, stop_recording_timer, started, recorders, timers, pc, signalled, crossed>>

RecorderInit ==
  /\ recording = FALSE
  /\ process_pid = 0
  /\ stop_recording_timer = 0
  /\ started = 0
  /\ recorders = {}
  /\ timers = [n \in Recordings |-> "none"]
  /\ pc = [t \in Threads |-> "idle"]
  /\ signalled = {}
  /\ crossed = {}

Goes(t, to) == pc' = [pc EXCEPT ![t] = to]

\* rclpy shuts down on SIGINT, and the executor takes no more goals.
Up == 0 \notin signalled
-----------------------------------------------------------------------------
(* start_recording, on the executor.  A goal whose path exists and one     *)
(* that comes while a recording runs change nothing.                       *)

\* A Timer is in stop_recording, or waits because one that was missed its end.
TimerLeft == \E n \in Recordings : timers[n] = "runs" \/ (timers[n] = "waiting" /\ n \in crossed)

StartRecording ==
  /\ pc[0] = "idle" /\ Up
  /\ ~recording
  /\ started < MaxRecordings
  /\ started' = started + 1
  /\ recorders' = recorders \cup {started'}
  /\ crossed' = IF TimerLeft THEN crossed \cup {started'} ELSE crossed
  /\ Goes(0, "opened")
  /\ UNCHANGED <<recording, process_pid, stop_recording_timer, timers, signalled>>

PidKept ==
  /\ pc[0] = "opened"
  /\ process_pid' = started
  /\ Goes(0, "known")
  /\ UNCHANGED <<recording, stop_recording_timer, started, recorders, timers, signalled, crossed>>

RecordingSet ==
  /\ pc[0] = "known"
  /\ recording' = TRUE
  /\ Goes(0, "arms")
  /\ UNCHANGED <<process_pid, stop_recording_timer, started, recorders, timers, signalled, crossed>>

\* A mutant: the Timer is only created.
StartTimerForgotten ==
  /\ pc[0] = "arms"
  /\ stop_recording_timer' = started
  /\ Goes(0, "idle")
  /\ UNCHANGED <<recording, process_pid, started, recorders, timers, signalled, crossed>>

StartTimer ==
  /\ pc[0] = "arms"
  /\ stop_recording_timer' = started
  /\ timers' = [timers EXCEPT ![started] = "waiting"]
  /\ Goes(0, "idle")
  /\ UNCHANGED <<recording, process_pid, started, recorders, signalled, crossed>>
-----------------------------------------------------------------------------
(* stop_recording, on thread t.                                            *)

StopRequested ==
  /\ pc[0] = "idle" /\ Up
  /\ Goes(0, "stops")
  /\ UNCHANGED <<recording, process_pid, stop_recording_timer, started, recorders, timers, signalled, crossed>>

TimerFires(n) ==
  /\ timers[n] = "waiting"
  /\ timers' = [timers EXCEPT ![n] = "runs"]
  /\ Goes(n, "stops")
  /\ UNCHANGED <<recording, process_pid, stop_recording_timer, started, recorders, signalled, crossed>>

\* The pid is not None.
PidChecked(t) ==
  /\ pc[t] = "stops"
  /\ Goes(t, IF process_pid # 0 THEN "signals" ELSE "clears")
  /\ UNCHANGED <<recording, process_pid, stop_recording_timer, started, recorders, timers, signalled, crossed>>

\* The process with a pid and its children; psutil takes None for the process
\* that asks, whose children are the recorders.
Family(pid) == {pid} \cup IF pid = 0 THEN recorders ELSE {}

\* signal_process with the pid there is now asks them to end.
SignalProcess(t) ==
  /\ pc[t] = "signals"
  /\ signalled' = signalled \cup Family(process_pid)
  /\ Goes(t, "forgets")
  /\ UNCHANGED <<recording, process_pid, stop_recording_timer, started, recorders, timers, crossed>>

\* When stop_recording is left, by its end or an exception, a Timer's thread
\* is over; rclpy reports the exception of an action and spins on.
Left(t, timersThen) ==
  /\ timers' = IF t = 0 THEN timersThen ELSE [timersThen EXCEPT ![t] = "over"]
  /\ Goes(t, "idle")

\* psutil.NoSuchProcess: the process, or a child of it, is gone by the time it
\* is signalled.
SignalFails(t) ==
  /\ pc[t] = "signals"
  /\ process_pid # 0
  /\ Left(t, timers)
  /\ UNCHANGED <<recording, process_pid, stop_recording_timer, started, recorders, signalled, crossed>>

PidForgotten(t) ==
  /\ pc[t] = "forgets"
  /\ process_pid' = 0
  /\ Goes(t, "clears")
  /\ UNCHANGED <<recording, stop_recording_timer, started, recorders, timers, signalled, crossed>>

RecordingCleared(t) ==
  /\ pc[t] = "clears"
  /\ recording' = FALSE
  /\ Goes(t, "cancels")
  /\ UNCHANGED <<process_pid, stop_recording_timer, started, recorders, timers, signalled, crossed>>

\* A mutant: Timers are left to fire.
CancelledNever == timers

\* A Timer that waits is cancelled; a running one does not notice.
Cancelled ==
  IF stop_recording_timer # 0 /\ timers[stop_recording_timer] = "waiting"
  THEN [timers EXCEPT ![stop_recording_timer] = "over"]
  ELSE timers

TimerCancelled(t) ==
  /\ pc[t] = "cancels"
  /\ Left(t, Cancelled)
  /\ UNCHANGED <<recording, process_pid, stop_recording_timer, started, recorders, signalled, crossed>>

\* A recorder ends: it was asked to, or something fails (a full disk, no such
\* topics).  The node is not told.
RecorderEnds(n) ==
  /\ n \in recorders
  /\ recorders' = recorders \ {n}
  /\ UNCHANGED <<recording, process_pid, stop_recording_timer, started, timers, pc, signalled, crossed>>

StopGoesOn(t) ==
  \/ PidChecked(t) \/ SignalProcess(t) \/ SignalFails(t) \/ PidForgotten(t) \/ RecordingCleared(t)
  \/ TimerCancelled(t)

StartGoesOn == PidKept \/ RecordingSet \/ StartTimer

RecorderNext ==
  \/ StartRecording \/ StartGoesOn \/ StopRequested
  \/ \E n \in Recordings : TimerFires(n) \/ RecorderEnds(n)
  \/ \E t \in Threads : StopGoesOn(t)

\* The threads run, a Timer that is not cancelled fires, and a recorder that was
\* sent SIGINT ends.
RecorderFairness ==
  /\ WF_recorderVars(StartGoesOn)
  /\ \A n \in Recordings : WF_recorderVars(TimerFires(n))
  /\ \A n \in Recordings : WF_recorderVars(n \in signalled /\ RecorderEnds(n))
  /\ \A t \in Threads : WF_recorderVars(StopGoesOn(t))
-----------------------------------------------------------------------------
(* Properties.                                                             *)

\* Calls and Timers run beside each other; still, whatever records and has not
\* been asked to end is the recording started last, with the flag, the pid
\* and the Timer that stop_recording needs to end it, and no other Timer will end
\* it.  The exception are recordings that started beside the Timer of an earlier
\* one: that one may forget the new pid, clear the new flag or cancel the
\* new Timer (start_recording, stop_recording).
RecorderKnown ==
  \A n \in recorders \ (signalled \cup crossed) :
    /\ n = started
    /\ pc[0] \in {"opened", "known", "arms"} \/
         (recording /\ process_pid = n /\ stop_recording_timer = n /\ timers[n] # "none")
    /\ \A m \in Recordings \ {n} : timers[m] \notin {"waiting", "runs"}

\* The node has a recording that its Timer failed to end: a stop action may.
LeftToStop(n) == recording /\ process_pid = n /\ timers[n] = "over"

\* Every recording that did not start beside another one's Timer ends, by an action or by
\* its Timer, unless signalling it raises an exception; then the node has kept
\* what a stop action needs (time_out, signal_process).
RecordingEnds ==
  \A n \in Recordings : n \in recorders ~> n \notin recorders \/ n \in crossed \/ LeftToStop(n)

\* A claim: "Kill ROS bag recording process." (signal_process): nothing else is
\* sent the signal.
OnlyRecordersSignalled == 0 \notin signalled
=============================================================================
