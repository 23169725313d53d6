SPECIFICATION Spec
CONSTANTS
  o1 = o1
  long = long
  o2 = o2
  empty = empty
  soft = soft
  none = none
  hard = hard
  note = note
  last = last
  cancel1 = cancel1
  cancel2 = cancel2
  startPause = startPause
  pause2 = pause2
  stopPause = stopPause
  startTeleop = startTeleop
  stopTeleop = stopTeleop
  factsheet = factsheet
  work = work
  odd = odd
  NoOrder = NoOrder
  OrderActionIds <- MCOrderActionIds
  NoAction = NoAction
  NodeCount <- MCNodeCount
  NodeActions <- MCNodeActions
  ExactNodes <- MCExactNodes
  BlockingType <- MCBlockingType
  ActionType <- MCActionType
  NoGoal = NoGoal
  Orders = {o2}
  InstantIds = {cancel1, startTeleop, stopTeleop}
  SoftType = "example"
  NoneType = "handled"
  HardType = "example"
  LastType = "example"
  GoalSlots = {g1, g2}
  MaxDeliveries = 2
  Rerun = TRUE
  PromptAck = FALSE
  FeedbackMin = 0
  Outcomes = {"SUCCEEDED", "ABORTED", "UNKNOWN"}
  MayReject = TRUE
  MayFail = {"nav_server"}
  FatalJobs = {last}
  Batches = FALSE
INVARIANT TypeOK
INVARIANT RunningHasAJob
INVARIANT HandleIsLive
SYMMETRY Symmetry
CHECK_DEADLOCK FALSE
