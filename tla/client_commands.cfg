SPECIFICATION Spec
CONSTANTS
  o1 = o1
  long = long
  o2 = o2
  empty = empty
  soft = soft
  none = none
  hard = hard
  note = note
  last = last
  cancel1 = cancel1
  cancel2 = cancel2
  startPause = startPause
  pause2 = pause2
  stopPause = stopPause
  startTeleop = startTeleop
  stopTeleop = stopTeleop
  factsheet = factsheet
  work = work
  odd = odd
  NoOrder = NoOrder
  OrderActionIds <- MCOrderActionIds
  NoAction = NoAction
  NodeCount <- MCNodeCount
  NodeActions <- MCNodeActions
  ExactNodes <- MCExactNodes
  BlockingType <- MCBlockingType
  ActionType <- MCActionType
  NoGoal = NoGoal
  Orders = {long, o2, empty}
  InstantIds = {cancel1, startPause, stopPause}
  SoftType = "example"
  NoneType = "pausable"
  HardType = "example"
  LastType = "pause_order"
  GoalSlots = {g1, g2}
  MaxDeliveries = 1
  Rerun = FALSE
  PromptAck = TRUE
  FeedbackMin = 1
  Outcomes = {"SUCCEEDED", "ABORTED", "CANCELED"}
  MayReject = TRUE
  MayFail = {"tf", "status_check", "nav_server", "order_json"}
  FatalJobs = {}
  Batches = TRUE
INVARIANT GoalMatchesOrder
INVARIANT NoDrivingWhileBlocked
INVARIANT IdleMeansOver
INVARIANT PausedMeansQuiet
PROPERTY ExecutesOrders
PROPERTY ProgressNeverGoesBack
CHECK_DEADLOCK FALSE
