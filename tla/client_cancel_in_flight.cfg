SPECIFICATION Spec
CONSTANTS
  o1 = o1
  long = long
  o2 = o2
  empty = empty
  soft = soft
  none = none
  hard = hard
  note = note
  last = last
  cancel1 = cancel1
  cancel2 = cancel2
  startPause = startPause
  pause2 = pause2
  stopPause = stopPause
  startTeleop = startTeleop
  stopTeleop = stopTeleop
  factsheet = factsheet
  work = work
  odd = odd
  NoOrder = NoOrder
  OrderActionIds <- MCOrderActionIds
  NoAction = NoAction
  NodeCount <- MCNodeCount
  NodeActions <- MCNodeActions
  ExactNodes <- MCExactNodes
  BlockingType <- MCBlockingType
  ActionType <- MCActionType
  NoGoal = NoGoal
  Orders = {o1}
  InstantIds = {cancel1}
  SoftType = "example"
  NoneType = "example"
  HardType = "example"
  LastType = "unknown"
  GoalSlots = {g1, g2}
  MaxDeliveries = 1
  Rerun = FALSE
  PromptAck = FALSE
  FeedbackMin = 1
  Outcomes = {"SUCCEEDED"}
  MayReject = FALSE
  MayFail = {}
  FatalJobs = {}
  Batches = FALSE
PROPERTY CancelFinishesLast
CHECK_DEADLOCK FALSE
