SPECIFICATION FairSpec
CONSTANTS
  o1 = o1
  long = long
  o2 = o2
  empty = empty
  soft = soft
  none = none
  hard = hard
  note = note
  last = last
  cancel1 = cancel1
  cancel2 = cancel2
  startPause = startPause
  pause2 = pause2
  stopPause = stopPause
  startTeleop = startTeleop
  stopTeleop = stopTeleop
  factsheet = factsheet
  work = work
  odd = odd
  NoOrder = NoOrder
  OrderActionIds <- MCOrderActionIds
  NoAction = NoAction
  NodeCount <- MCNodeCount
  NodeActions <- MCNodeActions
  ExactNodes <- MCExactNodes
  BlockingType <- MCBlockingType
  ActionType <- MCActionType
  NoGoal = NoGoal
  Orders = {o2}
  InstantIds = {cancel1, cancel2, startPause, pause2}
  SoftType = "example"
  NoneType = "handled"
  HardType = "example"
  LastType = "example"
  GoalSlots = {g1}
  MaxDeliveries = 1
  Rerun = FALSE
  PromptAck = TRUE
  FeedbackMin = 1
  Outcomes = {"SUCCEEDED", "ABORTED", "CANCELED", "UNKNOWN"}
  MayReject = TRUE
  MayFail = {"status_answer", "nav_server", "order_json", "parameters"}
  FatalJobs = {note}
  Batches = FALSE
PROPERTY OrderEnds
PROPERTY CommandsAnswered
CHECK_DEADLOCK FALSE
