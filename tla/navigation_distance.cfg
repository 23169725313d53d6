SPECIFICATION Spec
CONSTANTS
  Width = 3
  Height = 4
  FreeThresh = 49
  Images <- MCImages
  GoalFiles <- MCGoalFiles
  Distance = 1
  MAX_ITERATION_COUNT = 2
INVARIANTS
  GoalsKeepDistance
CHECK_DEADLOCK FALSE
