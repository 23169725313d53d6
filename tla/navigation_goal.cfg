SPECIFICATION FairSpec
CONSTANTS
  Width = 3
  Height = 4
  FreeThresh = 49
  Images <- MCImages
  GoalFiles <- MCGoalFiles
  Distance = 1
  MAX_ITERATION_COUNT = 2
INVARIANTS
  GoalsFree
  GoalsInTurn
PROPERTIES
  NodeEnds
CHECK_DEADLOCK FALSE
