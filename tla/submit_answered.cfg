CONSTANTS
  MaxHeight = 4
  PopCount = 1
  MaxRetries = 2
  Free = Free
SPECIFICATION Spec
PROPERTIES
  SubmittedBlockAnswered
CHECK_DEADLOCK FALSE
