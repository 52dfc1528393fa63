SPECIFICATION Spec
CONSTANTS
  MaxJobs = 2
  Timeout = 2
  Honest = TRUE
  Responsive = FALSE
  None = None
PROPERTIES
  SpentEndsCheck
CHECK_DEADLOCK FALSE
