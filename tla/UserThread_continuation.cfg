\* Two threads, one of which joins the other; one priority, above INT_MIN.
CONSTANTS
  MaxThreads = 2
  Priorities = {1}
  IntMin = 0
SPECIFICATION Spec
CHECK_DEADLOCK FALSE
PROPERTY ThreadsGoOn
