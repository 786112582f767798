CONSTANTS
  Pids = {p1, p2, p3}
  Shell = Shell
SPECIFICATION Spec
CHECK_DEADLOCK FALSE
PROPERTY PipelineIsWaitedFor
