\* Three children: a pipeline beside a job, or a foreground command beside two.
CONSTANTS
  Pids = {p1, p2, p3}
  Shell = Shell
SPECIFICATION Spec
\* The shell has used a freed job, or waits for a child that stays stopped.
CHECK_DEADLOCK FALSE
INVARIANTS TypeOK TerminalIsReturned NoReportIsLost StoppedMarkIsTrue NoJobIsForgotten
PROPERTIES PromptReturns KeepsControl
