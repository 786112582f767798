\* Two threads, so that main, a thread that joins and the one it joins can
\* meet; three priorities, one of them INT_MIN, for the order of dispatch.
CONSTANTS
  MaxThreads = 2
  Priorities = {0, 1, 2}
  IntMin = 0
SPECIFICATION Spec
\* A fault stops the process, and so do unsatisfiable joins before libinit.
CHECK_DEADLOCK FALSE
INVARIANTS TypeOK LockDiscipline CurrentIsOnCpu RunsOnLiveStack SavedContexts WaitTargetsExist
PROPERTIES FinishedIsFinal MainRunsLast KeepsThreadLife MainRegainsControl RunnableIsDispatched
