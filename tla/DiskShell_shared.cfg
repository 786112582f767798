\* The shell and a child in the background, on one file offset.
CONSTANTS
  Names = {"a.txt"}
  Shown <- MCPlain
  Data = {"x"}
  RootEntries = 2
  LastCluster = 3
  Shell = shell
  Kids = {kid}
  Background = TRUE
SPECIFICATION Spec
INVARIANTS EntriesLead
CHECK_DEADLOCK FALSE
