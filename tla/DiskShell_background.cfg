\* The shell and a child with its own vnode, on one file offset.
CONSTANTS
  Names = {"a.txt", "dir"}
  Shown <- MCShown
  Data = {"x"}
  RootEntries = 2
  LastCluster = 3
  Shell = shell
  Kids = {kid}
  Background = TRUE
SPECIFICATION Spec
CHECK_DEADLOCK FALSE
INVARIANT DataGoesToItsCluster
