CONSTANTS
  Names = {"a.txt", "dir"}
  Shown <- MCShown
  Data = {"x", "y"}
  RootEntries = 2
  LastCluster = 4
  Shell = shell
  Kids = {kid}
  Background = FALSE
SPECIFICATION Spec
INVARIANTS TypeOK OnCourse DiskIsInOrder LsIsComplete
PROPERTIES FilesAreWhole PromptReturns
