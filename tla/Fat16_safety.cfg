\* Three entries and four clusters: the directory and the disk can each fill up
\* first, and a truncated file can find the directory full or not.
CONSTANTS
  Names = {"a.txt", "longfile.txt", "longfile2.txt", "dir"}
  Shown <- MCShown
  Data = {"x", "y"}
  RootEntries = 3
  LastCluster = 5
  Calls = {"read", "write", "truncate", "remove", "mkdir"}
SPECIFICATION Spec
\* After fat16_remove and a write that follows it no call does anything.
CHECK_DEADLOCK FALSE
INVARIANTS TypeOK ClustersAreOwned OffsetIsOfOpenFile ReadsBackWrites
