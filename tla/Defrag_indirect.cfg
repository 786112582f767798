\* An i3block whose lowest index blocks list one block and two.
CONSTANTS
  Inodes = 2
  Images <- MCTriples
SPECIFICATION Spec
\* The program ends.
CHECK_DEADLOCK FALSE
INVARIANT FilesReadAsBefore
