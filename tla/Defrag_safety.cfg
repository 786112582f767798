\* Two files, so that a block of one can be written over while the other moves;
\* lists of two, which have a first block and another.
CONSTANTS
  Inodes = 2
  Images <- MCImages
SPECIFICATION Spec
\* The program ends.
CHECK_DEADLOCK FALSE
INVARIANTS TypeOK EveryNumberIsWritten ListedBlocksSurvive FilesAreSequential 
