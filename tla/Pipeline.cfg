\* Blocks of three bytes or chunks, files of two blocks, a FileWriter between two
\* other elements, two raising calls.
SPECIFICATION Spec
CONSTANTS
  Limit = 3
  ChunksPerFile = 2
  Elements = 3
  Writer = 2
  MaxBytes = 12
  MaxData = 7
  MaxFailures = 2
INVARIANTS
  TypeOK
  NoGap
  BlockSizes
  FinishedGaveAll
  FilesHoldBlocks
\* The stream is over once the segmenter has finished.
CHECK_DEADLOCK FALSE
