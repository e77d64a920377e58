\* Every clean text of up to nine characters, with sizes in the code's order:
\* overlap < minimum < merge limit < window.
SPECIFICATION CleanSpec
CONSTANTS
  ChunkSize = 5
  ChunkOverlap = 2
  MinChunkSize = 3
  MergeLimit = 4
  TrimFrom = 30
  TrimSlack = 0
  KeyLength = 3
  Letters = {"x", ".", "_", "n"}
  MaxLen = 9
INVARIANTS LossIsTrimmed WindowsCover OffsetsNeverBehind
\* Both loops end.
CHECK_DEADLOCK FALSE
