SPECIFICATION LiveSpec
CONSTANTS
  Sessions = {s1, s2}
  Drafts = {d1, d2}
  BatchSize = 1
  Fills = {1, 2}
INVARIANTS
  TurnsAreShared
  ReadableIsComplete
PROPERTIES
  CatchesUp
