SPECIFICATION LiveSpec
CONSTANTS
  Qty = 2
  Sessions = {s1}
  Drafts = {d1, d2}
  NoDraft = NoDraft
  BatchSize = 2
PROPERTIES
  ReachedIsConfirmed
  FinishedIsRecorded
CHECK_DEADLOCK FALSE
